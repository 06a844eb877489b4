SPECIFICATION Spec
CONSTANTS
  a = a
  b = b
  c = c
  t = t
  Rules = {1, 2}
  Inputs = {0}
  Counters = {0, 1}
  NoCounter = NoCounter
  m = m
  Meters = {m}
  NoMeter = NoMeter
  Keys = {a, b, c, t}
  TcamKeys = {t}
  Wanted <- Wishlist
  MacRules <- Ranges
  Tcam = {0}
  Large = {10, 11}
  Small = {20}
  HashLarge <- LargeOf
  HashSmall <- SmallOf
  Faults = {"mem", "reg", "stat"}
  MaxUse = 3
  MaxFailures = 1
  ByteMod = 4
INVARIANTS
  TypeOK
  SlotsOwned
  CountersCounted
  
  RulesInForce
  FreeCountersReadZero
PROPERTIES
  OthersUndisturbed
