SPECIFICATION FairSpec
CONSTANTS
  Threads = {t1, t2}
  Addrs <- Addresses
  Words = {0, 1}
  Requests <- Calls
  BurstMax = 2
  SizeMod = 4
  Try = 2
  Unchecked = TRUE
INVARIANTS
  TypeOK
  MutualExclusion
  CommandsOwned
PROPERTIES
  AtomicRegisters
  CallsAnswered
