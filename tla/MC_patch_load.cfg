SPECIFICATION FairSpec
CONSTANTS
  Devices = {a, b}
  Straps = {"mid5", "mid29", "spi"}
  Blocks = 3
  Tries = 3
  Faulty = TRUE
INVARIANTS
  TypeOK
  WholeImage
  SameWay
PROPERTIES
  LoadsAnswered
