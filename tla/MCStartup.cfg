CONSTANTS
  NumHarts = 4
  NR_CPUS = 3
  Word = 4
  timebase = 7
  Million = 4
  Requests = {1, 3}
  MaxCycles = 8
  Configs <- MCConfigs
  Numbers <- MCNumbers
  Quoted <- MCQuoted
  Half = 6
  Digits <- MCDigits
  Length = 4
SPECIFICATION MCSpec
INVARIANTS
  HartsStartClean
  TimeKept
  ArithmeticExact
  LastPassFits
  DevicesFound
  KeysFound
PROPERTIES
  HartsComeUp
CHECK_DEADLOCK FALSE
