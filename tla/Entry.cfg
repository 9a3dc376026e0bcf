CONSTANTS
  Boot = boot
  Tasks = {boot, t1, t2}
  MaxDepth = 3
  Pcs = {0, 1}
  Values = {0, 1}
SPECIFICATION Spec
INVARIANTS
  TypeOK
  SscratchProtocol
  StacksAreOwn
  StackShape
  UserModeReady
PROPERTIES
  SleepersUntouched
  ProgramsSpec
