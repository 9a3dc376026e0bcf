CONSTANTS
  Signals = {"s1", "s2"}
  Masks = {{}, {"s1"}, {"s1", "s2"}}
SPECIFICATION Spec
INVARIANTS
  TypeOK
  NoErrnoLeak
  MaskRestored
  EintrOnlyAfterHandler
  NoResumeAfterHandler
CHECK_DEADLOCK FALSE
