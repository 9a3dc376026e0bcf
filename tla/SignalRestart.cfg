CONSTANTS
  Signals = {"s1"}
  Masks = {{}}
SPECIFICATION Spec
INVARIANT RestartsWithItsArguments
CHECK_DEADLOCK FALSE
