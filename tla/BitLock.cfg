CONSTANTS
  Cpus = {c1, c2}
  Wrap = 4
SPECIFICATION Spec
INVARIANT HandOver
