CONSTANTS
  Tasks = {"t1", "t2"}
  Mappers = {"t1", "t2"}
  Faulters = {"t1"}
  VmallocFromUser = TRUE
  Causes = {"EXC_LOAD_ACCESS"}
  Perms = {{}, {"VM_READ"}}
SPECIFICATION Spec
PROPERTY VmallocTakesNoLock
CHECK_DEADLOCK FALSE
