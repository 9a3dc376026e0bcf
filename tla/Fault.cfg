CONSTANTS
  Tasks = {"t1", "t2"}
  Mappers = {"t1", "t2"}
  Faulters = {"t1"}
  VmallocFromUser = FALSE
  Causes = {"EXC_LOAD_ACCESS"}
  Perms = {{}, {"VM_READ"}}
SPECIFICATION FairSpec
INVARIANTS TypeOK 
PROPERTIES OutcomeJustified 
CHECK_DEADLOCK FALSE
