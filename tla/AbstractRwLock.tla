--------------------------- MODULE AbstractRwLock ---------------------------
(***************************************************************************)
(* What a reader/writer lock promises its users, with no lock word and no  *)
(* instructions: the set of contexts that hold it for reading and the set  *)
(* that holds it for writing, each entered in one atomic step.             *)
(***************************************************************************)
CONSTANT Contexts

VARIABLES readers, writers

Init ==
  /\ readers = {}
  /\ writers = {}

(* A reader enters when no writer is inside; a writer enters when nobody is. *)
ReadAcquire(x) ==
  /\ writers = {} /\ x \notin readers
  /\ readers' = readers \cup {x}
  /\ UNCHANGED writers

WriteAcquire(x) ==
  /\ readers = {} /\ writers = {}
  /\ writers' = {x}
  /\ UNCHANGED readers

ReadRelease(x) ==
  /\ x \in readers
  /\ readers' = readers \ {x}
  /\ UNCHANGED writers

WriteRelease(x) ==
  /\ x \in writers
  /\ writers' = writers \ {x}
  /\ UNCHANGED readers

Next ==
  \E x \in Contexts :
     ReadAcquire(x) \/ WriteAcquire(x) \/ ReadRelease(x) \/ WriteRelease(x)

Spec == Init /\ [][Next]_<<readers, writers>>
=============================================================================
