---------------------------- MODULE AbstractTasks ----------------------------
(***************************************************************************)
(* What trap entry and task switching promise to user programs: each task  *)
(* has a register context of its own, and only the running task's context  *)
(* changes, by its own instructions and by what the kernel does to it.     *)
(***************************************************************************)
EXTENDS Integers

CONSTANTS Tasks, Boot, Pcs, Values

VARIABLES ctx, running

Ctx == [pc : Pcs, a0 : Values]
NoCtx == [pc |-> -1, a0 |-> -1]

Init ==
  /\ ctx = [t \in Tasks |-> NoCtx]
  /\ running = Boot

(* The program executes an instruction or enters a system call. *)
Execute ==
  /\ ctx[running] # NoCtx
  /\ \E p \in Pcs : ctx' = [ctx EXCEPT ![running].pc = p]
  /\ UNCHANGED running

(* A system call returns a value. *)
Return ==
  /\ ctx[running] # NoCtx
  /\ \E v \in Values : ctx' = [ctx EXCEPT ![running].a0 = v]
  /\ UNCHANGED running

(* The program is replaced, or sent to a signal handler. *)
Replace ==
  /\ \E c \in Ctx : ctx' = [ctx EXCEPT ![running] = c]
  /\ UNCHANGED running

(* A child starts where its parent is, with 0 returned to it. *)
Fork ==
  \E c \in Tasks :
     /\ ctx[running] # NoCtx /\ ctx[c] = NoCtx
     /\ ctx' = [ctx EXCEPT ![c] = [ctx[running] EXCEPT !.a0 = 0]]
     /\ UNCHANGED running

Exit ==
  /\ ctx' = [ctx EXCEPT ![running] = NoCtx]
  /\ running' \in Tasks

Dispatch ==
  /\ running' \in Tasks
  /\ UNCHANGED ctx

Next ==
  Execute \/ Return \/ Replace \/ Exit \/ Dispatch \/ Fork

Spec == Init /\ [][Next]_<<ctx, running>>
=============================================================================
