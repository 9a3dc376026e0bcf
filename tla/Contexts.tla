------------------------------ MODULE Contexts ------------------------------
(***************************************************************************)
(* The flows of control of the harts.  A handler runs to its sret before   *)
(* the task it interrupted goes on (kernel/entry.S); both run on the same  *)
(* hart and share what belongs to it, such as its reservation.             *)
(***************************************************************************)
EXTENDS FiniteSets

CONSTANTS
  Contexts,   \* flows of control
  Irqs,       \* those that are interrupt handlers
  Harts,
  HartOf      \* the hart each context runs on

Tasks == Contexts \ Irqs

(* One task and one handler level per hart. *)
ASSUME ContextsAssumption ==
  /\ IsFiniteSet(Contexts)
  /\ Irqs \subseteq Contexts
  /\ HartOf \in [Contexts -> Harts]
  /\ \A i, j \in Irqs  : HartOf[i] = HartOf[j] => i = j
  /\ \A s, t \in Tasks : HartOf[s] = HartOf[t] => s = t
=============================================================================
