------------------------------- MODULE MCIpi --------------------------------
(***************************************************************************)
(* Two kinds of traffic: two harts call functions on a third, and one of   *)
(* them wakes tasks on it, or two harts call functions on one another, and *)
(* one stops the other.                                                    *)
(***************************************************************************)
EXTENDS Ipi

CONSTANTS c1, c2, c3

VARIABLE traffic

Sends(s, k, d) ==
  IF traffic = "gather" THEN d = c3 /\ k \in IF s = c1 THEN {"reschedule", "call"} ELSE {"call"}
  ELSE {s, d} = {c1, c2} /\ k \in IF s = c1 THEN {"call", "stop"} ELSE {"call"}

MCInit == IpiInit /\ traffic \in {"gather", "mutual"}

MCNext ==
  /\ UNCHANGED traffic
  /\ \E c \in Cpus :
       \/ Send(c) \/ Receive(c)
       \/ c \in Senders /\ \E k \in Kinds, d \in Receivers :
            Sends(c, k, d) /\ (Post(c, k, {d}) \/ PostQuietly(c, k, d))

MCSpec == MCInit /\ [][MCNext]_<<ipiVars, traffic>> /\ Fairness
=============================================================================
