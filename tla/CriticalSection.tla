-------------------------- MODULE CriticalSection ---------------------------
(***************************************************************************)
(* What a lock is for: harts that increment a counter in memory that they  *)
(* share, load and store being separate accesses of a weakly ordered       *)
(* memory.  A load may be performed before a lock instruction that stands  *)
(* ahead of it, unless that instruction is an acquire; a store stays in    *)
(* the hart's buffer and may be performed after an unlock instruction that *)
(* follows it, unless that instruction is a release.                       *)
(*                                                                         *)
(* External to the repository: the harts' memory and a lock's user.  The   *)
(* lock instructions are in SpinLock and BitLock.                          *)
(***************************************************************************)
EXTENDS Integers

CONSTANTS
  Cpus,
  Wrap        \* the shared counter is counted modulo Wrap

ASSUME WrapAssumption == Wrap \in Nat \ {0}

VARIABLES
  spc,         \* pc[c]: "idle", "spin", "try", "section", "unlock"
  data,       \* the counter, as memory holds it
  buf,        \* buf[c]: the stores c has executed and not performed: {} or {v}
  reg,        \* reg[c]: the values c has loaded: {} or {v}
  done        \* critical sections finished, modulo Wrap

sectionVars == <<data, buf, reg, done>>

Value == 0 .. Wrap - 1
AtMostOne == {{}} \cup {{v} : v \in Value}

SectionTypeOK ==
  /\ spc \in [Cpus -> {"idle", "spin", "try", "section", "unlock"}]
  /\ data \in Value
  /\ buf \in [Cpus -> AtMostOne]
  /\ reg \in [Cpus -> AtMostOne]
  /\ done \in Value

SectionInit ==
  /\ spc = [c \in Cpus |-> "idle"]
  /\ data = 0
  /\ buf = [c \in Cpus |-> {}]
  /\ reg = [c \in Cpus |-> {}]
  /\ done = 0

(* What hart c's load returns: its own newest store, or memory. *)
Visible(c) == IF buf[c] = {} THEN {data} ELSE buf[c]

(* The load of the counter, at its place or, when the lock instruction is  *)
(* no acquire, ahead of it.                                                *)
Load(c, acquire) ==
  /\ spc[c] = "section" \/ (~acquire /\ spc[c] \in {"spin", "try"})
  /\ reg[c] = {}
  /\ reg' = [reg EXCEPT ![c] = Visible(c)]
  /\ UNCHANGED <<spc, data, buf, done>>

Store(c) ==
  /\ spc[c] = "section" /\ reg[c] # {} /\ buf[c] = {}
  /\ buf' = [buf EXCEPT ![c] = {(v + 1) % Wrap : v \in reg[c]}]
  /\ spc' = [spc EXCEPT ![c] = "unlock"]
  /\ UNCHANGED <<data, reg, done>>

(* The buffered store reaches memory. *)
Perform(c) ==
  /\ buf[c] # {}
  /\ data' \in buf[c]
  /\ buf' = [buf EXCEPT ![c] = {}]
  /\ UNCHANGED <<spc, reg, done>>

(* A lock instruction took the lock; another one gave it back. *)
EnterSection(c) ==
  /\ spc' = [spc EXCEPT ![c] = "section"]
  /\ UNCHANGED sectionVars

LeaveSection(c, release) ==
  /\ spc[c] = "unlock"
  /\ release => buf[c] = {}
  /\ spc' = [spc EXCEPT ![c] = "idle"]
  /\ reg' = [reg EXCEPT ![c] = {}]
  /\ done' = (done + 1) % Wrap
  /\ UNCHANGED <<data, buf>>

Inside(c) == spc[c] \in {"section", "unlock"}

(* Lock hand-over: what the holder loaded is the count of all finished     *)
(* sections.  None was read too early, none was overtaken by the unlock    *)
(* that ended it.                                                          *)
HandOver == \A c \in Cpus : spc[c] = "unlock" => reg[c] = {done}

(* One hart at a time is in its critical section. *)
OneInside == \A c, d \in Cpus : Inside(c) /\ Inside(d) => c = d
=============================================================================
