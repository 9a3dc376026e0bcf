---------------------------- MODULE MCUserMemory ----------------------------
(***************************************************************************)
(* Two pages of two words.  A call is either one of a few, made while the  *)
(* mapping changes, or one of all alignments and lengths in a calm.        *)
(***************************************************************************)
EXTENDS UserMemory

C(fn, d, s, n) == [fn |-> fn, dst |-> d, src |-> s, n |-> n]

StormCalls ==
  {C("copy_to_user", 1, 1, 6), C("copy_to_user", 3, 0, 3), C("copy_from_user", 1, 3, 4),
   C("clear_user", 2, 0, 4), C("get_user", 0, 2, 4), C("put_user", 2, 0, 4)}

CalmCalls ==
  {C(fn, d, s, n) : fn \in {"copy_to_user", "copy_from_user"}, d \in 0 .. 2, s \in 0 .. 2, n \in 0 .. 7}
  \cup {C("clear_user", d, 0, n) : d \in 0 .. 3, n \in 0 .. 7}
  \cup {C("get_user", 0, s, n) : s \in {0, 6}, n \in {1, 2, 4}}
  \cup {C("memset", d, 0, n) : d \in 0 .. 1, n \in 0 .. 12}
  \cup {C("memcpy", d, s, n) : d \in 0 .. 1, s \in 14 .. 15, n \in 0 .. 12}

MCCalls == StormCalls \cup CalmCalls

Calm == budget = 0 /\ \A p \in Pages : pte[p] = pte_mkwrite(mk_pte(p + 1, PAGE_READ))

MCNext == Next /\ (call' # call => call' \in StormCalls \/ Calm)

MCSpec == Init /\ [][MCNext]_vars /\ Fairness
=============================================================================
