------------------------- MODULE AbstractUserMemory -------------------------
(***************************************************************************)
(* What an access to user memory promises: bytes are moved one piece after *)
(* the other between two arrays, one of them the process's, of which every *)
(* page may be read, written, or neither.                                  *)
(***************************************************************************)
EXTENDS Integers, Sequences

CONSTANTS NPages, PageSize, Calls

VARIABLES call, status, done, reg, kmem, umem, prots, open

vars == <<call, status, done, reg, kmem, umem, prots, open>>

Loads == {"copy_from_user", "get_user"}
Stores == {"copy_to_user", "put_user", "clear_user"}

(* The kernel reaches user memory during an access of it, and at no other  *)
(* time.                                                                   *)
InAccess == status = "running" /\ call.fn \in Loads \cup Stores

dst == call.dst + done
src == call.src + done
left == call.n - done

Range(a, n) == a .. a + n - 1
May(a, write) ==
  /\ a \in DOMAIN umem
  /\ prots[a \div PageSize] \in IF write THEN {"rw"} ELSE {"r", "rw"}

(* The bytes call c stores at its k-th place, given where it takes them. *)
Source(i) ==
  CASE call.fn = "memset" -> -1
    [] call.fn = "clear_user" -> 0
    [] call.fn \in Loads -> umem[src + i - 1]
    [] OTHER -> kmem[src + i - 1]

Put(mem) == [a \in DOMAIN mem |-> IF a \in Range(dst, Len(reg)) THEN reg[a - dst + 1] ELSE mem[a]]

Failed(c) ==
  IF c.fn = "get_user" THEN [i \in DOMAIN kmem |-> IF i \in Range(c.dst, c.n) THEN 0 ELSE kmem[i]]
  ELSE kmem

Init ==
  /\ status = "new" /\ done = 0 /\ reg = <<>>
  /\ prots = [p \in 0 .. NPages - 1 |-> "rw"]
  /\ open = FALSE

Call(c) ==
  /\ status = "new" /\ call' = c /\ done' = 0 /\ reg' = <<>>
  /\ \/ status' = "running" /\ kmem' = kmem
     \/ /\ status' = (IF c.n = 0 THEN "ok" ELSE "failed") /\ kmem' = Failed(c)
        /\ LET a == IF c.fn \in Loads THEN c.src ELSE c.dst IN
             c.fn \in Loads \cup Stores /\ a + c.n > NPages * PageSize
  /\ UNCHANGED <<umem, prots>>

Load(k) ==
  /\ status = "running" /\ reg = <<>>
  /\ call.fn \in Loads => \A a \in Range(src, k) : May(a, FALSE)
  /\ reg' = [i \in 1 .. k |-> Source(i)]
  /\ UNCHANGED <<call, status, done, kmem, umem, prots>>

Store ==
  /\ status = "running" /\ reg # <<>>
  /\ IF call.fn \in Stores
     THEN (\A a \in Range(dst, Len(reg)) : May(a, TRUE)) /\ umem' = Put(umem) /\ UNCHANGED kmem
     ELSE kmem' = Put(kmem) /\ UNCHANGED umem
  /\ done' = done + Len(reg) /\ reg' = <<>>
  /\ UNCHANGED <<call, status, prots>>

Return ==
  /\ status = "running" /\ left = 0 /\ status' = "ok"
  /\ UNCHANGED <<call, done, reg, kmem, umem, prots>>

Fail ==
  /\ status = "running" /\ left > 0 /\ status' = "failed" /\ kmem' = Failed(call)
  /\ \/ call.fn \in Loads /\ ~May(src, FALSE)
     \/ call.fn \in Stores /\ ~May(dst, TRUE)
  /\ UNCHANGED <<call, done, reg, umem, prots>>

(* mprotect and munmap, by another thread. *)
Protect(p, prot) ==
  /\ prots' = [prots EXCEPT ![p] = prot]
  /\ umem' = IF prot = "none" THEN [a \in DOMAIN umem |-> IF a \div PageSize = p THEN 0 ELSE umem[a]]
             ELSE umem
  /\ UNCHANGED <<call, status, done, reg, kmem>>

Next ==
  /\ \/ (\E c \in Calls : Call(c)) \/ (\E k \in 1 .. left : Load(k))
     \/ Store \/ Return \/ Fail
     \/ \E p \in 0 .. NPages - 1, prot \in {"none", "r", "rw"} : Protect(p, prot)
  /\ open' = InAccess'

Spec == Init /\ [][Next]_vars
=============================================================================
