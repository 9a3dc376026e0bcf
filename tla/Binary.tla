------------------------------- MODULE Binary -------------------------------
(***************************************************************************)
(* Numbers as a machine holds them: the powers of two, and the bits of a   *)
(* number in two's complement.                                             *)
(***************************************************************************)
EXTENDS Integers

Pow2[n \in Nat] == IF n = 0 THEN 1 ELSE 2 * Pow2[n - 1]

(* The bits that are set among the lowest n of v. *)
BitSet(v, n) == {b \in 0 .. n - 1 : (v \div Pow2[b]) % 2 = 1}
=============================================================================
