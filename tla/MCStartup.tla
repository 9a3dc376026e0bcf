------------------------------ MODULE MCStartup ------------------------------
(***************************************************************************)
(* What the kernel does when it starts: the harts come up, the             *)
(* configuration string is read, numbers are parsed and divided, the time  *)
(* is read.  The parts have no state in common; a behaviour is about one   *)
(* of them.                                                                *)
(***************************************************************************)
EXTENDS Boot, Clock, ConfigLookup, Arithmetic

VARIABLE part   \* "harts", "config", "number", "division" or "clock"

allVars == <<bootVars, clockVars, vars, arithmeticVars, part>>

-----------------------------------------------------------------------------
(* Harts.  One interrupt at a time, at a hart that will take it. *)
MCPowerUp ==
  /\ BootInit /\ garbage \subseteq {2}
  /\ \E sources \in {{}, Sources} : sie = [h \in Harts |-> sources]

Disturbs(h) == raised'[h] \ raised[h] # {}
MCBootNext ==
  /\ BootNext
  /\ \A h \in Harts : Disturbs(h) =>
       /\ \A g \in Harts : raised[g] = {}
       /\ h \in irqsOn \/ where[h] \in {"irq_enable", "callin_enable"}

(* For the other parts, no hart moves. *)
Dormant ==
  /\ PowerUp /\ garbage = {} /\ where = [h \in Harts |-> "parked"]
  /\ \A h \in Harts : sie[h] = {}

-----------------------------------------------------------------------------
(* Configuration strings: blocks in blocks, as deep as a device inside a   *)
(* device inside another block.                                            *)
MCNumbers == {"1", "2"}
MCQuoted == {"'driver'"}

Interface == <<"interface", "'driver'", ";">>
Irq == <<"irq", "1", ";">>
Ranged == <<"1", "2", ";">>
Leaves == {Interface, Irq, Ranged, <<"irq", "invalid", ";">>, <<"irq", "1", "2", ";">>, <<"x", "1", ";">>}

Block(k, entries) == <<k, "{">> \o entries \o <<"}", ";">>

InnerBlocks ==
  {Block("mem", e) : e \in {<<>>, Irq, Ranged, Ranged \o Ranged, Ranged \o Interface}}
    \cup {Block("x", e) : e \in Leaves \cup {Interface \o Irq, Ranged \o Interface}}

Entries == Leaves \cup InnerBlocks

MCConfigs ==
  {e \o Block("y", m) : e \in {<<>>, Interface, Irq}, m \in {<<>>} \cup {a \o b : a, b \in Entries}}
    \cup {Block("y", Block("mem", e) \o Interface) \o f : e \in InnerBlocks, f \in Entries}

-----------------------------------------------------------------------------
(* Numbers: every word of up to Length characters, with 0x in front of it  *)
(* or not; and every divisor of a word.                                    *)
CONSTANT Length
MCDigits == ("0" :> 0) @@ ("1" :> 1) @@ ("9" :> 9) @@ ("f" :> 15)
Chars == DOMAIN MCDigits \cup {"_", "x", "-"}
Words == UNION {[1 .. n -> Chars] : n \in 0 .. Length}
Numerals == Words \cup {<<"0", "x">> \o w : w \in Words}
Divisors == 1 .. B32 - 1

-----------------------------------------------------------------------------
MCInit ==
  /\ part \in {"harts", "config", "number", "division", "clock"}
  /\ IF part = "harts" THEN MCPowerUp ELSE Dormant
  /\ ClockInit /\ (part # "clock" => first = 0)
  /\ Init /\ (part # "config" => config = Block("y", <<>>))
  /\ CASE part = "number" -> routine = "parse_u64" /\ argument \in Numerals
       [] part = "division" -> routine = "do_div" /\ argument \in Divisors
       [] OTHER -> routine = "none" /\ argument = 0

MCNext ==
  /\ UNCHANGED <<arithmeticVars, part>>
  /\ \/ part = "harts" /\ MCBootNext /\ UNCHANGED <<clockVars, vars>>
     \/ part = "clock" /\ ClockNext /\ UNCHANGED <<bootVars, vars>>
     \/ part = "config" /\ Next /\ UNCHANGED <<bootVars, clockVars>>

MCSpec == MCInit /\ [][MCNext]_allVars /\ BootFairness
=============================================================================
