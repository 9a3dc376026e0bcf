-------------------------------- MODULE Ipi ---------------------------------
(***************************************************************************)
(* Inter-processor interrupts: kernel/smp.c, its caller                    *)
(* riscv_software_interrupt in kernel/irq.c, and around them the generic   *)
(* kernel that posts requests and the SBI that rings harts (external).     *)
(*                                                                         *)
(* A request (a task to run, a function to call) is stored in memory; the  *)
(* sender sets the message's bit in ipi_data[target] and rings the target; *)
(* the target clears its doorbell, takes the bits and serves every request *)
(* of the kinds it found.  Stores wait in the sender's buffer until it     *)
(* executes mb() or they drain by themselves.                              *)
(***************************************************************************)
EXTENDS Integers, FiniteSets

CONSTANTS
  Cpus,
  Senders,    \* the harts that request something of others
  Receivers,  \* the harts of which something is requested
  Kinds       \* what is requested: a subset of AllKinds

AllKinds == {"reschedule", "call", "stop"}

ASSUME KindsAssumption == Kinds \subseteq AllKinds /\ Senders \cup Receivers \subseteq Cpus

Msgs == {"IPI_RESCHEDULE", "IPI_CALL_FUNC"}

(* Mutant: ipi_stop announced by a message past the enumeration's end. *)
M_MsgOfPastMax(k) ==
  CASE k = "reschedule" -> "IPI_RESCHEDULE" [] k = "call" -> "IPI_CALL_FUNC"
    [] OTHER -> "IPI_MAX"

(* The message that announces a request: smp_send_reschedule, or           *)
(* arch_send_call_function_ipi_mask and _single_ipi; smp_send_stop calls   *)
(* ipi_stop on every hart.                                                 *)
MsgOf(k) == IF k = "reschedule" THEN "IPI_RESCHEDULE" ELSE "IPI_CALL_FUNC"

VARIABLES
  bits,       \* bits[c]: ipi_data[c].bits
  ssip,       \* ssip[c]: hart c's software interrupt is pending
  reqs,       \* reqs[c]: <<kind, sender>> requests in memory, not served
  spc,        \* spc[s]: where s is in send_ipi_message
  kind,       \* kind[s]: what s requests
  targets,    \* targets[s]: to_whom
  todo,       \* todo[s]: the targets for_each_cpu has not reached
  reqBuf,     \* reqBuf[s]: targets whose request s stored, not yet in memory
  bitBuf,     \* bitBuf[s]: targets whose set_bit is not yet in memory
  hpc,        \* hpc[c]: where c is in its software interrupt handler
  ops         \* ops[c]: the bits handle_ipi took

sendVars    == <<spc, kind, targets, todo>>
bufVars     == <<reqBuf, bitBuf>>
handlerVars == <<hpc, ops>>
ipiVars == <<bits, ssip, reqs, sendVars, bufVars, handlerVars>>

(* Types.  That bits stays within Msgs is BUG_ON((ops >> IPI_MAX) != 0).   *)
TypeOK ==
  /\ bits \in [Cpus -> SUBSET Msgs]
  /\ ssip \in [Cpus -> BOOLEAN]
  /\ reqs \in [Cpus -> SUBSET (Kinds \X Cpus)]
  /\ spc \in [Cpus -> {"idle", "mb1", "set", "mb2", "ring", "wait"}]
  /\ kind \in [Cpus -> AllKinds]
  /\ targets \in [Cpus -> SUBSET Cpus]
  /\ todo \in [Cpus -> SUBSET Cpus]
  /\ reqBuf \in [Cpus -> SUBSET Cpus]
  /\ bitBuf \in [Cpus -> SUBSET Cpus]
  /\ hpc \in [Cpus -> {"off", "clear", "xchg", "reschedule", "call", "stopped", "bug"}]
  /\ ops \in [Cpus -> SUBSET Msgs]

IpiInit ==
  /\ bits = [c \in Cpus |-> {}]
  /\ ssip = [c \in Cpus |-> FALSE]
  /\ reqs = [c \in Cpus |-> {}]
  /\ spc = [c \in Cpus |-> "idle"]
  /\ kind = [c \in Cpus |-> "reschedule"]
  /\ targets = [c \in Cpus |-> {}]
  /\ todo = [c \in Cpus |-> {}]
  /\ reqBuf = [c \in Cpus |-> {}]
  /\ bitBuf = [c \in Cpus |-> {}]
  /\ hpc = [c \in Cpus |-> "off"]
  /\ ops = [c \in Cpus |-> {}]

-----------------------------------------------------------------------------
(* Sending.  A hart's handler preempts its sender.                         *)
Sending(s, at) == hpc[s] = "off" /\ spc[s] = at

(* The generic kernel posts request k for every hart of mask (external)    *)
(* and calls send_ipi_message.  It has one request of a kind outstanding   *)
(* to a hart at a time: a csd is locked until its function ran.            *)
Post(s, k, mask) ==
  /\ Sending(s, "idle")
  /\ mask # {} /\ s \notin mask
  /\ \A c \in mask : <<k, s>> \notin reqs[c]
  /\ reqBuf' = [reqBuf EXCEPT ![s] = mask]
  /\ kind' = [kind EXCEPT ![s] = k]
  /\ targets' = [targets EXCEPT ![s] = mask]
  /\ spc' = [spc EXCEPT ![s] = "mb1"]
  /\ UNCHANGED <<bits, ssip, reqs, todo, bitBuf, handlerVars>>

(* The generic kernel skips the interrupt when its llist_add finds         *)
(* requests of the kind already queued: whoever queued them rings.         *)
PostQuietly(s, k, c) ==
  /\ Sending(s, "idle")
  /\ k # "stop" /\ c # s
  /\ <<k, s>> \notin reqs[c] /\ \E t \in Cpus : <<k, t>> \in reqs[c]
  /\ reqs' = [reqs EXCEPT ![c] = @ \cup {<<k, s>>}]
  /\ UNCHANGED <<bits, ssip, sendVars, bufVars, handlerVars>>

(* Stores drain from the buffer in any order. *)
PerformRequest(s) ==
  \E c \in reqBuf[s] :
     /\ reqs' = [reqs EXCEPT ![c] = @ \cup {<<kind[s], s>>}]
     /\ reqBuf' = [reqBuf EXCEPT ![s] = @ \ {c}]
     /\ UNCHANGED <<bits, ssip, sendVars, bitBuf, handlerVars>>

PerformSetBit(s) ==
  \E c \in bitBuf[s] :
     /\ bits' = [bits EXCEPT ![c] = @ \cup {MsgOf(kind[s])}]
     /\ bitBuf' = [bitBuf EXCEPT ![s] = @ \ {c}]
     /\ UNCHANGED <<ssip, reqs, sendVars, reqBuf, handlerVars>>

Drained(s) == reqBuf[s] = {} /\ bitBuf[s] = {}

(* Mutant: no mb() in front of the loop that sets the bits. *)
M_Send_mb_before_bits_missing(s) ==
  /\ Sending(s, "mb1")
  /\ spc' = [spc EXCEPT ![s] = "set"]
  /\ todo' = [todo EXCEPT ![s] = targets[s]]
  /\ UNCHANGED <<bits, ssip, reqs, kind, targets, bufVars, handlerVars>>

(* mb(); then the first for_each_cpu begins. *)
send_mb_before_bits(s) ==
  /\ Sending(s, "mb1") /\ Drained(s)
  /\ spc' = [spc EXCEPT ![s] = "set"]
  /\ todo' = [todo EXCEPT ![s] = targets[s]]
  /\ UNCHANGED <<bits, ssip, reqs, kind, targets, bufVars, handlerVars>>

(* for_each_cpu(i, to_whom) set_bit(operation, &ipi_data[i].bits); the     *)
(* order of the targets is left open.                                      *)
send_set_bit(s) ==
  /\ Sending(s, "set")
  /\ IF todo[s] = {}
     THEN spc' = [spc EXCEPT ![s] = "mb2"] /\ UNCHANGED <<todo, bitBuf>>
     ELSE \E c \in todo[s] :
            /\ bitBuf' = [bitBuf EXCEPT ![s] = @ \cup {c}]
            /\ todo' = [todo EXCEPT ![s] = @ \ {c}]
            /\ UNCHANGED spc
  /\ UNCHANGED <<bits, ssip, reqs, kind, targets, reqBuf, handlerVars>>

(* Mutant: no mb() between the bits and the doorbells. *)
M_Send_mb_before_doorbells_missing(s) ==
  /\ Sending(s, "mb2")
  /\ spc' = [spc EXCEPT ![s] = "ring"]
  /\ todo' = [todo EXCEPT ![s] = targets[s]]
  /\ UNCHANGED <<bits, ssip, reqs, kind, targets, bufVars, handlerVars>>

(* mb(); then the second for_each_cpu begins. *)
send_mb_before_doorbells(s) ==
  /\ Sending(s, "mb2") /\ Drained(s)
  /\ spc' = [spc EXCEPT ![s] = "ring"]
  /\ todo' = [todo EXCEPT ![s] = targets[s]]
  /\ UNCHANGED <<bits, ssip, reqs, kind, targets, bufVars, handlerVars>>

(* for_each_cpu(i, to_whom) sbi_send_ipi(i); the SBI makes the target's    *)
(* software interrupt pending.  smp_send_stop waits (its third argument    *)
(* is 1), as callers of synchronous functions do.                          *)
send_sbi_send_ipi(s) ==
  /\ Sending(s, "ring")
  /\ IF todo[s] = {}
     THEN /\ spc' = [spc EXCEPT ![s] = IF kind[s] = "reschedule" THEN "idle" ELSE "wait"]
          /\ UNCHANGED <<ssip, todo>>
     ELSE \E c \in todo[s] :
            /\ ssip' = [ssip EXCEPT ![c] = TRUE]
            /\ todo' = [todo EXCEPT ![s] = @ \ {c}]
            /\ UNCHANGED spc
  /\ UNCHANGED <<bits, reqs, kind, targets, bufVars, handlerVars>>

(* The generic kernel spins until every target has run the function. *)
CallReturns(s) ==
  /\ Sending(s, "wait")
  /\ \A c \in targets[s] : <<kind[s], s>> \notin reqs[c]
  /\ spc' = [spc EXCEPT ![s] = "idle"]
  /\ UNCHANGED <<bits, ssip, reqs, kind, targets, todo, bufVars, handlerVars>>

-----------------------------------------------------------------------------
(* Receiving.  The trap is taken when the interrupt is pending and the     *)
(* hart's interrupts are on, which they are outside the handler.           *)
do_IRQ_software(c) ==
  /\ hpc[c] = "off" /\ ssip[c]
  /\ hpc' = [hpc EXCEPT ![c] = "clear"]
  /\ UNCHANGED <<bits, ssip, reqs, sendVars, bufVars, ops>>

Handle(c, from, to) ==
  /\ hpc[c] = from
  /\ hpc' = [hpc EXCEPT ![c] = to]
  /\ UNCHANGED <<sendVars, bufVars>>

(* Mutant: the pending flag read and tested the wrong way round. *)
M_HandleIpiTestInverted(c) ==
  /\ Handle(c, "clear", IF ssip[c] THEN "bug" ELSE "xchg")
  /\ ssip' = [ssip EXCEPT ![c] = FALSE]
  /\ UNCHANGED <<bits, reqs, ops>>

(* if (!sbi_clear_ipi()) return IRQ_NONE, on which riscv_software_         *)
(* interrupt reaches BUG().                                                *)
handle_ipi_clear(c) ==
  /\ Handle(c, "clear", IF ssip[c] THEN "xchg" ELSE "bug")
  /\ ssip' = [ssip EXCEPT ![c] = FALSE]
  /\ UNCHANGED <<bits, reqs, ops>>

(* while ((ops = xchg(pending_ipis, 0)) != 0) *)
handle_ipi_xchg(c) ==
  /\ Handle(c, "xchg", IF bits[c] = {} THEN "off" ELSE "reschedule")
  /\ ops' = [ops EXCEPT ![c] = bits[c]]
  /\ bits' = [bits EXCEPT ![c] = {}]
  /\ UNCHANGED <<ssip, reqs>>

(* if (ops & (1 << IPI_RESCHEDULE)) scheduler_ipi(); *)
handle_ipi_reschedule(c) ==
  /\ Handle(c, "reschedule", "call")
  /\ reqs' = [reqs EXCEPT ![c] =
       IF "IPI_RESCHEDULE" \in ops[c] THEN {r \in @ : r[1] # "reschedule"} ELSE @]
  /\ UNCHANGED <<bits, ssip, ops>>

(* Mutant: the call served only when no reschedule came with it. *)
M_HandleIpiElseIf(c) ==
  /\ "IPI_RESCHEDULE" \notin ops[c] => ~\E r \in reqs[c] : r[1] = "stop"
  /\ Handle(c, "call", "xchg")
  /\ reqs' = [reqs EXCEPT ![c] =
       IF "IPI_RESCHEDULE" \notin ops[c] THEN {r \in @ : MsgOf(r[1]) # "IPI_CALL_FUNC"} ELSE @]
  /\ ops' = [ops EXCEPT ![c] = {}]
  /\ UNCHANGED <<bits, ssip>>

(* if (ops & (1 << IPI_CALL_FUNC)) generic_smp_call_function_interrupt(),  *)
(* which runs every queued function; then the next xchg.                   *)
handle_ipi_call(c) ==
  /\ "IPI_CALL_FUNC" \in ops[c] => ~\E r \in reqs[c] : r[1] = "stop"
  /\ Handle(c, "call", "xchg")
  /\ reqs' = [reqs EXCEPT ![c] =
       IF "IPI_CALL_FUNC" \in ops[c] THEN {r \in @ : r[1] # "call"} ELSE @]
  /\ ops' = [ops EXCEPT ![c] = {}]
  /\ UNCHANGED <<bits, ssip>>

(* ... and one of the functions is ipi_stop, which does not return: its    *)
(* request stays locked.                                                   *)
ipi_stop(c) ==
  /\ "IPI_CALL_FUNC" \in ops[c] /\ \E r \in reqs[c] : r[1] = "stop"
  /\ Handle(c, "call", "stopped")
  /\ UNCHANGED <<bits, ssip, reqs, ops>>

-----------------------------------------------------------------------------
Send(s) ==
  \/ PerformRequest(s) \/ PerformSetBit(s)
  \/ send_mb_before_bits(s) \/ send_set_bit(s)
  \/ send_mb_before_doorbells(s) \/ send_sbi_send_ipi(s) \/ CallReturns(s)

Receive(c) ==
  \/ do_IRQ_software(c) \/ handle_ipi_clear(c) \/ handle_ipi_xchg(c)
  \/ handle_ipi_reschedule(c) \/ handle_ipi_call(c) \/ ipi_stop(c)

IpiNext ==
  \E c \in Cpus :
     \/ Send(c) \/ Receive(c)
     \/ c \in Senders /\ \E k \in Kinds, mask \in SUBSET Cpus :
          mask \subseteq Receivers /\ Post(c, k, mask)
     \/ c \in Senders /\ \E k \in Kinds, d \in Cpus :
          d \in Receivers /\ PostQuietly(c, k, d)

IpiSpec == IpiInit /\ [][IpiNext]_ipiVars

(* Harts execute, buffers drain, and a sender whose hart is interrupted    *)
(* again and again still gets its turn between two interrupts.  Nothing    *)
(* makes the kernel post a request.                                        *)
Fairness == \A c \in Cpus : SF_ipiVars(Send(c)) /\ WF_ipiVars(Receive(c))

FairSpec == IpiSpec /\ Fairness

-----------------------------------------------------------------------------
(* Some sender has still to set message m's bit for c. *)
BitOwed(c, m) ==
  \E s \in Cpus :
     /\ MsgOf(kind[s]) = m
     /\ \/ spc[s] = "mb1" /\ c \in targets[s]
        \/ spc[s] = "set" /\ c \in todo[s]
        \/ c \in bitBuf[s]

(* c will look at its bits: it is in the handler, ahead of an xchg, or its *)
(* doorbell rings or is about to.                                          *)
WillLook(c) ==
  \/ ssip[c] \/ hpc[c] \in {"clear", "xchg", "reschedule", "call"}
  \/ \E s \in Cpus : \/ spc[s] \in {"set", "mb2"} /\ c \in targets[s]
                     \/ spc[s] = "ring" /\ c \in todo[s]

(* c took message m's bit and has not served it yet. *)
AboutToServe(c, m) ==
  /\ m \in ops[c]
  /\ \/ hpc[c] = "reschedule"
     \/ hpc[c] = "call" /\ m = "IPI_CALL_FUNC"

Announced(c, m) ==
  BitOwed(c, m) \/ (m \in bits[c] /\ WillLook(c)) \/ AboutToServe(c, m)

(* smp.c: no request is ever forgotten.  A request in memory is announced  *)
(* by a bit its target will look at, or is about to be, in every           *)
(* interleaving of senders and handler and every order of the stores.      *)
NoLostIpi ==
  \A c \in Cpus : hpc[c] # "stopped" => \A r \in reqs[c] : Announced(c, MsgOf(r[1]))

(* When a doorbell rings the request and the bit it announces have reached *)
(* memory: the two mb() of send_ipi_message.                               *)
StoresBeforeDoorbells ==
  \A s \in Cpus : spc[s] \in {"ring", "wait"} => Drained(s)

(* irq.c:28: the BUG() behind a software interrupt that no one sent.       *)
NoSpuriousIpi == \A c \in Cpus : hpc[c] # "bug"

(* handle_ipi loops for as long as it finds bits: senders that never pause *)
(* keep their target inside, and what it was sending itself waits.  The    *)
(* liveness properties are about senders that come to an end.              *)
FloodEnds == <>[][\A s \in Cpus : ~(spc[s] = "idle" /\ spc'[s] = "mb1")]_ipiVars

(* Every request is served, unless its target was stopped, or a hart that  *)
(* queued the same at the target, between posting its request and ringing: *)
(* requests posted quietly behind it wait for its doorbell.                *)
RequestsServed ==
  FloodEnds =>
    \A c \in Receivers : \A s \in Senders \ {c}, k \in Kinds :
       (<<k, s>> \in reqs[c]) ~>
         (<<k, s>> \notin reqs[c] \/
            \E h \in Cpus : hpc[h] = "stopped" /\ (h = c \/ <<k, h>> \in reqs[c]))

(* Harts that call functions on one another at once do not deadlock: a     *)
(* caller returns, unless a hart was stopped.                              *)
CallersReturn ==
  FloodEnds =>
    \A s \in Senders :
       (spc[s] = "wait") ~> (spc[s] = "idle" \/ \E c \in Cpus : hpc[c] = "stopped")
=============================================================================
