-------------------------------- MODULE Plic --------------------------------
(***************************************************************************)
(* External interrupts: drivers/plic.c and its caller do_IRQ, with the     *)
(* generic kernel's flow handler handle_simple_irq and the interrupt       *)
(* controller itself (external).                                           *)
(*                                                                         *)
(* A source's gateway latches its level as a request; a hart claims a      *)
(* request by reading `claim', and the gateway lets the source's next one  *)
(* pass when the hart has written the number back.  The controller counts  *)
(* sources from 1, the kernel counts interrupts from 0.                    *)
(***************************************************************************)
EXTENDS Integers, FiniteSets

CONSTANTS
  Harts,
  BootHart,   \* the hart that ran init_IRQ
  Contexts,   \* the harts for which the configuration string has a context
  NDevs,      \* "ndevs" of the configuration string
  HandlerPcs  \* where the drivers' handlers can be

ASSUME PlicAssumption ==
  /\ BootHart \in Harts /\ Contexts \subseteq Harts /\ NDevs \in Nat
  /\ HandlerPcs \cap {"off", "context", "claim", "flow", "return", "complete", "none"} = {}

Irqs == 0 .. NDevs - 1
Ids == 1 .. NDevs

VARIABLES
  bound,      \* the driver: "unbound", "bound", "removing", "removed"
  context,    \* context[h]: per_cpu(plic_context, h) is not null
  seie,       \* seie[h]: SIE_SEIE is set in h's sie
  pending,    \* the sources whose request the gateway let through
  claimed,    \* the sources claimed and not completed
  unmasked,   \* the sources the SBI was asked to unmask
  action,     \* action[i]: where the handler of interrupt i begins, or "none"
  inProgress, \* the interrupts whose handler runs (IRQD_IRQ_INPROGRESS)
  hpc,        \* hpc[h]: where h is in its interrupt handler
  irq         \* irq[h]: plic_interrupt's irq

setupVars == <<bound, context, seie>>
controllerVars == <<pending, claimed>>
requestVars == <<unmasked, action>>
plicVars == <<setupVars, controllerVars, requestVars, inProgress, hpc, irq>>

PlicTypeOK ==
  /\ bound \in {"unbound", "bound", "removing", "removed"}
  /\ context \in [Harts -> BOOLEAN]
  /\ seie \in [Harts -> BOOLEAN]
  /\ pending \subseteq Ids /\ claimed \subseteq Ids /\ unmasked \subseteq Ids
  /\ action \in [Irqs -> HandlerPcs \cup {"none"}]
  /\ inProgress \subseteq Irqs
  /\ hpc \in [Harts -> HandlerPcs \cup {"off", "context", "claim", "flow", "return", "complete"}]
  /\ irq \in [Harts -> Ids \cup {0}]

(* init_IRQ writes sie on the boot hart only; what sie holds on the other  *)
(* harts is what they were started with.                                   *)
PlicInit ==
  /\ bound = "unbound"
  /\ context = [h \in Harts |-> FALSE]
  /\ seie \in [Harts -> BOOLEAN] /\ ~seie[BootHart]
  /\ pending = {} /\ claimed = {} /\ unmasked = {}
  /\ action = [i \in Irqs |-> "none"]
  /\ inProgress = {}
  /\ hpc = [h \in Harts |-> "off"]
  /\ irq = [h \in Harts |-> 0]

-----------------------------------------------------------------------------
(* The controller (external).  A request once let through stays until it   *)
(* is claimed, whatever becomes of the level.                              *)
Gateway(i) ==
  /\ i + 1 \notin pending \cup claimed
  /\ pending' = pending \cup {i + 1}
  /\ UNCHANGED <<setupVars, claimed, requestVars, inProgress, hpc, irq>>

Claimable == pending \cap unmasked

-----------------------------------------------------------------------------
(* The driver's set-up, in a task of hart h.                               *)

(* plic_probe: descriptors, then a context for each hart that has one,     *)
(* then csr_set(sie, SIE_SEIE) on the hart that probes.                    *)
plic_probe(h) ==
  /\ hpc[h] = "off" /\ bound = "unbound"
  /\ bound' = "bound"
  /\ context' = [g \in Harts |-> g \in Contexts]
  /\ seie' = [seie EXCEPT ![h] = TRUE]
  /\ UNCHANGED <<controllerVars, requestVars, inProgress, hpc, irq>>

(* plic_remove: csr_clear(sie, SIE_SEIE) on the hart that removes, then    *)
(* every hart's context is wiped ...                                       *)
plic_remove(h) ==
  /\ hpc[h] = "off" /\ bound = "bound"
  /\ bound' = "removing"
  /\ context' = [g \in Harts |-> FALSE]
  /\ seie' = [seie EXCEPT ![h] = FALSE]
  /\ UNCHANGED <<controllerVars, requestVars, inProgress, hpc, irq>>

(* ... and the descriptors are freed. *)
plic_remove_descs ==
  /\ bound = "removing"
  /\ bound' = "removed"
  /\ action' = [i \in Irqs |-> "none"]
  /\ UNCHANGED <<context, seie, controllerVars, unmasked, inProgress, hpc, irq>>

(* devm_request_irq: the descriptor gets its action and is unmasked        *)
(* (plic_irq_unmask).                                                      *)
RequestIrq(i, handler) ==
  /\ bound = "bound" /\ action[i] = "none"
  /\ action' = [action EXCEPT ![i] = handler]
  /\ unmasked' = unmasked \cup {i + 1}

-----------------------------------------------------------------------------
(* The handler, on hart h.  Interrupts stay off until it returns.          *)
At(h, pc) == hpc[h] = pc
GoTo(h, pc) == hpc' = [hpc EXCEPT ![h] = pc]

do_IRQ_external(h) ==
  /\ At(h, "off") /\ seie[h] /\ Claimable # {}
  /\ GoTo(h, "context")
  /\ UNCHANGED <<setupVars, controllerVars, requestVars, inProgress, irq>>

(* plic = per_cpu(plic_context, cpu); if (plic): what happens to the       *)
(* context afterwards makes no difference to this hart.                    *)
plic_interrupt_context(h) ==
  /\ At(h, "context")
  /\ GoTo(h, IF context[h] THEN "claim" ELSE "off")
  /\ UNCHANGED <<setupVars, controllerVars, requestVars, inProgress, irq>>

(* irq = plic->claim: 0 when another hart was faster. *)
plic_interrupt_none(h) ==
  /\ At(h, "claim") /\ Claimable = {}
  /\ GoTo(h, "off")
  /\ UNCHANGED <<setupVars, controllerVars, requestVars, inProgress, irq>>

plic_interrupt_claim(h) ==
  /\ At(h, "claim")
  /\ \E id \in Claimable :
        /\ irq' = [irq EXCEPT ![h] = id]
        /\ pending' = pending \ {id}
        /\ claimed' = claimed \cup {id}
  /\ GoTo(h, "flow")
  /\ UNCHANGED <<setupVars, requestVars, inProgress>>

(* generic_handle_irq(irq - 1): PLIC counts from 1 *)
Irq(h) == irq[h] - 1

(* handle_simple_irq (external): nothing without a descriptor or an        *)
(* action, or while the handler runs elsewhere.                            *)
generic_handle_irq(h) ==
  /\ At(h, "flow")
  /\ IF Irq(h) \in Irqs \ inProgress /\ action[Irq(h)] # "none"
     THEN inProgress' = inProgress \cup {Irq(h)} /\ GoTo(h, action[Irq(h)])
     ELSE GoTo(h, "complete") /\ UNCHANGED inProgress
  /\ UNCHANGED <<setupVars, controllerVars, requestVars, irq>>

handle_irq_event_end(h) ==
  /\ At(h, "return")
  /\ inProgress' = inProgress \ {Irq(h)}
  /\ GoTo(h, "complete")
  /\ UNCHANGED <<setupVars, controllerVars, requestVars, irq>>

(* plic->claim = irq; do_IRQ returns. *)
plic_interrupt_complete(h) ==
  /\ At(h, "complete")
  /\ claimed' = claimed \ {irq[h]}
  /\ irq' = [irq EXCEPT ![h] = 0]
  /\ GoTo(h, "off")
  /\ UNCHANGED <<setupVars, pending, requestVars, inProgress>>

PlicHandler(h) ==
  \/ do_IRQ_external(h) \/ plic_interrupt_context(h)
  \/ plic_interrupt_none(h) \/ plic_interrupt_claim(h)
  \/ generic_handle_irq(h) \/ handle_irq_event_end(h) \/ plic_interrupt_complete(h)
=============================================================================
