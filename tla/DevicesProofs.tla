---------------------------- MODULE DevicesProofs ----------------------------
(***************************************************************************)
(* Proofs about Devices for any number of harts, interrupts, characters    *)
(* and packets.                                                            *)
(*                                                                         *)
(* A source is claimed by one hart at a time and stays claimed until the   *)
(* handler has returned, so that one hart at most is in each handler; the  *)
(* order of what it delivers follows.  What is transmitted is proved about *)
(* Transmit, for any sizes and any number of writes and packets.           *)
(***************************************************************************)
EXTENDS Devices, Transmit, SequenceTheorems, TLAPS

(* The controller: who claimed what. *)
Claims ==
  /\ pending \cap claimed = {}
  /\ \A h \in Harts : irq[h] = 0 <=> hpc[h] \in {"off", "context", "claim"}
  /\ \A h \in Harts : irq[h] # 0 => irq[h] \in claimed
  /\ \A g, h \in Harts : irq[g] = irq[h] /\ irq[g] # 0 => g = h

(* The drivers: which handler runs for which interrupt, and since when. *)
Handlers ==
  /\ \A h \in Harts : hpc[h] \in UartPcs => irq[h] = UartIrq + 1
  /\ \A h \in Harts : hpc[h] \in EthPcs => irq[h] = EthIrq + 1 /\ eth = "up"
  /\ \A i \in Irqs :
       \/ action[i] = "none"
       \/ i = UartIrq /\ action[i] = "uart_avail"
       \/ i = EthIrq /\ action[i] = "eth_new" /\ eth = "up"

(* The characters: tty, the one in flight, fifo. *)
Taken(h) == hpc[h] \in {"uart_lock", "uart_insert"}

CharOrder ==
  /\ \A h \in Harts : hpc[h] = "uart_read" => fifo # <<>>
  /\ \A h \in Harts : ch[h] = IF Taken(h) THEN Len(tty) + 1 ELSE None
  /\ \A n \in 1 .. Len(tty) : tty[n] = n
  /\ \A n \in 1 .. Len(fifo) : fifo[n] = chars - Len(fifo) + n
  /\ chars = Len(tty) + Len(fifo) + (IF \E h \in Harts : Taken(h) THEN 1 ELSE 0)

(* The packets: the last one delivered is the one in the buffer while it   *)
(* is to be acknowledged and afterwards, until the next one arrives.       *)
Delivered == ~newPkt \/ \E h \in Harts : hpc[h] = "eth_ack"

PacketOrder ==
  /\ newPkt => buffer = packets /\ packets > 0
  /\ \A h \in Harts : hpc[h] \in {"eth_copy", "eth_rx", "eth_ack"} => newPkt
  /\ \A h \in Harts : hpc[h] = "eth_rx" => skb[h] = packets
  /\ eth # "up" => stack = <<>>
  /\ stack # <<>> => stack[Len(stack)] = IF Delivered THEN packets ELSE packets - 1
  /\ \A i \in 1 .. Len(stack) - 1 : stack[i + 1] = stack[i] + 1

IInv == TypeOK /\ Claims /\ Handlers /\ CharOrder /\ PacketOrder

-----------------------------------------------------------------------------
(* One hart at most is in each driver's handler. *)
LEMMA Alone ==
  ASSUME TypeOK, Claims, Handlers
  PROVE  /\ \A g, h \in Harts : hpc[g] \in UartPcs /\ hpc[h] \in UartPcs => g = h
         /\ \A g, h \in Harts : hpc[g] \in EthPcs /\ hpc[h] \in EthPcs => g = h
  <1> USE DevicesAssumption DEF Irqs, UartPcs, EthPcs
  <1>1. \A h \in Harts : hpc[h] \in UartPcs \cup EthPcs => irq[h] # 0
    BY DEF Claims
  <1> QED BY <1>1 DEF Claims, Handlers

LEMMA InitIInv == Init => IInv
  <1> SUFFICES ASSUME Init PROVE IInv
    OBVIOUS
  <1> USE DevicesAssumption, PlicAssumption DEF Irqs, Ids, UartPcs, EthPcs, None
  <1>1. TypeOK
    <2>1. PlicTypeOK
      BY DEF Init, PlicInit, PlicTypeOK
    <2>2. chars = 0 /\ packets = 0 /\ fifo = <<>> /\ tty = <<>> /\ stack = <<>>
      BY DEF Init
    <2>3. fifo \in Seq(1 .. MaxChars) /\ tty \in Seq(1 .. MaxChars)
      BY <2>2
    <2>4. stack \in Seq(1 .. MaxPackets) /\ chars \in 0 .. MaxChars /\ packets \in 0 .. MaxPackets
      BY <2>2
    <2>5. 0 \in 0 .. MaxChars /\ 0 \in 0 .. MaxPackets
      OBVIOUS
    <2>6. ch \in [Harts -> 0 .. MaxChars] /\ skb \in [Harts -> 0 .. MaxPackets]
      BY <2>5 DEF Init
    <2>7. /\ portLock \in Harts \cup {None} /\ newPkt \in BOOLEAN /\ buffer \in 0 .. MaxPackets
          /\ eth \in {"absent", "registered", "acked", "up"}
      BY <2>5 DEF Init
    <2> QED BY <2>1, <2>3, <2>4, <2>6, <2>7 DEF TypeOK
  <1>2. Claims
    BY DEF Init, PlicInit, Claims
  <1>3. Handlers
    BY DEF Init, PlicInit, Handlers
  <1>4. CharOrder
    BY DEF Init, PlicInit, CharOrder, Taken
  <1>5. PacketOrder
    BY DEF Init, PlicInit, PacketOrder
  <1> QED BY <1>1, <1>2, <1>3, <1>4, <1>5 DEF IInv

LEMMA StepTypes ==
  ASSUME TypeOK, Claims, Handlers, CharOrder, PacketOrder, [Next]_vars
  PROVE  TypeOK'
  <1> USE DevicesAssumption, PlicAssumption DEF Irqs, Ids, UartPcs, EthPcs, None
  <1>1. CASE UNCHANGED vars
    BY <1>1 DEF vars, TypeOK, PlicTypeOK, setupVars, controllerVars, requestVars,
       plicVars, uartVars, ethVars
  <1>2. CASE CharArrives
    <2>1. chars + 1 \in 1 .. MaxChars /\ fifo \in Seq(1 .. MaxChars)
      BY <1>2 DEF CharArrives, TypeOK, PlicTypeOK
    <2>2. fifo' \in Seq(1 .. MaxChars)
      BY <1>2, <2>1 DEF CharArrives
    <2>3. PlicTypeOK'
      BY <1>2 DEF CharArrives, TypeOK, PlicTypeOK, setupVars, controllerVars, requestVars,
         plicVars, uartVars, ethVars
    <2>4. chars' \in 0 .. MaxChars /\ UNCHANGED <<ch, portLock, tty, ethVars>>
      BY <1>2, <2>1 DEF CharArrives
    <2> QED BY <2>2, <2>3, <2>4 DEF TypeOK, ethVars
  <1>3. CASE PacketArrives
    BY <1>3 DEF PacketArrives, At, GoTo, TypeOK, PlicTypeOK, setupVars, controllerVars,
       requestVars, plicVars, uartVars, ethVars
  <1>4. CASE plic_remove_descs /\ UNCHANGED <<uartVars, ethVars>>
    BY <1>4 DEF plic_remove_descs, At, GoTo, TypeOK, PlicTypeOK, setupVars,
       controllerVars, requestVars, plicVars, uartVars, ethVars
  <1>5. CASE rv_uart_probe
    <2>1. UartIrq + 1 \in Ids
      OBVIOUS
    <2>2. action' \in [Irqs -> HandlerPcs \cup {"none"}]
      BY <1>5 DEF rv_uart_probe, RequestIrq, TypeOK, PlicTypeOK
    <2>3. unmasked' \subseteq Ids
      BY <1>5, <2>1 DEF rv_uart_probe, RequestIrq, TypeOK, PlicTypeOK
    <2> QED
      BY <1>5, <2>2, <2>3 DEF rv_uart_probe, TypeOK, PlicTypeOK, setupVars,
         controllerVars, requestVars, plicVars, uartVars, ethVars
  <1>6. CASE frenox_eth_register
    BY <1>6 DEF frenox_eth_register, At, GoTo, TypeOK, PlicTypeOK, KeepPackets, setupVars,
       controllerVars, requestVars, plicVars, uartVars, ethVars
  <1>7. CASE frenox_eth_clear
    BY <1>7 DEF frenox_eth_clear, At, GoTo, TypeOK, PlicTypeOK, KeepPackets, setupVars,
       controllerVars, requestVars, plicVars, uartVars, ethVars
  <1>8. CASE frenox_eth_request_irq
    <2>1. EthIrq + 1 \in Ids
      OBVIOUS
    <2>2. action' \in [Irqs -> HandlerPcs \cup {"none"}]
      BY <1>8 DEF frenox_eth_request_irq, RequestIrq, TypeOK, PlicTypeOK
    <2>3. unmasked' \subseteq Ids
      BY <1>8, <2>1 DEF frenox_eth_request_irq, RequestIrq, TypeOK, PlicTypeOK
    <2> QED
      BY <1>8, <2>2, <2>3 DEF frenox_eth_request_irq, KeepPackets, TypeOK, PlicTypeOK,
         setupVars, controllerVars, requestVars, plicVars, uartVars, ethVars
  <1>9. ASSUME NEW i \in Irqs, Raised(i), Gateway(i), UNCHANGED <<uartVars, ethVars>>
        PROVE  TypeOK'
    <2>1. i + 1 \in Ids
      OBVIOUS
    <2>2. pending' \subseteq Ids
      BY <1>9, <2>1 DEF Gateway, TypeOK, PlicTypeOK
    <2>3. PlicTypeOK'
      BY <1>9, <2>2 DEF Gateway, TypeOK, PlicTypeOK, setupVars, requestVars
    <2>4. UNCHANGED <<uartVars, ethVars>>
      BY <1>9
    <2> QED BY <2>3, <2>4 DEF TypeOK, uartVars, ethVars
  <1>10. ASSUME NEW h \in Harts, plic_probe(h), UNCHANGED <<uartVars, ethVars>>
        PROVE  TypeOK'
    <2>1. bound' = "bound" /\ UNCHANGED <<pending, claimed, unmasked, action, inProgress, hpc, irq>>
      BY <1>10 DEF plic_probe, controllerVars, requestVars
    <2>2. context' \in [Harts -> BOOLEAN]
      <3>1. context' = [g \in Harts |-> g \in Contexts]
        BY <1>10 DEF plic_probe
      <3>2. \A g \in Harts : (g \in Contexts) \in BOOLEAN
        OBVIOUS
      <3> QED
        BY <3>1, <3>2, Zenon
    <2>3. seie' \in [Harts -> BOOLEAN]
      BY <1>10 DEF plic_probe, TypeOK, PlicTypeOK
    <2>4. PlicTypeOK'
      BY <2>1, <2>2, <2>3 DEF TypeOK, PlicTypeOK
    <2> QED
      BY <1>10, <2>4 DEF TypeOK, uartVars, ethVars
  <1>11. ASSUME NEW h \in Harts, plic_remove(h), UNCHANGED <<uartVars, ethVars>>
        PROVE  TypeOK'
    BY <1>11 DEF plic_remove, At, GoTo, TypeOK, PlicTypeOK, setupVars, controllerVars,
       requestVars, plicVars, uartVars, ethVars
  <1>12. ASSUME NEW h \in Harts, do_IRQ_external(h), UNCHANGED <<uartVars, ethVars>>
        PROVE  TypeOK'
    BY <1>12 DEF do_IRQ_external, At, GoTo, TypeOK, PlicTypeOK, Claimable, setupVars,
       controllerVars, requestVars, plicVars, uartVars, ethVars
  <1>13. ASSUME NEW h \in Harts, plic_interrupt_context(h), UNCHANGED <<uartVars, ethVars>>
        PROVE  TypeOK'
    BY <1>13 DEF plic_interrupt_context, At, GoTo, TypeOK, PlicTypeOK, setupVars,
       controllerVars, requestVars, plicVars, uartVars, ethVars
  <1>14. ASSUME NEW h \in Harts, plic_interrupt_none(h), UNCHANGED <<uartVars, ethVars>>
        PROVE  TypeOK'
    BY <1>14 DEF plic_interrupt_none, At, GoTo, TypeOK, PlicTypeOK, Claimable, setupVars,
       controllerVars, requestVars, plicVars, uartVars, ethVars
  <1>15. ASSUME NEW h \in Harts, plic_interrupt_claim(h), UNCHANGED <<uartVars, ethVars>>
        PROVE  TypeOK'
    BY <1>15 DEF plic_interrupt_claim, At, GoTo, TypeOK, PlicTypeOK, Claimable, setupVars,
       controllerVars, requestVars, plicVars, uartVars, ethVars
  <1>16. ASSUME NEW h \in Harts, generic_handle_irq(h), UNCHANGED <<uartVars, ethVars>>
        PROVE  TypeOK'
    BY <1>16 DEF generic_handle_irq, At, GoTo, TypeOK, PlicTypeOK, Irq, setupVars,
       controllerVars, requestVars, plicVars, uartVars, ethVars
  <1>17. ASSUME NEW h \in Harts, handle_irq_event_end(h), UNCHANGED <<uartVars, ethVars>>
        PROVE  TypeOK'
    BY <1>17 DEF handle_irq_event_end, At, GoTo, TypeOK, PlicTypeOK, Irq, setupVars,
       controllerVars, requestVars, plicVars, uartVars, ethVars
  <1>18. ASSUME NEW h \in Harts, plic_interrupt_complete(h), UNCHANGED <<uartVars, ethVars>>
        PROVE  TypeOK'
    BY <1>18 DEF plic_interrupt_complete, At, GoTo, TypeOK, PlicTypeOK, setupVars,
       controllerVars, requestVars, plicVars, uartVars, ethVars
  <1>19. ASSUME NEW h \in Harts, rv_uart_isr_available(h)
        PROVE  TypeOK'
    BY <1>19 DEF rv_uart_isr_available, At, GoTo, TypeOK, PlicTypeOK, KeepUart, KeepPlic,
       setupVars, controllerVars, requestVars, plicVars, uartVars, ethVars
  <1>20. ASSUME NEW h \in Harts, rv_uart_isr_read(h)
        PROVE  TypeOK'
    <2>1. hpc[h] = "uart_read" /\ fifo \in Seq(1 .. MaxChars)
      BY <1>20 DEF rv_uart_isr_read, At, TypeOK
    <2>2. fifo # <<>>
      BY <2>1 DEF CharOrder
    <2>3. Head(fifo) \in 1 .. MaxChars /\ Tail(fifo) \in Seq(1 .. MaxChars)
      BY <2>1, <2>2
    <2>4. fifo' = Tail(fifo) /\ ch' = [ch EXCEPT ![h] = Head(fifo)]
      BY <1>20, <2>2 DEF rv_uart_isr_read
    <2>5. PlicTypeOK'
      BY <1>20 DEF rv_uart_isr_read, GoTo, KeepUart, KeepPlic, TypeOK, PlicTypeOK,
         setupVars, controllerVars, requestVars, plicVars, uartVars, ethVars
    <2>6. ch' \in [Harts -> 0 .. MaxChars]
      BY <2>3, <2>4 DEF TypeOK
    <2>7. UNCHANGED <<chars, portLock, tty, ethVars>>
      BY <1>20 DEF rv_uart_isr_read, KeepUart
    <2> QED BY <2>3, <2>4, <2>5, <2>6, <2>7 DEF TypeOK, ethVars
  <1>21. ASSUME NEW h \in Harts, rv_uart_isr_lock(h)
        PROVE  TypeOK'
    BY <1>21 DEF rv_uart_isr_lock, At, GoTo, TypeOK, PlicTypeOK, KeepUart, KeepPlic,
       setupVars, controllerVars, requestVars, plicVars, uartVars, ethVars
  <1>22. ASSUME NEW h \in Harts, rv_uart_isr_insert(h)
        PROVE  TypeOK'
    <2>1. hpc[h] = "uart_insert" /\ tty \in Seq(1 .. MaxChars) /\ Len(tty) \in Nat
      BY <1>22 DEF rv_uart_isr_insert, At, TypeOK
    <2>2. ch[h] \in 1 .. MaxChars
      BY <2>1 DEF CharOrder, Taken, TypeOK
    <2>3. tty' \in Seq(1 .. MaxChars)
      BY <1>22, <2>1, <2>2 DEF rv_uart_isr_insert
    <2>4. PlicTypeOK'
      BY <1>22 DEF rv_uart_isr_insert, GoTo, KeepUart, KeepPlic, TypeOK, PlicTypeOK,
         setupVars, controllerVars, requestVars, plicVars, uartVars, ethVars
    <2>5. ch' \in [Harts -> 0 .. MaxChars] /\ portLock' = None /\ UNCHANGED <<chars, fifo, ethVars>>
      BY <1>22 DEF rv_uart_isr_insert, KeepUart, TypeOK
    <2> QED BY <2>3, <2>4, <2>5 DEF TypeOK, ethVars
  <1>23. ASSUME NEW h \in Harts, frenox_eth_rx_none(h)
        PROVE  TypeOK'
    BY <1>23 DEF frenox_eth_rx_none, At, GoTo, TypeOK, PlicTypeOK, KeepEth, KeepPlic,
       setupVars, controllerVars, requestVars, plicVars, uartVars, ethVars
  <1>24. ASSUME NEW h \in Harts, frenox_eth_rx_alloc(h)
        PROVE  TypeOK'
    BY <1>24 DEF frenox_eth_rx_alloc, At, GoTo, TypeOK, PlicTypeOK, KeepEth, KeepPlic,
       setupVars, controllerVars, requestVars, plicVars, uartVars, ethVars
  <1>25. ASSUME NEW h \in Harts, frenox_eth_rx_no_memory(h)
        PROVE  TypeOK'
    BY <1>25 DEF frenox_eth_rx_no_memory, At, GoTo, TypeOK, PlicTypeOK, KeepEth, KeepPlic,
       setupVars, controllerVars, requestVars, plicVars, uartVars, ethVars
  <1>26. ASSUME NEW h \in Harts, frenox_eth_rx_copy(h)
        PROVE  TypeOK'
    BY <1>26 DEF frenox_eth_rx_copy, At, GoTo, TypeOK, PlicTypeOK, KeepEth, KeepPlic,
       setupVars, controllerVars, requestVars, plicVars, uartVars, ethVars
  <1>27. ASSUME NEW h \in Harts, frenox_eth_rx_deliver(h)
        PROVE  TypeOK'
    <2>1. hpc[h] = "eth_rx" /\ stack \in Seq(1 .. MaxPackets)
      BY <1>27 DEF frenox_eth_rx_deliver, At, TypeOK
    <2>2. skb[h] \in 1 .. MaxPackets
      BY <2>1 DEF PacketOrder, TypeOK
    <2>3. stack' \in Seq(1 .. MaxPackets)
      BY <1>27, <2>1, <2>2 DEF frenox_eth_rx_deliver
    <2>4. PlicTypeOK'
      BY <1>27 DEF frenox_eth_rx_deliver, GoTo, KeepEth, KeepPlic, TypeOK, PlicTypeOK,
         setupVars, controllerVars, requestVars, plicVars, uartVars, ethVars
    <2>5. /\ skb' \in [Harts -> 0 .. MaxPackets]
          /\ UNCHANGED <<packets, newPkt, buffer, eth, uartVars>>
      BY <1>27 DEF frenox_eth_rx_deliver, KeepEth, TypeOK
    <2> QED BY <2>3, <2>4, <2>5 DEF TypeOK, uartVars
  <1>28. ASSUME NEW h \in Harts, frenox_eth_rx_ack(h)
        PROVE  TypeOK'
    BY <1>28 DEF frenox_eth_rx_ack, At, GoTo, TypeOK, PlicTypeOK, KeepEth, KeepPlic,
       setupVars, controllerVars, requestVars, plicVars, uartVars, ethVars
  <1> QED
    BY <1>1, <1>2, <1>3, <1>4, <1>5, <1>6, <1>7, <1>8, <1>9, <1>10, <1>11, <1>12, <1>13,
       <1>14, <1>15, <1>16, <1>17, <1>18, <1>19, <1>20, <1>21, <1>22, <1>23, <1>24, <1>25,
       <1>26, <1>27, <1>28
    DEF Next, LatchLevel, SetUp, Handler, PlicHandler, UartHandler, EthHandler

LEMMA StepClaims ==
  ASSUME TypeOK, Claims, [Next]_vars
  PROVE  Claims'
  <1> USE DevicesAssumption, PlicAssumption DEF Irqs, Ids, UartPcs, EthPcs, None
  <1>1. CASE UNCHANGED vars
    BY <1>1 DEF vars, Claims, TypeOK, PlicTypeOK, setupVars, controllerVars, requestVars,
       plicVars, uartVars, ethVars
  <1>2. CASE CharArrives
    BY <1>2 DEF CharArrives, At, GoTo, Claims, TypeOK, PlicTypeOK, setupVars,
       controllerVars, requestVars, plicVars, uartVars, ethVars
  <1>3. CASE PacketArrives
    BY <1>3 DEF PacketArrives, At, GoTo, Claims, TypeOK, PlicTypeOK, setupVars,
       controllerVars, requestVars, plicVars, uartVars, ethVars
  <1>4. CASE plic_remove_descs /\ UNCHANGED <<uartVars, ethVars>>
    BY <1>4 DEF plic_remove_descs, At, GoTo, Claims, TypeOK, PlicTypeOK, setupVars,
       controllerVars, requestVars, plicVars, uartVars, ethVars
  <1>5. CASE rv_uart_probe
    BY <1>5 DEF rv_uart_probe, At, GoTo, Claims, TypeOK, PlicTypeOK, RequestIrq,
       setupVars, controllerVars, requestVars, plicVars, uartVars, ethVars
  <1>6. CASE frenox_eth_register
    BY <1>6 DEF frenox_eth_register, At, GoTo, Claims, TypeOK, PlicTypeOK, KeepPackets,
       setupVars, controllerVars, requestVars, plicVars, uartVars, ethVars
  <1>7. CASE frenox_eth_clear
    BY <1>7 DEF frenox_eth_clear, At, GoTo, Claims, TypeOK, PlicTypeOK, KeepPackets,
       setupVars, controllerVars, requestVars, plicVars, uartVars, ethVars
  <1>8. CASE frenox_eth_request_irq
    BY <1>8 DEF frenox_eth_request_irq, At, GoTo, Claims, TypeOK, PlicTypeOK, KeepPackets,
       RequestIrq, setupVars, controllerVars, requestVars, plicVars, uartVars, ethVars
  <1>9. ASSUME NEW i \in Irqs, Raised(i), Gateway(i), UNCHANGED <<uartVars, ethVars>>
        PROVE  Claims'
    <2>1. pending' \cap claimed' = {}
      BY <1>9 DEF Gateway, Claims
    <2> QED
      BY <1>9, <2>1 DEF Gateway, Claims, setupVars, controllerVars, requestVars, plicVars,
         uartVars, ethVars
  <1>10. ASSUME NEW h \in Harts, plic_probe(h), UNCHANGED <<uartVars, ethVars>>
        PROVE  Claims'
    BY <1>10 DEF plic_probe, At, GoTo, Claims, TypeOK, PlicTypeOK, setupVars,
       controllerVars, requestVars, plicVars, uartVars, ethVars
  <1>11. ASSUME NEW h \in Harts, plic_remove(h), UNCHANGED <<uartVars, ethVars>>
        PROVE  Claims'
    BY <1>11 DEF plic_remove, At, GoTo, Claims, TypeOK, PlicTypeOK, setupVars,
       controllerVars, requestVars, plicVars, uartVars, ethVars
  <1>12. ASSUME NEW h \in Harts, do_IRQ_external(h), UNCHANGED <<uartVars, ethVars>>
        PROVE  Claims'
    BY <1>12 DEF do_IRQ_external, At, GoTo, Claims, TypeOK, PlicTypeOK, Claimable,
       setupVars, controllerVars, requestVars, plicVars, uartVars, ethVars
  <1>13. ASSUME NEW h \in Harts, plic_interrupt_context(h), UNCHANGED <<uartVars, ethVars>>
        PROVE  Claims'
    BY <1>13 DEF plic_interrupt_context, At, GoTo, Claims, TypeOK, PlicTypeOK, setupVars,
       controllerVars, requestVars, plicVars, uartVars, ethVars
  <1>14. ASSUME NEW h \in Harts, plic_interrupt_none(h), UNCHANGED <<uartVars, ethVars>>
        PROVE  Claims'
    BY <1>14 DEF plic_interrupt_none, At, GoTo, Claims, TypeOK, PlicTypeOK, Claimable,
       setupVars, controllerVars, requestVars, plicVars, uartVars, ethVars
  <1>15. ASSUME NEW h \in Harts, plic_interrupt_claim(h), UNCHANGED <<uartVars, ethVars>>
        PROVE  Claims'
    <2>1. PICK id \in Claimable :
             /\ irq' = [irq EXCEPT ![h] = id]
             /\ pending' = pending \ {id} /\ claimed' = claimed \cup {id}
      BY <1>15 DEF plic_interrupt_claim
    <2>2. hpc[h] = "claim" /\ hpc' = [hpc EXCEPT ![h] = "flow"]
      BY <1>15 DEF plic_interrupt_claim, At, GoTo
    <2>3. id # 0 /\ id \notin claimed
      BY <2>1 DEF Claimable, Claims, TypeOK, PlicTypeOK
    <2>4. irq \in [Harts -> Ids \cup {0}] /\ hpc \in [Harts -> HandlerPcs \cup
            {"off", "context", "claim", "flow", "return", "complete"}]
      BY DEF TypeOK, PlicTypeOK
    <2>5. irq'[h] = id /\ hpc'[h] = "flow" /\ \A g \in Harts : g # h => irq'[g] = irq[g] /\ hpc'[g] = hpc[g]
      BY <2>1, <2>2, <2>4
    <2>6. pending' \cap claimed' = {}
      BY <2>1 DEF Claims
    <2>7. \A g \in Harts : irq'[g] = 0 <=> hpc'[g] \in {"off", "context", "claim"}
      BY <2>3, <2>5 DEF Claims
    <2>8. \A g \in Harts : irq'[g] # 0 => irq'[g] \in claimed'
      BY <2>1, <2>5 DEF Claims
    <2>9. \A f, g \in Harts : irq'[f] = irq'[g] /\ irq'[f] # 0 => f = g
      BY <2>3, <2>5 DEF Claims
    <2> QED
      BY <2>6, <2>7, <2>8, <2>9 DEF Claims
  <1>16. ASSUME NEW h \in Harts, generic_handle_irq(h), UNCHANGED <<uartVars, ethVars>>
        PROVE  Claims'
    <2>1. hpc[h] = "flow" /\ UNCHANGED <<pending, claimed, irq>>
      BY <1>16 DEF generic_handle_irq, At, controllerVars
    <2>2. \E there \in HandlerPcs \cup {"complete"} : hpc' = [hpc EXCEPT ![h] = there]
      <3>1. CASE Irq(h) \in Irqs \ inProgress /\ action[Irq(h)] # "none"
        <4>1. hpc' = [hpc EXCEPT ![h] = action[Irq(h)]]
          BY <1>16, <3>1 DEF generic_handle_irq, GoTo
        <4>2. action[Irq(h)] \in HandlerPcs
          BY <3>1 DEF TypeOK, PlicTypeOK
        <4> QED
          BY <4>1, <4>2
      <3>2. CASE ~(Irq(h) \in Irqs \ inProgress /\ action[Irq(h)] # "none")
        BY <1>16, <3>2 DEF generic_handle_irq, GoTo
      <3> QED
        BY <3>1, <3>2
    <2>3. hpc'[h] \notin {"off", "context", "claim"} /\ \A g \in Harts : g # h => hpc'[g] = hpc[g]
      BY <2>2, PlicAssumption DEF TypeOK, PlicTypeOK
    <2> QED
      BY <2>1, <2>3 DEF Claims
  <1>17. ASSUME NEW h \in Harts, handle_irq_event_end(h), UNCHANGED <<uartVars, ethVars>>
        PROVE  Claims'
    BY <1>17 DEF handle_irq_event_end, At, GoTo, Claims, TypeOK, PlicTypeOK, Irq,
       setupVars, controllerVars, requestVars, plicVars, uartVars, ethVars
  <1>18. ASSUME NEW h \in Harts, plic_interrupt_complete(h), UNCHANGED <<uartVars, ethVars>>
        PROVE  Claims'
    BY <1>18 DEF plic_interrupt_complete, At, GoTo, Claims, TypeOK, PlicTypeOK, setupVars,
       controllerVars, requestVars, plicVars, uartVars, ethVars
  <1>19. ASSUME NEW h \in Harts, rv_uart_isr_available(h)
        PROVE  Claims'
    BY <1>19 DEF rv_uart_isr_available, At, GoTo, Claims, TypeOK, PlicTypeOK, KeepUart,
       KeepPlic, setupVars, controllerVars, requestVars, plicVars, uartVars, ethVars
  <1>20. ASSUME NEW h \in Harts, rv_uart_isr_read(h)
        PROVE  Claims'
    BY <1>20 DEF rv_uart_isr_read, At, GoTo, Claims, TypeOK, PlicTypeOK, KeepUart,
       KeepPlic, setupVars, controllerVars, requestVars, plicVars, uartVars, ethVars
  <1>21. ASSUME NEW h \in Harts, rv_uart_isr_lock(h)
        PROVE  Claims'
    BY <1>21 DEF rv_uart_isr_lock, At, GoTo, Claims, TypeOK, PlicTypeOK, KeepUart,
       KeepPlic, setupVars, controllerVars, requestVars, plicVars, uartVars, ethVars
  <1>22. ASSUME NEW h \in Harts, rv_uart_isr_insert(h)
        PROVE  Claims'
    BY <1>22 DEF rv_uart_isr_insert, At, GoTo, Claims, TypeOK, PlicTypeOK, KeepUart,
       KeepPlic, setupVars, controllerVars, requestVars, plicVars, uartVars, ethVars
  <1>23. ASSUME NEW h \in Harts, frenox_eth_rx_none(h)
        PROVE  Claims'
    BY <1>23 DEF frenox_eth_rx_none, At, GoTo, Claims, TypeOK, PlicTypeOK, KeepEth,
       KeepPlic, setupVars, controllerVars, requestVars, plicVars, uartVars, ethVars
  <1>24. ASSUME NEW h \in Harts, frenox_eth_rx_alloc(h)
        PROVE  Claims'
    BY <1>24 DEF frenox_eth_rx_alloc, At, GoTo, Claims, TypeOK, PlicTypeOK, KeepEth,
       KeepPlic, setupVars, controllerVars, requestVars, plicVars, uartVars, ethVars
  <1>25. ASSUME NEW h \in Harts, frenox_eth_rx_no_memory(h)
        PROVE  Claims'
    BY <1>25 DEF frenox_eth_rx_no_memory, At, GoTo, Claims, TypeOK, PlicTypeOK, KeepEth,
       KeepPlic, setupVars, controllerVars, requestVars, plicVars, uartVars, ethVars
  <1>26. ASSUME NEW h \in Harts, frenox_eth_rx_copy(h)
        PROVE  Claims'
    BY <1>26 DEF frenox_eth_rx_copy, At, GoTo, Claims, TypeOK, PlicTypeOK, KeepEth,
       KeepPlic, setupVars, controllerVars, requestVars, plicVars, uartVars, ethVars
  <1>27. ASSUME NEW h \in Harts, frenox_eth_rx_deliver(h)
        PROVE  Claims'
    BY <1>27 DEF frenox_eth_rx_deliver, At, GoTo, Claims, TypeOK, PlicTypeOK, KeepEth,
       KeepPlic, setupVars, controllerVars, requestVars, plicVars, uartVars, ethVars
  <1>28. ASSUME NEW h \in Harts, frenox_eth_rx_ack(h)
        PROVE  Claims'
    BY <1>28 DEF frenox_eth_rx_ack, At, GoTo, Claims, TypeOK, PlicTypeOK, KeepEth,
       KeepPlic, setupVars, controllerVars, requestVars, plicVars, uartVars, ethVars
  <1> QED
    BY <1>1, <1>2, <1>3, <1>4, <1>5, <1>6, <1>7, <1>8, <1>9, <1>10, <1>11, <1>12, <1>13,
       <1>14, <1>15, <1>16, <1>17, <1>18, <1>19, <1>20, <1>21, <1>22, <1>23, <1>24, <1>25,
       <1>26, <1>27, <1>28
    DEF Next, LatchLevel, SetUp, Handler, PlicHandler, UartHandler, EthHandler

LEMMA StepHandlers ==
  ASSUME TypeOK, Claims, Handlers, [Next]_vars
  PROVE  Handlers'
  <1> USE DevicesAssumption, PlicAssumption DEF Irqs, Ids, UartPcs, EthPcs, None
  <1>1. CASE UNCHANGED vars
    BY <1>1 DEF vars, Handlers, TypeOK, PlicTypeOK, setupVars, controllerVars,
       requestVars, plicVars, uartVars, ethVars
  <1>2. CASE CharArrives
    BY <1>2 DEF CharArrives, At, GoTo, Handlers, TypeOK, PlicTypeOK, setupVars,
       controllerVars, requestVars, plicVars, uartVars, ethVars
  <1>3. CASE PacketArrives
    BY <1>3 DEF PacketArrives, At, GoTo, Handlers, TypeOK, PlicTypeOK, setupVars,
       controllerVars, requestVars, plicVars, uartVars, ethVars
  <1>4. CASE plic_remove_descs /\ UNCHANGED <<uartVars, ethVars>>
    BY <1>4 DEF plic_remove_descs, At, GoTo, Handlers, TypeOK, PlicTypeOK, setupVars,
       controllerVars, requestVars, plicVars, uartVars, ethVars
  <1>5. CASE rv_uart_probe
    BY <1>5 DEF rv_uart_probe, At, GoTo, Handlers, TypeOK, PlicTypeOK, RequestIrq,
       setupVars, controllerVars, requestVars, plicVars, uartVars, ethVars
  <1>6. CASE frenox_eth_register
    BY <1>6 DEF frenox_eth_register, At, GoTo, Handlers, TypeOK, PlicTypeOK, KeepPackets,
       setupVars, controllerVars, requestVars, plicVars, uartVars, ethVars
  <1>7. CASE frenox_eth_clear
    BY <1>7 DEF frenox_eth_clear, At, GoTo, Handlers, TypeOK, PlicTypeOK, KeepPackets,
       setupVars, controllerVars, requestVars, plicVars, uartVars, ethVars
  <1>8. CASE frenox_eth_request_irq
    BY <1>8 DEF frenox_eth_request_irq, At, GoTo, Handlers, TypeOK, PlicTypeOK,
       KeepPackets, RequestIrq, setupVars, controllerVars, requestVars, plicVars,
       uartVars, ethVars
  <1>9. ASSUME NEW i \in Irqs, Raised(i), Gateway(i), UNCHANGED <<uartVars, ethVars>>
        PROVE  Handlers'
    BY <1>9 DEF Gateway, Handlers, TypeOK, PlicTypeOK, setupVars, controllerVars,
       requestVars, plicVars, uartVars, ethVars
  <1>10. ASSUME NEW h \in Harts, plic_probe(h), UNCHANGED <<uartVars, ethVars>>
        PROVE  Handlers'
    BY <1>10 DEF plic_probe, At, GoTo, Handlers, TypeOK, PlicTypeOK, setupVars,
       controllerVars, requestVars, plicVars, uartVars, ethVars
  <1>11. ASSUME NEW h \in Harts, plic_remove(h), UNCHANGED <<uartVars, ethVars>>
        PROVE  Handlers'
    BY <1>11 DEF plic_remove, At, GoTo, Handlers, TypeOK, PlicTypeOK, setupVars,
       controllerVars, requestVars, plicVars, uartVars, ethVars
  <1>12. ASSUME NEW h \in Harts, do_IRQ_external(h), UNCHANGED <<uartVars, ethVars>>
        PROVE  Handlers'
    BY <1>12 DEF do_IRQ_external, At, GoTo, Handlers, TypeOK, PlicTypeOK, Claimable,
       setupVars, controllerVars, requestVars, plicVars, uartVars, ethVars
  <1>13. ASSUME NEW h \in Harts, plic_interrupt_context(h), UNCHANGED <<uartVars, ethVars>>
        PROVE  Handlers'
    BY <1>13 DEF plic_interrupt_context, At, GoTo, Handlers, TypeOK, PlicTypeOK,
       setupVars, controllerVars, requestVars, plicVars, uartVars, ethVars
  <1>14. ASSUME NEW h \in Harts, plic_interrupt_none(h), UNCHANGED <<uartVars, ethVars>>
        PROVE  Handlers'
    BY <1>14 DEF plic_interrupt_none, At, GoTo, Handlers, TypeOK, PlicTypeOK, Claimable,
       setupVars, controllerVars, requestVars, plicVars, uartVars, ethVars
  <1>15. ASSUME NEW h \in Harts, plic_interrupt_claim(h), UNCHANGED <<uartVars, ethVars>>
        PROVE  Handlers'
    BY <1>15 DEF plic_interrupt_claim, At, GoTo, Handlers, TypeOK, PlicTypeOK, Claimable,
       setupVars, controllerVars, requestVars, plicVars, uartVars, ethVars
  <1>16. ASSUME NEW h \in Harts, generic_handle_irq(h), UNCHANGED <<uartVars, ethVars>>
        PROVE  Handlers'
    <2>1. Irq(h) = irq[h] - 1 /\ irq[h] \in 1 .. NDevs
      BY <1>16 DEF generic_handle_irq, At, Irq, Claims, TypeOK, PlicTypeOK
    <2>2. hpc' = [hpc EXCEPT ![h] = hpc'[h]]
      BY <1>16 DEF generic_handle_irq, GoTo, TypeOK, PlicTypeOK
    <2>3. \/ hpc'[h] = "complete"
          \/ Irq(h) \in Irqs /\ action[Irq(h)] # "none" /\ hpc'[h] = action[Irq(h)]
      BY <1>16 DEF generic_handle_irq, GoTo, TypeOK, PlicTypeOK
    <2>4. hpc'[h] \in UartPcs => irq[h] = UartIrq + 1
      BY <2>1, <2>3 DEF Handlers
    <2>5. hpc'[h] \in EthPcs => irq[h] = EthIrq + 1 /\ eth = "up"
      BY <2>1, <2>3 DEF Handlers
    <2> QED
      BY <1>16, <2>2, <2>4, <2>5 DEF generic_handle_irq, Handlers, TypeOK, PlicTypeOK,
         setupVars, controllerVars, requestVars, plicVars, uartVars, ethVars
  <1>17. ASSUME NEW h \in Harts, handle_irq_event_end(h), UNCHANGED <<uartVars, ethVars>>
        PROVE  Handlers'
    BY <1>17 DEF handle_irq_event_end, At, GoTo, Handlers, TypeOK, PlicTypeOK, Irq,
       setupVars, controllerVars, requestVars, plicVars, uartVars, ethVars
  <1>18. ASSUME NEW h \in Harts, plic_interrupt_complete(h), UNCHANGED <<uartVars, ethVars>>
        PROVE  Handlers'
    BY <1>18 DEF plic_interrupt_complete, At, GoTo, Handlers, TypeOK, PlicTypeOK,
       setupVars, controllerVars, requestVars, plicVars, uartVars, ethVars
  <1>19. ASSUME NEW h \in Harts, rv_uart_isr_available(h)
        PROVE  Handlers'
    BY <1>19 DEF rv_uart_isr_available, At, GoTo, Handlers, TypeOK, PlicTypeOK, KeepUart,
       KeepPlic, setupVars, controllerVars, requestVars, plicVars, uartVars, ethVars
  <1>20. ASSUME NEW h \in Harts, rv_uart_isr_read(h)
        PROVE  Handlers'
    BY <1>20 DEF rv_uart_isr_read, At, GoTo, Handlers, TypeOK, PlicTypeOK, KeepUart,
       KeepPlic, setupVars, controllerVars, requestVars, plicVars, uartVars, ethVars
  <1>21. ASSUME NEW h \in Harts, rv_uart_isr_lock(h)
        PROVE  Handlers'
    BY <1>21 DEF rv_uart_isr_lock, At, GoTo, Handlers, TypeOK, PlicTypeOK, KeepUart,
       KeepPlic, setupVars, controllerVars, requestVars, plicVars, uartVars, ethVars
  <1>22. ASSUME NEW h \in Harts, rv_uart_isr_insert(h)
        PROVE  Handlers'
    BY <1>22 DEF rv_uart_isr_insert, At, GoTo, Handlers, TypeOK, PlicTypeOK, KeepUart,
       KeepPlic, setupVars, controllerVars, requestVars, plicVars, uartVars, ethVars
  <1>23. ASSUME NEW h \in Harts, frenox_eth_rx_none(h)
        PROVE  Handlers'
    BY <1>23 DEF frenox_eth_rx_none, At, GoTo, Handlers, TypeOK, PlicTypeOK, KeepEth,
       KeepPlic, setupVars, controllerVars, requestVars, plicVars, uartVars, ethVars
  <1>24. ASSUME NEW h \in Harts, frenox_eth_rx_alloc(h)
        PROVE  Handlers'
    BY <1>24 DEF frenox_eth_rx_alloc, At, GoTo, Handlers, TypeOK, PlicTypeOK, KeepEth,
       KeepPlic, setupVars, controllerVars, requestVars, plicVars, uartVars, ethVars
  <1>25. ASSUME NEW h \in Harts, frenox_eth_rx_no_memory(h)
        PROVE  Handlers'
    BY <1>25 DEF frenox_eth_rx_no_memory, At, GoTo, Handlers, TypeOK, PlicTypeOK, KeepEth,
       KeepPlic, setupVars, controllerVars, requestVars, plicVars, uartVars, ethVars
  <1>26. ASSUME NEW h \in Harts, frenox_eth_rx_copy(h)
        PROVE  Handlers'
    BY <1>26 DEF frenox_eth_rx_copy, At, GoTo, Handlers, TypeOK, PlicTypeOK, KeepEth,
       KeepPlic, setupVars, controllerVars, requestVars, plicVars, uartVars, ethVars
  <1>27. ASSUME NEW h \in Harts, frenox_eth_rx_deliver(h)
        PROVE  Handlers'
    BY <1>27 DEF frenox_eth_rx_deliver, At, GoTo, Handlers, TypeOK, PlicTypeOK, KeepEth,
       KeepPlic, setupVars, controllerVars, requestVars, plicVars, uartVars, ethVars
  <1>28. ASSUME NEW h \in Harts, frenox_eth_rx_ack(h)
        PROVE  Handlers'
    BY <1>28 DEF frenox_eth_rx_ack, At, GoTo, Handlers, TypeOK, PlicTypeOK, KeepEth,
       KeepPlic, setupVars, controllerVars, requestVars, plicVars, uartVars, ethVars
  <1> QED
    BY <1>1, <1>2, <1>3, <1>4, <1>5, <1>6, <1>7, <1>8, <1>9, <1>10, <1>11, <1>12, <1>13,
       <1>14, <1>15, <1>16, <1>17, <1>18, <1>19, <1>20, <1>21, <1>22, <1>23, <1>24, <1>25,
       <1>26, <1>27, <1>28
    DEF Next, LatchLevel, SetUp, Handler, PlicHandler, UartHandler, EthHandler

LEMMA StepCharOrder ==
  ASSUME TypeOK, Claims, Handlers, CharOrder, [Next]_vars
  PROVE  CharOrder'
  <1> USE DevicesAssumption, PlicAssumption DEF Irqs, Ids, UartPcs, EthPcs, None
  <1>1. CASE UNCHANGED vars
    BY <1>1 DEF vars, CharOrder, Taken, TypeOK, PlicTypeOK, setupVars, controllerVars,
       requestVars, plicVars, uartVars, ethVars
  <1>2. CASE CharArrives
    <2>1. fifo \in Seq(1 .. MaxChars) /\ chars \in Nat /\ Len(fifo) \in Nat /\ Len(tty) \in Nat
      BY DEF TypeOK
    <2>2. /\ fifo' = Append(fifo, chars + 1) /\ chars' = chars + 1
          /\ UNCHANGED <<hpc, ch, tty>>
      BY <1>2 DEF CharArrives, setupVars, controllerVars, requestVars, plicVars, uartVars,
         ethVars
    <2>3. /\ Len(fifo') = Len(fifo) + 1 /\ fifo' # <<>> /\ fifo'[Len(fifo) + 1] = chars + 1
          /\ \A n \in 1 .. Len(fifo) : fifo'[n] = fifo[n]
      BY <2>1, <2>2

    <2>4. chars' = chars + 1 /\ UNCHANGED <<hpc, ch, tty>>
      BY <2>2
    <2>5. \A n \in 1 .. Len(fifo') : fifo'[n] = chars' - Len(fifo') + n
      <3> SUFFICES ASSUME NEW n \in 1 .. Len(fifo') PROVE fifo'[n] = chars' - Len(fifo') + n
        OBVIOUS
      <3>1. CASE n = Len(fifo) + 1
        BY <3>1, <2>1, <2>3, <2>4
      <3>2. CASE n \in 1 .. Len(fifo)
        BY <3>2, <2>1, <2>3, <2>4 DEF CharOrder
      <3> QED BY <3>1, <3>2, <2>1, <2>3
    <2>6. chars' = Len(tty') + Len(fifo') + (IF \E h \in Harts : Taken(h)' THEN 1 ELSE 0)
      BY <2>1, <2>3, <2>4 DEF CharOrder, Taken
    <2> QED BY <2>3, <2>4, <2>5, <2>6 DEF CharOrder, Taken
  <1>3. CASE PacketArrives
    BY <1>3 DEF PacketArrives, At, GoTo, CharOrder, Taken, TypeOK, PlicTypeOK, setupVars,
       controllerVars, requestVars, plicVars, uartVars, ethVars
  <1>4. CASE plic_remove_descs /\ UNCHANGED <<uartVars, ethVars>>
    BY <1>4 DEF plic_remove_descs, At, GoTo, CharOrder, Taken, TypeOK, PlicTypeOK,
       setupVars, controllerVars, requestVars, plicVars, uartVars, ethVars
  <1>5. CASE rv_uart_probe
    BY <1>5 DEF rv_uart_probe, At, GoTo, CharOrder, Taken, TypeOK, PlicTypeOK, RequestIrq,
       setupVars, controllerVars, requestVars, plicVars, uartVars, ethVars
  <1>6. CASE frenox_eth_register
    BY <1>6 DEF frenox_eth_register, At, GoTo, CharOrder, Taken, TypeOK, PlicTypeOK,
       KeepPackets, setupVars, controllerVars, requestVars, plicVars, uartVars, ethVars
  <1>7. CASE frenox_eth_clear
    BY <1>7 DEF frenox_eth_clear, At, GoTo, CharOrder, Taken, TypeOK, PlicTypeOK,
       KeepPackets, setupVars, controllerVars, requestVars, plicVars, uartVars, ethVars
  <1>8. CASE frenox_eth_request_irq
    BY <1>8 DEF frenox_eth_request_irq, At, GoTo, CharOrder, Taken, TypeOK, PlicTypeOK,
       KeepPackets, RequestIrq, setupVars, controllerVars, requestVars, plicVars,
       uartVars, ethVars
  <1>9. ASSUME NEW i \in Irqs, Raised(i), Gateway(i), UNCHANGED <<uartVars, ethVars>>
        PROVE  CharOrder'
    BY <1>9 DEF Gateway, CharOrder, Taken, TypeOK, PlicTypeOK, setupVars, controllerVars,
       requestVars, plicVars, uartVars, ethVars
  <1>10. ASSUME NEW h \in Harts, plic_probe(h), UNCHANGED <<uartVars, ethVars>>
        PROVE  CharOrder'
    BY <1>10 DEF plic_probe, At, GoTo, CharOrder, Taken, TypeOK, PlicTypeOK, setupVars,
       controllerVars, requestVars, plicVars, uartVars, ethVars
  <1>11. ASSUME NEW h \in Harts, plic_remove(h), UNCHANGED <<uartVars, ethVars>>
        PROVE  CharOrder'
    BY <1>11 DEF plic_remove, At, GoTo, CharOrder, Taken, TypeOK, PlicTypeOK, setupVars,
       controllerVars, requestVars, plicVars, uartVars, ethVars
  <1>12. ASSUME NEW h \in Harts, do_IRQ_external(h), UNCHANGED <<uartVars, ethVars>>
        PROVE  CharOrder'
    BY <1>12 DEF do_IRQ_external, At, GoTo, CharOrder, Taken, TypeOK, PlicTypeOK,
       Claimable, setupVars, controllerVars, requestVars, plicVars, uartVars, ethVars
  <1>13. ASSUME NEW h \in Harts, plic_interrupt_context(h), UNCHANGED <<uartVars, ethVars>>
        PROVE  CharOrder'
    BY <1>13 DEF plic_interrupt_context, At, GoTo, CharOrder, Taken, TypeOK, PlicTypeOK,
       setupVars, controllerVars, requestVars, plicVars, uartVars, ethVars
  <1>14. ASSUME NEW h \in Harts, plic_interrupt_none(h), UNCHANGED <<uartVars, ethVars>>
        PROVE  CharOrder'
    BY <1>14 DEF plic_interrupt_none, At, GoTo, CharOrder, Taken, TypeOK, PlicTypeOK,
       Claimable, setupVars, controllerVars, requestVars, plicVars, uartVars, ethVars
  <1>15. ASSUME NEW h \in Harts, plic_interrupt_claim(h), UNCHANGED <<uartVars, ethVars>>
        PROVE  CharOrder'
    BY <1>15 DEF plic_interrupt_claim, At, GoTo, CharOrder, Taken, TypeOK, PlicTypeOK,
       Claimable, setupVars, controllerVars, requestVars, plicVars, uartVars, ethVars
  <1>16. ASSUME NEW h \in Harts, generic_handle_irq(h), UNCHANGED <<uartVars, ethVars>>
        PROVE  CharOrder'
    <2>1. hpc'[h] \notin {"uart_read", "uart_lock", "uart_insert"}
      BY <1>16 DEF generic_handle_irq, GoTo, Handlers, Irq, TypeOK, PlicTypeOK
    <2>2. \A g \in Harts, pc \in {"uart_read", "uart_lock", "uart_insert"} :
            hpc'[g] = pc <=> hpc[g] = pc
      BY <1>16, <2>1 DEF generic_handle_irq, At, GoTo, TypeOK, PlicTypeOK
    <2>3. UNCHANGED <<chars, fifo, ch, tty>>
      BY <1>16 DEF uartVars
    <2>4. \A g \in Harts : Taken(g)' <=> Taken(g)
      BY <2>2 DEF Taken
    <2> QED BY <2>2, <2>3, <2>4 DEF CharOrder
  <1>17. ASSUME NEW h \in Harts, handle_irq_event_end(h), UNCHANGED <<uartVars, ethVars>>
        PROVE  CharOrder'
    BY <1>17 DEF handle_irq_event_end, At, GoTo, CharOrder, Taken, TypeOK, PlicTypeOK,
       Irq, setupVars, controllerVars, requestVars, plicVars, uartVars, ethVars
  <1>18. ASSUME NEW h \in Harts, plic_interrupt_complete(h), UNCHANGED <<uartVars, ethVars>>
        PROVE  CharOrder'
    BY <1>18 DEF plic_interrupt_complete, At, GoTo, CharOrder, Taken, TypeOK, PlicTypeOK,
       setupVars, controllerVars, requestVars, plicVars, uartVars, ethVars
  <1>19. ASSUME NEW h \in Harts, rv_uart_isr_available(h)
        PROVE  CharOrder'
    BY <1>19 DEF rv_uart_isr_available, At, GoTo, CharOrder, Taken, TypeOK, PlicTypeOK,
       KeepUart, KeepPlic, setupVars, controllerVars, requestVars, plicVars, uartVars,
       ethVars
  <1>20. ASSUME NEW h \in Harts, rv_uart_isr_read(h)
        PROVE  CharOrder'
    <2>1. /\ fifo \in Seq(1 .. MaxChars) /\ Len(fifo) \in Nat /\ Len(tty) \in Nat /\ chars \in Nat
          /\ hpc[h] = "uart_read"
      BY <1>20 DEF rv_uart_isr_read, At, TypeOK
    <2>2. fifo # <<>>
      BY <2>1 DEF CharOrder
    <2>3. \A g \in Harts : ~Taken(g) /\ (g # h => hpc[g] # "uart_read")
      BY <2>1, Alone DEF Taken
    <2>4. hpc' = [hpc EXCEPT ![h] = "uart_lock"]
      BY <1>20 DEF rv_uart_isr_read, GoTo
    <2>5. fifo' = Tail(fifo) /\ ch' = [ch EXCEPT ![h] = Head(fifo)] /\ UNCHANGED <<chars, tty>>
      BY <1>20, <2>2 DEF rv_uart_isr_read
    <2>6. /\ Head(fifo) = fifo[1] /\ Len(fifo) > 0
          /\ Len(fifo') = Len(fifo) - 1 /\ \A n \in 1 .. Len(fifo') : fifo'[n] = fifo[n + 1]
      BY <2>1, <2>2, <2>5
    <2>7. chars = Len(tty) + Len(fifo)
      <3>1. ~\E g \in Harts : Taken(g)
        BY <2>3
      <3> QED BY <3>1, <2>1 DEF CharOrder
    <2>8. Head(fifo) = Len(tty) + 1
      BY <2>1, <2>6, <2>7 DEF CharOrder
    <2>9. ch' = [ch EXCEPT ![h] = Len(tty) + 1] /\ UNCHANGED <<chars, tty>>
      BY <2>5, <2>8
    <2>10. \A n \in 1 .. Len(fifo') : fifo'[n] = chars' - Len(fifo') + n
      <3> SUFFICES ASSUME NEW n \in 1 .. Len(fifo') PROVE fifo'[n] = chars' - Len(fifo') + n
        OBVIOUS
      <3>1. n + 1 \in 1 .. Len(fifo) /\ fifo'[n] = fifo[n + 1]
        BY <2>1, <2>6
      <3> QED BY <3>1, <2>1, <2>6, <2>9 DEF CharOrder
    <2>11. \A g \in Harts : Taken(g)' <=> g = h
      BY <2>3, <2>4 DEF Taken, TypeOK, PlicTypeOK
    <2>12. \A g \in Harts : ch'[g] = IF Taken(g)' THEN Len(tty') + 1 ELSE None
      BY <2>3, <2>9, <2>11 DEF CharOrder, TypeOK
    <2>13. \A g \in Harts : hpc'[g] # "uart_read"
      BY <2>3, <2>4 DEF TypeOK, PlicTypeOK
    <2>14. chars' = Len(tty') + Len(fifo') + (IF \E g \in Harts : Taken(g)' THEN 1 ELSE 0)
      <3>1. \E g \in Harts : Taken(g)'
        BY <2>11
      <3>2. (IF \E g \in Harts : Taken(g)' THEN 1 ELSE 0) = 1
        BY <3>1
      <3>3. chars' = Len(tty') + Len(fifo') + 1
        BY <2>1, <2>6, <2>7, <2>9
      <3> QED BY <3>2, <3>3
    <2>15. \A n \in 1 .. Len(tty') : tty'[n] = n
      BY <2>9 DEF CharOrder
    <2> QED BY <2>10, <2>12, <2>13, <2>14, <2>15 DEF CharOrder
  <1>21. ASSUME NEW h \in Harts, rv_uart_isr_lock(h)
        PROVE  CharOrder'
    BY <1>21 DEF rv_uart_isr_lock, At, GoTo, CharOrder, Taken, TypeOK, PlicTypeOK,
       KeepUart, KeepPlic, setupVars, controllerVars, requestVars, plicVars, uartVars,
       ethVars
  <1>22. ASSUME NEW h \in Harts, rv_uart_isr_insert(h)
        PROVE  CharOrder'
    <2>1. /\ tty \in Seq(1 .. MaxChars) /\ Len(tty) \in Nat /\ Len(fifo) \in Nat /\ chars \in Nat
          /\ hpc[h] = "uart_insert"
      BY <1>22 DEF rv_uart_isr_insert, At, TypeOK
    <2>2. Taken(h) /\ \A g \in Harts : g # h => ~Taken(g) /\ hpc[g] # "uart_read"
      BY <2>1, Alone DEF Taken
    <2>3. hpc' = [hpc EXCEPT ![h] = "return"]
      BY <1>22 DEF rv_uart_isr_insert, GoTo
    <2>4. ch[h] = Len(tty) + 1
      BY <2>2 DEF CharOrder
    <2>5. /\ tty' = Append(tty, Len(tty) + 1)
          /\ ch' = [ch EXCEPT ![h] = None] /\ UNCHANGED <<chars, fifo>>
      BY <1>22, <2>4 DEF rv_uart_isr_insert
    <2>6. /\ Len(tty') = Len(tty) + 1 /\ tty'[Len(tty) + 1] = Len(tty) + 1
          /\ \A n \in 1 .. Len(tty) : tty'[n] = tty[n]
      BY <2>1, <2>5
    <2>7. \A n \in 1 .. Len(tty') : tty'[n] = n
      <3> SUFFICES ASSUME NEW n \in 1 .. Len(tty') PROVE tty'[n] = n
        OBVIOUS
      <3>1. CASE n \in 1 .. Len(tty)
        BY <3>1, <2>6 DEF CharOrder
      <3>2. CASE n = Len(tty) + 1
        BY <3>2, <2>6
      <3>3. Len(tty) \in Nat
        BY <2>1
      <3>4. n \in 1 .. Len(tty) + 1
        BY <2>6
      <3>5. n \in 1 .. Len(tty) \/ n = Len(tty) + 1
        BY <3>3, <3>4
      <3> QED BY <3>1, <3>2, <3>5
    <2>8. \A g \in Harts : ~Taken(g)' /\ hpc'[g] # "uart_read"
      BY <2>2, <2>3 DEF Taken, TypeOK, PlicTypeOK
    <2>9. \A g \in Harts : ch'[g] = None
      BY <2>2, <2>5 DEF CharOrder, TypeOK
    <2>10. chars = Len(tty) + Len(fifo) + 1
      BY <2>1, <2>2 DEF CharOrder
    <2>11. chars' = Len(tty') + Len(fifo') + (IF \E g \in Harts : Taken(g)' THEN 1 ELSE 0)
      <3>1. (IF \E g \in Harts : Taken(g)' THEN 1 ELSE 0) = 0
        BY <2>8
      <3>2. /\ Len(tty) \in Nat /\ Len(fifo) \in Nat /\ Len(tty') = Len(tty) + 1
            /\ chars' = chars /\ Len(fifo') = Len(fifo)
        BY <2>1, <2>5, <2>6
      <3>3. chars' = Len(tty') + Len(fifo') + 0
        BY <3>2, <2>10
      <3> QED BY <3>1, <3>3
    <2>12. \A n \in 1 .. Len(fifo') : fifo'[n] = chars' - Len(fifo') + n
      BY <2>5 DEF CharOrder
    <2> QED BY <2>7, <2>8, <2>9, <2>11, <2>12 DEF CharOrder
  <1>23. ASSUME NEW h \in Harts, frenox_eth_rx_none(h)
        PROVE  CharOrder'
    BY <1>23 DEF frenox_eth_rx_none, At, GoTo, CharOrder, Taken, TypeOK, PlicTypeOK,
       KeepEth, KeepPlic, setupVars, controllerVars, requestVars, plicVars, uartVars,
       ethVars
  <1>24. ASSUME NEW h \in Harts, frenox_eth_rx_alloc(h)
        PROVE  CharOrder'
    BY <1>24 DEF frenox_eth_rx_alloc, At, GoTo, CharOrder, Taken, TypeOK, PlicTypeOK,
       KeepEth, KeepPlic, setupVars, controllerVars, requestVars, plicVars, uartVars,
       ethVars
  <1>25. ASSUME NEW h \in Harts, frenox_eth_rx_no_memory(h)
        PROVE  CharOrder'
    BY <1>25 DEF frenox_eth_rx_no_memory, At, GoTo, CharOrder, Taken, TypeOK, PlicTypeOK,
       KeepEth, KeepPlic, setupVars, controllerVars, requestVars, plicVars, uartVars,
       ethVars
  <1>26. ASSUME NEW h \in Harts, frenox_eth_rx_copy(h)
        PROVE  CharOrder'
    BY <1>26 DEF frenox_eth_rx_copy, At, GoTo, CharOrder, Taken, TypeOK, PlicTypeOK,
       KeepEth, KeepPlic, setupVars, controllerVars, requestVars, plicVars, uartVars,
       ethVars
  <1>27. ASSUME NEW h \in Harts, frenox_eth_rx_deliver(h)
        PROVE  CharOrder'
    BY <1>27 DEF frenox_eth_rx_deliver, At, GoTo, CharOrder, Taken, TypeOK, PlicTypeOK,
       KeepEth, KeepPlic, setupVars, controllerVars, requestVars, plicVars, uartVars,
       ethVars
  <1>28. ASSUME NEW h \in Harts, frenox_eth_rx_ack(h)
        PROVE  CharOrder'
    BY <1>28 DEF frenox_eth_rx_ack, At, GoTo, CharOrder, Taken, TypeOK, PlicTypeOK,
       KeepEth, KeepPlic, setupVars, controllerVars, requestVars, plicVars, uartVars,
       ethVars
  <1> QED
    BY <1>1, <1>2, <1>3, <1>4, <1>5, <1>6, <1>7, <1>8, <1>9, <1>10, <1>11, <1>12, <1>13,
       <1>14, <1>15, <1>16, <1>17, <1>18, <1>19, <1>20, <1>21, <1>22, <1>23, <1>24, <1>25,
       <1>26, <1>27, <1>28
    DEF Next, LatchLevel, SetUp, Handler, PlicHandler, UartHandler, EthHandler

LEMMA StepPacketOrder ==
  ASSUME TypeOK, Claims, Handlers, PacketOrder, [Next]_vars
  PROVE  PacketOrder'
  <1> USE DevicesAssumption, PlicAssumption DEF Irqs, Ids, UartPcs, EthPcs, None
  <1>1. CASE UNCHANGED vars
    BY <1>1 DEF vars, PacketOrder, Delivered, TypeOK, PlicTypeOK, setupVars,
       controllerVars, requestVars, plicVars, uartVars, ethVars
  <1>2. CASE CharArrives
    BY <1>2 DEF CharArrives, At, GoTo, PacketOrder, Delivered, TypeOK, PlicTypeOK,
       setupVars, controllerVars, requestVars, plicVars, uartVars, ethVars
  <1>3. CASE PacketArrives
    BY <1>3 DEF PacketArrives, At, GoTo, PacketOrder, Delivered, TypeOK, PlicTypeOK,
       setupVars, controllerVars, requestVars, plicVars, uartVars, ethVars
  <1>4. CASE plic_remove_descs /\ UNCHANGED <<uartVars, ethVars>>
    BY <1>4 DEF plic_remove_descs, At, GoTo, PacketOrder, Delivered, TypeOK, PlicTypeOK,
       setupVars, controllerVars, requestVars, plicVars, uartVars, ethVars
  <1>5. CASE rv_uart_probe
    BY <1>5 DEF rv_uart_probe, At, GoTo, PacketOrder, Delivered, TypeOK, PlicTypeOK,
       RequestIrq, setupVars, controllerVars, requestVars, plicVars, uartVars, ethVars
  <1>6. CASE frenox_eth_register
    BY <1>6 DEF frenox_eth_register, At, GoTo, PacketOrder, Delivered, TypeOK, PlicTypeOK,
       KeepPackets, setupVars, controllerVars, requestVars, plicVars, uartVars, ethVars
  <1>7. CASE frenox_eth_clear
    <2>1. stack = <<>> /\ stack' = <<>>
      BY <1>7 DEF frenox_eth_clear, KeepPackets, PacketOrder
    <2>2. \A h \in Harts : hpc[h] \notin EthPcs
      BY <1>7 DEF frenox_eth_clear, Handlers
    <2>3. ~newPkt' /\ UNCHANGED <<hpc, packets, buffer, skb>>
      BY <1>7 DEF frenox_eth_clear, KeepPackets, setupVars, controllerVars, requestVars,
         plicVars, uartVars, ethVars
    <2> QED BY <2>1, <2>2, <2>3 DEF PacketOrder
  <1>8. CASE frenox_eth_request_irq
    BY <1>8 DEF frenox_eth_request_irq, At, GoTo, PacketOrder, Delivered, TypeOK,
       PlicTypeOK, KeepPackets, RequestIrq, setupVars, controllerVars, requestVars,
       plicVars, uartVars, ethVars
  <1>9. ASSUME NEW i \in Irqs, Raised(i), Gateway(i), UNCHANGED <<uartVars, ethVars>>
        PROVE  PacketOrder'
    BY <1>9 DEF Gateway, PacketOrder, Delivered, TypeOK, PlicTypeOK, setupVars,
       controllerVars, requestVars, plicVars, uartVars, ethVars
  <1>10. ASSUME NEW h \in Harts, plic_probe(h), UNCHANGED <<uartVars, ethVars>>
        PROVE  PacketOrder'
    BY <1>10 DEF plic_probe, At, GoTo, PacketOrder, Delivered, TypeOK, PlicTypeOK,
       setupVars, controllerVars, requestVars, plicVars, uartVars, ethVars
  <1>11. ASSUME NEW h \in Harts, plic_remove(h), UNCHANGED <<uartVars, ethVars>>
        PROVE  PacketOrder'
    BY <1>11 DEF plic_remove, At, GoTo, PacketOrder, Delivered, TypeOK, PlicTypeOK,
       setupVars, controllerVars, requestVars, plicVars, uartVars, ethVars
  <1>12. ASSUME NEW h \in Harts, do_IRQ_external(h), UNCHANGED <<uartVars, ethVars>>
        PROVE  PacketOrder'
    BY <1>12 DEF do_IRQ_external, At, GoTo, PacketOrder, Delivered, TypeOK, PlicTypeOK,
       Claimable, setupVars, controllerVars, requestVars, plicVars, uartVars, ethVars
  <1>13. ASSUME NEW h \in Harts, plic_interrupt_context(h), UNCHANGED <<uartVars, ethVars>>
        PROVE  PacketOrder'
    BY <1>13 DEF plic_interrupt_context, At, GoTo, PacketOrder, Delivered, TypeOK,
       PlicTypeOK, setupVars, controllerVars, requestVars, plicVars, uartVars, ethVars
  <1>14. ASSUME NEW h \in Harts, plic_interrupt_none(h), UNCHANGED <<uartVars, ethVars>>
        PROVE  PacketOrder'
    BY <1>14 DEF plic_interrupt_none, At, GoTo, PacketOrder, Delivered, TypeOK,
       PlicTypeOK, Claimable, setupVars, controllerVars, requestVars, plicVars, uartVars,
       ethVars
  <1>15. ASSUME NEW h \in Harts, plic_interrupt_claim(h), UNCHANGED <<uartVars, ethVars>>
        PROVE  PacketOrder'
    BY <1>15 DEF plic_interrupt_claim, At, GoTo, PacketOrder, Delivered, TypeOK,
       PlicTypeOK, Claimable, setupVars, controllerVars, requestVars, plicVars, uartVars,
       ethVars
  <1>16. ASSUME NEW h \in Harts, generic_handle_irq(h), UNCHANGED <<uartVars, ethVars>>
        PROVE  PacketOrder'
    <2>1. hpc'[h] \notin {"eth_copy", "eth_rx", "eth_ack"}
      BY <1>16 DEF generic_handle_irq, GoTo, Handlers, Irq, TypeOK, PlicTypeOK
    <2>2. \A g \in Harts, pc \in {"eth_copy", "eth_rx", "eth_ack"} : hpc'[g] = pc <=> hpc[g] = pc
      BY <1>16, <2>1 DEF generic_handle_irq, At, GoTo, TypeOK, PlicTypeOK
    <2>3. UNCHANGED ethVars
      BY <1>16
    <2>4. Delivered' <=> Delivered
      BY <2>2, <2>3 DEF Delivered, ethVars
    <2> QED BY <2>2, <2>3, <2>4 DEF PacketOrder, ethVars
  <1>17. ASSUME NEW h \in Harts, handle_irq_event_end(h), UNCHANGED <<uartVars, ethVars>>
        PROVE  PacketOrder'
    BY <1>17 DEF handle_irq_event_end, At, GoTo, PacketOrder, Delivered, TypeOK,
       PlicTypeOK, Irq, setupVars, controllerVars, requestVars, plicVars, uartVars,
       ethVars
  <1>18. ASSUME NEW h \in Harts, plic_interrupt_complete(h), UNCHANGED <<uartVars, ethVars>>
        PROVE  PacketOrder'
    BY <1>18 DEF plic_interrupt_complete, At, GoTo, PacketOrder, Delivered, TypeOK,
       PlicTypeOK, setupVars, controllerVars, requestVars, plicVars, uartVars, ethVars
  <1>19. ASSUME NEW h \in Harts, rv_uart_isr_available(h)
        PROVE  PacketOrder'
    BY <1>19 DEF rv_uart_isr_available, At, GoTo, PacketOrder, Delivered, TypeOK,
       PlicTypeOK, KeepUart, KeepPlic, setupVars, controllerVars, requestVars, plicVars,
       uartVars, ethVars
  <1>20. ASSUME NEW h \in Harts, rv_uart_isr_read(h)
        PROVE  PacketOrder'
    BY <1>20 DEF rv_uart_isr_read, At, GoTo, PacketOrder, Delivered, TypeOK, PlicTypeOK,
       KeepUart, KeepPlic, setupVars, controllerVars, requestVars, plicVars, uartVars,
       ethVars
  <1>21. ASSUME NEW h \in Harts, rv_uart_isr_lock(h)
        PROVE  PacketOrder'
    BY <1>21 DEF rv_uart_isr_lock, At, GoTo, PacketOrder, Delivered, TypeOK, PlicTypeOK,
       KeepUart, KeepPlic, setupVars, controllerVars, requestVars, plicVars, uartVars,
       ethVars
  <1>22. ASSUME NEW h \in Harts, rv_uart_isr_insert(h)
        PROVE  PacketOrder'
    BY <1>22 DEF rv_uart_isr_insert, At, GoTo, PacketOrder, Delivered, TypeOK, PlicTypeOK,
       KeepUart, KeepPlic, setupVars, controllerVars, requestVars, plicVars, uartVars,
       ethVars
  <1>23. ASSUME NEW h \in Harts, frenox_eth_rx_none(h)
        PROVE  PacketOrder'
    BY <1>23 DEF frenox_eth_rx_none, At, GoTo, PacketOrder, Delivered, TypeOK, PlicTypeOK,
       KeepEth, KeepPlic, setupVars, controllerVars, requestVars, plicVars, uartVars,
       ethVars
  <1>24. ASSUME NEW h \in Harts, frenox_eth_rx_alloc(h)
        PROVE  PacketOrder'
    BY <1>24 DEF frenox_eth_rx_alloc, At, GoTo, PacketOrder, Delivered, TypeOK,
       PlicTypeOK, KeepEth, KeepPlic, setupVars, controllerVars, requestVars, plicVars,
       uartVars, ethVars
  <1>25. ASSUME NEW h \in Harts, frenox_eth_rx_no_memory(h)
        PROVE  PacketOrder'
    BY <1>25 DEF frenox_eth_rx_no_memory, At, GoTo, PacketOrder, Delivered, TypeOK,
       PlicTypeOK, KeepEth, KeepPlic, setupVars, controllerVars, requestVars, plicVars,
       uartVars, ethVars
  <1>26. ASSUME NEW h \in Harts, frenox_eth_rx_copy(h)
        PROVE  PacketOrder'
    BY <1>26 DEF frenox_eth_rx_copy, At, GoTo, PacketOrder, Delivered, TypeOK, PlicTypeOK,
       KeepEth, KeepPlic, setupVars, controllerVars, requestVars, plicVars, uartVars,
       ethVars
  <1>27. ASSUME NEW h \in Harts, frenox_eth_rx_deliver(h)
        PROVE  PacketOrder'
    <2>1. stack \in Seq(1 .. MaxPackets) /\ Len(stack) \in Nat /\ packets \in Nat
      BY DEF TypeOK
    <2>2. hpc[h] = "eth_rx" /\ hpc' = [hpc EXCEPT ![h] = "eth_ack"]
      BY <1>27 DEF frenox_eth_rx_deliver, At, GoTo
    <2>3. stack' = Append(stack, skb[h]) /\ UNCHANGED <<packets, newPkt, buffer, eth>>
      BY <1>27 DEF frenox_eth_rx_deliver, KeepEth
    <2>4. \A g \in Harts : g # h => hpc[g] \notin EthPcs
      BY <2>2, Alone
    <2>5. newPkt /\ skb[h] = packets /\ eth = "up"
      BY <2>2 DEF PacketOrder, Handlers
    <2>6. ~Delivered
      BY <2>2, <2>4, <2>5 DEF Delivered
    <2>7. stack # <<>> => stack[Len(stack)] = packets - 1
      BY <2>6 DEF PacketOrder
    <2>8. /\ stack' # <<>> /\ Len(stack') = Len(stack) + 1 /\ stack'[Len(stack) + 1] = packets
          /\ \A i \in 1 .. Len(stack) : stack'[i] = stack[i]
      BY <2>1, <2>3, <2>5
    <2>9. \A i \in 1 .. Len(stack') - 1 : stack'[i + 1] = stack'[i] + 1
      <3> SUFFICES ASSUME NEW i \in 1 .. Len(stack') - 1
                   PROVE  stack'[i + 1] = stack'[i] + 1
        OBVIOUS
      <3>1. i \in 1 .. Len(stack) /\ stack'[i] = stack[i]
        BY <2>1, <2>8
      <3>2. CASE i = Len(stack)
        <4>1. stack # <<>>
          BY <3>1, <2>1
        <4> QED BY <4>1, <3>1, <3>2, <2>1, <2>7, <2>8
      <3>3. CASE i # Len(stack)
        <4>1. i \in 1 .. Len(stack) - 1 /\ i + 1 \in 1 .. Len(stack)
          BY <3>1, <3>3, <2>1
        <4> QED BY <4>1, <3>1, <2>8 DEF PacketOrder
      <3> QED BY <3>2, <3>3
    <2>10. Delivered'
      BY <2>2 DEF Delivered, TypeOK, PlicTypeOK
    <2>11. \A g \in Harts : hpc'[g] # "eth_rx"
      BY <2>2, <2>4 DEF TypeOK, PlicTypeOK
    <2>12. UNCHANGED <<packets, newPkt, buffer, eth>>
      BY <2>3
    <2>13. stack'[Len(stack')] = packets'
      BY <2>8, <2>12
    <2> QED BY <2>1, <2>5, <2>9, <2>10, <2>11, <2>12, <2>13 DEF PacketOrder
  <1>28. ASSUME NEW h \in Harts, frenox_eth_rx_ack(h)
        PROVE  PacketOrder'
    <2>1. hpc[h] = "eth_ack" /\ hpc' = [hpc EXCEPT ![h] = "return"]
      BY <1>28 DEF frenox_eth_rx_ack, At, GoTo
    <2>2. \A g \in Harts : hpc'[g] \notin EthPcs
      BY <2>1, Alone DEF TypeOK, PlicTypeOK
    <2>3. ~newPkt' /\ UNCHANGED <<packets, buffer, stack, eth>>
      BY <1>28 DEF frenox_eth_rx_ack, KeepEth
    <2>4. Delivered /\ Delivered'
      BY <2>1, <2>3 DEF Delivered
    <2> QED BY <2>2, <2>3, <2>4 DEF PacketOrder
  <1> QED
    BY <1>1, <1>2, <1>3, <1>4, <1>5, <1>6, <1>7, <1>8, <1>9, <1>10, <1>11, <1>12, <1>13,
       <1>14, <1>15, <1>16, <1>17, <1>18, <1>19, <1>20, <1>21, <1>22, <1>23, <1>24, <1>25,
       <1>26, <1>27, <1>28
    DEF Next, LatchLevel, SetUp, Handler, PlicHandler, UartHandler, EthHandler

(* Two sequences that count on make one that counts from 1. *)
LEMMA Joined ==
  ASSUME NEW s \in Seq(Nat), NEW t \in Seq(Nat),
         \A n \in 1 .. Len(s) : s[n] = n,
         \A n \in 1 .. Len(t) : t[n] = Len(s) + n
  PROVE  s \o t = [n \in 1 .. Len(s) + Len(t) |-> n]
  <1>1. Len(s) \in Nat /\ Len(t) \in Nat
    OBVIOUS
  <1>2. DOMAIN (s \o t) = 1 .. Len(s) + Len(t)
    BY <1>1
  <1>3. ASSUME NEW n \in 1 .. Len(s) + Len(t) PROVE (s \o t)[n] = n
    <2>1. CASE n <= Len(s)
      BY <1>1, <2>1
    <2>2. CASE n > Len(s)
      <3>1. n - Len(s) \in 1 .. Len(t)
        BY <1>1, <2>2
      <3>2. (s \o t)[n] = t[n - Len(s)]
        BY <1>1, <2>2
      <3> QED BY <1>1, <3>1, <3>2
    <2> QED BY <1>1, <2>1, <2>2
  <1>4. s \o t \in [1 .. Len(s) + Len(t) -> Nat]
    <2>1. s \o t \in Seq(Nat)
      OBVIOUS
    <2>2. Len(s \o t) = Len(s) + Len(t)
      OBVIOUS
    <2> QED BY <2>1, <2>2, LenProperties
  <1> QED BY <1>3, <1>4

LEMMA OrderIsRxInOrder == TypeOK /\ Claims /\ Handlers /\ CharOrder /\ PacketOrder => RxInOrder
  <1> SUFFICES ASSUME TypeOK, Claims, Handlers, CharOrder, PacketOrder
               PROVE  RxInOrder
    OBVIOUS
  <1> USE DevicesAssumption, PlicAssumption DEF None
  <1>1. PICK h \in Harts : \A g \in Harts \ {h} : ~Taken(g)
    <2>1. \A g, k \in Harts : Taken(g) /\ Taken(k) => g = k
      BY Alone DEF Taken, UartPcs
    <2> QED BY <2>1
  <1>2. \A g \in Harts \ {h} : ch[g] = None
    BY <1>1 DEF CharOrder
  <1>3. /\ tty \in Seq(Nat) /\ fifo \in Seq(Nat) /\ Len(tty) \in Nat /\ Len(fifo) \in Nat
        /\ chars \in Nat
    BY DEF TypeOK, PlicTypeOK
  <1>4. InFlight(h) = IF Taken(h) THEN <<Len(tty) + 1>> ELSE <<>>
    BY <1>3 DEF CharOrder, InFlight
  <1>5. tty \o InFlight(h) \o fifo = [n \in 1 .. chars |-> n]
    <2>1. CASE Taken(h)
      <3> DEFINE s == tty \o <<Len(tty) + 1>>
      <3>1. s \in Seq(Nat) /\ Len(s) = Len(tty) + 1 /\ \A n \in 1 .. Len(s) : s[n] = n
        BY <1>3 DEF CharOrder
      <3>2. \E k \in Harts : Taken(k)
        BY <2>1
      <3>3. chars = Len(tty) + Len(fifo) + 1
        BY <3>2 DEF CharOrder
      <3>4. chars = Len(s) + Len(fifo) /\ \A n \in 1 .. Len(fifo) : fifo[n] = Len(s) + n
        <4>1. chars = Len(s) + Len(fifo) /\ chars - Len(fifo) = Len(s)
          BY <1>3, <3>1, <3>3
        <4> QED BY <4>1 DEF CharOrder
      <3> HIDE DEF s
      <3>5. s \o fifo = [n \in 1 .. Len(s) + Len(fifo) |-> n]
        BY <1>3, <3>1, <3>4, Joined
      <3> QED BY <2>1, <1>4, <3>4, <3>5 DEF s
    <2>2. CASE ~Taken(h)
      <3>1. tty \o InFlight(h) = tty
        BY <2>2, <1>3, <1>4
      <3>2. ~\E k \in Harts : Taken(k)
        BY <2>2, <1>1
      <3>3. chars = Len(tty) + Len(fifo)
        BY <1>3, <3>2 DEF CharOrder
      <3>4. \A n \in 1 .. Len(fifo) : fifo[n] = Len(tty) + n
        <4>1. chars - Len(fifo) = Len(tty)
          BY <1>3, <3>3
        <4> QED BY <4>1 DEF CharOrder
      <3>5. tty \o fifo = [n \in 1 .. Len(tty) + Len(fifo) |-> n]
        BY <1>3, <3>4, Joined DEF CharOrder
      <3> QED BY <3>1, <3>3, <3>5
    <2> QED BY <2>1, <2>2
  <1>6. \A i \in 1 .. Len(stack) - 1 : stack[i + 1] = stack[i] + 1
    BY DEF PacketOrder
  <1> QED BY <1>2, <1>5, <1>6 DEF RxInOrder

LEMMA StepIInv == IInv /\ [Next]_vars => IInv'
  BY StepTypes, StepClaims, StepHandlers, StepCharOrder, StepPacketOrder DEF IInv

THEOREM Invariance == Spec => []IInv
  <1> QED BY InitIInv, StepIInv, PTL DEF Spec

(* uart.c, frenox_eth.c: characters and packets are delivered in order,    *)
(* for any number of harts that take external interrupts, of characters    *)
(* and of packets.                                                         *)
THEOREM RxInOrderHolds == Spec => []RxInOrder
  <1>1. IInv => RxInOrder
    BY OrderIsRxInOrder DEF IInv
  <1> QED BY <1>1, Invariance, PTL

(* plic.c: sources, handlers and what the devices hold keep their types.   *)
THEOREM TypeCorrect == Spec => []TypeOK
  <1>1. IInv => TypeOK
    BY DEF IInv
  <1> QED BY <1>1, Invariance, PTL

-----------------------------------------------------------------------------
(* The UART: what a writer still believes there is room for is there, or   *)
(* was taken by the other writer, or was lost.                             *)
PutTypes ==
  /\ txFifo \in Seq(Writers) /\ Len(txFifo) <= FifoSize
  /\ space \in [Writers -> Nat] /\ lost \in [Writers -> Nat] /\ others \in [Writers -> Nat]

RoomInv ==
  \A w \in Writers :
     /\ space[w] + lost[w] <= FifoSize - Len(txFifo) + others[w]
     /\ lost[w] <= others[w]

PutInv == PutTypes /\ RoomInv

LEMMA PutInit == TxInit => PutInv
  <1> SUFFICES ASSUME TxInit PROVE PutInv
    OBVIOUS
  <1>1. txFifo = <<>> /\ txFifo \in Seq(Writers) /\ Len(txFifo) = 0
    BY DEF TxInit
  <1> QED
    BY <1>1, TransmitAssumption DEF TxInit, PutInv, PutTypes, RoomInv

LEMMA PutKept == PutInv /\ [TxNext]_txVars => PutInv'
  <1> SUFFICES ASSUME PutInv, [TxNext]_txVars PROVE PutInv'
    OBVIOUS
  <1>1. Len(txFifo) \in Nat /\ FifoSize \in Nat /\ Len(txFifo) <= FifoSize /\ txFifo \in Seq(Writers)
    BY TransmitAssumption DEF PutInv, PutTypes
  <1>2. /\ space \in [Writers -> Nat] /\ lost \in [Writers -> Nat] /\ others \in [Writers -> Nat]
        /\ \A w \in Writers : /\ space[w] + lost[w] <= FifoSize - Len(txFifo) + others[w]
                              /\ lost[w] <= others[w]
    BY DEF PutInv, PutTypes, RoomInv
  <1>3. ASSUME UNCHANGED putVars PROVE PutInv'
    BY <1>3 DEF putVars, PutInv, PutTypes, RoomInv
  <1>4. CASE FifoDrains
    <2>1. Len(Tail(txFifo)) = Len(txFifo) - 1 /\ Tail(txFifo) \in Seq(Writers) /\ txFifo # <<>>
      BY <1>1, <1>4 DEF FifoDrains
    <2>2. txFifo' = Tail(txFifo) /\ space' = space /\ lost' = lost /\ others' = others
      BY <1>4 DEF FifoDrains
    <2>3. PutTypes'
      BY <1>1, <1>2, <2>1, <2>2 DEF PutTypes
    <2>4. ASSUME NEW v \in Writers
          PROVE  space[v] + lost[v] <= FifoSize - (Len(txFifo) - 1) + others[v]
      <3>1. space[v] \in Nat /\ lost[v] \in Nat /\ others[v] \in Nat
        BY <1>2
      <3> QED
        BY <1>1, <1>2, <3>1
    <2> QED
      BY <1>2, <2>1, <2>2, <2>3, <2>4 DEF PutInv, RoomInv
  <1>5. ASSUME NEW w \in Writers, put_string(w) PROVE PutInv'
    <2>1. space' = [space EXCEPT ![w] = 0] /\ txFifo' = txFifo /\ lost' = lost /\ others' = others
      BY <1>5 DEF put_string
    <2>2. ASSUME NEW v \in Writers PROVE space'[v] \in Nat /\ space'[v] <= space[v]
      BY <1>2, <2>1
    <2>3. PutTypes'
      BY <1>1, <1>2, <2>1 DEF PutTypes
    <2>4. ASSUME NEW v \in Writers PROVE space'[v] + lost[v] <= FifoSize - Len(txFifo) + others[v]
      <3>1. space[v] \in Nat /\ lost[v] \in Nat /\ others[v] \in Nat
        BY <1>2
      <3> QED
        BY <1>1, <1>2, <2>2, <3>1
    <2> QED
      BY <1>2, <2>1, <2>3, <2>4 DEF PutInv, RoomInv
  <1>6. ASSUME NEW w \in Writers, put_string_space(w) PROVE PutInv'
    <2>1. /\ space' = [space EXCEPT ![w] = FifoSize - Len(txFifo)] /\ txFifo' = txFifo
          /\ lost' = [lost EXCEPT ![w] = 0] /\ others' = [others EXCEPT ![w] = 0]
      BY <1>6 DEF put_string_space
    <2>2. FifoSize - Len(txFifo) \in Nat
      BY <1>1
    <2>3. PutTypes'
      BY <1>1, <1>2, <2>1, <2>2 DEF PutTypes
    <2>4. ASSUME NEW v \in Writers
          PROVE  /\ space'[v] + lost'[v] <= FifoSize - Len(txFifo) + others'[v]
                 /\ lost'[v] <= others'[v]
      BY <1>1, <1>2, <2>1, <2>2
    <2> QED
      BY <2>1, <2>3, <2>4 DEF PutInv, RoomInv
  <1>7. ASSUME NEW w \in Writers, put_string_char(w) PROVE PutInv'
    <2>1. space' = [space EXCEPT ![w] = @ - 1] /\ space[w] >= 1 /\ space[w] \in Nat
      BY <1>2, <1>7 DEF put_string_char
    <2>2. CASE Len(txFifo) < FifoSize
      <3>1. /\ txFifo' = Append(txFifo, w) /\ lost' = lost
            /\ others' = [v \in Writers |-> IF v # w THEN others[v] + 1 ELSE others[v]]
        BY <1>7, <2>2 DEF put_string_char, Put
      <3>2. txFifo' \in Seq(Writers) /\ Len(txFifo') = Len(txFifo) + 1
        BY <1>1, <3>1
      <3>3. PutTypes'
        BY <1>1, <1>2, <2>1, <2>2, <3>1, <3>2 DEF PutTypes
      <3>4. ASSUME NEW v \in Writers
            PROVE  /\ space'[v] + lost[v] <= FifoSize - (Len(txFifo) + 1) + others'[v]
                   /\ lost[v] <= others'[v]
        <4>1. space[v] \in Nat /\ lost[v] \in Nat /\ others[v] \in Nat
          BY <1>2
        <4>2. /\ space[v] + lost[v] <= FifoSize - Len(txFifo) + others[v]
              /\ lost[v] <= others[v]
          BY <1>2
        <4>3. CASE v = w
          BY <1>1, <1>2, <2>1, <3>1, <4>1, <4>2, <4>3
        <4>4. CASE v # w
          BY <1>1, <1>2, <2>1, <3>1, <4>1, <4>2, <4>4
        <4> QED
          BY <4>3, <4>4
      <3> QED
        BY <3>1, <3>2, <3>3, <3>4 DEF PutInv, RoomInv
    <2>3. CASE ~(Len(txFifo) < FifoSize)
      <3>1. txFifo' = txFifo /\ others' = others /\ lost' = [lost EXCEPT ![w] = @ + 1]
        BY <1>7, <2>3 DEF put_string_char, Put
      <3>2. PutTypes'
        BY <1>1, <1>2, <2>1, <3>1 DEF PutTypes
      <3>3. ASSUME NEW v \in Writers
            PROVE  /\ space'[v] + lost'[v] <= FifoSize - Len(txFifo) + others[v]
                   /\ lost'[v] <= others[v]
        <4>1. space[v] \in Nat /\ lost[v] \in Nat /\ others[v] \in Nat
          BY <1>2
        <4>2. /\ space[v] + lost[v] <= FifoSize - Len(txFifo) + others[v]
              /\ lost[v] <= others[v]
          BY <1>2
        <4>3. CASE v = w
          BY <1>1, <1>2, <2>1, <2>3, <3>1, <4>1, <4>2, <4>3
        <4>4. CASE v # w
          BY <1>1, <1>2, <2>1, <3>1, <4>1, <4>2, <4>4
        <4> QED
          BY <4>3, <4>4
      <3> QED
        BY <3>1, <3>2, <3>3 DEF PutInv, RoomInv
    <2> QED
      BY <2>2, <2>3
  <1>8. CASE EthTransmit
    BY <1>3, <1>8 DEF EthTransmit, frenox_eth_init, mdio_write_wait, mdio_write_command,
       mdio_write_done, MdioShifted, MdioAt, dev_queue_xmit, frenox_eth_xmit, xmit_wait,
       xmit_test, xmit_copy, xmit_len, xmit_send_now, XmitAt, PacketSent
  <1>9. CASE UNCHANGED txVars
    BY <1>3, <1>9 DEF txVars
  <1> QED
    BY <1>4, <1>5, <1>6, <1>7, <1>8, <1>9 DEF TxNext, UartTransmit

(* Packets: everything but the packet in frenox_eth_xmit and the one going *)
(* out has gone out.                                                       *)
UnderWay == (IF xpc = "idle" THEN 0 ELSE 1) + (IF txBusy THEN 1 ELSE 0)

SentInv ==
  /\ sent \in Seq(Nat \X Nat) /\ packet \in Nat
  /\ txBusy \in BOOLEAN /\ xpc \in {"idle", "wait", "test", "copy", "len", "send"}
  /\ \A n \in 1 .. Len(sent) : sent[n] = <<n, n>>
  /\ packet = Len(sent) + UnderWay
  /\ xpc \notin {"idle", "wait"} => ~txBusy
  /\ txBusy => txBuffer = Len(sent) + 1 /\ txLen = Len(sent) + 1
  /\ xpc = "len" => txBuffer = packet
  /\ xpc = "send" => txBuffer = packet /\ txLen = packet

LEMMA SentInit == TxInit => SentInv
  <1> SUFFICES ASSUME TxInit PROVE SentInv
    OBVIOUS
  <1>1. sent = <<>> /\ sent \in Seq(Nat \X Nat) /\ Len(sent) = 0
    BY DEF TxInit
  <1>2. xpc = "idle" /\ packet = 0 /\ txBusy = FALSE
    BY DEF TxInit
  <1>3. packet = Len(sent) + UnderWay
    BY <1>1, <1>2 DEF UnderWay
  <1>4. sent \in Seq(Nat \X Nat) /\ \A n \in 1 .. Len(sent) : sent[n] = <<n, n>>
    BY <1>1
  <1>5. packet \in Nat /\ txBusy \in BOOLEAN /\ xpc \in {"idle", "wait", "test", "copy", "len", "send"}
    BY <1>2
  <1>6. ~txBusy
    BY <1>2
  <1>7. xpc # "len" /\ xpc # "send"
    BY <1>2
  <1> QED
    BY <1>3, <1>4, <1>5, <1>6, <1>7, Zenon DEF SentInv

LEMMA SentKept == SentInv /\ [TxNext]_txVars => SentInv'
  <1> SUFFICES ASSUME SentInv, [TxNext]_txVars PROVE SentInv'
    OBVIOUS
  <1> USE DEF SentInv, UnderWay
  <1>1. ASSUME UNCHANGED xmitVars PROVE SentInv'
    BY <1>1 DEF xmitVars
  <1>2. CASE dev_queue_xmit
    BY <1>2 DEF dev_queue_xmit, XmitAt
  <1>3. CASE frenox_eth_xmit
    <2>1. Len(sent) \in Nat
      OBVIOUS
    <2>2. CASE xmit_wait
      BY <2>1, <2>2 DEF xmit_wait, XmitAt
    <2>3. CASE xmit_test
      BY <2>1, <2>3 DEF xmit_test, XmitAt
    <2>4. CASE xmit_copy
      BY <2>1, <2>4 DEF xmit_copy, XmitAt
    <2>5. CASE xmit_len
      BY <2>1, <2>5 DEF xmit_len, XmitAt
    <2>6. CASE xmit_send_now
      BY <2>1, <2>6 DEF xmit_send_now, XmitAt
    <2> QED
      BY <1>3, <2>2, <2>3, <2>4, <2>5, <2>6 DEF frenox_eth_xmit
  <1>4. CASE PacketSent
    <2>1. sent' = Append(sent, <<Len(sent) + 1, Len(sent) + 1>>)
      BY <1>4 DEF PacketSent
    <2>2. <<Len(sent) + 1, Len(sent) + 1>> \in Nat \X Nat
      OBVIOUS
    <2>3. /\ sent' \in Seq(Nat \X Nat) /\ Len(sent') = Len(sent) + 1
          /\ \A n \in 1 .. Len(sent) : sent'[n] = sent[n]
          /\ sent'[Len(sent) + 1] = <<Len(sent) + 1, Len(sent) + 1>>
      BY <2>1, <2>2
    <2>4. ASSUME NEW n \in 1 .. Len(sent') PROVE sent'[n] = <<n, n>>
      <3>1. Len(sent) \in Nat
        OBVIOUS
      <3>2. CASE n = Len(sent) + 1
        BY <2>3, <3>2
      <3>3. CASE n # Len(sent) + 1
        <4>1. n \in 1 .. Len(sent)
          BY <2>3, <3>1, <3>3
        <4> QED
          BY <2>3, <4>1
      <3> QED
        BY <3>2, <3>3
    <2>5. txBusy /\ ~txBusy' /\ UNCHANGED <<xpc, packet, txBuffer, txLen>>
      BY <1>4 DEF PacketSent
    <2>6. packet' = Len(sent') + UnderWay'
      BY <2>3, <2>5
    <2>7. /\ packet' \in Nat /\ txBusy' = FALSE
          /\ xpc' \in {"idle", "wait", "test", "copy", "len", "send"}
      BY <1>4 DEF PacketSent
    <2>8. /\ xpc' = "len" => txBuffer' = packet'
          /\ xpc' = "send" => txBuffer' = packet' /\ txLen' = packet'
      BY <2>5
    <2>9. sent' \in Seq(Nat \X Nat) /\ \A n \in 1 .. Len(sent') : sent'[n] = <<n, n>>
      BY <2>3, <2>4, Zenon
    <2>10. ~txBusy' /\ txBusy' \in BOOLEAN
      BY <2>7, Zenon
    <2> QED
      BY <2>6, <2>7, <2>8, <2>9, <2>10, Zenon
  <1>5. CASE UartTransmit
    BY <1>1, <1>5 DEF UartTransmit, FifoDrains, put_string, put_string_space, put_string_char
  <1>6. CASE frenox_eth_init \/ mdio_write_wait \/ mdio_write_command \/ mdio_write_done \/ MdioShifted
    BY <1>1, <1>6 DEF frenox_eth_init, mdio_write_wait, mdio_write_command, mdio_write_done,
       MdioShifted, MdioAt
  <1>7. CASE UNCHANGED txVars
    BY <1>1, <1>7 DEF txVars
  <1> QED
    BY <1>2, <1>3, <1>4, <1>5, <1>6, <1>7 DEF TxNext, EthTransmit

(* The PHY: what is to be written begins behind what was written and what  *)
(* is on its way.                                                          *)
MdioInv ==
  /\ phy \in Seq(Nat) /\ mdioTodo \in Seq(Nat) /\ mdioOut \in Seq(Nat)
  /\ mpc \in {"idle", "command", "done"}
  /\ Len(mdioTodo) <= Len(Registers)
  /\ \A n \in 1 .. Len(mdioTodo) : mdioTodo[n] = Registers[Len(Registers) - Len(mdioTodo) + n]
  /\ \A n \in 1 .. Len(phy) : phy[n] = Registers[n]
  /\ mpc # "done" => mdioOut = <<>> /\ Len(phy) + Len(mdioTodo) = Len(Registers)
  /\ mpc # "idle" => mdioTodo # <<>>
  /\ mpc = "done" =>
       \/ mdioOut = <<>> /\ Len(phy) + Len(mdioTodo) = Len(Registers) + 1
       \/ mdioOut = <<mdioTodo[1]>> /\ Len(phy) + Len(mdioTodo) = Len(Registers)

LEMMA RegistersTyped == Registers \in Seq(Nat) /\ Len(Registers) = 7
  BY DEF Registers

LEMMA MdioInit == TxInit => MdioInv
  <1> SUFFICES ASSUME TxInit PROVE MdioInv
    OBVIOUS
  <1>1. phy = <<>> /\ mdioOut = <<>> /\ mdioTodo = Registers /\ mpc = "idle"
    BY DEF TxInit
  <1>2. <<>> \in Seq(Nat) /\ Len(<<>>) = 0
    OBVIOUS
  <1> QED
    BY <1>1, <1>2, RegistersTyped DEF MdioInv

LEMMA MdioKept == MdioInv /\ [TxNext]_txVars => MdioInv'
  <1> SUFFICES ASSUME MdioInv, [TxNext]_txVars PROVE MdioInv'
    OBVIOUS
  <1> USE RegistersTyped DEF MdioInv
  <1>1. ASSUME UNCHANGED <<mdioTodo, mpc, mdioOut, phy>> PROVE MdioInv'
    BY <1>1
  <1>2. CASE mdio_write_wait
    BY <1>2 DEF mdio_write_wait, MdioAt
  <1>3. CASE mdio_write_command
    <2>1. Head(mdioTodo) = mdioTodo[1] /\ mdioTodo[1] \in Nat
      BY <1>3 DEF mdio_write_command, MdioAt
    <2>2. mdioOut' = <<mdioTodo[1]>> /\ mdioOut' \in Seq(Nat)
      BY <1>3, <2>1 DEF mdio_write_command
    <2> QED
      BY <1>3, <2>2 DEF mdio_write_command, MdioAt
  <1>4. CASE mdio_write_done
    <2>1. mdioTodo' = Tail(mdioTodo) /\ mdioTodo # <<>> /\ UNCHANGED <<phy, mdioOut>>
          /\ mpc' = "idle" /\ mdioOut = <<>> /\ Len(phy) + Len(mdioTodo) = Len(Registers) + 1
      BY <1>4 DEF mdio_write_done, MdioAt
    <2>2. /\ mdioTodo' \in Seq(Nat) /\ Len(mdioTodo') = Len(mdioTodo) - 1
          /\ \A n \in 1 .. Len(mdioTodo') : mdioTodo'[n] = mdioTodo[n + 1]
      BY <2>1
    <2>3. \A n \in 1 .. Len(mdioTodo') : mdioTodo'[n] = Registers[Len(Registers) - Len(mdioTodo') + n]
      BY <2>2
    <2> QED
      BY <2>1, <2>2, <2>3
  <1>5. CASE MdioShifted
    <2>1. mpc = "done" /\ mdioOut = <<mdioTodo[1]>> /\ Len(phy) + Len(mdioTodo) = Len(Registers)
      BY <1>5 DEF MdioShifted
    <2>0. Len(mdioTodo) \in Nat /\ Len(phy) \in Nat /\ mdioTodo # <<>>
      BY <2>1
    <2>2. Len(mdioTodo) >= 1 /\ mdioTodo[1] = Registers[Len(phy) + 1] /\ mdioTodo[1] \in Nat
      <3>1. Len(mdioTodo) >= 1 /\ mdioTodo[1] \in Nat
        BY <2>0, EmptySeq, LenProperties
      <3>2. mdioTodo[1] = Registers[Len(Registers) - Len(mdioTodo) + 1]
        BY <2>0, <3>1
      <3>3. Len(Registers) - Len(mdioTodo) + 1 = Len(phy) + 1
        BY <2>0, <2>1
      <3> QED
        BY <3>1, <3>2, <3>3
    <2>3. phy' = phy \o <<mdioTodo[1]>>
      BY <1>5, <2>1 DEF MdioShifted
    <2>4. /\ phy' \in Seq(Nat) /\ Len(phy') = Len(phy) + 1
          /\ \A n \in 1 .. Len(phy) : phy'[n] = phy[n]
          /\ phy'[Len(phy) + 1] = mdioTodo[1]
      BY <2>2, <2>3
    <2>5. ASSUME NEW n \in 1 .. Len(phy') PROVE phy'[n] = Registers[n]
      <3>1. CASE n = Len(phy) + 1
        BY <2>2, <2>4, <3>1
      <3>2. CASE n # Len(phy) + 1
        <4>1. n \in 1 .. Len(phy)
          BY <2>0, <2>4, <3>2
        <4> QED
          BY <2>4, <4>1
      <3> QED
        BY <3>1, <3>2
    <2>6. mdioOut' = <<>> /\ mdioOut' \in Seq(Nat) /\ UNCHANGED <<mdioTodo, mpc>>
      BY <1>5 DEF MdioShifted
    <2> QED
      BY <2>1, <2>4, <2>5, <2>6
  <1>6. CASE UartTransmit
    BY <1>1, <1>6 DEF UartTransmit, FifoDrains, put_string, put_string_space, put_string_char, mdioVars
  <1>7. CASE frenox_eth_init \/ dev_queue_xmit \/ frenox_eth_xmit \/ PacketSent
    BY <1>1, <1>7 DEF frenox_eth_init, dev_queue_xmit, frenox_eth_xmit, xmit_wait,
       xmit_test, xmit_copy, xmit_len, xmit_send_now, XmitAt, PacketSent, mdioVars
  <1>8. CASE UNCHANGED txVars
    BY <1>1, <1>8 DEF txVars, mdioVars
  <1> QED
    BY <1>2, <1>3, <1>4, <1>5, <1>6, <1>7, <1>8 DEF TxNext, EthTransmit

(* uart.c:76-87, frenox_eth.c:182-216: what goes out is what was sent, in  *)
(* order, and what is lost another writer has displaced.                   *)
THEOREM TxInOrderHolds == TxSpec => []TxInOrder
  <1>1. PutInv /\ SentInv /\ MdioInv => TxInOrder
    <2> SUFFICES ASSUME PutInv, SentInv, MdioInv PROVE TxInOrder
      OBVIOUS
    <2>1. phy = SubSeq(Registers, 1, Len(phy))
      <3>1. Len(phy) \in 0 .. Len(Registers)
        <4>1. Len(mdioTodo) \in Nat /\ Len(phy) \in Nat /\ (mdioTodo # <<>> => Len(mdioTodo) >= 1)
          BY EmptySeq, LenProperties DEF MdioInv
        <4>2. mpc \in {"idle", "command"} => Len(phy) + Len(mdioTodo) = Len(Registers)
          BY DEF MdioInv
        <4>3. mpc = "done" => /\ Len(mdioTodo) >= 1
                              /\ \/ Len(phy) + Len(mdioTodo) = Len(Registers) + 1
                                 \/ Len(phy) + Len(mdioTodo) = Len(Registers)
          BY <4>1 DEF MdioInv
        <4>4. mpc \in {"idle", "command", "done"}
          BY DEF MdioInv
        <4>5. Len(phy) <= Len(Registers)
          BY <4>1, <4>2, <4>3, <4>4, RegistersTyped
        <4> DEFINE m == Len(phy)
                   k == Len(Registers)
        <4>6. m \in Nat /\ k \in Nat /\ m <= k
          BY <4>1, <4>5, RegistersTyped
        <4> HIDE DEF m, k
        <4>7. m \in 0 .. k
          BY <4>6
        <4> QED
          BY <4>7 DEF m, k
      <3>2. /\ SubSeq(Registers, 1, Len(phy)) \in Seq(Nat)
            /\ Len(SubSeq(Registers, 1, Len(phy))) = Len(phy)
            /\ \A n \in 1 .. Len(phy) : SubSeq(Registers, 1, Len(phy))[n] = Registers[n]
        <4> DEFINE m == Len(phy)
        <4>0. Registers \in [1 .. 7 -> Nat] /\ m \in 0 .. 7
          BY <3>1, RegistersTyped, LenProperties
        <4> HIDE DEF m
        <4>1. m \in Int /\ \A n \in 1 .. m : Registers[n] \in Nat
          BY <4>0
        <4>2. m - 1 + 1 = m /\ \A n \in 1 .. m : 1 + n - 1 = n /\ n \in 1 .. m - 1 + 1
          BY <4>1
        <4> HIDE DEF m
        <4>3. /\ SubSeq(Registers, 1, m) \in Seq(Nat)
              /\ Len(SubSeq(Registers, 1, m)) = IF 1 <= m THEN m - 1 + 1 ELSE 0
              /\ \A n \in 1 .. m - 1 + 1 : SubSeq(Registers, 1, m)[n] = Registers[1 + n - 1]
          BY <4>1, SubSeqProperties
        <4> QED
          BY <3>1, <4>2, <4>3 DEF m
      <3> QED
        BY <3>2, SeqEqual DEF MdioInv
    <2> QED
      BY <2>1 DEF PutInv, RoomInv, SentInv, TxInOrder
  <1> QED
    BY <1>1, PutInit, PutKept, SentInit, SentKept, MdioInit, MdioKept, PTL DEF TxSpec
=============================================================================
