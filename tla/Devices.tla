------------------------------ MODULE Devices -------------------------------
(***************************************************************************)
(* The receive sides of the UART (drivers/uart.c) and of the Frenox        *)
(* Ethernet controller (drivers/frenox_eth.c), on top of the interrupt     *)
(* controller of Plic.  Characters and packets are numbered as they        *)
(* arrive.                                                                 *)
(***************************************************************************)
EXTENDS Plic, Sequences

CONSTANTS
  UartIrq, EthIrq,  \* the interrupts the configuration string gives them
  MaxChars,         \* bound: characters that arrive
  MaxPackets        \* bound: packets that arrive

UartPcs == {"uart_avail", "uart_read", "uart_lock", "uart_insert"}
EthPcs == {"eth_new", "eth_copy", "eth_rx", "eth_ack"}

ASSUME DevicesAssumption ==
  /\ {UartIrq, EthIrq} \subseteq Irqs /\ UartIrq # EthIrq
  /\ HandlerPcs = UartPcs \cup EthPcs
  /\ MaxChars \in Nat /\ MaxPackets \in Nat

None == 0

VARIABLES
  chars,      \* how many characters have arrived
  fifo,       \* the UART's receive FIFO
  ch,         \* ch[h]: rv_uart_console_isr's ch, or None
  portLock,   \* rv_uart_tty_port_lock: the hart that holds it, or None
  tty,        \* what was inserted in the tty's flip buffer
  packets,    \* how many packets have arrived
  newPkt,     \* RX_NEW_PKT
  buffer,     \* the packet in RX_BUFFER
  skb,        \* skb[h]: the packet that frenox_eth_rx_isr copied, or None
  stack,      \* what netif_rx was given
  eth         \* frenox_eth_probe: "absent", "registered", "acked", "up"

uartVars == <<chars, fifo, ch, portLock, tty>>
ethVars == <<packets, newPkt, buffer, skb, stack, eth>>
vars == <<plicVars, uartVars, ethVars>>

TypeOK ==
  /\ PlicTypeOK
  /\ chars \in 0 .. MaxChars /\ packets \in 0 .. MaxPackets
  /\ fifo \in Seq(1 .. MaxChars) /\ tty \in Seq(1 .. MaxChars)
  /\ ch \in [Harts -> 0 .. MaxChars]
  /\ portLock \in Harts \cup {None}
  /\ newPkt \in BOOLEAN /\ buffer \in 0 .. MaxPackets
  /\ skb \in [Harts -> 0 .. MaxPackets]
  /\ stack \in Seq(1 .. MaxPackets)
  /\ eth \in {"absent", "registered", "acked", "up"}

Init ==
  /\ PlicInit
  /\ chars = 0 /\ fifo = <<>> /\ tty = <<>> /\ portLock = None
  /\ ch = [h \in Harts |-> None]
  /\ packets = 0 /\ newPkt = FALSE /\ buffer = None /\ stack = <<>>
  /\ skb = [h \in Harts |-> None]
  /\ eth = "absent"

-----------------------------------------------------------------------------
(* The devices (external).  The controller holds one packet and has no     *)
(* place for another until it was acknowledged.                            *)
CharArrives ==
  /\ chars < MaxChars
  /\ chars' = chars + 1
  /\ fifo' = Append(fifo, chars + 1)
  /\ UNCHANGED <<plicVars, ch, portLock, tty, ethVars>>

PacketArrives ==
  /\ packets < MaxPackets /\ ~newPkt
  /\ packets' = packets + 1
  /\ buffer' = packets + 1
  /\ newPkt' = TRUE
  /\ UNCHANGED <<plicVars, uartVars, skb, stack, eth>>

Raised(i) == (i = UartIrq /\ fifo # <<>>) \/ (i = EthIrq /\ newPkt)

LatchLevel ==
  \E i \in Irqs : Raised(i) /\ Gateway(i) /\ UNCHANGED <<uartVars, ethVars>>

-----------------------------------------------------------------------------
(* rv_uart_probe: everything else is in place before the interrupt is      *)
(* requested.                                                              *)
rv_uart_probe ==
  /\ RequestIrq(UartIrq, "uart_avail")
  /\ UNCHANGED <<setupVars, controllerVars, inProgress, hpc, irq, uartVars, ethVars>>

KeepPlic == UNCHANGED <<setupVars, controllerVars, requestVars, inProgress, irq>>
KeepUart == UNCHANGED ethVars /\ KeepPlic

(* Mutant: the character read ahead of the number of bytes available. *)
M_IsrReadsFirst(h) ==
  /\ At(h, "uart_avail")
  /\ GoTo(h, IF Len(fifo) > 1 THEN "uart_lock" ELSE "return")
  /\ ch' = [ch EXCEPT ![h] = IF fifo = <<>> THEN None ELSE Head(fifo)]
  /\ fifo' = IF fifo = <<>> THEN fifo ELSE Tail(fifo)
  /\ UNCHANGED <<chars, portLock, tty>> /\ KeepUart

(* int bytes_available = ru->reg[10]; IRQ_NONE when there are none. *)
rv_uart_isr_available(h) ==
  /\ At(h, "uart_avail")
  /\ GoTo(h, IF fifo = <<>> THEN "return" ELSE "uart_read")
  /\ UNCHANGED uartVars /\ KeepUart

(* ch = ru->reg[8], which takes it from the FIFO: one for an interrupt. *)
rv_uart_isr_read(h) ==
  /\ At(h, "uart_read")
  /\ GoTo(h, "uart_lock")
  /\ ch' = [ch EXCEPT ![h] = IF fifo = <<>> THEN None ELSE Head(fifo)]
  /\ fifo' = IF fifo = <<>> THEN fifo ELSE Tail(fifo)
  /\ UNCHANGED <<chars, portLock, tty>> /\ KeepUart

rv_uart_isr_lock(h) ==
  /\ At(h, "uart_lock") /\ portLock = None
  /\ GoTo(h, "uart_insert")
  /\ portLock' = h
  /\ UNCHANGED <<chars, fifo, ch, tty>> /\ KeepUart

rv_uart_isr_insert(h) ==
  /\ At(h, "uart_insert")
  /\ GoTo(h, "return")
  /\ tty' = Append(tty, ch[h])
  /\ ch' = [ch EXCEPT ![h] = None]
  /\ portLock' = None
  /\ UNCHANGED <<chars, fifo>> /\ KeepUart

UartHandler(h) ==
  \/ rv_uart_isr_available(h) \/ rv_uart_isr_read(h)
  \/ rv_uart_isr_lock(h) \/ rv_uart_isr_insert(h)

-----------------------------------------------------------------------------
(* frenox_eth_probe: register_netdevice; the packet that is waiting is     *)
(* acknowledged; the interrupt is requested.                               *)
KeepPackets == UNCHANGED <<packets, buffer, skb, stack>>

frenox_eth_register ==
  /\ eth = "absent" /\ eth' = "registered"
  /\ UNCHANGED <<plicVars, uartVars, newPkt>> /\ KeepPackets

frenox_eth_clear ==
  /\ eth = "registered" /\ eth' = "acked"
  /\ newPkt' = FALSE
  /\ UNCHANGED <<plicVars, uartVars>> /\ KeepPackets

frenox_eth_request_irq ==
  /\ eth = "acked" /\ eth' = "up"
  /\ RequestIrq(EthIrq, "eth_new")
  /\ UNCHANGED <<setupVars, controllerVars, inProgress, hpc, irq, uartVars, newPkt>>
  /\ KeepPackets

KeepEth == UNCHANGED <<packets, buffer, eth, uartVars>> /\ KeepPlic

(* Mutant: the packet acknowledged as soon as there is an skb for it. *)
M_AckBeforeCopy(h) ==
  /\ At(h, "eth_new") /\ newPkt
  /\ GoTo(h, "eth_copy")
  /\ newPkt' = FALSE
  /\ UNCHANGED <<skb, stack>> /\ KeepEth

(* packet_available = RX_NEW_PKT; IRQ_NONE when there is none.  Otherwise  *)
(* its length, and netdev_alloc_skb.                                       *)
frenox_eth_rx_none(h) ==
  /\ At(h, "eth_new") /\ ~newPkt
  /\ GoTo(h, "return")
  /\ UNCHANGED <<newPkt, skb, stack>> /\ KeepEth

frenox_eth_rx_alloc(h) ==
  /\ At(h, "eth_new") /\ newPkt
  /\ GoTo(h, "eth_copy")
  /\ UNCHANGED <<newPkt, skb, stack>> /\ KeepEth

(* No memory: rx_dropped is counted, the packet is not acknowledged. *)
frenox_eth_rx_no_memory(h) ==
  /\ At(h, "eth_new") /\ newPkt
  /\ GoTo(h, "return")
  /\ UNCHANGED <<newPkt, skb, stack>> /\ KeepEth

(* Mutant: the packet not copied. *)
M_CopyMissing(h) ==
  /\ At(h, "eth_copy")
  /\ GoTo(h, "eth_rx")
  /\ UNCHANGED <<newPkt, skb, stack>> /\ KeepEth

(* memcpy_fromio(skb->data, buf, packet_len) *)
frenox_eth_rx_copy(h) ==
  /\ At(h, "eth_copy")
  /\ GoTo(h, "eth_rx")
  /\ skb' = [skb EXCEPT ![h] = buffer]
  /\ UNCHANGED <<newPkt, stack>> /\ KeepEth

(* netif_rx(skb) *)
frenox_eth_rx_deliver(h) ==
  /\ At(h, "eth_rx")
  /\ GoTo(h, "eth_ack")
  /\ stack' = Append(stack, skb[h])
  /\ skb' = [skb EXCEPT ![h] = None]
  /\ UNCHANGED newPkt /\ KeepEth

(* RX_ACK_PKT = 1: the controller may take the next packet. *)
frenox_eth_rx_ack(h) ==
  /\ At(h, "eth_ack")
  /\ GoTo(h, "return")
  /\ newPkt' = FALSE
  /\ UNCHANGED <<skb, stack>> /\ KeepEth

EthHandler(h) ==
  \/ frenox_eth_rx_none(h) \/ frenox_eth_rx_alloc(h) \/ frenox_eth_rx_no_memory(h)
  \/ frenox_eth_rx_copy(h) \/ frenox_eth_rx_deliver(h) \/ frenox_eth_rx_ack(h)

-----------------------------------------------------------------------------
Handler(h) ==
  \/ PlicHandler(h) /\ UNCHANGED <<uartVars, ethVars>>
  \/ UartHandler(h)
  \/ EthHandler(h)

SetUp ==
  \/ \E h \in Harts : (plic_probe(h) \/ plic_remove(h)) /\ UNCHANGED <<uartVars, ethVars>>
  \/ plic_remove_descs /\ UNCHANGED <<uartVars, ethVars>>
  \/ rv_uart_probe
  \/ frenox_eth_register \/ frenox_eth_clear \/ frenox_eth_request_irq

Next ==
  \/ CharArrives \/ PacketArrives \/ LatchLevel
  \/ SetUp
  \/ \E h \in Harts : Handler(h)

Spec == Init /\ [][Next]_vars

(* The controller and the harts make progress, and netdev_alloc_skb does   *)
(* not fail for ever.  Nothing makes a device be probed or a character     *)
(* arrive.                                                                 *)
Fairness ==
  /\ WF_vars(LatchLevel)
  /\ \A h \in Harts : WF_vars(Handler(h)) /\ SF_vars(frenox_eth_rx_alloc(h))

FairSpec == Spec /\ Fairness

-----------------------------------------------------------------------------
Elements(s) == {s[i] : i \in DOMAIN s}

(* The character on its way from the FIFO to the tty in h's handler. *)
InFlight(h) == IF ch[h] = None THEN <<>> ELSE <<ch[h]>>

(* uart.c, frenox_eth.c: the tty gets every character once and in order,   *)
(* although the handler takes it from the FIFO before it takes the port's  *)
(* lock; the network stack gets consecutive packets, none twice and none   *)
(* overwritten by its successor.  Both hold with several harts that take   *)
(* external interrupts, because a source stays claimed until its handler   *)
(* has returned.                                                           *)
RxInOrder ==
  /\ \E h \in Harts :
       /\ \A g \in Harts \ {h} : ch[g] = None
       /\ tty \o InFlight(h) \o fifo = [n \in 1 .. chars |-> n]
  /\ \A i \in 1 .. Len(stack) - 1 : stack[i + 1] = stack[i] + 1

Served(i) == bound = "bound" /\ action[i] # "none"

(* plic.c: what has arrived for a driver whose interrupt is requested is   *)
(* delivered, whichever harts take external interrupts, and although a     *)
(* packet without memory goes back unacknowledged; unless the controller's *)
(* driver is removed.                                                      *)
RxServed ==
  /\ \A n \in 1 .. MaxChars :
       (Served(UartIrq) /\ n \in Elements(fifo)) ~> (n \in Elements(tty) \/ ~Served(UartIrq))
  /\ \A n \in 1 .. MaxPackets :
       (Served(EthIrq) /\ newPkt /\ buffer = n) ~> (n \in Elements(stack) \/ ~Served(EthIrq))
=============================================================================
