------------------------------ MODULE Transmit -------------------------------
(***************************************************************************)
(* The transmit sides of the UART (drivers/uart.c) and of the Frenox       *)
(* Ethernet controller (drivers/frenox_eth.c).                             *)
(*                                                                         *)
(* The tty and the console write to the UART's FIFO, each serialized by    *)
(* the generic kernel, and neither by a lock that both take.  Characters   *)
(* and packets are numbered as their writers send them.                    *)
(***************************************************************************)
EXTENDS Integers, Sequences

CONSTANTS
  FifoSize,    \* characters that the UART's transmit FIFO holds
  MaxWrites,   \* bound: put_string calls of a writer
  MaxCount,    \* bound: characters of a call
  MaxSent      \* bound: packets

ASSUME TransmitAssumption == {FifoSize, MaxWrites, MaxCount, MaxSent} \subseteq Nat \ {0}

Writers == {"tty", "console"}

VARIABLES
  writes,      \* writes[w]: the calls of w
  left,        \* left[w]: characters that rv_uart_put_string has not written
  space,       \* space[w]: its hw_buffer_space
  txFifo,      \* the writers of the characters in the FIFO
  lost,        \* lost[w]: characters that w wrote to a full FIFO, since it read space
  others,      \* others[w]: characters that the FIFO took of the other writer since then
  netdev,      \* frenox_eth_init: "absent", "registered"
  mdioTodo,    \* the MDIO registers it has still to write
  mpc,         \* where it is in frenox_mdio_write
  mdioOut,     \* what the MDIO controller is shifting out
  phy,         \* the registers that were written
  xpc,         \* where frenox_eth_xmit is, or "idle"
  packet,      \* how many packets it was given
  txBuffer,    \* the packet in the controller's transmit buffer
  txLen,       \* the packet whose length it knows
  txBusy,      \* TX_BUSY
  sent         \* what went out: contents and length

putVars == <<writes, left, space, txFifo, lost, others>>
mdioVars == <<netdev, mdioTodo, mpc, mdioOut, phy>>
xmitVars == <<xpc, packet, txBuffer, txLen, txBusy, sent>>
txVars == <<putVars, mdioVars, xmitVars>>

Nothing == 0
Registers == <<22, 0, 4, 9, 16, 27, 0>>

TxInit ==
  /\ writes = [w \in Writers |-> 0] /\ left = [w \in Writers |-> 0]
  /\ space = [w \in Writers |-> 0] /\ txFifo = <<>>
  /\ lost = [w \in Writers |-> 0] /\ others = [w \in Writers |-> 0]
  /\ netdev = "absent" /\ mdioTodo = Registers /\ mpc = "idle"
  /\ mdioOut = <<>> /\ phy = <<>>
  /\ xpc = "idle" /\ packet = 0
  /\ txBuffer = Nothing /\ txLen = Nothing /\ txBusy = FALSE /\ sent = <<>>

-----------------------------------------------------------------------------
(* rv_uart_put_string, for rv_uart_tty_write and rv_uart_console_write.    *)
put_string(w) ==
  /\ left[w] = 0 /\ writes[w] < MaxWrites
  /\ writes' = [writes EXCEPT ![w] = @ + 1]
  /\ \E count \in 1 .. MaxCount : left' = [left EXCEPT ![w] = count]
  /\ space' = [space EXCEPT ![w] = 0]
  /\ UNCHANGED <<txFifo, lost, others, mdioVars, xmitVars>>

(* while (hw_buffer_space < 1) hw_buffer_space = reg[7]; *)
put_string_space(w) ==
  /\ left[w] > 0 /\ space[w] < 1 /\ Len(txFifo) < FifoSize
  /\ space' = [space EXCEPT ![w] = FifoSize - Len(txFifo)]
  /\ lost' = [lost EXCEPT ![w] = 0] /\ others' = [others EXCEPT ![w] = 0]
  /\ UNCHANGED <<writes, left, txFifo, mdioVars, xmitVars>>

(* Writing reg[4] (external): a full FIFO takes nothing. *)
Put(w) ==
  IF Len(txFifo) < FifoSize
  THEN /\ txFifo' = Append(txFifo, w)
       /\ others' = [v \in Writers |-> IF v # w THEN others[v] + 1 ELSE others[v]]
       /\ UNCHANGED lost
  ELSE lost' = [lost EXCEPT ![w] = @ + 1] /\ UNCHANGED <<txFifo, others>>

(* Mutant: hw_buffer_space is not counted down. *)
M_SpaceNotCounted(w) ==
  /\ left[w] > 0 /\ space[w] >= 1
  /\ Put(w)
  /\ left' = [left EXCEPT ![w] = @ - 1]
  /\ UNCHANGED <<writes, space, mdioVars, xmitVars>>

put_string_char(w) ==
  /\ left[w] > 0 /\ space[w] >= 1
  /\ Put(w)
  /\ left' = [left EXCEPT ![w] = @ - 1]
  /\ space' = [space EXCEPT ![w] = @ - 1]
  /\ UNCHANGED <<writes, mdioVars, xmitVars>>

FifoDrains ==
  /\ txFifo # <<>> /\ txFifo' = Tail(txFifo)
  /\ UNCHANGED <<writes, left, space, lost, others, mdioVars, xmitVars>>

-----------------------------------------------------------------------------
(* frenox_eth_init: from register_netdevice on, packets may be sent; then  *)
(* the PHY is configured over MDIO.                                        *)
frenox_eth_init ==
  /\ netdev = "absent" /\ netdev' = "registered"
  /\ UNCHANGED <<mdioTodo, mpc, mdioOut, phy, putVars, xmitVars>>

MdioAt(here, there) ==
  /\ netdev = "registered" /\ mpc = here /\ mpc' = there
  /\ UNCHANGED <<netdev, putVars, xmitVars>>

(* Two waits for the controller, and the command between them. *)
mdio_write_wait ==
  /\ mdioTodo # <<>> /\ mdioOut = <<>>
  /\ MdioAt("idle", "command")
  /\ UNCHANGED <<mdioTodo, mdioOut, phy>>

mdio_write_command ==
  /\ MdioAt("command", "done")
  /\ mdioOut' = <<Head(mdioTodo)>>
  /\ UNCHANGED <<mdioTodo, phy>>

mdio_write_done ==
  /\ mdioOut = <<>>
  /\ MdioAt("done", "idle")
  /\ mdioTodo' = Tail(mdioTodo)
  /\ UNCHANGED <<mdioOut, phy>>

(* The MDIO controller (external). *)
MdioShifted ==
  /\ mdioOut # <<>>
  /\ phy' = phy \o mdioOut /\ mdioOut' = <<>>
  /\ UNCHANGED <<netdev, mdioTodo, mpc, putVars, xmitVars>>

-----------------------------------------------------------------------------
(* frenox_eth_xmit.  The generic kernel calls it with the queue's lock.    *)
XmitAt(here, there) ==
  /\ xpc = here /\ xpc' = there
  /\ UNCHANGED <<putVars, mdioVars>>

dev_queue_xmit ==
  /\ netdev = "registered" /\ packet < MaxSent
  /\ XmitAt("idle", "wait")
  /\ packet' = packet + 1
  /\ UNCHANGED <<txBuffer, txLen, txBusy, sent>>

(* Mutant: the controller is not waited for, as with USE_TX_ISR. *)
M_XmitDoesNotWait ==
  /\ XmitAt("wait", "copy")
  /\ UNCHANGED <<packet, txBuffer, txLen, txBusy, sent>>

(* while (TX_BUSY); then TX_BUSY once more, for nothing: nobody else has   *)
(* the controller send.                                                    *)
xmit_wait ==
  /\ ~txBusy
  /\ XmitAt("wait", "test")
  /\ UNCHANGED <<packet, txBuffer, txLen, txBusy, sent>>

(* NETDEV_TX_BUSY, on which the generic kernel calls again. *)
xmit_test ==
  /\ XmitAt("test", IF txBusy THEN "wait" ELSE "copy")
  /\ UNCHANGED <<packet, txBuffer, txLen, txBusy, sent>>

xmit_copy ==
  /\ XmitAt("copy", "len")
  /\ txBuffer' = packet
  /\ UNCHANGED <<packet, txLen, txBusy, sent>>

xmit_len ==
  /\ XmitAt("len", "send")
  /\ txLen' = packet
  /\ UNCHANGED <<packet, txBuffer, txBusy, sent>>

xmit_send_now ==
  /\ XmitAt("send", "idle")
  /\ txBusy' = TRUE
  /\ UNCHANGED <<packet, txBuffer, txLen, sent>>

(* The controller (external) reads its buffer until the packet is out. *)
PacketSent ==
  /\ txBusy /\ txBusy' = FALSE
  /\ sent' = Append(sent, <<txBuffer, txLen>>)
  /\ UNCHANGED <<xpc, packet, txBuffer, txLen, putVars, mdioVars>>

frenox_eth_xmit ==
  xmit_wait \/ xmit_test \/ xmit_copy \/ xmit_len \/ xmit_send_now

-----------------------------------------------------------------------------
UartTransmit ==
  FifoDrains \/ \E w \in Writers : put_string(w) \/ put_string_space(w) \/ put_string_char(w)

EthTransmit ==
  \/ frenox_eth_init \/ mdio_write_wait \/ mdio_write_command \/ mdio_write_done \/ MdioShifted
  \/ dev_queue_xmit \/ frenox_eth_xmit \/ PacketSent

TxNext == UartTransmit \/ EthTransmit

TxSpec == TxInit /\ [][TxNext]_txVars

-----------------------------------------------------------------------------
(* uart.c:76-87, frenox_eth.c:182-216: a writer loses no more characters   *)
(* on a full FIFO than the other one, which takes no lock either, put      *)
(* there behind its back, and so none while it is alone; a packet is not   *)
(* overwritten while it goes out, and goes out once and in order; the PHY  *)
(* gets its configuration without a gap.                                   *)
TxInOrder ==
  /\ \A w \in Writers : lost[w] <= others[w]
  /\ \A n \in 1 .. Len(sent) : sent[n] = <<n, n>>
  /\ phy = SubSeq(Registers, 1, Len(phy))
=============================================================================
