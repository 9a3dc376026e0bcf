------------------------------ MODULE MCDevices ------------------------------
(***************************************************************************)
(* The devices of the two drivers, one side at a time: what they receive   *)
(* through the interrupt controller, what the UART transmits, what the     *)
(* Ethernet controller does.                                               *)
(***************************************************************************)
EXTENDS Devices, Transmit

VARIABLE side   \* "receive", "uart" or "ethernet"

MCInit == Init /\ TxInit /\ side \in {"receive", "uart", "ethernet"}

MCNext ==
  /\ UNCHANGED side
  /\ \/ side = "receive" /\ Next /\ UNCHANGED txVars
     \/ side = "uart" /\ UartTransmit /\ UNCHANGED vars
     \/ side = "ethernet" /\ EthTransmit /\ UNCHANGED vars

MCSpec == MCInit /\ [][MCNext]_<<vars, txVars, side>> /\ Fairness
=============================================================================
