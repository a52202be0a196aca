------------------------------- MODULE ClassA -------------------------------
(***************************************************************************)
(* What makes a device one of class A: it listens in two windows behind    *)
(* each transmission, in the second only if the first brought nothing, and *)
(* does not transmit before they are over.                                 *)
(***************************************************************************)
VARIABLE phase      \* "idle", "tx", "gap_1", "rx_1", "gap_2" or "rx_2"

Init == phase = "idle"

Transmit == phase = "idle" /\ phase' = "tx"
EndTransmit == phase = "tx" /\ phase' = "gap_1"
OpenFirst == phase = "gap_1" /\ phase' = "rx_1"
CloseFirst == phase = "rx_1" /\ phase' = "gap_2"
OpenSecond == phase = "gap_2" /\ phase' = "rx_2"

\* A frame has come, or the second window is over.
Finish == phase \in {"rx_1", "rx_2"} /\ phase' = "idle"

Next ==
    \/ Transmit \/ EndTransmit \/ OpenFirst \/ CloseFirst \/ OpenSecond \/ Finish

Spec == Init /\ [][Next]_phase
=============================================================================
