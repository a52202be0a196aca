--------------------------- MODULE MC_JoinSession ---------------------------
(* A small instance of JoinSession: two default channels, two entries in a  *)
(* CFList, one more channel no CFList reaches.                              *)
EXTENDS JoinSession

MC_DefaultChannels == [j \in 0 .. 1 |-> IF j = 0 THEN 1 ELSE 2]
MC_Frequencies == 1 .. 4

\* A full list, one with an unused entry behind a used one, and one with an
\* unused entry in front of a used one.
MC_CfLists == {list \in [2 .. 3 -> {0, 3, 4}] : list[2] \in {0, 3} /\ list[3] \in {0, 4}
                                                /\ list # [j \in 2 .. 3 |-> 0]}
=============================================================================
