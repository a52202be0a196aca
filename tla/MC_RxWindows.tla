---------------------------- MODULE MC_RxWindows ----------------------------
(* A small instance of RxWindows.  The settings: the defaults, and some that *)
(* differ from them in the delay, in the offset and in a rate for the second *)
(* window that does not exist.                                               *)
EXTENDS RxWindows

MC_Settings == {[rx_delay |-> 0, dr_offset |-> 0, rx2_dr |-> 0],
                [rx_delay |-> 2, dr_offset |-> 3, rx2_dr |-> 8]}
=============================================================================
