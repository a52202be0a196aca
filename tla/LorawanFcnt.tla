---------------------------- MODULE LorawanFcnt ----------------------------
(***************************************************************************)
(* The downlink frame counter: a frame carries the low FCNT16 bits of its  *)
(* sender's counter; gnrc_lorawan_fcnt_stol extends them to a full counter *)
(* next to the last one accepted, and gnrc_lorawan_parse_dl accepts what   *)
(* is neither older than that nor too far ahead of it.                     *)
(***************************************************************************)
EXTENDS Integers

CONSTANTS
    FCNT16,            \* 2^16, the values of the counter in a frame header
    FCNT32,            \* 2^32, the values of the counters in the descriptor
    MAX_FCNT_GAP       \* LORAMAC_DEFAULT_MAX_FCNT_GAP

ASSUME FcntAssumption ==
    /\ FCNT16 \in Nat /\ FCNT16 > 1
    /\ FCNT32 \in Nat /\ FCNT32 >= FCNT16 /\ FCNT32 % FCNT16 = 0
    /\ MAX_FCNT_GAP \in Nat

Fcnt16 == 0 .. FCNT16 - 1
Fcnt32 == 0 .. FCNT32 - 1

Upper(fcnt) == fcnt - (fcnt % FCNT16)        \* fcnt & _16_UPPER_BITMASK
Lower(fcnt) == fcnt % FCNT16                 \* fcnt & _16_LOWER_BITMASK

\* Mutated form of FcntStol: the carry is forgotten.
FcntStolNoCarry(fcnt_down, s_fcnt) == Upper(fcnt_down) + s_fcnt

\* gnrc_lorawan_fcnt_stol.  The carry added is the mask _16_LOWER_BITMASK,
\* one less than the weight of the first upper bit.
FcntStol(fcnt_down, s_fcnt) ==
    IF /\ (fcnt_down + MAX_FCNT_GAP) % FCNT32 >= FCNT16 - 1
       /\ s_fcnt < Lower(fcnt_down)
    THEN (Upper(fcnt_down) + s_fcnt + FCNT16 - 1) % FCNT32
    ELSE Upper(fcnt_down) + s_fcnt

\* Mutated form of FcntInWindow: the lower bound is not tested.
FcntInWindowNoLower(fcnt_down, fcnt) ==
    fcnt <= (fcnt_down + MAX_FCNT_GAP) % FCNT32

\* Mutated form of FcntInWindow: the upper bound is not tested.
FcntInWindowNoUpper(fcnt_down, fcnt) == fcnt_down <= fcnt

\* The frame counter test of gnrc_lorawan_parse_dl, on the extended counter.
FcntInWindow(fcnt_down, fcnt) ==
    /\ fcnt_down <= fcnt
    /\ fcnt <= (fcnt_down + MAX_FCNT_GAP) % FCNT32
=============================================================================
