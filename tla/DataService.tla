---------------------------- MODULE DataService ----------------------------
(***************************************************************************)
(* What the MCPS data service promises the upper layer, without radio,     *)
(* windows or timers: one request at a time; an unconfirmed uplink is sent *)
(* once and a confirmed one up to 1 + RETX times; the request is answered  *)
(* once, and a timeout is reported only when no transmission is left.      *)
(***************************************************************************)
EXTENDS Integers

CONSTANT RETX

VARIABLES
    mcps_open,       \* type of the request being served, or "none"
    sends,           \* transmissions of its uplink
    verdict          \* status the last request was answered with, "none" until then

service_vars == <<mcps_open, sends, verdict>>

Init == mcps_open = "none" /\ sends = 0 /\ verdict = "none"

Accept ==
    /\ mcps_open = "none"
    /\ mcps_open' \in {"CONFIRMED", "UNCONFIRMED"}
    /\ sends' = 1
    /\ verdict' = "none"

Resend ==
    /\ mcps_open = "CONFIRMED"
    /\ sends <= RETX
    /\ sends' = sends + 1
    /\ UNCHANGED <<mcps_open, verdict>>

Answer ==
    /\ mcps_open # "none"
    /\ mcps_open' = "none"
    /\ \/ verdict' = "SUCCESS"
       \/ mcps_open = "CONFIRMED" /\ sends = RETX + 1 /\ verdict' = "ETIMEDOUT"
    /\ UNCHANGED sends

Next == Accept \/ Resend \/ Answer

Spec == Init /\ [][Next]_service_vars

\* A request being served is sent again or answered, in the end answered.
FairSpec == Spec /\ WF_service_vars(Resend \/ Answer)
=============================================================================
