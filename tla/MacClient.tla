----------------------------- MODULE MacClient -----------------------------
(***************************************************************************)
(* The MAC layer with the upper layer that uses it.  A ledger records what *)
(* the upper layer has been told, the data request and the join it waits a *)
(* confirm for, how often the uplink of that data request was sent, and    *)
(* which frame counters have served a frame.                               *)
(*                                                                         *)
(* Disturbances names the ways the environment may misbehave:              *)
(*   "overlapping_requests"  requests are made while one is outstanding    *)
(*   "reset_in_flight"       MLME_RESET is made while one is outstanding   *)
(*   "foreign_frames"        a window receives a frame of a kind that the  *)
(*                           exchange under way does not expect            *)
(***************************************************************************)
EXTENDS GnrcLorawan

CONSTANT Disturbances

ASSUME DisturbanceAssumption ==
    Disturbances \subseteq
        {"overlapping_requests", "reset_in_flight", "foreign_frames"}

VARIABLES
    mcps_open,       \* type of the data request without a confirm, or "none"
    join_open,       \* a join request is without a confirm
    link_stage,      \* link check: "none", "asked" or carried by an uplink, "sent"
    sends,           \* transmissions of the uplink of the last data request
    verdict,         \* status the last data request was confirmed with, "none" until then
    used,            \* counters below it have served a frame since the last reset or accept
    spent            \* ... and these, before a reset, under the same session keys

ledger_vars == <<mcps_open, join_open, link_stage, sends, verdict, used, spent>>
vars == <<mac_vars, ledger_vars>>

Init ==
    /\ MacInit
    /\ mcps_open = "none" /\ join_open = FALSE
    /\ link_stage = "none" /\ sends = 0 /\ verdict = "none"
    /\ used = 0 /\ spent = 0

\* The upper layer waits for nothing.
AtRest == mcps_open = "none" /\ ~join_open

Deferred(call) == out'.call = call /\ out'.status = "DEFERRED"
IsReset == out'.call = "reset"

\* A join accept brings new session keys; a reset leaves those there are.
NewKeys == out'.join = "SUCCESS"

\* The ledger after a step, from the calls the step made.
Record ==
    /\ mcps_open' = IF Deferred("mcps")
                    THEN IF tx_buf'.confirmed THEN "CONFIRMED" ELSE "UNCONFIRMED"
                    ELSE IF IsReset \/ out'.mcps_status # "none" THEN "none"
                    ELSE mcps_open
    /\ join_open' = IF Deferred("join") THEN TRUE
                    ELSE IF IsReset \/ out'.join # "none" THEN FALSE
                    ELSE join_open
    /\ link_stage' = IF Deferred("link_check") THEN "asked"
                     ELSE IF IsReset \/ out'.link # "none" THEN "none"
                     ELSE IF out'.tx = "uplink" /\ tx_buf'.link_req
                             /\ link_stage = "asked" THEN "sent"
                     ELSE link_stage
    /\ sends' = IF Deferred("mcps") THEN 1
                ELSE IF out'.tx = "uplink" THEN sends + 1
                ELSE sends
    /\ verdict' = IF Deferred("mcps") THEN "none"
                  ELSE IF mcps_open # "none" /\ out'.mcps_status # "none"
                  THEN out'.mcps_status ELSE verdict
    /\ used' = IF IsReset \/ NewKeys THEN 0
               ELSE IF out'.tx = "uplink" THEN tx_buf'.fcnt + 1
               ELSE used
    /\ spent' = IF NewKeys THEN 0
                ELSE IF IsReset /\ used > spent THEN used
                ELSE spent

\* A frame of the kind the exchange under way expects.
Expected(f) ==
    f.mtype \in IF activation = "NONE" THEN {"JOIN_ACCEPT"}
                ELSE {"CNF_DOWNLINK", "UNCNF_DOWNLINK"}

Request ==
    /\ AtRest \/ "overlapping_requests" \in Disturbances
    /\ \/ McpsRequest
       \/ JoinRequest
       \/ \E a \in Activation : SetActivation(a)

RequestReset ==
    /\ AtRest \/ "reset_in_flight" \in Disturbances
    /\ Reset

Receive ==
    \E f \in Frames :
        /\ Expected(f) \/ "foreign_frames" \in Disturbances
        /\ ProcessPkt(f)

Next ==
    /\ \/ Request \/ RequestReset \/ LinkCheckRequest
       \/ Receive \/ TxComplete \/ EventTimeout \/ TimerFired
       \/ BackoffTick
    /\ Record

Spec == Init /\ [][Next]_vars

\* The radio finishes a transmission and, listening for a single frame, gives
\* up in the end; the timer fires.  Nothing else has to happen.
FairSpec ==
    /\ Spec
    /\ WF_vars(TxComplete /\ Record)
    /\ WF_vars(EventTimeout /\ Record)
    /\ WF_vars(TimerFired /\ Record)

LedgerTypeOK ==
    /\ mcps_open \in DataType \cup {"none"}
    /\ join_open \in BOOLEAN
    /\ link_stage \in {"none", "asked", "sent"}
    /\ sends \in Nat
    /\ verdict \in {"none", "SUCCESS", "ETIMEDOUT"}
    /\ used \in Nat /\ spent \in Nat

\* Every variable of the MAC layer, the external ones and the ledger keep
\* their types, whatever the environment does; nb_trials never drops below -1.
TypeOK == MacTypeOK /\ LedgerTypeOK

-----------------------------------------------------------------------------
(* Properties that hold for an upper layer that waits for its confirms, *)
(* whatever frames the network sends                                    *)

\* The MAC has something left to do: a transmission, a window, or a
\* retransmission the timer will start.
InFlight == state # "IDLE" \/ timer

\* event_timeout is only called in a reception window: the assert(false) of
\* its default case is not reached (gnrc_lorawan.c:152).
TimeoutOnlyInWindow == radio = "rx" => state \in {"RX_1", "RX_2"}

\* One exchange at a time: where the state machine, the radio and the timer
\* stand in it, what the ledger then holds, which retransmissions are left and
\* that tx_buf holds the frame of the current counter.  This is the inductive
\* invariant the properties of this section and the next follow from.
PhyMatchesState ==
    /\ state = "IDLE" => radio = "sleep"
    /\ state = "TX" => radio = "tx" /\ ~timer
    /\ state = "RX_1" => radio \in {"sleep", "rx"} /\ timer
    /\ state = "RX_2" => radio = (IF timer THEN "sleep" ELSE "rx")

OneExchange ==
    /\ InFlight => ~AtRest
    /\ mcps_open = "none" \/ ~join_open
    /\ join_open => activation = "NONE"
    /\ mcps_open # "none" => activation # "NONE"
    /\ waiting_for_ack <=> mcps_open = "CONFIRMED"
    /\ state = "IDLE" /\ timer => waiting_for_ack

FrameOfExchange ==
    /\ fcnt <= MaxFcnt
    /\ InFlight => fcnt < MaxFcnt
    /\ tx_buf # NoFrame => tx_buf.fcnt <= fcnt
    /\ tx_buf # NoFrame /\ mcps_open = "none" => tx_buf.fcnt < fcnt
    /\ mcps_open # "none" => tx_buf # NoFrame /\ sends >= 1

\* The retransmissions left and the transmissions made of a confirmed uplink
\* add up, before and after the timer starts the next one.
RetriesAccounted ==
    InFlight /\ mcps_open = "CONFIRMED" =>
        sends + nb_trials = IF state = "IDLE" THEN RETX ELSE RETX + 1

\* While the MAC is not idle it is locked, except during a retransmission,
\* which gnrc_lorawan_timer_fired starts without acquiring it.
LockedInFlight ==
    state # "IDLE" /\ ~busy => mcps_open = "CONFIRMED" /\ sends > 1

ExchangeInv ==
    /\ PhyMatchesState
    /\ OneExchange
    /\ FrameOfExchange
    /\ RetriesAccounted
    /\ LockedInFlight

\* How far the exchange under way is from its end, in reports of the radio and
\* of the timer: those of this transmission, and six for each retransmission.
Position ==
    CASE state = "TX" -> 5
      [] state = "RX_1" -> IF radio = "rx" THEN 3 ELSE 4
      [] state = "RX_2" -> IF radio = "rx" THEN 1 ELSE 2
      [] OTHER -> IF timer THEN 6 ELSE 0

EventsLeft ==
    Position + IF InFlight /\ waiting_for_ack THEN 6 * nb_trials ELSE 0

\* No exchange goes on for ever: it begins at rest with at most 6 * RETX + 5
\* reports ahead of it, and each one made leaves fewer.  The only one that
\* leaves as many is a timer that fires in the window that is open already.
ExchangeAdvances ==
    [][\/ EventsLeft' < EventsLeft
       \/ UNCHANGED <<state, timer, radio, EventsLeft>>
       \/ AtRest /\ EventsLeft = 0 /\ EventsLeft' <= 6 * RETX + 5]_vars

\* No two frames are sent with one counter between two resets: a frame on the
\* air has a counter no frame before it had, or is the last one again.  A reset
\* sets the counter to 0 and keeps the keys (mcps.c:205), so a session by
\* personalisation behind it repeats counters and key stream; one by join does
\* not: no counter serves twice under the keys of one accept.
OneFramePerFcnt ==
    [][out'.tx = "uplink" =>
         /\ tx_buf'.fcnt >= used \/ (tx_buf' = tx_buf /\ tx_buf.fcnt + 1 = used)
         /\ activation = "OTAA" => tx_buf'.fcnt >= spent]_vars

\* Seen by its upper layer, the MAC layer is the data service: it makes no
\* answer up, and none before its time.
Service == INSTANCE DataService
ImplementsService == Service!Spec

\* Seen by the radio, it is a device of class A.
WindowPhase ==
    CASE state = "IDLE" -> "idle"
      [] state = "TX" -> "tx"
      [] state = "RX_1" -> IF radio = "rx" THEN "rx_1" ELSE "gap_1"
      [] OTHER -> IF radio = "rx" THEN "rx_2" ELSE "gap_2"
Device == INSTANCE ClassA WITH phase <- WindowPhase
ImplementsClassA == Device!Spec

-----------------------------------------------------------------------------
(* Properties that hold if, besides, the network answers in kind *)

\* The upper layer is owed a confirm exactly as long as the MAC has something
\* left to do: no exchange dies silently and none outlives its confirm.
RestIffAnswered == AtRest <=> ~InFlight

\* No exchange under way is without an event to continue it: the radio is
\* transmitting or listening, or the timer is running.
WakeupPending == ~AtRest \/ waiting_for_ack => radio # "sleep" \/ timer

\* A data confirm answers the data request made, with its type.  The only
\* others are those that close a join no accept was received for.
ConfirmMatchesRequest ==
    [][out'.mcps_status # "none" =>
         \/ out'.mcps_type = mcps_open
         \/ join_open /\ out'.join # "none"]_vars

\* A join is confirmed once: no join confirm is made without a join request.
JoinConfirmOwed == [][out'.join # "none" => join_open]_vars

\* Every data request is answered in the end, as the data service promises.
ImplementsFairService == Service!FairSpec

\* Every join request is confirmed in the end.
JoinAnswered == join_open ~> ~join_open

-----------------------------------------------------------------------------
(* Properties that hold for every upper layer *)

\* An idle MAC keeps the radio asleep, and the radio transmits only in TX.
RadioFollowsState ==
    /\ state = "IDLE" => radio = "sleep"
    /\ radio = "tx" => state = "TX"

\* The downlink counter never moves back, except when the MAC is reset.
FcntDownMonotone == [][fcnt_down' >= fcnt_down \/ IsReset]_vars

\* A link check asked for stays due until it is confirmed or the MAC is reset,
\* and is due no longer afterwards.
LinkCheckDue == link_check <=> link_stage # "none"

-----------------------------------------------------------------------------
(* What the headers say and the code does not do *)

\* "return false if MAC is already acquired" (gnrc_lorawan_internal.h:326): a
\* data request is accepted only if none is outstanding.
AcquireExcludes == [][Deferred("mcps") => mcps_open = "none"]_vars

\* "MAC busy" (lorawan.h:123): EBUSY is an answer given only while an exchange is under way.
BusyMeansBusy == [][out'.status = "EBUSY" => ~AtRest]_vars

\* "the MLME or MCPS confirm message is asynchronous" (lorawan.h:59): an MCPS
\* confirm follows an MCPS request whose confirmation was deferred.
McpsConfirmOwed == [][out'.mcps_status # "none" => mcps_open # "none"]_vars

\* The confirmation of a deferred data request arrives (lorawan.h:59, 284).
DataAnswered == mcps_open # "none" ~> mcps_open = "none"
=============================================================================
