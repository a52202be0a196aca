----------------------------- MODULE RxWindows -----------------------------
(***************************************************************************)
(* The two reception windows behind an uplink in real time: when they open *)
(* and at which data rate, as the device has it and as the network means   *)
(* it.                                                                     *)
(*                                                                         *)
(* Time is in milliseconds and passes from one deadline to the next.  The  *)
(* radio driver is external: told to listen while it listens, it may go on *)
(* or start anew.  The upper layer is patient: it makes no request before  *)
(* the last one is confirmed, but may reset the MAC or set its MIB at any  *)
(* time.                                                                   *)
(***************************************************************************)
EXTENDS DataRates

CONSTANTS
    JoinRates, DataRatesUsed,   \* data rates of MLME_JOIN, which are not validated, and of data
    Settings,           \* rx_delay, dr_offset and rx2_dr the network puts in join accepts
    Rx2Rates,           \* data rates of MIB_RX2_DR
    RETX,               \* LORAMAC_DEFAULT_RETX
    RetransmitDelays,   \* values of 1000 + (random & 0x7FF)
    FrameTimes,         \* times a frame takes in a window
    MaxSince            \* bound on since

NotSet == -1

Setting == [rx_delay : 0 .. 15, dr_offset : 0 .. 7, rx2_dr : 0 .. 15]

\* What LoRaWAN gives a device before any accept, and the windows of a join.
DefaultSetting == [rx_delay |-> 1, dr_offset |-> 0, rx2_dr |-> 0]
LORAMAC_DEFAULT_JOIN_DELAY1 == 5

ASSUME WindowsAssumption ==
    /\ JoinRates \subseteq 0 .. 6 /\ DataRatesUsed \subseteq 0 .. 5
    /\ Settings \subseteq Setting /\ Rx2Rates \subseteq 0 .. 15
    /\ RETX \in Nat
    /\ RetransmitDelays \subseteq 1000 .. 3047 /\ FrameTimes \subseteq Nat \ {0}
    /\ MaxSince \in Nat /\ MaxSince > 17000

VARIABLES
    activation,          \* mlme.activation
    rx_delay,            \* mac->rx_delay, in seconds
    dl_settings,         \* mac->dl_settings: dr_offset and rx2_dr
    last_dr,             \* mac->last_dr
    state,               \* mac->state
    waiting_for_ack, nb_trials,
    radio, radio_dr,     \* external: what the radio does, and its data rate
    timer,               \* external: time left on the timer, or NotSet
    listen,              \* external: time left until the radio reports
    receiving,           \* external: it will report a frame, not a timeout
    caught,              \* external: the network has sent its downlink
    since,               \* time since the uplink ended, up to MaxSince
    exchange,            \* the last request: "none", "join" or "data"
    net,                 \* the settings of the session as the network has them
    given,               \* dr_offset of the last join accept, 0 without one
    want,                \* what the network makes of the last uplink: its session and windows
    agreed               \* the device had these settings then, and has kept them

mac_vars == <<activation, rx_delay, dl_settings, last_dr, waiting_for_ack, nb_trials>>
radio_vars == <<radio, radio_dr, listen, receiving>>
request_vars == <<exchange, net, given>>
uplink_vars == <<want, agreed, caught>>
vars == <<mac_vars, state, timer, since, radio_vars, request_vars, uplink_vars>>

Init ==
    /\ activation = "NONE" /\ rx_delay = 1 /\ last_dr = 0
    /\ dl_settings = [dr_offset |-> 0, rx2_dr |-> 0]
    /\ state = "IDLE" /\ waiting_for_ack = FALSE /\ nb_trials = 0
    /\ radio = "sleep" /\ radio_dr \in DataRatesUsed
    /\ timer = NotSet /\ listen = NotSet /\ receiving = FALSE /\ caught = FALSE
    /\ since = 0
    /\ exchange = "none" /\ given = 0
    /\ net = DefaultSetting
    /\ want = [session |-> "none", delay |-> 1, rx1_dr |-> 0, rx2_dr |-> 0]
    /\ agreed = FALSE

-----------------------------------------------------------------------------
(* Uplinks *)

\* The network finds the windows of an uplink from its rate on the air.
JoinWindows(rate) == [session |-> "join", delay |-> LORAMAC_DEFAULT_JOIN_DELAY1,
                      rx1_dr |-> rate, rx2_dr |-> 0]
DataWindows(rate) == [session |-> IF activation = "NONE" THEN "none" ELSE activation,
                      delay |-> net.rx_delay, rx1_dr |-> Rx1DrOffset(rate, net.dr_offset),
                      rx2_dr |-> net.rx2_dr]

\* gnrc_lorawan_send_pkt
SendPkt(dr) ==
    /\ state' = "TX" /\ radio' = "tx"
    /\ radio_dr' = SetDr(radio_dr, dr)
    /\ last_dr' = dr
    /\ UNCHANGED <<listen, receiving>>

AtRest == state = "IDLE" /\ timer = NotSet

\* gnrc_lorawan_mlme_request, MLME_JOIN, accepted.
JoinRequest(dr) ==
    /\ AtRest /\ activation = "NONE"
    /\ SendPkt(dr)
    /\ exchange' = "join"
    /\ want' = JoinWindows(radio_dr')
    /\ agreed' = (dl_settings = [dr_offset |-> 0, rx2_dr |-> 0])
    /\ caught' = FALSE
    /\ UNCHANGED <<activation, rx_delay, dl_settings, waiting_for_ack, nb_trials, timer,
                   since, net, given>>

\* The network's view of a data frame.
DataSent ==
    /\ want' = DataWindows(radio_dr')
    /\ agreed' = (/\ activation # "NONE" /\ rx_delay = net.rx_delay
                  /\ dl_settings.dr_offset = net.dr_offset
                  /\ dl_settings.rx2_dr = net.rx2_dr)
    /\ caught' = FALSE

\* gnrc_lorawan_mcps_request, accepted.
DataRequest(dr, confirmed) ==
    /\ AtRest /\ activation # "NONE" /\ ValidateDr(dr)
    /\ waiting_for_ack' = confirmed /\ nb_trials' = RETX
    /\ SendPkt(dr)
    /\ exchange' = "data"
    /\ DataSent
    /\ UNCHANGED <<activation, rx_delay, dl_settings, timer, since, net, given>>

-----------------------------------------------------------------------------
(* Radio and timer events *)

\* Mutated form of TxComplete: an OTAA device keeps the delay of the join.
TxCompleteJoinDelay ==
    /\ radio = "tx"
    /\ state' = "RX_1" /\ radio' = "sleep" /\ since' = 0
    /\ timer' = 1000 * (IF exchange = "join" THEN LORAMAC_DEFAULT_JOIN_DELAY1 ELSE 1)
    /\ radio_dr' = SetDr(radio_dr, Rx1DrOffset(last_dr, dl_settings.dr_offset))
    /\ UNCHANGED <<mac_vars, listen, receiving, request_vars, uplink_vars>>

\* Mutated form of TxComplete: the offset of the first window is not applied.
TxCompleteNoOffset ==
    /\ radio = "tx"
    /\ state' = "RX_1" /\ radio' = "sleep" /\ since' = 0
    /\ timer' = 1000 * (IF activation = "NONE" THEN LORAMAC_DEFAULT_JOIN_DELAY1 ELSE rx_delay)
    /\ UNCHANGED <<radio_dr, mac_vars, listen, receiving, request_vars, uplink_vars>>

\* gnrc_lorawan_event_tx_complete
TxComplete ==
    /\ radio = "tx"
    /\ state' = "RX_1" /\ radio' = "sleep" /\ since' = 0
    /\ timer' = 1000 * (IF activation = "NONE" THEN LORAMAC_DEFAULT_JOIN_DELAY1 ELSE rx_delay)
    /\ radio_dr' = SetDr(radio_dr, Rx1DrOffset(last_dr, dl_settings.dr_offset))
    /\ UNCHANGED <<mac_vars, listen, receiving, request_vars, uplink_vars>>

\* The radio driver is told to listen: while it listens it may go on.
RxOn ==
    /\ radio' = "rx"
    /\ \/ listen' = WindowMs(radio_dr) /\ receiving' = FALSE
       \/ radio = "rx" /\ UNCHANGED <<listen, receiving>>
    /\ UNCHANGED radio_dr

\* Mutated form of OpenRxWindow: the second window is not scheduled.
OpenRxWindowOnce ==
    /\ state \in {"RX_1", "RX_2"}
    /\ timer' = NotSet
    /\ RxOn
    /\ UNCHANGED <<mac_vars, state, request_vars, uplink_vars>>

\* gnrc_lorawan_open_rx_window
OpenRxWindow ==
    /\ state \in {"RX_1", "RX_2"}
    /\ timer' = IF state = "RX_1" THEN 1000 ELSE NotSet
    /\ RxOn
    /\ UNCHANGED <<mac_vars, state, request_vars, uplink_vars>>

\* gnrc_lorawan_timer_fired between transmissions.  After a reset, or with no
\* session, the network takes no notice of the frame.
Retransmit ==
    /\ state = "IDLE"
    /\ SendPkt(last_dr)
    /\ timer' = NotSet
    /\ DataSent
    /\ UNCHANGED <<activation, rx_delay, dl_settings, waiting_for_ack, nb_trials, request_vars>>

TimerFired ==
    /\ timer = 0
    /\ OpenRxWindow \/ Retransmit
    /\ UNCHANGED since

\* gnrc_lorawan_mcps_event: the test for a retransmission left counts it down,
\* also below 0.
McpsEvent(ack) ==
    LET unacked == waiting_for_ack /\ ~ack
        retries == unacked /\ nb_trials > 0
    IN  /\ nb_trials' = IF unacked THEN nb_trials - 1 ELSE nb_trials
        /\ \/ /\ retries
              /\ timer' \in RetransmitDelays
              /\ UNCHANGED waiting_for_ack
           \/ /\ ~retries
              /\ waiting_for_ack' = FALSE
              /\ timer' = NotSet

\* Mutated form of Rx1Timeout: the rate of the second window is not set.
Rx1TimeoutKeepsRate ==
    /\ state = "RX_1"
    /\ state' = "RX_2"
    /\ UNCHANGED <<mac_vars, timer, radio_dr>>

\* gnrc_lorawan_event_timeout at the end of the first window.
Rx1Timeout ==
    /\ state = "RX_1"
    /\ radio_dr' = SetDr(radio_dr, dl_settings.rx2_dr)
    /\ state' = "RX_2"
    /\ UNCHANGED <<mac_vars, timer>>

\* gnrc_lorawan_event_timeout at the end of the second window.
Rx2Timeout ==
    /\ state = "RX_2"
    /\ McpsEvent(FALSE)
    /\ state' = "IDLE"
    /\ UNCHANGED <<activation, rx_delay, dl_settings, last_dr, radio_dr>>

EventTimeout ==
    /\ radio = "rx" /\ listen = 0 /\ ~receiving
    /\ Rx1Timeout \/ Rx2Timeout
    /\ radio' = "sleep" /\ listen' = NotSet
    /\ UNCHANGED <<receiving, since, request_vars, uplink_vars>>

\* gnrc_lorawan_mlme_process_join of an accept with the settings s.
ProcessJoin(s) ==
    /\ activation = "NONE"
    /\ activation' = "OTAA"
    /\ rx_delay' = IF s.rx_delay = 0 THEN 1 ELSE s.rx_delay
    /\ dl_settings' = [dr_offset |-> s.dr_offset, rx2_dr |-> s.rx2_dr]
    /\ net' = [s EXCEPT !.rx_delay = IF @ = 0 THEN 1 ELSE @]
    /\ given' = s.dr_offset
    /\ agreed' = FALSE
    /\ timer' = NotSet
    /\ UNCHANGED <<last_dr, waiting_for_ack, nb_trials, want>>

\* gnrc_lorawan_process_pkt: a join accept, a downlink that is accepted or
\* dropped, or a frame of another kind or for another device's join.
ProcessPkt ==
    /\ radio = "rx" /\ listen = 0 /\ receiving
    /\ radio' = "sleep" /\ listen' = NotSet /\ receiving' = FALSE
    /\ state' = "IDLE"
    /\ \/ \E s \in Settings : ProcessJoin(s)
       \/ /\ \E ack \in BOOLEAN : McpsEvent(ack)
          /\ UNCHANGED <<activation, rx_delay, dl_settings, last_dr, net, given, want,
                         agreed>>
       \/ /\ timer' = NotSet
          /\ UNCHANGED <<mac_vars, net, given, want, agreed>>
    /\ UNCHANGED <<radio_dr, since, exchange, caught>>

-----------------------------------------------------------------------------
(* The world around *)

\* The network's one downlink reaches the radio in a window.
FrameStarts ==
    /\ radio = "rx" /\ listen > 0 /\ ~caught
    /\ listen' \in FrameTimes
    /\ receiving' = TRUE /\ caught' = TRUE
    /\ UNCHANGED <<mac_vars, state, timer, since, radio, radio_dr, request_vars, want, agreed>>

\* Time passes up to the first of the deadlines ahead.
Deadlines == {timer, listen} \ {NotSet}

Later(t, d) == IF t = NotSet THEN NotSet ELSE t - d

Elapse ==
    /\ 0 \notin Deadlines
    /\ \E d \in Deadlines :
        /\ \A e \in Deadlines : d <= e
        /\ timer' = Later(timer, d) /\ listen' = Later(listen, d)
        /\ since' = IF since + d > MaxSince THEN MaxSince ELSE since + d
    /\ UNCHANGED <<mac_vars, state, radio, radio_dr, receiving, request_vars, uplink_vars>>

\* _mlme_set of MIB_ACTIVATION_METHOD, accepted.  A session by personalisation
\* has the default settings.
SetActivation ==
    /\ activation' \in {"NONE", "ABP"}
    /\ net' = IF activation' = "ABP" THEN DefaultSetting ELSE net
    /\ agreed' = FALSE
    /\ UNCHANGED <<rx_delay, dl_settings, last_dr, waiting_for_ack, nb_trials, state, timer,
                   since, radio_vars, exchange, given, want, caught>>

\* gnrc_lorawan_set_rx2_dr, from _mlme_set of MIB_RX2_DR: the upper layer sets
\* what it has arranged with the network, which is assumed to follow.
SetRx2Dr ==
    /\ \E dr \in Rx2Rates :
        /\ dl_settings' = [dl_settings EXCEPT !.rx2_dr = dr]
        /\ net' = [net EXCEPT !.rx2_dr = dr]
    /\ agreed' = FALSE
    /\ UNCHANGED <<activation, rx_delay, last_dr, waiting_for_ack, nb_trials, state, timer,
                   since, radio_vars, exchange, given, want, caught>>

\* gnrc_lorawan_reset: the offset of the first window is left as it is.
Reset ==
    /\ activation' = "NONE" /\ rx_delay' = 1
    /\ dl_settings' = [dl_settings EXCEPT !.rx2_dr = 0]
    /\ waiting_for_ack' = FALSE
    /\ agreed' = FALSE
    /\ UNCHANGED <<last_dr, nb_trials, state, timer, since, radio_vars, request_vars, want,
                   caught>>

Request ==
    \/ \E dr \in JoinRates : JoinRequest(dr)
    \/ \E dr \in DataRatesUsed, confirmed \in BOOLEAN : DataRequest(dr, confirmed)

Event == TxComplete \/ TimerFired \/ EventTimeout \/ ProcessPkt

Next ==
    \/ Request \/ Event
    \/ FrameStarts \/ Elapse
    \/ SetActivation \/ SetRx2Dr \/ Reset

\* Time passes and the driver reports: the scheduling of the radio and timer
\* threads.
Spec == Init /\ [][Next]_vars /\ WF_vars(Elapse) /\ WF_vars(Event)

-----------------------------------------------------------------------------
Times == Nat \cup {NotSet}
Rates == 0 .. 5
Windows == [session : {"none", "join", "ABP", "OTAA"}, delay : 1 .. 15, rx1_dr : Rates,
            rx2_dr : 0 .. 15]

TypeOK ==
    /\ activation \in {"NONE", "ABP", "OTAA"} /\ rx_delay \in 1 .. 15
    /\ dl_settings \in [dr_offset : 0 .. 7, rx2_dr : 0 .. 15] /\ last_dr \in 0 .. 6
    /\ state \in {"IDLE", "TX", "RX_1", "RX_2"}
    /\ waiting_for_ack \in BOOLEAN
    /\ nb_trials \in (IF waiting_for_ack THEN 0 ELSE -1) .. RETX
    /\ radio \in {"sleep", "tx", "rx"} /\ radio_dr \in Rates
    /\ timer \in Times /\ listen \in Times
    /\ receiving \in BOOLEAN /\ caught \in BOOLEAN
    /\ since \in 0 .. MaxSince
    /\ exchange \in {"none", "join", "data"} /\ given \in 0 .. 7
    /\ net \in Setting /\ net.rx_delay # 0
    /\ want \in Windows
    /\ agreed \in BOOLEAN

\* The first window behind an uplink of a session by join has the network's
\* rate, whatever is reset or set meanwhile.  Behind a join or in a session by
\* personalisation it has that rate exactly if the last accept the device took,
\* in whatever session, gave no offset, or no lower rate is left: neither a
\* reset (gnrc_lorawan.c:80) nor the end of a session forgets the offset.
FirstWindowRate ==
    state = "RX_1" /\ want.session # "none" /\ ValidateDr(last_dr) =>
        (radio_dr = want.rx1_dr <=> want.session = "OTAA" \/ given = 0 \/ last_dr = 0)

\* The data rate the network uses in the window that is open.
RateWanted == IF state = "RX_1" THEN want.rx1_dr ELSE want.rx2_dr

\* If the two had the same settings when the uplink was sent, the radio listens
\* at the network's rate in both windows, behind a first transmission and
\* behind a retransmission, at any rate of the uplink, even one that does not
\* exist; but the rate of the second window must exist.
ListensAsAgreed ==
    radio = "rx" /\ agreed => radio_dr = RateWanted \/ ~ValidateDr(RateWanted)

\* The radio wakes up when a window of the network opens.  The second window
\* opens a second behind the first, but late if the first is longer than that
\* (DR0: 50 symbols take 1638 ms) or a frame came and was lost: then the timer
\* of the second window fires in the first, and opens that one anew.
OpensOnTime ==
    [][radio = "sleep" /\ radio' = "rx" /\ agreed =>
         \/ state = "RX_1" /\ since = 1000 * want.delay
         \/ /\ state = "RX_2"
            /\ since = 1000 * want.delay + 1000 <=> WindowMs(want.rx1_dr) <= 1000 /\ ~caught]_vars

\* An exchange ends, unless its first window is longer than a second: a driver
\* that starts anew when told to listen then listens for ever.
LongWindow == state = "RX_1" /\ WindowMs(radio_dr) > 1000
ExchangeEnds == state = "TX" ~> state = "IDLE" \/ LongWindow
=============================================================================
