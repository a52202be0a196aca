---------------------------- MODULE GnrcLorawan ----------------------------
(***************************************************************************)
(* The MAC layer of gnrc_lorawan: the class A state machine (transmit, two *)
(* reception windows), the MCPS service (data requests, retransmission of  *)
(* confirmed data, downlinks) and the MLME service (join, link check, MIB, *)
(* reset) that share one descriptor, gnrc_lorawan_t.                       *)
(*                                                                         *)
(* Every public function of the library is one action; the handlers run to *)
(* completion one at a time, on the thread that owns the descriptor.  The  *)
(* radio and the single timer are external: the actions that react to them *)
(* are enabled as long as the radio or the timer can report.               *)
(***************************************************************************)
EXTENDS LorawanBackoff, LorawanFcnt

CONSTANTS
    Payloads,      \* application payloads
    Frames,        \* frames the radio may receive in a window
    RETX,          \* LORAMAC_DEFAULT_RETX
    MaxFcnt,       \* bound on fcnt when a request is issued
    NoFrame        \* contents of tx_buf when tx_len is 0

MacState == {"IDLE", "RX_1", "RX_2", "TX"}
Activation == {"NONE", "ABP", "OTAA"}
DataType == {"CONFIRMED", "UNCONFIRMED"}
MType == {"JOIN_ACCEPT", "CNF_DOWNLINK", "UNCNF_DOWNLINK", "OTHER"}
RequestFault == {"EBADMSG", "EINVAL", "EMSGSIZE"}
Status == {"SUCCESS", "DEFERRED", "ETIMEDOUT", "ENOTCONN", "EBUSY", "EDQUOT"}
              \cup RequestFault

\* An uplink as gnrc_lorawan_build_uplink lays it out in tx_buf.
Uplink == [fcnt : Fcnt32, data : Payloads, confirmed : BOOLEAN,
           ack : BOOLEAN, link_req : BOOLEAN]

\* A received frame.  valid: its MIC (for a join accept, its size too), its
\* address and the placement of its options are right.  port = 0 stands for
\* an absent or zero FPort.  link_ans: its options hold a link check answer.
DownFrame == [mtype : MType, valid : BOOLEAN, fcnt : Fcnt16, ack : BOOLEAN,
              pending : BOOLEAN, link_ans : BOOLEAN, port : {0, 1}]

\* The calls a handler makes: the status it returns to a request (call,
\* status), the confirms and indications, and the frame it gives the radio.
Out == [call : {"none", "mcps", "join", "link_check", "set", "reset"},
        status : Status \cup {"none"},
        mcps_type : DataType \cup {"none"},
        mcps_status : {"SUCCESS", "ETIMEDOUT", "none"},
        join : {"SUCCESS", "EBADMSG", "ETIMEDOUT", "none"},
        link : {"SUCCESS", "ETIMEDOUT", "none"},
        mcps_ind : DataType \cup {"none"},
        schedule_uplink : BOOLEAN,
        tx : {"none", "uplink", "join", "empty"}]

ASSUME MacAssumption ==
    /\ Frames \subseteq DownFrame
    /\ RETX \in Nat
    /\ MaxFcnt \in Nat /\ MaxFcnt < FCNT32
    /\ NoFrame \notin Uplink

VARIABLES
    state,              \* mac->state
    busy,               \* mac->busy
    activation,         \* mlme.activation
    link_check,         \* mlme.pending_mlme_opts & ..._LINK_CHECK_REQ
    fcnt, fcnt_down,    \* mcps.fcnt, mcps.fcnt_down
    nb_trials,          \* mcps.nb_trials
    ack_requested,      \* mcps.ack_requested
    waiting_for_ack,    \* mcps.waiting_for_ack
    tx_buf,             \* mac->tx_buf and mac->tx_len
    timer,              \* external: the timer is set and has not fired
    radio,              \* external: "sleep", "tx" or "rx"
    out                 \* the calls made by the last handler

mcps_vars == <<fcnt, fcnt_down, nb_trials, ack_requested, waiting_for_ack, tx_buf>>
mlme_vars == <<activation, link_check, backoff_vars>>
phy_vars == <<state, busy, timer, radio>>
mac_vars == <<mcps_vars, mlme_vars, phy_vars, out>>

Silent == [call |-> "none", status |-> "none", mcps_type |-> "none",
           mcps_status |-> "none", join |-> "none", link |-> "none",
           mcps_ind |-> "none", schedule_uplink |-> FALSE, tx |-> "none"]

Returns(call, status) == [Silent EXCEPT !.call = call, !.status = status]

-----------------------------------------------------------------------------
\* gnrc_lorawan_init on a zeroed descriptor.
MacInit ==
    /\ state = "IDLE" /\ busy = FALSE /\ timer = FALSE /\ radio = "sleep"
    /\ activation = "NONE" /\ link_check = FALSE
    /\ fcnt = 0 /\ fcnt_down = 0 /\ nb_trials = 0
    /\ ack_requested = FALSE /\ waiting_for_ack = FALSE
    /\ tx_buf = NoFrame
    /\ out = Silent
    /\ BackoffInit

\* gnrc_lorawan_send_pkt
SendPkt ==
    /\ state' = "TX"
    /\ radio' = "tx"

-----------------------------------------------------------------------------
(* MCPS *)

\* The event leaves a confirmed uplink without its acknowledgement.
Unacked(event, ack) == waiting_for_ack /\ (event = "NO_RX" \/ ~ack)

\* Mutated form of Retries: one retransmission too many.
RetriesOffByOne(event, ack) == Unacked(event, ack) /\ nb_trials >= 0

\* gnrc_lorawan_mcps_event: there is a retransmission left for it.
Retries(event, ack) == Unacked(event, ack) /\ nb_trials > 0

\* Mutated form of EndOfTx: the frame counter is not incremented.
EndOfTxKeepsFcnt == waiting_for_ack' = FALSE /\ UNCHANGED fcnt

\* Mutated form of EndOfTx: the acknowledgement is still waited for.
EndOfTxKeepsWaiting ==
    /\ UNCHANGED waiting_for_ack
    /\ fcnt' = (fcnt + 1) % FCNT32

\* _end_of_tx, but for the confirm.
EndOfTx ==
    /\ waiting_for_ack' = FALSE
    /\ fcnt' = (fcnt + 1) % FCNT32

\* Mutated form of McpsEvent: retransmissions are not counted.
McpsEventUncounted(event, ack, armed) ==
    /\ UNCHANGED nb_trials
    /\ \/ Retries(event, ack) /\ timer' = TRUE /\ UNCHANGED <<waiting_for_ack, fcnt>>
       \/ ~Retries(event, ack) /\ EndOfTx /\ timer' = armed

\* gnrc_lorawan_mcps_event.  armed: the timer is running when
\* the event is handled.  The caller of the event reports McpsConfirm.
McpsEvent(event, ack, armed) ==
    /\ nb_trials' = IF Unacked(event, ack) THEN nb_trials - 1 ELSE nb_trials
    /\ \/ /\ Retries(event, ack)
          /\ timer' = TRUE
          /\ UNCHANGED <<waiting_for_ack, fcnt>>
       \/ /\ ~Retries(event, ack)
          /\ EndOfTx
          /\ timer' = armed

\* Mutated form of McpsConfirm: the type is read after it was cleared.
McpsConfirmLate(event, ack, o) ==
    IF Retries(event, ack) THEN o
    ELSE [o EXCEPT
            !.mcps_type = "UNCONFIRMED",
            !.mcps_status = IF Unacked(event, ack) THEN "ETIMEDOUT" ELSE "SUCCESS"]

\* The confirm gnrc_lorawan_mcps_event makes, added to the calls o.
McpsConfirm(event, ack, o) ==
    IF Retries(event, ack) THEN o
    ELSE [o EXCEPT
            !.mcps_type = IF waiting_for_ack THEN "CONFIRMED" ELSE "UNCONFIRMED",
            !.mcps_status = IF Unacked(event, ack) THEN "ETIMEDOUT" ELSE "SUCCESS"]

\* gnrc_lorawan_build_uplink, into tx_buf.
BuildUplink(type, data) ==
    tx_buf' = [fcnt |-> fcnt, data |-> data, confirmed |-> type = "CONFIRMED",
               ack |-> ack_requested, link_req |-> link_check]

\* gnrc_lorawan_mcps_request, refused: the out label releases the MAC,
\* whichever check failed.
McpsRefuse(fault) ==
    /\ \/ activation = "NONE" /\ out' = Returns("mcps", "ENOTCONN")
       \/ activation # "NONE" /\ busy /\ out' = Returns("mcps", "EBUSY")
       \/ activation # "NONE" /\ ~busy /\ out' = Returns("mcps", fault)
    /\ busy' = FALSE
    /\ UNCHANGED <<mcps_vars, mlme_vars, state, timer, radio>>

\* gnrc_lorawan_mcps_request, accepted.
McpsAccept(type, data) ==
    /\ fcnt < MaxFcnt
    /\ activation # "NONE" /\ ~busy
    /\ busy' = TRUE
    /\ BuildUplink(type, data)
    /\ waiting_for_ack' = (type = "CONFIRMED")
    /\ ack_requested' = FALSE
    /\ nb_trials' = RETX
    /\ SendPkt
    /\ out' = [Returns("mcps", "DEFERRED") EXCEPT !.tx = "uplink"]
    /\ UNCHANGED <<fcnt, fcnt_down, timer, mlme_vars>>

McpsRequest ==
    \/ \E fault \in RequestFault : McpsRefuse(fault)
    \/ \E type \in DataType, data \in Payloads : McpsAccept(type, data)

\* gnrc_lorawan_mic_is_valid and gnrc_lorawan_parse_dl accept the frame.
Accepts(f) ==
    /\ f.valid
    /\ FcntInWindow(fcnt_down, FcntStol(fcnt_down, f.fcnt))

\* mcps_indication.type is assigned the flag "an ACK is requested", 0 or 1,
\* where MCPS_CONFIRMED is 0 and MCPS_UNCONFIRMED is 1.
IndicationType(f) ==
    IF f.mtype = "CNF_DOWNLINK" THEN "UNCONFIRMED" ELSE "CONFIRMED"

\* Mutated form of DropDownlink: the frame is dropped without an event.
DropDownlinkSilent ==
    /\ timer' = FALSE
    /\ out' = Silent
    /\ UNCHANGED <<fcnt, fcnt_down, nb_trials, ack_requested, waiting_for_ack, link_check>>

\* Mutated form of DropDownlink: the timer of the second window still runs.
DropDownlinkTimerRuns ==
    /\ McpsEvent("NO_RX", FALSE, timer)
    /\ out' = McpsConfirm("NO_RX", FALSE, Silent)
    /\ UNCHANGED <<fcnt_down, ack_requested, link_check>>

\* gnrc_lorawan_mcps_process_downlink of a frame it drops.
DropDownlink ==
    /\ McpsEvent("NO_RX", FALSE, FALSE)
    /\ out' = McpsConfirm("NO_RX", FALSE, Silent)
    /\ UNCHANGED <<fcnt_down, ack_requested, link_check>>

\* gnrc_lorawan_mcps_process_downlink of a frame it accepts, with the options
\* gnrc_lorawan_process_fopts takes from it.
TakeDownlink(f) ==
    /\ fcnt_down' = FcntStol(fcnt_down, f.fcnt)
    /\ ack_requested' = (ack_requested \/ f.mtype = "CNF_DOWNLINK")
    /\ link_check' = (link_check /\ ~f.link_ans)
    /\ McpsEvent("RX", f.ack, FALSE)
    /\ out' = McpsConfirm("RX", f.ack,
                [Silent EXCEPT
                    !.link = IF f.link_ans THEN "SUCCESS" ELSE "none",
                    !.schedule_uplink = f.pending,
                    !.mcps_ind = IF f.port = 0 THEN "none" ELSE IndicationType(f)])

McpsProcessDownlink(f) ==
    /\ \/ ~Accepts(f) /\ DropDownlink
       \/ Accepts(f) /\ TakeDownlink(f)
    /\ UNCHANGED <<tx_buf, activation, backoff_vars>>

-----------------------------------------------------------------------------
(* MLME *)

\* gnrc_lorawan_mlme_request, MLME_JOIN, refused.  A join the budget does not
\* cover has acquired the MAC.
JoinRefuse ==
    /\ \/ activation # "NONE" /\ out' = Returns("join", "EINVAL") /\ UNCHANGED busy
       \/ activation = "NONE" /\ busy /\ out' = Returns("join", "EBUSY") /\ UNCHANGED busy
       \/ /\ activation = "NONE" /\ ~busy /\ ~Affordable
          /\ busy' = TRUE
          /\ out' = Returns("join", "EDQUOT")
    /\ UNCHANGED <<mcps_vars, mlme_vars, state, timer, radio>>

\* gnrc_lorawan_mlme_request, MLME_JOIN, accepted.
JoinSend ==
    /\ fcnt < MaxFcnt
    /\ activation = "NONE" /\ ~busy /\ Affordable
    /\ busy' = TRUE
    /\ SendPkt
    /\ \E toa \in Airtimes : Charge(toa)
    /\ out' = [Returns("join", "DEFERRED") EXCEPT !.tx = "join"]
    /\ UNCHANGED <<mcps_vars, activation, link_check, timer>>

JoinRequest == JoinRefuse \/ JoinSend

\* gnrc_lorawan_mlme_request, MLME_LINK_CHECK.
LinkCheckRequest ==
    /\ link_check' = TRUE
    /\ out' = Returns("link_check", "DEFERRED")
    /\ UNCHANGED <<mcps_vars, activation, backoff_vars, phy_vars>>

\* gnrc_lorawan_mlme_request, MLME_SET of MIB_ACTIVATION_METHOD (_mlme_set).
SetActivation(a) ==
    /\ \/ a = "OTAA" /\ out' = Returns("set", "EINVAL") /\ UNCHANGED activation
       \/ a # "OTAA" /\ out' = Returns("set", "SUCCESS") /\ activation' = a
    /\ UNCHANGED <<mcps_vars, link_check, backoff_vars, phy_vars>>

\* gnrc_lorawan_mlme_request, MLME_RESET: gnrc_lorawan_reset.  The state, the
\* MAC lock, the timer and the radio's activity are left as they are.
Reset ==
    /\ fcnt' = 0 /\ fcnt_down' = 0
    /\ ack_requested' = FALSE /\ waiting_for_ack' = FALSE
    /\ tx_buf' = NoFrame
    /\ activation' = "NONE" /\ link_check' = FALSE
    /\ out' = Returns("reset", "SUCCESS")
    /\ UNCHANGED <<nb_trials, backoff_vars, phy_vars>>

\* Mutated form of MlmeProcessJoin: a bad join accept is dropped in silence.
MlmeProcessJoinSilent(f) ==
    /\ activation' = IF activation = "NONE" /\ f.valid THEN "OTAA" ELSE activation
    /\ out' = IF activation = "NONE" /\ f.valid
              THEN [Silent EXCEPT !.join = "SUCCESS"] ELSE Silent
    /\ UNCHANGED <<mcps_vars, link_check, backoff_vars>>

\* gnrc_lorawan_mlme_process_join.
MlmeProcessJoin(f) ==
    /\ \/ /\ activation = "NONE" /\ f.valid
          /\ activation' = "OTAA"
          /\ out' = [Silent EXCEPT !.join = "SUCCESS"]
       \/ /\ activation # "NONE" \/ ~f.valid
          /\ out' = [Silent EXCEPT !.join = "EBADMSG"]
          /\ UNCHANGED activation
    /\ UNCHANGED <<mcps_vars, link_check, backoff_vars>>

\* Mutated form of MlmeNoRx: the pending link check is not cleared.
MlmeNoRxKeepsFlag == UNCHANGED link_check

\* gnrc_lorawan_mlme_no_rx: the confirm it makes ends a pending link check.
MlmeNoRx == link_check' = (link_check /\ activation = "NONE")

\* Mutated form of MlmeNoRxConfirm: the activation is not looked at.
MlmeNoRxConfirmAlways == [Silent EXCEPT !.join = "ETIMEDOUT"]

\* The confirm of gnrc_lorawan_mlme_no_rx.
MlmeNoRxConfirm ==
    [Silent EXCEPT
        !.join = IF activation = "NONE" THEN "ETIMEDOUT" ELSE "none",
        !.link = IF activation # "NONE" /\ link_check THEN "ETIMEDOUT" ELSE "none"]

\* The hourly call of gnrc_lorawan_mlme_backoff_expire.
BackoffTick ==
    /\ BackoffExpire
    /\ out' = Silent
    /\ UNCHANGED <<mcps_vars, activation, link_check, phy_vars>>

-----------------------------------------------------------------------------
(* Radio and timer events *)

\* gnrc_lorawan_event_tx_complete
TxComplete ==
    /\ radio = "tx"
    /\ state' = "RX_1"
    /\ timer' = TRUE
    /\ radio' = "sleep"
    /\ out' = Silent
    /\ UNCHANGED <<busy, mcps_vars, mlme_vars>>

\* Mutated form of Rx1Timeout: the state stays that of the first window.
Rx1TimeoutStays ==
    /\ state = "RX_1"
    /\ out' = Silent
    /\ UNCHANGED <<state, busy, timer, mcps_vars, mlme_vars>>

\* gnrc_lorawan_event_timeout at the end of the first window.
Rx1Timeout ==
    /\ state = "RX_1"
    /\ state' = "RX_2"
    /\ out' = Silent
    /\ UNCHANGED <<busy, timer, mcps_vars, mlme_vars>>

\* gnrc_lorawan_event_timeout at the end of the second window.
Rx2Timeout ==
    /\ state = "RX_2"
    /\ MlmeNoRx
    /\ McpsEvent("NO_RX", FALSE, timer)
    /\ out' = McpsConfirm("NO_RX", FALSE, MlmeNoRxConfirm)
    /\ state' = "IDLE"
    /\ busy' = FALSE
    /\ UNCHANGED <<fcnt_down, ack_requested, tx_buf, activation, backoff_vars>>

\* gnrc_lorawan_event_timeout in any other state: assert(false), compiled out.
UnexpectedTimeout ==
    /\ state \notin {"RX_1", "RX_2"}
    /\ out' = Silent
    /\ UNCHANGED <<state, busy, timer, mcps_vars, mlme_vars>>

\* Mutated form of EventTimeout: the radio is not put to sleep.
EventTimeoutAwake ==
    /\ radio = "rx"
    /\ Rx1Timeout \/ Rx2Timeout \/ UnexpectedTimeout
    /\ UNCHANGED radio

\* gnrc_lorawan_event_timeout
EventTimeout ==
    /\ radio = "rx"
    /\ Rx1Timeout \/ Rx2Timeout \/ UnexpectedTimeout
    /\ radio' = "sleep"

\* gnrc_lorawan_process_pkt
ProcessPkt(f) ==
    /\ radio = "rx"
    /\ radio' = "sleep"
    /\ state' = "IDLE"
    /\ \/ /\ f.mtype = "JOIN_ACCEPT"
          /\ MlmeProcessJoin(f)
          /\ timer' = FALSE
       \/ /\ f.mtype \in {"CNF_DOWNLINK", "UNCNF_DOWNLINK"}
          /\ McpsProcessDownlink(f)
       \/ /\ f.mtype = "OTHER"
          /\ timer' = FALSE
          /\ out' = Silent
          /\ UNCHANGED <<mcps_vars, mlme_vars>>
    /\ busy' = FALSE

\* gnrc_lorawan_timer_fired between transmissions: the frame of tx_buf again.
Retransmit ==
    /\ state = "IDLE"
    /\ SendPkt
    /\ timer' = FALSE
    /\ out' = [Silent EXCEPT !.tx = IF tx_buf = NoFrame THEN "empty" ELSE "uplink"]

\* Mutated form of OpenRxWindow: the second window is not scheduled.
OpenRxWindowOnce ==
    /\ state # "IDLE"
    /\ radio' = "rx"
    /\ timer' = FALSE
    /\ out' = Silent
    /\ UNCHANGED state

\* gnrc_lorawan_open_rx_window: the first window sets the timer of the second.
OpenRxWindow ==
    /\ state # "IDLE"
    /\ radio' = "rx"
    /\ timer' = (state = "RX_1")
    /\ out' = Silent
    /\ UNCHANGED state

\* gnrc_lorawan_timer_fired
TimerFired ==
    /\ timer
    /\ Retransmit \/ OpenRxWindow
    /\ UNCHANGED <<busy, mcps_vars, mlme_vars>>

-----------------------------------------------------------------------------
MacTypeOK ==
    /\ state \in MacState /\ busy \in BOOLEAN
    /\ timer \in BOOLEAN /\ radio \in {"sleep", "tx", "rx"}
    /\ activation \in Activation /\ link_check \in BOOLEAN
    /\ fcnt \in Fcnt32 /\ fcnt_down \in Fcnt32
    /\ nb_trials \in -1 .. RETX
    /\ ack_requested \in BOOLEAN /\ waiting_for_ack \in BOOLEAN
    /\ tx_buf \in Uplink \cup {NoFrame}
    /\ out \in Out
    /\ BackoffTypeOK
=============================================================================
