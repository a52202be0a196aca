-------------------------- MODULE MacClient_proofs --------------------------
(***************************************************************************)
(* Proofs about the MAC layer and the upper layer that uses it.            *)
(***************************************************************************)
EXTENDS MacClient, TLAPS

-----------------------------------------------------------------------------
(* The calls the handlers make *)

LEMMA SilentType == Silent \in Out
BY DEF Silent, Out

LEMMA ReturnsType ==
    ASSUME NEW call \in {"none", "mcps", "join", "link_check", "set", "reset"},
           NEW status \in Status \cup {"none"}
    PROVE  Returns(call, status) \in Out
BY DEF Returns, Silent, Out

LEMMA McpsConfirmType ==
    ASSUME NEW event, NEW ack, NEW o \in Out
    PROVE  McpsConfirm(event, ack, o) \in Out
<1>1. CASE Retries(event, ack)
  BY <1>1 DEF McpsConfirm
<1>2. CASE ~Retries(event, ack)
  <2>1. ASSUME NEW t \in DataType, NEW s \in {"SUCCESS", "ETIMEDOUT"}
        PROVE  [o EXCEPT !.mcps_type = t, !.mcps_status = s] \in Out
    BY <2>1 DEF Out
  <2>2. QED  BY <1>2, <2>1 DEF McpsConfirm, DataType
<1>3. QED  BY <1>1, <1>2

LEMMA McpsConfirmKeeps ==
    ASSUME NEW event, NEW ack, NEW o \in Out
    PROVE  LET c == McpsConfirm(event, ack, o)
           IN  /\ c.call = o.call /\ c.status = o.status
               /\ c.join = o.join /\ c.link = o.link /\ c.tx = o.tx
<1>1. ASSUME NEW t, NEW s
      PROVE  LET c == [o EXCEPT !.mcps_type = t, !.mcps_status = s]
             IN  /\ c.call = o.call /\ c.status = o.status
                 /\ c.join = o.join /\ c.link = o.link /\ c.tx = o.tx
  BY DEF Out
<1>2. QED  BY <1>1 DEF McpsConfirm

LEMMA MlmeNoRxConfirmFields ==
    /\ MlmeNoRxConfirm \in Out
    /\ MlmeNoRxConfirm.call = "none" /\ MlmeNoRxConfirm.status = "none"
    /\ MlmeNoRxConfirm.join = IF activation = "NONE" THEN "ETIMEDOUT" ELSE "none"
    /\ MlmeNoRxConfirm.link =
            IF activation # "NONE" /\ link_check THEN "ETIMEDOUT" ELSE "none"
    /\ MlmeNoRxConfirm.tx = "none"
BY DEF MlmeNoRxConfirm, Silent, Out

\* Dropped or accepted, a downlink is an event of the MCPS layer.
LEMMA DownlinkReports ==
    ASSUME NEW f \in Frames, McpsProcessDownlink(f)
    PROVE  \E event \in {"RX", "NO_RX"}, ack \in BOOLEAN, o \in Out :
             /\ o.call = "none" /\ o.status = "none" /\ o.mcps_status = "none"
             /\ o.join = "none" /\ o.tx = "none"
             /\ McpsEvent(event, ack, FALSE) /\ out' = McpsConfirm(event, ack, o)
<1>1. CASE DropDownlink
  <2>1. /\ Silent.call = "none" /\ Silent.status = "none" /\ Silent.mcps_status = "none"
        /\ Silent.join = "none" /\ Silent.tx = "none"
    BY DEF Silent
  <2>2. McpsEvent("NO_RX", FALSE, FALSE) /\ out' = McpsConfirm("NO_RX", FALSE, Silent)
    BY <1>1 DEF DropDownlink
  <2>3. QED  BY <2>1, <2>2, SilentType
<1>2. CASE TakeDownlink(f)
  <2> DEFINE o == [Silent EXCEPT
                      !.link = IF f.link_ans THEN "SUCCESS" ELSE "none",
                      !.schedule_uplink = f.pending,
                      !.mcps_ind = IF f.port = 0 THEN "none" ELSE IndicationType(f)]
  <2>1. McpsEvent("RX", f.ack, FALSE) /\ out' = McpsConfirm("RX", f.ack, o)
    BY <1>2 DEF TakeDownlink
  <2>2. f.link_ans \in BOOLEAN /\ f.pending \in BOOLEAN /\ f.ack \in BOOLEAN
    BY MacAssumption DEF DownFrame
  <2>3. /\ o \in Out /\ o.call = "none" /\ o.status = "none" /\ o.mcps_status = "none"
        /\ o.join = "none" /\ o.tx = "none"
    BY <2>2 DEF Out, Silent, IndicationType, DataType
  <2> HIDE DEF o
  <2>4. QED  BY <2>1, <2>2, <2>3
<1>3. QED  BY <1>1, <1>2 DEF McpsProcessDownlink

\* A frame goes out when a request is accepted and when the timer repeats it.
LEMMA UplinkSent ==
    ASSUME Next, out'.tx = "uplink"
    PROVE  \/ \E type \in DataType, data \in Payloads : McpsAccept(type, data)
           \/ TimerFired /\ Retransmit /\ tx_buf # NoFrame
<1>1. ASSUME NEW call, NEW status, out' = Returns(call, status)
      PROVE  FALSE
  BY <1>1 DEF Returns, Silent
<1>2. out' # Silent
  BY DEF Silent
<1>3. CASE Request
  <2>1. CASE McpsRequest
    BY <1>1, <2>1 DEF McpsRequest, McpsRefuse
  <2>2. CASE JoinRequest
    BY <1>1, <2>2 DEF JoinRequest, JoinRefuse, JoinSend, Returns, Silent
  <2>3. CASE \E a \in Activation : SetActivation(a)
    BY <1>1, <2>3 DEF SetActivation
  <2>4. QED  BY <1>3, <2>1, <2>2, <2>3 DEF Request
<1>4. ~RequestReset /\ ~LinkCheckRequest /\ ~BackoffTick /\ ~TxComplete
  BY <1>1, <1>2 DEF RequestReset, Reset, LinkCheckRequest, BackoffTick, TxComplete
<1>5. ~Receive
  <2>1. SUFFICES ASSUME NEW f \in Frames, ProcessPkt(f)
                 PROVE  FALSE
    BY DEF Receive
  <2>2. CASE McpsProcessDownlink(f)
    <3>1. PICK event \in {"RX", "NO_RX"}, ack \in BOOLEAN, o \in Out :
            o.tx = "none" /\ out' = McpsConfirm(event, ack, o)
      BY <2>2, DownlinkReports
    <3>2. McpsConfirm(event, ack, o).tx = o.tx
      BY McpsConfirmKeeps
    <3>3. QED  BY <3>1, <3>2
  <2>3. CASE MlmeProcessJoin(f)
    BY <2>3 DEF MlmeProcessJoin, Silent
  <2>4. QED  BY <1>2, <2>1, <2>2, <2>3 DEF ProcessPkt
<1>6. ~EventTimeout
  <2>1. ~Rx1Timeout /\ ~UnexpectedTimeout
    BY <1>2 DEF Rx1Timeout, UnexpectedTimeout
  <2>2. ~Rx2Timeout
    <3>1. McpsConfirm("NO_RX", FALSE, MlmeNoRxConfirm).tx = MlmeNoRxConfirm.tx
      BY MlmeNoRxConfirmFields, McpsConfirmKeeps
    <3>2. QED  BY <3>1, MlmeNoRxConfirmFields DEF Rx2Timeout
  <2>3. QED  BY <2>1, <2>2 DEF EventTimeout
<1>7. CASE TimerFired
  BY <1>2, <1>7 DEF TimerFired, Retransmit, OpenRxWindow, Silent
<1>8. QED  BY <1>3, <1>4, <1>5, <1>6, <1>7 DEF Next

-----------------------------------------------------------------------------
(* Type correctness *)

\* nb_trials stays above -1 because it is only decremented, once more after
\* the last retransmission, while an acknowledgement is waited for.
MacTypeInv == MacTypeOK /\ (waiting_for_ack => nb_trials >= 0)

LEMMA ModFcnt32 == \A n \in Nat : n % FCNT32 \in Fcnt32
BY FcntAssumption DEF Fcnt32

LEMMA BackoffExpireType ==
    ASSUME BackoffTypeOK, BackoffExpire
    PROVE  BackoffTypeOK'
<1>1. Counter \in 0..31 /\ Phase \in 0..7
  BY DEF BackoffTypeOK, Counter, Phase
<1>2. \A p \in 0..7, c \in Int : Pack(p, c) \in 0..255
  BY DEF Pack
<1>3. Grant(Phase).phase \in 0..7 /\ Grant(Phase).time \in Int /\ Grant(Phase).budget \in Int
  BY <1>1, BackoffAssumption
  DEF Grant, BackoffTimes, BackoffBudgets, BACKOFF_STATE_1, BACKOFF_STATE_2, BACKOFF_STATE_3
<1>4. CASE Counter > 0 /\ backoff_state' = Pack(Phase, Counter - 1) /\ UNCHANGED backoff_budget
  <2>1. Counter - 1 \in Int
    BY <1>1
  <2>2. Pack(Phase, Counter - 1) \in 0..255
    BY <1>1, <1>2, <2>1
  <2>3. QED  BY <1>4, <2>2 DEF BackoffTypeOK
<1>5. CASE /\ Counter = 0
           /\ backoff_state' = Pack(Grant(Phase).phase, Grant(Phase).time - 1)
           /\ backoff_budget' = Grant(Phase).budget
  <2>1. Grant(Phase).time - 1 \in Int
    BY <1>3
  <2>2. Pack(Grant(Phase).phase, Grant(Phase).time - 1) \in 0..255
    BY <1>2, <1>3, <2>1
  <2>3. QED  BY <1>3, <1>5, <2>2 DEF BackoffTypeOK
<1>6. QED  BY <1>4, <1>5 DEF BackoffExpire

LEMMA McpsEventType ==
    ASSUME MacTypeInv, NEW event, NEW ack, NEW armed \in BOOLEAN,
           McpsEvent(event, ack, armed)
    PROVE  /\ fcnt' \in Fcnt32 /\ timer' \in BOOLEAN
           /\ waiting_for_ack' \in BOOLEAN /\ nb_trials' \in -1 .. RETX
           /\ waiting_for_ack' => nb_trials' >= 0
<1>1. /\ fcnt \in Fcnt32 /\ nb_trials \in -1 .. RETX /\ waiting_for_ack \in BOOLEAN
      /\ waiting_for_ack => nb_trials >= 0
  BY DEF MacTypeInv, MacTypeOK
<1>2. (fcnt + 1) % FCNT32 \in Fcnt32
  BY <1>1, ModFcnt32, FcntAssumption DEF Fcnt32
<1>3. nb_trials' \in -1 .. RETX
  BY <1>1, MacAssumption DEF McpsEvent, Unacked
<1>4. CASE Retries(event, ack)
  <2>1. /\ timer' = TRUE /\ waiting_for_ack' = waiting_for_ack /\ fcnt' = fcnt
        /\ nb_trials' = nb_trials - 1 /\ nb_trials > 0
    BY <1>4, Zenon DEF McpsEvent, Retries
  <2>2. QED  BY <1>1, <1>3, <2>1, MacAssumption
<1>5. CASE ~Retries(event, ack)
  BY <1>2, <1>3, <1>5 DEF McpsEvent, EndOfTx
<1>6. QED  BY <1>4, <1>5

LEMMA McpsRequestType ==
    ASSUME MacTypeInv, McpsRequest
    PROVE  MacTypeInv'
<1>1. ASSUME NEW fault \in RequestFault, McpsRefuse(fault)
      PROVE  MacTypeInv'
  <2>1. out' \in Out
    BY <1>1, ReturnsType DEF McpsRefuse, Status, RequestFault
  <2>2. QED
    BY <1>1, <2>1 DEF MacTypeInv, MacTypeOK, McpsRefuse, mcps_vars, mlme_vars,
                      backoff_vars, BackoffTypeOK
<1>2. ASSUME NEW type \in DataType, NEW data \in Payloads, McpsAccept(type, data)
      PROVE  MacTypeInv'
  <2>1. out' \in Out
    <3>1. Returns("mcps", "DEFERRED") \in Out
      BY ReturnsType DEF Status
    <3>2. QED  BY <1>2, <3>1 DEF McpsAccept, Out
  <2>2. tx_buf' \in Uplink
    BY <1>2 DEF McpsAccept, BuildUplink, Uplink, MacTypeInv, MacTypeOK
  <2>3. waiting_for_ack' \in BOOLEAN
    BY <1>2 DEF McpsAccept
  <2>4. nb_trials' = RETX /\ RETX \in -1 .. RETX /\ RETX >= 0
    BY <1>2, MacAssumption DEF McpsAccept
  <2>5. QED
    BY <1>2, <2>1, <2>2, <2>3, <2>4
    DEF MacTypeInv, MacTypeOK, McpsAccept, SendPkt, MacState, mlme_vars,
        backoff_vars, BackoffTypeOK
<1>3. QED  BY <1>1, <1>2 DEF McpsRequest

LEMMA JoinRequestType ==
    ASSUME MacTypeInv, JoinRequest
    PROVE  MacTypeInv'
<1>1. CASE JoinRefuse
  <2>1. out' \in Out
    BY <1>1, ReturnsType DEF JoinRefuse, Status, RequestFault
  <2>2. busy' \in BOOLEAN
    BY <1>1 DEF JoinRefuse, MacTypeInv, MacTypeOK
  <2>3. QED
    BY <1>1, <2>1, <2>2 DEF MacTypeInv, MacTypeOK, JoinRefuse, mcps_vars, mlme_vars,
                            backoff_vars, BackoffTypeOK
<1>2. CASE JoinSend
  <2>1. out' \in Out
    <3>1. Returns("join", "DEFERRED") \in Out
      BY ReturnsType DEF Status
    <3>2. QED  BY <1>2, <3>1 DEF JoinSend, Out
  <2>2. BackoffTypeOK'
    BY <1>2, BackoffAssumption DEF JoinSend, Charge, BackoffTypeOK, MacTypeInv, MacTypeOK
  <2>3. QED
    BY <1>2, <2>1, <2>2 DEF MacTypeInv, MacTypeOK, JoinSend, SendPkt, MacState, mcps_vars
<1>3. QED  BY <1>1, <1>2 DEF JoinRequest

LEMMA MlmeRequestType ==
    ASSUME MacTypeInv,
           \/ LinkCheckRequest \/ Reset \/ BackoffTick
           \/ \E a \in Activation : SetActivation(a)
    PROVE  MacTypeInv'
<1>1. CASE LinkCheckRequest
  <2>1. out' \in Out
    BY <1>1, ReturnsType DEF LinkCheckRequest, Status
  <2>2. QED
    BY <1>1, <2>1 DEF MacTypeInv, MacTypeOK, LinkCheckRequest, mcps_vars, phy_vars,
                      backoff_vars, BackoffTypeOK
<1>2. CASE Reset
  <2>1. out' \in Out
    BY <1>2, ReturnsType DEF Reset, Status
  <2>2. 0 \in Fcnt32 /\ "NONE" \in Activation
    BY FcntAssumption DEF Fcnt32, Activation
  <2>3. QED
    BY <1>2, <2>1, <2>2 DEF MacTypeInv, MacTypeOK, Reset, phy_vars, backoff_vars, BackoffTypeOK
<1>3. ASSUME NEW a \in Activation, SetActivation(a)
      PROVE  MacTypeInv'
  <2>1. out' \in Out
    BY <1>3, ReturnsType DEF SetActivation, Status, RequestFault
  <2>2. activation' \in Activation
    BY <1>3 DEF SetActivation, MacTypeInv, MacTypeOK
  <2>3. QED
    BY <1>3, <2>1, <2>2 DEF MacTypeInv, MacTypeOK, SetActivation, mcps_vars, phy_vars,
                            backoff_vars, BackoffTypeOK
<1>4. CASE BackoffTick
  <2>1. BackoffTypeOK'
    BY <1>4, BackoffExpireType DEF BackoffTick, MacTypeInv, MacTypeOK
  <2>2. QED
    BY <1>4, <2>1, SilentType DEF MacTypeInv, MacTypeOK, BackoffTick, mcps_vars, phy_vars
<1>5. QED  BY <1>1, <1>2, <1>3, <1>4

LEMMA WindowType ==
    ASSUME MacTypeInv, TxComplete \/ TimerFired
    PROVE  MacTypeInv'
<1>1. CASE TxComplete
  BY <1>1, SilentType
  DEF MacTypeInv, MacTypeOK, TxComplete, MacState, mcps_vars, mlme_vars, backoff_vars, BackoffTypeOK
<1>2. CASE TimerFired
  <2>1. out' \in Out
    <3>1. \A t \in {"empty", "uplink"} : [Silent EXCEPT !.tx = t] \in Out
      BY DEF Silent, Out
    <3>2. QED  BY <1>2, <3>1, SilentType DEF TimerFired, Retransmit, OpenRxWindow
  <2>2. state' \in MacState /\ radio' \in {"sleep", "tx", "rx"}
    BY <1>2 DEF TimerFired, Retransmit, OpenRxWindow, SendPkt, MacState, MacTypeInv, MacTypeOK
  <2>3. timer' \in BOOLEAN
    BY <1>2 DEF TimerFired, Retransmit, OpenRxWindow
  <2>4. QED
    BY <1>2, <2>1, <2>2, <2>3
    DEF MacTypeInv, MacTypeOK, TimerFired, mcps_vars, mlme_vars, backoff_vars, BackoffTypeOK
<1>3. QED  BY <1>1, <1>2

LEMMA EventTimeoutType ==
    ASSUME MacTypeInv, EventTimeout
    PROVE  MacTypeInv'
<1>1. radio' = "sleep"
  BY DEF EventTimeout
<1>2. CASE Rx1Timeout \/ UnexpectedTimeout
  BY <1>1, <1>2, SilentType
  DEF MacTypeInv, MacTypeOK, Rx1Timeout, UnexpectedTimeout, MacState, mcps_vars, mlme_vars,
      backoff_vars, BackoffTypeOK
<1>3. CASE Rx2Timeout
  <2>1. out' \in Out
    <3>1. MlmeNoRxConfirm \in Out
      BY DEF MlmeNoRxConfirm, Silent, Out
    <3>2. QED  BY <1>3, <3>1, McpsConfirmType DEF Rx2Timeout
  <2>2. link_check' \in BOOLEAN
    BY <1>3 DEF Rx2Timeout, MlmeNoRx
  <2>3. /\ fcnt' \in Fcnt32 /\ timer' \in BOOLEAN
        /\ waiting_for_ack' \in BOOLEAN /\ nb_trials' \in -1 .. RETX
        /\ waiting_for_ack' => nb_trials' >= 0
    <3>1. timer \in BOOLEAN /\ McpsEvent("NO_RX", FALSE, timer)
      BY <1>3 DEF Rx2Timeout, MacTypeInv, MacTypeOK
    <3>2. QED  BY <3>1, McpsEventType
  <2>4. QED
    BY <1>1, <1>3, <2>1, <2>2, <2>3
    DEF MacTypeInv, MacTypeOK, Rx2Timeout, MacState, backoff_vars, BackoffTypeOK
<1>4. QED  BY <1>2, <1>3 DEF EventTimeout

LEMMA ProcessPktType ==
    ASSUME MacTypeInv, NEW f \in Frames, ProcessPkt(f)
    PROVE  MacTypeInv'
<1>1. /\ radio' = "sleep" /\ state' = "IDLE" /\ busy' = FALSE
  BY DEF ProcessPkt
<1>2. ASSUME MlmeProcessJoin(f), timer' = FALSE
      PROVE  MacTypeInv'
  <2>1. out' \in Out
    <3>1. \A j \in {"SUCCESS", "EBADMSG"} : [Silent EXCEPT !.join = j] \in Out
      BY DEF Silent, Out
    <3>2. QED  BY <1>2, <3>1 DEF MlmeProcessJoin
  <2>2. activation' \in Activation
    BY <1>2 DEF MlmeProcessJoin, Activation, MacTypeInv, MacTypeOK
  <2>3. QED
    BY <1>1, <1>2, <2>1, <2>2
    DEF MacTypeInv, MacTypeOK, MlmeProcessJoin, MacState, mcps_vars, backoff_vars, BackoffTypeOK
<1>3. ASSUME McpsProcessDownlink(f)
      PROVE  MacTypeInv'
  <2>1. f \in DownFrame
    BY MacAssumption
  <2>2. CASE DropDownlink
    <3>1. McpsEvent("NO_RX", FALSE, FALSE)
      BY <2>2 DEF DropDownlink
    <3>2. out' \in Out
      BY <2>2, SilentType, McpsConfirmType DEF DropDownlink
    <3>3. QED
      BY <1>1, <1>3, <2>2, <3>1, <3>2, McpsEventType
      DEF MacTypeInv, MacTypeOK, McpsProcessDownlink, DropDownlink, MacState, backoff_vars,
          BackoffTypeOK
  <2>3. CASE Accepts(f) /\ TakeDownlink(f)
    <3>1. McpsEvent("RX", f.ack, FALSE)
      BY <2>3 DEF TakeDownlink
    <3>2. out' \in Out
      <4>1. ASSUME NEW l \in {"SUCCESS", "none"}, NEW p \in BOOLEAN,
                   NEW i \in DataType \cup {"none"}
            PROVE  [Silent EXCEPT !.link = l, !.schedule_uplink = p, !.mcps_ind = i] \in Out
        BY DEF Silent, Out
      <4>2. f.pending \in BOOLEAN /\ IndicationType(f) \in DataType
        BY <2>1 DEF DownFrame, IndicationType, DataType
      <4>3. QED  BY <2>3, <4>1, <4>2, McpsConfirmType DEF TakeDownlink
    <3>3. fcnt_down' \in Fcnt32
      <4>1. /\ fcnt_down \in Int /\ 0 <= fcnt_down /\ f.fcnt \in Int
        BY <2>1 DEF MacTypeInv, MacTypeOK, Fcnt32, DownFrame, Fcnt16
      <4>2. /\ fcnt_down <= FcntStol(fcnt_down, f.fcnt)
            /\ FcntStol(fcnt_down, f.fcnt) <= (fcnt_down + MAX_FCNT_GAP) % FCNT32
        BY <2>3 DEF Accepts, FcntInWindow
      <4>3. FcntStol(fcnt_down, f.fcnt) \in Int
        BY <4>1, FcntAssumption DEF FcntStol, Upper, Lower
      <4>4. (fcnt_down + MAX_FCNT_GAP) % FCNT32 \in Fcnt32
        BY <4>1, ModFcnt32, FcntAssumption
      <4>5. FcntStol(fcnt_down, f.fcnt) \in Fcnt32
        BY <4>1, <4>2, <4>3, <4>4, FcntAssumption DEF Fcnt32
      <4>6. QED  BY <2>3, <4>5 DEF TakeDownlink
    <3>4. ack_requested' \in BOOLEAN /\ link_check' \in BOOLEAN
      BY <2>3 DEF TakeDownlink
    <3>5. QED
      BY <1>1, <1>3, <2>3, <3>1, <3>2, <3>3, <3>4, McpsEventType
      DEF MacTypeInv, MacTypeOK, McpsProcessDownlink, MacState, backoff_vars, BackoffTypeOK
  <2>4. QED  BY <1>3, <2>2, <2>3 DEF McpsProcessDownlink
<1>4. ASSUME timer' = FALSE, out' = Silent, UNCHANGED <<mcps_vars, mlme_vars>>
      PROVE  MacTypeInv'
  BY <1>1, <1>4, SilentType
  DEF MacTypeInv, MacTypeOK, MacState, mcps_vars, mlme_vars, backoff_vars, BackoffTypeOK
<1>5. QED  BY <1>2, <1>3, <1>4, Zenon DEF ProcessPkt

LEMMA RecordType ==
    ASSUME LedgerTypeOK, out' \in Out, Record,
           out'.tx = "uplink" => tx_buf'.fcnt \in Nat
    PROVE  LedgerTypeOK'
<1>1. out'.mcps_status \in {"SUCCESS", "ETIMEDOUT", "none"}
  BY DEF Out
<1>2. mcps_open' \in DataType \cup {"none"} /\ join_open' \in BOOLEAN
  BY DEF LedgerTypeOK, Record, DataType
<1>3. link_stage' \in {"none", "asked", "sent"} /\ sends' \in Nat
  BY DEF LedgerTypeOK, Record
<1>4. verdict' \in {"none", "SUCCESS", "ETIMEDOUT"}
  BY <1>1 DEF LedgerTypeOK, Record
<1>5. used' \in Nat /\ spent' \in Nat
  BY DEF LedgerTypeOK, Record
<1>6. QED  BY <1>2, <1>3, <1>4, <1>5 DEF LedgerTypeOK

TypeInv == MacTypeInv /\ LedgerTypeOK

LEMMA InitType == Init => TypeInv
<1>1. 0 \in Fcnt32 /\ 0 \in -1 .. RETX
  BY FcntAssumption, MacAssumption DEF Fcnt32
<1>2. MacInit => MacTypeOK
  <2>1. MacInit => /\ busy \in BOOLEAN /\ timer \in BOOLEAN /\ link_check \in BOOLEAN
                   /\ ack_requested \in BOOLEAN /\ waiting_for_ack \in BOOLEAN
    BY Zenon DEF MacInit
  <2>2. QED
    BY <1>1, <2>1, SilentType
    DEF MacInit, BackoffInit, MacTypeOK, MacState, Activation, BackoffTypeOK
<1>3. MacInit => ~waiting_for_ack
  BY DEF MacInit
<1>4. Init => LedgerTypeOK
  <2>1. Init => join_open \in BOOLEAN
    BY Zenon DEF Init
  <2>2. QED  BY <2>1 DEF Init, LedgerTypeOK
<1>5. QED  BY <1>2, <1>3, <1>4 DEF Init, TypeInv, MacTypeInv

LEMMA NextType == TypeInv /\ [Next]_vars => TypeInv'
<1> SUFFICES ASSUME TypeInv, [Next]_vars
             PROVE  TypeInv'
  OBVIOUS
<1>1. CASE Next
  <2>1. MacTypeInv'
    <3>1. CASE Request
      BY <3>1, McpsRequestType, JoinRequestType, MlmeRequestType DEF Request, TypeInv
    <3>2. CASE RequestReset \/ LinkCheckRequest \/ BackoffTick
      BY <3>2, MlmeRequestType DEF RequestReset, TypeInv
    <3>3. CASE Receive
      BY <3>3, ProcessPktType DEF Receive, TypeInv
    <3>4. CASE TxComplete \/ TimerFired
      BY <3>4, WindowType DEF TypeInv
    <3>5. CASE EventTimeout
      BY <3>5, EventTimeoutType DEF TypeInv
    <3>6. QED  BY <1>1, <3>1, <3>2, <3>3, <3>4, <3>5 DEF Next
  <2>2. out'.tx = "uplink" => tx_buf'.fcnt \in Nat
    <3>1. ASSUME NEW type \in DataType, NEW data \in Payloads, McpsAccept(type, data)
          PROVE  tx_buf'.fcnt = fcnt
      BY <3>1 DEF McpsAccept, BuildUplink
    <3>2. fcnt \in Nat /\ (tx_buf # NoFrame => tx_buf.fcnt \in Nat)
      BY FcntAssumption DEF TypeInv, MacTypeInv, MacTypeOK, Uplink, Fcnt32
    <3>3. TimerFired => UNCHANGED tx_buf
      BY DEF TimerFired, mcps_vars
    <3>4. QED  BY <1>1, <3>1, <3>2, <3>3, UplinkSent
  <2>3. LedgerTypeOK'
    BY <1>1, <2>1, <2>2, RecordType DEF Next, TypeInv, MacTypeInv, MacTypeOK
  <2>4. QED  BY <2>1, <2>3 DEF TypeInv
<1>2. CASE UNCHANGED vars
  BY <1>2
  DEF TypeInv, MacTypeInv, MacTypeOK, LedgerTypeOK, BackoffTypeOK, vars, mac_vars, mcps_vars,
      mlme_vars, phy_vars, backoff_vars, ledger_vars
<1>3. QED  BY <1>1, <1>2

LEMMA TypeInvariant == Spec => []TypeInv
<1>1. QED  BY InitType, NextType, PTL DEF Spec

\* Whatever the upper layer and the network do, every variable of the MAC
\* layer keeps its type: the counters their width and nb_trials its range.
THEOREM TypeCorrect == Spec => []TypeOK
<1>1. TypeInv => TypeOK
  BY DEF TypeInv, MacTypeInv, TypeOK
<1>2. QED  BY <1>1, TypeInvariant, PTL

-----------------------------------------------------------------------------
(* The radio *)

LEMMA RadioNext ==
    ASSUME RadioFollowsState, [Next]_vars
    PROVE  RadioFollowsState'
<1>1. CASE McpsRequest
  BY <1>1 DEF RadioFollowsState, McpsRequest, McpsRefuse, McpsAccept, SendPkt
<1>2. CASE JoinRequest
  BY <1>2 DEF RadioFollowsState, JoinRequest, JoinRefuse, JoinSend, SendPkt
<1>3. CASE UNCHANGED <<state, radio>>
  BY <1>3 DEF RadioFollowsState
<1>4. CASE Receive \/ TxComplete \/ EventTimeout \/ TimerFired
  <2>1. CASE Receive \/ TxComplete \/ EventTimeout
    BY <2>1 DEF RadioFollowsState, Receive, ProcessPkt, TxComplete, EventTimeout
  <2>2. CASE TimerFired
    BY <2>2 DEF RadioFollowsState, TimerFired, Retransmit, SendPkt, OpenRxWindow
  <2>3. QED  BY <1>4, <2>1, <2>2
<1>5. \/ McpsRequest \/ JoinRequest \/ UNCHANGED <<state, radio>>
      \/ Receive \/ TxComplete \/ EventTimeout \/ TimerFired
  BY DEF Next, Request, RequestReset, SetActivation, Reset, LinkCheckRequest, BackoffTick,
         phy_vars, mac_vars, vars
<1>6. QED  BY <1>1, <1>2, <1>3, <1>4, <1>5

\* Whatever the upper layer and the network do, an idle MAC keeps the radio
\* asleep and the radio transmits in state TX only: no handler leaves the
\* state machine and the radio apart.
THEOREM RadioCorrect == Spec => []RadioFollowsState
<1>1. Init => RadioFollowsState
  BY DEF Init, MacInit, RadioFollowsState
<1>2. QED  BY <1>1, RadioNext, PTL DEF Spec

-----------------------------------------------------------------------------
(* The downlink counter *)

LEMMA FcntDownSame ==
    ASSUME [Next]_vars
    PROVE  \/ UNCHANGED fcnt_down
           \/ Reset
           \/ \E f \in Frames : Accepts(f) /\ fcnt_down' = FcntStol(fcnt_down, f.fcnt)
<1>1. CASE Request
  BY <1>1 DEF Request, McpsRequest, McpsRefuse, McpsAccept, JoinRequest, JoinRefuse, JoinSend,
              SetActivation, mcps_vars
<1>2. CASE RequestReset
  BY <1>2 DEF RequestReset
<1>3. CASE Receive
  <2>1. PICK f \in Frames : ProcessPkt(f)
    BY <1>3 DEF Receive
  <2>2. \/ MlmeProcessJoin(f)
        \/ DropDownlink
        \/ Accepts(f) /\ TakeDownlink(f)
        \/ UNCHANGED mcps_vars
    BY <2>1 DEF ProcessPkt, McpsProcessDownlink
  <2>3. QED  BY <2>2 DEF MlmeProcessJoin, DropDownlink, TakeDownlink, mcps_vars
<1>4. CASE \/ LinkCheckRequest \/ TxComplete \/ TimerFired \/ BackoffTick
           \/ UNCHANGED vars
  BY <1>4 DEF LinkCheckRequest, TxComplete, TimerFired, BackoffTick, vars, mac_vars, mcps_vars
<1>5. CASE EventTimeout
  BY <1>5 DEF EventTimeout, Rx1Timeout, Rx2Timeout, UnexpectedTimeout, mcps_vars
<1>6. QED  BY <1>1, <1>2, <1>3, <1>4, <1>5 DEF Next

\* No frame, in whatever order or however often it is received, moves the
\* downlink counter back; only MLME_RESET does.
THEOREM FcntDownNeverBack == Spec => FcntDownMonotone
<1>1. TypeInv /\ [Next]_vars => [fcnt_down' >= fcnt_down \/ IsReset]_vars
  <2> SUFFICES ASSUME TypeInv, [Next]_vars
               PROVE  fcnt_down' >= fcnt_down \/ IsReset
    OBVIOUS
  <2>1. fcnt_down \in Int
    BY DEF TypeInv, MacTypeInv, MacTypeOK, Fcnt32
  <2>2. CASE UNCHANGED fcnt_down
    BY <2>1, <2>2
  <2>3. CASE Reset
    BY <2>3 DEF Reset, IsReset, Returns, Silent
  <2>4. ASSUME NEW f \in Frames, Accepts(f), fcnt_down' = FcntStol(fcnt_down, f.fcnt)
        PROVE  fcnt_down' >= fcnt_down
    <3>1. f.fcnt \in Int
      BY MacAssumption DEF DownFrame, Fcnt16
    <3>2. FcntStol(fcnt_down, f.fcnt) \in Int
      BY <2>1, <3>1, FcntAssumption DEF FcntStol, Upper, Lower
    <3>3. fcnt_down <= FcntStol(fcnt_down, f.fcnt)
      BY <2>4 DEF Accepts, FcntInWindow
    <3>4. QED  BY <2>1, <2>4, <3>2, <3>3
  <2>5. QED  BY FcntDownSame, <2>2, <2>3, <2>4
<1>2. QED  BY <1>1, TypeInvariant, PTL DEF Spec, FcntDownMonotone

-----------------------------------------------------------------------------
(* The link check *)

\* What a step does to the pending link check and tells the upper layer.
LinkSet == link_check' = TRUE /\ Deferred("link_check")
LinkReset == link_check' = FALSE /\ IsReset
LinkConfirmed == link_check' = FALSE /\ out'.link # "none" /\ out'.status = "none"
LinkKept ==
    /\ UNCHANGED link_check
    /\ out'.link = "none" /\ ~IsReset /\ ~Deferred("link_check")

LEMMA LinkStep ==
    ASSUME TypeInv, Next
    PROVE  LinkSet \/ LinkReset \/ LinkConfirmed \/ LinkKept
<1> USE DEF LinkSet, LinkReset, LinkConfirmed, LinkKept, Deferred, IsReset
<1>1. CASE Request
  <2>1. CASE McpsRequest
    BY <2>1 DEF McpsRequest, McpsRefuse, McpsAccept, mlme_vars, Returns, Silent
  <2>2. CASE JoinRequest
    BY <2>2 DEF JoinRequest, JoinRefuse, JoinSend, mlme_vars, Returns, Silent
  <2>3. CASE \E a \in Activation : SetActivation(a)
    BY <2>3 DEF SetActivation, Returns, Silent
  <2>4. QED  BY <1>1, <2>1, <2>2, <2>3 DEF Request
<1>2. CASE RequestReset
  BY <1>2 DEF RequestReset, Reset, Returns, Silent
<1>3. CASE LinkCheckRequest
  BY <1>3 DEF LinkCheckRequest, Returns, Silent
<1>4. CASE Receive
  <2>1. PICK f \in Frames : ProcessPkt(f)
    BY <1>4 DEF Receive
  <2>2. CASE MlmeProcessJoin(f)
    BY <2>2 DEF MlmeProcessJoin, Silent
  <2>3. CASE DropDownlink
    <3>1. /\ out'.call = "none" /\ out'.status = "none" /\ out'.link = "none"
      <4>1. Silent.call = "none" /\ Silent.status = "none" /\ Silent.link = "none"
        BY DEF Silent
      <4>2. out' = McpsConfirm("NO_RX", FALSE, Silent)
        BY <2>3 DEF DropDownlink
      <4>3. QED  BY <4>1, <4>2, SilentType, McpsConfirmKeeps
    <3>2. QED  BY <2>3, <3>1 DEF DropDownlink
  <2>4. CASE TakeDownlink(f)
    <3>1. f.link_ans \in BOOLEAN /\ f.pending \in BOOLEAN
      BY MacAssumption DEF DownFrame
    <3> DEFINE o == [Silent EXCEPT
                        !.link = IF f.link_ans THEN "SUCCESS" ELSE "none",
                        !.schedule_uplink = f.pending,
                        !.mcps_ind = IF f.port = 0 THEN "none" ELSE IndicationType(f)]
    <3>2. o \in Out /\ o.call = "none" /\ o.status = "none"
          /\ o.link = IF f.link_ans THEN "SUCCESS" ELSE "none"
      BY <3>1 DEF Out, Silent, IndicationType, DataType
    <3>3. out' = McpsConfirm("RX", f.ack, o) /\ link_check' = (link_check /\ ~f.link_ans)
      BY <2>4 DEF TakeDownlink
    <3> HIDE DEF o
    <3>4. out'.call = "none" /\ out'.status = "none" /\ out'.link = o.link
      BY <3>2, <3>3, McpsConfirmKeeps
    <3>5. link_check \in BOOLEAN
      BY DEF TypeInv, MacTypeInv, MacTypeOK
    <3>6. CASE f.link_ans
      BY <3>2, <3>3, <3>4, <3>6
    <3>7. CASE ~f.link_ans
      BY <3>2, <3>3, <3>4, <3>5, <3>7
    <3>8. QED  BY <3>6, <3>7
  <2>5. CASE UNCHANGED mlme_vars /\ out' = Silent
    BY <2>5 DEF mlme_vars, Silent
  <2>6. QED
    BY <2>1, <2>2, <2>3, <2>4, <2>5 DEF ProcessPkt, McpsProcessDownlink
<1>5. CASE EventTimeout
  <2>1. CASE Rx1Timeout \/ UnexpectedTimeout
    BY <2>1 DEF Rx1Timeout, UnexpectedTimeout, mlme_vars, Silent
  <2>2. CASE Rx2Timeout
    <3>1. link_check' = (link_check /\ activation = "NONE")
      BY <2>2 DEF Rx2Timeout, MlmeNoRx
    <3>2. /\ out'.call = "none" /\ out'.status = "none"
          /\ out'.link = IF activation # "NONE" /\ link_check THEN "ETIMEDOUT" ELSE "none"
      <4>1. out' = McpsConfirm("NO_RX", FALSE, MlmeNoRxConfirm)
        BY <2>2 DEF Rx2Timeout
      <4>2. MlmeNoRxConfirm \in Out
        BY MlmeNoRxConfirmFields
      <4>3. /\ out'.call = MlmeNoRxConfirm.call /\ out'.status = MlmeNoRxConfirm.status
            /\ out'.link = MlmeNoRxConfirm.link
        BY <4>1, <4>2, McpsConfirmKeeps
      <4>4. QED  BY <4>3, MlmeNoRxConfirmFields
    <3>3. link_check \in BOOLEAN
      BY DEF TypeInv, MacTypeInv, MacTypeOK
    <3>4. CASE activation # "NONE" /\ link_check
      BY <3>1, <3>2, <3>4
    <3>5. CASE ~(activation # "NONE" /\ link_check)
      BY <3>1, <3>2, <3>3, <3>5
    <3>6. QED  BY <3>4, <3>5
  <2>3. QED  BY <1>5, <2>1, <2>2 DEF EventTimeout
<1>6. CASE TxComplete \/ TimerFired \/ BackoffTick
  BY <1>6 DEF TxComplete, TimerFired, Retransmit, OpenRxWindow, BackoffTick, mlme_vars, Silent
<1>7. QED  BY <1>1, <1>2, <1>3, <1>4, <1>5, <1>6 DEF Next

\* Whatever the upper layer and the network do, a link check asked for stays
\* due until it is confirmed and not longer: the flag and what the upper layer
\* has been told never part.
THEOREM LinkCheckCorrect == Spec => []LinkCheckDue
<1>1. Init => LinkCheckDue
  BY DEF Init, MacInit, LinkCheckDue
<1>2. TypeInv /\ LinkCheckDue /\ [Next]_vars => LinkCheckDue'
  <2> SUFFICES ASSUME TypeInv, LinkCheckDue, [Next]_vars
               PROVE  LinkCheckDue'
    OBVIOUS
  <2>1. CASE Next
    <3>1. Record
      BY <2>1 DEF Next
    <3>2. CASE LinkSet
      BY <3>1, <3>2 DEF LinkSet, Record, LinkCheckDue
    <3>3. CASE LinkReset
      BY <3>1, <3>3 DEF LinkReset, Record, LinkCheckDue, Deferred, IsReset
    <3>4. CASE LinkConfirmed
      BY <3>1, <3>4 DEF LinkConfirmed, Record, LinkCheckDue, Deferred
    <3>5. CASE LinkKept
      BY <3>1, <3>5 DEF LinkKept, Record, LinkCheckDue
    <3>6. QED  BY <2>1, <3>2, <3>3, <3>4, <3>5, LinkStep
  <2>2. CASE UNCHANGED vars
    BY <2>2 DEF vars, mac_vars, mlme_vars, ledger_vars, LinkCheckDue
  <2>3. QED  BY <2>1, <2>2
<1>3. QED  BY <1>1, <1>2, TypeInvariant, PTL DEF Spec
=============================================================================
