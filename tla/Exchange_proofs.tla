-------------------------- MODULE Exchange_proofs --------------------------
(***************************************************************************)
(* Proofs about an upper layer that waits for its confirms.  Whatever      *)
(* frames the network sends (Disturbances \subseteq {"foreign_frames"}),   *)
(* ExchangeInv is inductive, every step brings the exchange nearer to its  *)
(* end, and the steps are, seen by the upper layer, steps of the data      *)
(* service and, seen by the radio, steps of a class A device.  If the      *)
(* network answers in kind (Disturbances = {}), RestIffAnswered is         *)
(* inductive too and the confirms are those that are owed.                 *)
(***************************************************************************)
EXTENDS MacClient_proofs

ServiceStep == Service!Next \/ UNCHANGED <<mcps_open, sends, verdict>>

DeviceStep == Device!Next \/ UNCHANGED WindowPhase

AdvanceStep ==
    \/ EventsLeft' < EventsLeft
    \/ UNCHANGED <<state, timer, radio, EventsLeft>>
    \/ AtRest /\ EventsLeft = 0 /\ EventsLeft' <= 6 * RETX + 5

\* What every step does.
Good == ExchangeInv' /\ ServiceStep /\ DeviceStep /\ AdvanceStep

ConfirmStep ==
    out'.mcps_status # "none" =>
        \/ out'.mcps_type = mcps_open
        \/ join_open /\ out'.join # "none"

JoinConfirmStep == out'.join # "none" => join_open

\* What every step does, besides, when no frame is foreign.
Answered == RestIffAnswered => RestIffAnswered' /\ ConfirmStep /\ JoinConfirmStep

\* A step that tells the upper layer nothing of its data request or join.
Tells(o) ==
    \/ o.status = "DEFERRED" /\ o.call \in {"mcps", "join"}
    \/ o.call = "reset" \/ o.mcps_status # "none" \/ o.join # "none" \/ o.tx = "uplink"

LEMMA RecordUntold ==
    ASSUME Record, ~Tells(out')
    PROVE  UNCHANGED <<mcps_open, join_open, sends, verdict>>
BY DEF Record, Tells, Deferred, IsReset

\* Between exchanges nothing is left to happen, within one at least one report.
LEMMA EventsLeftRange ==
    ASSUME TypeInv
    PROVE  /\ EventsLeft \in Nat /\ nb_trials \in Int /\ RETX \in Nat
           /\ ~InFlight => EventsLeft = 0
           /\ InFlight => EventsLeft >= 1
<1>1. /\ RETX \in Nat /\ nb_trials \in Int /\ state \in MacState /\ timer \in BOOLEAN
      /\ waiting_for_ack => nb_trials \in Nat
  BY MacAssumption DEF TypeInv, MacTypeInv, MacTypeOK
<1>2. Position \in 0 .. 6 /\ (~InFlight => Position = 0) /\ (InFlight => Position >= 1)
  BY <1>1 DEF Position, InFlight, MacState
<1>3. QED  BY <1>1, <1>2 DEF EventsLeft

\* A step that ends the exchange leaves no report to wait for.
LEMMA EndAdvances ==
    ASSUME TypeInv, InFlight, state' = "IDLE", ~timer'
    PROVE  AdvanceStep /\ ~InFlight'
<1>1. ~InFlight' /\ Position' = 0
  BY DEF InFlight, Position
<1>2. EventsLeft' = 0
  BY <1>1 DEF EventsLeft
<1>3. QED  BY <1>1, <1>2, EventsLeftRange DEF AdvanceStep

\* A window that is open closes for good.
LEMMA WindowFinishes ==
    ASSUME TypeInv, ExchangeInv, radio = "rx", state' = "IDLE"
    PROVE  DeviceStep /\ state \in {"RX_1", "RX_2"}
<1>1. state \in {"RX_1", "RX_2"}
  BY DEF ExchangeInv, PhyMatchesState, TypeInv, MacTypeInv, MacTypeOK, MacState
<1>2. WindowPhase \in {"rx_1", "rx_2"} /\ WindowPhase' = "idle"
  BY <1>1 DEF WindowPhase
<1>3. QED  BY <1>1, <1>2 DEF DeviceStep, Device!Next, Device!Finish

\* An untold step that leaves the exchange where it is preserves the invariant.
LEMMA UntoldGood ==
    ASSUME ExchangeInv, Record, ~Tells(out'),
           UNCHANGED <<state, timer, radio, fcnt, nb_trials, waiting_for_ack, tx_buf>>,
           AtRest \/ UNCHANGED <<activation, busy>>
    PROVE  Good /\ Answered
<1>1. UNCHANGED <<mcps_open, join_open, sends, verdict>>
  BY RecordUntold
<1>2. PhyMatchesState' /\ OneExchange' /\ FrameOfExchange' /\ RetriesAccounted'
  BY <1>1 DEF ExchangeInv, PhyMatchesState, OneExchange, InFlight, AtRest, FrameOfExchange,
              RetriesAccounted
<1>3. LockedInFlight'
  BY <1>1 DEF ExchangeInv, OneExchange, InFlight, LockedInFlight
<1>4. ServiceStep /\ DeviceStep /\ AdvanceStep
  BY <1>1 DEF ServiceStep, DeviceStep, AdvanceStep, EventsLeft, Position, InFlight,
              WindowPhase
<1>5. Answered
  BY <1>1 DEF Answered, ConfirmStep, JoinConfirmStep, Tells, RestIffAnswered, AtRest, InFlight
<1>6. QED  BY <1>2, <1>3, <1>4, <1>5 DEF Good, ExchangeInv

-----------------------------------------------------------------------------
(* Requests *)

LEMMA RefusedGood ==
    ASSUME ExchangeInv, Record, AtRest,
           \/ \E fault \in RequestFault : McpsRefuse(fault)
           \/ JoinRefuse
           \/ \E a \in Activation : SetActivation(a)
    PROVE  Good /\ Answered
<1>1. ~Tells(out')
  <2>1. ASSUME NEW call \in {"mcps", "join", "set"}, NEW status \in Status \ {"DEFERRED"},
               out' = Returns(call, status)
        PROVE  ~Tells(out')
    <3>1. /\ out'.call = call /\ out'.status = status /\ out'.mcps_status = "none"
          /\ out'.join = "none" /\ out'.tx = "none"
      BY <2>1 DEF Returns, Silent
    <3>2. status # "DEFERRED" /\ call # "reset"
      OBVIOUS
    <3>3. QED  BY <3>1, <3>2 DEF Tells
  <2>2. ASSUME NEW fault \in RequestFault, McpsRefuse(fault)
        PROVE  \E status \in Status \ {"DEFERRED"} : out' = Returns("mcps", status)
    BY <2>2 DEF McpsRefuse, Status, RequestFault
  <2>3. CASE JoinRefuse
    BY <2>1, <2>3 DEF JoinRefuse, Status, RequestFault
  <2>4. ASSUME NEW a \in Activation, SetActivation(a)
        PROVE  ~Tells(out')
    BY <2>1, <2>4 DEF SetActivation, Status, RequestFault
  <2>5. QED  BY <2>1, <2>2, <2>3, <2>4
<1>2. UNCHANGED <<state, timer, radio, fcnt, nb_trials, waiting_for_ack, tx_buf>>
  BY DEF McpsRefuse, JoinRefuse, SetActivation, mcps_vars, phy_vars
<1>3. QED  BY <1>1, <1>2, UntoldGood

LEMMA MlmeGood ==
    ASSUME ExchangeInv, Record, LinkCheckRequest \/ BackoffTick
    PROVE  Good /\ Answered
<1>1. ~Tells(out')
  <2>1. CASE LinkCheckRequest
    <3>1. /\ out'.call = "link_check" /\ out'.mcps_status = "none" /\ out'.join = "none"
          /\ out'.tx = "none"
      BY <2>1 DEF LinkCheckRequest, Returns, Silent
    <3>2. QED  BY <3>1 DEF Tells
  <2>2. CASE BackoffTick
    BY <2>2 DEF BackoffTick, Silent, Tells
  <2>3. QED  BY <2>1, <2>2
<1>2. UNCHANGED <<state, timer, radio, fcnt, nb_trials, waiting_for_ack, tx_buf, activation, busy>>
  BY DEF LinkCheckRequest, BackoffTick, mcps_vars, phy_vars
<1>3. QED  BY <1>1, <1>2, UntoldGood

\* At rest nothing is in flight, so a request finds the MAC idle.
LEMMA RestIsIdle ==
    ASSUME TypeInv, ExchangeInv, AtRest
    PROVE  /\ state = "IDLE" /\ ~timer /\ mcps_open = "none" /\ ~join_open
           /\ ~InFlight /\ EventsLeft = 0
BY EventsLeftRange DEF ExchangeInv, OneExchange, InFlight, AtRest

LEMMA ResetGood ==
    ASSUME TypeInv, ExchangeInv, Record, AtRest, Reset
    PROVE  Good /\ Answered
<1>1. /\ state = "IDLE" /\ ~timer /\ mcps_open = "none" /\ ~join_open
      /\ ~InFlight /\ EventsLeft = 0
  BY RestIsIdle
<1>2. out' = Returns("reset", "SUCCESS")
  BY DEF Reset
<1>3. /\ mcps_open' = "none" /\ ~join_open' /\ UNCHANGED <<sends, verdict>>
  BY <1>1, <1>2 DEF Record, Deferred, IsReset, Returns, Silent
<1>4. /\ fcnt' = 0 /\ waiting_for_ack' = FALSE /\ tx_buf' = NoFrame
      /\ UNCHANGED <<state, busy, timer, radio>>
  BY DEF Reset, phy_vars
<1>5. ExchangeInv'
  BY <1>1, <1>3, <1>4, MacAssumption
  DEF ExchangeInv, PhyMatchesState, OneExchange, InFlight, AtRest, FrameOfExchange,
      RetriesAccounted, LockedInFlight
<1>6. ServiceStep /\ DeviceStep
  BY <1>1, <1>3, <1>4 DEF ServiceStep, DeviceStep, WindowPhase
<1>7. AdvanceStep
  <2>1. EventsLeft' = 0
    BY <1>1, <1>4 DEF EventsLeft, Position, InFlight
  <2>2. QED  BY <1>1, <1>4, <2>1 DEF AdvanceStep
<1>8. Answered
  BY <1>1, <1>2, <1>3, <1>4
  DEF Answered, ConfirmStep, JoinConfirmStep, Returns, Silent, RestIffAnswered, AtRest, InFlight
<1>9. QED  BY <1>5, <1>6, <1>7, <1>8 DEF Good

LEMMA AcceptGood ==
    ASSUME TypeInv, ExchangeInv, Record, AtRest,
           NEW type \in DataType, NEW data \in Payloads, McpsAccept(type, data)
    PROVE  Good /\ Answered
<1>1. /\ state = "IDLE" /\ ~timer /\ mcps_open = "none" /\ ~join_open
      /\ ~InFlight /\ EventsLeft = 0
  BY RestIsIdle
<1>2. /\ out'.call = "mcps" /\ out'.status = "DEFERRED" /\ out'.mcps_status = "none"
      /\ out'.join = "none" /\ out'.tx = "uplink"
  BY DEF McpsAccept, Returns, Silent
<1>3. /\ tx_buf'.fcnt = fcnt /\ tx_buf'.confirmed = (type = "CONFIRMED")
      /\ tx_buf' \in Uplink /\ tx_buf' # NoFrame
  <2>1. tx_buf' \in Uplink
    BY DEF McpsAccept, BuildUplink, Uplink, TypeInv, MacTypeInv, MacTypeOK
  <2>2. QED  BY <2>1, MacAssumption DEF McpsAccept, BuildUplink
<1>4. /\ mcps_open' = type /\ ~join_open' /\ sends' = 1 /\ verdict' = "none"
  BY <1>1, <1>2, <1>3 DEF Record, Deferred, IsReset, DataType
<1>5. /\ fcnt < MaxFcnt /\ activation # "NONE" /\ busy' = TRUE /\ state' = "TX" /\ radio' = "tx"
      /\ waiting_for_ack' = (type = "CONFIRMED") /\ nb_trials' = RETX
      /\ UNCHANGED <<fcnt, timer, activation>>
  BY DEF McpsAccept, SendPkt, mlme_vars
<1>6. fcnt \in Nat /\ RETX \in Nat /\ MaxFcnt \in Nat
  BY FcntAssumption, MacAssumption DEF TypeInv, MacTypeInv, MacTypeOK, Fcnt32
<1>7. PhyMatchesState' /\ LockedInFlight' /\ RetriesAccounted'
  BY <1>1, <1>4, <1>5, <1>6 DEF PhyMatchesState, LockedInFlight, RetriesAccounted
<1>8. OneExchange'
  BY <1>1, <1>4, <1>5 DEF OneExchange, InFlight, AtRest, DataType
<1>9. FrameOfExchange'
  BY <1>1, <1>3, <1>4, <1>5, <1>6 DEF FrameOfExchange, DataType
<1>10. ServiceStep
  BY <1>1, <1>4 DEF ServiceStep, Service!Next, Service!Accept, DataType
<1>11. DeviceStep
  BY <1>1, <1>5 DEF DeviceStep, Device!Next, Device!Transmit, WindowPhase
<1>12. AdvanceStep
  <2>1. Position' = 5
    BY <1>5 DEF Position
  <2>2. EventsLeft' <= 6 * RETX + 5
    BY <1>5, <1>6, <2>1 DEF EventsLeft
  <2>3. QED  BY <1>1, <2>2 DEF AdvanceStep
<1>13. Answered
  BY <1>2, <1>4, <1>5
  DEF Answered, ConfirmStep, JoinConfirmStep, RestIffAnswered, AtRest, InFlight, DataType
<1>14. QED  BY <1>7, <1>8, <1>9, <1>10, <1>11, <1>12, <1>13 DEF Good, ExchangeInv

LEMMA JoinSendGood ==
    ASSUME TypeInv, ExchangeInv, Record, AtRest, JoinSend
    PROVE  Good /\ Answered
<1>1. /\ state = "IDLE" /\ ~timer /\ mcps_open = "none" /\ ~join_open
      /\ ~InFlight /\ EventsLeft = 0
  BY RestIsIdle
<1>2. /\ out'.call = "join" /\ out'.status = "DEFERRED" /\ out'.mcps_status = "none"
      /\ out'.join = "none" /\ out'.tx = "join"
  BY DEF JoinSend, Returns, Silent
<1>3. /\ mcps_open' = "none" /\ join_open' = TRUE /\ UNCHANGED <<sends, verdict>>
  BY <1>1, <1>2 DEF Record, Deferred, IsReset
<1>4. /\ fcnt < MaxFcnt /\ activation = "NONE" /\ busy' = TRUE /\ state' = "TX" /\ radio' = "tx"
      /\ UNCHANGED <<fcnt, nb_trials, waiting_for_ack, tx_buf, timer, activation>>
  BY DEF JoinSend, SendPkt, mcps_vars
<1>5. PhyMatchesState' /\ LockedInFlight' /\ RetriesAccounted'
  BY <1>1, <1>3, <1>4 DEF PhyMatchesState, LockedInFlight, RetriesAccounted
<1>6. OneExchange'
  BY <1>1, <1>3, <1>4 DEF ExchangeInv, OneExchange, InFlight, AtRest
<1>7. FrameOfExchange'
  BY <1>1, <1>3, <1>4 DEF ExchangeInv, FrameOfExchange
<1>8. ServiceStep
  BY <1>1, <1>3, <1>4 DEF ServiceStep
<1>9. DeviceStep
  BY <1>1, <1>4 DEF DeviceStep, Device!Next, Device!Transmit, WindowPhase
<1>10. AdvanceStep
  <2>1. Position' = 5 /\ ~waiting_for_ack'
    BY <1>1, <1>4 DEF Position, ExchangeInv, OneExchange
  <2>2. EventsLeft' = 5
    BY <2>1 DEF EventsLeft
  <2>3. QED  BY <1>1, <2>2, EventsLeftRange DEF AdvanceStep
<1>11. Answered
  BY <1>2, <1>3, <1>4
  DEF Answered, ConfirmStep, JoinConfirmStep, RestIffAnswered, AtRest, InFlight
<1>12. QED  BY <1>5, <1>6, <1>7, <1>8, <1>9, <1>10, <1>11 DEF Good, ExchangeInv

-----------------------------------------------------------------------------
(* Radio and timer events within an exchange *)

LEMMA TxCompleteGood ==
    ASSUME TypeInv, ExchangeInv, Record, TxComplete
    PROVE  Good /\ Answered
<1>1. state = "TX" /\ ~timer
  BY DEF TxComplete, ExchangeInv, PhyMatchesState, TypeInv, MacTypeInv, MacTypeOK, MacState
<1>2. UNCHANGED <<mcps_open, join_open, sends, verdict>>
  <2>1. ~Tells(out')
    BY DEF TxComplete, Silent, Tells
  <2>2. QED  BY <2>1, RecordUntold
<1>3. /\ state' = "RX_1" /\ timer' = TRUE /\ radio' = "sleep"
      /\ UNCHANGED <<busy, fcnt, nb_trials, waiting_for_ack, tx_buf, activation>>
  BY DEF TxComplete, mcps_vars, mlme_vars
<1>4. ExchangeInv'
  BY <1>1, <1>2, <1>3
  DEF ExchangeInv, PhyMatchesState, OneExchange, InFlight, AtRest, FrameOfExchange,
      RetriesAccounted, LockedInFlight
<1>5. ServiceStep
  BY <1>2, <1>3 DEF ServiceStep
<1>6. DeviceStep
  BY <1>1, <1>3 DEF DeviceStep, Device!Next, Device!EndTransmit, WindowPhase
<1>7. AdvanceStep
  BY <1>1, <1>3, EventsLeftRange DEF AdvanceStep, EventsLeft, Position, InFlight
<1>8. Answered
  BY <1>1, <1>2, <1>3
  DEF TxComplete, Silent, Answered, ConfirmStep, JoinConfirmStep, RestIffAnswered, AtRest, InFlight
<1>9. QED  BY <1>4, <1>5, <1>6, <1>7, <1>8 DEF Good

LEMMA RetransmitGood ==
    ASSUME TypeInv, ExchangeInv, Record, timer, Retransmit,
           UNCHANGED <<busy, mcps_vars, mlme_vars>>
    PROVE  Good /\ Answered
<1>1. /\ state = "IDLE" /\ waiting_for_ack /\ mcps_open = "CONFIRMED" /\ ~join_open
      /\ tx_buf # NoFrame /\ sends >= 1 /\ activation # "NONE" /\ fcnt < MaxFcnt
      /\ sends + nb_trials = RETX
  BY DEF Retransmit, ExchangeInv, OneExchange, InFlight, FrameOfExchange, RetriesAccounted, AtRest
<1>2. out'.call = "none" /\ out'.mcps_status = "none" /\ out'.join = "none" /\ out'.tx = "uplink"
  BY <1>1 DEF Retransmit, Silent
<1>3. mcps_open' = "CONFIRMED" /\ ~join_open' /\ sends' = sends + 1 /\ UNCHANGED verdict
  BY <1>1, <1>2 DEF Record, Deferred, IsReset
<1>4. /\ state' = "TX" /\ radio' = "tx" /\ timer' = FALSE
      /\ UNCHANGED <<busy, fcnt, nb_trials, waiting_for_ack, tx_buf, activation>>
  BY DEF Retransmit, SendPkt, mcps_vars, mlme_vars
<1>5. sends \in Nat /\ nb_trials \in Int /\ nb_trials >= 0 /\ RETX \in Nat
  BY <1>1, MacAssumption DEF TypeInv, MacTypeInv, MacTypeOK, LedgerTypeOK
<1>6. PhyMatchesState' /\ RetriesAccounted' /\ LockedInFlight'
  BY <1>1, <1>3, <1>4, <1>5 DEF PhyMatchesState, RetriesAccounted, LockedInFlight
<1>7. OneExchange' /\ FrameOfExchange'
  BY <1>1, <1>3, <1>4, <1>5
  DEF ExchangeInv, OneExchange, InFlight, AtRest, FrameOfExchange
<1>8. ServiceStep
  BY <1>1, <1>3, <1>5 DEF ServiceStep, Service!Next, Service!Resend
<1>9. DeviceStep
  BY <1>1, <1>4 DEF DeviceStep, Device!Next, Device!Transmit, WindowPhase
<1>10. AdvanceStep
  BY <1>1, <1>4, EventsLeftRange DEF AdvanceStep, EventsLeft, Position, InFlight
<1>11. Answered
  BY <1>2, <1>3, <1>4
  DEF Answered, ConfirmStep, JoinConfirmStep, RestIffAnswered, AtRest, InFlight
<1>12. QED  BY <1>6, <1>7, <1>8, <1>9, <1>10, <1>11 DEF Good, ExchangeInv

LEMMA OpenRxWindowGood ==
    ASSUME TypeInv, ExchangeInv, Record, timer, OpenRxWindow,
           UNCHANGED <<busy, mcps_vars, mlme_vars>>
    PROVE  Good /\ Answered
<1>1. state = "RX_1" \/ state = "RX_2"
  BY DEF OpenRxWindow, ExchangeInv, PhyMatchesState, TypeInv, MacTypeInv, MacTypeOK, MacState
<1>2. UNCHANGED <<mcps_open, join_open, sends, verdict>>
  <2>1. ~Tells(out')
    BY DEF OpenRxWindow, Silent, Tells
  <2>2. QED  BY <2>1, RecordUntold
<1>3. /\ radio' = "rx" /\ timer' = (state = "RX_1")
      /\ UNCHANGED <<state, busy, fcnt, nb_trials, waiting_for_ack, tx_buf, activation>>
  BY DEF OpenRxWindow, mcps_vars, mlme_vars
<1>4. ExchangeInv'
  <2>1. PhyMatchesState'
    BY <1>1, <1>3 DEF PhyMatchesState
  <2>2. OneExchange' /\ FrameOfExchange' /\ RetriesAccounted' /\ LockedInFlight'
    BY <1>1, <1>2, <1>3
    DEF ExchangeInv, OneExchange, InFlight, AtRest, FrameOfExchange, RetriesAccounted,
        LockedInFlight
  <2>3. QED  BY <2>1, <2>2 DEF ExchangeInv
<1>5. ServiceStep
  BY <1>2, <1>3 DEF ServiceStep
<1>6. DeviceStep
  BY <1>1, <1>3
  DEF DeviceStep, Device!Next, Device!OpenFirst, Device!OpenSecond, WindowPhase, ExchangeInv,
      PhyMatchesState
<1>7. AdvanceStep
  <2>1. CASE radio = "rx"
    <3>1. state = "RX_1" /\ timer' = timer /\ radio' = radio
      BY <1>1, <1>3, <2>1 DEF ExchangeInv, PhyMatchesState, TypeInv, MacTypeInv, MacTypeOK
    <3>2. QED  BY <1>3, <3>1 DEF AdvanceStep, EventsLeft, Position, InFlight
  <2>2. CASE radio # "rx"
    <3>1. Position \in {2, 4} /\ Position' = Position - 1 /\ InFlight /\ InFlight'
      BY <1>1, <1>3, <2>2 DEF Position, InFlight
    <3>2. EventsLeft' < EventsLeft
      BY <1>3, <3>1, EventsLeftRange DEF EventsLeft
    <3>3. QED  BY <3>2 DEF AdvanceStep
  <2>3. QED  BY <2>1, <2>2
<1>8. Answered
  BY <1>1, <1>2, <1>3
  DEF OpenRxWindow, Silent, Answered, ConfirmStep, JoinConfirmStep, RestIffAnswered, AtRest,
      InFlight
<1>9. QED  BY <1>4, <1>5, <1>6, <1>7, <1>8 DEF Good

LEMMA Rx1TimeoutGood ==
    ASSUME TypeInv, ExchangeInv, Record, radio = "rx", Rx1Timeout, radio' = "sleep"
    PROVE  Good /\ Answered
<1>1. state = "RX_1" /\ timer
  BY DEF Rx1Timeout, ExchangeInv, PhyMatchesState
<1>2. UNCHANGED <<mcps_open, join_open, sends, verdict>>
  <2>1. ~Tells(out')
    BY DEF Rx1Timeout, Silent, Tells
  <2>2. QED  BY <2>1, RecordUntold
<1>3. /\ state' = "RX_2"
      /\ UNCHANGED <<busy, timer, fcnt, nb_trials, waiting_for_ack, tx_buf, activation>>
  BY DEF Rx1Timeout, mcps_vars, mlme_vars
<1>4. ExchangeInv'
  BY <1>1, <1>2, <1>3
  DEF ExchangeInv, PhyMatchesState, OneExchange, InFlight, AtRest, FrameOfExchange,
      RetriesAccounted, LockedInFlight
<1>5. ServiceStep
  BY <1>2, <1>3 DEF ServiceStep
<1>6. DeviceStep
  BY <1>1, <1>3 DEF DeviceStep, Device!Next, Device!CloseFirst, WindowPhase
<1>7. AdvanceStep
  BY <1>1, <1>3, EventsLeftRange DEF AdvanceStep, EventsLeft, Position, InFlight
<1>8. Answered
  BY <1>1, <1>2, <1>3
  DEF Rx1Timeout, Silent, Answered, ConfirmStep, JoinConfirmStep, RestIffAnswered, AtRest,
      InFlight
<1>9. QED  BY <1>4, <1>5, <1>6, <1>7, <1>8 DEF Good

-----------------------------------------------------------------------------
(* The end of a window, of an exchange *)

LEMMA McpsConfirmMakes ==
    ASSUME NEW event, NEW ack, NEW o \in Out, ~Retries(event, ack)
    PROVE  LET c == McpsConfirm(event, ack, o)
           IN  /\ c.mcps_type = IF waiting_for_ack THEN "CONFIRMED" ELSE "UNCONFIRMED"
               /\ c.mcps_status = IF Unacked(event, ack) THEN "ETIMEDOUT" ELSE "SUCCESS"
<1>1. ASSUME NEW t, NEW s
      PROVE  LET c == [o EXCEPT !.mcps_type = t, !.mcps_status = s]
             IN  c.mcps_type = t /\ c.mcps_status = s
  BY DEF Out
<1>2. QED  BY <1>1 DEF McpsConfirm

LEMMA NextFcnt ==
    ASSUME TypeInv, fcnt < MaxFcnt
    PROVE  (fcnt + 1) % FCNT32 = fcnt + 1
<1>1. fcnt \in Nat /\ fcnt + 1 < FCNT32 /\ FCNT32 \in Nat
  BY FcntAssumption, MacAssumption DEF TypeInv, MacTypeInv, MacTypeOK, Fcnt32
<1>2. QED  BY <1>1

\* The end of a window of a data exchange: a retransmission or the confirm.
LEMMA DataEventGood ==
    ASSUME TypeInv, ExchangeInv, Record, mcps_open # "none", radio = "rx",
           NEW event, NEW ack, NEW o \in Out,
           o.call = "none", o.status = "none", o.mcps_status = "none", o.join = "none",
           o.tx = "none",
           McpsEvent(event, ack, FALSE), out' = McpsConfirm(event, ack, o),
           state' = "IDLE", radio' = "sleep", busy' = FALSE, UNCHANGED <<tx_buf, activation>>
    PROVE  Good /\ Answered
<1> state \in {"RX_1", "RX_2"} /\ DeviceStep
  BY WindowFinishes
<1> InFlight
  BY DEF InFlight
<1>1. /\ ~join_open /\ activation # "NONE" /\ fcnt < MaxFcnt /\ tx_buf # NoFrame /\ sends >= 1
      /\ waiting_for_ack <=> mcps_open = "CONFIRMED"
      /\ mcps_open = "CONFIRMED" => sends + nb_trials = RETX + 1
  BY DEF ExchangeInv, OneExchange, FrameOfExchange, RetriesAccounted, AtRest
<1>2. /\ sends \in Nat /\ nb_trials \in Int /\ RETX \in Nat /\ fcnt \in Nat /\ MaxFcnt \in Nat
      /\ waiting_for_ack => nb_trials >= 0
      /\ mcps_open \in {"CONFIRMED", "UNCONFIRMED"}
  BY MacAssumption, FcntAssumption
  DEF TypeInv, MacTypeInv, MacTypeOK, LedgerTypeOK, Fcnt32, DataType
<1>3. /\ out'.call = "none" /\ out'.status = "none" /\ out'.join = "none" /\ out'.tx = "none"
  BY McpsConfirmKeeps
<1>4. tx_buf \in Uplink /\ tx_buf.fcnt \in Nat /\ tx_buf.fcnt <= fcnt
  BY <1>1, FcntAssumption
  DEF TypeInv, MacTypeInv, MacTypeOK, ExchangeInv, FrameOfExchange, Uplink, Fcnt32
<1>5. CASE Retries(event, ack)
  <2>1. /\ waiting_for_ack /\ nb_trials > 0 /\ nb_trials' = nb_trials - 1 /\ timer' = TRUE
        /\ waiting_for_ack' = waiting_for_ack /\ fcnt' = fcnt
    BY <1>5, Zenon DEF McpsEvent, Retries, Unacked
  <2>2. out'.mcps_status = "none"
    BY <1>5 DEF McpsConfirm
  <2>3. UNCHANGED <<mcps_open, join_open, sends, verdict>>
    <3>1. ~Tells(out')
      BY <1>3, <2>2 DEF Tells
    <3>2. QED  BY <3>1, RecordUntold
  <2>4. PhyMatchesState' /\ LockedInFlight'
    BY <2>1 DEF PhyMatchesState, LockedInFlight
  <2>5. OneExchange' /\ FrameOfExchange' /\ RetriesAccounted'
    BY <1>1, <1>2, <1>4, <2>1, <2>3
    DEF OneExchange, InFlight, AtRest, FrameOfExchange, RetriesAccounted
  <2>6. ServiceStep
    BY <2>3 DEF ServiceStep
  <2>7. AdvanceStep
    <3>1. Position \in {1, 2, 3, 4} /\ Position' = 6 /\ InFlight'
      BY <2>1 DEF Position, InFlight
    <3>2. EventsLeft' = 6 + 6 * (nb_trials - 1) /\ EventsLeft = Position + 6 * nb_trials
      BY <2>1, <3>1 DEF EventsLeft
    <3>3. QED  BY <1>2, <3>1, <3>2 DEF AdvanceStep
  <2>8. Answered
    BY <1>1, <1>3, <2>1, <2>2, <2>3
    DEF Answered, ConfirmStep, JoinConfirmStep, RestIffAnswered, AtRest, InFlight
  <2>9. QED  BY <2>4, <2>5, <2>6, <2>7, <2>8 DEF Good, ExchangeInv
<1>6. CASE ~Retries(event, ack)
  <2>1. /\ timer' = FALSE /\ waiting_for_ack' = FALSE /\ fcnt' = fcnt + 1
    BY <1>1, <1>6, NextFcnt DEF McpsEvent, EndOfTx
  <2>2. /\ out'.mcps_type = mcps_open
        /\ out'.mcps_status = IF Unacked(event, ack) THEN "ETIMEDOUT" ELSE "SUCCESS"
    BY <1>1, <1>2, <1>6, McpsConfirmMakes
  <2>3. out'.mcps_status # "none" /\ out'.mcps_status # "DEFERRED"
    BY <2>2
  <2>4. mcps_open' = "none" /\ ~join_open' /\ sends' = sends /\ verdict' = out'.mcps_status
    BY <1>1, <1>3, <2>3 DEF Record, Deferred, IsReset
  <2>5. PhyMatchesState' /\ LockedInFlight' /\ RetriesAccounted'
    BY <2>1, <2>4 DEF PhyMatchesState, LockedInFlight, RetriesAccounted
  <2>6. OneExchange'
    BY <2>1, <2>4 DEF OneExchange, InFlight, AtRest
  <2>7. FrameOfExchange'
    BY <1>1, <1>2, <1>4, <2>1, <2>4 DEF FrameOfExchange, InFlight
  <2>8. ServiceStep
    <3>1. Unacked(event, ack) => mcps_open = "CONFIRMED" /\ sends = RETX + 1
      BY <1>1, <1>2, <1>6 DEF Unacked, Retries
    <3>2. QED  BY <1>2, <2>2, <2>4, <3>1 DEF ServiceStep, Service!Next, Service!Answer
  <2>9. AdvanceStep /\ ~InFlight'
    BY <2>1, EndAdvances
  <2>10. Answered
    BY <1>3, <2>2, <2>4, <2>9
    DEF Answered, ConfirmStep, JoinConfirmStep, RestIffAnswered, AtRest
  <2>11. QED  BY <2>5, <2>6, <2>7, <2>8, <2>9, <2>10 DEF Good, ExchangeInv
<1>7. QED  BY <1>5, <1>6

\* The end of a join exchange, with its confirm or, behind a foreign frame,
\* without it.
LEMMA JoinEndGood ==
    ASSUME TypeInv, ExchangeInv, Record, join_open, radio = "rx",
           out'.call = "none", out'.status = "none", out'.tx = "none",
           state' = "IDLE", radio' = "sleep", timer' = FALSE, waiting_for_ack' = FALSE,
           UNCHANGED tx_buf, fcnt' = fcnt \/ fcnt' = fcnt + 1,
           out'.join # "none" \/ UNCHANGED activation
    PROVE  Good /\ (out'.join # "none" => Answered)
<1> state \in {"RX_1", "RX_2"} /\ DeviceStep
  BY WindowFinishes
<1> InFlight
  BY DEF InFlight
<1> AdvanceStep /\ ~InFlight'
  BY EndAdvances
<1>1. /\ mcps_open = "none" /\ fcnt < MaxFcnt /\ activation = "NONE"
      /\ tx_buf # NoFrame => tx_buf.fcnt < fcnt
  BY DEF ExchangeInv, OneExchange, FrameOfExchange, AtRest
<1>2. fcnt \in Nat /\ MaxFcnt \in Nat /\ (tx_buf # NoFrame => tx_buf.fcnt \in Nat)
  BY MacAssumption, FcntAssumption DEF TypeInv, MacTypeInv, MacTypeOK, Fcnt32, Uplink
<1>3. /\ mcps_open' = "none" /\ UNCHANGED <<sends, verdict>>
      /\ join_open' => out'.join = "none"
  BY <1>1 DEF Record, Deferred, IsReset
<1>4. PhyMatchesState' /\ LockedInFlight' /\ RetriesAccounted' /\ OneExchange'
  BY <1>1, <1>3
  DEF PhyMatchesState, LockedInFlight, RetriesAccounted, OneExchange, InFlight, AtRest
<1>5. FrameOfExchange'
  BY <1>1, <1>2, <1>3 DEF FrameOfExchange
<1>6. ServiceStep
  BY <1>1, <1>3 DEF ServiceStep
<1>7. out'.join # "none" => Answered
  BY <1>3 DEF Answered, ConfirmStep, JoinConfirmStep, RestIffAnswered, AtRest
<1>8. QED  BY <1>4, <1>5, <1>6, <1>7 DEF Good, ExchangeInv

\* A foreign frame ends a data exchange without an event: its confirm is lost,
\* and waiting_for_ack keeps the value the request gave it.
LEMMA DataLostGood ==
    ASSUME TypeInv, ExchangeInv, Record, mcps_open # "none", radio = "rx",
           out'.call = "none", out'.status = "none", out'.mcps_status = "none",
           out'.tx = "none",
           state' = "IDLE", radio' = "sleep", timer' = FALSE,
           UNCHANGED <<fcnt, waiting_for_ack, tx_buf, activation>>
    PROVE  Good
<1> state \in {"RX_1", "RX_2"} /\ DeviceStep
  BY WindowFinishes
<1> InFlight
  BY DEF InFlight
<1> AdvanceStep /\ ~InFlight'
  BY EndAdvances
<1>1. UNCHANGED <<mcps_open, sends, verdict>> /\ ~join_open'
  BY DEF Record, Deferred, IsReset, ExchangeInv, OneExchange
<1>2. PhyMatchesState' /\ LockedInFlight' /\ RetriesAccounted'
  BY DEF PhyMatchesState, LockedInFlight, RetriesAccounted
<1>3. OneExchange'
  BY <1>1 DEF ExchangeInv, OneExchange
<1>4. FrameOfExchange'
  BY <1>1 DEF ExchangeInv, FrameOfExchange
<1>5. ServiceStep
  BY <1>1 DEF ServiceStep
<1>6. QED  BY <1>2, <1>3, <1>4, <1>5 DEF Good, ExchangeInv

LEMMA Rx2TimeoutGood ==
    ASSUME TypeInv, ExchangeInv, Record, radio = "rx", Rx2Timeout, radio' = "sleep"
    PROVE  Good /\ Answered
<1>1. state # "IDLE" /\ ~timer
  BY DEF Rx2Timeout, ExchangeInv, PhyMatchesState
<1>2. McpsEvent("NO_RX", FALSE, FALSE)
  <2>1. timer = FALSE
    BY <1>1 DEF TypeInv, MacTypeInv, MacTypeOK
  <2>2. QED  BY <2>1 DEF Rx2Timeout
<1>3. /\ state' = "IDLE" /\ busy' = FALSE /\ UNCHANGED <<tx_buf, activation>>
      /\ out' = McpsConfirm("NO_RX", FALSE, MlmeNoRxConfirm)
  BY DEF Rx2Timeout
<1>4. mcps_open # "none" \/ join_open
  BY <1>1 DEF ExchangeInv, OneExchange, InFlight, AtRest
<1>5. MlmeNoRxConfirm \in Out /\ MlmeNoRxConfirm.mcps_status = "none"
  BY MlmeNoRxConfirmFields DEF MlmeNoRxConfirm, Silent
<1>6. CASE mcps_open # "none"
  <2>1. activation # "NONE"
    BY <1>6 DEF ExchangeInv, OneExchange
  <2>2. MlmeNoRxConfirm.join = "none"
    BY <2>1, MlmeNoRxConfirmFields
  <2>3. QED
    BY <1>2, <1>3, <1>5, <1>6, <2>2, MlmeNoRxConfirmFields, DataEventGood
<1>7. CASE join_open
  <2>1. activation = "NONE" /\ ~waiting_for_ack /\ fcnt < MaxFcnt
    BY <1>1, <1>7 DEF ExchangeInv, OneExchange, FrameOfExchange, InFlight
  <2>2. timer' = FALSE /\ waiting_for_ack' = FALSE /\ fcnt' = fcnt + 1
    BY <1>2, <2>1, NextFcnt DEF McpsEvent, EndOfTx, Retries, Unacked
  <2>3. MlmeNoRxConfirm.join = "ETIMEDOUT"
    BY <2>1, MlmeNoRxConfirmFields
  <2>4. /\ out'.call = MlmeNoRxConfirm.call /\ out'.status = MlmeNoRxConfirm.status
        /\ out'.join = MlmeNoRxConfirm.join /\ out'.tx = MlmeNoRxConfirm.tx
    BY <1>3, <1>5, McpsConfirmKeeps
  <2>5. QED
    BY <1>3, <1>7, <2>2, <2>3, <2>4, MlmeNoRxConfirmFields, JoinEndGood
<1>8. QED  BY <1>4, <1>6, <1>7

-----------------------------------------------------------------------------
(* Received frames *)

\* A frame received within a data exchange: expected, it brings or drops a
\* downlink; foreign, it ends the exchange.
LEMMA DataPktGood ==
    ASSUME TypeInv, ExchangeInv, Record, NEW f \in Frames, ProcessPkt(f), mcps_open # "none"
    PROVE  Good /\ (Expected(f) => Answered)
<1>1. /\ radio = "rx" /\ state' = "IDLE" /\ radio' = "sleep" /\ busy' = FALSE
      /\ activation # "NONE"
  BY DEF ProcessPkt, ExchangeInv, OneExchange
<1>2. CASE f.mtype \in {"CNF_DOWNLINK", "UNCNF_DOWNLINK"}
  <2>1. McpsProcessDownlink(f)
    BY <1>2 DEF ProcessPkt
  <2>2. UNCHANGED <<tx_buf, activation>>
    BY <2>1 DEF McpsProcessDownlink
  <2>3. QED  BY <1>1, <2>1, <2>2, DownlinkReports, DataEventGood
<1>3. CASE f.mtype \in {"JOIN_ACCEPT", "OTHER"}
  <2>1. /\ ~Expected(f) /\ timer' = FALSE
        /\ MlmeProcessJoin(f) \/ (UNCHANGED <<mcps_vars, mlme_vars>> /\ out' = Silent)
    <3>1. CASE f.mtype = "JOIN_ACCEPT"
      BY <1>1, <3>1 DEF ProcessPkt, Expected
    <3>2. CASE f.mtype = "OTHER"
      BY <1>1, <3>2 DEF ProcessPkt, Expected
    <3>3. QED  BY <1>3, <3>1, <3>2
  <2>2. UNCHANGED <<fcnt, waiting_for_ack, tx_buf, activation>>
    BY <1>1, <2>1 DEF MlmeProcessJoin, mcps_vars, mlme_vars
  <2>3. out'.call = "none" /\ out'.status = "none" /\ out'.mcps_status = "none" /\ out'.tx = "none"
    BY <2>1 DEF MlmeProcessJoin, Silent
  <2>4. QED  BY <1>1, <2>1, <2>2, <2>3, DataLostGood
<1>4. QED  BY <1>2, <1>3, MacAssumption DEF DownFrame, MType

\* A frame received within a join exchange: expected, it is a join accept and
\* confirms the join; foreign, it ends the exchange without the confirm.
LEMMA JoinPktGood ==
    ASSUME TypeInv, ExchangeInv, Record, NEW f \in Frames, ProcessPkt(f), join_open
    PROVE  Good /\ (Expected(f) => Answered)
<1>1. /\ radio = "rx" /\ state' = "IDLE" /\ radio' = "sleep"
      /\ activation = "NONE" /\ waiting_for_ack = FALSE
  BY DEF ProcessPkt, ExchangeInv, OneExchange, TypeInv, MacTypeInv, MacTypeOK
<1>2. CASE f.mtype = "JOIN_ACCEPT"
  <2>1. MlmeProcessJoin(f) /\ timer' = FALSE
    BY <1>2 DEF ProcessPkt
  <2>2. UNCHANGED <<fcnt, waiting_for_ack, tx_buf>>
    BY <2>1 DEF MlmeProcessJoin, mcps_vars
  <2>3. out'.call = "none" /\ out'.status = "none" /\ out'.join # "none" /\ out'.tx = "none"
    BY <2>1 DEF MlmeProcessJoin, Silent
  <2>4. QED  BY <1>1, <2>1, <2>2, <2>3, JoinEndGood
<1>3. CASE f.mtype \in {"CNF_DOWNLINK", "UNCNF_DOWNLINK"}
  <2>1. McpsProcessDownlink(f) /\ ~Expected(f)
    BY <1>1, <1>3 DEF ProcessPkt, Expected
  <2>2. UNCHANGED <<tx_buf, activation>>
    BY <2>1 DEF McpsProcessDownlink
  <2>3. PICK event \in {"RX", "NO_RX"}, ack \in BOOLEAN, o \in Out :
          /\ o.call = "none" /\ o.status = "none" /\ o.join = "none" /\ o.tx = "none"
          /\ McpsEvent(event, ack, FALSE) /\ out' = McpsConfirm(event, ack, o)
    BY <2>1, DownlinkReports
  <2>4. timer' = FALSE /\ waiting_for_ack' = FALSE /\ fcnt' = fcnt + 1
    <3>1. fcnt < MaxFcnt
      BY <1>1 DEF ExchangeInv, FrameOfExchange, PhyMatchesState, InFlight
    <3>2. QED  BY <1>1, <2>3, <3>1, NextFcnt DEF McpsEvent, EndOfTx, Retries, Unacked
  <2>5. out'.call = "none" /\ out'.status = "none" /\ out'.tx = "none"
    BY <2>3, McpsConfirmKeeps
  <2>6. QED  BY <1>1, <2>1, <2>2, <2>4, <2>5, JoinEndGood
<1>4. CASE f.mtype = "OTHER"
  <2>1. /\ ~Expected(f) /\ timer' = FALSE /\ out' = Silent
        /\ UNCHANGED <<fcnt, waiting_for_ack, tx_buf, activation>>
    BY <1>1, <1>4 DEF ProcessPkt, Expected, mcps_vars, mlme_vars
  <2>2. out'.call = "none" /\ out'.status = "none" /\ out'.tx = "none" /\ waiting_for_ack' = FALSE
    BY <1>1, <2>1 DEF Silent
  <2>3. QED  BY <1>1, <2>1, <2>2, JoinEndGood
<1>5. QED  BY <1>2, <1>3, <1>4, MacAssumption DEF DownFrame, MType

LEMMA ProcessPktGood ==
    ASSUME TypeInv, ExchangeInv, Record, NEW f \in Frames, ProcessPkt(f)
    PROVE  Good /\ (Expected(f) => Answered)
<1>1. mcps_open # "none" \/ join_open
  BY DEF ProcessPkt, ExchangeInv, PhyMatchesState, OneExchange, InFlight, AtRest
<1>2. QED  BY <1>1, DataPktGood, JoinPktGood

-----------------------------------------------------------------------------
(* Frame counters, when a reset may come in the middle of an exchange *)

\* The counter is past those that have served a frame, but for the frame of the
\* exchange under way; that is the one in tx_buf if it may be sent again, and
\* the timer of a retransmission runs for nothing else.
FreshInv ==
    /\ fcnt <= MaxFcnt
    /\ InFlight => fcnt < MaxFcnt
    /\ state = "RX_2" /\ radio = "rx" => ~timer
    /\ state = "IDLE" /\ timer => waiting_for_ack \/ tx_buf = NoFrame
    /\ waiting_for_ack => /\ mcps_open # "none" /\ activation # "NONE"
                          /\ tx_buf # NoFrame /\ tx_buf.fcnt + 1 = used
    /\ used <= fcnt + (IF mcps_open = "none" THEN 0 ELSE 1)
    /\ activation = "OTAA" => spent = 0

FrameStep ==
    out'.tx = "uplink" =>
        /\ tx_buf'.fcnt >= used \/ (tx_buf' = tx_buf /\ tx_buf.fcnt + 1 = used)
        /\ activation = "OTAA" => tx_buf'.fcnt >= spent

LEMMA CountersAreNat ==
    ASSUME TypeInv
    PROVE  /\ fcnt \in Nat /\ MaxFcnt \in Nat /\ used \in Nat /\ spent \in Nat
           /\ tx_buf # NoFrame => tx_buf.fcnt \in Nat
BY FcntAssumption, MacAssumption
DEF TypeInv, MacTypeInv, MacTypeOK, LedgerTypeOK, Uplink, Fcnt32

\* A step that sends no frame, and neither counts nor confirms.
LEMMA FreshKept ==
    ASSUME TypeInv, FreshInv, Record, out'.mcps_status = "none", out'.call # "reset",
           out'.join # "SUCCESS", out'.tx # "uplink",
           UNCHANGED <<fcnt, tx_buf, waiting_for_ack>>,
           activation' = activation \/ (~waiting_for_ack /\ activation' # "OTAA"),
           InFlight' => fcnt < MaxFcnt,
           state' = "RX_2" /\ radio' = "rx" => ~timer',
           state' = "IDLE" /\ timer' => waiting_for_ack \/ tx_buf = NoFrame
    PROVE  FreshInv' /\ FrameStep
<1>1. mcps_open' = "none" => mcps_open = "none"
  BY DEF Record, Deferred, IsReset
<1>2. UNCHANGED <<used, spent>>
  BY DEF Record, IsReset, NewKeys
<1>3. used' <= fcnt' + (IF mcps_open' = "none" THEN 0 ELSE 1)
  BY <1>1, <1>2, CountersAreNat DEF FreshInv
<1>4. QED  BY <1>1, <1>2, <1>3 DEF FreshInv, FrameStep

\* The event that ends a window: a retransmission is scheduled, or the counter
\* moves past the frame of tx_buf.
LEMMA FreshEvent ==
    ASSUME TypeInv, FreshInv, Record, state # "IDLE",
           NEW event, NEW ack, NEW o \in Out,
           o.call = "none", o.mcps_status = "none", o.join # "SUCCESS", o.tx = "none",
           McpsEvent(event, ack, FALSE), out' = McpsConfirm(event, ack, o),
           state' = "IDLE", UNCHANGED <<tx_buf, activation>>
    PROVE  FreshInv' /\ FrameStep
<1>1. fcnt < MaxFcnt /\ fcnt \in Nat /\ MaxFcnt \in Nat /\ used \in Nat
  BY CountersAreNat DEF FreshInv, InFlight
<1>2. out'.call = "none" /\ out'.join # "SUCCESS" /\ out'.tx = "none"
  BY McpsConfirmKeeps
<1>3. CASE Retries(event, ack)
  <2>1. waiting_for_ack /\ UNCHANGED <<fcnt, waiting_for_ack>>
    BY <1>3 DEF McpsEvent, Retries, Unacked
  <2>2. QED  BY <1>1, <1>2, <1>3, <2>1, FreshKept DEF McpsConfirm
<1>4. CASE ~Retries(event, ack)
  <2>1. timer' = FALSE /\ fcnt' = fcnt + 1 /\ waiting_for_ack' = FALSE
    BY <1>1, <1>4, NextFcnt DEF McpsEvent, EndOfTx
  <2>2. UNCHANGED <<used, spent>>
    BY <1>2 DEF Record, IsReset, NewKeys
  <2>3. QED  BY <1>1, <1>2, <2>1, <2>2 DEF FreshInv, InFlight, FrameStep
<1>5. QED  BY <1>3, <1>4

LEMMA FreshRequest ==
    ASSUME TypeInv, FreshInv, Record, AtRest, Request
    PROVE  FreshInv' /\ FrameStep
<1>1. ASSUME NEW type \in DataType, NEW data \in Payloads, McpsAccept(type, data)
      PROVE  FreshInv' /\ FrameStep
  <2>1. /\ tx_buf'.fcnt = fcnt /\ fcnt < MaxFcnt /\ UNCHANGED fcnt
        /\ state' = "TX" /\ tx_buf'.confirmed = (type = "CONFIRMED")
        /\ out'.call = "mcps" /\ out'.status = "DEFERRED"
        /\ out'.join = "none" /\ out'.tx = "uplink"
    BY <1>1 DEF McpsAccept, BuildUplink, SendPkt, Returns, Silent
  <2>2. tx_buf' # NoFrame /\ activation # "NONE" /\ UNCHANGED activation
    <3>1. tx_buf' \in Uplink
      BY <1>1 DEF McpsAccept, BuildUplink, Uplink, TypeInv, MacTypeInv, MacTypeOK
    <3>2. QED  BY <1>1, <3>1, MacAssumption DEF McpsAccept, mlme_vars
  <2>3. /\ mcps_open' # "none" /\ mcps_open = "none"
        /\ used' = tx_buf'.fcnt + 1 /\ UNCHANGED spent
    BY <2>1 DEF Record, Deferred, AtRest, IsReset, NewKeys
  <2>4. QED  BY <2>1, <2>2, <2>3, CountersAreNat DEF FreshInv, FrameStep
<1>2. ASSUME NEW fault \in RequestFault, McpsRefuse(fault)
      PROVE  FreshInv' /\ FrameStep
  <2>1. /\ out'.mcps_status = "none" /\ out'.call = "mcps"
        /\ out'.join = "none" /\ out'.tx = "none"
    BY <1>2 DEF McpsRefuse, Returns, Silent
  <2>2. QED
    BY <1>2, <2>1, FreshKept DEF McpsRefuse, mcps_vars, mlme_vars, FreshInv, InFlight
<1>3. CASE JoinRefuse
  <2>1. /\ out'.mcps_status = "none" /\ out'.call = "join"
        /\ out'.join = "none" /\ out'.tx = "none"
    BY <1>3 DEF JoinRefuse, Returns, Silent
  <2>2. QED
    BY <1>3, <2>1, FreshKept DEF JoinRefuse, mcps_vars, mlme_vars, FreshInv, InFlight
<1>4. CASE JoinSend
  <2>1. /\ out'.mcps_status = "none" /\ out'.call = "join"
        /\ out'.join = "none" /\ out'.tx = "join"
    BY <1>4 DEF JoinSend, Returns, Silent
  <2>2. QED
    BY <1>4, <2>1, FreshKept DEF JoinSend, SendPkt, mcps_vars
<1>5. ASSUME NEW a \in Activation, SetActivation(a)
      PROVE  FreshInv' /\ FrameStep
  <2>1. /\ out'.mcps_status = "none" /\ out'.call = "set"
        /\ out'.join = "none" /\ out'.tx = "none"
    BY <1>5 DEF SetActivation, Returns, Silent
  <2>2. ~waiting_for_ack /\ (activation' = activation \/ activation' # "OTAA")
    BY <1>5 DEF AtRest, FreshInv, SetActivation
  <2>3. QED
    BY <1>5, <2>1, <2>2, FreshKept DEF SetActivation, mcps_vars, phy_vars, FreshInv, InFlight
<1>6. QED  BY <1>1, <1>2, <1>3, <1>4, <1>5 DEF Request, McpsRequest, JoinRequest

\* A reset puts the counters used so far aside.
LEMMA FreshReset ==
    ASSUME TypeInv, FreshInv, Record, Reset
    PROVE  FreshInv' /\ FrameStep
<1>1. /\ fcnt' = 0 /\ tx_buf' = NoFrame /\ waiting_for_ack' = FALSE
      /\ activation' = "NONE" /\ UNCHANGED <<state, timer, radio>>
  BY DEF Reset, phy_vars
<1>2. IsReset /\ out'.tx = "none"
  BY DEF Reset, IsReset, Returns, Silent
<1>3. used' = 0
  BY <1>2 DEF Record
<1>4. QED  BY <1>1, <1>2, <1>3, CountersAreNat DEF FreshInv, InFlight, FrameStep

LEMMA FreshReceive ==
    ASSUME TypeInv, FreshInv, RadioFollowsState, Record, NEW f \in Frames, ProcessPkt(f)
    PROVE  FreshInv' /\ FrameStep
<1>1. radio = "rx" /\ state # "IDLE" /\ state' = "IDLE" /\ radio' = "sleep"
  BY DEF ProcessPkt, RadioFollowsState
<1>2. CASE McpsProcessDownlink(f)
  <2>1. UNCHANGED <<tx_buf, activation>>
    BY <1>2 DEF McpsProcessDownlink
  <2>2. QED  BY <1>1, <1>2, <2>1, DownlinkReports, FreshEvent
<1>3. CASE timer' = FALSE /\ MlmeProcessJoin(f)
  <2>1. out'.mcps_status = "none" /\ out'.call = "none" /\ out'.tx = "none"
    BY <1>3 DEF MlmeProcessJoin, Silent
  <2>2. UNCHANGED <<fcnt, tx_buf, waiting_for_ack>>
    BY <1>3 DEF MlmeProcessJoin, mcps_vars
  <2>3. CASE out'.join = "SUCCESS"
    <3>1. activation = "NONE"
      BY <1>3, <2>3 DEF MlmeProcessJoin, Silent
    <3>2. used' = 0 /\ spent' = 0
      BY <2>3 DEF Record, NewKeys
    <3>3. QED
      BY <1>1, <1>3, <2>1, <2>2, <3>1, <3>2, CountersAreNat DEF FreshInv, InFlight, FrameStep
  <2>4. CASE out'.join # "SUCCESS"
    <3>1. UNCHANGED activation
      BY <1>3, <2>4 DEF MlmeProcessJoin, Silent
    <3>2. QED  BY <1>1, <1>3, <2>1, <2>2, <2>4, <3>1, FreshKept DEF InFlight
  <2>5. QED  BY <2>3, <2>4
<1>4. CASE timer' = FALSE /\ out' = Silent /\ UNCHANGED <<mcps_vars, mlme_vars>>
  <2>1. /\ out'.mcps_status = "none" /\ out'.call = "none"
        /\ out'.join = "none" /\ out'.tx = "none"
    BY <1>4 DEF Silent
  <2>2. QED  BY <1>1, <1>4, <2>1, FreshKept DEF mcps_vars, mlme_vars, InFlight
<1>5. QED  BY <1>2, <1>3, <1>4 DEF ProcessPkt

\* The reports of the radio and the timer.
LEMMA FreshWindow ==
    ASSUME TypeInv, FreshInv, RadioFollowsState, Record, TxComplete \/ EventTimeout \/ TimerFired
    PROVE  FreshInv' /\ FrameStep
<1>1. CASE TxComplete
  <2>1. /\ out'.mcps_status = "none" /\ out'.call = "none"
        /\ out'.join = "none" /\ out'.tx = "none"
    BY <1>1 DEF TxComplete, Silent
  <2>2. InFlight
    BY <1>1 DEF TxComplete, RadioFollowsState, InFlight
  <2>3. QED
    BY <1>1, <2>1, <2>2, FreshKept DEF TxComplete, mcps_vars, mlme_vars, FreshInv
<1>2. CASE EventTimeout
  <2> radio = "rx" /\ state # "IDLE" /\ radio' = "sleep" /\ InFlight
    BY <1>2 DEF EventTimeout, RadioFollowsState, InFlight
  <2>1. CASE Rx1Timeout \/ UnexpectedTimeout
    <3>1. /\ out'.mcps_status = "none" /\ out'.call = "none"
          /\ out'.join = "none" /\ out'.tx = "none"
      BY <2>1 DEF Rx1Timeout, UnexpectedTimeout, Silent
    <3>2. state' # "IDLE" /\ UNCHANGED <<fcnt, tx_buf, waiting_for_ack, activation>>
      BY <2>1 DEF Rx1Timeout, UnexpectedTimeout, mcps_vars, mlme_vars
    <3>3. QED  BY <3>1, <3>2, FreshKept DEF FreshInv
  <2>2. CASE Rx2Timeout
    <3>1. timer = FALSE
      BY <2>2 DEF Rx2Timeout, FreshInv, TypeInv, MacTypeInv, MacTypeOK
    <3>2. /\ McpsEvent("NO_RX", FALSE, FALSE) /\ out' = McpsConfirm("NO_RX", FALSE, MlmeNoRxConfirm)
          /\ state' = "IDLE" /\ UNCHANGED <<tx_buf, activation>>
      BY <2>2, <3>1 DEF Rx2Timeout
    <3>3. /\ MlmeNoRxConfirm \in Out /\ MlmeNoRxConfirm.call = "none"
          /\ MlmeNoRxConfirm.mcps_status = "none" /\ MlmeNoRxConfirm.join # "SUCCESS"
          /\ MlmeNoRxConfirm.tx = "none"
      BY MlmeNoRxConfirmFields DEF MlmeNoRxConfirm, Silent
    <3>4. QED  BY <3>2, <3>3, FreshEvent
  <2>3. QED  BY <1>2, <2>1, <2>2 DEF EventTimeout
<1>3. CASE TimerFired
  <2>1. /\ out'.mcps_status = "none" /\ out'.call = "none" /\ out'.join = "none"
        /\ state' # "IDLE" /\ fcnt < MaxFcnt
        /\ UNCHANGED <<fcnt, tx_buf, waiting_for_ack, activation>>
    BY <1>3
    DEF TimerFired, Retransmit, OpenRxWindow, SendPkt, Silent, FreshInv, InFlight,
        mcps_vars, mlme_vars
  <2>2. CASE out'.tx # "uplink"
    BY <1>3, <2>1, <2>2, FreshKept DEF TimerFired, Retransmit, OpenRxWindow, SendPkt
  <2>3. CASE out'.tx = "uplink"
    <3>1. state = "IDLE" /\ timer /\ tx_buf # NoFrame /\ state' = "TX"
      BY <1>3, <2>3 DEF TimerFired, Retransmit, OpenRxWindow, SendPkt, Silent
    <3>2. waiting_for_ack /\ mcps_open # "none" /\ tx_buf.fcnt + 1 = used
      BY <3>1 DEF FreshInv
    <3>3. UNCHANGED <<mcps_open, used, spent>>
      BY <2>1, <2>3, <3>2 DEF Record, Deferred, IsReset, NewKeys
    <3>4. QED
      BY <2>1, <3>1, <3>2, <3>3, CountersAreNat DEF FreshInv, FrameStep, InFlight
  <2>4. QED  BY <2>2, <2>3
<1>4. QED  BY <1>1, <1>2, <1>3

LEMMA FreshNext ==
    ASSUME "overlapping_requests" \notin Disturbances, TypeInv, FreshInv, RadioFollowsState, Next
    PROVE  FreshInv' /\ FrameStep
<1>1. Record
  BY DEF Next
<1>2. CASE Request
  BY <1>1, <1>2, FreshRequest DEF Request
<1>3. CASE RequestReset
  BY <1>1, <1>3, FreshReset DEF RequestReset
<1>4. CASE LinkCheckRequest \/ BackoffTick
  <2>1. /\ out'.mcps_status = "none" /\ out'.call \in {"none", "link_check"}
        /\ out'.join = "none" /\ out'.tx = "none"
    <3>1. CASE LinkCheckRequest
      BY <3>1 DEF LinkCheckRequest, Returns, Silent
    <3>2. CASE BackoffTick
      BY <3>2 DEF BackoffTick, Silent
    <3>3. QED  BY <1>4, <3>1, <3>2
  <2>2. QED
    BY <1>1, <1>4, <2>1, FreshKept
    DEF LinkCheckRequest, BackoffTick, mcps_vars, phy_vars, FreshInv, InFlight
<1>5. CASE Receive
  BY <1>1, <1>5, FreshReceive DEF Receive
<1>6. CASE TxComplete \/ EventTimeout \/ TimerFired
  BY <1>1, <1>6, FreshWindow
<1>7. QED  BY <1>2, <1>3, <1>4, <1>5, <1>6 DEF Next

-----------------------------------------------------------------------------
(* The theorems *)

LEMMA OneRequestNext ==
    ASSUME Disturbances \subseteq {"foreign_frames"}, TypeInv, ExchangeInv, Next
    PROVE  Good /\ (Disturbances = {} => Answered)
<1>1. Record
  BY DEF Next
<1>2. CASE Request
  <2>1. AtRest
    BY <1>2 DEF Request
  <2>2. CASE McpsRequest
    BY <1>1, <2>1, <2>2, RefusedGood, AcceptGood DEF McpsRequest
  <2>3. CASE JoinRequest
    BY <1>1, <2>1, <2>3, RefusedGood, JoinSendGood DEF JoinRequest
  <2>4. CASE \E a \in Activation : SetActivation(a)
    BY <1>1, <2>1, <2>4, RefusedGood
  <2>5. QED  BY <1>2, <2>2, <2>3, <2>4 DEF Request
<1>3. CASE RequestReset
  BY <1>1, <1>3, ResetGood DEF RequestReset
<1>4. CASE LinkCheckRequest \/ BackoffTick
  BY <1>1, <1>4, MlmeGood
<1>5. CASE Receive
  BY <1>1, <1>5, ProcessPktGood DEF Receive
<1>6. CASE TxComplete
  BY <1>1, <1>6, TxCompleteGood
<1>7. CASE EventTimeout
  <2>1. CASE Rx1Timeout
    BY <1>1, <1>7, <2>1, Rx1TimeoutGood DEF EventTimeout
  <2>2. CASE Rx2Timeout
    BY <1>1, <1>7, <2>2, Rx2TimeoutGood DEF EventTimeout
  <2>3. ~UnexpectedTimeout
    BY <1>7 DEF EventTimeout, UnexpectedTimeout, ExchangeInv, PhyMatchesState, TypeInv,
                MacTypeInv, MacTypeOK, MacState
  <2>4. QED  BY <1>7, <2>1, <2>2, <2>3 DEF EventTimeout
<1>8. CASE TimerFired
  BY <1>1, <1>8, RetransmitGood, OpenRxWindowGood DEF TimerFired
<1>9. QED  BY <1>2, <1>3, <1>4, <1>5, <1>6, <1>7, <1>8 DEF Next

LEMMA InitExchange == Init => ExchangeInv /\ RestIffAnswered
BY MacAssumption
DEF Init, MacInit, ExchangeInv, PhyMatchesState, OneExchange, InFlight, AtRest,
    FrameOfExchange, RetriesAccounted, LockedInFlight, RestIffAnswered

LEMMA StutterExchange ==
    ASSUME UNCHANGED vars
    PROVE  /\ ExchangeInv => ExchangeInv'
           /\ RestIffAnswered => RestIffAnswered'
           /\ UNCHANGED <<mcps_open, sends, verdict, WindowPhase>>
BY DEF vars, mac_vars, mcps_vars, mlme_vars, phy_vars, ledger_vars, ExchangeInv,
       PhyMatchesState, OneExchange, InFlight, AtRest, FrameOfExchange,
       RetriesAccounted, LockedInFlight, RestIffAnswered, WindowPhase

\* For an upper layer that waits for its confirms, the library serves one
\* exchange at a time, whatever frames the network sends, the payloads and the
\* retransmission limit: the state machine, the radio, the timer, the lock,
\* tx_buf and the retransmissions left stay in step with the request.
THEOREM ExchangeCorrect ==
    ASSUME Disturbances \subseteq {"foreign_frames"}
    PROVE  Spec => []ExchangeInv
<1>1. TypeInv /\ ExchangeInv /\ [Next]_vars => ExchangeInv'
  BY OneRequestNext, StutterExchange DEF Good
<1>2. QED  BY <1>1, InitExchange, TypeInvariant, PTL DEF Spec

\* The assert(false) of gnrc_lorawan_event_timeout is out of reach.
THEOREM NoUnexpectedTimeout ==
    ASSUME Disturbances \subseteq {"foreign_frames"}
    PROVE  Spec => []TimeoutOnlyInWindow
<1>1. TypeInv /\ ExchangeInv => TimeoutOnlyInWindow
  BY DEF TypeInv, MacTypeInv, MacTypeOK, MacState, ExchangeInv, PhyMatchesState,
         TimeoutOnlyInWindow
<1>2. QED  BY <1>1, ExchangeCorrect, TypeInvariant, PTL

\* The retransmissions left and those made of a confirmed uplink add up.
THEOREM RetriesAddUp ==
    ASSUME Disturbances \subseteq {"foreign_frames"}
    PROVE  Spec => []RetriesAccounted
<1>1. ExchangeInv => RetriesAccounted
  BY DEF ExchangeInv
<1>2. QED  BY <1>1, ExchangeCorrect, PTL

\* The MAC is locked whenever it is not idle, but for a retransmission.
THEOREM LockedUnlessResent ==
    ASSUME Disturbances \subseteq {"foreign_frames"}
    PROVE  Spec => []LockedInFlight
<1>1. ExchangeInv => LockedInFlight
  BY DEF ExchangeInv
<1>2. QED  BY <1>1, ExchangeCorrect, PTL

\* An uplink goes out with a counter above those of all uplinks since the last
\* reset or accept, or is the last one again, even if the MAC is reset in the
\* middle of an exchange.  A reset lets a session by personalisation behind it
\* repeat counters under its keys; a session by join never does.
THEOREM FcntNotReused ==
    ASSUME "overlapping_requests" \notin Disturbances
    PROVE  Spec => OneFramePerFcnt
<1>1. Init => FreshInv
  BY MacAssumption DEF Init, MacInit, FreshInv, InFlight
<1>2. TypeInv /\ FreshInv /\ RadioFollowsState /\ [Next]_vars => FreshInv' /\ [FrameStep]_vars
  <2> SUFFICES ASSUME TypeInv, FreshInv, RadioFollowsState, [Next]_vars
               PROVE  FreshInv' /\ [FrameStep]_vars
    OBVIOUS
  <2>1. CASE Next
    BY <2>1, FreshNext
  <2>2. CASE UNCHANGED vars
    BY <2>2 DEF vars, mac_vars, mcps_vars, mlme_vars, phy_vars, ledger_vars, FreshInv, InFlight
  <2>3. QED  BY <2>1, <2>2
<1>3. QED  BY <1>1, <1>2, TypeInvariant, RadioCorrect, PTL
           DEF Spec, OneFramePerFcnt, FrameStep

\* Every exchange is bounded: with at most 6 * RETX + 5 reports ahead when it
\* begins and fewer behind each, it runs out of reports, confirmed or lost,
\* unless the radio or the timer stops reporting.
THEOREM ExchangeBounded ==
    ASSUME Disturbances \subseteq {"foreign_frames"}
    PROVE  Spec => ExchangeAdvances
<1>1. TypeInv /\ ExchangeInv /\ [Next]_vars =>
        [\/ EventsLeft' < EventsLeft
         \/ UNCHANGED <<state, timer, radio, EventsLeft>>
         \/ AtRest /\ EventsLeft = 0 /\ EventsLeft' <= 6 * RETX + 5]_vars
  BY OneRequestNext DEF Good, AdvanceStep
<1>2. QED  BY <1>1, ExchangeCorrect, TypeInvariant, PTL DEF Spec, ExchangeAdvances

\* Seen by its upper layer, the MAC layer is the data service: every step is a
\* step of the service or invisible to it.
THEOREM Refinement ==
    ASSUME Disturbances \subseteq {"foreign_frames"}
    PROVE  Spec => ImplementsService
<1>1. Init => Service!Init
  BY DEF Init, Service!Init
<1>2. TypeInv /\ ExchangeInv /\ [Next]_vars => [Service!Next]_(Service!service_vars)
  <2> SUFFICES ASSUME TypeInv, ExchangeInv, [Next]_vars
               PROVE  [Service!Next]_(Service!service_vars)
    OBVIOUS
  <2>1. CASE Next
    BY <2>1, OneRequestNext DEF Good, ServiceStep, Service!service_vars
  <2>2. CASE UNCHANGED vars
    BY <2>2, StutterExchange DEF Service!service_vars
  <2>3. QED  BY <2>1, <2>2
<1>3. QED  BY <1>1, <1>2, ExchangeCorrect, TypeInvariant, PTL
           DEF Spec, ImplementsService, Service!Spec

\* Seen by the radio, the MAC layer is a device of class A: two windows behind
\* each transmission, the second only if the first brought nothing, and no
\* transmission before they are over.
THEOREM ClassARefinement ==
    ASSUME Disturbances \subseteq {"foreign_frames"}
    PROVE  Spec => ImplementsClassA
<1>1. Init => Device!Init
  BY DEF Init, MacInit, Device!Init, WindowPhase
<1>2. TypeInv /\ ExchangeInv /\ [Next]_vars => [Device!Next]_WindowPhase
  <2> SUFFICES ASSUME TypeInv, ExchangeInv, [Next]_vars
               PROVE  [Device!Next]_WindowPhase
    OBVIOUS
  <2>1. CASE Next
    BY <2>1, OneRequestNext DEF Good, DeviceStep
  <2>2. CASE UNCHANGED vars
    BY <2>2, StutterExchange
  <2>3. QED  BY <2>1, <2>2
<1>3. QED  BY <1>1, <1>2, ExchangeCorrect, TypeInvariant, PTL
           DEF Spec, ImplementsClassA, Device!Spec

\* If the network answers in kind, no exchange dies silently and none outlives
\* its confirm: the upper layer is owed a confirm exactly as long as the MAC
\* has something left to do.
THEOREM NoSilentEnd ==
    ASSUME Disturbances = {}
    PROVE  Spec => []RestIffAnswered
<1>1. TypeInv /\ ExchangeInv /\ RestIffAnswered /\ [Next]_vars => RestIffAnswered'
  BY OneRequestNext, StutterExchange DEF Answered
<1>2. Spec => []ExchangeInv
  BY ExchangeCorrect
<1>3. QED  BY <1>1, <1>2, InitExchange, TypeInvariant, PTL DEF Spec

\* An exchange under way always has the radio or the timer to continue it.
THEOREM NoStrandedExchange ==
    ASSUME Disturbances = {}
    PROVE  Spec => []WakeupPending
<1>1. TypeInv /\ ExchangeInv /\ RestIffAnswered => WakeupPending
  BY DEF TypeInv, MacTypeInv, MacTypeOK, MacState, ExchangeInv, PhyMatchesState, OneExchange,
         RestIffAnswered, InFlight, AtRest, WakeupPending
<1>2. Spec => []ExchangeInv
  BY ExchangeCorrect
<1>3. QED  BY <1>1, <1>2, NoSilentEnd, TypeInvariant, PTL

\* Every data confirm answers the request made, with its type, or closes a join.
THEOREM ConfirmsMatch ==
    ASSUME Disturbances = {}
    PROVE  Spec => ConfirmMatchesRequest
<1>1. TypeInv /\ ExchangeInv /\ RestIffAnswered /\ [Next]_vars =>
        [out'.mcps_status # "none" =>
            \/ out'.mcps_type = mcps_open
            \/ join_open /\ out'.join # "none"]_vars
  BY OneRequestNext DEF Answered, ConfirmStep
<1>2. Spec => []ExchangeInv
  BY ExchangeCorrect
<1>3. QED  BY <1>1, <1>2, NoSilentEnd, TypeInvariant, PTL DEF Spec, ConfirmMatchesRequest

\* No join confirm is made without a join request to answer: a data exchange
\* is never reported as the end of a join.
THEOREM JoinConfirmsMatch ==
    ASSUME Disturbances = {}
    PROVE  Spec => JoinConfirmOwed
<1>1. TypeInv /\ ExchangeInv /\ RestIffAnswered /\ [Next]_vars =>
        [out'.join # "none" => join_open]_vars
  BY OneRequestNext DEF Answered, JoinConfirmStep
<1>2. Spec => []ExchangeInv
  BY ExchangeCorrect
<1>3. QED  BY <1>1, <1>2, NoSilentEnd, TypeInvariant, PTL DEF Spec, JoinConfirmOwed
=============================================================================
