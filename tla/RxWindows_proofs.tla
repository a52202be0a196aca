-------------------------- MODULE RxWindows_proofs --------------------------
(***************************************************************************)
(* Proofs about the reception windows, for every choice of data rates,     *)
(* settings, delays of a retransmission and times of a frame.              *)
(***************************************************************************)
EXTENDS RxWindows, TLAPS

-----------------------------------------------------------------------------
(* Data rates *)

LEMMA SetDrType ==
    ASSUME NEW r \in Rates, NEW dr \in Nat
    PROVE  SetDr(r, dr) \in Rates
BY DEF SetDr, ValidateDr, GNRC_LORAWAN_DATARATES_NUMOF, Rates

LEMMA OffsetType ==
    ASSUME NEW dr \in Nat, NEW offset \in Nat
    PROVE  /\ Rx1DrOffset(dr, offset) \in Nat /\ Rx1DrOffset(dr, offset) <= dr
           /\ Rx1DrOffset(dr, 0) = dr
BY DEF Rx1DrOffset

\* No window takes a second exactly: its end and the timer never coincide.
LEMMA WindowLength ==
    ASSUME NEW dr \in Rates
    PROVE  WindowMs(dr) \in Nat /\ WindowMs(dr) # 1000
<1>1. WindowMs(0) = 1638 /\ WindowMs(1) = 819 /\ WindowMs(2) = 409
  BY DEF WindowMs, TSym
<1>2. WindowMs(3) = 204 /\ WindowMs(4) = 102 /\ WindowMs(5) = 51
  BY DEF WindowMs, TSym
<1>3. dr \in {0, 1, 2, 3, 4, 5}  BY DEF Rates
<1>4. QED  BY <1>1, <1>2, <1>3

-----------------------------------------------------------------------------
(* The inductive invariant *)

PhaseInv ==
    /\ state = "TX" <=> radio = "tx"
    /\ radio = "rx" => state \in {"RX_1", "RX_2"}
    /\ state = "TX" => timer = NotSet
    /\ radio = "rx" <=> listen # NotSet
    /\ receiving => radio = "rx" /\ caught

\* A device that has joined has the settings of its session.
SettingsAgree ==
    activation = "OTAA" =>
        /\ rx_delay = net.rx_delay
        /\ dl_settings = [dr_offset |-> net.dr_offset, rx2_dr |-> net.rx2_dr]

SessionInv ==
    /\ SettingsAgree
    /\ activation = "ABP" => net.dr_offset = 0
    /\ exchange # "join" => ValidateDr(last_dr)
    /\ exchange = "join" /\ activation = "OTAA" => AtRest

\* While the settings are agreed, the radio has the rate of the window ahead
\* or, in TX, is about to get it.
RateInv ==
    agreed =>
        /\ state = "TX" =>
              SetDr(radio_dr, Rx1DrOffset(last_dr, dl_settings.dr_offset)) = want.rx1_dr
        /\ state = "RX_1" => radio_dr = want.rx1_dr
        /\ state \in {"TX", "RX_1"} => want.rx2_dr = dl_settings.rx2_dr
        /\ state = "RX_2" => radio_dr = want.rx2_dr \/ ~ValidateDr(want.rx2_dr)

\* The device has kept the offset of the last accept; in TX it is about to apply
\* it to the rate on the air, where the network applies that of the session.
OffsetInv ==
    /\ given = dl_settings.dr_offset
    /\ state = "TX" /\ ValidateDr(last_dr) => radio_dr = last_dr
    /\ state = "RX_1" /\ ValidateDr(last_dr) => radio_dr = Rx1DrOffset(last_dr, given)
    /\ state \in {"TX", "RX_1"} /\ ValidateDr(last_dr) /\ want.session # "none" =>
          want.rx1_dr = Rx1DrOffset(last_dr, IF want.session = "OTAA" THEN given ELSE 0)

\* The first window of the uplink closes within the second, with no frame.
Short == WindowMs(want.rx1_dr) <= 1000 /\ ~caught
Second == 1000 * want.delay + 1000

\* When the timer fires: since + timer.  A first window that is not short
\* reaches the time of the second, unless it is left by a frame.
ClockInv ==
    agreed =>
        /\ state = "TX" => want.delay = (IF activation = "NONE" THEN 5 ELSE rx_delay)
        /\ state \in {"TX", "RX_1"} /\ radio # "rx" => ~caught
        /\ state = "RX_1" /\ radio = "sleep" =>
              timer \in Nat /\ since + timer = 1000 * want.delay
        /\ state = "RX_1" /\ radio = "rx" =>
              /\ timer \in Nat /\ since + timer >= Second
              /\ Short => since + timer = Second /\ listen < timer
              /\ ~Short => since + timer > Second \/ receiving \/ listen > timer
        /\ state = "RX_2" /\ radio = "sleep" =>
              timer \in Nat /\ (since + timer = Second <=> Short)

IInv == TypeOK /\ PhaseInv /\ SessionInv /\ RateInv /\ OffsetInv /\ ClockInv

\* The steps, with what each does apart from its main action.
LEMMA Steps ==
    ASSUME [Next]_vars
    PROVE  \/ \E dr \in JoinRates : JoinRequest(dr)
           \/ \E dr \in DataRatesUsed, confirmed \in BOOLEAN : DataRequest(dr, confirmed)
           \/ TxComplete
           \/ timer = 0 /\ OpenRxWindow /\ UNCHANGED since
           \/ timer = 0 /\ Retransmit /\ UNCHANGED since
           \/ EventTimeout /\ Rx1Timeout
           \/ EventTimeout /\ Rx2Timeout
           \/ ProcessPkt \/ FrameStarts \/ Elapse \/ SetActivation \/ SetRx2Dr \/ Reset
           \/ UNCHANGED vars
BY DEF Next, Request, Event, TimerFired, EventTimeout

-----------------------------------------------------------------------------
(* Type correctness *)

LEMMA EventType ==
    ASSUME TypeOK, NEW ack \in BOOLEAN, McpsEvent(ack)
    PROVE  /\ waiting_for_ack' \in BOOLEAN /\ timer' \in Times
           /\ nb_trials' \in (IF waiting_for_ack' THEN 0 ELSE -1) .. RETX
<1>1. RetransmitDelays \subseteq Nat
  <2>1. 1000 .. 3047 \subseteq Nat  OBVIOUS
  <2>2. QED  BY <2>1, WindowsAssumption
<1>2. RETX \in Nat /\ waiting_for_ack \in BOOLEAN
      /\ nb_trials \in (IF waiting_for_ack THEN 0 ELSE -1) .. RETX
  BY WindowsAssumption DEF TypeOK
<1>3. timer' \in Times  BY <1>1 DEF McpsEvent, Times
<1>4. waiting_for_ack' \in BOOLEAN  BY <1>2 DEF McpsEvent
<1>5. nb_trials' \in (IF waiting_for_ack' THEN 0 ELSE -1) .. RETX
  <2>1. CASE waiting_for_ack /\ ~ack /\ nb_trials > 0
    BY <1>2, <2>1 DEF McpsEvent
  <2>2. CASE waiting_for_ack /\ ~ack /\ ~(nb_trials > 0)
    <3>1. nb_trials' = nb_trials - 1 /\ waiting_for_ack' = FALSE
      BY <2>2 DEF McpsEvent
    <3>2. QED  BY <1>2, <2>2, <3>1
  <2>3. CASE ~(waiting_for_ack /\ ~ack)
    <3>1. nb_trials' = nb_trials /\ waiting_for_ack' = FALSE
      BY <2>3 DEF McpsEvent
    <3>2. QED  BY <1>2, <3>1
  <2>4. QED  BY <2>1, <2>2, <2>3
<1>6. QED  BY <1>3, <1>4, <1>5

LEMMA WantType ==
    ASSUME TypeOK, NEW r \in Rates
    PROVE  /\ JoinWindows(r) \in Windows
           /\ DataWindows(r) \in Windows
<1>1. Rx1DrOffset(r, net.dr_offset) \in Rates
  <2>1. r \in Nat /\ net.dr_offset \in Nat /\ r <= 5  BY DEF TypeOK, Setting, Rates
  <2> DEFINE o == Rx1DrOffset(r, net.dr_offset)
  <2>2. o \in Nat /\ o <= r  BY <2>1, OffsetType
  <2> HIDE DEF o
  <2>3. o \in 0 .. 5  BY <2>1, <2>2
  <2>4. QED  BY <2>3 DEF o, Rates
<1>2. QED
  BY <1>1 DEF JoinWindows, DataWindows, TypeOK, Setting, Windows, LORAMAC_DEFAULT_JOIN_DELAY1

LEMMA TypeInit == Init => TypeOK
<1> SUFFICES ASSUME Init PROVE TypeOK  OBVIOUS
<1>1. RETX \in Nat /\ MaxSince \in Nat /\ DataRatesUsed \subseteq Rates
  BY WindowsAssumption DEF Rates
<1>2. NotSet \in Times  BY DEF Times
<1>3. net \in Setting /\ net.rx_delay # 0  BY DEF Init, DefaultSetting, Setting
<1>4. dl_settings \in [dr_offset : 0 .. 7, rx2_dr : 0 .. 15]  BY DEF Init
<1>5. want \in Windows  BY DEF Init, Rates, Windows
<1>6. radio_dr \in Rates  BY <1>1 DEF Init
<1>7. nb_trials \in (IF waiting_for_ack THEN 0 ELSE -1) .. RETX /\ since \in 0 .. MaxSince  BY <1>1 DEF Init
<1>8. rx_delay \in 1 .. 15 /\ last_dr \in 0 .. 6 /\ given \in 0 .. 7  BY DEF Init
<1>9. QED  BY <1>2, <1>3, <1>4, <1>5, <1>6, <1>7, <1>8, Zenon DEF Init, TypeOK

LEMMA SettingTypes ==
    ASSUME TypeOK
    PROVE  /\ dl_settings.dr_offset \in Nat /\ dl_settings.rx2_dr \in Nat
           /\ last_dr \in Nat /\ rx_delay \in Nat /\ want.delay \in Nat
           /\ net.dr_offset \in Nat /\ net.rx2_dr \in Nat /\ net.rx_delay \in 1 .. 15
BY DEF TypeOK, Setting, Windows

LEMMA TypeSend ==
    ASSUME TypeOK, NEW dr \in 0 .. 6, SendPkt(dr)
    PROVE  /\ radio_dr' \in Rates /\ last_dr' \in 0 .. 6
           /\ radio' = "tx" /\ state' = "TX" /\ UNCHANGED <<listen, receiving>>
BY SetDrType DEF SendPkt, TypeOK

LEMMA TypeElapse ==
    ASSUME TypeOK, Elapse
    PROVE  TypeOK'
<1>1. PICK d \in Deadlines :
        /\ \A e \in Deadlines : d <= e
        /\ timer' = Later(timer, d) /\ listen' = Later(listen, d)
        /\ since' = IF since + d > MaxSince THEN MaxSince ELSE since + d
  BY DEF Elapse
<1>2. d \in Nat /\ MaxSince \in Nat /\ since \in 0 .. MaxSince
  BY WindowsAssumption DEF TypeOK, Deadlines, Times
<1>3. since' \in 0 .. MaxSince  BY <1>1, <1>2
<1>4. ASSUME NEW t \in Times, t # NotSet => t \in Deadlines
      PROVE  Later(t, d) \in Times
  BY <1>1, <1>2, <1>4 DEF Later, Times, NotSet
<1>5. timer' \in Times /\ listen' \in Times
  BY <1>1, <1>4 DEF Deadlines, TypeOK
<1>6. QED
  BY <1>3, <1>5
  DEF Elapse, TypeOK, mac_vars, request_vars, uplink_vars

LEMMA TypeNext == TypeOK /\ [Next]_vars => TypeOK'
<1> SUFFICES ASSUME TypeOK, [Next]_vars PROVE TypeOK'  OBVIOUS
<1>1. ASSUME NEW dr \in JoinRates, JoinRequest(dr) PROVE TypeOK'
  <2>1. dr \in 0 .. 6  BY WindowsAssumption
  <2>2. radio_dr' \in Rates /\ last_dr' \in 0 .. 6 /\ radio' = "tx" /\ state' = "TX"
        /\ UNCHANGED <<listen, receiving>>
    BY <1>1, <2>1, TypeSend DEF JoinRequest
  <2>3. want' \in Windows
    BY <1>1, <2>2, WantType DEF JoinRequest
  <2>4. QED  BY <1>1, <2>1, <2>2, <2>3 DEF JoinRequest, TypeOK
<1>2. ASSUME NEW dr \in DataRatesUsed, NEW confirmed \in BOOLEAN, DataRequest(dr, confirmed)
      PROVE  TypeOK'
  <2>1. dr \in 0 .. 6  BY WindowsAssumption
  <2>2. radio_dr' \in Rates /\ last_dr' \in 0 .. 6 /\ radio' = "tx" /\ state' = "TX"
        /\ UNCHANGED <<listen, receiving>>
    BY <1>2, <2>1, TypeSend DEF DataRequest
  <2>3. want' \in Windows
    BY <1>2, <2>2, WantType DEF DataRequest, DataSent
  <2>4. nb_trials' \in (IF waiting_for_ack' THEN 0 ELSE -1) .. RETX
    BY <1>2, WindowsAssumption DEF DataRequest
  <2>5. QED  BY <1>2, <2>1, <2>2, <2>3, <2>4 DEF DataRequest, DataSent, TypeOK
<1>3. CASE TxComplete
  <2>1. Rx1DrOffset(last_dr, dl_settings.dr_offset) \in Nat
    BY OffsetType, SettingTypes
  <2>2. radio_dr' \in Rates  BY <1>3, <2>1, SetDrType DEF TxComplete, TypeOK
  <2>3. timer' \in Times
    BY <1>3, SettingTypes DEF TxComplete, Times, LORAMAC_DEFAULT_JOIN_DELAY1
  <2>5. since' \in 0 .. MaxSince  BY <1>3, WindowsAssumption DEF TxComplete
  <2>4. QED
    BY <1>3, <2>2, <2>3, <2>5 DEF TxComplete, TypeOK, mac_vars, request_vars, uplink_vars
<1>4. CASE OpenRxWindow /\ UNCHANGED since
  <2>1. listen' \in Times /\ timer' \in Times /\ receiving' \in BOOLEAN
    <3>1. WindowMs(radio_dr) \in Times  BY WindowLength DEF TypeOK, Times
    <3>2. 1000 \in Times /\ NotSet \in Times  BY DEF Times
    <3>3. QED  BY <1>4, <3>1, <3>2, Zenon DEF OpenRxWindow, RxOn, TypeOK
  <2>2. QED
    BY <1>4, <2>1 DEF OpenRxWindow, RxOn, TypeOK, mac_vars, request_vars, uplink_vars
<1>5. CASE Retransmit /\ UNCHANGED since
  <2>1. radio_dr' \in Rates /\ last_dr' \in 0 .. 6 /\ radio' = "tx" /\ state' = "TX"
        /\ UNCHANGED <<listen, receiving>>
    BY <1>5, TypeSend DEF Retransmit, TypeOK
  <2>2. want' \in Windows
    BY <1>5, <2>1, WantType DEF Retransmit, DataSent
  <2>3. timer' \in Times  BY <1>5 DEF Retransmit, Times
  <2>4. QED  BY <1>5, <2>1, <2>2, <2>3 DEF Retransmit, DataSent, TypeOK, request_vars
<1>6. CASE EventTimeout /\ Rx1Timeout
  <2>1. radio_dr' \in Rates  BY <1>6, SetDrType, SettingTypes DEF Rx1Timeout, TypeOK
  <2>2. listen' \in Times  BY <1>6 DEF EventTimeout, Times
  <2>3. QED
    BY <1>6, <2>1, <2>2
    DEF EventTimeout, Rx1Timeout, TypeOK, mac_vars, request_vars, uplink_vars
<1>7. CASE EventTimeout /\ Rx2Timeout
  <2>1. /\ waiting_for_ack' \in BOOLEAN /\ timer' \in Times
        /\ nb_trials' \in (IF waiting_for_ack' THEN 0 ELSE -1) .. RETX
    BY <1>7, EventType DEF Rx2Timeout
  <2>2. listen' \in Times  BY <1>7 DEF EventTimeout, Times
  <2>3. QED
    BY <1>7, <2>1, <2>2
    DEF EventTimeout, Rx2Timeout, TypeOK, request_vars, uplink_vars
<1>8. CASE ProcessPkt
  <2>1. /\ radio' = "sleep" /\ listen' \in Times /\ receiving' = FALSE /\ state' = "IDLE"
        /\ UNCHANGED <<radio_dr, since, exchange, caught>>
    BY <1>8 DEF ProcessPkt, Times
  <2>2. CASE \E s \in Settings : ProcessJoin(s)
    <3>1. PICK s \in Settings : ProcessJoin(s)  BY <2>2
    <3>2. s \in Setting  BY WindowsAssumption
    <3>3. rx_delay' \in 1 .. 15  BY <3>1, <3>2 DEF ProcessJoin, Setting
    <3>4. net' \in Setting /\ net'.rx_delay # 0  BY <3>1, <3>2 DEF ProcessJoin, Setting
    <3>5. dl_settings' \in [dr_offset : 0 .. 7, rx2_dr : 0 .. 15]
      BY <3>1, <3>2 DEF ProcessJoin, Setting
    <3>6. timer' \in Times  BY <3>1 DEF ProcessJoin, Times
    <3>7. QED  BY <2>1, <3>1, <3>3, <3>4, <3>5, <3>6 DEF ProcessJoin, TypeOK
  <2>3. CASE /\ \E ack \in BOOLEAN : McpsEvent(ack)
             /\ UNCHANGED <<activation, rx_delay, dl_settings, last_dr, net, given, want,
                           agreed>>
    BY <2>1, <2>3, EventType DEF TypeOK
  <2>4. CASE timer' = NotSet /\ UNCHANGED <<mac_vars, net, given, want, agreed>>
    BY <2>1, <2>4 DEF TypeOK, mac_vars, Times
  <2>5. QED  BY <1>8, <2>2, <2>3, <2>4 DEF ProcessPkt
<1>9. CASE FrameStarts
  <2>1. listen' \in Times  BY <1>9, WindowsAssumption DEF FrameStarts, Times
  <2>2. QED  BY <1>9, <2>1 DEF FrameStarts, TypeOK, mac_vars, request_vars
<1>10. CASE Elapse  BY <1>10, TypeElapse
<1>11. CASE SetActivation
  <2>1. net' \in Setting /\ net'.rx_delay # 0
    <3>1. DefaultSetting \in Setting /\ DefaultSetting.rx_delay # 0
      BY DEF DefaultSetting, Setting
    <3>2. QED  BY <1>11, <3>1 DEF SetActivation, TypeOK
  <2>2. QED  BY <1>11, <2>1, Zenon DEF SetActivation, TypeOK, radio_vars
<1>12. CASE SetRx2Dr
  <2>0. PICK dr \in Rx2Rates :
            /\ dl_settings' = [dl_settings EXCEPT !.rx2_dr = dr]
            /\ net' = [net EXCEPT !.rx2_dr = dr]
    BY <1>12 DEF SetRx2Dr
  <2>1. dr \in 0 .. 15  BY WindowsAssumption
  <2>2. dl_settings' \in [dr_offset : 0 .. 7, rx2_dr : 0 .. 15]
    BY <2>0, <2>1 DEF TypeOK
  <2>3. net' \in Setting /\ net'.rx_delay # 0  BY <2>0, <2>1 DEF TypeOK, Setting
  <2>4. QED  BY <1>12, <2>2, <2>3, Zenon DEF SetRx2Dr, TypeOK, radio_vars
<1>13. CASE Reset
  <2>1. dl_settings' \in [dr_offset : 0 .. 7, rx2_dr : 0 .. 15]
    BY <1>13 DEF Reset, TypeOK
  <2>2. rx_delay' \in 1 .. 15  BY <1>13 DEF Reset
  <2>3. waiting_for_ack' = FALSE /\ nb_trials' \in -1 .. RETX
    BY <1>13, WindowsAssumption DEF Reset, TypeOK
  <2>4. QED  BY <1>13, <2>1, <2>2, <2>3, Zenon DEF Reset, TypeOK, radio_vars, request_vars
<1>14. CASE UNCHANGED vars
  BY <1>14 DEF TypeOK, vars, mac_vars, radio_vars, request_vars, uplink_vars
<1>15. QED
  BY Steps, <1>1, <1>2, <1>3, <1>4, <1>5, <1>6, <1>7, <1>8, <1>9, <1>10, <1>11, <1>12,
     <1>13, <1>14

-----------------------------------------------------------------------------
(* The phases of an exchange *)

LEMMA PhaseNext == TypeOK /\ PhaseInv /\ [Next]_vars => PhaseInv'
<1> SUFFICES ASSUME TypeOK, PhaseInv, [Next]_vars PROVE PhaseInv'  OBVIOUS
<1>1. ASSUME NEW dr \in JoinRates, JoinRequest(dr) PROVE PhaseInv'
  BY <1>1 DEF JoinRequest, SendPkt, AtRest, PhaseInv
<1>2. ASSUME NEW dr \in DataRatesUsed, NEW confirmed \in BOOLEAN, DataRequest(dr, confirmed)
      PROVE  PhaseInv'
  BY <1>2 DEF DataRequest, DataSent, SendPkt, AtRest, PhaseInv
<1>3. CASE TxComplete
  BY <1>3 DEF TxComplete, PhaseInv, uplink_vars
<1>4. CASE OpenRxWindow
  <2>1. WindowMs(radio_dr) # NotSet  BY WindowLength DEF TypeOK, NotSet
  <2>2. QED  BY <1>4, <2>1 DEF OpenRxWindow, RxOn, PhaseInv, uplink_vars
<1>5. CASE Retransmit
  BY <1>5 DEF Retransmit, DataSent, SendPkt, PhaseInv
<1>6. CASE EventTimeout /\ (Rx1Timeout \/ Rx2Timeout)
  BY <1>6 DEF EventTimeout, Rx1Timeout, Rx2Timeout, PhaseInv, uplink_vars
<1>7. CASE ProcessPkt
  BY <1>7 DEF ProcessPkt, PhaseInv
<1>8. CASE FrameStarts
  <2>1. listen' # NotSet /\ radio' = "rx"
    BY <1>8, WindowsAssumption DEF FrameStarts, NotSet
  <2>2. QED  BY <1>8, <2>1 DEF FrameStarts, PhaseInv
<1>9. CASE Elapse
  <2>1. PICK d \in Deadlines :
          /\ \A e \in Deadlines : d <= e
          /\ timer' = Later(timer, d) /\ listen' = Later(listen, d)
    BY <1>9 DEF Elapse
  <2>2. timer # NotSet => timer \in Nat /\ d <= timer
    BY <2>1 DEF TypeOK, Times, Deadlines
  <2>3. listen # NotSet => listen \in Nat /\ d <= listen
    BY <2>1 DEF TypeOK, Times, Deadlines
  <2>4. d \in Nat  BY <2>1, <2>2, <2>3 DEF Deadlines
  <2>5. (listen' = NotSet <=> listen = NotSet) /\ (timer = NotSet => timer' = NotSet)
    BY <2>1, <2>2, <2>3, <2>4 DEF Later, NotSet
  <2>6. QED  BY <1>9, <2>5 DEF Elapse, PhaseInv, uplink_vars
<1>10. CASE UNCHANGED <<state, timer, radio_vars, caught>>
  BY <1>10 DEF PhaseInv, radio_vars
<1>11. QED
  BY Steps, <1>1, <1>2, <1>3, <1>4, <1>5, <1>6, <1>7, <1>8, <1>9, <1>10
  DEF SetActivation, SetRx2Dr, Reset, vars, uplink_vars

-----------------------------------------------------------------------------
(* The settings of the session *)

LEMMA SessionNext == TypeOK /\ PhaseInv /\ SessionInv /\ [Next]_vars => SessionInv'
<1> SUFFICES ASSUME TypeOK, PhaseInv, SessionInv, [Next]_vars PROVE SessionInv'  OBVIOUS
<1>1. ASSUME NEW dr \in JoinRates, JoinRequest(dr) PROVE SessionInv'
  BY <1>1 DEF JoinRequest, SendPkt, SessionInv, SettingsAgree
<1>2. ASSUME NEW dr \in DataRatesUsed, NEW confirmed \in BOOLEAN, DataRequest(dr, confirmed)
      PROVE  SessionInv'
  BY <1>2 DEF DataRequest, DataSent, SendPkt, SessionInv, SettingsAgree
<1>3. CASE Retransmit /\ timer = 0
  BY <1>3 DEF Retransmit, DataSent, SendPkt, SessionInv, SettingsAgree, request_vars, AtRest,
              NotSet
<1>4. CASE EventTimeout /\ (Rx1Timeout \/ Rx2Timeout)
  <2>1. state \in {"RX_1", "RX_2"}  BY <1>4 DEF EventTimeout, PhaseInv
  <2>2. QED
    BY <1>4, <2>1
    DEF EventTimeout, Rx1Timeout, Rx2Timeout, SessionInv, SettingsAgree, mac_vars,
        request_vars, AtRest
<1>5. CASE ProcessPkt
  <2>1. state \in {"RX_1", "RX_2"} /\ state' = "IDLE" /\ UNCHANGED exchange
    BY <1>5 DEF ProcessPkt, PhaseInv
  <2>2. CASE \E s \in Settings : ProcessJoin(s)
    <3>1. PICK s \in Settings : ProcessJoin(s)  BY <2>2
    <3>2. s \in Setting  BY WindowsAssumption
    <3>3. /\ rx_delay' = net'.rx_delay
          /\ dl_settings' = [dr_offset |-> net'.dr_offset, rx2_dr |-> net'.rx2_dr]
          /\ activation' = "OTAA" /\ timer' = NotSet /\ last_dr' = last_dr
      BY <3>1, <3>2 DEF ProcessJoin, Setting
    <3>4. QED  BY <2>1, <3>3 DEF SessionInv, SettingsAgree, AtRest
  <2>3. CASE UNCHANGED <<activation, rx_delay, dl_settings, last_dr, net>>
    BY <2>1, <2>3 DEF SessionInv, SettingsAgree, AtRest
  <2>4. QED  BY <1>5, <2>2, <2>3 DEF ProcessPkt, mac_vars
<1>6. CASE SetActivation
  BY <1>6 DEF SetActivation, SessionInv, SettingsAgree, DefaultSetting
<1>7. CASE SetRx2Dr
  <2>1. PICK dr \in Rx2Rates :
            /\ dl_settings' = [dl_settings EXCEPT !.rx2_dr = dr]
            /\ net' = [net EXCEPT !.rx2_dr = dr]
    BY <1>7 DEF SetRx2Dr
  <2>2. /\ net'.dr_offset = net.dr_offset /\ net'.rx_delay = net.rx_delay
        /\ net'.rx2_dr = dr
    BY <2>1 DEF TypeOK, Setting
  <2>3. activation = "OTAA" =>
            dl_settings' = [dr_offset |-> net'.dr_offset, rx2_dr |-> net'.rx2_dr]
    BY <2>1, <2>2 DEF SessionInv, SettingsAgree
  <2>4. QED  BY <1>7, <2>2, <2>3 DEF SetRx2Dr, SessionInv, SettingsAgree, AtRest
<1>8. CASE Reset
  BY <1>8 DEF Reset, SessionInv, SettingsAgree, request_vars
<1>9. CASE Elapse
  <2>1. timer = NotSet => timer' = NotSet  BY <1>9 DEF Elapse, Later
  <2>2. QED
    BY <1>9, <2>1 DEF Elapse, SessionInv, SettingsAgree, AtRest, mac_vars, request_vars
<1>10. CASE TxComplete
  <2>1. state = "TX"  BY <1>10 DEF TxComplete, PhaseInv
  <2>2. QED
    BY <1>10, <2>1
    DEF TxComplete, SessionInv, SettingsAgree, AtRest, mac_vars, request_vars
<1>11. CASE OpenRxWindow
  BY <1>11
  DEF OpenRxWindow, SessionInv, SettingsAgree, AtRest, mac_vars, request_vars
<1>12. CASE UNCHANGED <<mac_vars, request_vars, state, timer>>
  BY <1>12 DEF SessionInv, SettingsAgree, AtRest, mac_vars, request_vars
<1>13. QED
  BY Steps, <1>1, <1>2, <1>3, <1>4, <1>5, <1>6, <1>7, <1>8, <1>9, <1>10, <1>11, <1>12
  DEF FrameStarts, vars

-----------------------------------------------------------------------------
(* The data rates of the windows *)

\* The rate of the first window, from the rate the radio sent at.
LEMMA FirstRate ==
    ASSUME NEW r \in Rates, NEW dr \in Nat, NEW offset \in Nat,
           ValidateDr(dr) \/ offset = 0
    PROVE  SetDr(SetDr(r, dr), Rx1DrOffset(dr, offset)) = Rx1DrOffset(SetDr(r, dr), offset)
<1>1. CASE ValidateDr(dr)
  <2>1. SetDr(r, dr) = dr  BY <1>1 DEF SetDr
  <2>2. ValidateDr(Rx1DrOffset(dr, offset))
    BY <1>1, OffsetType DEF ValidateDr, GNRC_LORAWAN_DATARATES_NUMOF
  <2>3. QED  BY <2>1, <2>2 DEF SetDr
<1>2. CASE ~ValidateDr(dr) /\ offset = 0
  <2>1. SetDr(r, dr) = r  BY <1>2 DEF SetDr
  <2>2. Rx1DrOffset(dr, offset) = dr /\ Rx1DrOffset(r, offset) = r
    BY <1>2, OffsetType DEF Rates
  <2>3. QED  BY <1>2, <2>1, <2>2
<1>3. QED  BY <1>1, <1>2

\* A transmission at the rate dr after which the settings are agreed.
LEMMA RateSend ==
    ASSUME TypeOK, NEW dr \in Nat, SendPkt(dr), UNCHANGED dl_settings,
           ValidateDr(dr) \/ dl_settings.dr_offset = 0,
           want'.rx1_dr = Rx1DrOffset(radio_dr', dl_settings.dr_offset),
           want'.rx2_dr = dl_settings.rx2_dr
    PROVE  RateInv'
<1>1. radio_dr' = SetDr(radio_dr, dr) /\ last_dr' = dr /\ state' = "TX"  BY DEF SendPkt
<1>2. radio_dr \in Rates  BY DEF TypeOK
<1>3. SetDr(radio_dr', Rx1DrOffset(dr, dl_settings.dr_offset)) = want'.rx1_dr
  BY <1>1, <1>2, SettingTypes, FirstRate
<1>4. QED  BY <1>1, <1>3 DEF RateInv

LEMMA RateNext ==
    TypeOK /\ PhaseInv /\ SessionInv /\ RateInv /\ [Next]_vars => RateInv'
<1> SUFFICES ASSUME TypeOK, PhaseInv, SessionInv, RateInv, [Next]_vars, agreed'
             PROVE  RateInv'
  BY DEF RateInv
<1>1. ASSUME NEW dr \in JoinRates, JoinRequest(dr) PROVE RateInv'
  <2>1. dr \in Nat  BY WindowsAssumption
  <2>0. dl_settings = [dr_offset |-> 0, rx2_dr |-> 0]  BY <1>1, Zenon DEF JoinRequest
  <2>2. dl_settings.dr_offset = 0 /\ dl_settings.rx2_dr = 0 /\ SendPkt(dr)
        /\ UNCHANGED dl_settings
    BY <1>1, <2>0 DEF JoinRequest
  <2>3. radio_dr' \in Nat  BY <2>1, <2>2, SetDrType DEF SendPkt, TypeOK, Rates
  <2>4. want'.rx1_dr = Rx1DrOffset(radio_dr', 0) /\ want'.rx2_dr = 0
    BY <1>1, <2>3, OffsetType DEF JoinRequest, JoinWindows
  <2>5. QED  BY <2>1, <2>2, <2>4, RateSend
<1>2. ASSUME NEW dr \in DataRatesUsed, NEW confirmed \in BOOLEAN, DataRequest(dr, confirmed)
      PROVE  RateInv'
  <2>1. dr \in Nat  BY WindowsAssumption
  <2>2. SendPkt(dr) /\ ValidateDr(dr) /\ UNCHANGED dl_settings /\ DataSent
    BY <1>2 DEF DataRequest
  <2>3. want'.rx1_dr = Rx1DrOffset(radio_dr', dl_settings.dr_offset)
        /\ want'.rx2_dr = dl_settings.rx2_dr
    BY <2>2 DEF DataSent, DataWindows
  <2>4. QED  BY <2>1, <2>2, <2>3, RateSend
<1>3. CASE Retransmit /\ timer = 0
  <2>1. SendPkt(last_dr) /\ UNCHANGED dl_settings /\ DataSent /\ UNCHANGED activation
    BY <1>3 DEF Retransmit
  <2>2. /\ want'.rx1_dr = Rx1DrOffset(radio_dr', dl_settings.dr_offset)
        /\ want'.rx2_dr = dl_settings.rx2_dr
        /\ activation # "NONE" /\ dl_settings.dr_offset = net.dr_offset
    BY <2>1 DEF DataSent, DataWindows
  <2>3. ValidateDr(last_dr) \/ dl_settings.dr_offset = 0
    <3>1. exchange = "join" => activation # "OTAA"
      BY <1>3 DEF SessionInv, AtRest, NotSet
    <3>2. exchange = "join" => net.dr_offset = 0
      BY <2>2, <3>1 DEF SessionInv, TypeOK
    <3>3. QED  BY <2>2, <3>2 DEF SessionInv
  <2>4. last_dr \in Nat  BY SettingTypes
  <2>5. QED  BY <2>1, <2>2, <2>3, <2>4, RateSend
<1>4. CASE TxComplete
  <2>1. state = "TX" /\ agreed /\ UNCHANGED <<last_dr, dl_settings, want>> /\ state' = "RX_1"
    BY <1>4 DEF TxComplete, PhaseInv, mac_vars, uplink_vars
  <2>2. radio_dr' = want.rx1_dr  BY <1>4, <2>1 DEF TxComplete, RateInv
  <2>3. QED  BY <2>1, <2>2 DEF RateInv
<1>5. CASE EventTimeout /\ Rx1Timeout
  <2>1. /\ agreed /\ state = "RX_1" /\ state' = "RX_2" /\ UNCHANGED <<dl_settings, want>>
        /\ radio_dr' = SetDr(radio_dr, dl_settings.rx2_dr)
    BY <1>5 DEF EventTimeout, Rx1Timeout, mac_vars, uplink_vars
  <2>2. want.rx2_dr = dl_settings.rx2_dr  BY <2>1 DEF RateInv
  <2>3. QED  BY <2>1, <2>2 DEF RateInv, SetDr
<1>6. CASE EventTimeout /\ Rx2Timeout
  BY <1>6 DEF EventTimeout, Rx2Timeout, RateInv, uplink_vars
<1>7. CASE ProcessPkt
  BY <1>7 DEF ProcessPkt, RateInv
<1>8. CASE SetActivation \/ SetRx2Dr \/ Reset
  BY <1>8 DEF SetActivation, SetRx2Dr, Reset
<1>9. CASE UNCHANGED <<agreed, state, radio_dr, last_dr, dl_settings, want>>
  BY <1>9 DEF RateInv
<1>10. QED
  BY Steps, <1>1, <1>2, <1>3, <1>4, <1>5, <1>6, <1>7, <1>8, <1>9
  DEF OpenRxWindow, RxOn, FrameStarts, Elapse, vars, mac_vars, radio_vars, uplink_vars

-----------------------------------------------------------------------------
(* The offset of the first window *)

\* A transmission, behind which the network expects its windows.
LEMMA OffsetSend ==
    ASSUME TypeOK, SessionInv, OffsetInv, NEW dr \in Nat, SendPkt(dr),
           UNCHANGED <<dl_settings, given>>,
           \/ want' = JoinWindows(radio_dr')
           \/ want' = DataWindows(radio_dr')
    PROVE  OffsetInv'
<1>1. state' = "TX" /\ last_dr' = dr /\ (ValidateDr(dr) => radio_dr' = dr)
  BY DEF SendPkt, SetDr
<1>2. ASSUME ValidateDr(dr), want' = JoinWindows(radio_dr')
      PROVE  want'.session = "join" /\ want'.rx1_dr = Rx1DrOffset(dr, 0)
  BY <1>1, <1>2, OffsetType DEF JoinWindows
<1>3. ASSUME ValidateDr(dr), want' = DataWindows(radio_dr'), want'.session # "none"
      PROVE  want'.rx1_dr = Rx1DrOffset(dr, IF want'.session = "OTAA" THEN given ELSE 0)
  <2>1. want'.rx1_dr = Rx1DrOffset(dr, net.dr_offset) /\ want'.session = activation
        /\ activation # "NONE"
    BY <1>1, <1>3 DEF DataWindows
  <2>2. activation = "OTAA" => net.dr_offset = given
    BY DEF SessionInv, SettingsAgree, OffsetInv
  <2>3. activation = "ABP" => net.dr_offset = 0
    BY DEF SessionInv
  <2>4. QED  BY <2>1, <2>2, <2>3 DEF TypeOK
<1>4. QED  BY <1>1, <1>2, <1>3 DEF OffsetInv

LEMMA OffsetNext ==
    TypeOK /\ PhaseInv /\ SessionInv /\ OffsetInv /\ [Next]_vars => OffsetInv'
<1> SUFFICES ASSUME TypeOK, PhaseInv, SessionInv, OffsetInv, [Next]_vars
             PROVE  OffsetInv'
  OBVIOUS
<1>1. ASSUME NEW dr \in JoinRates, JoinRequest(dr) PROVE OffsetInv'
  <2>1. dr \in Nat  BY WindowsAssumption
  <2>2. QED  BY <1>1, <2>1, OffsetSend DEF JoinRequest
<1>2. ASSUME NEW dr \in DataRatesUsed, NEW confirmed \in BOOLEAN, DataRequest(dr, confirmed)
      PROVE  OffsetInv'
  <2>1. dr \in Nat  BY WindowsAssumption
  <2>2. QED  BY <1>2, <2>1, OffsetSend DEF DataRequest, DataSent
<1>3. CASE Retransmit
  BY <1>3, SettingTypes, OffsetSend DEF Retransmit, DataSent, request_vars
<1>4. CASE TxComplete
  <2>1. /\ state = "TX" /\ state' = "RX_1" /\ UNCHANGED <<last_dr, dl_settings, given, want>>
        /\ radio_dr' = SetDr(radio_dr, Rx1DrOffset(last_dr, dl_settings.dr_offset))
    BY <1>4 DEF TxComplete, PhaseInv, mac_vars, request_vars, uplink_vars
  <2>2. ValidateDr(last_dr) => radio_dr' = Rx1DrOffset(last_dr, given)
    <3>1. Rx1DrOffset(last_dr, given) <= last_dr /\ Rx1DrOffset(last_dr, given) \in Nat
      BY SettingTypes, OffsetType DEF OffsetInv
    <3>2. ValidateDr(last_dr) => ValidateDr(Rx1DrOffset(last_dr, given))
      BY <3>1, SettingTypes DEF ValidateDr, GNRC_LORAWAN_DATARATES_NUMOF
    <3>3. QED  BY <2>1, <3>2 DEF SetDr, OffsetInv
  <2>3. QED  BY <2>1, <2>2 DEF OffsetInv
<1>5. ASSUME state' \in {"IDLE", "RX_2"}, given' = dl_settings'.dr_offset PROVE OffsetInv'
  BY <1>5 DEF OffsetInv
<1>6. CASE OpenRxWindow
  BY <1>6
  DEF OpenRxWindow, RxOn, OffsetInv, mac_vars, request_vars, uplink_vars
<1>7. CASE EventTimeout /\ (Rx1Timeout \/ Rx2Timeout)
  BY <1>5, <1>7
  DEF EventTimeout, Rx1Timeout, Rx2Timeout, OffsetInv, mac_vars, request_vars
<1>8. CASE ProcessPkt
  <2>1. state' = "IDLE"  BY <1>8 DEF ProcessPkt
  <2>2. CASE \E s \in Settings : ProcessJoin(s)
    BY <1>5, <2>1, <2>2 DEF ProcessJoin
  <2>3. CASE UNCHANGED <<dl_settings, given>>
    BY <1>5, <2>1, <2>3 DEF OffsetInv
  <2>4. QED  BY <1>8, <2>2, <2>3 DEF ProcessPkt, mac_vars
<1>9. CASE SetRx2Dr \/ Reset
  <2>1. dl_settings'.dr_offset = dl_settings.dr_offset
    BY <1>9 DEF SetRx2Dr, Reset, TypeOK
  <2>2. UNCHANGED <<state, last_dr, radio_dr, given, want>>
    BY <1>9 DEF SetRx2Dr, Reset, radio_vars, request_vars
  <2>3. QED  BY <2>1, <2>2 DEF OffsetInv
<1>10. CASE UNCHANGED <<state, last_dr, radio_dr, dl_settings, given, want>>
  BY <1>10 DEF OffsetInv
<1>11. QED
  BY Steps, <1>1, <1>2, <1>3, <1>4, <1>6, <1>7, <1>8, <1>9, <1>10
  DEF FrameStarts, Elapse, SetActivation, vars, mac_vars, radio_vars, request_vars,
      uplink_vars

-----------------------------------------------------------------------------
(* The times of the windows *)

LEMMA ClockSend ==
    ASSUME state' = "TX", radio' = "tx", caught' = FALSE,
           want'.delay = (IF activation' = "NONE" THEN 5 ELSE rx_delay')
    PROVE  ClockInv'
BY DEF ClockInv

\* Time passes for since and for the timer alike, up to the bound of since.
LEMMA ClockElapse ==
    ASSUME TypeOK, PhaseInv, ClockInv, Elapse, agreed
    PROVE  ClockInv'
<1>1. PICK d \in Deadlines :
        /\ \A e \in Deadlines : d <= e
        /\ timer' = Later(timer, d) /\ listen' = Later(listen, d)
        /\ since' = IF since + d > MaxSince THEN MaxSince ELSE since + d
  BY DEF Elapse
<1>2. UNCHANGED <<activation, rx_delay, state, radio, receiving, want, agreed, caught>>
  BY DEF Elapse, mac_vars, uplink_vars
<1>3. /\ MaxSince \in Nat /\ MaxSince > 17000 /\ since \in Nat
      /\ want.delay \in 1 .. 15 /\ d \in Nat
  BY <1>1, WindowsAssumption DEF TypeOK, Deadlines, Times, Windows
<1>4. timer \in Nat => d <= timer /\ timer' = timer - d
  BY <1>1 DEF Deadlines, Later, NotSet
<1>5. listen # NotSet => listen \in Nat /\ d <= listen /\ listen' = listen - d
  BY <1>1 DEF Deadlines, Later, TypeOK, Times
<1>6. Second \in Nat /\ Second <= 16000 /\ Second' = Second /\ (Short' <=> Short)
  BY <1>2, <1>3 DEF Second, Short
<1>7. ASSUME timer \in Nat
      PROVE  /\ timer' \in Nat
             /\ \A t \in Nat : t <= 16000 =>
                    /\ since + timer = t <=> since' + timer' = t
                    /\ since + timer >= t <=> since' + timer' >= t
                    /\ since + timer > t <=> since' + timer' > t
  BY <1>1, <1>3, <1>4, <1>7
<1>8. CASE state = "TX" \/ (state = "RX_1" /\ radio = "sleep")
  <2>1. 1000 * want.delay \in Nat /\ 1000 * want.delay <= 16000  BY <1>3
  <2>2. QED  BY <1>2, <1>7, <1>8, <2>1 DEF ClockInv
<1>9. CASE state = "RX_1" /\ radio = "rx"
  <2>1. listen \in Nat /\ timer \in Nat /\ d <= listen /\ listen' = listen - d
        /\ timer' = timer - d
    BY <1>4, <1>5, <1>9 DEF PhaseInv, ClockInv
  <2>2. timer' \in Nat /\ since' + timer' >= Second
    BY <1>6, <1>7, <1>9, <2>1 DEF ClockInv
  <2>3. Short => since' + timer' = Second /\ listen' < timer'
    BY <1>3, <1>6, <1>7, <1>9, <2>1 DEF ClockInv
  <2>4. ~Short => since' + timer' > Second \/ receiving \/ listen' > timer'
    BY <1>3, <1>6, <1>7, <1>9, <2>1 DEF ClockInv
  <2>5. state' = "RX_1" /\ radio' = "rx" /\ receiving' = receiving  BY <1>2, <1>9
  <2>6. QED  BY <1>6, <2>2, <2>3, <2>4, <2>5 DEF ClockInv
<1>10. CASE state = "RX_2" /\ radio = "sleep"
  BY <1>2, <1>6, <1>7, <1>10 DEF ClockInv
<1>11. QED  BY <1>2, <1>8, <1>9, <1>10 DEF ClockInv, TypeOK

LEMMA ClockNext ==
    TypeOK /\ PhaseInv /\ RateInv /\ ClockInv /\ [Next]_vars => ClockInv'
<1> SUFFICES ASSUME TypeOK, PhaseInv, RateInv, ClockInv, [Next]_vars, agreed'
             PROVE  ClockInv'
  BY DEF ClockInv
<1>1. ASSUME NEW dr \in JoinRates, JoinRequest(dr) PROVE ClockInv'
  <2>1. want'.delay = 5 /\ activation' = "NONE"
    BY <1>1 DEF JoinRequest, JoinWindows, LORAMAC_DEFAULT_JOIN_DELAY1
  <2>2. QED  BY <1>1, <2>1, ClockSend DEF JoinRequest, SendPkt
<1>2. ASSUME DataSent, UNCHANGED <<activation, rx_delay>>, state' = "TX", radio' = "tx"
      PROVE  ClockInv'
  <2>1. activation # "NONE" /\ rx_delay = net.rx_delay /\ caught' = FALSE
    BY <1>2, Zenon DEF DataSent
  <2>2. want'.delay = net.rx_delay  BY <1>2 DEF DataSent, DataWindows
  <2>3. QED  BY <1>2, <2>1, <2>2, ClockSend
<1>3. ASSUME NEW dr \in DataRatesUsed, NEW confirmed \in BOOLEAN, DataRequest(dr, confirmed)
      PROVE  ClockInv'
  BY <1>2, <1>3 DEF DataRequest, SendPkt
<1>4. CASE Retransmit
  BY <1>2, <1>4 DEF Retransmit, SendPkt
<1>5. CASE TxComplete
  <2>1. state = "TX" /\ agreed /\ ~caught /\ state' = "RX_1" /\ radio' = "sleep" /\ since' = 0
        /\ UNCHANGED <<want, caught>>
    BY <1>5 DEF TxComplete, PhaseInv, ClockInv, uplink_vars
  <2>2. timer' = 1000 * want.delay
    BY <1>5, <2>1 DEF TxComplete, ClockInv, LORAMAC_DEFAULT_JOIN_DELAY1
  <2>3. timer' \in Nat /\ since' + timer' = 1000 * want'.delay
    BY <2>1, <2>2, SettingTypes
  <2>4. QED  BY <2>1, <2>3 DEF ClockInv
<1>6. CASE timer = 0 /\ OpenRxWindow /\ UNCHANGED since
  <2>1. /\ agreed /\ radio' = "rx" /\ UNCHANGED <<state, want, caught, since>>
        /\ state = "RX_1" => timer' = 1000
    BY <1>6 DEF OpenRxWindow, RxOn, uplink_vars
  <2>2. Second' = Second /\ (Short' <=> Short) /\ Second \in Nat
        /\ Second = 1000 * want.delay + 1000
    BY <2>1, SettingTypes DEF Second, Short
  <2>3. since \in Nat  BY WindowsAssumption DEF TypeOK
  <2>4. CASE state = "RX_1" /\ radio = "rx"
    <3>1. since >= Second  BY <1>6, <2>1, <2>3, <2>4 DEF ClockInv
    <3>2. ~Short
      <4>1. listen # NotSet  BY <2>4 DEF PhaseInv
      <4>2. listen \in Nat  BY <4>1 DEF TypeOK, Times
      <4>3. QED  BY <1>6, <2>1, <2>4, <4>2 DEF ClockInv
    <3>3. timer' \in Nat /\ since' + timer' > Second  BY <2>1, <2>2, <2>3, <2>4, <3>1
    <3>4. since' + timer' >= Second  BY <2>1, <2>2, <2>3, <2>4, <3>1
    <3>5. state' = "RX_1" /\ radio' = "rx"  BY <2>1, <2>4
    <3>6. QED  BY <2>2, <3>2, <3>3, <3>4, <3>5 DEF ClockInv
  <2>5. CASE state = "RX_1" /\ radio # "rx"
    <3>1. since = 1000 * want.delay /\ ~caught /\ radio_dr = want.rx1_dr
      <4>1. radio = "sleep"  BY <2>5 DEF PhaseInv, TypeOK
      <4>2. QED  BY <1>6, <2>1, <2>3, <2>5, <4>1 DEF ClockInv, RateInv
    <3>2. listen' = WindowMs(want.rx1_dr) /\ timer' = 1000
      BY <1>6, <2>1, <2>5, <3>1 DEF OpenRxWindow, RxOn
    <3>3. WindowMs(want.rx1_dr) \in Nat /\ WindowMs(want.rx1_dr) # 1000
      BY WindowLength DEF TypeOK, Windows
    <3>4. since' + timer' = Second  BY <2>1, <2>2, <2>3, <3>1, <3>2
    <3>5. Short <=> listen' < timer'  BY <3>1, <3>2, <3>3 DEF Short
    <3>6. ~Short => listen' > timer'  BY <3>2, <3>3, <3>5
    <3>7. timer' \in Nat /\ since' + timer' >= Second  BY <2>2, <3>2, <3>4
    <3>8. QED  BY <2>1, <2>2, <2>5, <3>4, <3>5, <3>6, <3>7 DEF ClockInv
  <2>6. CASE state # "RX_1"  BY <1>6, <2>1, <2>6 DEF ClockInv, OpenRxWindow
  <2>7. QED  BY <2>4, <2>5, <2>6
<1>7. CASE EventTimeout /\ Rx1Timeout
  <2>1. /\ agreed /\ state = "RX_1" /\ radio = "rx" /\ listen = 0 /\ ~receiving
        /\ state' = "RX_2" /\ radio' = "sleep" /\ UNCHANGED <<timer, since, want, caught>>
    BY <1>7 DEF EventTimeout, Rx1Timeout, uplink_vars
  <2>2. /\ timer \in Nat /\ (Short => since + timer = Second)
        /\ ~Short => since + timer > Second
    BY <2>1 DEF ClockInv
  <2>3. since \in Nat /\ Second \in Nat
    BY WindowsAssumption, SettingTypes DEF TypeOK, Second
  <2>4. timer \in Nat /\ (since + timer = Second <=> Short)  BY <2>2, <2>3
  <2>5. Second' = Second /\ (Short' <=> Short)  BY <2>1 DEF Second, Short
  <2>6. QED  BY <2>1, <2>4, <2>5 DEF ClockInv
<1>8. CASE EventTimeout /\ Rx2Timeout
  BY <1>8 DEF EventTimeout, Rx2Timeout, ClockInv
<1>9. CASE ProcessPkt
  BY <1>9 DEF ProcessPkt, ClockInv
<1>10. CASE FrameStarts
  <2>1. /\ agreed /\ radio = "rx" /\ receiving' /\ caught'
        /\ UNCHANGED <<state, timer, since, radio, want>>
    BY <1>10 DEF FrameStarts
  <2>2. ~Short' /\ Second' = Second  BY <2>1 DEF Short, Second
  <2>3. state # "TX"  BY <2>1 DEF PhaseInv
  <2>4. state = "RX_1" => timer \in Nat /\ since + timer >= Second
    BY <2>1 DEF ClockInv
  <2>5. QED  BY <2>1, <2>2, <2>3, <2>4 DEF ClockInv
<1>11. CASE Elapse
  BY <1>11, ClockElapse DEF Elapse, uplink_vars
<1>12. CASE SetActivation \/ SetRx2Dr \/ Reset
  BY <1>12 DEF SetActivation, SetRx2Dr, Reset
<1>13. CASE UNCHANGED vars
  BY <1>13
  DEF ClockInv, Short, Second, vars, mac_vars, radio_vars, uplink_vars
<1>14. QED
  BY Steps, <1>1, <1>3, <1>4, <1>5, <1>6, <1>7, <1>8, <1>9, <1>10, <1>11, <1>12, <1>13

LEMMA Invariant == Spec => []IInv
<1>1. Init => IInv
  <2> SUFFICES ASSUME Init PROVE IInv  OBVIOUS
  <2>1. PhaseInv  BY DEF Init, PhaseInv
  <2>2. SessionInv
    BY DEF Init, SessionInv, SettingsAgree, ValidateDr, GNRC_LORAWAN_DATARATES_NUMOF
  <2>3. RateInv /\ OffsetInv /\ ClockInv  BY DEF Init, RateInv, OffsetInv, ClockInv
  <2>4. QED  BY <2>1, <2>2, <2>3, TypeInit DEF IInv
<1>2. IInv /\ [Next]_vars => IInv'
  BY TypeNext, PhaseNext, SessionNext, RateNext, OffsetNext, ClockNext DEF IInv
<1>3. QED  BY <1>1, <1>2, PTL DEF Spec

-----------------------------------------------------------------------------
(* The properties *)

\* TypeOK of RxWindows: in particular the radio never leaves the data rates of
\* the region, whatever rate a join, an accept or the MIB asks for.
THEOREM TypeCorrect == Spec => []TypeOK
<1>1. IInv => TypeOK  BY DEF IInv
<1>2. QED  BY <1>1, Invariant, PTL

\* FirstWindowRate of RxWindows: whatever the offsets and rates, the first
\* window has the network's rate behind a frame of a session by join, and behind
\* other uplinks exactly if the last accept leaves nothing to subtract.
THEOREM FirstWindowCorrect == Spec => []FirstWindowRate
<1>1. IInv => FirstWindowRate
  <2> SUFFICES ASSUME TypeOK, OffsetInv, state = "RX_1", want.session # "none",
                      ValidateDr(last_dr)
               PROVE  radio_dr = want.rx1_dr
                          <=> want.session = "OTAA" \/ given = 0 \/ last_dr = 0
    BY DEF IInv, FirstWindowRate
  <2>1. radio_dr = Rx1DrOffset(last_dr, given)
        /\ want.rx1_dr = Rx1DrOffset(last_dr, IF want.session = "OTAA" THEN given ELSE 0)
    BY DEF OffsetInv
  <2>2. last_dr \in Nat /\ given \in Nat  BY DEF TypeOK
  <2>3. QED  BY <2>1, <2>2 DEF Rx1DrOffset
<1>2. QED  BY <1>1, Invariant, PTL

\* ListensAsAgreed of RxWindows: in both windows the radio listens at the rate
\* the network uses, behind every transmission the settings were agreed for.
THEOREM RatesCorrect == Spec => []ListensAsAgreed
<1>1. IInv => ListensAsAgreed
  <2> SUFFICES ASSUME PhaseInv, RateInv, radio = "rx", agreed
               PROVE  radio_dr = RateWanted \/ ~ValidateDr(RateWanted)
    BY DEF IInv, ListensAsAgreed
  <2>1. state \in {"RX_1", "RX_2"}  BY DEF PhaseInv
  <2>2. QED  BY <2>1 DEF RateInv, RateWanted
<1>2. QED  BY <1>1, Invariant, PTL

\* OpensOnTime of RxWindows: the windows open at the network's times, the second
\* one if and only if the first is over within a second and no frame was lost.
THEOREM TimesCorrect == Spec => OpensOnTime
<1> DEFINE A == radio = "sleep" /\ radio' = "rx" /\ agreed =>
         \/ state = "RX_1" /\ since = 1000 * want.delay
         \/ /\ state = "RX_2"
            /\ since = 1000 * want.delay + 1000 <=> WindowMs(want.rx1_dr) <= 1000 /\ ~caught
<1>1. IInv /\ [Next]_vars => [A]_vars
  <2> SUFFICES ASSUME TypeOK, PhaseInv, ClockInv, [Next]_vars,
                      radio = "sleep", radio' = "rx", agreed
               PROVE  A
    BY DEF IInv
  <2>1. timer = 0 /\ OpenRxWindow
    BY Steps
    DEF JoinRequest, DataRequest, SendPkt, TxComplete, Retransmit, EventTimeout, ProcessPkt,
        FrameStarts, Elapse, SetActivation, SetRx2Dr, Reset, vars, radio_vars
  <2>2. since \in Nat  BY WindowsAssumption DEF TypeOK
  <2>3. CASE state = "RX_1"  BY <2>1, <2>2, <2>3 DEF ClockInv
  <2>4. CASE state = "RX_2"
    <3>1. since = Second <=> Short  BY <2>1, <2>2, <2>4 DEF ClockInv
    <3>2. QED  BY <2>4, <3>1 DEF Second, Short
  <2>5. QED  BY <2>1, <2>3, <2>4 DEF OpenRxWindow
<1>2. QED  BY <1>1, Invariant, PTL DEF Spec, OpensOnTime

-----------------------------------------------------------------------------
(* The device as one of class A *)

WindowPhase ==
    CASE state = "IDLE" -> "idle"
      [] state = "TX" -> "tx"
      [] state = "RX_1" -> IF radio = "rx" THEN "rx_1" ELSE "gap_1"
      [] OTHER -> IF radio = "rx" THEN "rx_2" ELSE "gap_2"

Device == INSTANCE ClassA WITH phase <- WindowPhase

\* ClassA, with real time: whatever is reset or set in between, two windows
\* follow each transmission, also a first one that is too long for its second,
\* and the next transmission waits for their end.
THEOREM ClassARefinement == Spec => Device!Spec
<1>1. Init => Device!Init
  BY DEF Init, Device!Init, WindowPhase
<1>2. IInv /\ [Next]_vars => [Device!Next]_WindowPhase
  <2> SUFFICES ASSUME TypeOK, PhaseInv, [Next]_vars
               PROVE  Device!Next \/ UNCHANGED WindowPhase
    BY DEF IInv
  <2> USE DEF WindowPhase
  <2>1. ASSUME NEW dr \in JoinRates, JoinRequest(dr) PROVE Device!Transmit
    BY <2>1 DEF JoinRequest, AtRest, SendPkt, Device!Transmit
  <2>2. ASSUME NEW dr \in DataRatesUsed, NEW confirmed \in BOOLEAN,
               DataRequest(dr, confirmed)
        PROVE  Device!Transmit
    BY <2>2 DEF DataRequest, AtRest, SendPkt, Device!Transmit
  <2>3. CASE TxComplete
    <3>1. Device!EndTransmit  BY <2>3 DEF TxComplete, PhaseInv, Device!EndTransmit
    <3>2. QED  BY <3>1 DEF Device!Next
  <2>4. CASE timer = 0 /\ OpenRxWindow
    <3>1. \/ Device!OpenFirst \/ Device!OpenSecond \/ UNCHANGED WindowPhase
      BY <2>4 DEF OpenRxWindow, RxOn, Device!OpenFirst, Device!OpenSecond
    <3>2. QED  BY <3>1 DEF Device!Next
  <2>5. CASE Retransmit
    <3>1. Device!Transmit  BY <2>5 DEF Retransmit, SendPkt, Device!Transmit
    <3>2. QED  BY <3>1 DEF Device!Next
  <2>6. CASE EventTimeout /\ Rx1Timeout
    <3>1. Device!CloseFirst  BY <2>6 DEF EventTimeout, Rx1Timeout, Device!CloseFirst
    <3>2. QED  BY <3>1 DEF Device!Next
  <2>7. CASE EventTimeout /\ Rx2Timeout
    <3>1. Device!Finish  BY <2>7 DEF EventTimeout, Rx2Timeout, Device!Finish
    <3>2. QED  BY <3>1 DEF Device!Next
  <2>8. CASE ProcessPkt
    <3>1. Device!Finish  BY <2>8 DEF ProcessPkt, PhaseInv, Device!Finish
    <3>2. QED  BY <3>1 DEF Device!Next
  <2>9. CASE UNCHANGED <<state, radio>>
    BY <2>9
  <2>10. QED
    BY Steps, <2>1, <2>2, <2>3, <2>4, <2>5, <2>6, <2>7, <2>8, <2>9
    DEF FrameStarts, Elapse, SetActivation, SetRx2Dr, Reset, vars, radio_vars, Device!Next
<1>3. QED  BY <1>1, <1>2, Invariant, PTL DEF Spec, Device!Spec

-----------------------------------------------------------------------------
(* How an exchange comes to its end *)

\* An exchange under way has an event ahead of it.
EventAhead == state # "IDLE" => radio = "tx" \/ timer # NotSet \/ listen # NotSet

\* The timer fires in an open window, and so opens it anew, only in a first
\* window that is longer than a second or holds the one frame of the network.
FiresInWindow ==
    radio = "rx" /\ timer = 0 => state = "RX_1" /\ (LongWindow \/ receiving)

\* Both windows have their timer: the first one ends before it fires, but for
\* these two cases.
WindowInv ==
    /\ state = "RX_1" => timer # NotSet
    /\ state = "RX_2" => (radio = "rx" <=> timer = NotSet)
    /\ state = "RX_1" /\ radio = "rx" => LongWindow \/ receiving \/ listen < timer

LEMMA WindowElapse ==
    ASSUME TypeOK, PhaseInv, WindowInv, Elapse
    PROVE  WindowInv'
<1>1. PICK d \in Deadlines :
        /\ \A e \in Deadlines : d <= e
        /\ timer' = Later(timer, d) /\ listen' = Later(listen, d)
  BY DEF Elapse
<1>2. UNCHANGED <<state, radio, radio_dr, receiving>> /\ d \in Nat
  BY <1>1 DEF Elapse, Deadlines, TypeOK, Times
<1>3. ASSUME NEW t \in Times, t # NotSet => t \in Deadlines
      PROVE  /\ Later(t, d) = NotSet <=> t = NotSet
             /\ t # NotSet => Later(t, d) = t - d
  BY <1>1, <1>2, <1>3 DEF Later, Times, NotSet
<1>4. /\ timer' = NotSet <=> timer = NotSet
      /\ timer # NotSet => timer \in Nat /\ timer' = timer - d
      /\ listen # NotSet => listen \in Nat /\ listen' = listen - d
  BY <1>1, <1>3 DEF Deadlines, TypeOK, Times
<1>5. CASE state = "RX_1" /\ radio = "rx"
  <2>1. timer # NotSet /\ listen # NotSet  BY <1>5 DEF WindowInv, PhaseInv
  <2>2. LongWindow' <=> LongWindow  BY <1>2 DEF LongWindow
  <2>3. QED  BY <1>2, <1>4, <1>5, <2>1, <2>2 DEF WindowInv
<1>6. CASE ~(state = "RX_1" /\ radio = "rx")
  BY <1>2, <1>4, <1>6 DEF WindowInv
<1>7. QED  BY <1>5, <1>6

LEMMA WindowNext == TypeOK /\ PhaseInv /\ WindowInv /\ [Next]_vars => WindowInv'
<1> SUFFICES ASSUME TypeOK, PhaseInv, WindowInv, [Next]_vars PROVE WindowInv'  OBVIOUS
<1>1. ASSUME state' \in {"IDLE", "TX"} PROVE WindowInv'
  BY <1>1 DEF WindowInv
<1>2. CASE TxComplete
  <2>1. state' = "RX_1" /\ radio' = "sleep" /\ timer' \in Nat
    BY <1>2, SettingTypes DEF TxComplete, LORAMAC_DEFAULT_JOIN_DELAY1
  <2>2. QED  BY <2>1 DEF WindowInv, NotSet
<1>3. CASE timer = 0 /\ OpenRxWindow
  <2>1. /\ state \in {"RX_1", "RX_2"} /\ radio' = "rx" /\ UNCHANGED <<state, radio_dr>>
        /\ timer' = IF state = "RX_1" THEN 1000 ELSE NotSet
        /\ \/ listen' = WindowMs(radio_dr)
           \/ radio = "rx" /\ UNCHANGED <<listen, receiving>>
    BY <1>3 DEF OpenRxWindow, RxOn
  <2>2. ASSUME state = "RX_1"
        PROVE  LongWindow' \/ receiving' \/ listen' < timer'
    <3>1. LongWindow' <=> WindowMs(radio_dr) > 1000
      BY <2>1, <2>2 DEF LongWindow
    <3>2. CASE listen' = WindowMs(radio_dr)
      <4>1. WindowMs(radio_dr) \in Nat /\ WindowMs(radio_dr) # 1000
        BY WindowLength DEF TypeOK
      <4>2. QED  BY <2>1, <2>2, <3>1, <3>2, <4>1
    <3>3. CASE radio = "rx" /\ UNCHANGED <<listen, receiving>>
      <4>1. listen \in Nat  BY <3>3 DEF PhaseInv, TypeOK, Times
      <4>2. LongWindow \/ receiving  BY <1>3, <2>2, <3>3, <4>1 DEF WindowInv
      <4>3. QED  BY <2>1, <2>2, <3>1, <3>3, <4>2 DEF LongWindow
    <3>4. QED  BY <2>1, <3>2, <3>3
  <2>3. QED  BY <2>1, <2>2 DEF WindowInv, NotSet
<1>4. CASE EventTimeout /\ Rx1Timeout
  <2>1. state' = "RX_2" /\ radio' = "sleep" /\ timer' # NotSet
    BY <1>4 DEF EventTimeout, Rx1Timeout, WindowInv, NotSet
  <2>2. QED  BY <2>1 DEF WindowInv
<1>5. CASE FrameStarts
  <2>1. receiving' /\ UNCHANGED <<state, radio, timer>>
    BY <1>5 DEF FrameStarts
  <2>2. QED  BY <2>1 DEF WindowInv
<1>6. CASE Elapse  BY <1>6, WindowElapse
<1>7. CASE UNCHANGED <<state, timer, radio_vars>>
  BY <1>7 DEF WindowInv, LongWindow, radio_vars
<1>8. QED
  BY Steps, <1>1, <1>2, <1>3, <1>4, <1>5, <1>6, <1>7
  DEF JoinRequest, DataRequest, SendPkt, Retransmit, EventTimeout, Rx2Timeout, ProcessPkt,
      SetActivation, SetRx2Dr, Reset, vars

LEMMA WindowInvariant == Spec => []WindowInv
<1>1. Init => WindowInv  BY DEF Init, WindowInv
<1>2. IInv /\ WindowInv /\ [Next]_vars => WindowInv'  BY WindowNext DEF IInv
<1>3. QED  BY <1>1, <1>2, Invariant, PTL DEF Spec

\* No exchange is stranded: wherever it stands, the radio or the timer will
\* report, whatever is reset or set in between.
THEOREM AlwaysAhead == Spec => []EventAhead
<1>1. IInv /\ WindowInv => EventAhead
  BY DEF IInv, TypeOK, PhaseInv, WindowInv, EventAhead
<1>2. QED  BY <1>1, Invariant, WindowInvariant, PTL

\* With ClassARefinement this is why an exchange ends: no window is opened anew
\* but a long one, or one with the frame of the network, which sends no other.
THEOREM OpensOnce == Spec => []FiresInWindow
<1>1. IInv /\ WindowInv => FiresInWindow
  <2> SUFFICES ASSUME TypeOK, PhaseInv, WindowInv, radio = "rx", timer = 0
               PROVE  state = "RX_1" /\ (LongWindow \/ receiving)
    BY DEF IInv, FiresInWindow
  <2>1. state = "RX_1"  BY DEF PhaseInv, WindowInv, NotSet
  <2>2. listen \in Nat  BY DEF PhaseInv, TypeOK, Times
  <2>3. QED  BY <2>1, <2>2 DEF WindowInv
<1>2. QED  BY <1>1, Invariant, WindowInvariant, PTL
=============================================================================
