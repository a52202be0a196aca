-------------------------- MODULE JoinSession_proofs --------------------------
(***************************************************************************)
(* Proofs about joins and the choice of a channel, for every number of     *)
(* channels, of accepts in the air and of device nonces.                   *)
(***************************************************************************)
EXTENDS JoinSession, FiniteSetTheorems, TLAPS

LEMMA ListBounds ==
    /\ DEFAULT_CHANNELS_NUMOF \in Nat /\ CFLIST_END \in Nat /\ MAX_CHANNELS \in Nat
    /\ DEFAULT_CHANNELS_NUMOF > 0 /\ DEFAULT_CHANNELS_NUMOF <= CFLIST_END
    /\ CFLIST_END <= MAX_CHANNELS
    /\ Indexes \subseteq Nat /\ CfIndexes \subseteq Indexes
BY RegionAssumption DEF Indexes, CfIndexes

-----------------------------------------------------------------------------
(* Channel lists *)

LEMMA InitialList ==
    /\ ChannelsInit \in ChannelList
    /\ \A j \in Indexes : ChannelsInit[j] \in DefaultFrequencies \cup {0}
    /\ DefaultFrequencies \subseteq Frequencies
<1> DEFINE defaults == 0 .. DEFAULT_CHANNELS_NUMOF - 1
<1>1. DefaultChannels \in [defaults -> Frequencies] /\ DOMAIN DefaultChannels = defaults
  BY RegionAssumption
<1>2. \A j \in Indexes : j < DEFAULT_CHANNELS_NUMOF => j \in defaults
  BY ListBounds DEF Indexes
<1> HIDE DEF defaults
<1>3. DefaultFrequencies \subseteq Frequencies  BY <1>1 DEF DefaultFrequencies
<1>4. \A j \in Indexes : j < DEFAULT_CHANNELS_NUMOF
                            => DefaultChannels[j] \in DefaultFrequencies
  BY <1>1, <1>2 DEF DefaultFrequencies
<1>5. \A j \in Indexes : ChannelsInit[j] =
                            IF j < DEFAULT_CHANNELS_NUMOF THEN DefaultChannels[j] ELSE 0
  BY DEF ChannelsInit
<1>6. \A j \in Indexes : ChannelsInit[j] \in DefaultFrequencies \cup {0}
  BY <1>4, <1>5
<1>7. ChannelsInit \in ChannelList
  BY <1>3, <1>4 DEF ChannelsInit, ChannelList
<1>8. QED  BY <1>3, <1>6, <1>7

\* A CFList sets the entries of CfIndexes and leaves the others alone.
LEMMA CflistSets ==
    ASSUME NEW c \in ChannelList, NEW l \in CfList
    PROVE  /\ ProcessCflist(c, l) \in ChannelList
           /\ \A j \in CfIndexes : ProcessCflist(c, l)[j] = l[j]
           /\ \A j \in Indexes \ CfIndexes : ProcessCflist(c, l)[j] = c[j]
BY ListBounds DEF ProcessCflist, ChannelList, CfList

\* The used entries of a list from the index k on.
Used(c, k) == {j \in Indexes : c[j] # 0 /\ j >= k}

LEMMA UsedFinite ==
    ASSUME NEW c, NEW k \in Nat
    PROVE  IsFiniteSet(Used(c, k)) /\ Cardinality(Used(c, k)) \in Nat
<1>1. IsFiniteSet(Indexes)  BY ListBounds, FS_Interval DEF Indexes
<1>2. IsFiniteSet(Used(c, k))  BY <1>1, FS_Subset DEF Used
<1>3. QED  BY <1>2, FS_CardinalityType

\* While used entries are left, the index is within the list, and passing a
\* used entry leaves one less.
LEMMA UsedLeft ==
    ASSUME NEW c, NEW k \in Nat, Cardinality(Used(c, k)) > 0
    PROVE  /\ k < MAX_CHANNELS
           /\ c[k] # 0 => Cardinality(Used(c, k + 1)) = Cardinality(Used(c, k)) - 1
<1>1. Used(c, k) # {}  BY FS_EmptySet
<1>2. k < MAX_CHANNELS  BY <1>1, ListBounds DEF Used, Indexes
<1>3. ASSUME c[k] # 0
      PROVE  Cardinality(Used(c, k + 1)) = Cardinality(Used(c, k)) - 1
  <2>1. k \in Used(c, k)  BY <1>2, <1>3, ListBounds DEF Used, Indexes
  <2>2. Used(c, k + 1) = Used(c, k) \ {k}  BY ListBounds DEF Used, Indexes
  <2>3. QED  BY <2>1, <2>2, UsedFinite, FS_RemoveElement
<1>4. QED  BY <1>2, <1>3

LEMMA UsedAll ==
    ASSUME NEW c
    PROVE  NumUsedChannels(c) = Cardinality(Used(c, 0)) /\ NumUsedChannels(c) \in Nat
<1>1. \A j \in Indexes : j >= 0  BY ListBounds
<1>9. Used(c, 0) = {j \in Indexes : c[j] # 0}  BY <1>1 DEF Used
<1>2. NumUsedChannels(c) = Cardinality(Used(c, 0))  BY <1>9 DEF NumUsedChannels
<1>3. QED  BY <1>2, UsedFinite

-----------------------------------------------------------------------------
(* The inductive invariant *)

\* The search has used entries left for what it still has to skip, and has
\* passed no other.
SearchInv ==
    n > 0 =>
        /\ n <= Cardinality(Used(channel, i)) /\ i + n = picked
        /\ \A j \in 0 .. i - 1 : channel[j] # 0
        /\ chan = IF i = 0 THEN 0 ELSE channel[i - 1]

\* The session keys are those of the accept that was taken and of the device
\* nonce of the last request.
SessionInv ==
    activation = "OTAA" =>
        /\ joined \in Accept
        /\ nwkskey = Derive(1, AppKey, joined.app_nonce, dev_nonce)
        /\ appskey = Derive(2, AppKey, joined.app_nonce, dev_nonce)

\* A key buffer is out of its pair only while it holds the AppKey.
PairInv ==
    /\ Paired \/ appskey = AppKey
    /\ activation = "OTAA" => Paired

\* Only the entries of a CFList ever differ from the default list, and they
\* are what the network granted if it sent a list.
ChannelInv ==
    /\ \A j \in Indexes \ CfIndexes : channel[j] = ChannelsInit[j]
    /\ granted # None => /\ DefaultFrequencies \subseteq granted
                        /\ \A j \in CfIndexes : channel[j] \in granted \cup {0}

IInv == TypeOK /\ SearchInv /\ SessionInv /\ PairInv /\ ChannelInv

-----------------------------------------------------------------------------
(* Type correctness *)

LEMMA SessionKeyType ==
    ASSUME NEW kind \in {1, 2}, NEW a \in AppNonces, NEW d \in DevNonces
    PROVE  /\ Derive(kind, AppKey, a, d) \in Key
           /\ Derive(kind, AppKey, a, d) # AppKey
<1>1. <<kind, AppKey, a, d>> \notin {AppKey, AbpKey}  BY JoinAssumption
<1>2. QED  BY <1>1 DEF Derive, Key

LEMMA TypeInit == Init => TypeOK
BY InitialList DEF Init, TypeOK, Key

LEMMA TypePick ==
    ASSUME TypeOK, PickChannel
    PROVE  n' \in Nat /\ i' \in Nat /\ picked' \in Nat /\ chan' \in Frequencies \cup {0}
BY UsedAll DEF PickChannel, TypeOK

LEMMA TypeTake ==
    ASSUME TypeOK, NEW a \in Accept, TakeAccept(a), UNCHANGED <<search, air, asked>>,
           flight' = None
    PROVE  TypeOK'
<1>1. a.app_nonce \in AppNonces /\ a.cflist \in CfLists \cup {None}  BY DEF Accept
<1>2. appskey' \in Key /\ nwkskey' \in Key
  BY <1>1, SessionKeyType DEF TakeAccept, MicValid, SessionKeys, TypeOK
<1>3. CfListsRead(a) \subseteq CfList  BY <1>1, JoinAssumption DEF CfListsRead
<1>4. channel' \in ChannelList  BY <1>3, CflistSets DEF TakeAccept, TypeOK
<1>5. granted' = None \/ granted' \subseteq Frequencies \cup {0}
  <2>1. CASE a.cflist = None  BY <2>1 DEF TakeAccept
  <2>2. CASE a.cflist # None
    <3>1. a.cflist \in CfList  BY <1>1, <2>2, JoinAssumption
    <3>2. \A j \in CfIndexes : a.cflist[j] \in Frequencies \cup {0}  BY <3>1 DEF CfList
    <3>3. QED  BY <2>2, <3>2, InitialList DEF TakeAccept
  <2>3. QED  BY <2>1, <2>2
<1>6. QED  BY <1>1, <1>2, <1>4, <1>5 DEF TakeAccept, TypeOK, search

LEMMA TypeNext == TypeOK /\ SearchInv /\ [Next]_vars => TypeOK'
<1> SUFFICES ASSUME TypeOK, SearchInv, [Next]_vars PROVE TypeOK'  OBVIOUS
<1>1. CASE UNCHANGED vars
  BY <1>1 DEF TypeOK, vars, session, search, network
<1>2. CASE Search
  <2>1. CASE SearchUsed
    <3>1. n > 0 /\ n <= Cardinality(Used(channel, i)) /\ i \in Nat /\ n \in Nat
      BY <1>2 DEF Search, SearchInv, TypeOK
    <3>2. i < MAX_CHANNELS  BY <3>1, UsedFinite, UsedLeft
    <3>3. channel[i] \in Frequencies \cup {0}
      BY <3>1, <3>2, ListBounds DEF TypeOK, ChannelList, Indexes
    <3>4. QED  BY <1>2, <2>1, <3>3 DEF Search, SearchUsed, TypeOK, session, network
  <2>2. CASE SearchUnused
    BY <1>2, <2>2 DEF Search, SearchUnused, TypeOK, session, network
  <2>3. QED  BY <1>2, <2>1, <2>2 DEF Search
<1>3. CASE JoinRequest
  BY <1>3, TypePick DEF JoinRequest, TypeOK, Key
<1>4. CASE SendData
  BY <1>4, TypePick DEF SendData, TypeOK, session
<1>5. CASE ReceiveAccept
  <2>1. PICK a \in air : TakeAccept(a) \/ RefuseAccept(a)  BY <1>5 DEF ReceiveAccept
  <2>2. a \in Accept  BY <2>1 DEF TypeOK
  <2>3. CASE TakeAccept(a)  BY <1>5, <2>2, <2>3, TypeTake DEF ReceiveAccept
  <2>4. CASE RefuseAccept(a)
    BY <1>5, <2>4 DEF ReceiveAccept, RefuseAccept, TypeOK, session, search
  <2>5. QED  BY <2>1, <2>3, <2>4
<1>6. CASE EndExchange  BY <1>6 DEF EndExchange, TypeOK, session, search
<1>7. CASE SetActivation  BY <1>7 DEF SetActivation, TypeOK, search, network
<1>8. CASE SetDevAddr  BY <1>8 DEF SetDevAddr, TypeOK, search, network
<1>9. CASE Reset  BY <1>9, InitialList DEF Reset, TypeOK, search
<1>10. CASE NetworkAnswers  BY <1>10 DEF NetworkAnswers, TypeOK, session, search
<1>11. QED
  BY <1>1, <1>2, <1>3, <1>4, <1>5, <1>6, <1>7, <1>8, <1>9, <1>10 DEF Next, Call

-----------------------------------------------------------------------------
(* Each part of the invariant is preserved *)

LEMMA SearchStep ==
    ASSUME TypeOK, SearchInv, Search
    PROVE  /\ SearchInv'
           /\ n' = 0 => channel[i] # 0 /\ chan' = channel[i] /\ i \in Indexes
<1>1. /\ n > 0 /\ n <= Cardinality(Used(channel, i)) /\ i \in Nat /\ n \in Nat
      /\ picked \in Nat /\ i + n = picked /\ \A j \in 0 .. i - 1 : channel[j] # 0
  BY DEF Search, SearchInv, TypeOK
<1>2. Cardinality(Used(channel, i)) \in Nat  BY <1>1, UsedFinite
<1>3. i < MAX_CHANNELS  BY <1>1, <1>2, UsedLeft
<1>4. channel' = channel /\ picked' = picked  BY DEF Search, session
<1>5. CASE SearchUsed
  <2>1. n' = n - 1 /\ i' = i + 1 /\ chan' = channel[i] /\ channel[i] # 0
    BY <1>5 DEF SearchUsed
  <2>2. n' <= Cardinality(Used(channel', i'))
    BY <1>1, <1>2, <1>4, <2>1, UsedLeft
  <2>3. i' + n' = picked' /\ \A j \in 0 .. i' - 1 : channel'[j] # 0
    BY <1>1, <1>4, <2>1
  <2>4. chan' = channel'[i' - 1] /\ i' # 0  BY <1>1, <1>4, <2>1
  <2>5. QED  BY <1>1, <1>3, <2>1, <2>2, <2>3, <2>4, ListBounds DEF SearchInv, Indexes
<1>6. CASE SearchUnused
  BY <1>1, <1>4, <1>6 DEF SearchUnused, SearchInv
<1>7. QED  BY <1>5, <1>6 DEF Search

LEMMA SearchPick ==
    ASSUME TypeOK, PickChannel, UNCHANGED channel
    PROVE  SearchInv'
<1>1. n' <= Cardinality(Used(channel, 0)) /\ i' = 0 /\ chan' = 0 /\ picked' = n' /\ n' \in Nat
  BY UsedAll DEF PickChannel
<1>2. n' <= Cardinality(Used(channel', i'))  BY <1>1
<1>3. \A j \in 0 .. i' - 1 : channel'[j] # 0  BY <1>1
<1>4. i' + n' = picked'
  <2>1. \A x \in Nat : 0 + x = x  OBVIOUS
  <2>2. QED  BY <1>1, <2>1, Zenon
<1>5. QED  BY <1>1, <1>2, <1>3, <1>4 DEF SearchInv

LEMMA SearchNext == TypeOK /\ SearchInv /\ [Next]_vars => SearchInv'
<1> SUFFICES ASSUME TypeOK, SearchInv, [Next]_vars PROVE SearchInv'  OBVIOUS
<1>1. CASE Search  BY <1>1, SearchStep
<1>2. CASE JoinRequest  BY <1>2, SearchPick DEF JoinRequest
<1>3. CASE SendData  BY <1>3, SearchPick DEF SendData, session
<1>4. CASE n = 0 /\ UNCHANGED search  BY <1>4 DEF SearchInv, search
<1>5. CASE UNCHANGED <<channel, search>>  BY <1>5 DEF SearchInv, search
<1>6. QED
  BY <1>1, <1>2, <1>3, <1>4, <1>5
  DEF Next, Call, vars, session, NetworkAnswers, ReceiveAccept, EndExchange,
      SetActivation, SetDevAddr, Reset

LEMMA SessionNext == TypeOK /\ SessionInv /\ [Next]_vars => SessionInv'
<1> SUFFICES ASSUME TypeOK, SessionInv, [Next]_vars, activation' = "OTAA"
             PROVE  SessionInv'
  BY DEF SessionInv
<1>1. CASE ReceiveAccept
  <2>1. PICK a \in air : TakeAccept(a) \/ RefuseAccept(a)  BY <1>1 DEF ReceiveAccept
  <2>2. CASE TakeAccept(a)
    <3>1. a \in Accept  BY <2>1 DEF TypeOK
    <3>2. QED  BY <2>2, <3>1 DEF TakeAccept, MicValid, SessionKeys, SessionInv
  <2>3. CASE RefuseAccept(a)  BY <2>3 DEF RefuseAccept, SessionInv, session
  <2>4. QED  BY <2>1, <2>2, <2>3
<1>2. CASE SetDevAddr  BY <1>2 DEF SetDevAddr, SessionInv, network
<1>3. CASE UNCHANGED <<session, joined>>  BY <1>3 DEF SessionInv, session
<1>4. QED
  BY <1>1, <1>2, <1>3
  DEF Next, Call, vars, network, Search, NetworkAnswers, JoinRequest, SendData,
      EndExchange, SetActivation, Reset

LEMMA PairNext == TypeOK /\ PairInv /\ [Next]_vars => PairInv'
<1> SUFFICES ASSUME TypeOK, PairInv, [Next]_vars
             PROVE  PairInv'
  OBVIOUS
<1>1. CASE ReceiveAccept
  <2>1. PICK a \in air : TakeAccept(a) \/ RefuseAccept(a)  BY <1>1 DEF ReceiveAccept
  <2>2. CASE TakeAccept(a)
    <3>1. a.app_nonce \in AppNonces /\ dev_nonce \in DevNonces
      BY <2>1 DEF TypeOK, Accept
    <3>2. /\ nwkskey' = Derive(1, AppKey, a.app_nonce, dev_nonce)
          /\ appskey' = Derive(2, AppKey, a.app_nonce, dev_nonce)
      BY <2>2 DEF TakeAccept, MicValid, SessionKeys
    <3>3. Paired'  BY <3>1, <3>2 DEF Paired
    <3>4. QED  BY <3>3 DEF PairInv
  <2>3. CASE RefuseAccept(a)  BY <2>3 DEF RefuseAccept, PairInv, Paired, session
  <2>4. QED  BY <2>1, <2>2, <2>3
<1>2. CASE JoinRequest  BY <1>2 DEF JoinRequest, PairInv
<1>3. CASE UNCHANGED <<nwkskey, appskey>> /\ (activation' = "OTAA" => activation = "OTAA")
  BY <1>3 DEF PairInv, Paired
<1>4. QED
  BY <1>1, <1>2, <1>3
  DEF Next, Call, vars, session, network, Search, NetworkAnswers, SendData,
      EndExchange, SetActivation, SetDevAddr, Reset

LEMMA ChannelInit ==
    ASSUME channel = ChannelsInit, granted = DefaultFrequencies
    PROVE  ChannelInv
BY InitialList, ListBounds DEF ChannelInv

LEMMA ChannelTake ==
    ASSUME TypeOK, ChannelInv, NEW a \in Accept, TakeAccept(a)
    PROVE  ChannelInv'
<1>1. PICK l \in CfListsRead(a) : channel' = ProcessCflist(channel, l)  BY DEF TakeAccept
<1>2. a.cflist \in CfLists \cup {None}  BY DEF Accept
<1>3. l \in CfList  BY <1>1, <1>2, JoinAssumption DEF CfListsRead
<1>4. /\ \A j \in CfIndexes : channel'[j] = l[j]
      /\ \A j \in Indexes \ CfIndexes : channel'[j] = channel[j]
  BY <1>1, <1>3, CflistSets DEF TypeOK
<1>5. CASE a.cflist = None
  BY <1>4, <1>5 DEF ChannelInv, TakeAccept
<1>6. CASE a.cflist # None
  <2>1. l = a.cflist  BY <1>1, <1>6 DEF CfListsRead
  <2>2. granted' = DefaultFrequencies \cup {a.cflist[j] : j \in CfIndexes}
    BY <1>6 DEF TakeAccept
  <2>3. QED  BY <1>4, <2>1, <2>2 DEF ChannelInv
<1>7. QED  BY <1>5, <1>6

LEMMA ChannelNext == TypeOK /\ ChannelInv /\ [Next]_vars => ChannelInv'
<1> SUFFICES ASSUME TypeOK, ChannelInv, [Next]_vars PROVE ChannelInv'  OBVIOUS
<1>1. CASE ReceiveAccept
  <2>1. PICK a \in air : TakeAccept(a) \/ RefuseAccept(a)  BY <1>1 DEF ReceiveAccept
  <2>2. CASE TakeAccept(a)  BY <2>1, <2>2, ChannelTake DEF TypeOK
  <2>3. CASE RefuseAccept(a)  BY <2>3 DEF RefuseAccept, ChannelInv, session
  <2>4. QED  BY <2>1, <2>2, <2>3
<1>2. CASE Reset
  <2>1. channel' = ChannelsInit /\ granted' = DefaultFrequencies  BY <1>2 DEF Reset
  <2>2. QED  BY <2>1, InitialList, ListBounds DEF ChannelInv
<1>3. CASE UNCHANGED <<channel, granted>>  BY <1>3 DEF ChannelInv
<1>4. QED
  BY <1>1, <1>2, <1>3
  DEF Next, Call, vars, session, network, Search, NetworkAnswers, JoinRequest, SendData,
      EndExchange, SetActivation, SetDevAddr

LEMMA Invariant == Spec => []IInv
<1>1. Init => IInv
  <2> SUFFICES ASSUME Init PROVE IInv  OBVIOUS
  <2>1. SearchInv /\ SessionInv /\ PairInv
    BY DEF Init, SearchInv, SessionInv, PairInv, Paired
  <2>2. ChannelInv  BY ChannelInit DEF Init
  <2>3. QED  BY <2>1, <2>2, TypeInit DEF IInv
<1>2. IInv /\ [Next]_vars => IInv'
  BY TypeNext, SearchNext, SessionNext, PairNext, ChannelNext DEF IInv
<1>3. QED  BY <1>1, <1>2, PTL DEF Spec

-----------------------------------------------------------------------------
(* The properties *)

\* TypeOK of JoinSession: in particular the search never reads behind the list.
THEOREM TypeCorrect == Spec => []TypeOK
<1>1. IInv => TypeOK  BY DEF IInv
<1>2. QED  BY <1>1, Invariant, PTL

\* KeysAgree of JoinSession: the device shares the session keys with the network
\* exactly when the accept it took answers its last request.
THEOREM KeysCorrect == Spec => []KeysAgree
<1>1. IInv => KeysAgree
  <2> SUFFICES ASSUME TypeOK, SessionInv, activation = "OTAA"
               PROVE  <<nwkskey, appskey>> = NetworkKeys(joined)
                          <=> joined.dev_nonce = dev_nonce
    BY DEF IInv, KeysAgree
  <2>1. /\ nwkskey = <<1, AppKey, joined.app_nonce, dev_nonce>>
        /\ appskey = <<2, AppKey, joined.app_nonce, dev_nonce>>
    BY DEF SessionInv, Derive
  <2>2. QED  BY <2>1 DEF NetworkKeys
<1>2. QED  BY <1>1, Invariant, PTL

\* KeysPaired of JoinSession: the two keys of a session belong together, but for
\* a personalised session under the AppKey that a failed join left behind.
THEOREM PairCorrect == Spec => []KeysPaired
<1>1. IInv => KeysPaired  BY DEF IInv, TypeOK, PairInv, KeysPaired
<1>2. QED  BY <1>1, Invariant, PTL

\* FindsNth of JoinSession, for a channel list of any length and content: the
\* search stays within the list, and only a hole in the list can stop it.
THEOREM SearchCorrect == Spec => []FindsNth
<1>1. IInv => FindsNth
  <2> SUFFICES ASSUME TypeOK, SearchInv, n > 0
               PROVE  i < MAX_CHANNELS /\ (channel[i] # 0 \/ Hole)
    BY DEF IInv, SearchInv, FindsNth
  <2>1. i \in Nat /\ Cardinality(Used(channel, i)) > 0
    BY UsedFinite DEF SearchInv, TypeOK
  <2>2. i < MAX_CHANNELS  BY <2>1, UsedLeft
  <2>3. PICK k \in Indexes : channel[k] # 0 /\ k >= i
    BY <2>1, FS_EmptySet DEF Used
  <2>4. channel[i] = 0 => Hole
    <3>1. i \in Indexes /\ k \in Nat  BY <2>1, <2>2, ListBounds DEF Indexes
    <3>2. CASE k = i  BY <2>3, <3>2
    <3>3. CASE k # i
      <4>1. i < k  BY <2>1, <2>3, <3>1, <3>3
      <4>2. QED  BY <2>3, <3>1, <4>1 DEF Hole
    <3>4. QED  BY <3>2, <3>3
  <2>5. QED  BY <2>2, <2>4
<1>2. QED  BY <1>1, Invariant, PTL

\* OnGrantedChannel of JoinSession: every transmission is on a frequency the
\* network granted, but for the channels of a CFList that was not sent.
THEOREM GrantedCorrect == Spec => OnGrantedChannel
<1> DEFINE Right == IF granted = None THEN i \in CfIndexes \/ chan' \in DefaultFrequencies
                    ELSE chan' \in granted
<1>1. IInv /\ [Next]_vars => [n > 0 /\ n' = 0 => Right]_vars
  <2> SUFFICES ASSUME IInv, [Next]_vars, n > 0, n' = 0
               PROVE  Right
    OBVIOUS
  <2>1. Search
    BY DEF IInv, TypeOK, Next, vars, search, NetworkAnswers
  <2>2. chan' = channel[i] /\ channel[i] # 0 /\ i \in Indexes
    BY <2>1, SearchStep DEF IInv
  <2>3. CASE i \in CfIndexes  BY <2>2, <2>3 DEF IInv, ChannelInv
  <2>4. CASE i \notin CfIndexes
    BY <2>2, <2>4, InitialList DEF IInv, ChannelInv
  <2>5. QED  BY <2>3, <2>4
<1>2. QED  BY <1>1, Invariant, PTL DEF Spec, OnGrantedChannel
=============================================================================
