---------------------------- MODULE JoinSession ----------------------------
(***************************************************************************)
(* What a join leaves behind: session keys, device address and channels,   *)
(* and the channel each transmission picks.                                *)
(*                                                                         *)
(* Keys are symbolic: a session key is the tuple gnrc_lorawan_generate_    *)
(* session_keys encrypts.  A join accept names no request, so one that the *)
(* network sent for an earlier request may come late or twice: every       *)
(* accept stays in the air.  The search for a channel is a step per turn   *)
(* of its loop; nothing else runs meanwhile.                               *)
(***************************************************************************)
EXTENDS Region

CONSTANTS
    DevNonces,      \* values of mlme.dev_nonce
    MaxAccepts,     \* bound on the accepts the network makes
    AppKey,         \* the key of MLME_JOIN
    AbpKey,         \* the keys the upper layer has put in the key buffers
    CfLists,        \* CFLists the network sends
    None            \* no CFList, no exchange, no accept, an address set by hand

AppNonces == 1 .. MaxAccepts
Accept == [app_nonce : AppNonces, dev_nonce : DevNonces, cflist : CfLists \cup {None}]
Key == {AppKey, AbpKey} \cup ({1, 2} \X {AppKey, AbpKey} \X AppNonces \X DevNonces)

ASSUME JoinAssumption ==
    /\ CfLists \subseteq CfList
    /\ None \notin CfList \cup AppNonces \cup DevNonces \cup Accept \cup {"join", "data"}
    /\ MaxAccepts \in Nat /\ DevNonces # {}
    /\ AppKey # AbpKey
    /\ \A kind \in {1, 2}, key \in {AppKey, AbpKey}, a \in AppNonces, d \in DevNonces :
            <<kind, key, a, d>> \notin {AppKey, AbpKey}

VARIABLES
    activation,       \* mlme.activation
    dev_nonce,        \* mlme.dev_nonce
    appskey, nwkskey, \* the key buffers; appskey holds the AppKey during a join
    dev_addr,         \* the accept it came with, or None
    channel,          \* mac->channel
    n, i, chan,       \* _get_nth_channel: n, i and channel
    picked,           \* the n of the last search
    flight,           \* external: exchange under way, None, "join" or "data"
    air,              \* external: accepts the network has made
    asked,            \* external: dev_nonce of the request the network has still to answer
    joined,           \* the accept of the last successful join, or None
    granted           \* the frequencies the network has granted; None: it sent no list

session == <<activation, dev_nonce, appskey, nwkskey, dev_addr, channel>>
search == <<n, i, chan, picked>>
network == <<flight, air, asked, joined, granted>>
vars == <<session, search, network>>

Init ==
    /\ activation = "NONE"
    /\ dev_nonce \in DevNonces
    /\ appskey = AbpKey /\ nwkskey = AbpKey
    /\ dev_addr = None
    /\ channel = ChannelsInit
    /\ n = 0 /\ i = 0 /\ chan = 0 /\ picked = 0
    /\ flight = None /\ air = {} /\ asked = None
    /\ joined = None /\ granted = DefaultFrequencies

-----------------------------------------------------------------------------
(* The choice of a channel *)

\* gnrc_lorawan_pick_channel: a random number of used channels is skipped.
PickChannel ==
    /\ n' \in 1 .. NumUsedChannels(channel)
    /\ i' = 0 /\ chan' = 0
    /\ picked' = n'

\* Mutated form of SearchUsed: the search goes on past the channel it found.
SearchUsedLate ==
    /\ channel[i] # 0
    /\ chan' = channel[i] /\ i' = i + 1
    /\ n' = IF i = 0 THEN n ELSE n - 1

\* _get_nth_channel, a turn of the loop that finds a used channel.
SearchUsed ==
    /\ channel[i] # 0
    /\ n' = n - 1 /\ chan' = channel[i] /\ i' = i + 1

\* _get_nth_channel, a turn at an unused entry: i stays where it is.
SearchUnused ==
    /\ channel[i] = 0
    /\ UNCHANGED <<n, chan, i>>

Search ==
    /\ n > 0
    /\ SearchUsed \/ SearchUnused
    /\ UNCHANGED <<session, picked, network>>

-----------------------------------------------------------------------------
(* The join *)

\* gnrc_lorawan_mlme_request, MLME_JOIN, accepted (the budget is BackoffDay's):
\* the AppKey takes the place of the application session key.
JoinRequest ==
    /\ activation = "NONE" /\ flight = None
    /\ dev_nonce' \in DevNonces
    /\ appskey' = AppKey
    /\ flight' = "join" /\ asked' = dev_nonce'
    /\ PickChannel
    /\ UNCHANGED <<activation, nwkskey, dev_addr, channel, air, joined, granted>>

\* gnrc_lorawan_mcps_request, accepted; a retransmission picks anew likewise.
SendData ==
    /\ activation # "NONE" /\ flight \in {None, "data"}
    /\ flight' = "data"
    /\ PickChannel
    /\ UNCHANGED <<session, air, asked, joined, granted>>

\* The network answers the request, soon or late; it may do so once.
NetworkAnswers ==
    /\ asked # None
    /\ \E a \in Accept :
        /\ a.app_nonce = Cardinality(air) + 1 /\ a.dev_nonce = asked
        /\ air' = air \cup {a}
    /\ asked' = None
    /\ UNCHANGED <<session, search, flight, joined, granted>>

\* Mutated form of Derive: the two keys of a session are the same.
DeriveOneKey(kind, key, app_nonce, nonce) == <<1, key, app_nonce, nonce>>

\* gnrc_lorawan_generate_session_keys, one key: 1 makes the network session
\* key and 2 the application session key.
Derive(kind, key, app_nonce, nonce) == <<kind, key, app_nonce, nonce>>

\* Mutated form of SessionKeys: the application session key is forgotten.
SessionKeysNetworkOnly(a) ==
    /\ nwkskey' = Derive(1, appskey, a.app_nonce, dev_nonce)
    /\ UNCHANGED appskey

\* The session keys from the accept a: the AppKey is in the buffer of one of them.
SessionKeys(a) ==
    /\ nwkskey' = Derive(1, appskey, a.app_nonce, dev_nonce)
    /\ appskey' = Derive(2, appskey, a.app_nonce, dev_nonce)

\* has_cflist holds for both sizes of an accept.  In a short one the bytes
\* read for the list are its MIC and, deciphered, what lies behind the packet.
CfListsRead(a) == IF a.cflist = None THEN CfList ELSE {a.cflist}

\* The MIC of an accept is that of the key the appskey buffer holds.
MicValid(a) == appskey = AppKey

\* gnrc_lorawan_mlme_process_join of an accept it takes.
TakeAccept(a) ==
    /\ activation = "NONE" /\ MicValid(a)
    /\ SessionKeys(a)
    /\ dev_addr' = a.app_nonce
    /\ \E cflist \in CfListsRead(a) : channel' = ProcessCflist(channel, cflist)
    /\ activation' = "OTAA"
    /\ joined' = a
    /\ granted' = IF a.cflist = None THEN None
                  ELSE DefaultFrequencies \cup {a.cflist[j] : j \in CfIndexes}
    /\ UNCHANGED dev_nonce

\* gnrc_lorawan_mlme_process_join of one it refuses.
RefuseAccept(a) ==
    /\ activation # "NONE" \/ ~MicValid(a)
    /\ UNCHANGED <<session, joined, granted>>

\* A window of an exchange receives an accept, or nothing.
ReceiveAccept ==
    /\ flight # None
    /\ \E a \in air : TakeAccept(a) \/ RefuseAccept(a)
    /\ flight' = None
    /\ UNCHANGED <<search, air, asked>>

EndExchange ==
    /\ flight # None
    /\ flight' = None
    /\ UNCHANGED <<session, search, air, asked, joined, granted>>

-----------------------------------------------------------------------------
(* MIB and reset *)

\* _mlme_set of MIB_ACTIVATION_METHOD, accepted.
SetActivation ==
    /\ activation' \in {"NONE", "ABP"}
    /\ UNCHANGED <<dev_nonce, appskey, nwkskey, dev_addr, channel, search, network>>

\* _mlme_set of MIB_DEV_ADDR
SetDevAddr ==
    /\ dev_addr' = None
    /\ UNCHANGED <<activation, dev_nonce, appskey, nwkskey, channel, search, network>>

\* Mutated form of Reset: the channels of the last session stay.
ResetKeepsChannels ==
    /\ activation' = "NONE"
    /\ granted' = DefaultFrequencies
    /\ UNCHANGED <<dev_nonce, appskey, nwkskey, dev_addr, channel, search, flight, air,
                   asked, joined>>

\* gnrc_lorawan_reset
Reset ==
    /\ activation' = "NONE"
    /\ channel' = ChannelsInit
    /\ granted' = DefaultFrequencies
    /\ UNCHANGED <<dev_nonce, appskey, nwkskey, dev_addr, search, flight, air, asked, joined>>

Call ==
    \/ JoinRequest \/ SendData \/ ReceiveAccept \/ EndExchange
    \/ SetActivation \/ SetDevAddr \/ Reset

Next ==
    \/ Search
    \/ n = 0 /\ Call
    \/ NetworkAnswers

Spec == Init /\ [][Next]_vars /\ WF_vars(Search)

-----------------------------------------------------------------------------
TypeOK ==
    /\ activation \in {"NONE", "ABP", "OTAA"} /\ dev_nonce \in DevNonces
    /\ appskey \in Key /\ nwkskey \in Key /\ dev_addr \in AppNonces \cup {None}
    /\ channel \in ChannelList
    /\ n \in Nat /\ i \in Nat /\ picked \in Nat /\ chan \in Frequencies \cup {0}
    /\ flight \in {None, "join", "data"} /\ air \subseteq Accept
    /\ asked \in DevNonces \cup {None} /\ joined \in Accept \cup {None}
    /\ granted = None \/ granted \subseteq Frequencies \cup {0}

\* The keys of the session the network opened with the accept a.
NetworkKeys(a) == <<<<1, AppKey, a.app_nonce, a.dev_nonce>>, <<2, AppKey, a.app_nonce, a.dev_nonce>>>>

\* A device that has joined holds the keys of the session the network opened
\* for it, after any number of failed joins, resets and sessions, if and only
\* if the accept it took answers its last request: accepts are not told apart.
KeysAgree ==
    activation = "OTAA" =>
        (<<nwkskey, appskey>> = NetworkKeys(joined) <=> joined.dev_nonce = dev_nonce)

\* The two keys belong together: both set by hand, or from one accept.
Paired ==
    \/ nwkskey = AbpKey /\ appskey = AbpKey
    \/ \E a \in AppNonces, d \in DevNonces :
          nwkskey = Derive(1, AppKey, a, d) /\ appskey = Derive(2, AppKey, a, d)

\* A session runs under two keys that belong together, after any sequence of
\* joins, resets and personalised sessions, but for one: a join that fails puts
\* the AppKey beside the network session key of the session before, and a device
\* activated by personalisation afterwards sends its data under the AppKey.
KeysPaired ==
    activation # "NONE" => Paired \/ (activation = "ABP" /\ appskey = AppKey)

\* An unused entry in front of a used one.
Hole == \E j, k \in Indexes : j < k /\ channel[j] = 0 /\ channel[k] # 0

\* A search that is asked for a used channel stays within the list and passes
\* used entries only, so the one it ends at is the n-th, if it ends at all: at
\* an unused entry it stays for ever, but no list without a hole brings it to
\* one.
FindsNth ==
    n > 0 =>
        /\ i < MAX_CHANNELS /\ i + n = picked
        /\ \A j \in 0 .. i - 1 : channel[j] # 0
        /\ chan = IF i = 0 THEN 0 ELSE channel[i - 1]
        /\ channel[i] # 0 \/ Hole

\* Every search ends if the channel list has no hole.
SearchEnds == n > 0 /\ ~Hole ~> n = 0

\* A transmission is made on a frequency the network has granted.  After an
\* accept without a CFList the channels of one come from bytes nobody wrote, and
\* the search may end there; but the default channels and those behind the list
\* are right even then, and a reset puts everything right.
OnGrantedChannel ==
    [][n > 0 /\ n' = 0 =>
          IF granted = None THEN i \in CfIndexes \/ chan' \in DefaultFrequencies
          ELSE chan' \in granted]_vars
=============================================================================
