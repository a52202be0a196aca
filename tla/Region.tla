------------------------------- MODULE Region -------------------------------
(***************************************************************************)
(* The regional parameters: the channel list of mac->channel, in which 0   *)
(* is an unused entry, and what a CFList does to it.                       *)
(***************************************************************************)
EXTENDS Integers, FiniteSets

CONSTANTS
    DefaultChannels,   \* gnrc_lorawan_default_channels, from index 0
    CFLIST_END,        \* one past the last channel a CFList sets, 8
    MAX_CHANNELS,      \* GNRC_LORAWAN_MAX_CHANNELS
    Frequencies        \* frequencies in use anywhere

DEFAULT_CHANNELS_NUMOF == Cardinality(DOMAIN DefaultChannels)
Indexes == 0 .. MAX_CHANNELS - 1
CfIndexes == DEFAULT_CHANNELS_NUMOF .. CFLIST_END - 1
DefaultFrequencies == {DefaultChannels[i] : i \in DOMAIN DefaultChannels}

ASSUME RegionAssumption ==
    /\ CFLIST_END \in Nat /\ MAX_CHANNELS \in Nat
    /\ DEFAULT_CHANNELS_NUMOF \in 1 .. CFLIST_END /\ CFLIST_END <= MAX_CHANNELS
    /\ DefaultChannels \in [0 .. DEFAULT_CHANNELS_NUMOF - 1 -> Frequencies]
    /\ 0 \notin Frequencies

\* A channel list, and the five entries of a CFList by the channel they set.
ChannelList == [Indexes -> Frequencies \cup {0}]
CfList == [CfIndexes -> Frequencies \cup {0}]

\* gnrc_lorawan_channels_init
ChannelsInit ==
    [i \in Indexes |-> IF i < DEFAULT_CHANNELS_NUMOF THEN DefaultChannels[i] ELSE 0]

\* gnrc_lorawan_process_cflist.  The type of the list is not looked at.
ProcessCflist(channel, cflist) ==
    [i \in Indexes |-> IF i \in CfIndexes THEN cflist[i] ELSE channel[i]]

\* Mutated form of NumUsedChannels: every entry is counted.
NumUsedChannelsAll(channel) == Cardinality(Indexes)

\* _get_num_used_channels
NumUsedChannels(channel) == Cardinality({i \in Indexes : channel[i] # 0})
=============================================================================
