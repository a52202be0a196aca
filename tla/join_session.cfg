SPECIFICATION Spec
CONSTANTS
    DefaultChannels <- MC_DefaultChannels
    CFLIST_END = 4
    MAX_CHANNELS = 5
    Frequencies <- MC_Frequencies
    DevNonces = {1, 2}
    MaxAccepts = 2
    AppKey = AppKey
    AbpKey = AbpKey
    CfLists <- MC_CfLists
    None = None
INVARIANT
    KeysAgree
    KeysPaired
    FindsNth
PROPERTY
    SearchEnds
    OnGrantedChannel
