SPECIFICATION Spec
CONSTANTS
    JoinRates = {0, 6}
    DataRatesUsed = {0, 2, 5}
    Settings <- MC_Settings
    Rx2Rates = {3}
    RETX = 1
    RetransmitDelays = {1000, 3047}
    FrameTimes = {100, 1200}
    MaxSince = 17001
INVARIANT
    TypeOK
    FirstWindowRate
    ListensAsAgreed
PROPERTY
    OpensOnTime
    ExchangeEnds
