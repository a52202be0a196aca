SPECIFICATION Spec
CONSTANTS
    PayloadSizes = {0, 1, 50, 51, 192, 242}
    PartSizes = {0, 64, 128}
    FoptsSizes = {0, 2, 4, 6}
    BodySizes = {0, 1, 8}
INVARIANT
    LaidOut
    FrameFits
    AirTimeRight
    OptionsRead
PROPERTY
    OptionsEnd
