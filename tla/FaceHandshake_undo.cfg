SPECIFICATION FairSpec
CONSTANTS
    NBuffers = 2
    SemMax = 3
    MaxDeaths = 0
PROPERTY
    StreamGoesOn
