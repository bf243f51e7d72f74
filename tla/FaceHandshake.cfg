SPECIFICATION FairSpec
CHECK_DEADLOCK FALSE
CONSTANTS
    NBuffers = 2
    SemMax = 2
    MaxDeaths = 2
INVARIANTS
    PublishesMarkedPictures
    FreesAtOnce
PROPERTIES
    NeverFarBack
    EveryPictureIsPublished
