SPECIFICATION FairSpec
CHECK_DEADLOCK FALSE
CONSTANTS
    NBuffers = 3
    MaxFrames = 4
    Formats = {"YUYV", "MJPEG"}
    DropsSmall = FALSE
    Commands = 2
INVARIANTS
    TypeOK
    RingConserved
PROPERTIES
    PublishesNewFrames
    PicturesNeverGoBack
    CaptureNeverStalls
