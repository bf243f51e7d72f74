SPECIFICATION FairSpec
CONSTANTS
    Clients = {c1, c2}
    MaxFrames = 1
    Numbered = FALSE
    Cam = Cam
    Nobody = Nobody
    DropsSmall = FALSE
PROPERTIES
    CameraGetsThrough
    WaitersAreServed
    ShutdownNeverHangs
