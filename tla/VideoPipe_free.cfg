SPECIFICATION Spec
CONSTANTS
    Clients = {c1, c2}
    MaxFrames = 3
    Numbered = TRUE
    Cam = Cam
    Nobody = Nobody
    DropsSmall = TRUE
SYMMETRY ClientSymmetry
INVARIANT
    HeldBufferIsAllocated
