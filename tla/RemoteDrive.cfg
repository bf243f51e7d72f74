SPECIFICATION FairSpec
CONSTANTS
    MaxCommands = 3
    BufCommands = 2
    Others = {stop1, stop2}
INVARIANTS
    DrivesSentCommands
    AgreeUnlessOverlapped
PROPERTIES
    NeverBackwards
    EveryCommandIsDriven
