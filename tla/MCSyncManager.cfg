CONSTANTS
    Nil = Nil
    WindowSize = 2
    MaxHeight = 2
    MaxLag = 1
    MaxFaults = 1
    MaxCrashes = 1
SPECIFICATION FairSpec
INVARIANTS TypeOK LogIsChainPrefix NoLostWakeup WindowIsSound
PROPERTIES ImplementsIndexLog CatchUp
