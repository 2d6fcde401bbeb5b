CONSTANTS
    NoHeight = NoHeight
    LostReplies = TRUE
    UniqueHeights = {1, 2}
    MaxStored = 3
    MaxErrors = 3
    MaxRestarts = 2
SPECIFICATION RunnerSpec
INVARIANT RepeatsNeedFailures
PROPERTIES ViewImplementsIndexLog HandlesEverything
