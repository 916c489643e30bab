SPECIFICATION Spec
CONSTANTS
    Bytes = {"core", "comp", "big"}
    Components = {"comp", "big"}
    Oversized = {"big"}
    NoFile = NoFile
    NoDigest = NoDigest
    NoAbi = NoAbi
    Calls <- MCCalls
    Names <- MCNames
    MaxRuns = 2
    MaxSwaps = 1
INVARIANTS
    RunInv
    GatesHold
    ResultTellsTheRun
    VerdictsAreTrue
    ResidueKnown
PROPERTIES
    EveryRunReturns
