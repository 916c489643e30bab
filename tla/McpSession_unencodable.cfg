SPECIFICATION Spec
CONSTANTS
    Lines <- MCLines
    Tools = {"t1", "t2"}
    Bundled = {"t1"}
    MaxLines = 1
    MaxLineSize = 2
    MaxProposals = 0
INVARIANTS
    LinesNeverStopServe
