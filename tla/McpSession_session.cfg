SPECIFICATION Spec
CONSTANTS
    Lines <- MCLines
    Tools = {"t1", "t2"}
    Bundled = {"t1"}
    MaxLines = 2
    MaxLineSize = 2
    MaxProposals = 2
INVARIANTS
    SessionInv
    OneAnswerEach
    HandshakeFirst
    OnlyServedCallsRun
    StaleListAnnounced
PROPERTIES
    EveryRequestAnswered
