SPECIFICATION Spec
CONSTANTS
    Handlers = {h1, h2}
    Askers = {a1, a2}
    MaxQuestions = 3
    MaxStarts = 3
CHECK_DEADLOCK FALSE
INVARIANTS RoutesAgree NoLostQuestion CancelledNotAccepted
PROPERTY RejectedByAll
