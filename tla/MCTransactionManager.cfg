SPECIFICATION Spec
CONSTANTS
    Content <- MCContent
    Scenarios <- MCScenarios
    Receivers = {r1, r2}
    MaxArrivals = 3
SYMMETRY Symmetry
INVARIANTS
    HandledOnce
    AnswerKept
    CancelFinds
    DialogFound
\* Peers and legs may fall silent.
CHECK_DEADLOCK FALSE
