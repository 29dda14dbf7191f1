SPECIFICATION Spec
CONSTANTS
    Requests = {r1, r2, r3}
    Bodies = {b1, b2}
    NoBody = NoBody
    MaxExecutions = 2
SYMMETRY RequestSymmetry
INVARIANTS TypeOK ResponsesMatchBodies OneAtATime
PROPERTIES StoredOutcomeIsFinal
CHECK_DEADLOCK FALSE
