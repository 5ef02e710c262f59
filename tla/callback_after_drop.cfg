SPECIFICATION Spec
CONSTANTS
    Request = {r1, r2}
    Timed = {r1}
INVARIANT DropErasesAll
CHECK_DEADLOCK FALSE
