SPECIFICATION Spec
CONSTANTS
    w1 = w1
    w2 = w2
    Writer = {w1, w2}
    PerPage = 2
    MaxId = 5
INVARIANTS PollMissesNothing
