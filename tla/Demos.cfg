SPECIFICATION Spec
CONSTANTS
    MaxFailures = 1
    Digests <- MCDigests
    Difficulties = {0, 3, 10, 17}
    Times = {1, 2}
    BumpEvery = 2
    MaxNonce = 2
INVARIANTS
    TypeOK
    NoLeak
    FailsClosed
    CountsBits
    AcceptedIsRight
    RefusedForCause
CHECK_DEADLOCK FALSE
