SPECIFICATION Spec
CONSTANTS
    Messages = {1, 2}
    MaxLeaves = 7
INVARIANTS
    TypeOK
    ProofFollowsLevels
    ProofExact
    RootsTell
