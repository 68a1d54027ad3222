SPECIFICATION Spec
CONSTANTS
    Base = 4
    HashLen = 2
    Magic <- MCMagic
    Written <- MCWritten
    MaxItems = 3
    MaxDamage = 1
INVARIANTS
    TypeOK
    ReadsWholeRecords
    ThrowsOnTornLength
    NeverMalformed
    SigningBytesTell
