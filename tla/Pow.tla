-------------------------------- MODULE Pow ---------------------------------
(***************************************************************************)
(* pow.cpp: the leading zero bits of a hash, a sequence of bytes.          *)
(***************************************************************************)
EXTENDS Naturals, Sequences, FiniteSets

\* Mutant: the second mask is applied to the byte as it came.
OneByteUnshifted(x) ==
    IF x = 0 THEN 8
    ELSE (IF x < 16 THEN 4 ELSE 0) + (IF x < 64 THEN 2 ELSE 0) + (IF x < 128 THEN 1 ELSE 0)

\* Masks 0xF0, 0xC0 and 0x80, with shifts of a byte in between.
leading_zero_bits_one_byte(x) ==
    LET y == IF x \div 16 = 0 THEN (x * 16) % 256 ELSE x
        z == IF y \div 64 = 0 THEN (y * 4) % 256 ELSE y
    IN  IF x = 0 THEN 8
        ELSE (IF x \div 16 = 0 THEN 4 ELSE 0) + (IF y \div 64 = 0 THEN 2 ELSE 0)
             + (IF z \div 128 = 0 THEN 1 ELSE 0)

\* Eight for every zero byte before the first that is not, and that one's own.
leading_zero_bits(bytes) ==
    LET zeros == Cardinality({i \in DOMAIN bytes : \A j \in 1 .. i : bytes[j] = 0})
    IN  8 * zeros + IF zeros = Len(bytes) THEN 0
                    ELSE leading_zero_bits_one_byte(bytes[zeros + 1])

-----------------------------------------------------------------------------
\* The reference: the hash as a number, most significant byte first, and the
\* target a difficulty stands for.
Power[n \in Nat] == IF n = 0 THEN 1 ELSE 2 * Power[n - 1]
Value(bytes) ==
    LET value[i \in 0 .. Len(bytes)] ==
            IF i = 0 THEN 0 ELSE 256 * value[i - 1] + bytes[i]
    IN  value[Len(bytes)]
BelowTarget(bytes, bits) ==
    bits <= 8 * Len(bytes) /\ Value(bytes) < Power[8 * Len(bytes) - bits]
=============================================================================
