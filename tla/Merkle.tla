------------------------------- MODULE Merkle -------------------------------
(***************************************************************************)
(* The Merkle tree of src/core/merkle.cpp.  SHA-256 is symbolic: a leaf    *)
(* hash is a 1-tuple, the hash of a concatenation of two hashes is the     *)
(* pair of them, and the hash of the empty string is <<>>.  Two hashes are *)
(* then equal exactly when they were computed from the same input, which   *)
(* is what the code relies on SHA-256 for.                                 *)
(***************************************************************************)
EXTENDS Naturals, Sequences

\* hash_concat(left, right) of hash.cpp, under merkle.cpp's name for it.
hash_pair(left, right) == <<left, right>>

\* sha256 of the empty string.
empty_root == <<>>

\* Mutant: the last hash of an odd level goes up as it is.
NextLevelPromoting(level_hashes) ==
    [k \in 1 .. (Len(level_hashes) + 1) \div 2 |->
        IF 2*k <= Len(level_hashes)
        THEN hash_pair(level_hashes[2*k - 1], level_hashes[2*k])
        ELSE level_hashes[2*k - 1]]

\* One pass of the loop shared by root and build_proof: neighbours are paired,
\* and the last hash of an odd level is paired with itself.
NextLevel(level_hashes) ==
    [k \in 1 .. (Len(level_hashes) + 1) \div 2 |->
        hash_pair(level_hashes[2*k - 1],
                  IF 2*k <= Len(level_hashes) THEN level_hashes[2*k]
                                              ELSE level_hashes[2*k - 1])]

\* A single leaf is paired with itself; otherwise a level is reduced to the next for
\* as long as it has more than one hash.
root(leaves) ==
    LET level[n \in Nat] == IF n = 0 THEN leaves ELSE NextLevel(level[n - 1])
        passes == CHOOSE n \in 0 .. Len(leaves) :
                     /\ Len(level[n]) = 1
                     /\ \A m \in 0 .. n - 1 : Len(level[m]) > 1
    IN  CASE leaves = <<>>    -> empty_root
          [] Len(leaves) = 1  -> hash_pair(leaves[1], leaves[1])
          [] Len(leaves) > 1  -> level[passes][1]
=============================================================================
