---------------------------- MODULE MerkleProof ----------------------------
(***************************************************************************)
(* build_proof and verify_proof of src/core/merkle.cpp, one action per     *)
(* pass of their loops: a proof is built for one leaf of a list, and then  *)
(* some leaf is verified with it against the list's root.                  *)
(***************************************************************************)
EXTENDS Merkle

CONSTANTS
    Messages,  \* what the leaves are hashes of
    MaxLeaves  \* bound on the length of a list

ASSUME MerkleProofAssumption == MaxLeaves \in Nat

VARIABLES
    pc,            \* "idle", or the loop the code is in, or "done"
    leaves, index, \* build_proof's arguments; index counts from 0
    level_hashes, proof_index, \* its local variables
    steps,         \* MerkleProof::steps
    claim,         \* the leaf verify_proof is asked about
    current_hash,  \* its local variable
    walked,        \* the number of steps it has taken
    verdict        \* what it returned

vars == <<pc, leaves, index, level_hashes, proof_index, steps, claim, current_hash,
          walked, verdict>>

\* Messages are hashed once to make a leaf.
Leaves == {<<m>> : m \in Messages}
Lists  == UNION {[1 .. n -> Leaves] : n \in 0 .. MaxLeaves}

Init ==
    /\ pc = "idle" /\ leaves = <<>> /\ index = 0
    /\ level_hashes = <<>> /\ proof_index = 0 /\ steps = <<>>
    /\ claim = <<>> /\ current_hash = <<>> /\ walked = 0 /\ verdict = FALSE

\* build_proof(leaves, index), up to its loop.  The index is asserted to be that
\* of a leaf; it does not matter for an empty list.
BuildCall ==
    /\ pc \in {"idle", "done"}
    /\ pc' = "build"
    /\ leaves' \in Lists
    /\ index' \in IF leaves' = <<>> THEN {0} ELSE 0 .. Len(leaves') - 1
    /\ level_hashes' = leaves' /\ proof_index' = index' /\ steps' = <<>>
    /\ claim' = <<>> /\ current_hash' = <<>> /\ walked' = 0 /\ verdict' = FALSE

\* The neighbour of a hash in a level; the last hash of an odd level is its own.
sibling_index(i, size) ==
    IF i % 2 = 1 THEN i - 1 ELSE IF i + 1 <= size - 1 THEN i + 1 ELSE i

\* Mutants: the position is not halved, and the side is mistaken.
BuildStepNoHalving ==
    /\ pc = "build" /\ Len(level_hashes) > 1
    /\ steps' = Append(steps,
          [sibling |-> level_hashes[sibling_index(proof_index, Len(level_hashes)) + 1],
           sibling_on_left |-> proof_index % 2 = 1])
    /\ level_hashes' = NextLevel(level_hashes)
    /\ UNCHANGED <<pc, leaves, index, proof_index, claim, current_hash, walked, verdict>>
BuildStepWrongSide ==
    /\ pc = "build" /\ Len(level_hashes) > 1
    /\ steps' = Append(steps,
          [sibling |-> level_hashes[sibling_index(proof_index, Len(level_hashes)) + 1],
           sibling_on_left |-> proof_index % 2 = 0])
    /\ proof_index' = proof_index \div 2
    /\ level_hashes' = NextLevel(level_hashes)
    /\ UNCHANGED <<pc, leaves, index, claim, current_hash, walked, verdict>>

\* One pass: the neighbour goes into the proof, the level is reduced.
BuildStep ==
    /\ pc = "build" /\ Len(level_hashes) > 1
    /\ steps' = Append(steps,
          [sibling |-> level_hashes[sibling_index(proof_index, Len(level_hashes)) + 1],
           sibling_on_left |-> proof_index % 2 = 1])
    /\ proof_index' = proof_index \div 2
    /\ level_hashes' = NextLevel(level_hashes)
    /\ UNCHANGED <<pc, leaves, index, claim, current_hash, walked, verdict>>

\* build_proof returns, and verify_proof is called with its result.  An argument
\* of 32 bytes is a leaf, any other is hashed to one first.
VerifyCall ==
    /\ pc = "build" /\ Len(level_hashes) <= 1
    /\ pc' = "verify"
    /\ claim' \in Leaves
    /\ current_hash' = claim'
    /\ UNCHANGED <<leaves, index, level_hashes, proof_index, steps, walked, verdict>>

\* Mutant: a proof without steps is taken for that of a tree of one hash.
VerifySingleBare ==
    /\ pc = "verify" /\ steps = <<>>
    /\ pc' = "done"
    /\ verdict' = (current_hash = root(leaves))
    /\ UNCHANGED <<leaves, index, level_hashes, proof_index, steps, claim, current_hash,
                   walked>>

\* A proof without steps: the leaf is paired with itself.
VerifySingle ==
    /\ pc = "verify" /\ steps = <<>>
    /\ pc' = "done"
    /\ verdict' = (hash_pair(current_hash, current_hash) = root(leaves))
    /\ UNCHANGED <<leaves, index, level_hashes, proof_index, steps, claim, current_hash,
                   walked>>

\* The hash of the next level, from this one and one step.
Climb(h, step) ==
    IF step.sibling_on_left THEN hash_pair(step.sibling, h) ELSE hash_pair(h, step.sibling)

VerifyStep ==
    /\ pc = "verify" /\ walked < Len(steps)
    /\ current_hash' = Climb(current_hash, steps[walked + 1])
    /\ walked' = walked + 1
    /\ UNCHANGED <<pc, leaves, index, level_hashes, proof_index, steps, claim, verdict>>

VerifyDone ==
    /\ pc = "verify" /\ steps # <<>> /\ walked = Len(steps)
    /\ pc' = "done"
    /\ verdict' = (current_hash = root(leaves))
    /\ UNCHANGED <<leaves, index, level_hashes, proof_index, steps, claim, current_hash,
                   walked>>

Next == \/ BuildCall \/ BuildStep \/ VerifyCall
        \/ VerifySingle \/ VerifyStep \/ VerifyDone

Spec == Init /\ [][Next]_vars

-----------------------------------------------------------------------------
\* Every variable has its type; proof_index stays inside the level.
TypeOK ==
    /\ pc \in {"idle", "build", "verify", "done"}
    /\ leaves \in Lists /\ index \in 0 .. MaxLeaves
    /\ Len(level_hashes) <= Len(leaves)
    /\ proof_index \in 0 .. (IF leaves = <<>> THEN 0 ELSE Len(level_hashes) - 1)
    /\ Len(steps) <= MaxLeaves /\ walked \in 0 .. Len(steps)
    /\ claim \in Leaves \cup {<<>>}
    /\ verdict \in BOOLEAN

\* Where the first n steps of the proof lead from a hash.
Climbed(h, n) ==
    LET at[i \in Nat] == IF i = 0 THEN h ELSE Climb(at[i - 1], steps[i])
    IN  at[n]

\* What keeps the two loops in step: at every pass, the part of the proof that is
\* there leads from the leaf to its place in the level reached.
ProofFollowsLevels ==
    leaves # <<>> =>
        Climbed(leaves[index + 1], Len(steps)) = level_hashes[proof_index + 1]

\* A proof built for a leaf is accepted for that leaf and for no other, at every
\* length and position, repeated leaves included.
ProofExact ==
    pc = "done" => (verdict <=> leaves # <<>> /\ claim = leaves[index + 1])

\* What a root says of the list: the list padded to a full tree.  At every height
\* an odd number of subtrees, all of one size, is completed by the last one.
PadOnce(p) ==
    LET last == SubSeq(p.list, Len(p.list) - p.size + 1, Len(p.list))
    IN  [list  |-> IF p.trees > 1 /\ p.trees % 2 = 1 THEN p.list \o last ELSE p.list,
         trees |-> (p.trees + 1) \div 2,
         size  |-> 2 * p.size]
Padded(list) ==
    LET start == IF Len(list) = 1 THEN list \o list ELSE list
        pad[h \in Nat] == IF h = 0 THEN [list |-> start, trees |-> Len(start), size |-> 1]
                          ELSE PadOnce(pad[h - 1])
    IN  pad[Len(list)].list

\* Two lists have the same root exactly when they pad to the same tree: nothing but
\* repetition at the end is lost (validate_block compares roots, not lists).
RootsTell ==
    pc = "done" /\ index = 0 =>
        \A other \in Lists :
            root(leaves) = root(other) <=> Padded(leaves) = Padded(other)
=============================================================================
