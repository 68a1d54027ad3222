---------------------------- MODULE MerkleProofs ----------------------------
(***************************************************************************)
(* Proofs about MerkleProof: build_proof and verify_proof, and what a root *)
(* tells of its list, for lists of any length, with any leaves.            *)
(***************************************************************************)
EXTENDS MerkleProof, NaturalsInduction, WellFoundedInduction, TLAPS

\* Where the first n of a proof's steps lead from a hash, for any proof.
Path(h, proof, n) ==
    LET at[i \in Nat] == IF i = 0 THEN h ELSE Climb(at[i - 1], proof[i])
    IN  at[n]

\* A set of numbers that is not empty has a least one.
LEMMA Least ==
    ASSUME NEW S \in SUBSET Nat, S # {}
    PROVE  \E m \in S : \A i \in S : m <= i
  <1>1. PICK m \in S : \A i \in S : ~(<<i, m>> \in OpToRel(<, Nat))
    BY WFMin, NatLessThanWellFounded
  <1>2. \A i \in S : ~(i < m)
    BY <1>1 DEF OpToRel
  <1> QED BY <1>2

\* One pass of a loop: verify_proof climbs by a step, build_proof and root go from a
\* level to the next, and a list is padded at one height more.
Advance(loop, h, step) ==
    IF loop = "climb" THEN Climb(h, step)
    ELSE IF loop = "level" THEN NextLevel(h)
    ELSE IF loop = "pad" THEN PadOnce(h) ELSE 2 * h

\* What n passes went through.
Trace(loop, h, proof, n, g) ==
    g[0] = h /\ \A i \in 1 .. n : g[i] = Advance(loop, g[i - 1], proof[i])

\* Any number of passes can be made.
LEMMA TraceExists ==
    ASSUME NEW loop, NEW h, NEW proof, NEW n \in Nat
    PROVE  \E g : Trace(loop, h, proof, n, g)
  <1> DEFINE Bad == {k \in Nat : ~\E g : Trace(loop, h, proof, k, g)}
  <1>1. CASE Bad = {}
    BY <1>1
  <1>2. CASE Bad # {}
    <2>1. PICK m \in Bad : \A i \in Bad : m <= i
      <3> HIDE DEF Bad
      <3>1. Bad \in SUBSET Nat
        BY DEF Bad
      <3> QED BY <1>2, <3>1, Least
    <2>2. m # 0
      <3>1. Trace(loop, h, proof, 0, [i \in 0 .. 0 |-> h])
        BY DEF Trace
      <3> QED BY <2>1, <3>1
    <2>3. m \in Nat /\ m - 1 \in Nat /\ m - 1 \notin Bad
      BY <2>1, <2>2
    <2>4. PICK g : Trace(loop, h, proof, m - 1, g)
      BY <2>3
    <2> DEFINE f == [i \in 0 .. m |-> IF i = m THEN Advance(loop, g[m - 1], proof[m]) ELSE g[i]]
    <2>5. /\ f[0] = g[0] /\ f[m] = Advance(loop, g[m - 1], proof[m])
          /\ \A i \in 0 .. m - 1 : f[i] = g[i]
      BY <2>2, <2>3
    <2> HIDE DEF f
    <2>6. ASSUME NEW i \in 1 .. m PROVE f[i] = Advance(loop, f[i - 1], proof[i])
      <3>1. CASE i = m
        <4>1. f[m - 1] = g[m - 1]
          BY <2>2, <2>3, <2>5
        <4> QED BY <2>5, <3>1, <4>1
      <3>2. CASE i # m
        <4>1. i \in 1 .. m - 1 /\ i \in 0 .. m - 1 /\ i - 1 \in 0 .. m - 1
          BY <2>3, <3>2
        <4>2. g[i] = Advance(loop, g[i - 1], proof[i])
          BY <2>4, <4>1 DEF Trace
        <4> QED BY <2>5, <4>1, <4>2
      <3> QED BY <3>1, <3>2
    <2>7. Trace(loop, h, proof, m, f)
      BY <2>4, <2>5, <2>6 DEF Trace
    <2> QED BY <2>1, <2>7
  <1> QED BY <1>1, <1>2

\* Two traces of proofs that agree are the same.
LEMMA TraceUnique ==
    ASSUME NEW loop, NEW h, NEW s, NEW t, NEW n \in Nat, NEW f, NEW g,
           Trace(loop, h, s, n, f), Trace(loop, h, t, n, g), \A i \in 1 .. n : s[i] = t[i]
    PROVE  \A i \in 0 .. n : f[i] = g[i]
  <1> DEFINE Bad == {k \in 0 .. n : f[k] # g[k]}
  <1>1. CASE Bad = {}
    BY <1>1
  <1>2. CASE Bad # {}
    <2>1. PICK m \in Bad : \A i \in Bad : m <= i
      <3> HIDE DEF Bad
      <3>1. Bad \in SUBSET Nat
        BY DEF Bad
      <3> QED BY <1>2, <3>1, Least
    <2>2. m # 0
      BY <2>1 DEF Trace
    <2>3. m \in 1 .. n /\ m - 1 \in 0 .. n /\ m - 1 \notin Bad
      BY <2>1, <2>2
    <2>4. f[m - 1] = g[m - 1]
      BY <2>3
    <2>5. f[m] = g[m]
      BY <2>3, <2>4 DEF Trace
    <2> QED BY <2>1, <2>5
  <1> QED BY <1>1, <1>2

\* So a loop can be written as a recursive function.
Recursive(loop, h, proof, f) ==
    f = [i \in Nat |-> IF i = 0 THEN h ELSE Advance(loop, f[i - 1], proof[i])]

LEMMA Recursion ==
    ASSUME NEW loop, NEW h, NEW proof PROVE \E f : Recursive(loop, h, proof, f)
  <1> DEFINE T(n) == CHOOSE g : Trace(loop, h, proof, n, g)
             f == [n \in Nat |-> T(n)[n]]
  <1>1. ASSUME NEW n \in Nat PROVE Trace(loop, h, proof, n, T(n))
    BY TraceExists
  <1> HIDE DEF T
  <1>2. ASSUME NEW n \in Nat
        PROVE  f[n] = IF n = 0 THEN h ELSE Advance(loop, f[n - 1], proof[n])
    <2>1. f[n] = T(n)[n]
      OBVIOUS
    <2>2. CASE n = 0
      BY <1>1, <2>1, <2>2 DEF Trace
    <2>3. CASE n # 0
      <3>1. n \in 1 .. n /\ n - 1 \in Nat /\ n - 1 \in 0 .. n - 1
        BY <2>3
      <3>2. T(n)[n] = Advance(loop, T(n)[n - 1], proof[n])
        BY <1>1, <3>1 DEF Trace
      <3>3. Trace(loop, h, proof, n - 1, T(n)) /\ Trace(loop, h, proof, n - 1, T(n - 1))
        BY <1>1, <3>1 DEF Trace
      <3>4. T(n)[n - 1] = T(n - 1)[n - 1]
        BY <3>1, <3>3, TraceUnique
      <3>5. f[n - 1] = T(n - 1)[n - 1]
        BY <3>1
      <3> QED BY <2>1, <2>3, <3>2, <3>4, <3>5
    <2> QED BY <2>2, <2>3
  <1>3. f = [i \in Nat |-> f[i]]
    OBVIOUS
  <1> HIDE DEF f
  <1>4. f = [i \in Nat |-> IF i = 0 THEN h ELSE Advance(loop, f[i - 1], proof[i])]
    BY <1>2, <1>3
  <1> QED BY <1>4 DEF Recursive

\* What the recursive definition of a path says,
LEMMA PathIs ==
    ASSUME NEW h, NEW proof
    PROVE  /\ Path(h, proof, 0) = h
           /\ \A n \in Nat : n # 0 => Path(h, proof, n) = Climb(Path(h, proof, n - 1), proof[n])
  <1> DEFINE at == CHOOSE at : at = [i \in Nat |-> IF i = 0 THEN h ELSE Climb(at[i - 1], proof[i])]
  <1>1. \E f : f = [i \in Nat |-> IF i = 0 THEN h ELSE Climb(f[i - 1], proof[i])]
    <2>1. PICK f : Recursive("climb", h, proof, f)
      BY Recursion, Zenon
    <2>2. f = [i \in Nat |-> IF i = 0 THEN h ELSE Climb(f[i - 1], proof[i])]
      BY <2>1 DEF Recursive, Advance
    <2> QED BY <2>2
  <1>2. at = [i \in Nat |-> IF i = 0 THEN h ELSE Climb(at[i - 1], proof[i])]
    BY <1>1
  <1>3. \A n : Path(h, proof, n) = at[n]
    BY DEF Path
  <1> HIDE DEF at
  <1>4. at[0] = h /\ \A n \in Nat : n # 0 => at[n] = Climb(at[n - 1], proof[n])
    BY <1>2
  <1> QED BY <1>3, <1>4

\* The levels of the tree over a list,
Level(list, n) ==
    LET level[i \in Nat] == IF i = 0 THEN list ELSE NextLevel(level[i - 1])
    IN  level[n]

\* and what their recursive definition says.
LEMMA LevelIs ==
    ASSUME NEW list
    PROVE  /\ Level(list, 0) = list
           /\ \A n \in Nat : n # 0 => Level(list, n) = NextLevel(Level(list, n - 1))
  <1> DEFINE level == CHOOSE level :
                         level = [i \in Nat |-> IF i = 0 THEN list ELSE NextLevel(level[i - 1])]
  <1>1. \E f : f = [i \in Nat |-> IF i = 0 THEN list ELSE NextLevel(f[i - 1])]
    <2>1. PICK f : Recursive("level", list, list, f)
      BY Recursion, Zenon
    <2>2. f = [i \in Nat |-> IF i = 0 THEN list ELSE NextLevel(f[i - 1])]
      BY <2>1 DEF Recursive, Advance
    <2> QED BY <2>2
  <1>2. level = [i \in Nat |-> IF i = 0 THEN list ELSE NextLevel(level[i - 1])]
    BY <1>1
  <1>3. \A n : Level(list, n) = level[n]
    BY DEF Level
  <1> HIDE DEF level
  <1>4. level[0] = list /\ \A n \in Nat : n # 0 => level[n] = NextLevel(level[n - 1])
    BY <1>2
  <1> QED BY <1>3, <1>4

-----------------------------------------------------------------------------
\* A sequence of whatever it holds.
IsSeq(s) == s \in Seq({s[i] : i \in DOMAIN s})

\* A level, half as long as the one below it.
LEMMA NextLevelIs ==
    ASSUME NEW l, Len(l) \in Nat
    PROVE  /\ IsSeq(NextLevel(l)) /\ Len(NextLevel(l)) = (Len(l) + 1) \div 2
           /\ Len(NextLevel(l)) \in Nat
           /\ \A k \in 1 .. (Len(l) + 1) \div 2 :
                 NextLevel(l)[k] = hash_pair(l[2*k - 1], IF 2*k <= Len(l) THEN l[2*k] ELSE l[2*k - 1])
  <1> DEFINE m == (Len(l) + 1) \div 2
             e(k) == hash_pair(l[2*k - 1], IF 2*k <= Len(l) THEN l[2*k] ELSE l[2*k - 1])
             f == [k \in 1 .. m |-> e(k)]
  <1>1. m \in Nat
    OBVIOUS
  <1>2. NextLevel(l) = f
    BY DEF NextLevel
  <1> HIDE DEF m, e
  <1>3. Len(f) = m /\ f \in Seq({f[i] : i \in DOMAIN f}) /\ \A k \in 1 .. m : f[k] = e(k)
    BY <1>1
  <1> QED BY <1>1, <1>2, <1>3 DEF m, e, IsSeq

\* The climb from a hash, by the step to its neighbour, is to the pair of the two.
LEMMA ClimbsToNext ==
    ASSUME NEW l, Len(l) \in Nat, NEW i \in 0 .. Len(l) - 1, Len(l) > 1
    PROVE  /\ i \div 2 \in 0 .. Len(NextLevel(l)) - 1
           /\ NextLevel(l)[i \div 2 + 1] =
                 Climb(l[i + 1], [sibling |-> l[sibling_index(i, Len(l)) + 1],
                                  sibling_on_left |-> i % 2 = 1])
  <1> DEFINE k == i \div 2 + 1
             n == Len(l)
             j == sibling_index(i, Len(l)) + 1
             step == [sibling |-> l[j], sibling_on_left |-> i % 2 = 1]
  <1>1. k \in 1 .. (n + 1) \div 2 /\ i \div 2 \in Nat
    OBVIOUS
  <1>2. NextLevel(l)[k] = hash_pair(l[2*k - 1], IF 2*k <= n THEN l[2*k] ELSE l[2*k - 1])
    BY <1>1, NextLevelIs
  <1>3. Len(NextLevel(l)) = (n + 1) \div 2
    BY NextLevelIs
  <1>4. CASE i % 2 = 1
    <2>1. 2*k = i + 1 /\ 2*k - 1 = i /\ j = i /\ 2*k <= n
      BY <1>4 DEF sibling_index
    <2>2. step.sibling_on_left /\ step.sibling = l[i]
      BY <1>4, <2>1
    <2>3. Climb(l[i + 1], step) = hash_pair(l[i], l[i + 1])
      BY <2>2 DEF Climb
    <2> QED BY <1>1, <1>2, <1>3, <2>1, <2>3
  <1>5. CASE i % 2 # 1
    <2>1. 2*k = i + 2 /\ 2*k - 1 = i + 1
      BY <1>5
    <2>2. j = IF i + 2 <= n THEN i + 2 ELSE i + 1
      BY <1>5 DEF sibling_index
    <2>3. ~step.sibling_on_left /\ step.sibling = l[j]
      BY <1>5
    <2>4. Climb(l[i + 1], step) = hash_pair(l[i + 1], l[j])
      BY <2>3 DEF Climb
    <2> QED BY <1>1, <1>2, <1>3, <2>1, <2>2, <2>4
  <1> QED BY <1>4, <1>5

\* Steps appended to a proof do not change where the earlier ones lead.
LEMMA PathSame ==
    ASSUME NEW h, NEW s, NEW t, NEW n \in Nat, \A i \in 1 .. n : s[i] = t[i]
    PROVE  Path(h, s, n) = Path(h, t, n)
  <1> DEFINE f == [i \in Nat |-> Path(h, s, i)]
             g == [i \in Nat |-> Path(h, t, i)]
  <1>1. Trace("climb", h, s, n, f)
    BY PathIs DEF Trace, Advance
  <1>2. Trace("climb", h, t, n, g)
    BY PathIs DEF Trace, Advance
  <1>3. f[n] = Path(h, s, n) /\ g[n] = Path(h, t, n)
    OBVIOUS
  <1> HIDE DEF f, g
  <1>4. \A i \in 0 .. n : f[i] = g[i]
    BY <1>1, <1>2, TraceUnique
  <1> QED BY <1>3, <1>4

\* Two hashes never lead to the same one: the hash of a pair tells both its parts.
LEMMA PathTells ==
    ASSUME NEW h, NEW k, NEW s, NEW n \in Nat
    PROVE  Path(h, s, n) = Path(k, s, n) <=> h = k
  <1> DEFINE Bad == {i \in 0 .. n : Path(h, s, i) = Path(k, s, i)}
  <1>0. ASSUME NEW i \in Nat, i # 0
        PROVE  /\ Path(h, s, i) = Climb(Path(h, s, i - 1), s[i])
               /\ Path(k, s, i) = Climb(Path(k, s, i - 1), s[i])
    BY <1>0, PathIs, ZenonT(60)
  <1>1. ASSUME h = k PROVE Path(h, s, n) = Path(k, s, n)
    BY <1>1
  <1>2. ASSUME Path(h, s, n) = Path(k, s, n) PROVE h = k
    <2>1. n \in Bad
      BY <1>2
    <2>2. PICK m \in Bad : \A i \in Bad : m <= i
      <3>1. Bad \in SUBSET Nat /\ Bad # {}
        BY <2>1
      <3> HIDE DEF Bad
      <3> QED BY <3>1, Least
    <2>3. CASE m = 0
      BY <2>2, <2>3, PathIs
    <2>4. CASE m # 0
      <3>1. m \in Nat /\ m - 1 \in 0 .. n /\ m - 1 \notin Bad
        BY <2>2, <2>4
      <3>2. /\ Path(h, s, m) = Climb(Path(h, s, m - 1), s[m])
            /\ Path(k, s, m) = Climb(Path(k, s, m - 1), s[m])
        BY <1>0, <2>4, <3>1
      <3>3. \A x, y, z : Climb(x, z) = Climb(y, z) => x = y
        BY DEF Climb, hash_pair
      <3>4. Path(h, s, m - 1) = Path(k, s, m - 1)
        BY <2>2, <3>2, <3>3
      <3> QED BY <3>1, <3>4
    <2> QED BY <2>3, <2>4
  <1> QED BY <1>1, <1>2

\* A level that is the first of one hash is the root.
LEMMA RootIs ==
    ASSUME NEW list, Len(list) \in Nat, Len(list) > 1, list # <<>>, NEW k \in 0 .. Len(list),
           Len(Level(list, k)) = 1, \A m \in 0 .. k - 1 : Len(Level(list, m)) > 1
    PROVE  root(list) = Level(list, k)[1]
  <1> DEFINE level == CHOOSE level :
                         level = [n \in Nat |-> IF n = 0 THEN list ELSE NextLevel(level[n - 1])]
             First(n) == Len(level[n]) = 1 /\ \A m \in 0 .. n - 1 : Len(level[m]) > 1
             passes == CHOOSE n \in 0 .. Len(list) : First(n)
  <1>1. \A n : Level(list, n) = level[n]
    BY DEF Level
  <1>a. \A x \in Nat : x > 1 => x # 1
    OBVIOUS
  <1>2. Len(list) # 1
    BY <1>a, Zenon
  <1>3. root(list) = level[passes][1]
    BY <1>2, Zenon DEF root
  <1> HIDE DEF level
  <1>4. First(k)
    BY <1>1
  <1>5. ASSUME NEW n \in 0 .. Len(list), First(n) PROVE n = k
    <2>1. CASE n < k
      <3>1. n \in 0 .. k - 1
        BY <2>1
      <3>2. Len(level[n]) = 1 /\ Len(level[n]) > 1
        BY <1>4, <1>5, <3>1
      <3> QED BY <3>2
    <2>2. CASE k < n
      <3>1. k \in 0 .. n - 1
        BY <2>2
      <3>2. Len(level[k]) = 1 /\ Len(level[k]) > 1
        BY <1>4, <1>5, <3>1
      <3> QED BY <3>2
    <2> QED BY <2>1, <2>2
  <1> HIDE DEF First
  <1>6. passes = k
    BY <1>4, <1>5
  <1> QED BY <1>1, <1>3, <1>6

-----------------------------------------------------------------------------
\* The inductive invariant.  The lists are what the properties take them for;
Shapes ==
    /\ pc \in {"idle", "build", "verify", "done"} /\ verdict \in BOOLEAN
    /\ leaves \in Seq(Leaves) /\ Len(leaves) <= MaxLeaves
    /\ IsSeq(level_hashes) /\ IsSeq(steps)
    /\ claim \in Leaves \cup {<<>>} /\ walked \in 0 .. Len(steps)

\* build_proof has made one pass for every step of the proof, has come to the level
\* that many passes lead to, and every level before had more than one hash;
Built ==
    IF leaves = <<>>
    THEN level_hashes = <<>> /\ steps = <<>> /\ index = 0 /\ proof_index = 0
    ELSE /\ index \in 0 .. Len(leaves) - 1 /\ proof_index \in 0 .. Len(level_hashes) - 1
         /\ Len(level_hashes) + Len(steps) <= Len(leaves)
         /\ level_hashes = Level(leaves, Len(steps))
         /\ \A m \in 0 .. Len(steps) - 1 : Len(Level(leaves, m)) > 1
         /\ Path(leaves[index + 1], steps, Len(steps)) = level_hashes[proof_index + 1]

\* and verify_proof is where as many steps lead from the leaf it was asked about.
Verified ==
    /\ pc \in {"idle", "build"} => walked = 0
    /\ pc \in {"verify", "done"} => /\ Len(level_hashes) <= 1 /\ claim \in Leaves
                                    /\ current_hash = Path(claim, steps, walked)

ProofInd == Shapes /\ Built /\ Verified /\ ProofExact

\* Sequences: one that is appended to, and an empty one.
LEMMA SeqLonger ==
    ASSUME NEW s, IsSeq(s), NEW x
    PROVE  /\ IsSeq(Append(s, x)) /\ Len(s) \in Nat /\ Len(Append(s, x)) = Len(s) + 1
           /\ \A i \in 1 .. Len(s) : Append(s, x)[i] = s[i]
           /\ Append(s, x)[Len(s) + 1] = x
  <1> DEFINE R == {s[i] : i \in DOMAIN s} \cup {x}
             t == Append(s, x)
  <1>1. s \in Seq({s[i] : i \in DOMAIN s})
    BY DEF IsSeq
  <1>2. s \in Seq(R) /\ x \in R
    BY <1>1
  <1> HIDE DEF R
  <1>3. /\ t \in Seq(R) /\ Len(t) = Len(s) + 1 /\ Len(s) \in Nat
        /\ \A i \in 1 .. Len(s) : t[i] = s[i]
        /\ t[Len(s) + 1] = x
    BY <1>2
  <1> HIDE DEF t
  <1>4. t \in Seq({t[i] : i \in DOMAIN t})
    BY <1>3
  <1> QED BY <1>3, <1>4 DEF IsSeq, t

LEMMA SeqIs == ASSUME NEW S, NEW s \in Seq(S) PROVE IsSeq(s)
  BY DEF IsSeq

LEMMA EmptyIs == IsSeq(<<>>) /\ Len(<<>>) = 0 /\ \A S : <<>> \in Seq(S)
  BY DEF IsSeq

\* The roots of no leaf and of a single one.
LEMMA RootEmpty == root(<<>>) = <<>>
  <1>1. Len(<<>>) # 1 /\ ~(Len(<<>>) > 1)
    BY EmptyIs
  <1> QED BY <1>1, Zenon DEF root, empty_root

LEMMA RootSingle ==
    ASSUME NEW list, list # <<>>, Len(list) = 1
    PROVE  root(list) = hash_pair(list[1], list[1])
  <1>1. ~(1 > 1)
    OBVIOUS
  <1>2. ~(Len(list) > 1)
    BY <1>1, Zenon
  <1> QED BY <1>2, Zenon DEF root

\* The lists of the model are the sequences of leaves up to the bound.
LEMMA ListsAre ==
    ASSUME NEW l
    PROVE  l \in Lists <=> l \in Seq(Leaves) /\ Len(l) <= MaxLeaves
  <1>1. ASSUME l \in Lists PROVE l \in Seq(Leaves) /\ Len(l) <= MaxLeaves
    <2>1. PICK n \in 0 .. MaxLeaves : l \in [1 .. n -> Leaves]
      BY <1>1 DEF Lists
    <2>2. n \in Nat /\ n <= MaxLeaves
      BY <2>1, MerkleProofAssumption
    <2>3. l \in Seq(Leaves) /\ Len(l) = n
      BY <2>1, <2>2
    <2> QED BY <2>2, <2>3
  <1>2. ASSUME l \in Seq(Leaves), Len(l) <= MaxLeaves PROVE l \in Lists
    <2>1. Len(l) \in 0 .. MaxLeaves /\ l \in [1 .. Len(l) -> Leaves]
      BY <1>2, MerkleProofAssumption
    <2> QED BY <2>1 DEF Lists
  <1> QED BY <1>1, <1>2

LEMMA ProofIndInit == ASSUME Init PROVE ProofInd
  <1>1. /\ pc = "idle" /\ leaves = <<>> /\ index = 0 /\ level_hashes = <<>>
        /\ proof_index = 0 /\ steps = <<>> /\ claim = <<>> /\ walked = 0 /\ verdict = FALSE
    BY DEF Init
  <1>2. leaves \in Seq(Leaves) /\ IsSeq(level_hashes) /\ IsSeq(steps)
    BY <1>1, EmptyIs, Zenon
  <1>3. Len(leaves) = 0 /\ Len(steps) = 0
    BY <1>1, EmptyIs, Zenon
  <1>4. claim \in Leaves \cup {<<>>}
    BY <1>1, Zenon
  <1>5. Shapes
    <2>1. Len(leaves) <= MaxLeaves /\ walked \in 0 .. Len(steps)
      <3>1. walked = 0
        BY <1>1, Zenon
      <3> QED BY <1>3, <3>1, MerkleProofAssumption
    <2> QED BY <1>1, <1>2, <1>4, <2>1, Zenon DEF Shapes
  <1>6. Built
    BY <1>1, Zenon DEF Built
  <1>7. Verified /\ ProofExact
    BY <1>1 DEF Verified, ProofExact
  <1> QED BY <1>5, <1>6, <1>7 DEF ProofInd

\* A proof is asked for.
LEMMA BuildCallStep == ASSUME ProofInd, BuildCall PROVE ProofInd'
  <1>1. /\ pc' = "build" /\ leaves' \in Lists
        /\ index' \in IF leaves' = <<>> THEN {0} ELSE 0 .. Len(leaves') - 1
        /\ level_hashes' = leaves' /\ proof_index' = index' /\ steps' = <<>>
        /\ claim' = <<>> /\ walked' = 0 /\ verdict' = FALSE
    BY DEF BuildCall
  <1>2. leaves' \in Seq(Leaves) /\ Len(leaves') <= MaxLeaves
    BY <1>1, ListsAre
  <1>3. IsSeq(level_hashes') /\ IsSeq(steps') /\ Len(steps') = 0 /\ Len(leaves') \in Nat
    <2>1. IsSeq(leaves') /\ Len(leaves') \in Nat
      BY <1>2, SeqIs
    <2>2. IsSeq(steps') /\ Len(steps') = 0
      BY <1>1, EmptyIs, Zenon
    <2> QED BY <1>1, <2>1, <2>2
  <1>4. claim' \in Leaves \cup {<<>>}
    BY <1>1, Zenon
  <1>5. Shapes'
    <2>1. walked' \in 0 .. Len(steps')
      <3>1. walked' = 0
        BY <1>1, Zenon
      <3> QED BY <1>3, <3>1
    <2> QED BY <1>1, <1>2, <1>3, <1>4, <2>1, Zenon DEF Shapes
  <1>6. Built'
    <2>1. CASE leaves' = <<>>
      BY <1>1, <2>1, Zenon DEF Built
    <2>2. CASE leaves' # <<>>
      <3>1. Level(leaves', 0) = leaves'
        BY LevelIs
      <3>2. Path(leaves'[index' + 1], steps', 0) = leaves'[index' + 1]
        BY PathIs
      <3> QED BY <1>1, <1>3, <2>2, <3>1, <3>2 DEF Built
    <2> QED BY <2>1, <2>2
  <1>7. Verified' /\ ProofExact'
    BY <1>1 DEF Verified, ProofExact
  <1> QED BY <1>5, <1>6, <1>7 DEF ProofInd

\* A pass of build_proof: the loops stay in step.
LEMMA BuildStepStep == ASSUME ProofInd, BuildStep PROVE ProofInd'
  <1> DEFINE step == [sibling |-> level_hashes[sibling_index(proof_index, Len(level_hashes)) + 1],
                      sibling_on_left |-> proof_index % 2 = 1]
             n == Len(steps)
             leaf == leaves[index + 1]
  <1>1. /\ pc = "build" /\ pc' = pc /\ Len(level_hashes) > 1
        /\ steps' = Append(steps, step) /\ proof_index' = proof_index \div 2
        /\ level_hashes' = NextLevel(level_hashes)
        /\ UNCHANGED <<leaves, index, claim, current_hash, walked, verdict>>
    BY DEF BuildStep
  <1>2. Shapes /\ Built /\ Verified
    BY DEF ProofInd
  <1>3. leaves # <<>>
    <2>1. CASE leaves = <<>>
      <3>1. level_hashes = <<>>
        BY <1>2, <2>1, Zenon DEF Built
      <3>2. Len(level_hashes) = 0
        BY <3>1, EmptyIs, Zenon
      <3> QED BY <1>1, <3>2
    <2> QED BY <2>1
  <1>4. /\ index \in 0 .. Len(leaves) - 1 /\ proof_index \in 0 .. Len(level_hashes) - 1
        /\ Len(level_hashes) + n <= Len(leaves) /\ level_hashes = Level(leaves, n)
        /\ \A m \in 0 .. n - 1 : Len(Level(leaves, m)) > 1
        /\ Path(leaf, steps, n) = level_hashes[proof_index + 1]
    BY <1>2, <1>3 DEF Built
  <1>5. /\ Len(level_hashes) \in Nat /\ n \in Nat /\ Len(leaves) \in Nat
        /\ IsSeq(steps) /\ walked = 0
    BY <1>1, <1>2 DEF Shapes, IsSeq, Verified
  <1> HIDE DEF step, n, leaf
  <1>6. /\ IsSeq(steps') /\ Len(steps') = n + 1 /\ (\A i \in 1 .. n : steps'[i] = steps[i])
        /\ steps'[n + 1] = step
    <2>1. \A x : /\ IsSeq(Append(steps, x)) /\ Len(Append(steps, x)) = n + 1
                 /\ \A i \in 1 .. n : Append(steps, x)[i] = steps[i]
                 /\ Append(steps, x)[n + 1] = x
      BY <1>5, SeqLonger DEF n
    <2> QED BY <1>1, <2>1
  <1>7. /\ IsSeq(level_hashes') /\ Len(level_hashes') = (Len(level_hashes) + 1) \div 2
        /\ Len(level_hashes') \in Nat
    BY <1>1, <1>5, NextLevelIs
  <1>8. /\ proof_index' \in 0 .. Len(level_hashes') - 1
        /\ level_hashes'[proof_index' + 1] = Climb(level_hashes[proof_index + 1], step)
    BY <1>1, <1>4, <1>5, ClimbsToNext DEF step
  <1>9. Path(leaf, steps', n + 1) = level_hashes'[proof_index' + 1]
    <2>1. Path(leaf, steps', n + 1) = Climb(Path(leaf, steps', n), steps'[n + 1])
      <3>1. ASSUME NEW h, NEW s PROVE Path(h, s, n + 1) = Climb(Path(h, s, n), s[n + 1])
        <4>1. n + 1 \in Nat /\ n + 1 # 0 /\ (n + 1) - 1 = n
          BY <1>5
        <4>2. Path(h, s, n + 1) = Climb(Path(h, s, (n + 1) - 1), s[n + 1])
          BY <4>1, PathIs
        <4> QED BY <4>1, <4>2
      <3> QED BY <3>1, Zenon
    <2>2. Path(leaf, steps', n) = Path(leaf, steps, n)
      BY <1>5, <1>6, PathSame
    <2> QED BY <1>4, <1>6, <1>8, <2>1, <2>2
  <1>10. Level(leaves, n + 1) = level_hashes'
    <2>1. n + 1 \in Nat /\ n + 1 # 0 /\ (n + 1) - 1 = n
      BY <1>5
    <2>2. Level(leaves, n + 1) = NextLevel(Level(leaves, (n + 1) - 1))
      BY <2>1, LevelIs
    <2> QED BY <1>1, <1>4, <2>1, <2>2
  <1>11. \A m \in 0 .. n : Len(Level(leaves, m)) > 1
    <2>1. ASSUME NEW m \in 0 .. n PROVE Len(Level(leaves, m)) > 1
      <3>1. CASE m = n
        BY <1>1, <1>4, <3>1
      <3>2. CASE m # n
        BY <1>4, <1>5, <3>2
      <3> QED BY <3>1, <3>2
    <2> QED BY <2>1
  <1>12. Len(level_hashes') + Len(steps') <= Len(leaves)
    BY <1>1, <1>4, <1>5, <1>6, <1>7
  <1>13. Shapes'
    BY <1>1, <1>2, <1>5, <1>6, <1>7 DEF Shapes
  <1>14. Built'
    <2>1. Len(steps') - 1 = n
      BY <1>5, <1>6
    <2> QED BY <1>1, <1>3, <1>4, <1>6, <1>8, <1>9, <1>10, <1>11, <1>12, <2>1 DEF Built, leaf
  <1>15. Verified' /\ ProofExact'
    BY <1>1, <1>2 DEF Verified, ProofExact
  <1> QED BY <1>13, <1>14, <1>15 DEF ProofInd

\* verify_proof is called, and takes a step.
LEMMA VerifyCallStep == ASSUME ProofInd, VerifyCall PROVE ProofInd'
  <1>1. /\ pc = "build" /\ Len(level_hashes) <= 1 /\ pc' = "verify"
        /\ claim' \in Leaves /\ current_hash' = claim'
        /\ UNCHANGED <<leaves, index, level_hashes, proof_index, steps, walked, verdict>>
    BY DEF VerifyCall
  <1>2. Shapes /\ Built /\ walked = 0
    BY <1>1 DEF ProofInd, Verified
  <1>3. Shapes' /\ Built'
    BY <1>1, <1>2 DEF Shapes, Built
  <1>4. current_hash' = Path(claim', steps', walked')
    <2>1. Path(claim', steps', 0) = claim'
      BY PathIs
    <2> QED BY <1>1, <1>2, <2>1
  <1>5. Verified' /\ ProofExact'
    BY <1>1, <1>4 DEF Verified, ProofExact
  <1> QED BY <1>3, <1>5 DEF ProofInd

LEMMA VerifyStepStep == ASSUME ProofInd, VerifyStep PROVE ProofInd'
  <1>1. /\ pc = "verify" /\ pc' = pc /\ walked < Len(steps)
        /\ current_hash' = Climb(current_hash, steps[walked + 1]) /\ walked' = walked + 1
        /\ UNCHANGED <<leaves, index, level_hashes, proof_index, steps, claim, verdict>>
    BY DEF VerifyStep
  <1>2. /\ Shapes /\ Built /\ Len(level_hashes) <= 1 /\ claim \in Leaves
        /\ current_hash = Path(claim, steps, walked)
    BY <1>1 DEF ProofInd, Verified
  <1>3. walked \in Nat /\ walked' \in 0 .. Len(steps) /\ Len(steps) \in Nat
    BY <1>1, <1>2 DEF Shapes, IsSeq
  <1>4. current_hash' = Path(claim', steps', walked')
    <2>1. walked' \in Nat /\ walked' # 0 /\ walked' - 1 = walked
      BY <1>1, <1>3
    <2>2. Path(claim, steps, walked') = Climb(Path(claim, steps, walked' - 1), steps[walked'])
      BY <2>1, PathIs
    <2> QED BY <1>1, <1>2, <2>1, <2>2
  <1>5. Shapes' /\ Built'
    BY <1>1, <1>2, <1>3 DEF Shapes, Built
  <1>6. Verified' /\ ProofExact'
    BY <1>1, <1>2, <1>4 DEF Verified, ProofExact
  <1> QED BY <1>5, <1>6 DEF ProofInd

\* A proof without steps belongs to a tree of at most one leaf.
LEMMA VerifySingleStep == ASSUME ProofInd, VerifySingle PROVE ProofInd'
  <1>1. /\ pc = "verify" /\ steps = <<>> /\ pc' = "done"
        /\ verdict' = (hash_pair(current_hash, current_hash) = root(leaves))
        /\ UNCHANGED <<leaves, index, level_hashes, proof_index, steps, claim, current_hash,
                       walked>>
    BY DEF VerifySingle
  <1>2. /\ Shapes /\ Built /\ Verified /\ Len(level_hashes) <= 1 /\ claim \in Leaves
        /\ current_hash = Path(claim, steps, walked)
    BY <1>1 DEF ProofInd, Verified
  <1>3. Len(steps) = 0
    BY <1>1, EmptyIs, Zenon
  <1>4. walked = 0 /\ leaves \in Seq(Leaves) /\ Len(leaves) \in Nat
    BY <1>2, <1>3 DEF Shapes
  <1>5. current_hash = claim
    BY <1>2, <1>4, PathIs
  <1>6. verdict' \in BOOLEAN
    BY <1>1, Zenon
  <1>7. verdict' <=> leaves # <<>> /\ claim = leaves[index + 1]
    <2>0. verdict' <=> hash_pair(claim, claim) = root(leaves)
      BY <1>1, <1>5, Zenon
    <2>1. CASE leaves = <<>>
      <3>1. root(leaves) = <<>>
        BY <2>1, RootEmpty, Zenon
      <3>2. hash_pair(claim, claim) # <<>>
        BY DEF hash_pair
      <3> QED BY <2>0, <2>1, <3>1, <3>2, Zenon
    <2>2. CASE leaves # <<>>
      <3>1. /\ level_hashes = Level(leaves, Len(steps)) /\ index \in 0 .. Len(leaves) - 1
        BY <1>2, <2>2 DEF Built
      <3>2. level_hashes = leaves
        BY <1>3, <3>1, LevelIs
      <3>3. Len(leaves) = 1 /\ index = 0
        <4>1. \A l \in Nat : \A i \in 0 .. l - 1 : l <= 1 => l = 1 /\ i = 0
          OBVIOUS
        <4>2. Len(leaves) <= 1
          BY <1>2, <3>2, Zenon
        <4> QED BY <1>4, <3>1, <4>1, <4>2, Zenon
      <3>4. root(leaves) = hash_pair(leaves[1], leaves[1])
        BY <2>2, <3>3, RootSingle
      <3>5. hash_pair(claim, claim) = hash_pair(leaves[1], leaves[1]) <=> claim = leaves[1]
        BY DEF hash_pair
      <3>6. index + 1 = 1
        BY <3>3
      <3> QED BY <2>0, <2>2, <3>4, <3>5, <3>6, Zenon
    <2> QED BY <2>1, <2>2
  <1>8. Shapes' /\ Built'
    BY <1>1, <1>2, <1>6, Zenon DEF Shapes, Built
  <1>9. Verified'
    BY <1>1, <1>2, Zenon DEF Verified
  <1>10. ProofExact'
    BY <1>1, <1>7, Zenon DEF ProofExact
  <1> QED BY <1>8, <1>9, <1>10 DEF ProofInd

\* After its last step verify_proof is at the root exactly when it started from the
\* leaf the proof was built for.
LEMMA VerifyDoneStep == ASSUME ProofInd, VerifyDone PROVE ProofInd'
  <1>1. /\ pc = "verify" /\ steps # <<>> /\ walked = Len(steps) /\ pc' = "done"
        /\ verdict' = (current_hash = root(leaves))
        /\ UNCHANGED <<leaves, index, level_hashes, proof_index, steps, claim, current_hash,
                       walked>>
    BY DEF VerifyDone
  <1>2. /\ Shapes /\ Built /\ Verified /\ Len(level_hashes) <= 1 /\ claim \in Leaves
        /\ current_hash = Path(claim, steps, walked)
    BY <1>1 DEF ProofInd, Verified
  <1>3. verdict' \in BOOLEAN
    BY <1>1, Zenon
  <1>4. leaves # <<>>
    BY <1>1, <1>2, Zenon DEF Built
  <1>5. /\ index \in 0 .. Len(leaves) - 1 /\ proof_index \in 0 .. Len(level_hashes) - 1
        /\ Len(level_hashes) + Len(steps) <= Len(leaves)
        /\ level_hashes = Level(leaves, Len(steps))
        /\ \A m \in 0 .. Len(steps) - 1 : Len(Level(leaves, m)) > 1
        /\ Path(leaves[index + 1], steps, Len(steps)) = level_hashes[proof_index + 1]
    BY <1>2, <1>4 DEF Built
  <1>6. Len(level_hashes) \in Nat /\ Len(steps) \in Nat /\ Len(leaves) \in Nat
    BY <1>2 DEF Shapes, IsSeq
  <1>7. Len(steps) # 0
    <2>1. \A S : \A s \in Seq(S) : Len(s) = 0 => s = <<>>
      OBVIOUS
    <2> QED BY <1>1, <1>2, <2>1, Zenon DEF Shapes, IsSeq
  <1>8. /\ Len(level_hashes) = 1 /\ proof_index = 0 /\ Len(leaves) > 1
        /\ Len(steps) \in 0 .. Len(leaves)
    <2>1. \A h, p, s, l \in Nat :
             h <= 1 /\ p \in 0 .. h - 1 /\ h + s <= l /\ s # 0
             => h = 1 /\ p = 0 /\ l > 1 /\ s \in 0 .. l
      OBVIOUS
    <2>2. proof_index \in Nat
      BY <1>5, <1>6
    <2> QED BY <1>2, <1>5, <1>6, <1>7, <2>1, <2>2, Zenon
  <1>9. root(leaves) = level_hashes[1]
    <2>1. Len(Level(leaves, Len(steps))) = 1
      BY <1>5, <1>8
    <2>2. root(leaves) = Level(leaves, Len(steps))[1]
      BY <1>4, <1>5, <1>6, <1>8, <2>1, RootIs
    <2> QED BY <1>5, <2>2
  <1>10. root(leaves) = Path(leaves[index + 1], steps, Len(steps))
    BY <1>5, <1>8, <1>9
  <1>11. current_hash = root(leaves) <=> claim = leaves[index + 1]
    BY <1>1, <1>2, <1>6, <1>10, PathTells
  <1>12. Shapes' /\ Built'
    BY <1>1, <1>2, <1>3, Zenon DEF Shapes, Built
  <1>13. Verified'
    BY <1>1, <1>2, Zenon DEF Verified
  <1>14. ProofExact'
    BY <1>1, <1>4, <1>11, Zenon DEF ProofExact
  <1> QED BY <1>12, <1>13, <1>14 DEF ProofInd

\* The inductive invariant of building and verifying.
THEOREM ProofInductive == Spec => []ProofInd
  <1>1. Init => ProofInd
    BY ProofIndInit
  <1>2. ASSUME ProofInd, UNCHANGED vars PROVE ProofInd'
    BY <1>2 DEF vars, ProofInd, Shapes, Built, Verified, ProofExact
  <1>3. ProofInd /\ [Next]_vars => ProofInd'
    BY <1>2, BuildCallStep, BuildStepStep, VerifyCallStep, VerifySingleStep, VerifyStepStep,
       VerifyDoneStep DEF Next
  <1> QED BY <1>1, <1>3, PTL DEF Spec

\* Every variable of build_proof and verify_proof has its type; the position of the
\* leaf's ancestor stays inside the level, so no loop reads past its end.
THEOREM ProofTypeOK == Spec => []TypeOK
  <1>1. ASSUME ProofInd PROVE TypeOK
    <2>1. Shapes /\ Built
      BY <1>1 DEF ProofInd
    <2>2. leaves \in Lists /\ Len(leaves) \in Nat /\ Len(leaves) <= MaxLeaves
      BY <2>1, ListsAre DEF Shapes
    <2>3. Len(level_hashes) \in Nat /\ Len(steps) \in Nat
      BY <2>1 DEF Shapes, IsSeq
    <2>4. CASE leaves = <<>>
      <3>1. level_hashes = <<>> /\ steps = <<>> /\ index = 0 /\ proof_index = 0
        BY <2>1, <2>4, Zenon DEF Built
      <3>2. Len(level_hashes) = Len(leaves) /\ Len(steps) = 0
        BY <2>4, <3>1, EmptyIs, Zenon
      <3>3. index \in 0 .. MaxLeaves /\ proof_index \in 0 .. 0
        BY <3>1, MerkleProofAssumption
      <3>4. Len(level_hashes) <= Len(leaves) /\ Len(steps) <= MaxLeaves
        BY <2>2, <3>2, MerkleProofAssumption
      <3> QED BY <2>1, <2>2, <2>4, <3>3, <3>4, Zenon DEF Shapes, TypeOK
    <2>5. CASE leaves # <<>>
      <3>1. /\ index \in 0 .. Len(leaves) - 1 /\ proof_index \in 0 .. Len(level_hashes) - 1
            /\ Len(level_hashes) + Len(steps) <= Len(leaves)
        BY <2>1, <2>5 DEF Built
      <3>2. /\ index \in 0 .. MaxLeaves /\ Len(level_hashes) <= Len(leaves)
            /\ Len(steps) <= MaxLeaves
        BY <2>2, <2>3, <3>1, MerkleProofAssumption
      <3> QED BY <2>1, <2>2, <2>5, <3>1, <3>2, Zenon DEF Shapes, TypeOK
    <2> QED BY <2>4, <2>5
  <1> QED BY <1>1, ProofInductive, PTL

\* At every pass of build_proof, the part of the proof that is there leads from the
\* leaf to its place in the level reached: for lists of any length.
THEOREM ProofFollows == Spec => []ProofFollowsLevels
  <1>1. ASSUME ProofInd PROVE ProofFollowsLevels
    <2>1. \A h, n : Climbed(h, n) = Path(h, steps, n)
      BY DEF Climbed, Path
    <2> QED BY <1>1, <2>1 DEF ProofInd, Built, ProofFollowsLevels
  <1> QED BY <1>1, ProofInductive, PTL

\* verify_proof accepts what build_proof made for the leaf it was made for, and for no
\* other, for lists of any length and at every position.
THEOREM ProofIsExact == Spec => []ProofExact
  <1>1. ProofInd => ProofExact
    BY DEF ProofInd
  <1> QED BY <1>1, ProofInductive, PTL

-----------------------------------------------------------------------------
(* What a root tells of its list. *)

\* A set of numbers with 0 in it and the next one of each, up to a bound.
LEMMA Induction ==
    ASSUME NEW N \in Nat, NEW S, 0 \in S, \A i \in 0 .. N - 1 : i \in S => i + 1 \in S
    PROVE  0 .. N \subseteq S
  <1> DEFINE Bad == {i \in 0 .. N : i \notin S}
  <1>1. SUFFICES ASSUME Bad # {} PROVE FALSE
    OBVIOUS
  <1>2. PICK m \in Bad : \A i \in Bad : m <= i
    <2>1. Bad \in SUBSET Nat
      OBVIOUS
    <2> HIDE DEF Bad
    <2> QED BY <1>1, <2>1, Least
  <1>3. m - 1 \in 0 .. N - 1 /\ (m - 1) + 1 = m /\ m - 1 \notin Bad /\ m - 1 \in 0 .. N
    BY <1>2
  <1> QED BY <1>3

\* Sequences: equal ones, two in a row, and one cut in two.
LEMMA SameSeq ==
    ASSUME NEW x, NEW y, IsSeq(x), IsSeq(y), Len(x) = Len(y), \A i \in 1 .. Len(x) : x[i] = y[i]
    PROVE  x = y
  <1>1. x = [i \in 1 .. Len(x) |-> x[i]] /\ y = [i \in 1 .. Len(y) |-> y[i]]
    BY DEF IsSeq
  <1> QED BY <1>1

InRow(c, x, y) ==
    /\ IsSeq(c) /\ Len(x) \in Nat /\ Len(y) \in Nat /\ Len(c) = Len(x) + Len(y)
    /\ \A i \in 1 .. Len(x) : c[i] = x[i]
    /\ \A i \in 1 .. Len(y) : c[Len(x) + i] = y[i]
LEMMA CatIs == ASSUME NEW x, NEW y, IsSeq(x), IsSeq(y) PROVE InRow(x \o y, x, y)
  <1> DEFINE R == {x[i] : i \in DOMAIN x} \cup {y[i] : i \in DOMAIN y}
             c == x \o y
  <1>1. x \in Seq(R) /\ y \in Seq(R)
    BY DEF IsSeq
  <1> HIDE DEF R
  <1>2. /\ c \in Seq(R) /\ Len(x) \in Nat /\ Len(y) \in Nat /\ Len(c) = Len(x) + Len(y)
        /\ \A i \in 1 .. Len(x) : c[i] = x[i]
        /\ \A i \in 1 .. Len(y) : c[Len(x) + i] = y[i]
    BY <1>1
  <1> HIDE DEF c
  <1>3. IsSeq(c)
    BY <1>2, SeqIs
  <1>4. InRow(c, x, y)
    BY <1>2, <1>3 DEF InRow
  <1> QED BY <1>4 DEF c

LEMMA CutIs ==
    ASSUME NEW S, NEW l \in Seq(S), NEW k \in 0 .. Len(l)
    PROVE  /\ SubSeq(l, 1, k) \in Seq(S) /\ Len(SubSeq(l, 1, k)) = k
           /\ SubSeq(l, k + 1, Len(l)) \in Seq(S) /\ Len(SubSeq(l, k + 1, Len(l))) = Len(l) - k
           /\ l = SubSeq(l, 1, k) \o SubSeq(l, k + 1, Len(l))
  <1> DEFINE x == SubSeq(l, 1, k)
             y == SubSeq(l, k + 1, Len(l))
  <1>1. x \in Seq(S) /\ Len(x) = k /\ \A i \in 1 .. k : x[i] = l[i]
    OBVIOUS
  <1>2. y \in Seq(S) /\ Len(y) = Len(l) - k /\ \A i \in 1 .. Len(l) - k : y[i] = l[k + i]
    OBVIOUS
  <1>3. Len(l) \in Nat
    OBVIOUS
  <1> HIDE DEF x, y
  <1>4. IsSeq(x) /\ IsSeq(y) /\ IsSeq(l)
    BY <1>1, <1>2, SeqIs, Zenon
  <1> DEFINE c == x \o y
  <1>5. /\ IsSeq(c) /\ Len(c) = Len(l) /\ (\A i \in 1 .. k : c[i] = x[i])
        /\ \A i \in 1 .. Len(l) - k : c[k + i] = y[i]
    <2>1. InRow(c, x, y)
      BY <1>4, CatIs, Zenon
    <2> HIDE DEF c
    <2> QED BY <1>1, <1>2, <1>3, <2>1 DEF InRow
  <1> HIDE DEF c
  <1>6. ASSUME NEW i \in 1 .. Len(l) PROVE l[i] = c[i]
    <2>1. CASE i <= k
      BY <1>1, <1>5, <2>1
    <2>2. CASE i > k
      <3>1. i - k \in 1 .. Len(l) - k /\ k + (i - k) = i
        BY <1>3, <2>2
      <3> QED BY <1>2, <1>5, <3>1
    <2> QED BY <2>1, <2>2
  <1>7. l = c
    BY <1>4, <1>5, <1>6, SameSeq
  <1> QED BY <1>1, <1>2, <1>7 DEF x, y, c

-----------------------------------------------------------------------------
\* Levels are sequences, all of them of something where the list is.
LEMMA LevelStep ==
    ASSUME NEW l, NEW n \in Nat PROVE Level(l, n + 1) = NextLevel(Level(l, n))
  <1>1. n + 1 \in Nat /\ n + 1 # 0 /\ (n + 1) - 1 = n
    OBVIOUS
  <1>2. Level(l, n + 1) = NextLevel(Level(l, (n + 1) - 1))
    BY <1>1, LevelIs
  <1> QED BY <1>1, <1>2

LEMMA LevelSeq ==
    ASSUME NEW l, IsSeq(l)
    PROVE  \A n \in Nat : /\ IsSeq(Level(l, n)) /\ Len(Level(l, n)) \in Nat
                          /\ Len(l) >= 1 => Len(Level(l, n)) >= 1
  <1>1. SUFFICES ASSUME NEW N \in Nat
                 PROVE  /\ IsSeq(Level(l, N)) /\ Len(Level(l, N)) \in Nat
                        /\ Len(l) >= 1 => Len(Level(l, N)) >= 1
    OBVIOUS
  <1> DEFINE T == {n \in 0 .. N : /\ IsSeq(Level(l, n)) /\ Len(Level(l, n)) \in Nat
                                  /\ Len(l) >= 1 => Len(Level(l, n)) >= 1}
  <1>2. 0 \in T
    <2>1. Level(l, 0) = l
      BY LevelIs
    <2>2. Len(l) \in Nat
      BY DEF IsSeq
    <2> QED BY <2>1, <2>2
  <1>3. ASSUME NEW n \in 0 .. N - 1, n \in T PROVE n + 1 \in T
    <2>1. n \in Nat /\ n + 1 \in 0 .. N
      OBVIOUS
    <2>2. Level(l, n + 1) = NextLevel(Level(l, n))
      BY <2>1, LevelStep
    <2>3. Len(Level(l, n)) \in Nat /\ (Len(l) >= 1 => Len(Level(l, n)) >= 1)
      BY <1>3
    <2>4. /\ IsSeq(NextLevel(Level(l, n))) /\ Len(NextLevel(Level(l, n))) = (Len(Level(l, n)) + 1) \div 2
          /\ Len(NextLevel(Level(l, n))) \in Nat
      BY <2>3, NextLevelIs
    <2> QED BY <2>1, <2>2, <2>3, <2>4
  <1> HIDE DEF T
  <1>4. 0 .. N \subseteq T
    BY <1>2, <1>3, Induction
  <1>5. N \in T
    BY <1>4
  <1> QED BY <1>5 DEF T

\* The next level of two lists in a row, the first of them even.
LEMMA NextLevelCat ==
    ASSUME NEW x, NEW y, IsSeq(x), IsSeq(y), Len(x) % 2 = 0
    PROVE  NextLevel(x \o y) = NextLevel(x) \o NextLevel(y)
  <1> DEFINE a == Len(x)
             b == Len(y)
             u == a \div 2
             m == (b + 1) \div 2
             c == x \o y
             nc == NextLevel(c)
             nx == NextLevel(x)
             ny == NextLevel(y)
             d == nx \o ny
  <1>1. /\ a \in Nat /\ b \in Nat /\ Len(c) = a + b
        /\ (\A i \in 1 .. a : c[i] = x[i]) /\ \A i \in 1 .. b : c[a + i] = y[i]
    <2>1. InRow(c, x, y)
      BY CatIs, Zenon
    <2> HIDE DEF c
    <2> QED BY <2>1 DEF InRow
  <1>2. u \in Nat /\ m \in Nat /\ a = 2 * u /\ (a + 1) \div 2 = u /\ ((a + b) + 1) \div 2 = u + m
    BY <1>1
  <1>3. /\ IsSeq(nx) /\ Len(nx) = u
        /\ \A k \in 1 .. u : nx[k] = hash_pair(x[2*k - 1], IF 2*k <= a THEN x[2*k] ELSE x[2*k - 1])
    BY <1>1, <1>2, NextLevelIs
  <1>4. /\ IsSeq(ny) /\ Len(ny) = m
        /\ \A k \in 1 .. m : ny[k] = hash_pair(y[2*k - 1], IF 2*k <= b THEN y[2*k] ELSE y[2*k - 1])
    BY <1>1, NextLevelIs
  <1>5. /\ IsSeq(nc) /\ Len(nc) = u + m
        /\ \A k \in 1 .. u + m :
              nc[k] = hash_pair(c[2*k - 1], IF 2*k <= a + b THEN c[2*k] ELSE c[2*k - 1])
    <2>1. Len(c) \in Nat
      BY <1>1
    <2> HIDE DEF c
    <2> QED BY <1>1, <1>2, <2>1, NextLevelIs
  <1> HIDE DEF nx, ny, nc, c, a, b, u, m
  <1>6. /\ IsSeq(d) /\ Len(d) = u + m
        /\ (\A i \in 1 .. u : d[i] = nx[i]) /\ \A i \in 1 .. m : d[u + i] = ny[i]
    <2>1. InRow(d, nx, ny)
      BY <1>3, <1>4, CatIs, Zenon
    <2> HIDE DEF d
    <2> QED BY <1>3, <1>4, <2>1 DEF InRow
  <1> HIDE DEF d
  <1>7. ASSUME NEW k \in 1 .. u + m PROVE nc[k] = d[k]
    <2>1. CASE k <= u
      <3>1. 2*k - 1 \in 1 .. a /\ 2*k \in 1 .. a /\ k \in 1 .. u /\ 2*k <= a /\ 2*k <= a + b
        BY <1>1, <1>2, <2>1
      <3>2. nc[k] = hash_pair(x[2*k - 1], x[2*k])
        BY <1>1, <1>5, <3>1
      <3> QED BY <1>3, <1>6, <3>1, <3>2
    <2>2. CASE k > u
      <3> DEFINE i == k - u
      <3>1. /\ i \in 1 .. m /\ k = u + i /\ 2*k - 1 = a + (2*i - 1) /\ 2*k = a + 2*i
            /\ 2*i - 1 \in 1 .. b /\ (2*k <= a + b <=> 2*i <= b) /\ (2*i <= b => 2*i \in 1 .. b)
        BY <1>1, <1>2, <2>2 DEF m
      <3> HIDE DEF i
      <3>2. c[2*k - 1] = y[2*i - 1] /\ (2*i <= b => c[2*k] = y[2*i])
        BY <1>1, <3>1
      <3>3. nc[k] = hash_pair(c[2*k - 1], IF 2*k <= a + b THEN c[2*k] ELSE c[2*k - 1])
        BY <1>5
      <3>4. nc[k] = hash_pair(y[2*i - 1], IF 2*i <= b THEN y[2*i] ELSE y[2*i - 1])
        BY <3>1, <3>2, <3>3
      <3>5. d[k] = ny[i]
        BY <1>6, <3>1
      <3> QED BY <1>4, <3>1, <3>4, <3>5
    <2> QED BY <1>2, <2>1, <2>2
  <1>8. nc = d
    BY <1>5, <1>6, <1>7, SameSeq
  <1> QED BY <1>8 DEF nc, d, c, nx, ny

\* An odd level and the same with its last hash repeated have the same next one.
LEMMA NextLevelRepeats ==
    ASSUME NEW x, NEW y, IsSeq(x), IsSeq(y), Len(x) % 2 = 1, Len(y) = 1, y[1] = x[Len(x)]
    PROVE  NextLevel(x \o y) = NextLevel(x)
  <1> DEFINE a == Len(x)
             m == (a + 1) \div 2
             c == x \o y
             nc == NextLevel(c)
             nx == NextLevel(x)
  <1>1. a \in Nat /\ Len(c) = a + 1 /\ (\A i \in 1 .. a : c[i] = x[i]) /\ c[a + 1] = x[a]
    <2>1. InRow(c, x, y)
      BY CatIs, Zenon
    <2> HIDE DEF c
    <2> QED BY <2>1 DEF InRow
  <1>2. m \in Nat /\ a + 1 = 2 * m /\ ((a + 1) + 1) \div 2 = m
    BY <1>1
  <1>3. /\ IsSeq(nx) /\ Len(nx) = m
        /\ \A k \in 1 .. m : nx[k] = hash_pair(x[2*k - 1], IF 2*k <= a THEN x[2*k] ELSE x[2*k - 1])
    BY <1>1, NextLevelIs
  <1>4. /\ IsSeq(nc) /\ Len(nc) = m
        /\ \A k \in 1 .. m :
              nc[k] = hash_pair(c[2*k - 1], IF 2*k <= a + 1 THEN c[2*k] ELSE c[2*k - 1])
    <2>1. Len(c) \in Nat
      BY <1>1
    <2> HIDE DEF c
    <2> QED BY <1>1, <1>2, <2>1, NextLevelIs
  <1> HIDE DEF nx, nc, c, a, m
  <1>5. ASSUME NEW k \in 1 .. m PROVE nc[k] = nx[k]
    <2>1. 2*k - 1 \in 1 .. a /\ 2*k <= a + 1 /\ (2*k <= a => 2*k \in 1 .. a)
          /\ (~(2*k <= a) => 2*k = a + 1 /\ 2*k - 1 = a)
      BY <1>1, <1>2
    <2>2. nc[k] = hash_pair(x[2*k - 1], c[2*k])
      BY <1>1, <1>4, <2>1
    <2>3. c[2*k] = IF 2*k <= a THEN x[2*k] ELSE x[2*k - 1]
      BY <1>1, <2>1
    <2> QED BY <1>3, <2>2, <2>3
  <1>6. nc = nx
    BY <1>3, <1>4, <1>5, SameSeq
  <1> QED BY <1>6 DEF nc, nx, c

\* The levels of even lists tell the levels below them.
LEMMA NextLevelTells ==
    ASSUME NEW x, NEW y, IsSeq(x), IsSeq(y), Len(x) % 2 = 0, Len(y) % 2 = 0,
           NextLevel(x) = NextLevel(y)
    PROVE  x = y
  <1> DEFINE a == Len(x)
             b == Len(y)
             u == (a + 1) \div 2
  <1>1. a \in Nat /\ b \in Nat
    BY DEF IsSeq
  <1>2. Len(NextLevel(x)) = u /\ Len(NextLevel(y)) = (b + 1) \div 2
    BY <1>1, NextLevelIs
  <1>3. a = b /\ a = 2 * u /\ u \in Nat
    <2>1. u = (b + 1) \div 2
      BY <1>2
    <2> QED BY <1>1, <2>1
  <1>4. ASSUME NEW k \in 1 .. u PROVE x[2*k - 1] = y[2*k - 1] /\ x[2*k] = y[2*k]
    <2>1. 2*k <= a /\ 2*k <= b
      BY <1>3
    <2>2. NextLevel(x)[k] = hash_pair(x[2*k - 1], x[2*k])
      BY <1>1, <2>1, NextLevelIs
    <2>3. NextLevel(y)[k] = hash_pair(y[2*k - 1], y[2*k])
      <3>1. k \in 1 .. (b + 1) \div 2
        BY <1>3
      <3> QED BY <1>1, <2>1, <3>1, NextLevelIs
    <2>4. hash_pair(x[2*k - 1], x[2*k]) = hash_pair(y[2*k - 1], y[2*k])
      BY <2>2, <2>3
    <2> QED BY <2>4 DEF hash_pair
  <1> HIDE DEF u, a, b
  <1>5. ASSUME NEW i \in 1 .. a PROVE x[i] = y[i]
    <2>1. \E k \in 1 .. u : i = 2*k - 1 \/ i = 2*k
      <3>1. (i + 1) \div 2 \in 1 .. u /\ (i = 2 * ((i + 1) \div 2) - 1 \/ i = 2 * ((i + 1) \div 2))
        BY <1>1, <1>3
      <3> QED BY <3>1
    <2> QED BY <1>4, <2>1
  <1> QED BY <1>3, <1>5, SameSeq DEF a, b

-----------------------------------------------------------------------------
\* The sizes of full trees.
Doubling(z) == z[0] = 1 /\ \A n \in Nat : z[n] \in Nat \ {0} /\ z[n + 1] = 2 * z[n]
LEMMA DoublingExists == \E z : Doubling(z)
  <1>1. PICK z : Recursive("double", 1, 1, z)
    BY Recursion, Zenon
  <1>2. z = [i \in Nat |-> IF i = 0 THEN 1 ELSE 2 * z[i - 1]]
    BY <1>1 DEF Recursive, Advance
  <1>3. z[0] = 1
    BY <1>2
  <1>4. ASSUME NEW n \in Nat PROVE z[n + 1] = 2 * z[n]
    <2>1. n + 1 \in Nat /\ n + 1 # 0 /\ (n + 1) - 1 = n
      OBVIOUS
    <2>2. z[n + 1] = 2 * z[(n + 1) - 1]
      BY <1>2, <2>1
    <2> QED BY <2>1, <2>2
  <1>5. ASSUME NEW N \in Nat PROVE z[N] \in Nat \ {0}
    <2> DEFINE T == {n \in 0 .. N : z[n] \in Nat \ {0}}
    <2>1. 0 \in T
      BY <1>3
    <2>2. ASSUME NEW n \in 0 .. N - 1, n \in T PROVE n + 1 \in T
      BY <1>4, <2>2
    <2> HIDE DEF T
    <2>3. 0 .. N \subseteq T
      BY <2>1, <2>2, Induction
    <2> QED BY <2>3 DEF T
  <1>6. Doubling(z)
    BY <1>3, <1>4, <1>5 DEF Doubling
  <1> QED BY <1>6

\* The levels of a list of c full trees of height h, up to that height: their lengths,
LEMMA LevelLength ==
    ASSUME NEW z, Doubling(z), NEW l, IsSeq(l), NEW c \in Nat, NEW h \in Nat, Len(l) = c * z[h]
    PROVE  \A j \in 0 .. h : Len(Level(l, j)) = c * z[h - j]
  <1> DEFINE T == {j \in 0 .. h : Len(Level(l, j)) = c * z[h - j]}
  <1>1. 0 \in T
    <2>1. h - 0 = h
      OBVIOUS
    <2>2. Level(l, 0) = l
      BY LevelIs
    <2> QED BY <2>1, <2>2
  <1>2. ASSUME NEW j \in 0 .. h - 1, j \in T PROVE j + 1 \in T
    <2> DEFINE k == h - (j + 1)
               w == c * z[k]
    <2>1. j \in Nat /\ j + 1 \in 0 .. h /\ k \in Nat /\ k + 1 = h - j
      OBVIOUS
    <2>2. z[k] \in Nat /\ z[k + 1] = 2 * z[k]
      BY <2>1 DEF Doubling
    <2>3. w \in Nat /\ c * z[k + 1] = 2 * w
      <3>1. \A x \in Nat : c * x \in Nat /\ c * (2 * x) = 2 * (c * x)
        OBVIOUS
      <3> QED BY <2>2, <3>1
    <2>4. Len(Level(l, j)) = 2 * w
      BY <1>2, <2>1, <2>3
    <2> HIDE DEF w
    <2>5. Len(Level(l, j)) \in Nat /\ (Len(Level(l, j)) + 1) \div 2 = w
      BY <2>3, <2>4
    <2>6. Len(NextLevel(Level(l, j))) = w
      BY <2>5, NextLevelIs
    <2>7. Level(l, j + 1) = NextLevel(Level(l, j))
      BY <2>1, LevelStep
    <2>8. Len(Level(l, j + 1)) = c * z[h - (j + 1)]
      BY <2>6, <2>7 DEF w
    <2> QED BY <2>1, <2>8
  <1> HIDE DEF T
  <1>3. 0 .. h \subseteq T
    BY <1>1, <1>2, Induction
  <1> QED BY <1>3 DEF T

\* which are even below the height,
LEMMA LevelEven ==
    ASSUME NEW z, Doubling(z), NEW l, IsSeq(l), NEW c \in Nat, NEW h \in Nat, Len(l) = c * z[h],
           NEW j \in 0 .. h - 1
    PROVE  Len(Level(l, j)) % 2 = 0
  <1> DEFINE k == h - (j + 1)
             w == c * z[k]
  <1>1. j \in 0 .. h /\ k \in Nat /\ k + 1 = h - j
    OBVIOUS
  <1>2. z[k] \in Nat /\ z[k + 1] = 2 * z[k]
    BY <1>1 DEF Doubling
  <1>3. w \in Nat /\ c * z[k + 1] = 2 * w
    <2>1. \A x \in Nat : c * x \in Nat /\ c * (2 * x) = 2 * (c * x)
      OBVIOUS
    <2> QED BY <1>2, <2>1
  <1>4. Len(Level(l, j)) = 2 * w
    BY <1>1, <1>3, LevelLength
  <1> HIDE DEF w
  <1> QED BY <1>3, <1>4

\* and that a list behind it does not change them.
LEMMA LevelCat ==
    ASSUME NEW z, Doubling(z), NEW l, IsSeq(l), NEW c \in Nat, NEW h \in Nat, Len(l) = c * z[h],
           NEW y, IsSeq(y)
    PROVE  \A j \in 0 .. h : Level(l \o y, j) = Level(l, j) \o Level(y, j)
  <1> DEFINE T == {j \in 0 .. h : Level(l \o y, j) = Level(l, j) \o Level(y, j)}
  <1>1. 0 \in T
    <2>1. \A x : Level(x, 0) = x
      BY LevelIs
    <2>2. 0 \in 0 .. h
      OBVIOUS
    <2> QED BY <2>1, <2>2, Zenon
  <1>2. ASSUME NEW j \in 0 .. h - 1, j \in T PROVE j + 1 \in T
    <2>1. j \in Nat /\ j + 1 \in 0 .. h
      OBVIOUS
    <2>2. Len(Level(l, j)) % 2 = 0
      BY LevelEven
    <2>3. IsSeq(Level(l, j)) /\ IsSeq(Level(y, j))
      BY <2>1, LevelSeq
    <2>4. NextLevel(Level(l, j) \o Level(y, j)) = NextLevel(Level(l, j)) \o NextLevel(Level(y, j))
      BY <2>2, <2>3, NextLevelCat
    <2>5. Level(l \o y, j) = Level(l, j) \o Level(y, j)
      BY <1>2
    <2>6. \A x : Level(x, j + 1) = NextLevel(Level(x, j))
      BY <2>1, LevelStep
    <2>7. Level(l \o y, j + 1) = Level(l, j + 1) \o Level(y, j + 1)
      BY <2>4, <2>5, <2>6, Zenon
    <2> QED BY <2>1, <2>7
  <1> HIDE DEF T
  <1>3. 0 .. h \subseteq T
    BY <1>1, <1>2, Induction
  <1> QED BY <1>3 DEF T

\* At the height itself.
FullTrees(l, c, h, z) == IsSeq(l) /\ c \in Nat /\ Len(l) = c * z[h]
Tops(l, c, h) ==
    /\ IsSeq(Level(l, h)) /\ Len(Level(l, h)) = c
    /\ \A y : IsSeq(y) => Level(l \o y, h) = Level(l, h) \o Level(y, h)
LEMMA LevelTop ==
    ASSUME NEW z, Doubling(z), NEW l, NEW c, NEW h \in Nat, FullTrees(l, c, h, z)
    PROVE  Tops(l, c, h)
  <1>1. IsSeq(l) /\ c \in Nat /\ Len(l) = c * z[h]
    BY DEF FullTrees
  <1>2. h \in 0 .. h /\ h - h = 0 /\ z[0] = 1 /\ c * 1 = c
    BY <1>1 DEF Doubling
  <1>3. Len(Level(l, h)) = c * z[h - h]
    BY <1>1, <1>2, LevelLength
  <1>4. ASSUME NEW y, IsSeq(y) PROVE Level(l \o y, h) = Level(l, h) \o Level(y, h)
    <2>1. \A j \in 0 .. h : Level(l \o y, j) = Level(l, j) \o Level(y, j)
      BY <1>1, <1>4, LevelCat
    <2> QED BY <1>2, <2>1
  <1>5. IsSeq(Level(l, h))
    BY <1>1, LevelSeq
  <1> QED BY <1>2, <1>3, <1>4, <1>5 DEF Tops

\* A list of two or more has a first level of one hash.
FirstOne(t, K) ==
    /\ K \in 1 .. Len(t) - 1 /\ Len(Level(t, K)) = 1
    /\ \A m \in 0 .. K - 1 : Len(Level(t, m)) > 1
LEMMA TopExists ==
    ASSUME NEW t, IsSeq(t), Len(t) > 1
    PROVE  \E K : FirstOne(t, K)
  <1> DEFINE N == Len(t)
             len(m) == Len(Level(t, m))
             One == {m \in 0 .. N - 1 : len(m) = 1}
             T == {i \in 0 .. N : len(i) + i <= N}
  <1>1. N \in Nat /\ N > 1
    BY DEF IsSeq
  <1>2. \A m \in Nat : len(m) \in Nat /\ len(m) >= 1
    <2>1. Len(t) >= 1
      BY <1>1
    <2> QED BY <2>1, LevelSeq
  <1>3. len(0) = N
    BY LevelIs
  <1>4. \A m \in Nat : len(m + 1) = (len(m) + 1) \div 2
    <2>1. ASSUME NEW m \in Nat PROVE len(m + 1) = (len(m) + 1) \div 2
      <3>1. Level(t, m + 1) = NextLevel(Level(t, m))
        BY LevelStep
      <3> QED BY <1>2, <3>1, NextLevelIs
    <2> QED BY <2>1
  <1> HIDE DEF N, len
  <1>5. One # {}
    <2>1. SUFFICES ASSUME One = {} PROVE FALSE
      OBVIOUS
    <2>2. 0 \in T
      BY <1>1, <1>3
    <2>3. ASSUME NEW i \in 0 .. N - 1, i \in T PROVE i + 1 \in T
      <3>a. i \in Nat /\ i + 1 \in 0 .. N
        BY <1>1
      <3>b. len(i) # 1
        BY <2>1
      <3>1. i \in Nat /\ i + 1 \in 0 .. N /\ len(i) \in Nat /\ len(i) >= 1 /\ len(i) # 1
        BY <1>2, <3>a, <3>b, Zenon
      <3>2. len(i + 1) = (len(i) + 1) \div 2 /\ len(i) + i <= N
        BY <1>4, <2>3, <3>1
      <3>3. len(i + 1) + (i + 1) <= N
        BY <1>1, <3>1, <3>2
      <3> QED BY <3>1, <3>3
    <2>4. 0 .. N \subseteq T
      <3> HIDE DEF T
      <3> QED BY <1>1, <2>2, <2>3, Induction
    <2>5. len(N) + N <= N
      BY <1>1, <2>4
    <2> QED BY <1>1, <1>2, <2>5
  <1>6. PICK K \in One : \A i \in One : K <= i
    <2>1. One \in SUBSET Nat
      BY <1>1
    <2> HIDE DEF One
    <2> QED BY <1>5, <2>1, Least
  <1>7. K \in 1 .. N - 1 /\ len(K) = 1
    BY <1>1, <1>3, <1>6
  <1>8. ASSUME NEW m \in 0 .. K - 1 PROVE len(m) > 1
    <2>1. m \in Nat /\ m \in 0 .. N - 1 /\ ~(K <= m)
      BY <1>1, <1>7
    <2>2. len(m) # 1
      BY <1>6, <2>1
    <2> QED BY <1>2, <2>1, <2>2
  <1>9. FirstOne(t, K)
    BY <1>7, <1>8 DEF FirstOne, len, N
  <1> QED BY <1>9

\* What padding keeps, up to the height of the tree: the list is of as many full trees
\* as the level has hashes, and has the level of the list it started from.
Pads(p, h, t, z) ==
    /\ p.list \in Seq(Leaves) /\ p.trees = Len(Level(t, h)) /\ p.size = z[h]
    /\ Len(p.list) = p.trees * p.size
    /\ Level(p.list, h) = Level(t, h)

LEMMA PadStep ==
    ASSUME NEW z, Doubling(z), NEW t, IsSeq(t), NEW h \in Nat, NEW p, Pads(p, h, t, z),
           Len(Level(t, h)) > 1
    PROVE  Pads(PadOnce(p), h + 1, t, z)
  <1> DEFINE l == p.list
             c == p.trees
             s == p.size
             k == Len(l) - s
             front == SubSeq(l, 1, k)
             last == SubSeq(l, k + 1, Len(l))
             q == PadOnce(p)
  <1>1. /\ l \in Seq(Leaves) /\ c = Len(Level(t, h)) /\ s = z[h] /\ Len(l) = c * s
        /\ Level(l, h) = Level(t, h)
    BY DEF Pads
  <1>2. /\ q.list = IF c > 1 /\ c % 2 = 1 THEN l \o last ELSE l
        /\ q.trees = (c + 1) \div 2 /\ q.size = 2 * s
    BY DEF PadOnce
  <1> HIDE DEF l, c, s, q
  <1>3. /\ c \in Nat /\ c > 1 /\ s \in Nat /\ s > 0 /\ z[h + 1] = 2 * s /\ z[0] = 1
        /\ IsSeq(l) /\ Len(l) \in Nat
    <2>1. c \in Nat
      BY <1>1, LevelSeq
    <2>2. z[h] \in Nat \ {0} /\ z[h + 1] = 2 * z[h] /\ z[0] = 1
      BY DEF Doubling
    <2>3. IsSeq(l) /\ Len(l) \in Nat
      BY <1>1, SeqIs
    <2> QED BY <1>1, <2>1, <2>2, <2>3
  <1>4. Level(t, h + 1) = NextLevel(Level(t, h)) /\ Level(l, h + 1) = NextLevel(Level(l, h))
    BY LevelStep
  <1>5. q.trees = Len(Level(t, h + 1)) /\ q.size = z[h + 1]
    <2>1. Len(NextLevel(Level(t, h))) = (c + 1) \div 2
      BY <1>1, <1>3, NextLevelIs
    <2> QED BY <1>2, <1>3, <1>4, <2>1
  <1>6. CASE c % 2 # 1
    <2>1. q.list = l
      BY <1>2, <1>6
    <2>2. Len(l) = q.trees * q.size
      <3> DEFINE d == (c + 1) \div 2
      <3>1. d \in Nat /\ c = 2 * d
        BY <1>3, <1>6
      <3> HIDE DEF d
      <3>2. (2 * d) * s = d * (2 * s)
        BY <1>3, <3>1
      <3> QED BY <1>1, <1>2, <3>1, <3>2 DEF d
    <2> QED BY <1>1, <1>4, <1>5, <2>1, <2>2 DEF Pads, q
  <1>7. CASE c % 2 = 1
    <2>1. q.list = l \o last
      BY <1>2, <1>3, <1>7
    <2> DEFINE b == c - 1
    <2>2. k \in 0 .. Len(l) /\ k = b * s /\ Len(l) - k = s /\ b \in Nat /\ b + 1 = c
      <3>1. b \in Nat /\ c = b + 1
        BY <1>3
      <3> HIDE DEF b
      <3>2. (b + 1) * s = b * s + s /\ b * s \in Nat
        BY <1>3, <3>1
      <3> DEFINE m == b * s
      <3>3. Len(l) = m + s /\ m \in Nat
        BY <1>1, <3>1, <3>2
      <3> HIDE DEF m
      <3>4. k \in 0 .. Len(l) /\ k = m /\ Len(l) - k = s
        BY <1>3, <3>3
      <3> QED BY <3>1, <3>4 DEF m
    <2> HIDE DEF k, b
    <2>3. /\ front \in Seq(Leaves) /\ Len(front) = k /\ last \in Seq(Leaves) /\ Len(last) = s
          /\ l = front \o last
      BY <1>1, <2>2, CutIs
    <2> HIDE DEF front, last
    <2>4. IsSeq(front) /\ IsSeq(last)
      BY <2>3, SeqIs
    <2> DEFINE x == Level(front, h)
               y == Level(last, h)
               w == Level(l, h)
    <2>5. /\ FullTrees(front, b, h, z) /\ FullTrees(l, c, h, z)
      BY <1>1, <1>3, <2>2, <2>3, <2>4 DEF FullTrees
    <2>6. FullTrees(last, 1, h, z)
      <3>1. 1 * s = s
        BY <1>3
      <3> QED BY <1>1, <2>3, <2>4, <3>1 DEF FullTrees
    <2>a. Tops(front, b, h) /\ Tops(l, c, h) /\ Tops(last, 1, h)
      BY <2>5, <2>6, LevelTop
    <2>7. IsSeq(x) /\ Len(x) = b /\ IsSeq(y) /\ Len(y) = 1 /\ IsSeq(w) /\ Len(w) = c
      BY <2>a DEF Tops
    <2>8. w = x \o y /\ Level(l \o last, h) = w \o y
      <3>1. \A v : IsSeq(v) => /\ Level(front \o v, h) = Level(front, h) \o Level(v, h)
                               /\ Level(l \o v, h) = Level(l, h) \o Level(v, h)
        BY <2>a, Zenon DEF Tops
      <3> QED BY <2>3, <2>4, <3>1
    <2> HIDE DEF x, y, w
    <2>9. y[1] = w[c]
      <3>1. InRow(w, x, y)
        BY <2>7, <2>8, CatIs
      <3> QED BY <2>2, <2>7, <3>1 DEF InRow
    <2>10. NextLevel(w \o y) = NextLevel(w)
      BY <1>7, <2>7, <2>9, NextLevelRepeats
    <2>11. Level(l \o last, h + 1) = Level(t, h + 1)
      <3>1. Level(l \o last, h + 1) = NextLevel(Level(l \o last, h))
        BY LevelStep
      <3> QED BY <1>1, <1>4, <2>8, <2>10, <3>1, Zenon DEF w
    <2>12. l \o last \in Seq(Leaves) /\ Len(l \o last) = c * s + s
      <3>1. \A u, v \in Seq(Leaves) : u \o v \in Seq(Leaves) /\ Len(u \o v) = Len(u) + Len(v)
        OBVIOUS
      <3> QED BY <1>1, <2>3, <3>1
    <2>13. c * s + s = ((c + 1) \div 2) * (2 * s)
      <3> DEFINE d == (c + 1) \div 2
      <3>1. d \in Nat /\ c = 2 * d - 1
        BY <1>3, <1>7
      <3> HIDE DEF d
      <3>2. (2 * d - 1) * s + s = d * (2 * s)
        BY <1>3, <3>1
      <3> QED BY <3>1, <3>2 DEF d
    <2> QED BY <1>2, <1>5, <2>1, <2>11, <2>12, <2>13 DEF Pads, q
  <1> QED BY <1>6, <1>7

\* What the recursive definition of padding says.
Start(list) == IF Len(list) = 1 THEN list \o list ELSE list
Unpadded(list) == [list |-> Start(list), trees |-> Len(Start(list)), size |-> 1]
Padding(f, list) == f[0] = Unpadded(list) /\ \A n \in Nat : f[n + 1] = PadOnce(f[n])
LEMMA PaddedIs ==
    ASSUME NEW list PROVE \E f : Padding(f, list) /\ Padded(list) = f[Len(list)].list
  <1> DEFINE base == Unpadded(list)
             pad == CHOOSE pad : pad = [h \in Nat |-> IF h = 0 THEN base ELSE PadOnce(pad[h - 1])]
  <1>1. Padded(list) = pad[Len(list)].list
    BY Zenon DEF Padded, Unpadded, Start
  <1> HIDE DEF base
  <1>2. \E f : f = [h \in Nat |-> IF h = 0 THEN base ELSE PadOnce(f[h - 1])]
    <2>1. PICK f : Recursive("pad", base, base, f)
      BY Recursion, Zenon
    <2>2. f = [h \in Nat |-> IF h = 0 THEN base ELSE PadOnce(f[h - 1])]
      BY <2>1 DEF Recursive, Advance
    <2> QED BY <2>2
  <1>3. pad = [h \in Nat |-> IF h = 0 THEN base ELSE PadOnce(pad[h - 1])]
    BY <1>2
  <1> HIDE DEF pad
  <1>4. pad[0] = base
    BY <1>3
  <1>5. ASSUME NEW n \in Nat PROVE pad[n + 1] = PadOnce(pad[n])
    <2>1. n + 1 \in Nat /\ n + 1 # 0 /\ (n + 1) - 1 = n
      OBVIOUS
    <2>2. pad[n + 1] = PadOnce(pad[(n + 1) - 1])
      BY <1>3, <2>1
    <2> QED BY <2>1, <2>2
  <1>6. Padding(pad, list)
    BY <1>4, <1>5, Zenon DEF Padding, base
  <1> QED BY <1>1, <1>6

\* Padding starts from a list of two or more with the same root.
LEMMA StartIs ==
    ASSUME NEW list \in Seq(Leaves), list # <<>>
    PROVE  /\ Start(list) \in Seq(Leaves) /\ Len(Start(list)) > 1
           /\ Len(Start(list)) - 1 <= Len(list) /\ root(Start(list)) = root(list)
  <1>1. Len(list) \in Nat /\ Len(list) # 0
    OBVIOUS
  <1>2. CASE Len(list) # 1
    <2>1. Start(list) = list
      BY <1>2, Zenon DEF Start
    <2>2. Len(list) > 1 /\ Len(list) - 1 <= Len(list)
      <3>1. \A n \in Nat : n # 0 /\ n # 1 => n > 1 /\ n - 1 <= n
        OBVIOUS
      <3> QED BY <1>1, <1>2, <3>1, Zenon
    <2> QED BY <2>1, <2>2, Zenon
  <1>3. CASE Len(list) = 1
    <2> DEFINE t == list \o list
               x == list[1]
    <2>1. Start(list) = t
      BY <1>3 DEF Start
    <2>2. t \in Seq(Leaves) /\ Len(t) = 2 /\ t[1] = x /\ t[2] = x
      <3>1. InRow(t, list, list)
        BY SeqIs, CatIs, Zenon
      <3>2. t \in Seq(Leaves)
        OBVIOUS
      <3> HIDE DEF t
      <3>3. 1 \in 1 .. 1 /\ 1 + 1 = 2
        OBVIOUS
      <3> QED BY <1>3, <3>1, <3>2, <3>3, Zenon DEF InRow
    <2>3. root(list) = hash_pair(x, x)
      BY <1>3, RootSingle
    <2> HIDE DEF t, x
    <2>4. Level(t, 0) = t /\ Level(t, 1) = NextLevel(t)
      <3>1. 1 \in Nat /\ 1 # 0 /\ 1 - 1 = 0
        OBVIOUS
      <3>2. Level(t, 1) = NextLevel(Level(t, 1 - 1))
        BY <3>1, LevelIs
      <3> QED BY <3>1, <3>2, LevelIs
    <2>5. Len(NextLevel(t)) = 1 /\ NextLevel(t)[1] = hash_pair(x, x)
      <3>1. Len(t) \in Nat /\ 1 \in 1 .. (Len(t) + 1) \div 2 /\ (Len(t) + 1) \div 2 = 1
            /\ 2 * 1 - 1 = 1 /\ 2 * 1 = 2 /\ 2 * 1 <= Len(t)
        BY <2>2
      <3>2. /\ Len(NextLevel(t)) = (Len(t) + 1) \div 2
            /\ NextLevel(t)[1] = hash_pair(t[2 * 1 - 1], IF 2 * 1 <= Len(t) THEN t[2 * 1] ELSE t[2 * 1 - 1])
        BY <3>1, NextLevelIs
      <3> QED BY <2>2, <3>1, <3>2
    <2>6. root(t) = Level(t, 1)[1]
      <3>1. Len(t) \in Nat /\ Len(t) > 1 /\ 1 \in 0 .. Len(t) /\ Len(t) # 0
        BY <2>2
      <3>2. Len(Level(t, 1)) = 1
        BY <2>4, <2>5
      <3>3. ASSUME NEW m \in 0 .. 1 - 1 PROVE Len(Level(t, m)) > 1
        <4>1. m = 0
          OBVIOUS
        <4> QED BY <2>4, <3>1, <4>1
      <3>4. t # <<>>
        BY <3>1, EmptyIs, Zenon
      <3> QED BY <3>1, <3>2, <3>3, <3>4, RootIs
    <2>7. 2 > 1 /\ 2 - 1 <= 1
      OBVIOUS
    <2> QED BY <1>3, <2>1, <2>2, <2>3, <2>4, <2>5, <2>6, <2>7, Zenon
  <1> QED BY <1>2, <1>3

\* A full tree of height K with its root.
FullTree(p, K, r, z) ==
    /\ p \in Seq(Leaves) /\ K \in Nat \ {0} /\ Len(p) = z[K]
    /\ Len(Level(p, K)) = 1 /\ Level(p, K)[1] = r

\* Padding ends with one.
LEMMA PaddedTop ==
    ASSUME NEW z, Doubling(z), NEW list \in Seq(Leaves), list # <<>>
    PROVE  \E K : FullTree(Padded(list), K, root(list), z)
  <1> DEFINE t == Start(list)
             N == Len(list)
  <1>1. /\ t \in Seq(Leaves) /\ Len(t) > 1 /\ Len(t) - 1 <= N /\ root(t) = root(list)
        /\ Len(t) \in Nat /\ N \in Nat
    BY StartIs
  <1>2. IsSeq(t) /\ t # <<>>
    <2>1. IsSeq(t)
      BY <1>1, SeqIs
    <2>2. t # <<>>
      BY <1>1
    <2> QED BY <2>1, <2>2
  <1>3. PICK K : FirstOne(t, K)
    BY <1>1, <1>2, TopExists
  <1>4. PICK f : Padding(f, list) /\ Padded(list) = f[N].list
    BY PaddedIs
  <1>5. f[0].list = t /\ f[0].trees = Len(t) /\ f[0].size = 1
    BY <1>4 DEF Padding, Unpadded
  <1> HIDE DEF t, N
  <1>6. /\ K \in Nat \ {0} /\ K <= N /\ K \in 0 .. Len(t) /\ Len(Level(t, K)) = 1
        /\ \A m \in 0 .. K - 1 : Len(Level(t, m)) > 1
    BY <1>1, <1>3 DEF FirstOne
  <1>7. root(list) = Level(t, K)[1]
    BY <1>1, <1>2, <1>6, RootIs
  <1>8. Pads(f[K], K, t, z)
    <2> DEFINE T == {h \in 0 .. K : Pads(f[h], h, t, z)}
    <2>1. 0 \in T
      <3>1. Level(t, 0) = t
        BY LevelIs
      <3>2. z[0] = 1 /\ Len(t) * 1 = Len(t)
        BY <1>1 DEF Doubling
      <3>3. Pads(f[0], 0, t, z)
        BY <1>1, <1>5, <3>1, <3>2 DEF Pads
      <3> QED BY <1>6, <3>3
    <2>2. ASSUME NEW h \in 0 .. K - 1, h \in T PROVE h + 1 \in T
      <3>1. h \in Nat /\ h + 1 \in 0 .. K /\ Len(Level(t, h)) > 1
        BY <1>6
      <3>2. Pads(PadOnce(f[h]), h + 1, t, z)
        BY <1>2, <2>2, <3>1, PadStep
      <3>3. f[h + 1] = PadOnce(f[h])
        BY <1>4, <3>1 DEF Padding
      <3> QED BY <3>1, <3>2, <3>3
    <2> HIDE DEF T
    <2>3. 0 .. K \subseteq T
      BY <1>6, <2>1, <2>2, Induction
    <2>4. K \in T
      BY <1>6, <2>3
    <2> QED BY <2>4 DEF T
  <1> DEFINE l == f[K].list
  <1>9. /\ l \in Seq(Leaves) /\ f[K].trees = 1 /\ Level(l, K) = Level(t, K) /\ Len(l) = z[K]
    <2>1. z[K] \in Nat
      BY <1>6 DEF Doubling
    <2>2. 1 * z[K] = z[K]
      BY <2>1
    <2> QED BY <1>6, <1>8, <2>2 DEF Pads
  <1> HIDE DEF l
  <1>10. f[N].list = l
    <2> DEFINE T == {i \in 0 .. N - K : f[K + i].list = l /\ f[K + i].trees = 1}
    <2>1. 0 \in T
      <3>1. K + 0 = K /\ 0 \in 0 .. N - K
        BY <1>1, <1>6
      <3> QED BY <1>9, <3>1 DEF l
    <2>2. ASSUME NEW i \in 0 .. (N - K) - 1, i \in T PROVE i + 1 \in T
      <3>1. K + i \in Nat /\ i + 1 \in 0 .. N - K /\ K + (i + 1) = (K + i) + 1
        BY <1>1, <1>6
      <3>2. f[(K + i) + 1] = PadOnce(f[K + i])
        BY <1>4, <3>1 DEF Padding
      <3>3. f[K + i].list = l /\ f[K + i].trees = 1
        BY <2>2
      <3>4. ~(1 > 1) /\ (1 + 1) \div 2 = 1
        OBVIOUS
      <3>5. PadOnce(f[K + i]).list = l /\ PadOnce(f[K + i]).trees = 1
        BY <3>3, <3>4 DEF PadOnce
      <3> QED BY <3>1, <3>2, <3>5
    <2> HIDE DEF T
    <2>3. N - K \in Nat
      BY <1>1, <1>6
    <2>4. 0 .. N - K \subseteq T
      BY <2>1, <2>2, <2>3, Induction
    <2>5. N - K \in T /\ K + (N - K) = N
      BY <1>1, <1>6, <2>3, <2>4
    <2> QED BY <2>5 DEF T
  <1>11. FullTree(Padded(list), K, root(list), z)
    BY <1>4, <1>6, <1>7, <1>9, <1>10 DEF FullTree
  <1> QED BY <1>11

\* A leaf is no pair.
LEMMA LeafIsNoPair == ASSUME NEW x \in Leaves, NEW p, NEW q PROVE x # hash_pair(p, q)
  <1>1. PICK m \in Messages : x = <<m>>
    BY DEF Leaves
  <1>2. \A a : <<a>> # <<p, q>>
    OBVIOUS
  <1> QED BY <1>1, <1>2, Zenon DEF hash_pair

\* The levels of a full tree are sequences, even below the root.
LEMMA FullTreeLevels ==
    ASSUME NEW z, Doubling(z), NEW p, NEW K, NEW r, FullTree(p, K, r, z)
    PROVE  /\ IsSeq(p) /\ K \in Nat /\ Len(p) \in Nat \ {0}
           /\ \A j \in 0 .. K : IsSeq(Level(p, j)) /\ Len(Level(p, j)) \in Nat \ {0}
           /\ \A j \in 0 .. K - 1 : Len(Level(p, j)) % 2 = 0
  <1>1. p \in Seq(Leaves) /\ K \in Nat /\ Len(p) = z[K] /\ z[K] \in Nat \ {0}
    BY DEF FullTree, Doubling
  <1>2. IsSeq(p)
    BY <1>1, SeqIs
  <1>3. 1 \in Nat /\ Len(p) = 1 * z[K]
    BY <1>1
  <1>4. ASSUME NEW j \in 0 .. K PROVE IsSeq(Level(p, j)) /\ Len(Level(p, j)) \in Nat \ {0}
    <2>1. j \in Nat /\ Len(p) >= 1
      BY <1>1
    <2>2. IsSeq(Level(p, j)) /\ Len(Level(p, j)) \in Nat /\ Len(Level(p, j)) >= 1
      BY <1>2, <2>1, LevelSeq
    <2> QED BY <2>2
  <1>5. ASSUME NEW j \in 0 .. K - 1 PROVE Len(Level(p, j)) % 2 = 0
    BY <1>1, <1>2, <1>3, LevelEven
  <1> QED BY <1>1, <1>2, <1>4, <1>5

\* Two full trees with the same root are of the same leaves,
LEMMA RootTellsTree ==
    ASSUME NEW z, Doubling(z), NEW p, NEW q, NEW K, NEW M, NEW r,
           FullTree(p, K, r, z), FullTree(q, M, r, z), K <= M
    PROVE  p = q
  <1>1. /\ IsSeq(p) /\ K \in Nat /\ Len(p) \in Nat \ {0}
        /\ \A j \in 0 .. K : IsSeq(Level(p, j))
        /\ \A j \in 0 .. K - 1 : Len(Level(p, j)) % 2 = 0
    BY FullTreeLevels
  <1>2. /\ IsSeq(q) /\ M \in Nat /\ Len(q) \in Nat \ {0}
        /\ \A j \in 0 .. M : IsSeq(Level(q, j)) /\ Len(Level(q, j)) \in Nat \ {0}
        /\ \A j \in 0 .. M - 1 : Len(Level(q, j)) % 2 = 0
    BY FullTreeLevels
  <1>3. Level(p, K) = Level(q, M)
    <2>1. /\ Len(Level(p, K)) = 1 /\ Level(p, K)[1] = r
          /\ Len(Level(q, M)) = 1 /\ Level(q, M)[1] = r
      BY DEF FullTree
    <2>2. IsSeq(Level(p, K)) /\ IsSeq(Level(q, M))
      BY <1>1, <1>2
    <2>3. \A i \in 1 .. 1 : Level(p, K)[i] = Level(q, M)[i]
      <3>1. \A i \in 1 .. 1 : i = 1
        OBVIOUS
      <3> QED BY <2>1, <3>1
    <2> QED BY <2>1, <2>2, <2>3, SameSeq
  <1> DEFINE T == {i \in 0 .. K : Level(p, K - i) = Level(q, M - i)}
  <1>4. 0 \in T
    <2>1. K - 0 = K /\ M - 0 = M /\ 0 \in 0 .. K
      BY <1>1, <1>2
    <2> QED BY <1>3, <2>1
  <1>5. ASSUME NEW i \in 0 .. K - 1, i \in T PROVE i + 1 \in T
    <2> DEFINE k == K - (i + 1)
               m == M - (i + 1)
    <2>1. /\ k \in Nat /\ m \in Nat /\ k \in 0 .. K - 1 /\ m \in 0 .. M - 1 /\ i + 1 \in 0 .. K
          /\ k \in 0 .. K /\ m \in 0 .. M /\ k + 1 = K - i /\ m + 1 = M - i
      BY <1>1, <1>2
    <2>2. Level(p, k + 1) = Level(q, m + 1)
      BY <1>5, <2>1
    <2> HIDE DEF k, m
    <2>3. NextLevel(Level(p, k)) = NextLevel(Level(q, m))
      <3>1. Level(p, k + 1) = NextLevel(Level(p, k)) /\ Level(q, m + 1) = NextLevel(Level(q, m))
        BY <2>1, LevelStep
      <3> QED BY <2>2, <3>1
    <2>4. /\ IsSeq(Level(p, k)) /\ IsSeq(Level(q, m))
          /\ Len(Level(p, k)) % 2 = 0 /\ Len(Level(q, m)) % 2 = 0
      BY <1>1, <1>2, <2>1
    <2>5. Level(p, k) = Level(q, m)
      BY <2>3, <2>4, NextLevelTells
    <2> QED BY <2>1, <2>5 DEF k, m
  <1> HIDE DEF T
  <1>6. 0 .. K \subseteq T
    BY <1>1, <1>4, <1>5, Induction
  <1>7. p = Level(q, M - K)
    <2>1. K \in 0 .. K /\ K - K = 0
      BY <1>1
    <2>2. Level(p, K - K) = Level(q, M - K)
      BY <1>6, <2>1 DEF T
    <2> QED BY <2>1, <2>2, LevelIs
  <1>8. CASE K = M
    <2>1. M - K = 0
      BY <1>1, <1>8
    <2> QED BY <1>7, <2>1, LevelIs
  <1>9. CASE K # M
    <2> DEFINE m == M - K - 1
               y == Level(q, m)
    <2>1. m \in Nat /\ m \in 0 .. M /\ m + 1 = M - K
      BY <1>1, <1>2, <1>9
    <2>2. p = NextLevel(y)
      BY <1>7, <2>1, LevelStep
    <2>3. Len(y) \in Nat \ {0}
      BY <1>2, <2>1
    <2> HIDE DEF m, y
    <2>4. 1 \in 1 .. (Len(y) + 1) \div 2 /\ Len(y) \in Nat
      BY <2>3
    <2>5. p[1] = hash_pair(y[2 * 1 - 1], IF 2 * 1 <= Len(y) THEN y[2 * 1] ELSE y[2 * 1 - 1])
      BY <2>2, <2>4, NextLevelIs
    <2>6. p[1] \in Leaves
      <3>1. p \in Seq(Leaves)
        BY DEF FullTree
      <3>2. 1 \in 1 .. Len(p)
        BY <1>1
      <3> QED BY <3>1, <3>2
    <2> QED BY <2>5, <2>6, LeafIsNoPair
  <1> QED BY <1>8, <1>9

\* and trees of the same leaves have the same root.
LEMMA TreeTellsRoot ==
    ASSUME NEW z, Doubling(z), NEW p, NEW K, NEW M, NEW r, NEW s,
           FullTree(p, K, r, z), FullTree(p, M, s, z), K <= M
    PROVE  r = s
  <1>1. K \in Nat /\ M \in Nat /\ Len(Level(p, K)) = 1 /\ Level(p, K)[1] = r /\ Level(p, M)[1] = s
    BY DEF FullTree
  <1>2. \A j \in 0 .. M - 1 : Len(Level(p, j)) % 2 = 0
    BY FullTreeLevels
  <1>3. K = M
    <2>1. SUFFICES ASSUME K # M PROVE FALSE
      OBVIOUS
    <2>2. K \in 0 .. M - 1
      BY <1>1, <2>1
    <2>3. 1 % 2 = 0
      BY <1>1, <1>2, <2>2
    <2> QED BY <2>3
  <1> QED BY <1>1, <1>3

\* Two lists of leaves have the same root exactly when they pad to the same tree.
SameRoot(a, b) == root(a) = root(b) <=> Padded(a) = Padded(b)
LEMMA RootsTellLists == ASSUME NEW a \in Seq(Leaves), NEW b \in Seq(Leaves) PROVE SameRoot(a, b)
  <1>1. PICK z : Doubling(z)
    BY DoublingExists
  <1> DEFINE Tree(l, K) == FullTree(Padded(l), K, root(l), z)
  <1>2. ASSUME NEW l \in Seq(Leaves), l # <<>> PROVE \E K \in Nat : Tree(l, K)
    <2>1. PICK K : Tree(l, K)
      BY <1>1, <1>2, PaddedTop
    <2>2. K \in Nat
      BY <2>1 DEF FullTree
    <2> QED BY <2>1, <2>2
  <1>3. ASSUME NEW x, NEW y, NEW K \in Nat, NEW M \in Nat, Tree(x, K), Tree(y, M), K <= M
        PROVE  SameRoot(x, y)
    <2>1. ASSUME root(x) = root(y) PROVE Padded(x) = Padded(y)
      BY <1>1, <1>3, <2>1, RootTellsTree
    <2>2. ASSUME Padded(x) = Padded(y) PROVE root(x) = root(y)
      BY <1>1, <1>3, <2>2, TreeTellsRoot
    <2> QED BY <2>1, <2>2 DEF SameRoot
  <1>4. CASE a # <<>> /\ b # <<>>
    <2>1. PICK K \in Nat : Tree(a, K)
      BY <1>2, <1>4
    <2>2. PICK M \in Nat : Tree(b, M)
      BY <1>2, <1>4
    <2>3. K <= M \/ M <= K
      OBVIOUS
    <2>4. SameRoot(a, b) \/ SameRoot(b, a)
      BY <1>3, <2>1, <2>2, <2>3
    <2> QED BY <2>4 DEF SameRoot
  <1>5. ASSUME NEW l \in Seq(Leaves), l # <<>>
        PROVE  root(l) # root(<<>>) /\ Padded(l) # Padded(<<>>)
    <2>1. PICK K \in Nat : Tree(l, K)
      BY <1>2, <1>5
    <2> HIDE DEF Tree
    <2>2. root(l) # <<>>
      <3> DEFINE m == K - 1
                 y == Level(Padded(l), m)
      <3>1. m \in Nat /\ m + 1 = K /\ m \in 0 .. K
        BY <2>1 DEF Tree, FullTree
      <3>2. Level(Padded(l), K) = NextLevel(y)
        BY <3>1, LevelStep
      <3>3. root(l) = NextLevel(y)[1]
        BY <2>1, <3>2 DEF Tree, FullTree
      <3>4. Len(y) \in Nat \ {0}
        BY <1>1, <2>1, <3>1, FullTreeLevels DEF Tree
      <3> HIDE DEF m, y
      <3>5. 1 \in 1 .. (Len(y) + 1) \div 2 /\ Len(y) \in Nat
        BY <3>4
      <3>6. root(l) = hash_pair(y[2 * 1 - 1], IF 2 * 1 <= Len(y) THEN y[2 * 1] ELSE y[2 * 1 - 1])
        BY <3>3, <3>5, NextLevelIs
      <3>7. \A u, v : hash_pair(u, v) # <<>>
        BY DEF hash_pair
      <3> QED BY <3>6, <3>7, Zenon
    <2>3. Padded(l) # <<>>
      <3>1. Len(Padded(l)) # 0
        BY <1>1, <2>1, FullTreeLevels DEF Tree
      <3> QED BY <3>1, EmptyIs, Zenon
    <2>4. Padded(<<>>) = <<>>
      <3>1. PICK f : Padding(f, <<>>) /\ Padded(<<>>) = f[Len(<<>>)].list
        BY PaddedIs, Zenon
      <3>2. Len(<<>>) = 0 /\ 0 # 1
        BY EmptyIs
      <3>3. Start(<<>>) = <<>>
        BY <3>2, Zenon DEF Start
      <3>4. f[0] = Unpadded(<<>>)
        BY <3>1, Zenon DEF Padding
      <3>5. \A x, y : [list |-> x, trees |-> y, size |-> 1].list = x
        OBVIOUS
      <3>6. f[0].list = Start(<<>>)
        BY <3>4, <3>5, Zenon DEF Unpadded
      <3> QED BY <3>1, <3>2, <3>3, <3>6, Zenon
    <2> QED BY <2>2, <2>3, <2>4, RootEmpty, Zenon
  <1>6. CASE a = <<>> \/ b = <<>>
    BY <1>5, <1>6, Zenon DEF SameRoot
  <1> QED BY <1>4, <1>6, Zenon

\* Two lists have the same root exactly when they pad to the same tree, for lists of any
\* length: nothing of a block's transactions but a repetition at the end is lost to
\* validate_block, which compares roots.
THEOREM RootsTellLeaves == Spec => []RootsTell
  <1>1. ASSUME ProofInd PROVE RootsTell
    <2>1. leaves \in Seq(Leaves)
      BY <1>1 DEF ProofInd, Shapes
    <2>2. \A other \in Lists : other \in Seq(Leaves)
      BY ListsAre
    <2>3. \A other \in Lists : SameRoot(leaves, other)
      BY <2>1, <2>2, RootsTellLists, Zenon
    <2> QED BY <2>3, Zenon DEF SameRoot, RootsTell
  <1> QED BY <1>1, ProofInductive, PTL
=============================================================================
