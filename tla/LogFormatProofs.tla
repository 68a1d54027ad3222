-------------------------- MODULE LogFormatProofs ---------------------------
(***************************************************************************)
(* Proofs about LogFormat, for any blocks and any number of records: what  *)
(* is written is what is read, field by field (BlockRound), and the reader *)
(* of a damaged file returns the blocks of the whole records in front of   *)
(* the damage and no other (LogReadsWholeRecords).                         *)
(***************************************************************************)
EXTENDS LogFormat, NaturalsInduction, WellFoundedInduction, TLAPS

-----------------------------------------------------------------------------
(* Recursive functions.  The induction rule of the library has an operator *)
(* for a parameter; the ones here have sets and functions.                 *)

\* A set of numbers with 0 in it and the next one of each is all of them.
LEMMA Induction ==
    ASSUME NEW S, 0 \in S, \A n \in Nat : n \in S => n + 1 \in S
    PROVE  Nat \subseteq S
  <1> DEFINE T == {n \in Nat : n \notin S}
  <1>1. SUFFICES ASSUME T # {} PROVE FALSE
    OBVIOUS
  <1>2. PICK m \in T : \A i \in T : ~(<<i, m>> \in OpToRel(<, Nat))
    BY <1>1, WFMin, NatLessThanWellFounded
  <1>3. \A i \in T : ~(i < m)
    BY <1>2 DEF OpToRel
  <1>4. m \in Nat /\ m # 0
    OBVIOUS
  <1>5. m - 1 \in Nat /\ m - 1 \notin T /\ (m - 1) + 1 = m
    BY <1>3, <1>4
  <1> QED BY <1>5

\* The same up to a bound.
LEMMA BoundedInduction ==
    ASSUME NEW S, NEW N \in Nat, 0 \in S, \A n \in 0 .. N - 1 : n \in S => n + 1 \in S
    PROVE  0 .. N \subseteq S
  <1> DEFINE T == S \cup {n \in Nat : n > N}
  <1>1. 0 \in T
    OBVIOUS
  <1>2. ASSUME NEW n \in Nat, n \in T PROVE n + 1 \in T
    <2>1. CASE n < N
      BY <1>2, <2>1
    <2>2. CASE n >= N
      BY <2>2
    <2> QED BY <2>1, <2>2
  <1>3. Nat \subseteq T
    BY <1>1, <1>2, Induction
  <1> QED BY <1>3

\* A loop that takes n steps has a trace.
Trace(f, base, step, n) == f[0] = base /\ \A i \in 1 .. n : f[i] = step[i][f[i - 1]]
LEMMA TraceExists ==
    ASSUME NEW S, NEW base \in S, NEW step, \A i \in Nat : \A s \in S : step[i][s] \in S
    PROVE  \A n \in Nat : \E f \in [0 .. n -> S] : Trace(f, base, step, n)
  <1> DEFINE T == {n \in Nat : \E f \in [0 .. n -> S] : Trace(f, base, step, n)}
  <1>1. 0 \in T
    <2>1. [i \in 0 .. 0 |-> base] \in [0 .. 0 -> S] /\ Trace([i \in 0 .. 0 |-> base], base, step, 0)
      BY DEF Trace
    <2> QED BY <2>1
  <1>2. ASSUME NEW n \in Nat, n \in T PROVE n + 1 \in T
    <2>1. PICK f \in [0 .. n -> S] : Trace(f, base, step, n)
      BY <1>2
    <2> DEFINE g == [i \in 0 .. n + 1 |-> IF i = n + 1 THEN step[n + 1][f[n]] ELSE f[i]]
    <2>2. f[n] \in S /\ step[n + 1][f[n]] \in S
      OBVIOUS
    <2>3. g \in [0 .. n + 1 -> S]
      BY <2>2
    <2>4. g[0] = base
      BY <2>1 DEF Trace
    <2>5. ASSUME NEW i \in 1 .. n + 1 PROVE g[i] = step[i][g[i - 1]]
      <3>1. CASE i = n + 1
        BY <3>1
      <3>2. CASE i # n + 1
        <4>1. i \in 1 .. n /\ i - 1 \in 0 .. n
          BY <3>2
        <4> QED BY <2>1, <3>2, <4>1 DEF Trace
      <3> QED BY <3>1, <3>2
    <2>6. Trace(g, base, step, n + 1)
      BY <2>4, <2>5 DEF Trace
    <2> QED BY <2>3, <2>6
  <1> HIDE DEF T
  <1>3. Nat \subseteq T
    BY <1>1, <1>2, Induction
  <1> QED BY <1>3 DEF T

\* Traces agree as far as both go,
LEMMA TraceUnique ==
    ASSUME NEW base, NEW step, NEW m \in Nat, NEW n \in Nat, m <= n, NEW f, NEW g,
           Trace(f, base, step, m), Trace(g, base, step, n)
    PROVE  f[m] = g[m]
  <1> DEFINE T == {i \in 0 .. m : f[i] = g[i]}
  <1>1. 0 \in T
    BY DEF Trace
  <1>2. ASSUME NEW i \in 0 .. m - 1, i \in T PROVE i + 1 \in T
    <2>1. i + 1 \in 1 .. m /\ i + 1 \in 1 .. n /\ (i + 1) - 1 = i
      OBVIOUS
    <2> QED BY <1>2, <2>1 DEF Trace
  <1> HIDE DEF T
  <1>3. 0 .. m \subseteq T
    BY <1>1, <1>2, BoundedInduction
  <1> QED BY <1>3 DEF T

\* so that a loop without end has one too.
Endless(f, base, step) == f[0] = base /\ \A n \in Nat \ {0} : f[n] = step[n][f[n - 1]]
LEMMA NatRecursion ==
    ASSUME NEW S, NEW base \in S, NEW step, \A i \in Nat : \A s \in S : step[i][s] \in S
    PROVE  \E f \in [Nat -> S] : Endless(f, base, step)
  <1> DEFINE t(n) == CHOOSE f : f \in [0 .. n -> S] /\ Trace(f, base, step, n)
             f == [n \in Nat |-> t(n)[n]]
  <1>1. ASSUME NEW n \in Nat PROVE t(n) \in [0 .. n -> S] /\ Trace(t(n), base, step, n)
    <2>1. \E g : g \in [0 .. n -> S] /\ Trace(g, base, step, n)
      BY TraceExists
    <2> QED BY <2>1
  <1> HIDE DEF t
  <1>2. f \in [Nat -> S]
    <2>1. ASSUME NEW n \in Nat PROVE t(n)[n] \in S
      <3>1. n \in 0 .. n
        OBVIOUS
      <3> QED BY <1>1, <3>1
    <2> QED BY <2>1
  <1>3. f[0] = base
    BY <1>1 DEF Trace
  <1>4. ASSUME NEW n \in Nat \ {0} PROVE f[n] = step[n][f[n - 1]]
    <2>1. n - 1 \in Nat /\ n - 1 <= n /\ n \in 1 .. n
      OBVIOUS
    <2>2. t(n)[n] = step[n][t(n)[n - 1]]
      BY <1>1, <2>1 DEF Trace
    <2>3. t(n - 1)[n - 1] = t(n)[n - 1]
      BY <1>1, <2>1, TraceUnique
    <2> QED BY <2>1, <2>2, <2>3
  <1>5. Endless(f, base, step)
    BY <1>3, <1>4 DEF Endless
  <1> QED BY <1>2, <1>5

-----------------------------------------------------------------------------
(* Numbers. *)

\* The weights, and what the loops over bytes do with them.
LEMMA WeightIs ==
    /\ Weight \in [Nat -> Nat \ {0}] /\ Weight[0] = 1
    /\ \A n \in Nat \ {0} : Weight[n] = Base * Weight[n - 1]
  <1> DEFINE S == Nat \ {0}
             step == [i \in Nat |-> [s \in S |-> Base * s]]
             Is(w) == w = [n \in Nat |-> IF n = 0 THEN 1 ELSE Base * w[n - 1]]
  <1>1. 1 \in S /\ \A i \in Nat : \A s \in S : step[i][s] \in S /\ step[i][s] = Base * s
    <2>1. \A s \in S : Base * s \in S
      BY LogFormatAssumption
    <2> QED BY <2>1
  <1> HIDE DEF step, S
  <1>2. PICK f \in [Nat -> S] : Endless(f, 1, step)
    <2>1. 1 \in S /\ \A i \in Nat : \A s \in S : step[i][s] \in S
      BY <1>1
    <2> QED BY <2>1, NatRecursion, Zenon
  <1>3. ASSUME NEW n \in Nat \ {0} PROVE f[n] = Base * f[n - 1]
    BY <1>1, <1>2 DEF Endless
  <1>4. Is(f)
    BY <1>2, <1>3 DEF Endless
  <1>5. Is(Weight)
    BY <1>4, Zenon DEF Weight
  <1>6. Weight[0] = 1 /\ \A n \in Nat \ {0} : Weight[n] = Base * Weight[n - 1]
    BY <1>5
  <1>7. ASSUME NEW n \in Nat PROVE Weight[n] \in S
    <2> DEFINE T == {i \in Nat : Weight[i] \in S}
    <2>1. 0 \in T
      BY <1>1, <1>6
    <2>2. ASSUME NEW i \in Nat, i \in T PROVE i + 1 \in T
      BY <1>1, <1>6, <2>2
    <2> HIDE DEF T
    <2>3. Nat \subseteq T
      BY <2>1, <2>2, Induction
    <2> QED BY <2>3 DEF T
  <1>8. Weight \in [Nat -> S]
    BY <1>5, <1>7
  <1> QED BY <1>6, <1>8 DEF S

\* A digit more of a number.
LEMMA Digit ==
    ASSUME NEW v \in Nat, NEW w \in Nat, w > 0, NEW b \in Nat, b > 0
    PROVE  v % (b * w) = (v % w) + ((v \div w) % b) * w
  <1> DEFINE q == v \div w
             k == q \div b
             d == q % b
             r == v % w
  <1>1. q \in Nat /\ r \in Nat /\ r < w /\ v = w * q + r
    OBVIOUS
  <1>2. k \in Nat /\ d \in Nat /\ d <= b - 1 /\ q = b * k + d
    BY <1>1
  <1> HIDE DEF q, k, d, r
  <1>3. v = (b * w) * k + (r + d * w)
    BY <1>1, <1>2
  <1>4. d * w <= (b - 1) * w
    BY <1>2
  <1>5. b * w \in Nat /\ b * w > 0 /\ r + d * w \in Nat /\ r + d * w < b * w
    BY <1>1, <1>2, <1>4
  <1>6. \A m \in Nat, s \in Nat : m > 0 /\ s < m /\ v = m * k + s => v % m = s
    BY <1>2
  <1>7. v % (b * w) = r + d * w
    BY <1>3, <1>5, <1>6
  <1> QED BY <1>7 DEF r, d, q

\* Reading a number adds up its bytes.
Sums(f, bytes) ==
    f[0] = 0 /\ \A i \in 1 .. Len(bytes) : f[i] = f[i - 1] + bytes[i] * Weight[i - 1]
LEMMA LeIs ==
    ASSUME NEW bytes \in Seq(Byte)
    PROVE  \E f \in [0 .. Len(bytes) -> Nat] : Sums(f, bytes) /\ le_value(bytes) = f[Len(bytes)]
  <1> DEFINE n == Len(bytes)
             term(i) == bytes[i] * Weight[i - 1]
             step == [i \in Nat |-> [s \in Nat |-> IF i \in 1 .. n THEN s + term(i) ELSE s]]
             Is(f) == f = [i \in 0 .. n |-> IF i = 0 THEN 0 ELSE f[i - 1] + term(i)]
             sum == CHOOSE f : Is(f)
  <1>0. n \in Nat
    OBVIOUS
  <1>1. ASSUME NEW i \in 1 .. n PROVE term(i) \in Nat
    <2>1. bytes[i] \in Nat
      BY LogFormatAssumption DEF Byte
    <2>2. Weight[i - 1] \in Nat
      BY <1>0, WeightIs
    <2> QED BY <2>1, <2>2
  <1>7. le_value(bytes) = sum[n]
    BY Zenon DEF le_value
  <1>a. \A f : Sums(f, bytes) <=> f[0] = 0 /\ \A i \in 1 .. n : f[i] = f[i - 1] + term(i)
    BY DEF Sums
  <1> HIDE DEF term, n
  <1>2. \A i \in Nat : \A s \in Nat :
           step[i][s] \in Nat /\ (i \in 1 .. n => step[i][s] = s + term(i))
    BY <1>1
  <1> HIDE DEF step
  <1>3. PICK f \in [0 .. n -> Nat] : Trace(f, 0, step, n)
    <2>1. 0 \in Nat /\ \A i \in Nat : \A s \in Nat : step[i][s] \in Nat
      BY <1>2
    <2> QED BY <1>0, <2>1, TraceExists
  <1>4. f[0] = 0 /\ \A i \in 1 .. n : f[i] = f[i - 1] + term(i)
    <2>1. ASSUME NEW i \in 1 .. n PROVE f[i] = f[i - 1] + term(i)
      <3>1. i \in Nat /\ i - 1 \in 0 .. n
        BY <1>0
      <3> QED BY <1>2, <1>3, <3>1 DEF Trace
    <2> QED BY <1>3, <2>1 DEF Trace
  <1>5. Is(f)
    BY <1>0, <1>4
  <1>6. Is(sum)
    BY <1>5, Zenon
  <1> HIDE DEF sum
  <1>8. sum[0] = 0 /\ \A i \in 1 .. n : sum[i] = sum[i - 1] + term(i)
    BY <1>0, <1>6
  <1>9. ASSUME NEW k \in 0 .. n PROVE sum[k] \in Nat
    <2> DEFINE T == {i \in 0 .. n : sum[i] \in Nat}
    <2>1. 0 \in T
      BY <1>0, <1>8
    <2>2. ASSUME NEW i \in 0 .. n - 1, i \in T PROVE i + 1 \in T
      <3>1. i + 1 \in 1 .. n /\ (i + 1) - 1 = i
        BY <1>0
      <3>2. sum[i + 1] = sum[i] + term(i + 1) /\ sum[i] \in Nat /\ term(i + 1) \in Nat
        BY <1>1, <1>8, <2>2, <3>1
      <3> QED BY <3>1, <3>2
    <2> HIDE DEF T
    <2>3. 0 .. n \subseteq T
      BY <1>0, <2>1, <2>2, BoundedInduction
    <2> QED BY <2>3 DEF T
  <1>10. sum \in [0 .. n -> Nat]
    BY <1>6, <1>9
  <1>11. Sums(sum, bytes)
    BY <1>8, <1>a
  <1> QED BY <1>7, <1>10, <1>11 DEF n

\* A number that fits its width is read back as it was written.
LEMMA LeRound ==
    ASSUME NEW n \in Nat, NEW value \in Nat, value < Weight[n]
    PROVE  /\ write_le_value(value, n) \in Seq(Byte) /\ Len(write_le_value(value, n)) = n
           /\ le_value(write_le_value(value, n)) = value
  <1> DEFINE bytes == write_le_value(value, n)
  <1>1. \A i \in Nat : Weight[i] \in Nat /\ Weight[i] > 0
    BY WeightIs
  <1>2. \A i \in 1 .. n : (value \div Weight[i - 1]) % Base \in Byte
    BY <1>1, LogFormatAssumption DEF Byte
  <1>3. bytes \in Seq(Byte) /\ Len(bytes) = n
        /\ \A i \in 1 .. n : bytes[i] = (value \div Weight[i - 1]) % Base
    BY <1>2 DEF write_le_value
  <1> HIDE DEF bytes
  <1>4. PICK f \in [0 .. n -> Nat] : Sums(f, bytes) /\ le_value(bytes) = f[n]
    BY <1>3, LeIs
  <1> DEFINE T == {i \in 0 .. n : f[i] = value % Weight[i]}
  <1>5. 0 \in T
    BY <1>4, WeightIs DEF Sums
  <1>6. ASSUME NEW i \in 0 .. n - 1, i \in T PROVE i + 1 \in T
    <2>1. i + 1 \in 1 .. n /\ (i + 1) - 1 = i /\ i + 1 \in Nat \ {0} /\ i \in Nat
      OBVIOUS
    <2>2. f[i + 1] = (value % Weight[i]) + ((value \div Weight[i]) % Base) * Weight[i]
      BY <1>3, <1>4, <1>6, <2>1 DEF Sums
    <2>3. Weight[i + 1] = Base * Weight[i]
      BY <2>1, WeightIs
    <2>4. f[i + 1] = value % Weight[i + 1]
      <3>1. Weight[i] \in Nat /\ Weight[i] > 0 /\ Base \in Nat /\ Base > 0
        BY <1>1, <2>1, LogFormatAssumption
      <3>2. value % (Base * Weight[i])
              = (value % Weight[i]) + ((value \div Weight[i]) % Base) * Weight[i]
        BY <3>1, Digit
      <3> QED BY <2>2, <2>3, <3>2
    <2> QED BY <2>1, <2>4
  <1> HIDE DEF T
  <1>7. 0 .. n \subseteq T
    BY <1>5, <1>6, BoundedInduction
  <1>8. f[n] = value % Weight[n]
    BY <1>7 DEF T
  <1>9. value % Weight[n] = value
    <2>1. \A w \in Nat : w > 0 /\ value < w => value % w = value
      OBVIOUS
    <2> QED BY <1>1, <2>1
  <1> QED BY <1>3, <1>4, <1>8, <1>9 DEF bytes

-----------------------------------------------------------------------------
(* Fields. *)

\* Sequences with the same elements are the same.
LEMMA SameSeq ==
    ASSUME NEW S, NEW s \in Seq(S), NEW t \in Seq(S), Len(s) = Len(t),
           \A j \in 1 .. Len(t) : s[j] = t[j]
    PROVE  s = t
  OBVIOUS

\* A function on 1 .. n is a sequence, and the elements of one are where they should be.
LEMMA FunIsSeq ==
    ASSUME NEW S, NEW n \in Nat, NEW f \in [1 .. n -> S]
    PROVE  f \in Seq(S) /\ Len(f) = n
  OBVIOUS
LEMMA SeqElement ==
    ASSUME NEW S, NEW s \in Seq(S)
    PROVE  Len(s) \in Nat /\ DOMAIN s = 1 .. Len(s) /\ \A j \in 1 .. Len(s) : s[j] \in S
  OBVIOUS

\* Sequences one behind the other.
IsCat(u, s, t) ==
    /\ Len(s) \in Nat /\ Len(t) \in Nat /\ Len(u) = Len(s) + Len(t)
    /\ \A j \in 1 .. Len(s) : u[j] = s[j]
    /\ \A j \in 1 .. Len(t) : u[Len(s) + j] = t[j]
LEMMA CatIs ==
    ASSUME NEW S, NEW s \in Seq(S), NEW t \in Seq(S)
    PROVE  s \o t \in Seq(S) /\ IsCat(s \o t, s, t)
  BY DEF IsCat

\* A part of a sequence, behind `at` of its elements.
At(src, at, part) ==
    /\ at \in Nat /\ Len(part) \in Nat /\ at + Len(part) <= Len(src)
    /\ \A j \in 1 .. Len(part) : src[at + j] = part[j]
LEMMA PartIs ==
    ASSUME NEW S, NEW src \in Seq(S), NEW part \in Seq(S), NEW at, At(src, at, part)
    PROVE  SubSeq(src, at + 1, at + Len(part)) = part
  <1> DEFINE sub == SubSeq(src, at + 1, at + Len(part))
  <1>1. /\ Len(part) \in Nat /\ Len(src) \in Nat /\ at \in Nat /\ at + Len(part) <= Len(src)
        /\ \A j \in 1 .. Len(part) : src[at + j] = part[j]
    BY DEF At
  <1>2. sub \in Seq(S) /\ Len(sub) = Len(part)
    BY <1>1
  <1>3. ASSUME NEW j \in 1 .. Len(part) PROVE sub[j] = part[j]
    <2>1. sub[j] = src[at + 1 + j - 1]
      BY <1>1
    <2>2. at + 1 + j - 1 = at + j
      BY <1>1
    <2> QED BY <1>1, <2>1, <2>2
  <1> HIDE DEF sub
  <1>4. sub = part
    BY <1>2, <1>3, SameSeq
  <1> QED BY <1>4 DEF sub

\* What a field is written as, and what fits it.
Enc(width, val) == IF width = 0 THEN write_bytes(val) ELSE val
Fits(width, val) ==
    val \in Seq(Byte) /\ IF width = 0 THEN Len(val) < Weight[4] ELSE Len(val) = width

LEMMA EncIs ==
    ASSUME NEW width \in Nat, NEW val, Fits(width, val)
    PROVE  /\ Enc(width, val) \in Seq(Byte)
           /\ Len(Enc(width, val)) = IF width = 0 THEN 4 + Len(val) ELSE width
           /\ width = 0 => Enc(width, val) = write_le_value(Len(val), 4) \o val
  <1>1. CASE width # 0
    BY <1>1 DEF Enc, Fits
  <1>2. CASE width = 0
    <2> DEFINE size == write_le_value(Len(val), 4)
    <2>1. val \in Seq(Byte) /\ Len(val) \in Nat /\ Len(val) < Weight[4]
      BY <1>2 DEF Fits
    <2>2. size \in Seq(Byte) /\ Len(size) = 4
      BY <2>1, LeRound
    <2>3. Enc(width, val) = size \o val
      BY <1>2 DEF Enc, write_bytes
    <2> HIDE DEF size
    <2>4. size \o val \in Seq(Byte) /\ Len(size \o val) = 4 + Len(val)
      <3>1. size \o val \in Seq(Byte) /\ IsCat(size \o val, size, val)
        BY <2>1, <2>2, CatIs
      <3> QED BY <2>2, <3>1 DEF IsCat
    <2> QED BY <1>2, <2>3, <2>4 DEF size
  <1> QED BY <1>1, <1>2

\* One call of ByteReader,
ReadField(src, reader, width) ==
    LET start == IF width = 0 THEN reader.pos + 4 ELSE reader.pos
        size  == IF width > 0 THEN width
                 ELSE le_value(SubSeq(src, reader.pos + 1, start))
    IN  IF ~reader.ok \/ start > Len(src) \/ size > Len(src) - start
        THEN [reader EXCEPT !.ok = FALSE]
        ELSE [ok |-> TRUE, pos |-> start + size,
              values |-> Append(reader.values, SubSeq(src, start + 1, start + size))]

Reader(at, vals) == [ok |-> TRUE, pos |-> at, values |-> vals]

\* which finds the field that is there.
LEMMA ReadFieldIs ==
    ASSUME NEW src \in Seq(Byte), NEW at, NEW vals, NEW width \in Nat, NEW val,
           Fits(width, val), At(src, at, Enc(width, val))
    PROVE  ReadField(src, Reader(at, vals), width)
             = Reader(at + Len(Enc(width, val)), Append(vals, val))
  <1> DEFINE reader == Reader(at, vals)
  <1>1. reader.ok /\ reader.pos = at /\ reader.values = vals
    BY DEF Reader
  <1>2. /\ val \in Seq(Byte) /\ Len(val) \in Nat /\ Len(src) \in Nat /\ at \in Nat
        /\ at + Len(Enc(width, val)) <= Len(src)
        /\ \A j \in 1 .. Len(Enc(width, val)) : src[at + j] = Enc(width, val)[j]
    BY DEF Fits, At
  <1> HIDE DEF reader
  <1>3. CASE width # 0
    <2>1. Enc(width, val) = val /\ Len(val) = width
      BY <1>3 DEF Enc, Fits
    <2>2. SubSeq(src, at + 1, at + width) = val
      BY <1>2, <2>1, PartIs DEF At
    <2>3. ReadField(src, reader, width)
            = [ok |-> TRUE, pos |-> at + width,
               values |-> Append(vals, SubSeq(src, at + 1, at + width))]
      <3>1. width > 0 /\ ~(at > Len(src)) /\ ~(width > Len(src) - at)
        BY <1>2, <1>3, <2>1
      <3> QED BY <1>1, <1>3, <3>1, Zenon DEF ReadField
    <2> QED BY <2>1, <2>2, <2>3 DEF Reader, reader
  <1>4. CASE width = 0
    <2> DEFINE len == write_le_value(Len(val), 4)
               enc == len \o val
    <2>0. Len(val) < Weight[4]
      BY <1>4 DEF Fits
    <2>1. len \in Seq(Byte) /\ Len(len) = 4 /\ le_value(len) = Len(val)
      BY <1>2, <2>0, LeRound
    <2> HIDE DEF len
    <2>2. Enc(width, val) = enc
      BY <1>4, EncIs DEF len
    <2>3. /\ Len(enc) = 4 + Len(val) /\ (\A j \in 1 .. 4 : enc[j] = len[j])
          /\ \A j \in 1 .. Len(val) : enc[4 + j] = val[j]
      <3>1. IsCat(enc, len, val)
        BY <1>2, <2>1, CatIs
      <3> HIDE DEF enc
      <3> QED BY <2>1, <3>1 DEF IsCat
    <2> HIDE DEF enc
    <2>4. /\ at + (4 + Len(val)) <= Len(src)
          /\ \A j \in 1 .. 4 + Len(val) : src[at + j] = enc[j]
      BY <1>2, <2>2, <2>3
    <2>5. SubSeq(src, at + 1, at + 4) = len
      <3>1. \A j \in 1 .. 4 : src[at + j] = len[j]
        BY <1>2, <2>3, <2>4, SMTT(30)
      <3>2. at + 4 <= Len(src)
        BY <1>2, <2>4
      <3>3. At(src, at, len)
        BY <1>2, <2>1, <3>1, <3>2 DEF At
      <3>4. SubSeq(src, at + 1, at + Len(len)) = len
        BY <2>1, <3>3, PartIs
      <3> QED BY <2>1, <3>4
    <2>6. SubSeq(src, (at + 4) + 1, (at + 4) + Len(val)) = val
      <3>1. ASSUME NEW j \in 1 .. Len(val) PROVE src[(at + 4) + j] = val[j]
        <4>1. 4 + j \in 1 .. 4 + Len(val) /\ (at + 4) + j = at + (4 + j)
          BY <1>2
        <4> QED BY <2>3, <2>4, <4>1
      <3>2. (at + 4) + Len(val) <= Len(src) /\ at + 4 \in Nat
        BY <1>2, <2>4
      <3>3. At(src, at + 4, val)
        BY <1>2, <3>1, <3>2 DEF At
      <3> QED BY <1>2, <3>3, PartIs
    <2>7. ReadField(src, reader, width)
            = [ok |-> TRUE, pos |-> (at + 4) + Len(val),
               values |-> Append(vals, SubSeq(src, (at + 4) + 1, (at + 4) + Len(val)))]
      <3>1. ~(width > 0) /\ ~(at + 4 > Len(src)) /\ ~(Len(val) > Len(src) - (at + 4))
        BY <1>2, <1>4, <2>4
      <3> QED BY <1>1, <1>4, <2>1, <2>5, <3>1, Zenon DEF ReadField
    <2>8. at + Len(Enc(width, val)) = (at + 4) + Len(val)
      BY <1>2, <2>2, <2>3
    <2> QED BY <2>6, <2>7, <2>8 DEF Reader, reader
  <1> QED BY <1>3, <1>4

\* Fields one behind the other: cat[i] is what the first i are written as.
Joined(cat, widths, vals) ==
    cat[0] = <<>> /\ \A i \in 1 .. Len(widths) : cat[i] = cat[i - 1] \o Enc(widths[i], vals[i])

\* One sequence begins with another.
Begins(u, s) == Len(s) <= Len(u) /\ \A j \in 1 .. Len(s) : u[j] = s[j]

LEMMA BeginsCat ==
    ASSUME NEW S, NEW u \in Seq(S), NEW s \in Seq(S), NEW t \in Seq(S), Begins(u, s \o t)
    PROVE  Begins(u, s) /\ At(u, Len(s), t) /\ Len(s \o t) = Len(s) + Len(t)
  <1> DEFINE st == s \o t
  <1>1. IsCat(st, s, t) /\ Begins(u, st)
    BY CatIs
  <1> HIDE DEF st
  <1>2. Len(u) \in Nat /\ Len(s) \in Nat /\ Len(t) \in Nat /\ Len(st) = Len(s) + Len(t)
    BY <1>1 DEF IsCat
  <1>3. Begins(u, s)
    BY <1>1, <1>2 DEF IsCat, Begins
  <1>4. ASSUME NEW j \in 1 .. Len(t) PROVE u[Len(s) + j] = t[j]
    <2>1. Len(s) + j \in 1 .. Len(st)
      BY <1>2
    <2>2. u[Len(s) + j] = st[Len(s) + j]
      BY <1>1, <2>1 DEF Begins
    <2> QED BY <1>1, <2>2 DEF IsCat
  <1>5. At(u, Len(s), t)
    BY <1>1, <1>2, <1>4 DEF At, Begins
  <1> QED BY <1>2, <1>3, <1>5 DEF st

LEMMA JoinedIs ==
    ASSUME NEW widths \in Seq(Nat), NEW vals, NEW cat, Joined(cat, widths, vals),
           \A i \in 1 .. Len(widths) : Fits(widths[i], vals[i])
    PROVE  \A i \in 0 .. Len(widths) : cat[i] \in Seq(Byte)
  <1> DEFINE k == Len(widths)
             T == {i \in 0 .. k : cat[i] \in Seq(Byte)}
  <1>1. k \in Nat
    OBVIOUS
  <1>2. 0 \in T
    <2>1. cat[0] = <<>>
      BY DEF Joined
    <2>2. <<>> \in Seq(Byte)
      OBVIOUS
    <2>3. cat[0] \in Seq(Byte)
      BY <2>1, <2>2, Zenon
    <2> QED BY <1>1, <2>3
  <1>3. ASSUME NEW i \in 0 .. k - 1, i \in T PROVE i + 1 \in T
    <2>1. i + 1 \in 1 .. k /\ (i + 1) - 1 = i
      BY <1>1
    <2>2. cat[i + 1] = cat[i] \o Enc(widths[i + 1], vals[i + 1])
      BY <2>1 DEF Joined
    <2>3. Enc(widths[i + 1], vals[i + 1]) \in Seq(Byte)
      BY <2>1, EncIs
    <2>4. cat[i + 1] \in Seq(Byte)
      BY <1>3, <2>2, <2>3
    <2> QED BY <2>1, <2>4
  <1> HIDE DEF T
  <1>4. 0 .. k \subseteq T
    BY <1>1, <1>2, <1>3, BoundedInduction
  <1> QED BY <1>4 DEF T

\* Every field is at its place in a sequence that begins with all of them.
LEMMA JoinedAt ==
    ASSUME NEW widths \in Seq(Nat), NEW vals, NEW cat, Joined(cat, widths, vals),
           \A i \in 1 .. Len(widths) : Fits(widths[i], vals[i]),
           NEW src \in Seq(Byte), Begins(src, cat[Len(widths)])
    PROVE  \A i \in 1 .. Len(widths) :
              /\ At(src, Len(cat[i - 1]), Enc(widths[i], vals[i]))
              /\ Len(cat[i]) = Len(cat[i - 1]) + Len(Enc(widths[i], vals[i]))
  <1> DEFINE k == Len(widths)
             enc(i) == Enc(widths[i], vals[i])
             T == {i \in 0 .. k : Begins(src, cat[k - i])}
  <1>1. k \in Nat
    OBVIOUS
  <1>2. \A i \in 0 .. k : cat[i] \in Seq(Byte)
    BY JoinedIs
  <1>3. \A i \in 1 .. k : enc(i) \in Seq(Byte) /\ cat[i] = cat[i - 1] \o enc(i)
    <2>1. ASSUME NEW i \in 1 .. k PROVE enc(i) \in Seq(Byte)
      BY EncIs
    <2>2. \A i \in 1 .. k : cat[i] = cat[i - 1] \o enc(i)
      BY DEF Joined
    <2> QED BY <2>1, <2>2
  <1> HIDE DEF enc
  <1>4. 0 \in T
    BY <1>1
  <1>5. ASSUME NEW i \in 0 .. k - 1, i \in T PROVE i + 1 \in T
    <2>1. k - i \in 1 .. k /\ (k - i) - 1 = k - (i + 1) /\ (k - i) - 1 \in 0 .. k /\ i + 1 \in 0 .. k
      BY <1>1
    <2>2. Begins(src, cat[(k - i) - 1] \o enc(k - i))
      BY <1>3, <1>5, <2>1
    <2>3. Begins(src, cat[(k - i) - 1])
      BY <1>2, <1>3, <2>1, <2>2, BeginsCat
    <2> QED BY <2>1, <2>3
  <1> HIDE DEF T
  <1>6. 0 .. k \subseteq T
    BY <1>1, <1>4, <1>5, BoundedInduction
  <1>7. ASSUME NEW i \in 1 .. k
        PROVE  At(src, Len(cat[i - 1]), enc(i)) /\ Len(cat[i]) = Len(cat[i - 1]) + Len(enc(i))
    <2>1. k - i \in 0 .. k /\ k - (k - i) = i /\ i - 1 \in 0 .. k
      BY <1>1
    <2>2. Begins(src, cat[i])
      BY <1>6, <2>1 DEF T
    <2>3. cat[i - 1] \in Seq(Byte) /\ enc(i) \in Seq(Byte) /\ cat[i] = cat[i - 1] \o enc(i)
      BY <1>2, <1>3, <2>1
    <2>4. Begins(src, cat[i - 1] \o enc(i))
      BY <2>2, <2>3
    <2> QED BY <2>3, <2>4, BeginsCat
  <1> QED BY <1>7 DEF enc

\* ByteReader reads the fields that were written one behind the other.
LEMMA FieldsRound ==
    ASSUME NEW widths \in Seq(Nat), NEW vals \in Seq(Seq(Byte)), Len(vals) = Len(widths),
           \A i \in 1 .. Len(widths) : Fits(widths[i], vals[i]),
           NEW cat, Joined(cat, widths, vals),
           NEW src \in Seq(Byte), Begins(src, cat[Len(widths)])
    PROVE  Fields(src, widths) = Reader(Len(cat[Len(widths)]), vals)
  <1> DEFINE k == Len(widths)
             at(i) == Len(cat[i])
             part(i) == SubSeq(vals, 1, i)
             empty == Reader(0, <<>>)
             Is(f) == f = [i \in 0 .. k |-> IF i = 0 THEN empty
                                            ELSE ReadField(src, f[i - 1], widths[i])]
             read == CHOOSE f : Is(f)
             exact == [i \in 0 .. k |-> Reader(at(i), part(i))]
  <1>1. k \in Nat
    OBVIOUS
  <1>2. Fields(src, widths) = read[k]
    BY Zenon DEF Fields, ReadField, Reader
  <1>3. at(0) = 0 /\ part(0) = <<>>
    <2>1. cat[0] = <<>> /\ Len(<<>>) = 0
      BY DEF Joined
    <2>2. at(0) = 0
      BY <2>1, Zenon
    <2> QED BY <2>2
  <1>a. empty = Reader(at(0), part(0))
    BY <1>3, Zenon
  <1> HIDE DEF empty
  <1>4. ASSUME NEW i \in 1 .. k
        PROVE  ReadField(src, Reader(at(i - 1), part(i - 1)), widths[i]) = Reader(at(i), part(i))
    <2> DEFINE enc == Enc(widths[i], vals[i])
    <2>1. At(src, at(i - 1), enc) /\ at(i) = at(i - 1) + Len(enc)
      BY JoinedAt
    <2>2. Append(part(i - 1), vals[i]) = part(i)
      BY <1>1
    <2>3. widths[i] \in Nat /\ Fits(widths[i], vals[i])
      OBVIOUS
    <2> HIDE DEF at, part
    <2>4. ReadField(src, Reader(at(i - 1), part(i - 1)), widths[i])
            = Reader(at(i - 1) + Len(enc), Append(part(i - 1), vals[i]))
      BY <2>1, <2>3, ReadFieldIs
    <2> QED BY <2>1, <2>2, <2>4
  <1> HIDE DEF at, part
  <1>5. \A i \in 0 .. k : exact[i] = Reader(at(i), part(i))
    OBVIOUS
  <1>6. Is(exact)
    <2>1. ASSUME NEW i \in 0 .. k
          PROVE  exact[i] = IF i = 0 THEN empty
                            ELSE ReadField(src, exact[i - 1], widths[i])
      <3>1. CASE i = 0
        BY <1>a, <1>5, <3>1
      <3>2. CASE i # 0
        <4>1. i \in 1 .. k /\ i - 1 \in 0 .. k
          BY <1>1, <3>2
        <4> QED BY <1>4, <1>5, <3>2, <4>1
      <3> QED BY <3>1, <3>2
    <2> QED BY <2>1
  <1> HIDE DEF exact
  <1>7. Is(read)
    BY <1>6, Zenon
  <1> HIDE DEF read
  <1>8. read[0] = empty /\ \A i \in 1 .. k : read[i] = ReadField(src, read[i - 1], widths[i])
    <2> DEFINE body(i) == IF i = 0 THEN empty ELSE ReadField(src, read[i - 1], widths[i])
    <2>1. read = [i \in 0 .. k |-> body(i)]
      BY <1>7, Zenon
    <2> HIDE DEF body
    <2>2. \A i \in 0 .. k : read[i] = body(i)
      BY <2>1
    <2>3. 0 \in 0 .. k /\ \A i \in 1 .. k : i \in 0 .. k /\ i # 0
      BY <1>1
    <2> QED BY <2>2, <2>3, Zenon DEF body
  <1> DEFINE T == {i \in 0 .. k : read[i] = Reader(at(i), part(i))}
  <1>9. 0 \in T
    <2>1. read[0] = Reader(at(0), part(0))
      BY <1>a, <1>8
    <2> QED BY <1>1, <2>1
  <1>10. ASSUME NEW i \in 0 .. k - 1, i \in T PROVE i + 1 \in T
    <2>1. i + 1 \in 1 .. k /\ (i + 1) - 1 = i
      BY <1>1
    <2> QED BY <1>4, <1>8, <1>10, <2>1
  <1> HIDE DEF T
  <1>11. 0 .. k \subseteq T
    BY <1>1, <1>9, <1>10, BoundedInduction
  <1>12. read[k] = Reader(at(k), part(k))
    BY <1>1, <1>11 DEF T
  <1>13. part(k) = vals
    BY <1>1 DEF part
  <1> QED BY <1>2, <1>12, <1>13 DEF at

LEMMA JoinExists ==
    ASSUME NEW widths \in Seq(Nat), NEW vals,
           \A i \in 1 .. Len(widths) : Fits(widths[i], vals[i])
    PROVE  \E cat : Joined(cat, widths, vals)
  <1> DEFINE k == Len(widths)
             enc(i) == Enc(widths[i], vals[i])
             step == [i \in Nat |-> [s \in Seq(Byte) |-> IF i \in 1 .. k THEN s \o enc(i) ELSE s]]
             none == <<>>
  <1>1. k \in Nat /\ none \in Seq(Byte)
    OBVIOUS
  <1>2. ASSUME NEW i \in 1 .. k PROVE enc(i) \in Seq(Byte)
    BY EncIs
  <1>a. \A f : Joined(f, widths, vals)
                 <=> f[0] = none /\ \A i \in 1 .. k : f[i] = f[i - 1] \o enc(i)
    BY Zenon DEF Joined
  <1> HIDE DEF enc, none
  <1>3. \A i \in Nat : \A s \in Seq(Byte) :
           /\ step[i][s] \in Seq(Byte)
           /\ i \in 1 .. k => step[i][s] = s \o enc(i)
    <2>1. ASSUME NEW i \in Nat, NEW s \in Seq(Byte)
          PROVE  /\ step[i][s] \in Seq(Byte)
                 /\ i \in 1 .. k => step[i][s] = s \o enc(i)
      <3>1. step[i][s] = IF i \in 1 .. k THEN s \o enc(i) ELSE s
        OBVIOUS
      <3>2. i \in 1 .. k => s \o enc(i) \in Seq(Byte)
        BY <1>2
      <3> HIDE DEF step
      <3> QED BY <3>1, <3>2, Zenon
    <2> QED BY <2>1, Zenon
  <1> HIDE DEF step
  <1>4. PICK cat \in [0 .. k -> Seq(Byte)] : Trace(cat, none, step, k)
    <2>1. \A i \in Nat : \A s \in Seq(Byte) : step[i][s] \in Seq(Byte)
      BY <1>3, Zenon
    <2> QED BY <1>1, <2>1, TraceExists, Zenon
  <1>5. ASSUME NEW i \in 1 .. k PROVE cat[i] = cat[i - 1] \o enc(i)
    <2>1. i \in Nat /\ i - 1 \in 0 .. k
      BY <1>1
    <2>2. cat[i] = step[i][cat[i - 1]] /\ cat[i - 1] \in Seq(Byte)
      BY <1>4, <2>1 DEF Trace
    <2> QED BY <1>3, <2>1, <2>2, Zenon
  <1> QED BY <1>4, <1>5, <1>a, Zenon DEF Trace

\* Weights grow.
LEMMA WeightGrows == \A n \in Nat : Weight[n] < Weight[n + 1] /\ Weight[n] \in Nat
  <1> SUFFICES ASSUME NEW n \in Nat PROVE Weight[n] < Weight[n + 1] /\ Weight[n] \in Nat
    OBVIOUS
  <1>1. Weight[n] \in Nat /\ Weight[n] > 0 /\ Weight[n + 1] = Base * Weight[n]
    BY WeightIs
  <1>2. \A w \in Nat : w > 0 => w < Base * w
    BY LogFormatAssumption
  <1> QED BY <1>1, <1>2

LEMMA UintFits ==
    /\ 1 \in Byte /\ 1 \in Uint(4) /\ 0 \in Uint(4) /\ Uint(2) \subseteq Uint(4)
    /\ \A n \in Nat : \A v \in Uint(n) : v \in Nat /\ v < Weight[n]
  <1>1. \A n \in Nat : Weight[n] \in Nat
    BY WeightIs
  <1>2. Weight[0] = 1 /\ Weight[0] < Weight[1] /\ Weight[1] < Weight[2] /\ Weight[2] < Weight[3]
        /\ Weight[3] < Weight[4]
    <2>1. /\ Weight[0] < Weight[0 + 1] /\ Weight[1] < Weight[1 + 1] /\ Weight[2] < Weight[2 + 1]
          /\ Weight[3] < Weight[3 + 1]
      BY WeightGrows
    <2> QED BY <2>1, WeightIs
  <1>3. 1 \in Byte
    BY LogFormatAssumption DEF Byte
  <1>4. 1 \in Uint(4) /\ 0 \in Uint(4) /\ Uint(2) \subseteq Uint(4)
    BY <1>1, <1>2 DEF Uint
  <1>5. \A n \in Nat : \A v \in Uint(n) : v \in Nat /\ v < Weight[n]
    BY <1>1 DEF Uint
  <1> QED BY <1>3, <1>4, <1>5

\* A number as a field.
LEMMA NumberFits ==
    ASSUME NEW n \in Nat, n # 0, NEW v \in Uint(n)
    PROVE  /\ Fits(n, write_le_value(v, n)) /\ Enc(n, write_le_value(v, n)) = write_le_value(v, n)
           /\ write_le_value(v, n) \in Seq(Byte) /\ le_value(write_le_value(v, n)) = v
  <1>1. v \in Nat /\ v < Weight[n]
    BY UintFits
  <1>2. /\ write_le_value(v, n) \in Seq(Byte) /\ Len(write_le_value(v, n)) = n
        /\ le_value(write_le_value(v, n)) = v
    BY <1>1, LeRound
  <1> QED BY <1>2 DEF Fits, Enc

\* A string as a field, and the empty signature in what is signed.
LEMMA StringFits ==
    /\ \A s \in ByteString : Fits(0, s) /\ Enc(0, s) = write_bytes(s) /\ s \in Seq(Byte)
    /\ <<>> \in ByteString /\ write_bytes(<<>>) = write_le_value(0, 4)
  <1>1. \A s \in ByteString : Fits(0, s) /\ Enc(0, s) = write_bytes(s) /\ s \in Seq(Byte)
    BY DEF Fits, Enc, ByteString
  <1> DEFINE none == <<>>
             le == write_le_value(0, 4)
  <1>2. none \in Seq(Byte) /\ Len(none) = 0
    OBVIOUS
  <1>3. 0 < Weight[4] /\ le \in Seq(Byte)
    BY UintFits, NumberFits
  <1>4. none \in ByteString
    BY <1>2, <1>3 DEF ByteString
  <1>5. write_bytes(none) = write_le_value(Len(none), 4) \o none
    BY DEF write_bytes
  <1>6. le \o none = le
    <2> HIDE DEF le
    <2> QED BY <1>3
  <1> HIDE DEF none
  <1>7. write_bytes(none) = le
    BY <1>2, <1>5, <1>6
  <1> QED BY <1>1, <1>4, <1>7 DEF none

TxWidths == <<1, 1, 4, 4, 8, 8, 0, 0, 0>>
TxVals(tx, sig) ==
    <<<<1>>, <<1>>, write_le_value(1, 4), write_le_value(tx.version, 4),
      write_le_value(tx.nonce, 8), write_le_value(tx.amount, 8),
      tx.from_pub_pem, tx.to_label, sig>>

LEMMA TxFields ==
    ASSUME NEW tx \in Transaction, NEW sig \in ByteString
    PROVE  /\ TxWidths \in Seq(Nat) /\ Len(TxWidths) = 9
           /\ TxVals(tx, sig) \in Seq(Seq(Byte)) /\ Len(TxVals(tx, sig)) = 9
           /\ \A i \in 1 .. 9 : Fits(TxWidths[i], TxVals(tx, sig)[i])
           /\ \A cat : Joined(cat, TxWidths, TxVals(tx, sig)) =>
                 cat[9] = TxStart(tx) \o write_bytes(tx.from_pub_pem) \o write_bytes(tx.to_label)
                          \o write_bytes(sig)
  <1> DEFINE one == <<1>>
             l1 == write_le_value(1, 4)
             l2 == write_le_value(tx.version, 4)
             l3 == write_le_value(tx.nonce, 8)
             l4 == write_le_value(tx.amount, 8)
             s1 == tx.from_pub_pem
             s2 == tx.to_label
             W == TxWidths
             V == TxVals(tx, sig)
  <1>1. /\ tx.version \in Uint(4) /\ tx.nonce \in Uint(8) /\ tx.amount \in Uint(8)
        /\ s1 \in ByteString /\ s2 \in ByteString
    BY UintFits DEF Transaction
  <1>2. /\ Fits(4, l1) /\ Enc(4, l1) = l1 /\ l1 \in Seq(Byte)
        /\ Fits(4, l2) /\ Enc(4, l2) = l2 /\ l2 \in Seq(Byte)
        /\ Fits(8, l3) /\ Enc(8, l3) = l3 /\ l3 \in Seq(Byte)
        /\ Fits(8, l4) /\ Enc(8, l4) = l4 /\ l4 \in Seq(Byte)
    BY <1>1, NumberFits, UintFits
  <1>3. one \in Seq(Byte) /\ Fits(1, one) /\ Enc(1, one) = one
    BY UintFits DEF Fits, Enc
  <1>4. /\ Fits(0, s1) /\ Enc(0, s1) = write_bytes(s1) /\ s1 \in Seq(Byte)
        /\ Fits(0, s2) /\ Enc(0, s2) = write_bytes(s2) /\ s2 \in Seq(Byte)
        /\ Fits(0, sig) /\ Enc(0, sig) = write_bytes(sig) /\ sig \in Seq(Byte)
    BY <1>1, StringFits
  <1>5. V = <<one, one, l1, l2, l3, l4, s1, s2, sig>>
    BY DEF TxVals
  <1>6. TxStart(tx) = <<1, 1>> \o l1 \o l2 \o l3 \o l4
    BY DEF TxStart
  <1>7. one \o one = <<1, 1>>
    <2>1. <<1>> \in Seq(Nat) /\ Len(<<1>>) = 1 /\ <<1>>[1] = 1
      OBVIOUS
    <2>2. <<1, 1>> \in Seq(Nat) /\ Len(<<1, 1>>) = 2 /\ <<1, 1>>[1] = 1 /\ <<1, 1>>[2] = 1
      OBVIOUS
    <2> HIDE DEF one
    <2>3. one \in Seq(Nat) /\ Len(one) = 1 /\ one[1] = 1
      BY <2>1, Zenon DEF one
    <2>4. one \o one \in Seq(Nat) /\ Len(one \o one) = 2 /\ (one \o one)[1] = 1
          /\ (one \o one)[2] = 1
      <3> DEFINE u == one \o one
      <3>1. u \in Seq(Nat) /\ IsCat(u, one, one)
        BY <2>3, CatIs
      <3> HIDE DEF u
      <3>2. /\ Len(u) = 2 /\ (\A j \in 1 .. 1 : u[j] = one[j])
            /\ \A j \in 1 .. 1 : u[1 + j] = one[j]
        BY <2>3, <3>1 DEF IsCat
      <3>3. u[1] = 1 /\ u[2] = 1
        BY <2>3, <3>2
      <3> QED BY <3>1, <3>2, <3>3 DEF u
    <2>5. \A j \in 1 .. 2 : j = 1 \/ j = 2
      OBVIOUS
    <2> DEFINE s == one \o one
               t == <<1, 1>>
    <2>6. Len(s) = Len(t) /\ Len(t) = 2
      BY <2>2, <2>4, Zenon
    <2>7. \A j \in 1 .. 2 : s[j] = t[j]
      BY <2>2, <2>4, <2>5, Zenon
    <2>8. s \in Seq(Nat) /\ t \in Seq(Nat)
      BY <2>2, <2>4
    <2> HIDE DEF s, t
    <2>9. s = t
      BY <2>6, <2>7, <2>8, SameSeq
    <2> QED BY <2>9 DEF s, t
  <1> HIDE DEF one, l1, l2, l3, l4, s1, s2, V
  <1>8. W \in Seq(Nat) /\ Len(W) = 9
    BY DEF TxWidths
  <1>9. V \in Seq(Seq(Byte)) /\ Len(V) = 9
    BY <1>2, <1>3, <1>4, <1>5
  <1>10. /\ W[1] = 1 /\ W[2] = 1 /\ W[3] = 4 /\ W[4] = 4 /\ W[5] = 8 /\ W[6] = 8
         /\ W[7] = 0 /\ W[8] = 0 /\ W[9] = 0
    BY DEF TxWidths
  <1>11. /\ V[1] = one /\ V[2] = one /\ V[3] = l1 /\ V[4] = l2 /\ V[5] = l3 /\ V[6] = l4
         /\ V[7] = s1 /\ V[8] = s2 /\ V[9] = sig
    BY <1>5
  <1> HIDE DEF W
  <1>12. \A i \in 1 .. 9 : Fits(W[i], V[i])
    <2>1. \A i \in 1 .. 9 : \/ i = 1 \/ i = 2 \/ i = 3 \/ i = 4 \/ i = 5 \/ i = 6 \/ i = 7
                            \/ i = 8 \/ i = 9
      OBVIOUS
    <2> QED BY <1>2, <1>3, <1>4, <1>10, <1>11, <2>1, Zenon
  <1>13. ASSUME NEW cat, Joined(cat, W, V)
         PROVE  cat[9] = TxStart(tx) \o write_bytes(s1) \o write_bytes(s2) \o write_bytes(sig)
    <2>1. cat[0] = <<>> /\ \A i \in 1 .. 9 : cat[i] = cat[i - 1] \o Enc(W[i], V[i])
      BY <1>8, <1>13 DEF Joined
    <2> DEFINE next(i) == cat[i - 1] \o Enc(W[i], V[i])
    <2>a. /\ cat[1] = next(1) /\ cat[2] = next(2) /\ cat[3] = next(3) /\ cat[4] = next(4)
          /\ cat[5] = next(5) /\ cat[6] = next(6) /\ cat[7] = next(7) /\ cat[8] = next(8)
          /\ cat[9] = next(9)
      <3>1. \A i \in 1 .. 9 : cat[i] = next(i)
        BY <2>1, Zenon
      <3>2. /\ 1 \in 1 .. 9 /\ 2 \in 1 .. 9 /\ 3 \in 1 .. 9 /\ 4 \in 1 .. 9 /\ 5 \in 1 .. 9
            /\ 6 \in 1 .. 9 /\ 7 \in 1 .. 9 /\ 8 \in 1 .. 9 /\ 9 \in 1 .. 9
        OBVIOUS
      <3> HIDE DEF next
      <3> QED BY <3>1, <3>2, Zenon
    <2>b. /\ 1 - 1 = 0 /\ 2 - 1 = 1 /\ 3 - 1 = 2 /\ 4 - 1 = 3 /\ 5 - 1 = 4 /\ 6 - 1 = 5
          /\ 7 - 1 = 6 /\ 8 - 1 = 7 /\ 9 - 1 = 8
      OBVIOUS
    <2>2. cat[1] = one
      <3>1. cat[1] = cat[0] \o Enc(1, one)
        BY <1>10, <1>11, <2>a, <2>b, Zenon
      <3>2. <<>> \o one = one
        BY <1>3
      <3> QED BY <1>3, <2>1, <3>1, <3>2, Zenon
    <2>3. /\ cat[2] = cat[1] \o one /\ cat[3] = cat[2] \o l1 /\ cat[4] = cat[3] \o l2
          /\ cat[5] = cat[4] \o l3 /\ cat[6] = cat[5] \o l4
          /\ cat[7] = cat[6] \o write_bytes(s1) /\ cat[8] = cat[7] \o write_bytes(s2)
          /\ cat[9] = cat[8] \o write_bytes(sig)
      BY <1>2, <1>3, <1>4, <1>10, <1>11, <2>a, <2>b, Zenon
    <2> QED BY <1>6, <1>7, <2>2, <2>3, Zenon
  <1> QED BY <1>8, <1>9, <1>12, <1>13, Zenon DEF W, V, s1, s2

\* parse_transaction reads what Transaction::serialize wrote; what is signed reads as
\* the transaction without its signature.
LEMMA TxRound ==
    ASSUME NEW tx \in Transaction, NEW for_signing \in BOOLEAN
    PROVE  /\ serialize_transaction(tx, for_signing) \in Seq(Byte)
           /\ parse_transaction(serialize_transaction(tx, for_signing))
                = <<IF for_signing THEN Unsigned(tx) ELSE tx>>
  <1> DEFINE none == <<>>
             sig == IF for_signing THEN none ELSE tx.signature
             src == serialize_transaction(tx, for_signing)
             V == TxVals(tx, sig)
             W == TxWidths
  <1>0. none \in ByteString /\ write_bytes(none) = write_le_value(0, 4)
    BY StringFits, Zenon
  <1>u. Unsigned(tx) = [tx EXCEPT !.signature = none]
    BY DEF Unsigned
  <1> HIDE DEF none
  <1>1. sig \in ByteString
    BY <1>0 DEF Transaction
  <1>2. src = TxStart(tx) \o write_bytes(tx.from_pub_pem) \o write_bytes(tx.to_label)
              \o write_bytes(sig)
    BY <1>0, Zenon DEF serialize_transaction
  <1>w. W = <<1, 1, 4, 4, 8, 8, 0, 0, 0>>
    BY DEF TxWidths
  <1>v. /\ V[4] = write_le_value(tx.version, 4) /\ V[5] = write_le_value(tx.nonce, 8)
        /\ V[6] = write_le_value(tx.amount, 8) /\ V[7] = tx.from_pub_pem
        /\ V[8] = tx.to_label /\ V[9] = sig
    BY DEF TxVals
  <1> HIDE DEF src, V, W
  <1>3. /\ W \in Seq(Nat) /\ Len(W) = 9 /\ V \in Seq(Seq(Byte)) /\ Len(V) = 9
        /\ \A i \in 1 .. 9 : Fits(W[i], V[i])
        /\ \A cat : Joined(cat, W, V) => cat[9] = src
    BY <1>1, <1>2, TxFields DEF V, W
  <1>4. PICK cat : Joined(cat, W, V)
    BY <1>3, JoinExists
  <1>5. cat[9] = src /\ src \in Seq(Byte)
    <2>0. \A i \in 0 .. Len(W) : cat[i] \in Seq(Byte)
      BY <1>3, <1>4, JoinedIs
    <2>1. cat[9] \in Seq(Byte)
      BY <1>3, <2>0
    <2> QED BY <1>3, <1>4, <2>1
  <1>6. Fields(src, W) = Reader(Len(src), V)
    <2>1. Begins(src, cat[Len(W)])
      BY <1>3, <1>5 DEF Begins
    <2> QED BY <1>3, <1>4, <1>5, <2>1, FieldsRound
  <1>7. /\ tx.version \in Uint(2) /\ tx.version \in Uint(4) /\ tx.nonce \in Uint(8)
        /\ tx.amount \in Uint(8)
    BY UintFits DEF Transaction
  <1>8. /\ le_value(V[4]) = tx.version /\ le_value(V[5]) = tx.nonce /\ le_value(V[6]) = tx.amount
    BY <1>7, <1>v, NumberFits
  <1>9. tx.version % Weight[2] = tx.version
    <2>1. tx.version \in Nat /\ tx.version < Weight[2] /\ Weight[2] \in Nat
      BY <1>7, UintFits, WeightIs
    <2>2. \A w, x \in Nat : x < w => x % w = x
      OBVIOUS
    <2> QED BY <2>1, <2>2
  <1> DEFINE reader == Fields(src, W)
             got == [version |-> tx.version, nonce |-> tx.nonce, amount |-> tx.amount,
                     from_pub_pem |-> tx.from_pub_pem, to_label |-> tx.to_label,
                     signature |-> sig]
  <1>10. reader.ok /\ reader.values = V
    BY <1>6 DEF Reader
  <1>11. parse_transaction(src) = <<got>>
    <2>1. parse_transaction(src)
            = IF reader.ok
              THEN <<[version |-> le_value(reader.values[4]) % Weight[2],
                      nonce |-> le_value(reader.values[5]), amount |-> le_value(reader.values[6]),
                      from_pub_pem |-> reader.values[7], to_label |-> reader.values[8],
                      signature |-> reader.values[9]]>>
              ELSE <<>>
      BY <1>w, Zenon DEF parse_transaction
    <2> HIDE DEF reader
    <2> QED BY <1>v, <1>8, <1>9, <1>10, <2>1, Zenon
  <1>12. got = IF for_signing THEN Unsigned(tx) ELSE tx
    <2>1. CASE for_signing
      BY <1>u, <2>1 DEF Transaction
    <2>2. CASE ~for_signing
      BY <2>2 DEF Transaction
    <2> QED BY <2>1, <2>2
  <1> QED BY <1>5, <1>11, <1>12 DEF src

-----------------------------------------------------------------------------
(* Blocks. *)

\* Joining is associative, and has the empty sequence for its unit.
LEMMA CatAssoc ==
    ASSUME NEW S, NEW s \in Seq(S), NEW t \in Seq(S), NEW u \in Seq(S)
    PROVE  (s \o t) \o u = s \o (t \o u)
  <1> DEFINE st == s \o t
             tu == t \o u
             l == st \o u
             r == s \o tu
  <1>1. st \in Seq(S) /\ tu \in Seq(S) /\ IsCat(st, s, t) /\ IsCat(tu, t, u)
    BY CatIs
  <1> HIDE DEF st, tu
  <1>2. l \in Seq(S) /\ r \in Seq(S) /\ IsCat(l, st, u) /\ IsCat(r, s, tu)
    BY <1>1, CatIs
  <1> HIDE DEF l, r
  <1>3. /\ Len(s) \in Nat /\ Len(t) \in Nat /\ Len(u) \in Nat /\ Len(st) = Len(s) + Len(t)
        /\ Len(tu) = Len(t) + Len(u) /\ Len(l) = Len(st) + Len(u) /\ Len(r) = Len(s) + Len(tu)
    BY <1>1, <1>2 DEF IsCat
  <1>4. ASSUME NEW j \in 1 .. Len(r) PROVE l[j] = r[j]
    <2>1. CASE j <= Len(s)
      <3>1. j \in 1 .. Len(s) /\ j \in 1 .. Len(st)
        BY <1>3, <2>1
      <3> QED BY <1>1, <1>2, <3>1 DEF IsCat
    <2>2. CASE Len(s) < j /\ j <= Len(st)
      <3> DEFINE i == j - Len(s)
      <3>1. /\ i \in 1 .. Len(t) /\ i \in 1 .. Len(tu) /\ Len(s) + i = j /\ j \in 1 .. Len(st)
        BY <1>3, <2>2
      <3> HIDE DEF i
      <3>2. l[j] = st[j] /\ st[j] = t[i] /\ r[j] = tu[i] /\ tu[i] = t[i]
        BY <1>1, <1>2, <3>1 DEF IsCat
      <3> QED BY <3>2
    <2>3. CASE Len(st) < j
      <3> DEFINE i == j - Len(st)
      <3>1. /\ i \in 1 .. Len(u) /\ Len(st) + i = j /\ Len(t) + i \in 1 .. Len(tu)
            /\ Len(s) + (Len(t) + i) = j
        BY <1>3, <2>3
      <3> HIDE DEF i
      <3>2. l[j] = u[i] /\ r[j] = tu[Len(t) + i] /\ tu[Len(t) + i] = u[i]
        BY <1>1, <1>2, <3>1 DEF IsCat
      <3> QED BY <3>2
    <2> QED BY <1>3, <2>1, <2>2, <2>3
  <1>5. Len(l) = Len(r)
    BY <1>3
  <1>6. l = r
    BY <1>2, <1>4, <1>5, SameSeq
  <1> QED BY <1>6 DEF l, r, st, tu

LEMMA CatEmpty == ASSUME NEW S, NEW s \in Seq(S) PROVE s \o <<>> = s /\ <<>> \o s = s
  OBVIOUS

\* What FlattenSeq goes through.
Concats(f, seqs) == f[0] = <<>> /\ \A i \in 1 .. Len(seqs) : f[i] = f[i - 1] \o seqs[i]
LEMMA FlattenIs ==
    ASSUME NEW S, NEW seqs \in Seq(Seq(S))
    PROVE  \E f \in [0 .. Len(seqs) -> Seq(S)] :
              Concats(f, seqs) /\ FlattenSeq(seqs) = f[Len(seqs)]
  <1> DEFINE n == Len(seqs)
             step == [i \in Nat |-> [s \in Seq(S) |-> IF i \in 1 .. n THEN s \o seqs[i] ELSE s]]
             none == <<>>
             Is(f) == f = [i \in 1 .. n |-> IF i = 1 THEN seqs[i] ELSE f[i - 1] \o seqs[i]]
             flatten == CHOOSE f : Is(f)
  <1>1. n \in Nat /\ none \in Seq(S) /\ \A i \in 1 .. n : seqs[i] \in Seq(S)
    OBVIOUS
  <1>2. \A s \in Seq(S) : none \o s = s
    BY CatEmpty, Zenon
  <1>3. FlattenSeq(seqs) = IF n = 0 THEN seqs ELSE flatten[n]
    BY Zenon DEF FlattenSeq
  <1>4. n = 0 => seqs = none
    OBVIOUS
  <1>a. \A f : Concats(f, seqs) <=> f[0] = none /\ \A i \in 1 .. n : f[i] = f[i - 1] \o seqs[i]
    BY Zenon DEF Concats
  <1> HIDE DEF none
  <1>5. \A i \in Nat : \A s \in Seq(S) :
           /\ step[i][s] \in Seq(S)
           /\ i \in 1 .. n => step[i][s] = s \o seqs[i]
    <2>1. ASSUME NEW i \in Nat, NEW s \in Seq(S)
          PROVE  /\ step[i][s] \in Seq(S)
                 /\ i \in 1 .. n => step[i][s] = s \o seqs[i]
      <3>1. step[i][s] = IF i \in 1 .. n THEN s \o seqs[i] ELSE s
        OBVIOUS
      <3>2. i \in 1 .. n => s \o seqs[i] \in Seq(S)
        BY <1>1
      <3> HIDE DEF step
      <3> QED BY <3>1, <3>2, Zenon
    <2> QED BY <2>1, Zenon
  <1> HIDE DEF step
  <1>6. PICK f \in [0 .. n -> Seq(S)] : Trace(f, none, step, n)
    <2>1. \A i \in Nat : \A s \in Seq(S) : step[i][s] \in Seq(S)
      BY <1>5, Zenon
    <2> QED BY <1>1, <2>1, TraceExists, Zenon
  <1>7. f[0] = none /\ \A i \in 1 .. n : f[i] = f[i - 1] \o seqs[i]
    <2>1. ASSUME NEW i \in 1 .. n PROVE f[i] = f[i - 1] \o seqs[i]
      <3>1. i \in Nat /\ i - 1 \in 0 .. n
        BY <1>1
      <3>2. f[i] = step[i][f[i - 1]] /\ f[i - 1] \in Seq(S)
        BY <1>6, <3>1 DEF Trace
      <3> QED BY <1>5, <3>1, <3>2, Zenon
    <2> QED BY <1>6, <2>1, Zenon DEF Trace
  <1>8. CASE n = 0
    <2>1. FlattenSeq(seqs) = f[n]
      BY <1>3, <1>4, <1>7, <1>8, Zenon
    <2> QED BY <1>7, <1>a, <2>1, Zenon
  <1>9. CASE n # 0
    <2>1. f[1] = seqs[1]
      <3>1. 1 \in 1 .. n /\ 1 - 1 = 0
        BY <1>1, <1>9
      <3>2. f[1] = none \o seqs[1]
        BY <1>7, <3>1
      <3> QED BY <1>1, <1>2, <3>1, <3>2
    <2> DEFINE g == [i \in 1 .. n |-> f[i]]
    <2>2. Is(g)
      <3>1. ASSUME NEW i \in 1 .. n
            PROVE  g[i] = IF i = 1 THEN seqs[i] ELSE g[i - 1] \o seqs[i]
        <4>1. CASE i = 1
          BY <2>1, <4>1
        <4>2. CASE i # 1
          <5>1. i - 1 \in 1 .. n
            BY <1>1, <4>2
          <5> QED BY <1>7, <4>2, <5>1
        <4> QED BY <4>1, <4>2
      <3> QED BY <3>1
    <2>3. Is(flatten)
      BY <2>2, Zenon
    <2> HIDE DEF flatten
    <2>4. \A i \in 1 .. n : flatten[i] = IF i = 1 THEN seqs[i] ELSE flatten[i - 1] \o seqs[i]
      <3> DEFINE body(i) == IF i = 1 THEN seqs[i] ELSE flatten[i - 1] \o seqs[i]
      <3>1. flatten = [i \in 1 .. n |-> body(i)]
        BY <2>3, Zenon
      <3> HIDE DEF body
      <3>2. \A i \in 1 .. n : flatten[i] = body(i)
        BY <3>1
      <3> QED BY <3>2, Zenon DEF body
    <2> DEFINE T == {i \in 0 .. n - 1 : flatten[i + 1] = f[i + 1]}
    <2>5. 0 \in T
      <3>1. 1 \in 1 .. n /\ 0 + 1 = 1 /\ 0 \in 0 .. n - 1
        BY <1>1, <1>9
      <3>2. flatten[1] = f[1]
        BY <2>1, <2>4, <3>1
      <3> QED BY <3>1, <3>2
    <2>6. ASSUME NEW i \in 0 .. (n - 1) - 1, i \in T PROVE i + 1 \in T
      <3>1. (i + 1) + 1 \in 1 .. n /\ (i + 1) + 1 # 1 /\ ((i + 1) + 1) - 1 = i + 1 /\ i + 1 \in 0 .. n - 1
        BY <1>1
      <3>2. flatten[(i + 1) + 1] = flatten[i + 1] \o seqs[(i + 1) + 1]
        BY <2>4, <3>1
      <3>3. f[(i + 1) + 1] = f[i + 1] \o seqs[(i + 1) + 1]
        BY <1>7, <3>1
      <3>4. flatten[i + 1] = f[i + 1]
        BY <2>6
      <3> QED BY <3>1, <3>2, <3>3, <3>4
    <2> HIDE DEF T
    <2>7. n - 1 \in Nat /\ (n - 1) + 1 = n /\ n - 1 \in 0 .. n - 1
      BY <1>1, <1>9
    <2>8. 0 .. n - 1 \subseteq T
      BY <2>5, <2>6, <2>7, BoundedInduction
    <2>9. flatten[n] = f[n]
      BY <2>7, <2>8 DEF T
    <2>10. FlattenSeq(seqs) = f[n]
      BY <1>3, <1>9, <2>9, Zenon
    <2> QED BY <1>7, <1>a, <2>10, Zenon
  <1> QED BY <1>8, <1>9

\* The fields of a block in front of its transactions.
HeadWidths == <<4, HashLen, HashLen, 8, 8, 4>>
HeadVals(block) ==
    <<write_le_value(block.header.version, 4), block.header.prev_hash, block.header.merkle_root,
      write_le_value(block.header.timestamp, 8), write_le_value(block.header.nonce, 8),
      write_le_value(Len(block.transactions), 4)>>

\* A hash is a sequence of HashLen bytes.
LEMMA HashIsSeq == \A h \in [1 .. HashLen -> Byte] : h \in Seq(Byte) /\ Len(h) = HashLen
  BY LogFormatAssumption

LEMMA HeadFields ==
    ASSUME NEW block \in Block, Len(block.transactions) < Weight[4]
    PROVE  /\ HeadWidths \in Seq(Nat) /\ Len(HeadWidths) = 6
           /\ HeadVals(block) \in Seq(Seq(Byte)) /\ Len(HeadVals(block)) = 6
           /\ \A i \in 1 .. 6 : Fits(HeadWidths[i], HeadVals(block)[i])
           /\ \A cat : Joined(cat, HeadWidths, HeadVals(block)) =>
                 cat[6] = serialize_header(block.header)
                          \o write_le_value(Len(block.transactions), 4)
           /\ le_value(HeadVals(block)[1]) = block.header.version
           /\ HeadVals(block)[2] = block.header.prev_hash
           /\ HeadVals(block)[3] = block.header.merkle_root
           /\ le_value(HeadVals(block)[4]) = block.header.timestamp
           /\ le_value(HeadVals(block)[5]) = block.header.nonce
           /\ le_value(HeadVals(block)[6]) = Len(block.transactions)
  <1> DEFINE h == block.header
             size == Len(block.transactions)
             l1 == write_le_value(h.version, 4)
             l2 == write_le_value(h.timestamp, 8)
             l3 == write_le_value(h.nonce, 8)
             l4 == write_le_value(size, 4)
             p == h.prev_hash
             r == h.merkle_root
             W == HeadWidths
             V == HeadVals(block)
  <1>1. /\ h.version \in Uint(4) /\ h.timestamp \in Uint(8) /\ h.nonce \in Uint(8)
        /\ p \in [1 .. HashLen -> Byte] /\ r \in [1 .. HashLen -> Byte]
    BY DEF Block, Header
  <1>2. size \in Uint(4)
    <2>1. size \in Nat /\ size < Weight[4]
      BY DEF Block
    <2>2. Weight[4] \in Nat
      BY WeightIs
    <2> HIDE DEF size
    <2> QED BY <2>1, <2>2 DEF Uint
  <1>3. V = <<l1, p, r, l2, l3, l4>>
    BY DEF HeadVals
  <1>4. serialize_header(h) = l1 \o p \o r \o l2 \o l3
    BY DEF serialize_header
  <1>5. /\ Fits(4, l1) /\ Enc(4, l1) = l1 /\ l1 \in Seq(Byte) /\ le_value(l1) = h.version
        /\ Fits(8, l2) /\ Enc(8, l2) = l2 /\ l2 \in Seq(Byte) /\ le_value(l2) = h.timestamp
        /\ Fits(8, l3) /\ Enc(8, l3) = l3 /\ l3 \in Seq(Byte) /\ le_value(l3) = h.nonce
        /\ Fits(4, l4) /\ Enc(4, l4) = l4 /\ l4 \in Seq(Byte) /\ le_value(l4) = size
    <2> HIDE DEF h, size
    <2> QED BY <1>1, <1>2, NumberFits, SMTT(30)
  <1>6. /\ p \in Seq(Byte) /\ Len(p) = HashLen /\ r \in Seq(Byte) /\ Len(r) = HashLen
    BY <1>1, HashIsSeq, Zenon
  <1> HIDE DEF l1, l2, l3, l4, p, r, V, h, size
  <1>7. Fits(HashLen, p) /\ Enc(HashLen, p) = p /\ Fits(HashLen, r) /\ Enc(HashLen, r) = r
    BY <1>6, LogFormatAssumption DEF Fits, Enc
  <1>8. W \in Seq(Nat) /\ Len(W) = 6
    BY LogFormatAssumption DEF HeadWidths
  <1>9. V \in Seq(Seq(Byte)) /\ Len(V) = 6
    BY <1>3, <1>5, <1>6
  <1>10. W[1] = 4 /\ W[2] = HashLen /\ W[3] = HashLen /\ W[4] = 8 /\ W[5] = 8 /\ W[6] = 4
    BY DEF HeadWidths
  <1>11. V[1] = l1 /\ V[2] = p /\ V[3] = r /\ V[4] = l2 /\ V[5] = l3 /\ V[6] = l4
    BY <1>3
  <1> HIDE DEF W
  <1>12. \A i \in 1 .. 6 : Fits(W[i], V[i])
    <2>1. \A i \in 1 .. 6 : i = 1 \/ i = 2 \/ i = 3 \/ i = 4 \/ i = 5 \/ i = 6
      OBVIOUS
    <2> QED BY <1>5, <1>7, <1>10, <1>11, <2>1, Zenon
  <1>13. ASSUME NEW cat, Joined(cat, W, V) PROVE cat[6] = serialize_header(h) \o l4
    <2>1. cat[0] = <<>> /\ \A i \in 1 .. 6 : cat[i] = cat[i - 1] \o Enc(W[i], V[i])
      BY <1>8, <1>13 DEF Joined
    <2> DEFINE next(i) == cat[i - 1] \o Enc(W[i], V[i])
    <2>2. /\ cat[1] = next(1) /\ cat[2] = next(2) /\ cat[3] = next(3) /\ cat[4] = next(4)
          /\ cat[5] = next(5) /\ cat[6] = next(6)
      <3>1. \A i \in 1 .. 6 : cat[i] = next(i)
        BY <2>1, Zenon
      <3>2. /\ 1 \in 1 .. 6 /\ 2 \in 1 .. 6 /\ 3 \in 1 .. 6 /\ 4 \in 1 .. 6 /\ 5 \in 1 .. 6
            /\ 6 \in 1 .. 6
        OBVIOUS
      <3> HIDE DEF next
      <3> QED BY <3>1, <3>2, Zenon
    <2>3. 1 - 1 = 0 /\ 2 - 1 = 1 /\ 3 - 1 = 2 /\ 4 - 1 = 3 /\ 5 - 1 = 4 /\ 6 - 1 = 5
      OBVIOUS
    <2>4. cat[1] = l1
      <3>1. cat[1] = cat[0] \o Enc(4, l1)
        BY <1>10, <1>11, <2>2, <2>3, Zenon
      <3>2. <<>> \o l1 = l1
        BY <1>5, CatEmpty
      <3> QED BY <1>5, <2>1, <3>1, <3>2, Zenon
    <2>5. /\ cat[2] = cat[1] \o p /\ cat[3] = cat[2] \o r /\ cat[4] = cat[3] \o l2
          /\ cat[5] = cat[4] \o l3 /\ cat[6] = cat[5] \o l4
      BY <1>5, <1>7, <1>10, <1>11, <2>2, <2>3, Zenon
    <2> QED BY <1>4, <2>4, <2>5, Zenon
  <1>14. /\ le_value(V[1]) = h.version /\ V[2] = p /\ V[3] = r /\ le_value(V[4]) = h.timestamp
         /\ le_value(V[5]) = h.nonce /\ le_value(V[6]) = size
    BY <1>5, <1>11
  <1> QED BY <1>8, <1>9, <1>12, <1>13, <1>14, Zenon DEF W, V, p, r, h, size, l4

\* What transactions are read from, put together.
LEMMA FlattenSingles ==
    ASSUME NEW S, NEW seq \in Seq(S), NEW singles, singles = [i \in 1 .. Len(seq) |-> <<seq[i]>>]
    PROVE  FlattenSeq(singles) = seq
  <1> DEFINE n == Len(seq)
             part(i) == SubSeq(seq, 1, i)
  <1>1. n \in Nat /\ \A i \in 1 .. n : seq[i] \in S
    OBVIOUS
  <1>2. singles \in Seq(Seq(S)) /\ Len(singles) = n /\ \A i \in 1 .. n : singles[i] = <<seq[i]>>
    BY <1>1
  <1>3. PICK f \in [0 .. n -> Seq(S)] : Concats(f, singles) /\ FlattenSeq(singles) = f[n]
    <2>1. \E f \in [0 .. Len(singles) -> Seq(S)] :
             Concats(f, singles) /\ FlattenSeq(singles) = f[Len(singles)]
      BY <1>2, FlattenIs, Zenon
    <2> QED BY <1>2, <2>1
  <1> DEFINE T == {i \in 0 .. n : f[i] = part(i)}
  <1>4. 0 \in T
    <2>1. part(0) = <<>> /\ f[0] = <<>>
      BY <1>3 DEF Concats
    <2>2. f[0] = part(0)
      BY <2>1, Zenon
    <2> QED BY <1>1, <2>2
  <1>5. ASSUME NEW i \in 0 .. n - 1, i \in T PROVE i + 1 \in T
    <2>1. i + 1 \in 1 .. n /\ (i + 1) - 1 = i
      BY <1>1
    <2>2. f[i + 1] = f[i] \o singles[i + 1]
      BY <1>2, <1>3, <2>1 DEF Concats
    <2>3. f[i + 1] = part(i) \o <<seq[i + 1]>>
      BY <1>2, <1>5, <2>1, <2>2
    <2>4. part(i) \o <<seq[i + 1]>> = part(i + 1)
      BY <1>1, <2>1
    <2> QED BY <2>1, <2>3, <2>4
  <1> HIDE DEF T
  <1>6. 0 .. n \subseteq T
    BY <1>1, <1>4, <1>5, BoundedInduction
  <1>7. f[n] = part(n)
    BY <1>1, <1>6 DEF T
  <1> QED BY <1>1, <1>3, <1>7

\* load_all_blocks reads the block that append_block wrote.
LEMMA BlockRound ==
    ASSUME NEW block \in Written
    PROVE  serialize(block) \in Seq(Byte) /\ parse_block(serialize(block)) = <<block>>
  <1> DEFINE txs == block.transactions
             n == Len(txs)
             bytes(i) == serialize_transaction(txs[i], FALSE)
             zeros == [i \in 1 .. n |-> 0]
             W6 == HeadWidths
             V6 == HeadVals(block)
             W == W6 \o zeros
             Vt == [i \in 1 .. n |-> bytes(i)]
             V == V6 \o Vt
             encs == [i \in DOMAIN txs |-> write_bytes(bytes(i))]
             start == serialize_header(block.header) \o write_le_value(n, 4)
             src == serialize(block)
  <1>1. /\ block \in Block /\ n < Weight[4] /\ txs \in Seq(Transaction) /\ n \in Nat
        /\ DOMAIN txs = 1 .. n
    <2>1. block \in Block /\ Len(block.transactions) < Weight[4]
      BY WrittenAssumption, Zenon
    <2>2. block.transactions \in Seq(Transaction)
      BY <2>1 DEF Block
    <2>3. ASSUME NEW s \in Seq(Transaction) PROVE Len(s) \in Nat /\ DOMAIN s = 1 .. Len(s)
      OBVIOUS
    <2> QED BY <2>1, <2>2, <2>3, Zenon
  <1>2. ASSUME NEW i \in 1 .. n
        PROVE  /\ bytes(i) \in Seq(Byte) /\ parse_transaction(bytes(i)) = <<txs[i]>>
               /\ Fits(0, bytes(i)) /\ Enc(0, bytes(i)) = write_bytes(bytes(i))
               /\ write_bytes(bytes(i)) \in Seq(Byte)
    <2>1. txs[i] \in Transaction /\ Len(bytes(i)) < Weight[4]
      <3>1. ASSUME NEW s \in Seq(Transaction), i \in DOMAIN s PROVE s[i] \in Transaction
        BY <3>1
      <3>2. i \in DOMAIN txs
        BY <1>1, Zenon
      <3>3. txs[i] \in Transaction
        BY <1>1, <3>1, <3>2, Zenon
      <3>4. Len(bytes(i)) < Weight[4]
        BY <3>2, WrittenAssumption, Zenon
      <3> QED BY <3>3, <3>4, Zenon
    <2>2. bytes(i) \in Seq(Byte) /\ parse_transaction(bytes(i)) = <<txs[i]>>
      BY <2>1, TxRound
    <2>3. Fits(0, bytes(i)) /\ Enc(0, bytes(i)) = write_bytes(bytes(i))
      BY <2>1, <2>2 DEF Fits, Enc
    <2> QED BY <2>2, <2>3, EncIs
  <1>3. src = start \o FlattenSeq(encs)
    BY Zenon DEF serialize
  <1>h. parse_block(src)
          = LET fixed  == Fields(src, W6)
                number == le_value(fixed.values[6])
                reader == Fields(src, W6 \o [i \in 1 .. number |-> 0])
                got    == [i \in 1 .. number |-> parse_transaction(reader.values[6 + i])]
                v      == reader.values
            IN  IF fixed.ok /\ reader.ok /\ \A i \in 1 .. number : got[i] # <<>>
                THEN <<[header |-> [version |-> le_value(v[1]), prev_hash |-> v[2],
                                    merkle_root |-> v[3], timestamp |-> le_value(v[4]),
                                    nonce |-> le_value(v[5])],
                        transactions |-> FlattenSeq(got)]>>
                ELSE <<>>
    BY Zenon DEF parse_block, HeadWidths
  <1> HIDE DEF bytes
  <1>4. zeros \in Seq(Nat) /\ Len(zeros) = n /\ \A i \in 1 .. n : zeros[i] = 0
    BY <1>1
  <1>5. Vt \in Seq(Seq(Byte)) /\ Len(Vt) = n /\ \A i \in 1 .. n : Vt[i] = bytes(i)
    BY <1>1, <1>2
  <1>6. encs \in Seq(Seq(Byte)) /\ Len(encs) = n /\ \A i \in 1 .. n : encs[i] = write_bytes(bytes(i))
    BY <1>1, <1>2
  <1> HIDE DEF txs, n, zeros, W6, V6, Vt, encs, start, src
  <1>7. /\ W6 \in Seq(Nat) /\ Len(W6) = 6 /\ V6 \in Seq(Seq(Byte)) /\ Len(V6) = 6
        /\ \A i \in 1 .. 6 : Fits(W6[i], V6[i])
        /\ \A cat : Joined(cat, W6, V6) => cat[6] = start
        /\ le_value(V6[1]) = block.header.version /\ V6[2] = block.header.prev_hash
        /\ V6[3] = block.header.merkle_root /\ le_value(V6[4]) = block.header.timestamp
        /\ le_value(V6[5]) = block.header.nonce /\ le_value(V6[6]) = n
    BY <1>1, HeadFields DEF W6, V6, start, n, txs
  <1>8. /\ W \in Seq(Nat) /\ Len(W) = 6 + n /\ (\A i \in 1 .. 6 : W[i] = W6[i])
        /\ \A i \in 1 .. n : W[6 + i] = 0
    <2>1. W \in Seq(Nat) /\ IsCat(W, W6, zeros)
      BY <1>4, <1>7, CatIs
    <2> HIDE DEF W
    <2> QED BY <1>4, <1>7, <2>1 DEF IsCat
  <1>9. /\ V \in Seq(Seq(Byte)) /\ Len(V) = 6 + n /\ (\A i \in 1 .. 6 : V[i] = V6[i])
        /\ \A i \in 1 .. n : V[6 + i] = bytes(i)
    <2>1. V \in Seq(Seq(Byte)) /\ IsCat(V, V6, Vt)
      BY <1>5, <1>7, CatIs
    <2> HIDE DEF V
    <2> QED BY <1>5, <1>7, <2>1 DEF IsCat
  <1> HIDE DEF V
  <1>w. W = W6 \o zeros
    OBVIOUS
  <1> HIDE DEF W
  <1>10. \A i \in 1 .. Len(W) : Fits(W[i], V[i])
    <2>1. ASSUME NEW i \in 1 .. Len(W) PROVE Fits(W[i], V[i])
      <3>1. CASE i <= 6
        <4>1. i \in 1 .. 6
          BY <1>1, <1>8, <3>1
        <4>2. W[i] = W6[i] /\ V[i] = V6[i]
          BY <1>8, <1>9, <4>1, Zenon
        <4> QED BY <1>7, <4>1, <4>2, Zenon
      <3>2. CASE i > 6
        <4>1. i - 6 \in 1 .. n /\ 6 + (i - 6) = i
          BY <1>1, <1>8, <3>2
        <4> QED BY <1>2, <1>8, <1>9, <4>1
      <3> QED BY <3>1, <3>2
    <2> QED BY <2>1
  <1>11. PICK cat : Joined(cat, W, V)
    BY <1>8, <1>10, JoinExists
  <1>12. \A i \in 0 .. Len(W) : cat[i] \in Seq(Byte)
    BY <1>8, <1>10, <1>11, JoinedIs
  <1>13. Joined(cat, W6, V6)
    <2>1. cat[0] = <<>>
      BY <1>11 DEF Joined
    <2>2. ASSUME NEW i \in 1 .. 6 PROVE cat[i] = cat[i - 1] \o Enc(W6[i], V6[i])
      <3>1. i \in 1 .. Len(W)
        BY <1>1, <1>8
      <3>2. cat[i] = cat[i - 1] \o Enc(W[i], V[i])
        BY <1>11, <3>1 DEF Joined
      <3> QED BY <1>8, <1>9, <3>2
    <2> QED BY <1>7, <2>1, <2>2, Zenon DEF Joined
  <1>14. cat[6] = start /\ cat[6] \in Seq(Byte)
    BY <1>1, <1>7, <1>8, <1>12, <1>13
  <1>15. cat[6 + n] = src
    <2>1. PICK f \in [0 .. n -> Seq(Byte)] : Concats(f, encs) /\ FlattenSeq(encs) = f[n]
      <3>1. \E f \in [0 .. Len(encs) -> Seq(Byte)] :
               Concats(f, encs) /\ FlattenSeq(encs) = f[Len(encs)]
        BY <1>6, FlattenIs, Zenon
      <3> QED BY <1>6, <3>1
    <2> DEFINE T == {i \in 0 .. n : cat[6 + i] = start \o f[i]}
    <2>2. 0 \in T
      <3>1. f[0] = <<>> /\ start \o <<>> = start
        BY <1>14, <2>1, CatEmpty DEF Concats
      <3>2. start \o f[0] = start
        BY <3>1, Zenon
      <3> QED BY <1>1, <1>14, <3>2, SMTT(30)
    <2>3. ASSUME NEW i \in 0 .. n - 1, i \in T PROVE i + 1 \in T
      <3>1. /\ i + 1 \in 1 .. n /\ (i + 1) - 1 = i /\ 6 + (i + 1) \in 1 .. Len(W)
            /\ (6 + (i + 1)) - 1 = 6 + i /\ i \in 0 .. n
        BY <1>1, <1>8
      <3> DEFINE e == write_bytes(bytes(i + 1))
      <3>2. cat[6 + (i + 1)] = cat[6 + i] \o e
        <4>1. cat[6 + (i + 1)] = cat[6 + i] \o Enc(W[6 + (i + 1)], V[6 + (i + 1)])
          BY <1>11, <3>1 DEF Joined
        <4>2. Enc(W[6 + (i + 1)], V[6 + (i + 1)]) = e
          BY <1>2, <1>8, <1>9, <3>1
        <4> QED BY <4>1, <4>2
      <3>3. f[i + 1] = f[i] \o e
        <4>1. f[i + 1] = f[i] \o encs[i + 1]
          BY <1>6, <2>1, <3>1 DEF Concats
        <4> QED BY <1>6, <3>1, <4>1
      <3>4. e \in Seq(Byte) /\ f[i] \in Seq(Byte) /\ start \in Seq(Byte)
        BY <1>2, <1>14, <2>1, <3>1
      <3> HIDE DEF e
      <3>5. (start \o f[i]) \o e = start \o (f[i] \o e)
        <4>1. \A a, b, c \in Seq(Byte) : (a \o b) \o c = a \o (b \o c)
          BY CatAssoc, SMTT(30)
        <4> QED BY <3>4, <4>1, Zenon
      <3>6. cat[6 + i] = start \o f[i]
        BY <2>3
      <3>7. cat[6 + (i + 1)] = start \o f[i + 1]
        BY <3>2, <3>3, <3>5, <3>6
      <3> QED BY <3>1, <3>7
    <2> HIDE DEF T
    <2>4. 0 .. n \subseteq T
      BY <1>1, <2>2, <2>3, BoundedInduction
    <2>5. cat[6 + n] = start \o f[n]
      BY <1>1, <2>4 DEF T
    <2> QED BY <1>3, <2>1, <2>5
  <1>16. src \in Seq(Byte)
    <2>1. 6 + n \in 0 .. Len(W)
      BY <1>1, <1>8
    <2> QED BY <1>12, <1>15, <2>1
  <1>17. Fields(src, W) = Reader(Len(src), V)
    <2>1. Begins(src, cat[Len(W)])
      BY <1>8, <1>15, <1>16 DEF Begins
    <2>2. Fields(src, W) = Reader(Len(cat[Len(W)]), V)
      BY <1>8, <1>9, <1>10, <1>11, <1>16, <2>1, FieldsRound
    <2> QED BY <1>8, <1>15, <2>2
  <1>18. Fields(src, W6) = Reader(Len(start), V6)
    <2>1. Begins(src, cat[6])
      <3>1. src = start \o FlattenSeq(encs) /\ FlattenSeq(encs) \in Seq(Byte)
        <4>1. \E f \in [0 .. Len(encs) -> Seq(Byte)] :
                 Concats(f, encs) /\ FlattenSeq(encs) = f[Len(encs)]
          BY <1>6, FlattenIs, Zenon
        <4> QED BY <1>1, <1>3, <1>6, <4>1
      <3>2. IsCat(src, start, FlattenSeq(encs))
        BY <1>14, <3>1, CatIs
      <3> QED BY <1>14, <3>2 DEF IsCat, Begins
    <2>2. Len(V6) = Len(W6) /\ \A i \in 1 .. Len(W6) : Fits(W6[i], V6[i])
      BY <1>7
    <2>3. Begins(src, cat[Len(W6)])
      BY <1>7, <2>1
    <2>4. Fields(src, W6) = Reader(Len(cat[Len(W6)]), V6)
      BY <1>7, <1>13, <1>16, <2>2, <2>3, FieldsRound
    <2> QED BY <1>7, <1>14, <2>4
  <1> DEFINE got == [i \in 1 .. n |-> parse_transaction(V[6 + i])]
             result == [header |-> [version |-> le_value(V[1]), prev_hash |-> V[2],
                                    merkle_root |-> V[3], timestamp |-> le_value(V[4]),
                                    nonce |-> le_value(V[5])],
                        transactions |-> FlattenSeq(got)]
  <1>19. got = [i \in 1 .. n |-> <<txs[i]>>]
    BY <1>2, <1>9
  <1>20. FlattenSeq(got) = txs
    <2>1. \A s : s = [i \in 1 .. n |-> <<txs[i]>>] => FlattenSeq(s) = txs
      BY <1>1, FlattenSingles DEF n
    <2> QED BY <1>19, <2>1
  <1>21. \A i \in 1 .. n : got[i] # <<>>
    <2>1. \A x : <<x>> # <<>>
      OBVIOUS
    <2>2. \A i \in 1 .. n : got[i] = <<txs[i]>>
      BY <1>19
    <2> HIDE DEF got
    <2> QED BY <2>1, <2>2, Zenon
  <1> HIDE DEF got
  <1>22. /\ Fields(src, W6).ok /\ Fields(src, W6).values = V6 /\ Fields(src, W).ok
         /\ Fields(src, W).values = V
    BY <1>17, <1>18 DEF Reader
  <1>23. parse_block(src) = <<result>>
    <2>1. le_value(Fields(src, W6).values[6]) = n
      BY <1>7, <1>22
    <2>2. W6 \o [i \in 1 .. n |-> 0] = W
      BY <1>w DEF zeros
    <2> QED BY <1>h, <1>21, <1>22, <2>1, <2>2, Zenon DEF got
  <1>24. result = block
    <2>1. /\ V[1] = V6[1] /\ V[2] = V6[2] /\ V[3] = V6[3] /\ V[4] = V6[4] /\ V[5] = V6[5]
      BY <1>9
    <2>2. result = [header |-> [version |-> block.header.version,
                                prev_hash |-> block.header.prev_hash,
                                merkle_root |-> block.header.merkle_root,
                                timestamp |-> block.header.timestamp,
                                nonce |-> block.header.nonce],
                    transactions |-> block.transactions]
      BY <1>7, <1>20, <2>1 DEF txs
    <2> HIDE DEF result
    <2> QED BY <1>1, <2>2 DEF Block, Header
  <1> QED BY <1>16, <1>23, <1>24 DEF src

-----------------------------------------------------------------------------
(* Records. *)

\* A byte of the file.
Cell == [byte : Byte, digest_of : Seq(Seq(Byte))]

\* Magic, version and kind, and that their first byte is none of the others: a record
\* cut inside them does not go on as it should with the record behind it.
LEMMA StartIs ==
    /\ RecordStart \in Seq(Byte) /\ Len(RecordStart) = 14
    /\ \A j \in 1 .. 14 : RecordStart[j] \in Byte
    /\ \A j \in 2 .. 14 : RecordStart[j] # RecordStart[1]
  <1> DEFINE v == write_le_value(1, 8)
             k == write_le_value(1, 2)
             mv == Magic \o v
  <1>1. /\ Magic \in Seq(Byte) /\ Len(Magic) = 4 /\ Magic[1] # 0 /\ Magic[1] # 1
        /\ Magic[1] # Magic[2] /\ Magic[1] # Magic[3] /\ Magic[1] # Magic[4]
    <2>1. Magic \in [1 .. 4 -> Byte]
      BY LogFormatAssumption DEF Byte
    <2>2. Magic[1] # 0
      BY LogFormatAssumption
    <2>3. Magic \in Seq(Byte) /\ Len(Magic) = 4
      BY <2>1, FunIsSeq
    <2>4. Magic[1] \notin {1, Magic[2], Magic[3], Magic[4]}
      BY LogFormatAssumption, Zenon
    <2>5. Magic[1] # 1 /\ Magic[1] # Magic[2] /\ Magic[1] # Magic[3] /\ Magic[1] # Magic[4]
      BY <2>4, Zenon
    <2> QED BY <2>2, <2>3, <2>5, Zenon
  <1>2. \A n \in Nat \ {0} : 1 < Weight[n]
    <2> DEFINE T == {n \in Nat : 1 < Weight[n + 1]}
    <2>1. 0 \in T
      BY WeightIs, LogFormatAssumption
    <2>2. ASSUME NEW n \in Nat, n \in T PROVE n + 1 \in T
      BY <2>2, WeightGrows
    <2> HIDE DEF T
    <2>3. Nat \subseteq T
      BY <2>1, <2>2, Induction
    <2>4. ASSUME NEW n \in Nat \ {0} PROVE 1 < Weight[n]
      <3>1. n - 1 \in Nat /\ (n - 1) + 1 = n
        OBVIOUS
      <3> QED BY <2>3, <3>1 DEF T
    <2> QED BY <2>4
  <1>3. ASSUME NEW n \in Nat \ {0}
        PROVE  /\ write_le_value(1, n) \in Seq(Byte) /\ Len(write_le_value(1, n)) = n
               /\ \A j \in 1 .. n : write_le_value(1, n)[j] \in {0, 1}
    <2>1. write_le_value(1, n) \in Seq(Byte) /\ Len(write_le_value(1, n)) = n
      BY <1>2, LeRound
    <2>2. ASSUME NEW j \in 1 .. n PROVE write_le_value(1, n)[j] \in {0, 1}
      <3>1. Weight[j - 1] \in Nat /\ Weight[j - 1] > 0 /\ Base \in Nat /\ Base > 1
        BY WeightIs, LogFormatAssumption
      <3>2. \A w, b \in Nat : w > 0 /\ b > 1 => (1 \div w) % b \in {0, 1}
        OBVIOUS
      <3> QED BY <3>1, <3>2 DEF write_le_value
    <2> QED BY <2>1, <2>2
  <1>4. /\ v \in Seq(Byte) /\ Len(v) = 8 /\ (\A j \in 1 .. 8 : v[j] \in {0, 1})
        /\ k \in Seq(Byte) /\ Len(k) = 2 /\ (\A j \in 1 .. 2 : k[j] \in {0, 1})
    <2>1. 8 \in Nat \ {0} /\ 2 \in Nat \ {0}
      OBVIOUS
    <2> QED BY <1>3, <2>1, Zenon
  <1>5. RecordStart = mv \o k
    BY DEF RecordStart
  <1>6. mv \in Seq(Byte) /\ IsCat(mv, Magic, v)
    BY <1>1, <1>4, CatIs
  <1> HIDE DEF v, k, mv
  <1>7. RecordStart \in Seq(Byte) /\ IsCat(RecordStart, mv, k)
    BY <1>4, <1>5, <1>6, CatIs
  <1>8. Len(mv) = 12 /\ (\A j \in 1 .. 4 : mv[j] = Magic[j]) /\ \A j \in 1 .. 8 : mv[4 + j] = v[j]
    BY <1>1, <1>4, <1>6 DEF IsCat
  <1>9. /\ Len(RecordStart) = 14 /\ (\A j \in 1 .. 12 : RecordStart[j] = mv[j])
        /\ \A j \in 1 .. 2 : RecordStart[12 + j] = k[j]
    BY <1>4, <1>7, <1>8 DEF IsCat
  <1>10. RecordStart[1] = Magic[1]
    BY <1>8, <1>9
  <1>11. ASSUME NEW j \in 2 .. 14 PROVE RecordStart[j] # RecordStart[1]
    <2>1. CASE j <= 4
      <3>1. RecordStart[j] = Magic[j]
        BY <1>8, <1>9, <2>1
      <3>2. j = 2 \/ j = 3 \/ j = 4
        BY <2>1
      <3> QED BY <1>1, <1>10, <3>1, <3>2
    <2>2. CASE j \in 5 .. 12
      <3>1. j - 4 \in 1 .. 8 /\ 4 + (j - 4) = j
        BY <2>2
      <3>2. RecordStart[j] = v[j - 4]
        BY <1>8, <1>9, <2>2, <3>1
      <3> QED BY <1>1, <1>4, <1>10, <3>1, <3>2
    <2>3. CASE j \in 13 .. 14
      <3>1. j - 12 \in 1 .. 2 /\ 12 + (j - 12) = j
        BY <2>3
      <3>2. RecordStart[j] = k[j - 12]
        BY <1>9, <3>1
      <3> QED BY <1>1, <1>4, <1>10, <3>1, <3>2
    <2> QED BY <2>1, <2>2, <2>3
  <1>12. \A j \in 1 .. 14 : RecordStart[j] \in Byte
    BY <1>7, <1>9, SeqElement
  <1> QED BY <1>7, <1>9, <1>11, <1>12, Zenon

\* The bytes of a record: what they are, and where a digest is among them.
LEMMA PlainIs ==
    ASSUME NEW bytes \in Seq(Byte)
    PROVE  /\ Plain(bytes) \in Seq(Cell) /\ Len(Plain(bytes)) = Len(bytes)
           /\ \A j \in 1 .. Len(bytes) :
                 Plain(bytes)[j].byte = bytes[j] /\ Plain(bytes)[j].digest_of = <<>>
  <1> DEFINE none == <<>>
             cell(j) == [byte |-> bytes[j], digest_of |-> none]
             n == Len(bytes)
  <1>1. none \in Seq(Seq(Byte))
    OBVIOUS
  <1>2. n \in Nat /\ DOMAIN bytes = 1 .. n /\ \A j \in 1 .. n : bytes[j] \in Byte
    BY SeqElement
  <1>3. Plain(bytes) = [j \in DOMAIN bytes |-> cell(j)]
    BY Zenon DEF Plain
  <1> HIDE DEF none, n
  <1>4. \A j \in 1 .. n : cell(j) \in Cell /\ cell(j).byte = bytes[j] /\ cell(j).digest_of = none
    BY <1>1, <1>2 DEF Cell
  <1> HIDE DEF cell
  <1>5. Plain(bytes) = [j \in 1 .. n |-> cell(j)]
    BY <1>2, <1>3
  <1>6. Plain(bytes) \in Seq(Cell) /\ Len(Plain(bytes)) = n
    BY <1>2, <1>4, <1>5
  <1>7. \A j \in 1 .. n : Plain(bytes)[j].byte = bytes[j] /\ Plain(bytes)[j].digest_of = none
    BY <1>4, <1>5
  <1> QED BY <1>6, <1>7, Zenon DEF none, n

LEMMA DigestIs ==
    ASSUME NEW bytes \in Seq(Byte)
    PROVE  /\ sha256(bytes) \in Seq(Cell) /\ Len(sha256(bytes)) = HashLen
           /\ \A j \in 1 .. HashLen :
                 /\ sha256(bytes)[j].byte = j % Base
                 /\ sha256(bytes)[j].digest_of = <<bytes>>
  <1> DEFINE one == <<bytes>>
             cell(j) == [byte |-> j % Base, digest_of |-> one]
  <1>1. one \in Seq(Seq(Byte))
    OBVIOUS
  <1>2. sha256(bytes) = [j \in 1 .. HashLen |-> cell(j)]
    BY Zenon DEF sha256
  <1> HIDE DEF one
  <1>3. HashLen \in Nat /\ \A j \in 1 .. HashLen : j % Base \in Byte
    BY LogFormatAssumption DEF Byte
  <1>4. \A j \in 1 .. HashLen : cell(j) \in Cell /\ cell(j).byte = j % Base /\ cell(j).digest_of = one
    BY <1>1, <1>3 DEF Cell
  <1> HIDE DEF cell
  <1>5. sha256(bytes) \in Seq(Cell) /\ Len(sha256(bytes)) = HashLen
    BY <1>2, <1>3, <1>4
  <1>6. \A j \in 1 .. HashLen : sha256(bytes)[j].byte = j % Base /\ sha256(bytes)[j].digest_of = one
    BY <1>2, <1>4
  <1> QED BY <1>5, <1>6, Zenon DEF one

\* The bytes in front of the digest of a block's record.
SizeBytes(block) == write_le_value(Len(serialize(block)), 8)
Undigested(block) == RecordStart \o SizeBytes(block) \o serialize(block)
LEMMA FrontIs ==
    ASSUME NEW block \in Written, NEW L, L = Len(serialize(block))
    PROVE  /\ serialize(block) \in Seq(Byte) /\ L \in Nat /\ L < Weight[4] /\ L < Weight[8]
           /\ Undigested(block) \in Seq(Byte) /\ Len(Undigested(block)) = 22 + L
           /\ \A j \in 1 .. 14 : Undigested(block)[j] = RecordStart[j]
           /\ \A j \in 1 .. 8 : Undigested(block)[14 + j] = SizeBytes(block)[j]
           /\ SizeBytes(block) = write_le_value(L, 8)
           /\ \A j \in 1 .. L : Undigested(block)[22 + j] = serialize(block)[j]
  <1> DEFINE p == serialize(block)
             size == write_le_value(L, 8)
             rs == RecordStart \o size
  <1>1. p \in Seq(Byte) /\ L \in Nat
    BY BlockRound
  <1>2. L < Weight[4]
    BY WrittenAssumption
  <1>3. L < Weight[8]
    <2>1. /\ Weight[4] < Weight[4 + 1] /\ Weight[5] < Weight[5 + 1] /\ Weight[6] < Weight[6 + 1]
          /\ Weight[7] < Weight[7 + 1] /\ Weight[4] \in Nat /\ Weight[5] \in Nat
          /\ Weight[6] \in Nat /\ Weight[7] \in Nat /\ Weight[8] \in Nat
      BY WeightGrows
    <2> QED BY <1>1, <1>2, <2>1
  <1>4. size \in Seq(Byte) /\ Len(size) = 8
    BY <1>1, <1>3, LeRound
  <1>s. SizeBytes(block) = size
    BY DEF SizeBytes
  <1>5. Undigested(block) = rs \o p
    BY <1>s DEF Undigested
  <1>6. rs \in Seq(Byte) /\ IsCat(rs, RecordStart, size)
    BY <1>4, StartIs, CatIs
  <1> HIDE DEF rs, p
  <1>7. Undigested(block) \in Seq(Byte) /\ IsCat(Undigested(block), rs, p)
    BY <1>1, <1>5, <1>6, CatIs
  <1> HIDE DEF size
  <1>8. /\ Len(rs) = 22 /\ (\A j \in 1 .. 14 : rs[j] = RecordStart[j])
        /\ \A j \in 1 .. 8 : rs[14 + j] = size[j]
    BY <1>4, <1>6, StartIs DEF IsCat
  <1>9. /\ Len(Undigested(block)) = 22 + L /\ (\A j \in 1 .. 22 : Undigested(block)[j] = rs[j])
        /\ \A j \in 1 .. L : Undigested(block)[22 + j] = p[j]
    BY <1>1, <1>7, <1>8 DEF IsCat, p
  <1>10. \A j \in 1 .. 14 : Undigested(block)[j] = RecordStart[j]
    BY <1>8, <1>9, SMTT(30)
  <1>11. \A j \in 1 .. 8 : Undigested(block)[14 + j] = SizeBytes(block)[j]
    BY <1>8, <1>9, <1>s, SMTT(30)
  <1> QED BY <1>1, <1>2, <1>3, <1>7, <1>9, <1>10, <1>11, <1>s, Zenon DEF p, size

LEMMA RecordIs ==
    ASSUME NEW block \in Written, NEW L, L = Len(serialize(block))
    PROVE  /\ record(block) \in Seq(Cell) /\ Len(record(block)) = 22 + L + HashLen
           /\ \A j \in 1 .. 22 + L :
                 /\ record(block)[j].byte = Undigested(block)[j]
                 /\ record(block)[j].digest_of = <<>>
           /\ \A j \in 1 .. HashLen : record(block)[22 + L + j] = sha256(serialize(block))[j]
  <1> DEFINE front == Undigested(block)
             plain == Plain(front)
             digest == sha256(serialize(block))
             r == record(block)
             none == <<>>
  <1>1. r = plain \o digest
    BY DEF record, Undigested, SizeBytes
  <1>2. /\ serialize(block) \in Seq(Byte) /\ L \in Nat /\ front \in Seq(Byte)
        /\ Len(front) = 22 + L
    BY FrontIs
  <1> HIDE DEF none, front
  <1>3. /\ plain \in Seq(Cell) /\ Len(plain) = 22 + L
        /\ \A j \in 1 .. 22 + L : plain[j].byte = front[j] /\ plain[j].digest_of = none
    BY <1>2, PlainIs, Zenon DEF none
  <1>4. digest \in Seq(Cell) /\ Len(digest) = HashLen
    BY <1>2, DigestIs
  <1> HIDE DEF plain, digest
  <1>5. plain \o digest \in Seq(Cell) /\ IsCat(plain \o digest, plain, digest)
    BY <1>3, <1>4, CatIs
  <1> HIDE DEF r
  <1>6. /\ r \in Seq(Cell) /\ Len(r) = 22 + L + HashLen
        /\ (\A j \in 1 .. 22 + L : r[j] = plain[j])
        /\ \A j \in 1 .. HashLen : r[22 + L + j] = digest[j]
    BY <1>1, <1>3, <1>4, <1>5 DEF IsCat
  <1>7. \A j \in 1 .. 22 + L : r[j].byte = front[j] /\ r[j].digest_of = none
    BY <1>3, <1>6, Zenon
  <1> QED BY <1>6, <1>7, Zenon DEF none, r, front, digest

\* A record begins with the first byte of the magic number.
LEMMA RecordBegins == \A b \in Written : record(b)[1].byte = RecordStart[1]
  <1>1. SUFFICES ASSUME NEW b \in Written PROVE record(b)[1].byte = RecordStart[1]
    OBVIOUS
  <1> DEFINE L == Len(serialize(b))
  <1>2. L \in Nat
    BY FrontIs
  <1>3. \A j \in 1 .. 14 : Undigested(b)[j] = RecordStart[j]
    BY FrontIs
  <1>4. \A j \in 1 .. 22 + L : record(b)[j].byte = Undigested(b)[j]
    BY RecordIs
  <1> HIDE DEF L
  <1>5. 1 \in 1 .. 14 /\ 1 \in 1 .. 22 + L
    BY <1>2
  <1> QED BY <1>3, <1>4, <1>5, Zenon

\* Bytes that make up a number below Weight[n] are the ones it is written as.
LEMMA LeSame ==
    ASSUME NEW s \in Seq(Byte), NEW t \in Seq(Byte), Len(s) = Len(t), le_value(s) = le_value(t)
    PROVE  s = t
  <1> DEFINE n == Len(s)
  <1>0. n \in Nat /\ n = Len(t) /\ \A i \in 1 .. n : s[i] \in Byte /\ t[i] \in Byte
    BY SeqElement
  <1>1. PICK f \in [0 .. n -> Nat] : Sums(f, s) /\ le_value(s) = f[n]
    BY LeIs
  <1>2. PICK g \in [0 .. n -> Nat] : Sums(g, t) /\ le_value(t) = g[n]
    BY LeIs
  <1> HIDE DEF n
  <1>3. \A i \in Nat : Weight[i] \in Nat /\ Weight[i] > 0
    BY WeightIs
  <1>4. /\ f[0] = 0 /\ \A i \in 1 .. n : f[i] = f[i - 1] + s[i] * Weight[i - 1]
        /\ g[0] = 0 /\ \A i \in 1 .. n : g[i] = g[i - 1] + t[i] * Weight[i - 1]
    BY <1>0, <1>1, <1>2 DEF Sums, n
  <1> DEFINE Below == {i \in 0 .. n : f[i] < Weight[i] /\ g[i] < Weight[i]}
  <1>5. 0 .. n \subseteq Below
    <2>1. 0 \in Below
      BY <1>0, <1>3, <1>4
    <2>2. ASSUME NEW i \in 0 .. n - 1, i \in Below PROVE i + 1 \in Below
      <3>1. i + 1 \in 1 .. n /\ (i + 1) - 1 = i /\ i \in Nat /\ i + 1 \in Nat \ {0}
        BY <1>0
      <3>2. Weight[i + 1] = Base * Weight[i]
        BY <3>1, WeightIs
      <3>3. /\ s[i + 1] \in Nat /\ s[i + 1] < Base /\ t[i + 1] \in Nat /\ t[i + 1] < Base
            /\ Base \in Nat
        BY <1>0, <3>1, LogFormatAssumption, SMTT(30) DEF Byte
      <3>4. \A w, x, d, b \in Nat : x < w /\ d < b => x + d * w < b * w
        <4>1. \A w, d, b \in Nat : d < b => d * w + w <= b * w
          <5>1. ASSUME NEW w \in Nat, NEW d \in Nat, NEW b \in Nat, d < b
                PROVE  d * w + w <= b * w
            <6>1. PICK c \in Nat : b = d + 1 + c
              <7>1. b - d - 1 \in Nat /\ b = d + 1 + (b - d - 1)
                BY <5>1
              <7> QED BY <7>1
            <6>2. (d + 1 + c) * w = d * w + w + c * w /\ c * w \in Nat
              OBVIOUS
            <6> QED BY <6>1, <6>2
          <5> QED BY <5>1
        <4>2. ASSUME NEW w \in Nat, NEW x \in Nat, NEW d \in Nat, NEW b \in Nat, x < w, d < b
              PROVE  x + d * w < b * w
          <5>1. d * w \in Nat /\ b * w \in Nat /\ d * w + w <= b * w
            BY <4>1, <4>2
          <5> QED BY <4>2, <5>1
        <4> QED BY <4>2
      <3>5. f[i] \in Nat /\ g[i] \in Nat /\ f[i] < Weight[i] /\ g[i] < Weight[i] /\ Weight[i] \in Nat
        BY <1>3, <2>2, <3>1
      <3>6. f[i + 1] = f[i] + s[i + 1] * Weight[i] /\ g[i + 1] = g[i] + t[i + 1] * Weight[i]
        BY <1>4, <3>1
      <3>7. f[i + 1] < Base * Weight[i] /\ g[i + 1] < Base * Weight[i]
        BY <3>3, <3>4, <3>5, <3>6
      <3> QED BY <1>0, <3>1, <3>2, <3>7
    <2> HIDE DEF Below
    <2> QED BY <1>0, <2>1, <2>2, BoundedInduction
  <1>6. \A w, x, y, d, e \in Nat : x < w /\ y < w /\ x + d * w = y + e * w => x = y /\ d = e
    <2>1. ASSUME NEW w \in Nat, NEW x \in Nat, NEW y \in Nat, NEW d \in Nat, NEW e \in Nat,
                 x < w, y < w, x + d * w = y + e * w
          PROVE  ~(d < e)
      <3>1. SUFFICES ASSUME d < e PROVE FALSE
        OBVIOUS
      <3>2. PICK c \in Nat : e = d + 1 + c
        <4>1. e - d - 1 \in Nat /\ e = d + 1 + (e - d - 1)
          BY <3>1
        <4> QED BY <4>1
      <3>3. (d + 1 + c) * w = d * w + w + c * w /\ c * w \in Nat /\ d * w \in Nat
        OBVIOUS
      <3>4. e * w = d * w + w + c * w
        BY <3>2, <3>3
      <3> QED BY <2>1, <3>3, <3>4
    <2>2. ASSUME NEW w \in Nat, NEW x \in Nat, NEW y \in Nat, NEW d \in Nat, NEW e \in Nat,
                 x < w, y < w, x + d * w = y + e * w
          PROVE  x = y /\ d = e
      <3>1. ~(d < e) /\ ~(e < d)
        BY <2>1, <2>2
      <3>2. d = e
        BY <3>1
      <3>3. d * w \in Nat
        OBVIOUS
      <3> QED BY <2>2, <3>2, <3>3
    <2> QED BY <2>2
  <1> DEFINE Same == {i \in 0 .. n : f[n - i] = g[n - i]
                                      /\ \A j \in 1 .. n : j > n - i => s[j] = t[j]}
  <1>7. 0 \in Same
    <2>1. 0 \in 0 .. n /\ n - 0 = n /\ \A j \in 1 .. n : ~(j > n)
      BY <1>0
    <2>2. f[n] = g[n]
      BY <1>1, <1>2
    <2> QED BY <2>1, <2>2
  <1>8. ASSUME NEW i \in 0 .. n - 1, i \in Same PROVE i + 1 \in Same
    <2> DEFINE m == n - i
    <2>1. /\ m \in 1 .. n /\ m - 1 \in 0 .. n /\ n - (i + 1) = m - 1 /\ i + 1 \in 0 .. n
          /\ m - 1 \in Nat
      BY <1>0
    <2>2. f[m] = g[m] /\ \A j \in 1 .. n : j > m => s[j] = t[j]
      BY <1>8
    <2> HIDE DEF m
    <2>3. f[m - 1] + s[m] * Weight[m - 1] = g[m - 1] + t[m] * Weight[m - 1]
      BY <1>4, <2>1, <2>2
    <2>4. f[m - 1] < Weight[m - 1] /\ g[m - 1] < Weight[m - 1]
      BY <1>5, <2>1
    <2>5. /\ f[m - 1] \in Nat /\ g[m - 1] \in Nat /\ Weight[m - 1] \in Nat
          /\ s[m] \in Nat /\ t[m] \in Nat
      <3>1. Byte \subseteq Nat
        BY LogFormatAssumption DEF Byte
      <3>2. s[m] \in Byte /\ t[m] \in Byte
        BY <1>0, <2>1, Zenon
      <3>3. f[m - 1] \in Nat /\ g[m - 1] \in Nat /\ Weight[m - 1] \in Nat
        BY <1>3, <2>1
      <3> QED BY <3>1, <3>2, <3>3, Zenon
    <2>6. f[m - 1] = g[m - 1] /\ s[m] = t[m]
      <3> DEFINE w == Weight[m - 1]
                 x == f[m - 1]
                 y == g[m - 1]
                 d == s[m]
                 e == t[m]
      <3>1. /\ w \in Nat /\ x \in Nat /\ y \in Nat /\ d \in Nat /\ e \in Nat
            /\ x < w /\ y < w /\ x + d * w = y + e * w
        BY <2>3, <2>4, <2>5, Zenon
      <3> HIDE DEF w, x, y, d, e
      <3>2. x = y /\ d = e
        BY <1>6, <3>1
      <3> QED BY <3>2, Zenon DEF x, y, d, e
    <2>7. \A j \in 1 .. n : j > m - 1 => s[j] = t[j]
      <3>1. \A j \in 1 .. n : j > m - 1 => j > m \/ j = m
        BY <1>0, <2>1
      <3> QED BY <2>2, <2>6, <3>1
    <2> QED BY <2>1, <2>6, <2>7
  <1> HIDE DEF Same
  <1>9. 0 .. n \subseteq Same
    BY <1>0, <1>7, <1>8, BoundedInduction
  <1>10. \A j \in 1 .. n : s[j] = t[j]
    BY <1>0, <1>9, SMTT(30) DEF Same
  <1> QED BY <1>10, SameSeq DEF n

\* A part of the file and its bytes.
LEMMA PartOfFile ==
    ASSUME NEW f \in Seq(Cell), NEW a \in Nat, NEW b \in Nat, a <= b, b <= Len(f)
    PROVE  /\ SubSeq(f, a + 1, b) \in Seq(Cell) /\ Len(SubSeq(f, a + 1, b)) = b - a
           /\ \A j \in 1 .. b - a : SubSeq(f, a + 1, b)[j] = f[a + j]
           /\ Bytes(SubSeq(f, a + 1, b)) \in Seq(Byte) /\ Len(Bytes(SubSeq(f, a + 1, b))) = b - a
           /\ \A j \in 1 .. b - a : Bytes(SubSeq(f, a + 1, b))[j] = f[a + j].byte
  <1> DEFINE sub == SubSeq(f, a + 1, b)
  <1>1. sub \in Seq(Cell) /\ Len(sub) = b - a
    OBVIOUS
  <1>2. ASSUME NEW j \in 1 .. b - a PROVE sub[j] = f[a + j]
    <2>1. sub[j] = f[a + 1 + j - 1] /\ a + 1 + j - 1 = a + j
      OBVIOUS
    <2> QED BY <2>1
  <1> HIDE DEF sub
  <1>3. b - a \in Nat /\ DOMAIN sub = 1 .. b - a /\ \A j \in 1 .. b - a : sub[j].byte \in Byte
    <2>1. b - a \in Nat
      OBVIOUS
    <2>2. DOMAIN sub = 1 .. b - a /\ \A j \in 1 .. b - a : sub[j] \in Cell
      BY <1>1, SeqElement
    <2>3. \A c \in Cell : c.byte \in Byte
      BY DEF Cell
    <2> QED BY <2>1, <2>2, <2>3, Zenon
  <1>4. Bytes(sub) = [j \in 1 .. b - a |-> sub[j].byte]
    BY <1>3 DEF Bytes
  <1>5. Bytes(sub) \in Seq(Byte) /\ Len(Bytes(sub)) = b - a
    BY <1>3, <1>4
  <1>6. \A j \in 1 .. b - a : Bytes(sub)[j] = f[a + j].byte
    BY <1>2, <1>4
  <1> QED BY <1>1, <1>2, <1>5, <1>6, Zenon DEF sub

AreBytes(s, f, a, m) ==
    s \in Seq(Byte) /\ Len(s) = m /\ \A j \in 1 .. m : s[j] = f[a + j].byte
LEMMA BytesOfFile ==
    ASSUME NEW f \in Seq(Cell), NEW a \in Nat, NEW m \in Nat, a + m <= Len(f)
    PROVE  AreBytes(Bytes(SubSeq(f, a + 1, a + m)), f, a, m)
  <1> DEFINE b == a + m
             s == Bytes(SubSeq(f, a + 1, a + m))
  <1>1. b \in Nat /\ a <= b /\ b <= Len(f) /\ b - a = m
    OBVIOUS
  <1> HIDE DEF b
  <1>2. /\ Bytes(SubSeq(f, a + 1, b)) \in Seq(Byte) /\ Len(Bytes(SubSeq(f, a + 1, b))) = b - a
        /\ \A j \in 1 .. b - a : Bytes(SubSeq(f, a + 1, b))[j] = f[a + j].byte
    BY <1>1, PartOfFile
  <1>3. s = Bytes(SubSeq(f, a + 1, b))
    BY DEF b
  <1> HIDE DEF s
  <1>4. AreBytes(s, f, a, m)
    BY <1>1, <1>2, <1>3 DEF AreBytes
  <1> QED BY <1>4 DEF s

-----------------------------------------------------------------------------
(* The file as pieces of records.  Piece i lies behind the first at[i - 1] *)
(* bytes of the file and ends with byte at[i]; it is the record of bl[i],  *)
(* or the beginning of it, and its first good[i] bytes are right.          *)

Marks(at, n) == at \in [0 .. n -> Nat] /\ at[0] = 0 /\ \A i \in 1 .. n : at[i - 1] < at[i]

LEMMA MarksGrow ==
    ASSUME NEW n \in Nat, NEW at, Marks(at, n)
    PROVE  \A i, j \in 0 .. n : i < j => at[i] < at[j]
  <1> DEFINE T == {j \in 0 .. n : \A i \in 0 .. n : i < j => at[i] < at[j]}
  <1>1. 0 \in T
    OBVIOUS
  <1>2. ASSUME NEW j \in 0 .. n - 1, j \in T PROVE j + 1 \in T
    <2>1. j + 1 \in 1 .. n /\ (j + 1) - 1 = j /\ j \in 0 .. n
      OBVIOUS
    <2>2. at[j] < at[j + 1]
      BY <2>1 DEF Marks
    <2>3. \A i \in 0 .. n : at[i] \in Nat
      BY DEF Marks
    <2>4. ASSUME NEW i \in 0 .. n, i < j + 1 PROVE at[i] < at[j + 1]
      <3>1. i = j \/ i < j
        BY <2>4
      <3>2. j + 1 \in 0 .. n
        OBVIOUS
      <3>3. i < j => at[i] < at[j]
        BY <1>2
      <3> QED BY <2>1, <2>2, <2>3, <3>1, <3>2, <3>3
    <2> QED BY <2>1, <2>4
  <1> HIDE DEF T
  <1>3. 0 .. n \subseteq T
    BY <1>1, <1>2, BoundedInduction
  <1> QED BY <1>3 DEF T

LEMMA MarksLocate ==
    ASSUME NEW n \in Nat, NEW at, Marks(at, n), NEW q \in 1 .. at[n]
    PROVE  \E i \in 1 .. n : at[i - 1] < q /\ q <= at[i]
  <1> DEFINE T == {m \in 0 .. n : q <= at[m] => \E i \in 1 .. n : at[i - 1] < q /\ q <= at[i]}
  <1>0. (\A i \in 0 .. n : at[i] \in Nat) /\ at[0] = 0 /\ q \in Nat /\ q >= 1 /\ q <= at[n]
    BY DEF Marks
  <1>1. 0 \in T
    BY <1>0
  <1>2. ASSUME NEW m \in 0 .. n - 1, m \in T PROVE m + 1 \in T
    <2>1. m + 1 \in 1 .. n /\ (m + 1) - 1 = m /\ m \in 0 .. n
      OBVIOUS
    <2>2. CASE q <= at[m]
      BY <1>2, <2>1, <2>2
    <2>3. CASE ~(q <= at[m])
      <3>1. at[m] < q
        BY <1>0, <2>1, <2>3
      <3> QED BY <2>1, <3>1
    <2> QED BY <2>2, <2>3
  <1> HIDE DEF T
  <1>3. 0 .. n \subseteq T
    BY <1>1, <1>2, BoundedInduction
  <1>4. n \in T
    BY <1>3
  <1> QED BY <1>0, <1>4 DEF T

ItemOf(b, g) == IF g = Len(record(b)) THEN Record(b) ELSE CutAt(g)
Changed(dmg) == \E d \in 1 .. Len(dmg) : dmg[d] = "changed"

Piece(f, its, dmg, i, from, to, b, g) ==
    /\ from < to /\ to - from <= Len(record(b)) /\ g <= to - from
    /\ \A j \in 1 .. to - from : f[from + j].digest_of = record(b)[j].digest_of
    /\ \A j \in 1 .. g : f[from + j].byte = record(b)[j].byte
    /\ g < to - from =>
          /\ to - from = Len(record(b)) /\ f[from + (g + 1)].byte # record(b)[g + 1].byte
          /\ Changed(dmg) /\ \A j \in 1 .. i - 1 : its[j].end = "check"
    /\ its[i] = ItemOf(b, g)

Layout(f, its, dmg, at, bl, good) ==
    /\ bl \in [1 .. Len(its) -> Written] /\ good \in [1 .. Len(its) -> Nat]
    /\ Marks(at, Len(its)) /\ at[Len(its)] = Len(f)
    /\ \A i \in 1 .. Len(its) : Piece(f, its, dmg, i, at[i - 1], at[i], bl[i], good[i])
    /\ Len(dmg) = 0 => \A i \in 1 .. Len(its) : good[i] = Len(record(bl[i]))

Item == Fragment \cup {Record(b) : b \in Written}
Harm == {"cut", "changed"}

\* A record, or the beginning of one, behind the file is one more piece.
LEMMA LayoutAppend ==
    ASSUME NEW f \in Seq(Cell), NEW its \in Seq(Item), NEW dmg, NEW dmg2,
           NEW at, NEW bl, NEW good, Layout(f, its, dmg, at, bl, good),
           NEW b \in Written, NEW part \in Seq(Cell), NEW item,
           Len(part) \in 1 .. Len(record(b)),
           \A j \in 1 .. Len(part) : part[j] = record(b)[j],
           item = ItemOf(b, Len(part)), item \in Item,
           Changed(dmg) => Changed(dmg2),
           Len(dmg2) = 0 => Len(dmg) = 0 /\ Len(part) = Len(record(b))
    PROVE  \E at2, bl2, good2 : Layout(f \o part, Append(its, item), dmg2, at2, bl2, good2)
  <1> DEFINE n == Len(its)
             m == Len(part)
             f2 == f \o part
             its2 == Append(its, item)
             at2 == [i \in 0 .. n + 1 |-> IF i = n + 1 THEN Len(f) + m ELSE at[i]]
             bl2 == [i \in 1 .. n + 1 |-> IF i = n + 1 THEN b ELSE bl[i]]
             good2 == [i \in 1 .. n + 1 |-> IF i = n + 1 THEN m ELSE good[i]]
  <1>1. n \in Nat /\ m \in Nat /\ m >= 1 /\ Len(f) \in Nat
    BY SeqElement
  <1>2. /\ its2 \in Seq(Item) /\ Len(its2) = n + 1 /\ its2[n + 1] = item
        /\ \A i \in 1 .. n : its2[i] = its[i]
    OBVIOUS
  <1>3. f2 \in Seq(Cell) /\ IsCat(f2, f, part)
    BY CatIs
  <1> HIDE DEF f2, its2
  <1>4. /\ Len(f2) = Len(f) + m /\ (\A j \in 1 .. Len(f) : f2[j] = f[j])
        /\ \A j \in 1 .. m : f2[Len(f) + j] = part[j]
    BY <1>3 DEF IsCat
  <1>5. /\ Marks(at, n) /\ at[n] = Len(f) /\ bl \in [1 .. n -> Written] /\ good \in [1 .. n -> Nat]
        /\ \A i \in 1 .. n : Piece(f, its, dmg, i, at[i - 1], at[i], bl[i], good[i])
    BY DEF Layout
  <1> HIDE DEF n, m
  <1>6. \A i \in 0 .. n : at[i] \in Nat /\ at[i] <= Len(f)
    <2>1. \A i, j \in 0 .. n : i < j => at[i] < at[j]
      BY <1>1, <1>5, MarksGrow
    <2>2. \A i \in 0 .. n : at[i] \in Nat
      BY <1>5 DEF Marks
    <2>3. \A i \in 0 .. n : n \in 0 .. n /\ (i < n \/ i = n)
      BY <1>1
    <2>4. ASSUME NEW i \in 0 .. n PROVE at[i] <= Len(f)
      <3>1. i < n => at[i] < at[n]
        BY <2>1, <2>3
      <3> QED BY <1>1, <1>5, <2>2, <2>3, <3>1
    <2> QED BY <2>2, <2>4
  <1>7. /\ at2[n + 1] = Len(f) + m /\ bl2[n + 1] = b /\ good2[n + 1] = m
        /\ (\A i \in 0 .. n : at2[i] = at[i])
        /\ \A i \in 1 .. n : at2[i] = at[i] /\ at2[i - 1] = at[i - 1]
                             /\ bl2[i] = bl[i] /\ good2[i] = good[i]
    BY <1>1
  <1>8. bl2 \in [1 .. n + 1 -> Written] /\ good2 \in [1 .. n + 1 -> Nat]
    BY <1>1, <1>5
  <1>9. at2 \in [0 .. n + 1 -> Nat]
    BY <1>1, <1>6
  <1> HIDE DEF at2, bl2, good2
  <1>10. Marks(at2, n + 1)
    <2>1. at2[0] = 0
      BY <1>1, <1>5, <1>7 DEF Marks
    <2>2. ASSUME NEW i \in 1 .. n + 1 PROVE at2[i - 1] < at2[i]
      <3>1. CASE i = n + 1
        BY <1>1, <1>5, <1>7, <3>1
      <3>2. CASE i \in 1 .. n
        BY <1>5, <1>7, <3>2 DEF Marks
      <3> QED BY <1>1, <3>1, <3>2
    <2> QED BY <1>9, <2>1, <2>2 DEF Marks
  <1>11. ASSUME NEW i \in 1 .. n
         PROVE  Piece(f2, its2, dmg2, i, at2[i - 1], at2[i], bl2[i], good2[i])
    <2> DEFINE from == at[i - 1]
               to == at[i]
               c == bl[i]
               g == good[i]
    <2>1. Piece(f, its, dmg, i, from, to, c, g)
      BY <1>5
    <2>2. /\ at2[i - 1] = from /\ at2[i] = to /\ bl2[i] = c /\ good2[i] = g
          /\ from \in Nat /\ to \in Nat /\ to <= Len(f) /\ g \in Nat
      BY <1>1, <1>5, <1>6, <1>7
    <2> HIDE DEF from, to, c, g
    <2>3. \A j \in 1 .. to - from : f2[from + j] = f[from + j]
      BY <1>1, <1>4, <2>2, SMTT(30)
    <2>4. from < to /\ to - from <= Len(record(c)) /\ g <= to - from
      BY <2>1 DEF Piece
    <2>5. \A j \in 1 .. to - from : f2[from + j].digest_of = record(c)[j].digest_of
      BY <2>1, <2>3 DEF Piece
    <2>6. \A j \in 1 .. g : f2[from + j].byte = record(c)[j].byte
      <3>1. \A j \in 1 .. g : j \in 1 .. to - from
        BY <2>2, <2>4
      <3> QED BY <2>1, <2>3, <3>1 DEF Piece
    <2>7. g < to - from =>
            /\ to - from = Len(record(c)) /\ f2[from + (g + 1)].byte # record(c)[g + 1].byte
            /\ Changed(dmg2) /\ \A j \in 1 .. i - 1 : its2[j].end = "check"
      <3>1. SUFFICES ASSUME g < to - from
                     PROVE  /\ to - from = Len(record(c))
                            /\ f2[from + (g + 1)].byte # record(c)[g + 1].byte
                            /\ Changed(dmg2) /\ \A j \in 1 .. i - 1 : its2[j].end = "check"
        OBVIOUS
      <3>2. /\ to - from = Len(record(c)) /\ f[from + (g + 1)].byte # record(c)[g + 1].byte
            /\ Changed(dmg) /\ \A j \in 1 .. i - 1 : its[j].end = "check"
        BY <2>1, <3>1 DEF Piece
      <3>3. g + 1 \in 1 .. to - from
        BY <2>2, <3>1
      <3>4. f2[from + (g + 1)] = f[from + (g + 1)]
        BY <2>3, <3>3
      <3>5. \A j \in 1 .. i - 1 : its2[j] = its[j]
        BY <1>1, <1>2
      <3> QED BY <3>2, <3>4, <3>5
    <2>8. its2[i] = ItemOf(c, g)
      BY <1>2, <2>1 DEF Piece
    <2>9. Piece(f2, its2, dmg2, i, from, to, c, g)
      BY <2>4, <2>5, <2>6, <2>7, <2>8, Zenon DEF Piece
    <2> QED BY <2>2, <2>9
  <1>12. Piece(f2, its2, dmg2, n + 1, at2[n], at2[n + 1], bl2[n + 1], good2[n + 1])
    <2> DEFINE from == Len(f)
               to == Len(f) + m
    <2>1. at2[n] = from /\ at2[n + 1] = to /\ from \in Nat /\ to \in Nat /\ to - from = m
      BY <1>1, <1>5, <1>7
    <2>2. /\ from < to /\ to - from <= Len(record(b)) /\ m <= to - from /\ ~(m < to - from)
          /\ m \in 1 .. Len(record(b))
      BY <1>1, <2>1 DEF m
    <2>3. \A j \in 1 .. m : f2[from + j] = record(b)[j]
      BY <1>4 DEF m
    <2>4. its2[n + 1] = ItemOf(b, m)
      BY <1>2 DEF m
    <2> HIDE DEF from, to
    <2>5. Piece(f2, its2, dmg2, n + 1, from, to, b, m)
      BY <2>1, <2>2, <2>3, <2>4 DEF Piece
    <2> QED BY <1>7, <2>1, <2>5
  <1>13. ASSUME NEW i \in 1 .. n + 1
         PROVE  Piece(f2, its2, dmg2, i, at2[i - 1], at2[i], bl2[i], good2[i])
    <2>1. CASE i \in 1 .. n
      BY <1>11, <2>1
    <2>2. CASE i = n + 1
      <3>1. i - 1 = n
        BY <1>1, <2>2
      <3> QED BY <1>12, <2>2, <3>1
    <2> QED BY <1>1, <2>1, <2>2
  <1>14. Len(dmg2) = 0 => \A i \in 1 .. n + 1 : good2[i] = Len(record(bl2[i]))
    <2>1. SUFFICES ASSUME Len(dmg2) = 0 PROVE \A i \in 1 .. n + 1 : good2[i] = Len(record(bl2[i]))
      OBVIOUS
    <2>2. \A i \in 1 .. n : good[i] = Len(record(bl[i]))
      BY <2>1 DEF Layout, n
    <2>3. m = Len(record(b))
      BY <2>1 DEF m
    <2>4. \A i \in 1 .. n + 1 : i \in 1 .. n \/ i = n + 1
      BY <1>1
    <2> QED BY <1>7, <2>2, <2>3, <2>4
  <1>15. at2[n + 1] = Len(f2)
    BY <1>4, <1>7
  <1>16. Layout(f2, its2, dmg2, at2, bl2, good2)
    BY <1>2, <1>8, <1>10, <1>13, <1>14, <1>15 DEF Layout
  <1> QED BY <1>16 DEF f2, its2

\* The marks of records that are whole.
WholeMarks(at, bl, n) == \A i \in 1 .. n : at[i] - at[i - 1] = Len(record(bl[i]))

\* The records in front of one that is changed, laid end to end, end where its own begins.
LEMMA RecordsEnd ==
    ASSUME NEW n \in Nat, NEW at, NEW bl \in [1 .. n -> Written], Marks(at, n),
           WholeMarks(at, bl, n),
           NEW m \in 0 .. n, NEW recs, recs = [j \in 1 .. m |-> record(bl[j])]
    PROVE  Len(FlattenSeq(recs)) = at[m]
  <1>w. \A i \in 1 .. n : at[i] - at[i - 1] = Len(record(bl[i]))
    BY Zenon DEF WholeMarks
  <1>1. /\ recs \in Seq(Seq(Cell)) /\ Len(recs) = m
        /\ \A j \in 1 .. m : recs[j] = record(bl[j]) /\ recs[j] \in Seq(Cell)
    <2>1. m \in Nat /\ \A j \in 1 .. m : record(bl[j]) \in Seq(Cell)
      <3>1. \A j \in 1 .. m : bl[j] \in Written
        OBVIOUS
      <3>2. \A b \in Written : record(b) \in Seq(Cell)
        BY RecordIs
      <3> QED BY <3>1, <3>2
    <2>2. \A j \in 1 .. m : recs[j] = record(bl[j])
      OBVIOUS
    <2>3. recs \in [1 .. m -> Seq(Cell)]
      BY <2>1
    <2>4. recs \in Seq(Seq(Cell)) /\ Len(recs) = m
      BY <2>1, <2>3, FunIsSeq
    <2> QED BY <2>1, <2>2, <2>4
  <1>2. PICK f \in [0 .. m -> Seq(Cell)] : Concats(f, recs) /\ FlattenSeq(recs) = f[m]
    <2>1. \E f \in [0 .. Len(recs) -> Seq(Cell)] :
             Concats(f, recs) /\ FlattenSeq(recs) = f[Len(recs)]
      BY <1>1, FlattenIs, Zenon
    <2> QED BY <1>1, <2>1
  <1> DEFINE T == {i \in 0 .. m : Len(f[i]) = at[i]}
  <1>3. 0 \in T
    <2>1. f[0] = <<>>
      BY <1>2 DEF Concats
    <2>2. Len(<<>>) = 0
      OBVIOUS
    <2>3. Len(f[0]) = 0
      BY <2>1, <2>2, Zenon
    <2> QED BY <2>3 DEF Marks
  <1>4. ASSUME NEW i \in 0 .. m - 1, i \in T PROVE i + 1 \in T
    <2>1. i + 1 \in 1 .. m /\ (i + 1) - 1 = i /\ i + 1 \in 1 .. n /\ i \in 0 .. n /\ i \in 0 .. m
      OBVIOUS
    <2> DEFINE r == recs[i + 1]
    <2>2. f[i + 1] = f[i] \o r
      BY <1>1, <1>2, <2>1 DEF Concats
    <2>3. r \in Seq(Cell) /\ r = record(bl[i + 1]) /\ f[i] \in Seq(Cell)
      BY <1>1, <1>2, <2>1
    <2> HIDE DEF r
    <2>4. IsCat(f[i] \o r, f[i], r)
      BY <2>3, CatIs
    <2>5. Len(f[i + 1]) = Len(f[i]) + Len(r)
      BY <2>2, <2>4 DEF IsCat
    <2>6. at[i + 1] - at[i] = Len(r) /\ at[i] \in Nat /\ at[i + 1] \in Nat
      BY <1>w, <2>1, <2>3 DEF Marks
    <2>7. Len(f[i]) = at[i]
      BY <1>4
    <2>8. Len(f[i + 1]) = at[i + 1]
      <3>2. Len(r) \in Int
        BY <2>3, SeqElement
      <3>3. at[i] \in Int /\ at[i + 1] \in Int /\ at[i + 1] - at[i] = Len(r)
        BY <2>6, SMTT(30)
      <3> DEFINE a == at[i]
                 b == at[i + 1]
                 l == Len(r)
      <3>4. a \in Int /\ b \in Int /\ l \in Int /\ b - a = l
        BY <3>2, <3>3, Zenon
      <3> HIDE DEF a, b, l
      <3>5. a + l = b
        BY <3>4
      <3> QED BY <2>5, <2>7, <3>5, Zenon DEF a, b, l
    <2> QED BY <2>1, <2>8
  <1> HIDE DEF T
  <1>5. 0 .. m \subseteq T
    <2>1. m \in Nat
      OBVIOUS
    <2> QED BY <1>3, <1>4, <2>1, BoundedInduction
  <1>6. Len(f[m]) = at[m]
    BY <1>5 DEF T
  <1> QED BY <1>2, <1>6

\* The arithmetic of a place x within a piece.
LEMMA PastStart ==
    \A from, to, x \in Nat :
        x >= 1 /\ x <= to - from =>
            from + x \in Nat /\ from + x <= to /\ from + x > from
  OBVIOUS

\* f2 is f with another byte in place q.
ByteChanged(f, f2, q) ==
    /\ f2[q].byte # f[q].byte /\ f2[q].digest_of = f[q].digest_of
    /\ \A j \in 1 .. Len(f) : j # q => f2[j] = f[j]

\* A byte of a record changes in a file that is whole.
LEMMA LayoutChange ==
    ASSUME NEW f \in Seq(Cell), NEW its \in Seq(Item), NEW dmg,
           NEW at, NEW bl, NEW good, Layout(f, its, dmg, at, bl, good), Len(dmg) = 0,
           NEW i \in 1 .. Len(its), NEW x \in 1 .. Len(record(bl[i])), NEW f2 \in Seq(Cell),
           Len(f2) = Len(f), ByteChanged(f, f2, at[i - 1] + x),
           NEW dmg2, Changed(dmg2), Len(dmg2) # 0
    PROVE  \E good2 : Layout(f2, [its EXCEPT ![i] = CutAt(x - 1)], dmg2, at, bl, good2)
  <1> DEFINE n == Len(its)
             its2 == [its EXCEPT ![i] = CutAt(x - 1)]
             good2 == [good EXCEPT ![i] = x - 1]
             p == at[i - 1] + x
  <1>1. n \in Nat /\ Len(f) \in Nat /\ DOMAIN its = 1 .. n
    BY SeqElement
  <1>2. /\ Marks(at, n) /\ at[n] = Len(f) /\ bl \in [1 .. n -> Written] /\ good \in [1 .. n -> Nat]
        /\ \A k \in 1 .. n : Piece(f, its, dmg, k, at[k - 1], at[k], bl[k], good[k])
        /\ \A k \in 1 .. n : good[k] = Len(record(bl[k]))
    BY DEF Layout
  <1>3. its2[i] = CutAt(x - 1) /\ \A k \in 1 .. n : k # i => its2[k] = its[k]
    BY <1>1
  <1>4. Len(its2) = n
    BY <1>1
  <1>5. /\ good2 \in [1 .. n -> Nat] /\ good2[i] = x - 1 /\ x - 1 \in Nat
        /\ \A k \in 1 .. n : k # i => good2[k] = good[k]
    BY <1>1, <1>2
  <1>6. \A k \in 0 .. n : at[k] \in Nat
    BY <1>2 DEF Marks
  <1>7. \A k, l \in 0 .. n : k < l => at[k] < at[l]
    BY <1>1, <1>2, MarksGrow
  <1>u. \A k, l \in 0 .. n : k <= l => at[k] <= at[l]
    <2>1. ASSUME NEW k \in 0 .. n, NEW l \in 0 .. n, k <= l PROVE at[k] <= at[l]
      <3>1. k = l \/ k < l
        BY <1>1, <2>1
      <3>2. at[k] \in Nat /\ at[l] \in Nat /\ (k < l => at[k] < at[l])
        BY <1>6, <1>7, Zenon
      <3> QED BY <3>1, <3>2
    <2> QED BY <2>1
  <1>c. /\ f2[p].byte # f[p].byte /\ f2[p].digest_of = f[p].digest_of
        /\ \A j \in 1 .. Len(f) : j # p => f2[j] = f[j]
    BY Zenon DEF ByteChanged
  <1> HIDE DEF its2, good2, n
  <1>8. ASSUME NEW k \in 1 .. n PROVE Piece(f2, its2, dmg2, k, at[k - 1], at[k], bl[k], good2[k])
    <2> DEFINE from == at[k - 1]
               to == at[k]
               c == bl[k]
               r == record(c)
    <2>0. Piece(f, its, dmg, k, from, to, c, good[k]) /\ good[k] = Len(r)
      BY <1>2
    <2>1. /\ from \in Nat /\ to \in Nat /\ from < to /\ to - from = Len(r) /\ Len(r) \in Nat
          /\ (\A j \in 1 .. Len(r) : f[from + j].digest_of = r[j].digest_of)
          /\ (\A j \in 1 .. Len(r) : f[from + j].byte = r[j].byte)
          /\ its[k] = ItemOf(c, Len(r))
      <3>1. from \in Nat /\ to \in Nat /\ good[k] \in Nat
        BY <1>1, <1>2, <1>6
      <3>2. from < to /\ to - from <= Len(r) /\ good[k] <= to - from
        BY <2>0 DEF Piece
      <3>3. to - from = Len(r)
        BY <2>0, <3>1, <3>2
      <3>4. \A j \in 1 .. to - from : f[from + j].digest_of = r[j].digest_of
        BY <2>0 DEF Piece
      <3>5. \A j \in 1 .. good[k] : f[from + j].byte = r[j].byte
        BY <2>0 DEF Piece
      <3>6. its[k] = ItemOf(c, good[k])
        BY <2>0 DEF Piece
      <3> QED BY <2>0, <3>1, <3>2, <3>3, <3>4, <3>5, <3>6
    <2>2. to <= Len(f)
      <3>1. k \in 0 .. n /\ n \in 0 .. n /\ k <= n
        BY <1>1
      <3>2. at[k] <= at[n] /\ at[n] = Len(f)
        BY <1>2, <1>u, <3>1, Zenon
      <3> QED BY <3>2, Zenon
    <2> HIDE DEF from, to, r
    <2>3. CASE k = i
      <3> DEFINE g == x - 1
      <3>0. from = at[i - 1] /\ p = from + x /\ x \in 1 .. Len(r)
        BY <2>3 DEF from, r
      <3> HIDE DEF p
      <3>1. /\ g \in Nat /\ g + 1 = x /\ g <= to - from /\ g < to - from
            /\ g # Len(r) /\ p = from + x /\ x \in 1 .. Len(r)
        <4>1. from \in Nat /\ to \in Nat /\ Len(r) \in Nat /\ to - from = Len(r)
          BY <2>1, Zenon
        <4>2. /\ x - 1 \in Nat /\ x - 1 + 1 = x /\ x - 1 <= to - from /\ x - 1 < to - from
              /\ x - 1 # Len(r)
          <5> DEFINE m == Len(r)
          <5>1. from \in Nat /\ to \in Nat /\ m \in Nat /\ to - from = m /\ x \in 1 .. m
            BY <3>0, <4>1, Zenon
          <5> HIDE DEF m
          <5>2. /\ x - 1 \in Nat /\ x - 1 + 1 = x /\ x - 1 <= to - from /\ x - 1 < to - from
                /\ x - 1 # m
            BY <5>1
          <5> QED BY <5>2, Zenon DEF m
        <4> QED BY <3>0, <4>2, Zenon
      <3>2. ASSUME NEW j \in 1 .. to - from PROVE f2[from + j].digest_of = r[j].digest_of
        <4>1. from + j \in 1 .. Len(f) /\ j \in 1 .. Len(r)
          BY <1>1, <2>1, <2>2
        <4>2. CASE from + j = p
          BY <1>c, <2>1, <4>1, <4>2
        <4>3. CASE from + j # p
          BY <1>c, <2>1, <4>1, <4>3
        <4> QED BY <4>2, <4>3
      <3>3. ASSUME NEW j \in 1 .. g PROVE f2[from + j].byte = r[j].byte
        <4>1. from + j \in 1 .. Len(f) /\ from + j # p /\ j \in 1 .. Len(r)
          <5>1. j \in Nat /\ 1 <= j /\ j < x /\ x \in Nat /\ x <= Len(r)
            BY <2>1, <3>1
          <5> HIDE DEF g
          <5>2. from + j # from + x
            BY <2>1, <5>1
          <5>3. from + j \in 1 .. Len(f) /\ j \in 1 .. Len(r)
            BY <1>1, <2>1, <2>2, <5>1
          <5> QED BY <3>0, <5>2, <5>3
        <4> QED BY <1>c, <2>1, <4>1
      <3>4. f2[from + (g + 1)].byte # r[g + 1].byte
        BY <1>c, <2>1, <3>0, <3>1
      <3>5. \A j \in 1 .. k - 1 : its2[j].end = "check"
        <4>1. ASSUME NEW j \in 1 .. k - 1 PROVE its2[j].end = "check"
          <5>1. j \in 1 .. n /\ j # i
            BY <1>1, <2>3
          <5>2. its2[j] = its[j]
            BY <1>3, <5>1
          <5>3. its[j] = ItemOf(bl[j], good[j]) /\ good[j] = Len(record(bl[j]))
            BY <1>2, <5>1 DEF Piece
          <5>4. its[j] = Record(bl[j])
            BY <5>3, Zenon DEF ItemOf
          <5>5. Record(bl[j]).end = "check"
            BY DEF Record
          <5> QED BY <5>2, <5>4, <5>5
        <4> QED BY <4>1
      <3>6. its2[k] = ItemOf(c, g)
        BY <1>3, <2>3, <3>1 DEF ItemOf, r
      <3>7. to - from <= Len(r)
        BY <2>1
      <3> HIDE DEF g
      <3>8. Piece(f2, its2, dmg2, k, from, to, c, g)
        BY <2>1, <3>1, <3>2, <3>3, <3>4, <3>5, <3>6, <3>7, Zenon DEF Piece, r
      <3>9. good2[k] = g
        BY <1>5, <2>3 DEF g
      <3> QED BY <3>8, <3>9 DEF from, to
    <2>4. CASE k # i
      <3>1. \A j \in 1 .. Len(r) : f2[from + j] = f[from + j]
        <4>1. ASSUME NEW j \in 1 .. Len(r) PROVE f2[from + j] = f[from + j]
          <5>1. from + j \in 1 .. Len(f)
            BY <1>1, <2>1, <2>2
          <5>2. from + j # p
            <6>0. /\ at[i] - at[i - 1] = Len(record(bl[i])) /\ i \in 1 .. n /\ i - 1 \in 0 .. n
                  /\ i \in 0 .. n /\ k \in 0 .. n /\ k - 1 \in 0 .. n
              <7>1. i \in 1 .. n
                BY DEF n
              <7>2. /\ at[i - 1] < at[i] /\ at[i] - at[i - 1] <= Len(record(bl[i]))
                    /\ good[i] <= at[i] - at[i - 1] /\ good[i] = Len(record(bl[i]))
                BY <1>2, <7>1 DEF Piece
              <7>3. at[i] \in Nat /\ at[i - 1] \in Nat /\ good[i] \in Nat
                BY <1>1, <1>2, <1>6, <7>1
              <7> QED BY <1>1, <7>1, <7>2, <7>3
            <6>1. at[i] \in Nat /\ at[i - 1] \in Nat /\ p \in Nat /\ p <= at[i] /\ p > at[i - 1]
              <7>1. /\ at[i] \in Nat /\ at[i - 1] \in Nat /\ x \in Nat /\ x >= 1
                    /\ x <= at[i] - at[i - 1] /\ p = at[i - 1] + x
                BY <1>6, <6>0
              <7> HIDE DEF p
              <7> QED BY <7>1, PastStart, Zenon
            <6> HIDE DEF p
            <6>2. from + j <= to /\ from + j > from
              BY <2>1
            <6>3. CASE k < i
              <7>1. k <= i - 1
                BY <6>0, <6>3
              <7>2. to <= at[i - 1]
                BY <1>u, <6>0, <7>1, Zenon DEF to
              <7> QED BY <2>1, <6>1, <6>2, <7>2, SMTT(30)
            <6>4. CASE i < k
              <7>1. i <= k - 1
                BY <6>0, <6>4
              <7>2. at[i] <= from
                BY <1>u, <6>0, <7>1, Zenon DEF from
              <7> QED BY <2>1, <6>1, <6>2, <7>2
            <6> QED BY <2>4, <6>0, <6>3, <6>4
          <5> QED BY <1>c, <5>1, <5>2
        <4> QED BY <4>1
      <3>2. its2[k] = ItemOf(c, Len(r)) /\ good2[k] = Len(r)
        BY <1>3, <1>5, <2>0, <2>1, <2>4
      <3>3. Len(r) <= to - from /\ ~(Len(r) < to - from) /\ to - from <= Len(r)
        BY <2>1
      <3>4. \A j \in 1 .. to - from : f2[from + j].digest_of = r[j].digest_of
        BY <2>1, <3>1
      <3>5. \A j \in 1 .. Len(r) : f2[from + j].byte = r[j].byte
        BY <2>1, <3>1
      <3>6. from < to
        BY <2>1
      <3>7. Piece(f2, its2, dmg2, k, from, to, c, Len(r))
        BY <3>2, <3>3, <3>4, <3>5, <3>6, Zenon DEF Piece, r
      <3> QED BY <3>2, <3>7 DEF from, to
    <2> QED BY <2>3, <2>4
  <1>9. Layout(f2, its2, dmg2, at, bl, good2)
    BY <1>2, <1>4, <1>5, <1>8 DEF Layout
  <1> QED BY <1>9 DEF its2

\* What is known of one piece of the file.
IsPiece(f, its, at, bl, good, i) ==
    LET L == Len(serialize(bl[i]))
    IN  /\ bl[i] \in Written /\ good[i] \in Nat /\ at[i - 1] \in Nat /\ at[i] \in Nat /\ L \in Nat
        /\ at[i - 1] < at[i] /\ at[i] <= Len(f) /\ Len(f) \in Nat
        /\ Len(record(bl[i])) = 22 + L + HashLen
        /\ at[i] - at[i - 1] <= 22 + L + HashLen /\ good[i] <= at[i] - at[i - 1]
        /\ (i < Len(its) \/ at[i] = Len(f))
        /\ its[i] = ItemOf(bl[i], good[i])
LEMMA PieceIs ==
    ASSUME NEW f \in Seq(Cell), NEW its \in Seq(Item), NEW dmg,
           NEW at, NEW bl, NEW good, Layout(f, its, dmg, at, bl, good),
           NEW i \in 1 .. Len(its)
    PROVE  IsPiece(f, its, at, bl, good, i)
  <1> DEFINE n == Len(its)
             L == Len(serialize(bl[i]))
  <1>1. n \in Nat /\ Len(f) \in Nat
    BY SeqElement
  <1>2. /\ Marks(at, n) /\ at[n] = Len(f) /\ bl \in [1 .. n -> Written] /\ good \in [1 .. n -> Nat]
        /\ Piece(f, its, dmg, i, at[i - 1], at[i], bl[i], good[i])
    BY DEF Layout
  <1> HIDE DEF n
  <1>3. i \in 1 .. n /\ i \in 0 .. n /\ i - 1 \in 0 .. n /\ n \in 0 .. n /\ (i < n \/ i = n)
    BY <1>1 DEF n
  <1>4. at[i] \in Nat /\ at[i - 1] \in Nat /\ bl[i] \in Written /\ good[i] \in Nat
    BY <1>2, <1>3 DEF Marks
  <1>5. Len(record(bl[i])) = 22 + L + HashLen /\ L \in Nat
    BY <1>4, RecordIs, FrontIs
  <1> HIDE DEF L
  <1>6. i < n => at[i] < at[n]
    BY <1>1, <1>2, <1>3, MarksGrow
  <1>7. /\ at[i - 1] < at[i] /\ at[i] - at[i - 1] <= Len(record(bl[i]))
        /\ good[i] <= at[i] - at[i - 1] /\ its[i] = ItemOf(bl[i], good[i])
    BY <1>2 DEF Piece
  <1>8. at[i] <= Len(f) /\ (i < n \/ at[i] = Len(f))
    BY <1>1, <1>2, <1>3, <1>4, <1>6
  <1>9. at[i] - at[i - 1] <= 22 + L + HashLen
    BY <1>5, <1>7
  <1> QED BY <1>1, <1>4, <1>5, <1>7, <1>8, <1>9, Zenon DEF n, L, IsPiece

\* The right bytes of a piece, field by field.
AreGood(f, from, block, g) ==
    LET L == Len(serialize(block))
    IN  /\ \A j \in 1 .. 14 : j <= g => f[from + j].byte = RecordStart[j]
        /\ 22 <= g => \A s \in Seq(Byte) :
              Len(s) = 8 /\ (\A j \in 1 .. 8 : s[j] = f[from + 14 + j].byte) => le_value(s) = L
        /\ 22 + L <= g => \A p \in Seq(Byte) :
              Len(p) = L /\ (\A j \in 1 .. L : p[j] = f[from + 22 + j].byte)
                 => p = serialize(block)
LEMMA GoodBytes ==
    ASSUME NEW f \in Seq(Cell), NEW its \in Seq(Item), NEW dmg,
           NEW at, NEW bl, NEW good, Layout(f, its, dmg, at, bl, good),
           NEW i \in 1 .. Len(its)
    PROVE  AreGood(f, at[i - 1], bl[i], good[i])
  <1> DEFINE L == Len(serialize(bl[i]))
             b == bl[i]
             r == record(b)
             from == at[i - 1]
             g == good[i]
             p0 == serialize(b)
             size == SizeBytes(b)
  <1>1. b \in Written /\ g \in Nat /\ from \in Nat /\ L \in Nat
    BY PieceIs DEF IsPiece
  <1>2. \A j \in 1 .. g : f[from + j].byte = r[j].byte
    BY DEF Layout, Piece
  <1>3. \A j \in 1 .. 22 + L : r[j].byte = Undigested(b)[j]
    BY <1>1, RecordIs
  <1>4. /\ p0 \in Seq(Byte) /\ L < Weight[8]
        /\ (\A j \in 1 .. 14 : Undigested(b)[j] = RecordStart[j])
        /\ (\A j \in 1 .. 8 : Undigested(b)[14 + j] = size[j])
        /\ (\A j \in 1 .. L : Undigested(b)[22 + j] = p0[j])
    <2>1. b \in Written /\ L = Len(serialize(b))
      BY <1>1
    <2> HIDE DEF b
    <2>2. p0 \in Seq(Byte) /\ L < Weight[8]
      BY <2>1, FrontIs
    <2>3. \A j \in 1 .. 14 : Undigested(b)[j] = RecordStart[j]
      BY <2>1, FrontIs
    <2>4. \A j \in 1 .. 8 : Undigested(b)[14 + j] = size[j]
      BY <2>1, FrontIs
    <2>5. \A j \in 1 .. L : Undigested(b)[22 + j] = p0[j]
      BY <2>1, FrontIs
    <2> QED BY <2>2, <2>3, <2>4, <2>5, Zenon
  <1>5. size \in Seq(Byte) /\ Len(size) = 8 /\ le_value(size) = L /\ Len(p0) = L
    <2>1. size = write_le_value(L, 8)
      BY <1>1, FrontIs
    <2>2. /\ write_le_value(L, 8) \in Seq(Byte) /\ Len(write_le_value(L, 8)) = 8
          /\ le_value(write_le_value(L, 8)) = L
      BY <1>1, <1>4, LeRound
    <2> QED BY <2>1, <2>2, Zenon
  <1> HIDE DEF b, r, from, g, p0, size, L
  <1>6. ASSUME NEW j \in 1 .. 14, j <= g PROVE f[from + j].byte = RecordStart[j]
    <2>1. j \in 1 .. g /\ j \in 1 .. 22 + L
      BY <1>1, <1>6
    <2> QED BY <1>2, <1>3, <1>4, <2>1
  <1>7. ASSUME 22 <= g, NEW s \in Seq(Byte), Len(s) = 8,
               \A j \in 1 .. 8 : s[j] = f[from + 14 + j].byte
        PROVE  le_value(s) = L
    <2>1. ASSUME NEW j \in 1 .. 8 PROVE s[j] = size[j]
      <3>1. 14 + j \in 1 .. g /\ 14 + j \in 1 .. 22 + L /\ from + 14 + j = from + (14 + j)
        <4>1. 14 + j <= g /\ 14 + j \in Nat /\ 14 + j <= 22
          <5>1. j \in Nat /\ 1 <= j /\ j <= 8
            OBVIOUS
          <5>2. 22 <= g
            BY <1>7
          <5> QED BY <1>1, <5>1, <5>2
        <4> QED BY <1>1, <4>1
      <3>2. s[j] = f[from + (14 + j)].byte
        BY <1>7, <3>1
      <3>3. f[from + (14 + j)].byte = Undigested(b)[14 + j]
        BY <1>2, <1>3, <3>1
      <3> QED BY <1>4, <3>2, <3>3
    <2>2. s = size
      BY <1>5, <1>7, <2>1, SameSeq
    <2> QED BY <1>5, <2>2
  <1>8. ASSUME 22 + L <= g, NEW p \in Seq(Byte), Len(p) = L,
               \A j \in 1 .. L : p[j] = f[from + 22 + j].byte
        PROVE  p = p0
    <2>1. ASSUME NEW j \in 1 .. L PROVE p[j] = p0[j]
      <3>1. 22 + j \in 1 .. g /\ 22 + j \in 1 .. 22 + L /\ from + 22 + j = from + (22 + j)
        BY <1>1, <1>8
      <3>2. p[j] = f[from + (22 + j)].byte
        BY <1>8, <3>1
      <3>3. f[from + (22 + j)].byte = Undigested(b)[22 + j]
        BY <1>2, <1>3, <3>1
      <3> QED BY <1>4, <3>2, <3>3
    <2> QED BY <1>4, <1>5, <1>8, <2>1, SameSeq
  <1>9. \A j \in 1 .. 14 : j <= g => f[from + j].byte = RecordStart[j]
    BY <1>6
  <1>10. 22 <= g => \A s \in Seq(Byte) :
            Len(s) = 8 /\ (\A j \in 1 .. 8 : s[j] = f[from + 14 + j].byte) => le_value(s) = L
    BY <1>7
  <1>11. 22 + L <= g => \A p \in Seq(Byte) :
            Len(p) = L /\ (\A j \in 1 .. L : p[j] = f[from + 22 + j].byte) => p = p0
    BY <1>8
  <1> QED BY <1>9, <1>10, <1>11, Zenon DEF from, g, p0, b, L, AreGood

\* A digest ends a piece: the bytes that know what they are the digest of.
IsDigest(cell, block, j, p) ==
    LET L == Len(serialize(block))
    IN  /\ j <= 22 + L => cell.digest_of # <<p>>
        /\ j > 22 + L => (cell.digest_of = <<p>> => p = serialize(block))
LEMMA DigestCell ==
    ASSUME NEW f \in Seq(Cell), NEW its \in Seq(Item), NEW dmg,
           NEW at, NEW bl, NEW good, Layout(f, its, dmg, at, bl, good),
           NEW i \in 1 .. Len(its), NEW j \in 1 .. at[i] - at[i - 1], NEW p
    PROVE  IsDigest(f[at[i - 1] + j], bl[i], j, p)
  <1> DEFINE L == Len(serialize(bl[i]))
             b == bl[i]
             r == record(b)
             from == at[i - 1]
             p0 == serialize(b)
             none == <<>>
             one == <<p>>
             one0 == <<p0>>
  <1>1. /\ b \in Written /\ from \in Nat /\ L \in Nat /\ at[i] \in Nat
        /\ at[i] - from <= 22 + L + HashLen
    BY PieceIs DEF IsPiece
  <1>2. f[from + j].digest_of = r[j].digest_of
    BY DEF Layout, Piece
  <1>3. none # one /\ (one = one0 => p = p0)
    OBVIOUS
  <1>4. p0 \in Seq(Byte)
    BY <1>1, BlockRound
  <1> HIDE DEF none, one, one0
  <1>5. \A k \in 1 .. 22 + L : r[k].digest_of = none
    BY <1>1, RecordIs DEF none
  <1>6. \A k \in 1 .. HashLen : r[22 + L + k] = sha256(p0)[k]
    BY <1>1, RecordIs
  <1>7. \A k \in 1 .. HashLen : sha256(p0)[k].digest_of = one0
    BY <1>4, DigestIs DEF one0
  <1> HIDE DEF r, p0, from, L
  <1>8. ASSUME j <= 22 + L PROVE f[from + j].digest_of # one
    <2>1. j \in 1 .. 22 + L
      BY <1>1, <1>8
    <2> QED BY <1>2, <1>3, <1>5, <2>1
  <1>9. ASSUME j > 22 + L PROVE f[from + j].digest_of = one0
    <2>1. j - (22 + L) \in 1 .. HashLen /\ 22 + L + (j - (22 + L)) = j
      <3>1. j \in Nat /\ j <= 22 + L + HashLen /\ HashLen \in Nat
        BY <1>1, LogFormatAssumption, SMTT(30) DEF from
      <3> QED BY <1>1, <1>9, <3>1
    <2>2. r[j] = sha256(p0)[j - (22 + L)]
      BY <1>6, <2>1
    <2> QED BY <1>2, <1>7, <2>1, <2>2
  <1>10. ASSUME j > 22 + L, f[from + j].digest_of = one PROVE p = p0
    BY <1>3, <1>9, <1>10
  <1> QED BY <1>8, <1>9, <1>10, Zenon DEF one, one0, p0, from, L, IsDigest

\* What the reader has in its hands when it has read the header behind byte `from`.
Begun(f, from, len) ==
    /\ from \in Nat /\ from + 22 <= Len(f)
    /\ \A j \in 1 .. 14 : f[from + j].byte = RecordStart[j]
    /\ \E s \in Seq(Byte) : /\ Len(s) = 8 /\ len = le_value(s)
                            /\ \A j \in 1 .. 8 : s[j] = f[from + 14 + j].byte

\* The payload and the check sum behind that header.
Checked(f, from, len, p) ==
    /\ p \in Seq(Byte) /\ Len(p) = len /\ from + 22 + len + HashLen <= Len(f)
    /\ \A j \in 1 .. len : p[j] = f[from + 22 + j].byte
    /\ \A j \in 1 .. HashLen : f[from + 22 + len + j] = sha256(p)[j]

\* A payload that is block b's, out of a record written whole.
IsRead(b, g, p) == g = Len(record(b)) /\ p = serialize(b)

\* A check sum that agrees with the payload is the one of the record that begins where
\* the reader began, and all of that record is there: the last of its bytes is where
\* the record's own digest ends, since what follows a digest is never part of one.
LEMMA CheckedIsWhole ==
    ASSUME NEW f \in Seq(Cell), NEW its \in Seq(Item), NEW dmg,
           NEW at, NEW bl, NEW good, Layout(f, its, dmg, at, bl, good),
           NEW i \in 1 .. Len(its), NEW len \in Nat, Begun(f, at[i - 1], len),
           NEW p, Checked(f, at[i - 1], len, p)
    PROVE  IsRead(bl[i], good[i], p)
  <1> SUFFICES good[i] = Len(record(bl[i])) /\ p = serialize(bl[i])
    BY DEF IsRead
  <1> DEFINE n == Len(its)
             from == at[i - 1]
             q == from + 22 + len
  <1>0. /\ n \in Nat /\ Len(f) \in Nat /\ from \in Nat /\ HashLen \in Nat /\ HashLen > 0
        /\ Marks(at, n) /\ at[n] = Len(f) /\ i \in 1 .. n
    <2>1. n \in Nat /\ Len(f) \in Nat
      BY SeqElement
    <2>2. from \in Nat
      BY PieceIs DEF IsPiece
    <2>3. Marks(at, n) /\ at[n] = Len(f)
      BY DEF Layout
    <2>4. HashLen \in Nat /\ HashLen > 0
      BY LogFormatAssumption
    <2> QED BY <2>1, <2>2, <2>3, <2>4
  <1> HIDE DEF n, from
  <1>1. p \in Seq(Byte) /\ Len(p) = len /\ q \in Nat /\ q + HashLen <= Len(f)
    BY <1>0 DEF Checked, from
  <1>2. \A j \in 1 .. HashLen : f[q + j].digest_of = <<p>>
    <2>1. \A j \in 1 .. HashLen : f[q + j] = sha256(p)[j]
      BY DEF Checked, from
    <2>2. \A j \in 1 .. HashLen : sha256(p)[j].digest_of = <<p>>
      BY <1>1, DigestIs
    <2> QED BY <2>1, <2>2
  <1>q. q = from + 22 + len
    OBVIOUS
  <1> HIDE DEF q
  <1>3. PICK k \in 1 .. n : at[k - 1] < q + 1 /\ q + 1 <= at[k]
    <2>1. q + 1 \in 1 .. at[n]
      BY <1>0, <1>1
    <2> QED BY <1>0, <2>1, MarksLocate
  <1> DEFINE L == Len(serialize(bl[k]))
             start == at[k - 1]
             stop == at[k]
  <1>4. /\ bl[k] \in Written /\ start \in Nat /\ stop \in Nat /\ L \in Nat /\ stop <= Len(f)
        /\ stop - start <= 22 + L + HashLen /\ (k < n \/ stop = Len(f))
        /\ start < q + 1 /\ q + 1 <= stop
    <2>1. k \in 1 .. Len(its)
      BY <1>3 DEF n
    <2>p. IsPiece(f, its, at, bl, good, k)
      BY <2>1, PieceIs, Zenon
    <2>2. bl[k] \in Written /\ start \in Nat /\ stop \in Nat /\ L \in Nat
      BY <2>p, Zenon DEF IsPiece
    <2>3. stop <= Len(f) /\ stop - start <= 22 + L + HashLen /\ (k < n \/ stop = Len(f))
      BY <2>p, Zenon DEF n, IsPiece
    <2> QED BY <1>3, <2>2, <2>3
  <1> HIDE DEF L, start, stop
  <1>5. /\ q + 1 - start > 22 + L /\ p = serialize(bl[k])
    <2>1. q + 1 - start \in 1 .. stop - start /\ start + (q + 1 - start) = q + 1
      BY <1>1, <1>4
    <2>2. f[start + (q + 1 - start)].digest_of = <<p>>
      <3>1. 1 \in 1 .. HashLen
        BY <1>0
      <3> QED BY <1>2, <2>1, <3>1
    <2>3. ASSUME NEW j \in 1 .. stop - start, f[start + j].digest_of = <<p>>
          PROVE  j > 22 + L /\ p = serialize(bl[k])
      <3>0. k \in 1 .. Len(its) /\ j \in 1 .. at[k] - at[k - 1]
        BY <1>3 DEF n, start, stop
      <3>1. /\ j <= 22 + L => f[start + j].digest_of # <<p>>
            /\ j > 22 + L => (f[start + j].digest_of = <<p>> => p = serialize(bl[k]))
        <4>1. IsDigest(f[at[k - 1] + j], bl[k], j, p)
          BY <3>0, DigestCell, Zenon
        <4> QED BY <4>1, Zenon DEF L, start, IsDigest
      <3>2. j <= 22 + L \/ j > 22 + L
        BY <1>4
      <3> QED BY <2>3, <3>1, <3>2, Zenon
    <2> QED BY <2>1, <2>2, <2>3
  <1>6. L = len
    BY <1>1, <1>5 DEF L
  <1>7. stop >= q + HashLen
    <2>1. SUFFICES ASSUME stop < q + HashLen PROVE FALSE
      BY <1>0, <1>1, <1>4
    <2>2. k + 1 \in 1 .. n /\ (k + 1) - 1 = k
      BY <1>0, <1>1, <1>3, <1>4, <2>1
    <2> DEFINE k1 == k + 1
    <2>3. k1 \in 1 .. Len(its) /\ at[k1 - 1] = stop
      BY <2>2 DEF n, stop
    <2> HIDE DEF k1
    <2>4. Len(serialize(bl[k1])) \in Nat /\ at[k1 - 1] < at[k1] /\ at[k1] \in Nat
      <3>1. IsPiece(f, its, at, bl, good, k1)
        BY <2>3, PieceIs, Zenon
      <3> QED BY <3>1, Zenon DEF IsPiece
    <2>5. 1 \in 1 .. at[k1] - at[k1 - 1] /\ 1 <= 22 + Len(serialize(bl[k1]))
      BY <1>4, <2>3, <2>4, SMTT(30)
    <2>6. f[at[k1 - 1] + 1].digest_of # <<p>>
      <3>1. IsDigest(f[at[k1 - 1] + 1], bl[k1], 1, p)
        BY <2>3, <2>5, DigestCell, Zenon
      <3> QED BY <2>5, <3>1, Zenon DEF IsDigest
    <2>7. stop + 1 - q \in 1 .. HashLen /\ q + (stop + 1 - q) = stop + 1
      BY <1>0, <1>1, <1>4, <2>1
    <2>8. f[stop + 1].digest_of = <<p>>
      BY <1>2, <2>7
    <2> QED BY <2>3, <2>6, <2>8, Zenon
  <1>m. start = from /\ stop - start = 22 + L + HashLen
    BY <1>0, <1>1, <1>4, <1>5, <1>6, <1>7, <1>q
  <1>8. k = i
    <2>1. k - 1 \in 0 .. n /\ i - 1 \in 0 .. n
      BY <1>0
    <2>2. \A a, b \in 0 .. n : a < b => at[a] < at[b]
      BY <1>0, MarksGrow
    <2>3. at[k - 1] = at[i - 1] /\ at[k - 1] \in Nat
      BY <1>4, <1>m DEF start, from
    <2>4. ~(k - 1 < i - 1) /\ ~(i - 1 < k - 1)
      BY <2>1, <2>2, <2>3
    <2> QED BY <1>0, <2>4
  <1> DEFINE g == good[i]
             b == bl[i]
             r == record(b)
  <1>9. /\ g \in Nat /\ Len(r) = 22 + L + HashLen /\ g <= Len(r) /\ at[i] - at[i - 1] = Len(r)
        /\ p = serialize(b) /\ L = Len(serialize(b)) /\ b \in Written
    <2>1. p = serialize(b) /\ L = Len(serialize(b)) /\ b \in Written
      BY <1>4, <1>5, <1>8 DEF L
    <2>2. at[i] - at[i - 1] = 22 + L + HashLen
      BY <1>m, <1>8 DEF start, stop
    <2>3. g \in Nat /\ g <= at[i] - at[i - 1]
      BY PieceIs DEF IsPiece
    <2>4. Len(r) = 22 + L + HashLen
      BY <2>1, RecordIs
    <2> QED BY <2>1, <2>2, <2>3, <2>4
  <1>d. g < Len(r) => f[from + (g + 1)].byte # r[g + 1].byte
    <2>1. Piece(f, its, dmg, i, at[i - 1], at[i], bl[i], good[i])
      BY DEF Layout
    <2> QED BY <1>9, <2>1 DEF Piece, from
  <1>b. i \in 1 .. Len(its) /\ from = at[i - 1]
    BY DEF from
  <1> HIDE DEF g, b, r
  <1>e. \A j \in 1 .. 22 + L : r[j].byte = Undigested(b)[j]
    BY <1>9, RecordIs DEF r
  <1>10. g = Len(r)
    <2>1. SUFFICES ASSUME g < Len(r) PROVE FALSE
      <3>1. \A a, l \in Nat : a <= l /\ ~(a < l) => a = l
        OBVIOUS
      <3>2. Len(r) \in Nat
        BY <1>0, <1>4, <1>9
      <3> QED BY <1>9, <3>1, <3>2, Zenon
    <2>2. f[from + (g + 1)].byte # r[g + 1].byte
      BY <1>d, <2>1
    <2>4. CASE g < 14
      <3>1. g + 1 \in 1 .. 14 /\ g + 1 \in 1 .. 22 + L
        BY <1>4, <1>9, <2>4, SMTT(30)
      <3>2. f[from + (g + 1)].byte = RecordStart[g + 1]
        BY <1>b, <3>1 DEF Begun
      <3>3. Undigested(b)[g + 1] = RecordStart[g + 1]
        BY <1>9, <3>1, FrontIs
      <3> QED BY <1>e, <2>2, <3>1, <3>2, <3>3
    <2>5. CASE 14 <= g /\ g < 22
      <3> DEFINE size == SizeBytes(b)
                 x == g - 13
      <3>1. PICK s \in Seq(Byte) : /\ Len(s) = 8 /\ len = le_value(s)
                                   /\ \A j \in 1 .. 8 : s[j] = f[from + 14 + j].byte
        BY <1>b DEF Begun
      <3>2. size \in Seq(Byte) /\ Len(size) = 8 /\ le_value(size) = L
        <4>1. size = write_le_value(L, 8) /\ L < Weight[8]
          BY <1>9, FrontIs
        <4>2. /\ write_le_value(L, 8) \in Seq(Byte) /\ Len(write_le_value(L, 8)) = 8
              /\ le_value(write_le_value(L, 8)) = L
          BY <1>4, <4>1, LeRound
        <4> QED BY <4>1, <4>2, Zenon
      <3> HIDE DEF size
      <3>3. s = size
        BY <1>6, <3>1, <3>2, LeSame
      <3>4. x \in 1 .. 8 /\ 14 + x = g + 1 /\ g + 1 \in 1 .. 22 + L /\ from + 14 + x = from + (g + 1)
        BY <1>0, <1>4, <1>9, <2>5, SMTT(30)
      <3> HIDE DEF x
      <3>5. Undigested(b)[14 + x] = size[x]
        BY <1>9, <3>4, FrontIs DEF size
      <3>6. s[x] = f[from + 14 + x].byte
        BY <3>1, <3>4
      <3> QED BY <1>e, <2>2, <3>3, <3>4, <3>5, <3>6
    <2>6. CASE 22 <= g /\ g < 22 + L
      <3> DEFINE x == g - 21
      <3>1. /\ x \in 1 .. L /\ x \in 1 .. len /\ 22 + x = g + 1 /\ g + 1 \in 1 .. 22 + L
            /\ from + 22 + x = from + (g + 1)
        BY <1>0, <1>4, <1>6, <1>9, <2>6
      <3> HIDE DEF x
      <3>2. Undigested(b)[22 + x] = p[x]
        BY <1>9, <3>1, FrontIs
      <3>3. p[x] = f[from + 22 + x].byte
        BY <1>b, <3>1 DEF Checked
      <3> QED BY <1>e, <2>2, <3>1, <3>2, <3>3
    <2>7. CASE 22 + L <= g
      <3> DEFINE x == g - (21 + L)
      <3>1. x \in 1 .. HashLen /\ 22 + L + x = g + 1 /\ q + x = from + (g + 1)
        <4>1. g < 22 + L + HashLen
          BY <1>9, <2>1
        <4>2. x \in 1 .. HashLen /\ 22 + L + x = g + 1
          BY <1>0, <1>4, <1>9, <2>7, <4>1
        <4>3. q = from + 22 + L
          BY <1>6, <1>q
        <4>4. x \in Nat
          BY <4>2
        <4> HIDE DEF x
        <4>5. q + x = from + (g + 1)
          <5>3. from \in Nat /\ L \in Nat /\ 22 + L + x = g + 1
            BY <1>0, <1>4, <4>2
          <5>4. (from + 22 + L) + x = from + (g + 1)
            <6>1. from + 22 + L + x = from + (22 + L + x)
              BY <4>4, <5>3
            <6> QED BY <5>3, <6>1, Zenon
          <5> QED BY <4>3, <5>4, Zenon
        <4> QED BY <4>2, <4>5
      <3> HIDE DEF x
      <3>2. r[22 + L + x] = sha256(p)[x]
        BY <1>9, <3>1, RecordIs DEF r
      <3>3. f[q + x] = sha256(p)[x]
        BY <1>b, <1>q, <3>1 DEF Checked
      <3> QED BY <2>2, <3>1, <3>2, <3>3
    <2> QED BY <1>4, <1>9, <2>4, <2>5, <2>6, <2>7
  <1> QED BY <1>9, <1>10 DEF g, r, b

\* A length field of four gigabytes or more: the record was cut inside the field and
\* something follows, or a byte of the field changed.
LEMMA HugeIsTorn ==
    ASSUME NEW f \in Seq(Cell), NEW its \in Seq(Item), NEW dmg,
           NEW at, NEW bl, NEW good, Layout(f, its, dmg, at, bl, good),
           NEW i \in 1 .. Len(its), NEW len \in Nat, Begun(f, at[i - 1], len), len >= Weight[4]
    PROVE  /\ good[i] # Len(record(bl[i])) /\ its[i].end = "length"
           /\ i < Len(its) \/ Changed(dmg)
  <1> DEFINE from == at[i - 1]
             to == at[i]
             g == good[i]
             b == bl[i]
             r == record(b)
             L == Len(serialize(b))
             n == Len(its)
  <1>1. /\ b \in Written /\ g \in Nat /\ from \in Nat /\ to \in Nat /\ L \in Nat /\ from < to
        /\ g <= to - from /\ Len(r) = 22 + L + HashLen /\ (i < n \/ to = Len(f)) /\ to <= Len(f)
        /\ its[i] = ItemOf(b, g) /\ Len(f) \in Nat /\ n \in Nat
    <2>1. IsPiece(f, its, at, bl, good, i)
      BY PieceIs, Zenon
    <2>2. n \in Nat
      BY SeqElement
    <2> QED BY <2>1, <2>2, Zenon DEF IsPiece
  <1>2. L < Weight[4] /\ Weight[4] \in Nat
    BY <1>1, WrittenAssumption, WeightIs
  <1>3. g < to - from => /\ f[from + (g + 1)].byte # r[g + 1].byte
                         /\ Changed(dmg) /\ \A j \in 1 .. i - 1 : its[j].end = "check"
    <2>1. Piece(f, its, dmg, i, at[i - 1], at[i], bl[i], good[i])
      BY DEF Layout
    <2> QED BY <2>1 DEF Piece
  <1>4. from + 22 <= Len(f) /\ \A j \in 1 .. 14 : f[from + j].byte = RecordStart[j]
    BY DEF Begun
  <1>5. PICK s \in Seq(Byte) : /\ Len(s) = 8 /\ len = le_value(s)
                               /\ \A j \in 1 .. 8 : s[j] = f[from + 14 + j].byte
    BY DEF Begun
  <1>6. 22 <= g => len = L
    <2>1. AreGood(f, from, b, g)
      BY GoodBytes, Zenon
    <2> QED BY <1>5, <2>1, Zenon DEF AreGood
  <1>i. i \in 1 .. n
    OBVIOUS
  <1> HIDE DEF from, to, g, b, r, L, n
  <1>7. g < 22
    BY <1>1, <1>2, <1>6
  <1>8. HashLen \in Nat /\ g # Len(r)
    <2>1. HashLen \in Nat
      BY LogFormatAssumption
    <2> QED BY <1>1, <1>7, <2>1
  <1>9. its[i] = CutAt(g)
    BY <1>1, <1>8, Zenon DEF ItemOf, r
  <1>10. g >= 14
    <2>1. SUFFICES ASSUME g < 14 PROVE FALSE
      BY <1>1
    <2>2. CASE g < to - from
      <3>1. g + 1 \in 1 .. 14 /\ g + 1 \in 1 .. 22 + L
        BY <1>1, <2>1
      <3>2. r[g + 1].byte = Undigested(b)[g + 1]
        BY <1>1, <3>1, RecordIs DEF r, L
      <3>3. Undigested(b)[g + 1] = RecordStart[g + 1]
        BY <1>1, <3>1, FrontIs DEF L
      <3> QED BY <1>3, <1>4, <2>2, <3>1, <3>2, <3>3
    <2>3. CASE g = to - from
      <3> DEFINE k == i + 1
      <3>1. to = from + g /\ to < Len(f) /\ g >= 1
        <4>1. to \in Nat /\ from \in Nat /\ g \in Nat /\ from < to /\ g = to - from /\ g < 14
          BY <1>1, <2>1, <2>3
        <4>2. to = from + g /\ g >= 1
          BY <4>1
        <4> QED BY <1>1, <1>4, <4>1, <4>2
      <3>2. i < n
        BY <1>1, <3>1
      <3>3. k \in 1 .. n /\ k - 1 = i /\ i \in 1 .. k - 1
        BY <1>1, <1>i, <3>2
      <3> HIDE DEF k
      <3>4. IsPiece(f, its, at, bl, good, k)
        BY <3>3, PieceIs DEF n
      <3> DEFINE h == good[k]
                 c == bl[k]
      <3>5. /\ c \in Written /\ h \in Nat /\ at[k] \in Nat /\ to < at[k] /\ Len(serialize(c)) \in Nat
        BY <3>3, <3>4, Zenon DEF IsPiece, to
      <3>6. Piece(f, its, dmg, k, to, at[k], c, h)
        BY <3>3 DEF Layout, n, to
      <3>7. CutAt(g).end # "check"
        BY DEF CutAt
      <3> HIDE DEF h, c
      <3>8. h # 0
        <4>1. SUFFICES ASSUME h = 0 PROVE FALSE
          OBVIOUS
        <4>2. h < at[k] - to
          BY <1>1, <3>5, <4>1
        <4>3. \A j \in 1 .. k - 1 : its[j].end = "check"
          BY <3>6, <4>2 DEF Piece
        <4>4. its[i].end = "check"
          BY <3>3, <4>3, Zenon
        <4> QED BY <1>9, <3>7, <4>4, Zenon
      <3>9. 1 \in 1 .. h /\ 1 \in 1 .. 22 + Len(serialize(c)) /\ 1 \in 1 .. 14
        BY <3>5, <3>8
      <3>10. f[to + 1].byte = record(c)[1].byte
        BY <3>6, <3>9 DEF Piece
      <3>11. record(c)[1].byte = RecordStart[1]
        BY <3>5, RecordBegins, Zenon
      <3>12. g + 1 \in 2 .. 14 /\ g + 1 \in 1 .. 14 /\ from + (g + 1) = to + 1
        BY <1>1, <2>1, <3>1
      <3>13. f[to + 1].byte = RecordStart[g + 1]
        BY <1>4, <3>12
      <3>14. RecordStart[g + 1] # RecordStart[1]
        BY <3>12, StartIs
      <3> QED BY <3>10, <3>11, <3>13, <3>14, Zenon
    <2> QED BY <1>1, <2>2, <2>3
  <1>11. its[i].end = "length"
    <2>1. g \in Len(RecordStart) .. HeaderSize - 1
      BY <1>1, <1>7, <1>10, StartIs DEF HeaderSize
    <2> QED BY <1>9, <2>1 DEF CutAt
  <1>12. i < n \/ Changed(dmg)
    <2>1. CASE g < to - from
      BY <1>3, <2>1
    <2>2. CASE g = to - from
      BY <1>1, <1>4, <1>7, <2>2
    <2> QED BY <1>1, <2>1, <2>2
  <1> QED BY <1>8, <1>11, <1>12, Zenon DEF g, r, b, n

-----------------------------------------------------------------------------
(* The invariant: the file is made of pieces of records, and the reader    *)
(* stands where a piece begins, with the whole records in front of it in   *)
(* `out`, or in the middle of the piece behind them.                       *)

Typed ==
    /\ file \in Seq(Cell) /\ items \in Seq(Item) /\ damage \in Seq(Harm)
    /\ pc \in {"closed", "peek", "payload", "check", "done", "threw", "unopened"}
    /\ pos \in 0 .. Len(file) /\ length \in Nat /\ payload \in Seq(Byte) /\ out \in Seq(Written)

Place(at, bl, good) ==
    /\ Len(out) <= Len(items)
    /\ \A j \in 1 .. Len(out) : good[j] = Len(record(bl[j])) /\ out[j] = bl[j]
    /\ pc = "closed" => pos = 0 /\ Len(out) = 0
    /\ pc = "peek" => pos = at[Len(out)]
    /\ pc \in {"payload", "check"} =>
          Len(out) < Len(items) /\ Begun(file, at[Len(out)], length)
    /\ pc = "payload" => pos = at[Len(out)] + 22
    /\ pc = "check" =>
          /\ pos = at[Len(out)] + 22 + length /\ Len(payload) = length
          /\ \A j \in 1 .. length : payload[j] = file[at[Len(out)] + 22 + j].byte
    /\ pc \in {"done", "threw"} =>
          (Len(out) < Len(items) => good[Len(out) + 1] # Len(record(bl[Len(out) + 1])))
    /\ pc = "threw" =>
          /\ Len(out) < Len(items) /\ items[Len(out) + 1].end = "length"
          /\ (Len(out) + 1 < Len(items) \/ Changed(damage))

LogInd ==
    /\ Typed
    /\ \E at, bl, good : Layout(file, items, damage, at, bl, good) /\ Place(at, bl, good)

LEMMA InitLogInd == Init => LogInd
  <1> SUFFICES ASSUME Init PROVE LogInd
    OBVIOUS
  <1> DEFINE at == [i \in 0 .. 0 |-> 0]
             bl == [i \in 1 .. 0 |-> 0]
  <1>1. \A S : <<>> \in Seq(S)
    OBVIOUS
  <1>2. Len(<<>>) = 0
    OBVIOUS
  <1>3. /\ file \in Seq(Cell) /\ items \in Seq(Item) /\ damage \in Seq(Harm)
        /\ payload \in Seq(Byte) /\ out \in Seq(Written)
    BY <1>1, Zenon DEF Init
  <1>4. Len(file) = 0 /\ Len(items) = 0 /\ Len(damage) = 0 /\ Len(out) = 0
    BY <1>2, Zenon DEF Init
  <1>5. pc = "closed" /\ pos = 0 /\ length = 0
    BY DEF Init
  <1>6. Typed
    BY <1>3, <1>4, <1>5 DEF Typed
  <1>7. Layout(file, items, damage, at, bl, bl)
    <2>1. Marks(at, 0) /\ at[0] = 0
      BY DEF Marks
    <2>2. bl \in [1 .. 0 -> Written] /\ bl \in [1 .. 0 -> Nat] /\ \A i \in 1 .. 0 : FALSE
      OBVIOUS
    <2> HIDE DEF at, bl
    <2> QED BY <1>4, <2>1, <2>2 DEF Layout
  <1>8. Place(at, bl, bl)
    BY <1>4, <1>5 DEF Place
  <1> QED BY <1>6, <1>7, <1>8, Zenon DEF LogInd

\* While the log is not being read the reader is at the beginning.
LEMMA ClosedPlace ==
    ASSUME LogInd, pc = "closed", UNCHANGED <<pc, pos, length, payload, out>>,
           file' \in Seq(Cell), items' \in Seq(Item), damage' \in Seq(Harm),
           \E at, bl, good : Layout(file', items', damage', at, bl, good)
    PROVE  LogInd'
  <1>1. /\ pc' = "closed" /\ pos' = 0 /\ length' \in Nat /\ payload' \in Seq(Byte)
        /\ out' \in Seq(Written) /\ Len(out') = 0
    BY DEF LogInd, Typed, Place
  <1>2. Len(file') \in Nat /\ Len(items') \in Nat
    BY SeqElement
  <1>3. Typed'
    BY <1>1, <1>2 DEF Typed
  <1>4. PICK at, bl, good : Layout(file', items', damage', at, bl, good)
    OBVIOUS
  <1>5. Place(at, bl, good)'
    BY <1>1, <1>2 DEF Place
  <1> QED BY <1>3, <1>4, <1>5, Zenon DEF LogInd

LEMMA CutIsItem ==
    ASSUME NEW n
    PROVE  CutAt(n) \in Item
  <1>1. CutAt(n) \in Fragment
    <2> DEFINE none == <<>>
    <2>1. none \in {none}
      OBVIOUS
    <2>2. CutAt(n) = [end |-> IF n \in Len(RecordStart) .. HeaderSize - 1 THEN "length" ELSE "other",
                      payload |-> none]
      BY Zenon DEF CutAt
    <2>3. Fragment = [end : {"length", "other"}, payload : {none}]
      BY Zenon DEF Fragment
    <2> HIDE DEF none
    <2> QED BY <2>1, <2>2, <2>3
  <1> QED BY <1>1, Zenon DEF Item

LEMMA AppendOK ==
    ASSUME LogInd, NEW block \in Written, AppendBlock(block)
    PROVE  LogInd'
  <1> DEFINE r == record(block)
  <1>1. /\ file \in Seq(Cell) /\ items \in Seq(Item) /\ damage \in Seq(Harm)
    BY DEF LogInd, Typed
  <1>2. PICK at, bl, good : Layout(file, items, damage, at, bl, good)
    BY DEF LogInd
  <1>3. r \in Seq(Cell) /\ Len(r) \in Nat /\ Len(r) >= 1
    <2>1. Len(serialize(block)) \in Nat /\ HashLen \in Nat
      BY BlockRound, LogFormatAssumption
    <2>2. r \in Seq(Cell) /\ Len(r) = 22 + Len(serialize(block)) + HashLen
      BY RecordIs
    <2> QED BY <2>1, <2>2
  <1>4. /\ pc = "closed" /\ UNCHANGED <<pc, pos, length, payload, out>> /\ damage' = damage
        /\ file' = file \o r /\ items' = Append(items, Record(block))
    BY DEF AppendBlock
  <1>5. Record(block) = ItemOf(block, Len(r)) /\ Record(block) \in Item
    BY Zenon DEF ItemOf, Item
  <1> HIDE DEF r
  <1>6. \E at2, bl2, good2 : Layout(file \o r, Append(items, Record(block)), damage', at2, bl2, good2)
    <2>1. Len(r) \in 1 .. Len(r) /\ Len(r) = Len(record(block)) /\ (\A j \in 1 .. Len(r) : r[j] = record(block)[j])
      BY <1>3 DEF r
    <2> QED BY <1>1, <1>2, <1>3, <1>4, <1>5, <2>1, LayoutAppend
  <1>7. file' \in Seq(Cell) /\ items' \in Seq(Item) /\ damage' \in Seq(Harm)
    BY <1>1, <1>3, <1>4, <1>5
  <1> QED BY <1>4, <1>6, <1>7, ClosedPlace

LEMMA CutOK ==
    ASSUME LogInd, NEW block \in Written, NEW n \in Sizes, AppendCut(block, n)
    PROVE  LogInd'
  <1> DEFINE r == record(block)
             part == SubSeq(r, 1, n)
             dmg2 == Append(damage, "cut")
  <1>1. /\ file \in Seq(Cell) /\ items \in Seq(Item) /\ damage \in Seq(Harm)
    BY DEF LogInd, Typed
  <1>2. PICK at, bl, good : Layout(file, items, damage, at, bl, good)
    BY DEF LogInd
  <1>3. r \in Seq(Cell) /\ Len(r) \in Nat
    <2>1. r \in Seq(Cell)
      BY RecordIs
    <2> QED BY <2>1, SeqElement
  <1>4. /\ pc = "closed" /\ UNCHANGED <<pc, pos, length, payload, out>> /\ damage' = dmg2
        /\ file' = file \o part /\ items' = Append(items, CutAt(n)) /\ n < Len(r)
    BY DEF AppendCut
  <1>5. n \in Nat /\ n >= 1
    <2>1. \A M : \A x \in 1 .. M : x \in Int /\ x >= 1
      OBVIOUS
    <2> QED BY <2>1 DEF Sizes
  <1> HIDE DEF r
  <1>6. part \in Seq(Cell) /\ Len(part) = n /\ \A j \in 1 .. n : part[j] = r[j]
    <2>1. part = SubSeq(r, 0 + 1, n) /\ n - 0 = n
      BY <1>5
    <2>2. 0 \in Nat /\ 0 <= n /\ n <= Len(r)
      BY <1>3, <1>4, <1>5
    <2>3. /\ SubSeq(r, 0 + 1, n) \in Seq(Cell) /\ Len(SubSeq(r, 0 + 1, n)) = n - 0
          /\ \A j \in 1 .. n - 0 : SubSeq(r, 0 + 1, n)[j] = r[0 + j]
      BY <1>3, <1>5, <2>2, PartOfFile
    <2>4. \A j \in 1 .. n : 0 + j = j
      BY <1>5
    <2> QED BY <2>1, <2>3, <2>4
  <1> HIDE DEF part
  <1>7. CutAt(n) = ItemOf(block, n) /\ CutAt(n) \in Item
    <2>1. n # Len(record(block))
      BY <1>3, <1>4, <1>5 DEF r
    <2> QED BY <2>1, CutIsItem, Zenon DEF ItemOf
  <1>8. /\ dmg2 \in Seq(Harm) /\ Len(dmg2) = Len(damage) + 1 /\ Len(damage) \in Nat
        /\ \A d \in 1 .. Len(damage) : dmg2[d] = damage[d]
    BY <1>1 DEF Harm
  <1> HIDE DEF dmg2
  <1>9. (Changed(damage) => Changed(dmg2)) /\ Len(dmg2) # 0
    BY <1>8 DEF Changed
  <1>10. \E at2, bl2, good2 : Layout(file \o part, Append(items, CutAt(n)), dmg2, at2, bl2, good2)
    <2>1. /\ Len(part) \in 1 .. Len(record(block))
          /\ \A j \in 1 .. Len(part) : part[j] = record(block)[j]
          /\ CutAt(n) = ItemOf(block, Len(part))
      BY <1>3, <1>4, <1>5, <1>6, <1>7 DEF r
    <2> QED BY <1>1, <1>2, <1>6, <1>7, <1>9, <2>1, LayoutAppend
  <1>11. file' \in Seq(Cell) /\ items' \in Seq(Item) /\ damage' \in Seq(Harm)
    BY <1>1, <1>4, <1>6, <1>7, <1>8
  <1> QED BY <1>4, <1>10, <1>11, ClosedPlace

LEMMA ChangeOK ==
    ASSUME LogInd, NEW i \in DOMAIN items, NEW n \in Sizes, Change(i, n)
    PROVE  LogInd'
  <1>1. /\ file \in Seq(Cell) /\ items \in Seq(Item) /\ damage \in Seq(Harm)
    BY DEF LogInd, Typed
  <1>2. PICK at, bl, good : Layout(file, items, damage, at, bl, good)
    BY DEF LogInd
  <1> DEFINE m == Len(items)
             blk(j) == items[j].payload[1]
             before == FlattenSeq([j \in 1 .. i - 1 |-> record(blk(j))])
             spot == Len(before) + n
             new == (file[spot].byte + 1) % Base
             f2 == [file EXCEPT ![spot].byte = new]
  <1>3. /\ pc = "closed" /\ UNCHANGED <<pc, pos, length, payload, out>> /\ damage = <<>>
        /\ n <= Len(record(blk(i))) /\ file' = f2
        /\ items' = [items EXCEPT ![i] = CutAt(n - 1)] /\ damage' = <<"changed">>
    BY Zenon DEF Change
  <1>4. n \in Nat /\ n >= 1
    <2>1. \A M : \A x \in 1 .. M : x \in Int /\ x >= 1
      OBVIOUS
    <2> QED BY <2>1 DEF Sizes
  <1>5. m \in Nat /\ i \in 1 .. m /\ Len(file) \in Nat /\ DOMAIN file = 1 .. Len(file)
    BY <1>1, SeqElement
  <1>6. Len(damage) = 0
    <2>1. Len(<<>>) = 0
      OBVIOUS
    <2> QED BY <1>3, <2>1, Zenon
  <1>7. /\ Marks(at, m) /\ at[m] = Len(file) /\ bl \in [1 .. m -> Written]
        /\ \A k \in 1 .. m : good[k] = Len(record(bl[k]))
    BY <1>2, <1>6 DEF Layout
  <1>8. \A k \in 1 .. m : /\ items[k] = Record(bl[k]) /\ at[k] - at[k - 1] = Len(record(bl[k]))
                          /\ at[k] \in Nat /\ at[k - 1] \in Nat /\ at[k] <= Len(file)
    <2>1. ASSUME NEW k \in 1 .. m
          PROVE  /\ items[k] = Record(bl[k]) /\ at[k] - at[k - 1] = Len(record(bl[k]))
                 /\ at[k] \in Nat /\ at[k - 1] \in Nat /\ at[k] <= Len(file)
      <3>1. IsPiece(file, items, at, bl, good, k)
        BY <1>1, <1>2, PieceIs
      <3> DEFINE L == Len(serialize(bl[k]))
      <3>2. /\ at[k] \in Nat /\ at[k - 1] \in Nat /\ at[k] <= Len(file) /\ L \in Nat /\ good[k] \in Nat
            /\ Len(record(bl[k])) = 22 + L + HashLen /\ at[k] - at[k - 1] <= 22 + L + HashLen
            /\ good[k] <= at[k] - at[k - 1] /\ items[k] = ItemOf(bl[k], good[k])
        BY <3>1, Zenon DEF IsPiece
      <3>3. items[k] = Record(bl[k])
        BY <1>7, <3>2, Zenon DEF ItemOf
      <3> HIDE DEF L
      <3>4. at[k] - at[k - 1] = Len(record(bl[k]))
        <4>1. good[k] = Len(record(bl[k])) /\ HashLen \in Nat
          BY <1>7, LogFormatAssumption
        <4> QED BY <3>2, <4>1
      <3> QED BY <3>2, <3>3, <3>4
    <2> QED BY <2>1
  <1>9. \A k \in 1 .. m : blk(k) = bl[k]
    <2>1. \A b : Record(b).payload[1] = b
      BY DEF Record
    <2> QED BY <1>8, <2>1
  <1> HIDE DEF blk, m
  <1>10. Len(before) = at[i - 1]
    <2>1. i - 1 \in 0 .. m /\ \A j \in 1 .. i - 1 : j \in 1 .. m
      BY <1>5
    <2>2. [j \in 1 .. i - 1 |-> record(blk(j))] = [j \in 1 .. i - 1 |-> record(bl[j])]
      BY <1>9, <2>1
    <2>3. \A recs : recs = [j \in 1 .. i - 1 |-> record(bl[j])]
                      => Len(FlattenSeq(recs)) = at[i - 1]
      <3>1. \A k \in 1 .. m : at[k] - at[k - 1] = Len(record(bl[k]))
        BY <1>8
      <3>2. WholeMarks(at, bl, m)
        BY <3>1, Zenon DEF WholeMarks
      <3> QED BY <1>5, <1>7, <2>1, <3>2, RecordsEnd
    <2> QED BY <2>2, <2>3, Zenon
  <1> HIDE DEF before
  <1>11. spot = at[i - 1] + n
    BY <1>10
  <1>12. spot \in 1 .. Len(file) /\ n \in 1 .. Len(record(bl[i]))
    <2>1. n <= Len(record(bl[i]))
      BY <1>3, <1>5, <1>9
    <2>2. at[i] - at[i - 1] = Len(record(bl[i])) /\ at[i] \in Nat /\ at[i - 1] \in Nat /\ at[i] <= Len(file)
      BY <1>5, <1>8
    <2> HIDE DEF spot
    <2> QED BY <1>4, <1>5, <1>11, <2>1, <2>2, SMTT(30)
  <1>f. f2 = [file EXCEPT ![spot].byte = new] /\ new = (file[spot].byte + 1) % Base
    OBVIOUS
  <1> HIDE DEF spot, f2, new
  <1>13. /\ f2 \in Seq(Cell) /\ Len(f2) = Len(file) /\ f2[spot].byte # file[spot].byte
         /\ f2[spot].digest_of = file[spot].digest_of
         /\ \A j \in 1 .. Len(file) : j # spot => f2[j] = file[j]
    <2>1. file[spot] \in Cell /\ \A j \in 1 .. Len(file) : file[j] \in Cell
      BY <1>1, <1>12, SeqElement
    <2>2. file[spot].byte \in Nat /\ file[spot].byte < Base /\ Base \in Nat /\ Base > 1
      BY <2>1, LogFormatAssumption DEF Cell, Byte
    <2>3. \A x, b \in Nat : x < b /\ b > 1 => (x + 1) % b \in 0 .. b - 1 /\ (x + 1) % b # x
      <3>1. ASSUME NEW x \in Nat, NEW b \in Nat, x < b, b > 1
            PROVE  (x + 1) % b \in 0 .. b - 1 /\ (x + 1) % b # x
        <4>1. CASE x + 1 < b
          <5>1. (x + 1) % b = x + 1
            BY <3>1, <4>1
          <5> QED BY <3>1, <4>1, <5>1
        <4>2. CASE x + 1 = b
          <5>1. b % b = 0
            BY <3>1
          <5> QED BY <3>1, <4>2, <5>1
        <4> QED BY <3>1, <4>1, <4>2
      <3> QED BY <3>1
    <2>4. new \in Byte /\ new # file[spot].byte
      BY <1>f, <2>2, <2>3 DEF Byte
    <2> DEFINE cell == [file[spot] EXCEPT !.byte = new]
    <2>5. cell \in Cell /\ cell.byte = new /\ cell.digest_of = file[spot].digest_of
      BY <2>1, <2>4 DEF Cell
    <2>6. f2 = [file EXCEPT ![spot] = cell]
      BY <1>f
    <2> HIDE DEF cell
    <2>7. f2 \in Seq(Cell) /\ Len(f2) = Len(file)
      BY <1>1, <1>12, <2>5, <2>6
    <2>8. f2[spot] = cell /\ \A j \in 1 .. Len(file) : j # spot => f2[j] = file[j]
      BY <1>5, <1>12, <2>6
    <2> QED BY <2>4, <2>5, <2>7, <2>8
  <1>14. /\ damage' \in Seq(Harm) /\ Len(damage') # 0 /\ Changed(damage')
    <2>1. <<"changed">> \in Seq(Harm) /\ Len(<<"changed">>) = 1 /\ <<"changed">>[1] = "changed"
      BY DEF Harm
    <2>2. damage' \in Seq(Harm) /\ Len(damage') = 1 /\ damage'[1] = "changed"
      BY <1>3, <2>1, Zenon
    <2> QED BY <2>2 DEF Changed
  <1>15. \E good2 : Layout(f2, [items EXCEPT ![i] = CutAt(n - 1)], damage', at, bl, good2)
    <2>1. i \in 1 .. Len(items)
      BY <1>5 DEF m
    <2>2. /\ f2[at[i - 1] + n].byte # file[at[i - 1] + n].byte
          /\ f2[at[i - 1] + n].digest_of = file[at[i - 1] + n].digest_of
          /\ \A j \in 1 .. Len(file) : j # at[i - 1] + n => f2[j] = file[j]
      BY <1>11, <1>13, Zenon
    <2>3. ByteChanged(file, f2, at[i - 1] + n)
      BY <2>2, Zenon DEF ByteChanged
    <2> QED BY <1>1, <1>2, <1>6, <1>12, <1>13, <1>14, <2>1, <2>3, LayoutChange
  <1>16. items' \in Seq(Item)
    <2>1. CutAt(n - 1) \in Item
      BY CutIsItem
    <2> QED BY <1>1, <1>3, <2>1
  <1>17. file' \in Seq(Cell) /\ \E at2, bl2, good2 : Layout(file', items', damage', at2, bl2, good2)
    BY <1>3, <1>13, <1>15, Zenon
  <1> QED BY <1>3, <1>14, <1>16, <1>17, ClosedPlace

\* A piece that is a whole record, as the reader meets it.
IsWhole(f, from, to, block) ==
    LET L == Len(serialize(block))
    IN  /\ L \in Nat /\ from \in Nat /\ to = from + 22 + L + HashLen /\ to <= Len(f)
        /\ \A j \in 1 .. 14 : f[from + j].byte = RecordStart[j]
        /\ \A s \in Seq(Byte) :
              Len(s) = 8 /\ (\A j \in 1 .. 8 : s[j] = f[from + 14 + j].byte) => le_value(s) = L
        /\ \A p \in Seq(Byte) :
              Len(p) = L /\ (\A j \in 1 .. L : p[j] = f[from + 22 + j].byte)
                 => p = serialize(block)
        /\ \A j \in 1 .. HashLen : f[from + 22 + L + j] = sha256(serialize(block))[j]
LEMMA WholePiece ==
    ASSUME NEW f \in Seq(Cell), NEW its \in Seq(Item), NEW dmg,
           NEW at, NEW bl, NEW good, Layout(f, its, dmg, at, bl, good),
           NEW i \in 1 .. Len(its), good[i] = Len(record(bl[i]))
    PROVE  IsWhole(f, at[i - 1], at[i], bl[i])
  <1> DEFINE from == at[i - 1]
             to == at[i]
             b == bl[i]
             r == record(b)
             L == Len(serialize(b))
             g == good[i]
             p0 == serialize(b)
  <1>1. IsPiece(f, its, at, bl, good, i) /\ AreGood(f, from, b, g) /\ g = Len(r)
    BY PieceIs, GoodBytes, Zenon
  <1>2. /\ b \in Written /\ g \in Nat /\ from \in Nat /\ to \in Nat /\ L \in Nat /\ to <= Len(f)
        /\ Len(r) = 22 + L + HashLen /\ to - from <= 22 + L + HashLen /\ g <= to - from
        /\ Len(f) \in Nat
    BY <1>1, Zenon DEF IsPiece
  <1>3. \A j \in 1 .. Len(r) : /\ f[from + j].byte = r[j].byte
                               /\ f[from + j].digest_of = r[j].digest_of
    <2>1. Piece(f, its, dmg, i, from, to, b, g)
      BY DEF Layout
    <2>2. \A j \in 1 .. g : f[from + j].byte = r[j].byte
      BY <2>1 DEF Piece
    <2>3. \A j \in 1 .. to - from : f[from + j].digest_of = r[j].digest_of
      BY <2>1 DEF Piece
    <2>4. g = to - from
      BY <1>1, <1>2
    <2> QED BY <1>1, <2>2, <2>3, <2>4, Zenon
  <1>4. r \in Seq(Cell) /\ \A j \in 1 .. HashLen : r[22 + L + j] = sha256(p0)[j]
    BY <1>2, RecordIs
  <1>h. HashLen \in Nat
    BY LogFormatAssumption
  <1> HIDE DEF from, to, b, r, L, g, p0
  <1>5. to = from + 22 + L + HashLen
    BY <1>1, <1>2, <1>h
  <1>6. 22 <= g /\ 22 + L <= g /\ \A j \in 1 .. 14 : j <= g
    BY <1>1, <1>2, <1>h
  <1>7. ASSUME NEW j \in 1 .. HashLen PROVE f[from + 22 + L + j] = sha256(p0)[j]
    <2> DEFINE x == 22 + L + j
    <2>1. x \in 1 .. Len(r) /\ from + x \in 1 .. Len(f) /\ from + 22 + L + j = from + x
      BY <1>2, <1>5, <1>h
    <2>2. r[x] = sha256(p0)[j]
      BY <1>4
    <2> HIDE DEF x
    <2>3. f[from + x] \in Cell /\ r[x] \in Cell
      BY <1>4, <2>1, SeqElement
    <2>4. f[from + x].byte = r[x].byte /\ f[from + x].digest_of = r[x].digest_of
      BY <1>3, <2>1
    <2>5. \A c \in Cell : c = [byte |-> c.byte, digest_of |-> c.digest_of]
      BY DEF Cell
    <2>6. f[from + x] = r[x]
      BY <2>3, <2>4, <2>5, Zenon
    <2> QED BY <2>1, <2>2, <2>6, Zenon
  <1>8. \A j \in 1 .. 14 : f[from + j].byte = RecordStart[j]
    BY <1>1, <1>6, Zenon DEF AreGood
  <1>9. \A s \in Seq(Byte) :
           Len(s) = 8 /\ (\A j \in 1 .. 8 : s[j] = f[from + 14 + j].byte) => le_value(s) = L
    BY <1>1, <1>6, Zenon DEF AreGood, L
  <1>10. \A p \in Seq(Byte) :
            Len(p) = L /\ (\A j \in 1 .. L : p[j] = f[from + 22 + j].byte) => p = p0
    BY <1>1, <1>6, Zenon DEF AreGood, L, p0
  <1> QED BY <1>2, <1>5, <1>7, <1>8, <1>9, <1>10, Zenon DEF IsWhole, L, p0, from, to, b

\* What a step of the reader leaves alone.
LEMMA ReadingStep ==
    ASSUME LogInd, UNCHANGED fileVars, NEW at, NEW bl, NEW good,
           Layout(file, items, damage, at, bl, good), Place(at, bl, good)',
           pc' \in {"closed", "peek", "payload", "check", "done", "threw", "unopened"},
           pos' \in 0 .. Len(file), length' \in Nat, payload' \in Seq(Byte), out' \in Seq(Written)
    PROVE  LogInd'
  <1>1. file' = file /\ items' = items /\ damage' = damage
    BY DEF fileVars
  <1>2. Typed'
    BY <1>1 DEF LogInd, Typed
  <1>3. Layout(file', items', damage', at, bl, good)
    BY <1>1
  <1> QED BY <1>2, <1>3, Zenon DEF LogInd

\* Where the reader leaves its loop without a throw, no whole record is ahead.
LEMMA LeaveOK ==
    ASSUME LogInd, NEW at, NEW bl, NEW good,
           Layout(file, items, damage, at, bl, good), Place(at, bl, good), Go("done"),
           Len(out) < Len(items) => good[Len(out) + 1] # Len(record(bl[Len(out) + 1]))
    PROVE  LogInd'
  <1>1. pc' = "done" /\ UNCHANGED <<fileVars, pos, length, payload, out>>
    BY DEF Go
  <1>2. file' = file /\ items' = items /\ damage' = damage /\ UNCHANGED <<pos, length, payload, out>>
    BY <1>1 DEF fileVars
  <1>3. Place(at, bl, good)'
    BY <1>1, <1>2 DEF Place
  <1> QED BY <1>1, <1>2, <1>3, ReadingStep DEF LogInd, Typed

LEMMA OpenOK ==
    ASSUME LogInd, Open \/ OpenFails
    PROVE  LogInd'
  <1>1. PICK at, bl, good : Layout(file, items, damage, at, bl, good) /\ Place(at, bl, good)
    BY DEF LogInd
  <1>2. pc = "closed" /\ pc' \in {"peek", "unopened"}
        /\ UNCHANGED <<fileVars, pos, length, payload, out>>
    BY DEF Open, OpenFails, Go
  <1>3. file' = file /\ items' = items /\ damage' = damage /\ UNCHANGED <<pos, length, payload, out>>
    BY <1>2 DEF fileVars
  <1>4. pos = 0 /\ Len(out) = 0
    BY <1>1, <1>2 DEF Place
  <1>5. at[0] = 0
    BY <1>1 DEF Layout, Marks
  <1>6. Place(at, bl, good)'
    BY <1>1, <1>2, <1>3, <1>4, <1>5 DEF Place
  <1> QED BY <1>1, <1>2, <1>3, <1>6, ReadingStep DEF LogInd, Typed

LEMMA CloseOK ==
    ASSUME LogInd, Close
    PROVE  LogInd'
  <1>1. PICK at, bl, good : Layout(file, items, damage, at, bl, good)
    BY DEF LogInd
  <1>2. pc' = "closed" /\ UNCHANGED fileVars /\ pos' = 0 /\ length' = 0 /\ payload' = <<>> /\ out' = <<>>
    BY DEF Close
  <1>3. payload' \in Seq(Byte) /\ out' \in Seq(Written) /\ Len(out') = 0
    <2>1. Len(<<>>) = 0 /\ \A S : <<>> \in Seq(S)
      OBVIOUS
    <2> QED BY <1>2, <2>1, Zenon
  <1>4. Len(items') \in Nat /\ 0 \in 0 .. Len(file)
    BY <1>2 DEF LogInd, Typed, fileVars
  <1>5. Place(at, bl, good)'
    BY <1>2, <1>3, <1>4 DEF Place
  <1>6. pos' \in 0 .. Len(file) /\ length' \in Nat
    BY <1>2, <1>4
  <1> QED BY <1>1, <1>2, <1>3, <1>5, <1>6, ReadingStep

LEMMA AtEndOK ==
    ASSUME LogInd, AtEnd
    PROVE  LogInd'
  <1>1. PICK at, bl, good : Layout(file, items, damage, at, bl, good) /\ Place(at, bl, good)
    BY DEF LogInd
  <1>2. pc = "peek" /\ Len(file) - pos = 0 /\ Go("done")
    BY DEF AtEnd, remaining
  <1>3. Len(file) \in Nat /\ Len(items) \in Nat /\ Len(out) \in Nat /\ pos \in Nat
    BY DEF LogInd, Typed
  <1>4. pos = at[Len(out)] /\ Len(out) <= Len(items)
    BY <1>1, <1>2 DEF Place
  <1>5. ~(Len(out) < Len(items))
    <2>1. SUFFICES ASSUME Len(out) < Len(items) PROVE FALSE
      OBVIOUS
    <2>2. Marks(at, Len(items)) /\ at[Len(items)] = Len(file)
      BY <1>1 DEF Layout
    <2>3. Len(out) \in 0 .. Len(items) /\ Len(items) \in 0 .. Len(items)
      BY <1>3, <2>1
    <2>4. at[Len(out)] < at[Len(items)]
      BY <1>3, <2>1, <2>2, <2>3, MarksGrow
    <2> QED BY <1>2, <1>3, <1>4, <2>2, <2>4
  <1> QED BY <1>1, <1>2, <1>5, LeaveOK

\* The piece the reader is in.
Ahead1(at, bl, good) ==
    LET i == Len(out) + 1
    IN  /\ i \in 1 .. Len(items) /\ Len(out) \in Nat /\ i - 1 = Len(out) /\ at[i - 1] = at[Len(out)]
        /\ IsPiece(file, items, at, bl, good, i)
        /\ good[i] = Len(record(bl[i])) => IsWhole(file, at[i - 1], at[i], bl[i])
LEMMA AheadIs ==
    ASSUME LogInd, NEW at, NEW bl, NEW good, Layout(file, items, damage, at, bl, good),
           Len(out) < Len(items)
    PROVE  Ahead1(at, bl, good)
  <1> DEFINE i == Len(out) + 1
  <1>1. file \in Seq(Cell) /\ items \in Seq(Item) /\ Len(out) \in Nat /\ Len(items) \in Nat
    BY DEF LogInd, Typed
  <1>2. i \in 1 .. Len(items) /\ i - 1 = Len(out)
    BY <1>1
  <1> HIDE DEF i
  <1>3. IsPiece(file, items, at, bl, good, i)
    BY <1>1, <1>2, PieceIs
  <1>4. good[i] = Len(record(bl[i])) => IsWhole(file, at[i - 1], at[i], bl[i])
    BY <1>1, <1>2, WholePiece
  <1> QED BY <1>1, <1>2, <1>3, <1>4, Zenon DEF Ahead1, i

LEMMA ReadHeaderOK ==
    ASSUME LogInd, ReadHeader
    PROVE  LogInd'
  <1>1. PICK at, bl, good : Layout(file, items, damage, at, bl, good) /\ Place(at, bl, good)
    BY DEF LogInd
  <1> DEFINE k == Len(out)
             n == Len(items)
             from == at[k]
             head == Bytes(Ahead(1, Len(RecordStart)))
             size == Bytes(Ahead(Len(RecordStart) + 1, HeaderSize))
  <1>2. pc = "peek" /\ Len(file) - pos > 0 /\ HeaderRead(head # RecordStart)
    BY DEF ReadHeader, HeaderRead, remaining
  <1>3. Len(file) \in Nat /\ n \in Nat /\ k \in Nat /\ pos \in Nat /\ file \in Seq(Cell)
    BY DEF LogInd, Typed
  <1>4. pos = from /\ k <= n
    BY <1>1, <1>2 DEF Place
  <1>5. k < n
    <2>1. at[n] = Len(file)
      BY <1>1 DEF Layout
    <2>2. k # n
      BY <1>2, <1>3, <1>4, <2>1
    <2> QED BY <1>3, <1>4, <2>2
  <1>6. Ahead1(at, bl, good)
    BY <1>1, <1>5, AheadIs
  <1>7. pos + 22 <= Len(file) =>
           /\ head \in Seq(Byte) /\ Len(head) = 14 /\ (\A j \in 1 .. 14 : head[j] = file[pos + j].byte)
           /\ size \in Seq(Byte) /\ Len(size) = 8 /\ (\A j \in 1 .. 8 : size[j] = file[pos + 14 + j].byte)
    <2>1. SUFFICES ASSUME pos + 22 <= Len(file)
                   PROVE  /\ head \in Seq(Byte) /\ Len(head) = 14
                          /\ (\A j \in 1 .. 14 : head[j] = file[pos + j].byte)
                          /\ size \in Seq(Byte) /\ Len(size) = 8
                          /\ (\A j \in 1 .. 8 : size[j] = file[pos + 14 + j].byte)
      OBVIOUS
    <2>2. head = Bytes(SubSeq(file, pos + 1, pos + 14))
      BY StartIs DEF Ahead
    <2>3. size = Bytes(SubSeq(file, (pos + 14) + 1, (pos + 14) + 8))
      <3>1. pos + (14 + 1) = (pos + 14) + 1 /\ HeaderSize = 22 /\ (pos + 14) + 8 = pos + 22
        BY <1>3 DEF HeaderSize
      <3> QED BY <3>1, StartIs DEF Ahead
    <2> HIDE DEF head, size
    <2>4. pos + 14 \in Nat /\ pos + 14 <= Len(file) /\ (pos + 14) + 8 <= Len(file)
      BY <1>3, <2>1
    <2>5. head \in Seq(Byte) /\ Len(head) = 14 /\ \A j \in 1 .. 14 : head[j] = file[pos + j].byte
      <3>1. AreBytes(Bytes(SubSeq(file, pos + 1, pos + 14)), file, pos, 14)
        BY <1>3, <2>4, BytesOfFile
      <3> QED BY <2>2, <3>1, Zenon DEF AreBytes
    <2>6. size \in Seq(Byte) /\ Len(size) = 8 /\ \A j \in 1 .. 8 : size[j] = file[(pos + 14) + j].byte
      <3>1. AreBytes(Bytes(SubSeq(file, (pos + 14) + 1, (pos + 14) + 8)), file, pos + 14, 8)
        BY <1>3, <2>4, BytesOfFile
      <3> QED BY <2>3, <3>1, Zenon DEF AreBytes
    <2> QED BY <2>5, <2>6
  <1>8. CASE Len(file) - pos < 22 \/ head # RecordStart
    <2>1. Go("done")
      BY <1>2, <1>8 DEF HeaderRead, remaining, HeaderSize
    <2>2. good[k + 1] # Len(record(bl[k + 1]))
      <3>1. SUFFICES ASSUME good[k + 1] = Len(record(bl[k + 1])) PROVE FALSE
        OBVIOUS
      <3>2. IsWhole(file, from, at[k + 1], bl[k + 1])
        BY <1>6, <3>1, Zenon DEF Ahead1
      <3> DEFINE L == Len(serialize(bl[k + 1]))
      <3>3. /\ L \in Nat /\ at[k + 1] = from + 22 + L + HashLen /\ at[k + 1] <= Len(file)
            /\ \A j \in 1 .. 14 : file[from + j].byte = RecordStart[j]
        BY <3>2, Zenon DEF IsWhole
      <3> HIDE DEF L
      <3>4. pos + 22 <= Len(file)
        <4>1. HashLen \in Nat
          BY LogFormatAssumption
        <4>2. at[k + 1] = pos + 22 + L + HashLen /\ at[k + 1] <= Len(file) /\ L \in Nat
          BY <1>4, <3>3
        <4> QED BY <1>3, <4>1, <4>2
      <3> HIDE DEF head, size
      <3>5. head = RecordStart
        <4>1. /\ head \in Seq(Byte) /\ Len(head) = 14
              /\ \A j \in 1 .. 14 : head[j] = RecordStart[j]
          BY <1>4, <1>7, <3>3, <3>4
        <4> QED BY <4>1, StartIs, SameSeq
      <3> QED BY <1>3, <1>8, <3>4, <3>5
    <2> QED BY <1>1, <2>1, <2>2, LeaveOK
  <1>9. CASE ~(Len(file) - pos < 22 \/ head # RecordStart)
    <2>1. /\ pc' = "payload" /\ length' = le_value(size) /\ pos' = pos + 22
          /\ UNCHANGED <<fileVars, payload, out>>
      BY <1>2, <1>9 DEF HeaderRead, remaining, HeaderSize
    <2> HIDE DEF head, size
    <2>2. pos + 22 <= Len(file)
      BY <1>3, <1>9
    <2>3. /\ size \in Seq(Byte) /\ Len(size) = 8 /\ (\A j \in 1 .. 8 : size[j] = file[pos + 14 + j].byte)
          /\ (\A j \in 1 .. 14 : RecordStart[j] = file[pos + j].byte)
      BY <1>7, <1>9, <2>2
    <2>4. Begun(file, from, length')
      BY <1>3, <1>4, <2>1, <2>2, <2>3 DEF Begun
    <2>5. length' \in Nat
      <3>1. \E f \in [0 .. Len(size) -> Nat] : Sums(f, size) /\ le_value(size) = f[Len(size)]
        BY <2>3, LeIs
      <3> QED BY <2>1, <2>3, <3>1
    <2>6. file' = file /\ items' = items /\ damage' = damage /\ UNCHANGED <<payload, out>>
      BY <2>1 DEF fileVars
    <2>7. Place(at, bl, good)'
      BY <1>1, <1>4, <1>5, <2>1, <2>4, <2>6 DEF Place
    <2>8. pos' \in 0 .. Len(file)
      BY <1>3, <2>1, <2>2
    <2> QED BY <1>1, <2>1, <2>5, <2>6, <2>7, <2>8, ReadingStep DEF LogInd, Typed
  <1> QED BY <1>8, <1>9

LEMMA ResizeThrowsOK ==
    ASSUME LogInd, ResizeThrows
    PROVE  LogInd'
  <1>1. PICK at, bl, good : Layout(file, items, damage, at, bl, good) /\ Place(at, bl, good)
    BY DEF LogInd
  <1> DEFINE i == Len(out) + 1
  <1>2. /\ pc = "payload" /\ length >= Weight[4] /\ pc' = "threw"
        /\ UNCHANGED <<fileVars, pos, length, payload, out>>
    BY DEF ResizeThrows, Go
  <1>3. file' = file /\ items' = items /\ damage' = damage /\ UNCHANGED <<pos, length, payload, out>>
    BY <1>2 DEF fileVars
  <1>4. Len(out) < Len(items) /\ Begun(file, at[Len(out)], length)
    BY <1>1, <1>2 DEF Place
  <1>5. Ahead1(at, bl, good)
    BY <1>1, <1>4, AheadIs
  <1>6. i \in 1 .. Len(items) /\ at[i - 1] = at[Len(out)]
    BY <1>5, Zenon DEF Ahead1
  <1> HIDE DEF i
  <1>7. /\ good[i] # Len(record(bl[i])) /\ items[i].end = "length"
        /\ (i < Len(items) \/ Changed(damage))
    <2>1. file \in Seq(Cell) /\ items \in Seq(Item) /\ length \in Nat
      BY DEF LogInd, Typed
    <2>2. Begun(file, at[i - 1], length)
      BY <1>4, <1>6
    <2> QED BY <1>1, <1>2, <1>6, <2>1, <2>2, HugeIsTorn
  <1>8. Place(at, bl, good)'
    BY <1>1, <1>2, <1>3, <1>4, <1>7 DEF Place, i
  <1> QED BY <1>1, <1>2, <1>3, <1>8, ReadingStep DEF LogInd, Typed

LEMMA ReadPayloadOK ==
    ASSUME LogInd, ReadPayload
    PROVE  LogInd'
  <1>1. PICK at, bl, good : Layout(file, items, damage, at, bl, good) /\ Place(at, bl, good)
    BY DEF LogInd
  <1> DEFINE k == Len(out)
             from == at[k]
             bytes == Bytes(Ahead(1, length))
  <1>2. /\ pc = "payload"
        /\ IF Len(file) - pos < length
           THEN Go("done")
           ELSE /\ pc' = "check" /\ payload' = bytes /\ pos' = pos + length
                /\ UNCHANGED <<fileVars, length, out>>
    BY DEF ReadPayload, remaining
  <1>3. /\ Len(file) \in Nat /\ Len(items) \in Nat /\ k \in Nat /\ pos \in Nat /\ length \in Nat
        /\ file \in Seq(Cell)
    BY DEF LogInd, Typed
  <1>4. k < Len(items) /\ Begun(file, from, length) /\ pos = from + 22
    BY <1>1, <1>2 DEF Place
  <1>5. Ahead1(at, bl, good)
    BY <1>1, <1>4, AheadIs
  <1>6. CASE Len(file) - pos < length
    <2>1. good[k + 1] # Len(record(bl[k + 1]))
      <3>1. SUFFICES ASSUME good[k + 1] = Len(record(bl[k + 1])) PROVE FALSE
        OBVIOUS
      <3>2. IsWhole(file, from, at[k + 1], bl[k + 1])
        BY <1>5, <3>1, Zenon DEF Ahead1
      <3> DEFINE L == Len(serialize(bl[k + 1]))
      <3>3. L \in Nat /\ from \in Nat /\ at[k + 1] = from + 22 + L + HashLen /\ at[k + 1] <= Len(file)
        BY <3>2, Zenon DEF IsWhole
      <3>4. length = L
        <4>1. PICK s \in Seq(Byte) : /\ Len(s) = 8 /\ length = le_value(s)
                                     /\ \A j \in 1 .. 8 : s[j] = file[from + 14 + j].byte
          BY <1>4 DEF Begun
        <4> QED BY <3>2, <4>1, Zenon DEF IsWhole
      <3> HIDE DEF L, from
      <3>5. HashLen \in Nat
        BY LogFormatAssumption
      <3>6. from + 22 + L + HashLen <= Len(file)
        BY <3>3
      <3> QED BY <1>3, <1>4, <1>6, <3>3, <3>4, <3>5, <3>6
    <2> QED BY <1>1, <1>2, <1>6, <2>1, LeaveOK
  <1>7. CASE ~(Len(file) - pos < length)
    <2>1. /\ pc' = "check" /\ payload' = bytes /\ pos' = pos + length
          /\ UNCHANGED <<fileVars, length, out>>
      BY <1>2, <1>7
    <2>2. pos + length <= Len(file)
      BY <1>3, <1>7
    <2>3. AreBytes(Bytes(SubSeq(file, pos + 1, pos + length)), file, pos, length)
      BY <1>3, <2>2, BytesOfFile
    <2>4. /\ payload' \in Seq(Byte) /\ Len(payload') = length
          /\ \A j \in 1 .. length : payload'[j] = file[pos + j].byte
      BY <2>1, <2>3, Zenon DEF AreBytes, Ahead
    <2>5. file' = file /\ items' = items /\ damage' = damage /\ UNCHANGED <<length, out>>
      BY <2>1 DEF fileVars
    <2>6. from \in Nat
      BY <1>4 DEF Begun
    <2> HIDE DEF from
    <2>7. pos' = from + 22 + length /\ \A j \in 1 .. length : payload'[j] = file[from + 22 + j].byte
      BY <1>3, <1>4, <2>1, <2>4, <2>6
    <2>8. Place(at, bl, good)'
      BY <1>1, <1>4, <2>1, <2>4, <2>5, <2>7 DEF Place, from
    <2>9. pos' \in 0 .. Len(file)
      BY <1>3, <2>1, <2>2
    <2> QED BY <1>1, <1>3, <2>1, <2>4, <2>5, <2>8, <2>9, ReadingStep DEF LogInd, Typed
  <1> QED BY <1>6, <1>7

LEMMA ReadCheckOK ==
    ASSUME LogInd, ReadCheck
    PROVE  LogInd'
  <1>1. PICK at, bl, good : Layout(file, items, damage, at, bl, good) /\ Place(at, bl, good)
    BY DEF LogInd
  <1> DEFINE k == Len(out)
             i == k + 1
             from == at[k]
             digest == Ahead(1, HashLen)
             b == bl[i]
             L == Len(serialize(b))
  <1>2. /\ pc = "check"
        /\ IF Len(file) - pos < HashLen \/ digest # sha256(payload)
           THEN Go("done")
           ELSE /\ pc' = IF parse_block(payload) = <<>> THEN "malformed" ELSE "peek"
                /\ pos' = pos + HashLen /\ out' = out \o parse_block(payload)
                /\ UNCHANGED <<fileVars, length, payload>>
    BY DEF ReadCheck, CheckRead, remaining
  <1>3. /\ Len(file) \in Nat /\ Len(items) \in Nat /\ k \in Nat /\ pos \in Nat /\ length \in Nat
        /\ file \in Seq(Cell) /\ items \in Seq(Item) /\ payload \in Seq(Byte) /\ HashLen \in Nat
        /\ out \in Seq(Written)
    BY LogFormatAssumption DEF LogInd, Typed
  <1>4. /\ k < Len(items) /\ Begun(file, from, length) /\ pos = from + 22 + length
        /\ Len(payload) = length /\ \A j \in 1 .. length : payload[j] = file[from + 22 + j].byte
    BY <1>1, <1>2 DEF Place
  <1>5. Ahead1(at, bl, good)
    BY <1>1, <1>4, AheadIs
  <1>6. /\ i \in 1 .. Len(items) /\ at[i - 1] = from /\ IsPiece(file, items, at, bl, good, i)
        /\ good[i] = Len(record(b)) => IsWhole(file, from, at[i], b)
    BY <1>5, Zenon DEF Ahead1
  <1>7. pos + HashLen <= Len(file) =>
           /\ digest \in Seq(Cell) /\ Len(digest) = HashLen
           /\ \A j \in 1 .. HashLen : digest[j] = file[pos + j]
    <2>1. SUFFICES ASSUME pos + HashLen <= Len(file)
                   PROVE  /\ digest \in Seq(Cell) /\ Len(digest) = HashLen
                          /\ \A j \in 1 .. HashLen : digest[j] = file[pos + j]
      OBVIOUS
    <2> DEFINE e == pos + HashLen
    <2>2. e \in Nat /\ pos <= e /\ e - pos = HashLen /\ e <= Len(file)
      BY <1>3, <2>1
    <2> HIDE DEF e
    <2>3. /\ SubSeq(file, pos + 1, e) \in Seq(Cell) /\ Len(SubSeq(file, pos + 1, e)) = e - pos
          /\ \A j \in 1 .. e - pos : SubSeq(file, pos + 1, e)[j] = file[pos + j]
      BY <1>3, <2>2, PartOfFile
    <2>4. digest = SubSeq(file, pos + 1, e)
      BY DEF Ahead, e
    <2> QED BY <2>2, <2>3, <2>4, Zenon
  <1> HIDE DEF digest
  <1>8. from \in Nat
    BY <1>4 DEF Begun
  <1>9. CASE Len(file) - pos < HashLen \/ digest # sha256(payload)
    <2>1. good[i] # Len(record(b))
      <3>1. SUFFICES ASSUME good[i] = Len(record(b)) PROVE FALSE
        OBVIOUS
      <3>2. IsWhole(file, from, at[i], b)
        BY <1>6, <3>1, Zenon
      <3>3. L \in Nat /\ at[i] = from + 22 + L + HashLen /\ at[i] <= Len(file)
        BY <3>2, Zenon DEF IsWhole
      <3>4. length = L
        <4>1. PICK s \in Seq(Byte) : /\ Len(s) = 8 /\ length = le_value(s)
                                     /\ \A j \in 1 .. 8 : s[j] = file[from + 14 + j].byte
          BY <1>4 DEF Begun
        <4> QED BY <3>2, <4>1, Zenon DEF IsWhole
      <3>5. payload = serialize(b)
        <4>1. Len(payload) = L /\ \A j \in 1 .. L : payload[j] = file[from + 22 + j].byte
          BY <1>4, <3>4, Zenon
        <4> QED BY <1>3, <3>2, <4>1, Zenon DEF IsWhole
      <3>6. \A j \in 1 .. HashLen : file[from + 22 + L + j] = sha256(payload)[j]
        BY <3>2, <3>5, Zenon DEF IsWhole
      <3> HIDE DEF L, from
      <3>7. pos = from + 22 + L /\ pos + HashLen <= Len(file)
        BY <1>3, <1>4, <1>8, <3>3, <3>4
      <3>8. \A j \in 1 .. HashLen : digest[j] = sha256(payload)[j]
        BY <1>7, <3>6, <3>7
      <3>9. digest = sha256(payload)
        <4>1. sha256(payload) \in Seq(Cell) /\ Len(sha256(payload)) = HashLen
          BY <1>3, DigestIs
        <4>2. digest \in Seq(Cell) /\ Len(digest) = HashLen
          BY <1>7, <3>7
        <4> QED BY <3>8, <4>1, <4>2, SameSeq
      <3> QED BY <1>3, <1>9, <3>7, <3>9
    <2> QED BY <1>1, <1>2, <1>9, <2>1, LeaveOK
  <1>10. CASE ~(Len(file) - pos < HashLen \/ digest # sha256(payload))
    <2>1. /\ pc' = IF parse_block(payload) = <<>> THEN "malformed" ELSE "peek"
          /\ pos' = pos + HashLen /\ out' = out \o parse_block(payload)
          /\ UNCHANGED <<fileVars, length, payload>>
      BY <1>2, <1>10
    <2>2. digest = sha256(payload) /\ pos + HashLen <= Len(file)
      BY <1>3, <1>10
    <2>3. \A j \in 1 .. HashLen : file[pos + j] = sha256(payload)[j]
      BY <1>7, <2>2
    <2>4. good[i] = Len(record(b)) /\ payload = serialize(b)
      <3>1. Checked(file, at[i - 1], length, payload) /\ Begun(file, at[i - 1], length)
        BY <1>3, <1>4, <1>6, <2>2, <2>3 DEF Checked
      <3>2. file \in Seq(Cell) /\ items \in Seq(Item) /\ length \in Nat /\ i \in 1 .. Len(items)
        BY <1>3, <1>6
      <3>3. Layout(file, items, damage, at, bl, good)
        BY <1>1
      <3> HIDE DEF i
      <3>4. IsRead(bl[i], good[i], payload)
        BY <3>1, <3>2, <3>3, CheckedIsWhole
      <3> QED BY <3>4 DEF IsRead
    <2>5. b \in Written
      BY <1>6, Zenon DEF IsPiece
    <2>6. parse_block(payload) = <<b>>
      BY <2>4, <2>5, BlockRound
    <2>7. out' = out \o <<b>> /\ pc' = "peek"
      <3>1. <<b>> # <<>>
        OBVIOUS
      <3> QED BY <2>1, <2>6, <3>1, Zenon
    <2>8. /\ out' \in Seq(Written) /\ Len(out') = i /\ out'[i] = b
          /\ \A j \in 1 .. k : out'[j] = out[j]
      <3>1. \A x \in Written : \A s \in Seq(Written) :
               /\ s \o <<x>> \in Seq(Written) /\ Len(s \o <<x>>) = Len(s) + 1
               /\ (s \o <<x>>)[Len(s) + 1] = x /\ \A j \in 1 .. Len(s) : (s \o <<x>>)[j] = s[j]
        OBVIOUS
      <3> QED BY <1>3, <2>5, <2>7, <3>1, Zenon
    <2>9. pos' = at[i]
      <3>1. IsWhole(file, from, at[i], b)
        BY <1>6, <2>4, Zenon
      <3>2. L \in Nat /\ at[i] = from + 22 + L + HashLen
        BY <3>1, Zenon DEF IsWhole
      <3>3. length = L
        BY <1>4, <2>4
      <3> QED BY <1>4, <2>1, <3>2, <3>3
    <2>10. file' = file /\ items' = items /\ damage' = damage /\ UNCHANGED <<length, payload>>
      BY <2>1 DEF fileVars
    <2>11. Place(at, bl, good)'
      <3>1. \A j \in 1 .. k : good[j] = Len(record(bl[j])) /\ out[j] = bl[j]
        BY <1>1 DEF Place
      <3>2. \A j \in 1 .. i : j \in 1 .. k \/ j = i
        BY <1>3
      <3> HIDE DEF i
      <3>3. \A j \in 1 .. Len(out') : good[j] = Len(record(bl[j])) /\ out'[j] = bl[j]
        BY <2>4, <2>8, <3>1, <3>2
      <3>4. Len(out') <= Len(items')
        BY <1>3, <1>6, <2>8, <2>10
      <3> QED BY <2>7, <2>8, <2>9, <2>10, <3>3, <3>4 DEF Place
    <2>12. pos' \in 0 .. Len(file)
      BY <1>3, <2>1, <2>2
    <2> QED BY <1>1, <1>3, <2>1, <2>7, <2>8, <2>10, <2>11, <2>12, ReadingStep DEF LogInd, Typed
  <1> QED BY <1>9, <1>10

-----------------------------------------------------------------------------
(* The theorems. *)

\* Every step of append_block, of the disk and of load_all_blocks keeps the file made
\* of pieces of records and the reader in its place.
THEOREM LogInvariant == Spec => []LogInd
  <1>1. ASSUME LogInd, [Next]_vars PROVE LogInd'
    <2>1. ASSUME NEW block \in Written, AppendBlock(block) PROVE LogInd'
      BY <1>1, <2>1, AppendOK
    <2>2. ASSUME NEW block \in Written, NEW n \in Sizes, AppendCut(block, n) PROVE LogInd'
      BY <1>1, <2>2, CutOK
    <2>3. ASSUME NEW i \in DOMAIN items, NEW n \in Sizes, Change(i, n) PROVE LogInd'
      BY <1>1, <2>3, ChangeOK
    <2>4. ASSUME Open \/ OpenFails PROVE LogInd'
      BY <1>1, <2>4, OpenOK
    <2>5. ASSUME AtEnd PROVE LogInd'
      BY <1>1, <2>5, AtEndOK
    <2>6. ASSUME ReadHeader PROVE LogInd'
      BY <1>1, <2>6, ReadHeaderOK
    <2>7. ASSUME ResizeThrows PROVE LogInd'
      BY <1>1, <2>7, ResizeThrowsOK
    <2>8. ASSUME ReadPayload PROVE LogInd'
      BY <1>1, <2>8, ReadPayloadOK
    <2>9. ASSUME ReadCheck PROVE LogInd'
      BY <1>1, <2>9, ReadCheckOK
    <2>10. ASSUME Close PROVE LogInd'
      BY <1>1, <2>10, CloseOK
    <2>11. ASSUME UNCHANGED vars PROVE LogInd'
      BY <1>1, <2>11 DEF vars, fileVars, LogInd, Typed, Place
    <2> QED BY <1>1, <2>1, <2>2, <2>3, <2>4, <2>5, <2>6, <2>7, <2>8, <2>9, <2>10, <2>11 DEF Next
  <1> QED BY <1>1, InitLogInd, PTL DEF Spec

\* Every variable has its type and the reader stays inside the file, whatever was cut
\* or changed: no read of load_all_blocks goes beyond the end.
THEOREM LogTypeOK == Spec => []TypeOK
  <1>1. ASSUME LogInd PROVE TypeOK
    <2>1. Typed
      BY <1>1 DEF LogInd
    <2>2. \A i \in DOMAIN file : file[i].byte \in 0 .. Base - 1
      <3>1. \A i \in DOMAIN file : file[i] \in Cell
        BY <2>1 DEF Typed
      <3>2. \A c \in Cell : c.byte \in 0 .. Base - 1
        BY DEF Cell, Byte
      <3> QED BY <3>1, <3>2, Zenon
    <2>3. \A i \in DOMAIN items : items[i] \in Fragment \cup {Record(b) : b \in Written}
      <3>1. \A i \in DOMAIN items : items[i] \in Item
        BY <2>1 DEF Typed
      <3> QED BY <3>1, Zenon DEF Item
    <2> QED BY <2>1, <2>2, <2>3 DEF Typed, Harm, TypeOK
  <1> QED BY <1>1, LogInvariant, PTL

\* A payload with the right check sum is one ByteReader can read, for all blocks.
THEOREM LogNeverMalformed == Spec => []NeverMalformed
  <1>1. ASSUME LogInd PROVE NeverMalformed
    BY <1>1 DEF LogInd, Typed, NeverMalformed
  <1> QED BY <1>1, LogInvariant, PTL

\* Where the reader stopped is where the first fragment is.
LEMMA StopsAt ==
    ASSUME NEW at, NEW bl, NEW good, Typed, Layout(file, items, damage, at, bl, good),
           Place(at, bl, good), pc \in {"done", "threw"}
    PROVE  /\ Readable(items) = Len(out)
           /\ \A j \in 1 .. Len(out) : items[j].payload[1] = out[j]
  <1> DEFINE k == Len(out)
             n == Len(items)
             P(x) == /\ \A i \in 1 .. x : items[i].end = "check"
                     /\ x < n => items[x + 1].end # "check"
  <1>1. file \in Seq(Cell) /\ items \in Seq(Item) /\ k \in Nat /\ n \in Nat
    BY DEF Typed
  <1>2. /\ k <= n /\ (\A j \in 1 .. k : good[j] = Len(record(bl[j])) /\ out[j] = bl[j])
        /\ k < n => good[k + 1] # Len(record(bl[k + 1]))
    BY DEF Place
  <1>3. \A j \in 1 .. n : items[j] = ItemOf(bl[j], good[j])
    <2>1. ASSUME NEW j \in 1 .. n PROVE items[j] = ItemOf(bl[j], good[j])
      <3>1. IsPiece(file, items, at, bl, good, j)
        BY <1>1, PieceIs
      <3> QED BY <3>1, Zenon DEF IsPiece
    <2> QED BY <2>1
  <1> HIDE DEF k, n
  <1>4. ASSUME NEW j \in 1 .. k PROVE items[j].end = "check" /\ items[j].payload[1] = out[j]
    <2>1. j \in 1 .. n
      BY <1>1, <1>2
    <2>2. items[j] = Record(out[j])
      BY <1>2, <1>3, <2>1, Zenon DEF ItemOf
    <2>3. \A b : Record(b).end = "check" /\ Record(b).payload[1] = b
      BY DEF Record
    <2> QED BY <2>2, <2>3
  <1>5. ASSUME k < n PROVE items[k + 1].end # "check"
    <2>1. k + 1 \in 1 .. n
      BY <1>1, <1>5
    <2>2. items[k + 1] = CutAt(good[k + 1])
      BY <1>2, <1>3, <1>5, <2>1, Zenon DEF ItemOf
    <2>3. \A g : CutAt(g).end # "check"
      BY DEF CutAt
    <2> QED BY <2>2, <2>3
  <1>6. P(k) /\ k \in 0 .. n
    BY <1>1, <1>2, <1>4, <1>5
  <1>7. ASSUME NEW x \in 0 .. n, P(x) PROVE x = k
    <2>1. ~(x < k)
      <3>1. SUFFICES ASSUME x < k PROVE FALSE
        OBVIOUS
      <3>2. x + 1 \in 1 .. k /\ x < n
        BY <1>1, <1>2, <3>1
      <3> QED BY <1>4, <1>7, <3>2
    <2>2. ~(k < x)
      <3>1. SUFFICES ASSUME k < x PROVE FALSE
        OBVIOUS
      <3>2. k + 1 \in 1 .. x /\ k < n
        BY <1>1, <1>2, <3>1
      <3> QED BY <1>5, <1>7, <3>2
    <2> QED BY <1>1, <2>1, <2>2
  <1>8. Readable(items) = CHOOSE x \in 0 .. n : P(x)
    BY DEF Readable, n
  <1> HIDE DEF P
  <1>9. (CHOOSE x \in 0 .. n : P(x)) = k
    BY <1>6, <1>7
  <1> QED BY <1>4, <1>8, <1>9, Zenon DEF k

\* load_all_blocks returns exactly the blocks of the whole records in front of the
\* first damage: the reader of module LogFile, which module Node uses, is right about
\* the bytes, for any blocks, any number of records, cuts and one changed byte.
THEOREM LogReadsWholeRecords == Spec => []ReadsWholeRecords
  <1>1. ASSUME LogInd PROVE ReadsWholeRecords
    <2>1. SUFFICES ASSUME pc = "done" PROVE out = load_all_blocks(items)
      BY DEF ReadsWholeRecords
    <2>2. PICK at, bl, good : Layout(file, items, damage, at, bl, good) /\ Place(at, bl, good)
      BY <1>1 DEF LogInd
    <2>3. Typed
      BY <1>1 DEF LogInd
    <2>4. Readable(items) = Len(out) /\ \A j \in 1 .. Len(out) : items[j].payload[1] = out[j]
      BY <2>1, <2>2, <2>3, StopsAt
    <2>5. load_all_blocks(items) = [j \in 1 .. Len(out) |-> items[j].payload[1]]
      BY <2>4, Zenon DEF load_all_blocks
    <2>6. load_all_blocks(items) = [j \in 1 .. Len(out) |-> out[j]]
      BY <2>4, <2>5
    <2>7. out = [j \in 1 .. Len(out) |-> out[j]]
      BY <2>3 DEF Typed
    <2> QED BY <2>6, <2>7
  <1> QED BY <1>1, LogInvariant, PTL

\* payload.resize is asked for four gigabytes only where module LogFile says so: a
\* length field was cut and something follows, or a byte of the field changed.
THEOREM LogThrowsOnTornLength == Spec => []ThrowsOnTornLength
  <1>1. ASSUME LogInd PROVE ThrowsOnTornLength
    <2>1. SUFFICES ASSUME pc = "threw"
                   PROVE  \/ MayThrow(items)
                          \/ "changed" \in Range(damage) /\ items[Readable(items) + 1].end = "length"
      BY DEF ThrowsOnTornLength
    <2>2. PICK at, bl, good : Layout(file, items, damage, at, bl, good) /\ Place(at, bl, good)
      BY <1>1 DEF LogInd
    <2>3. Typed
      BY <1>1 DEF LogInd
    <2>4. Readable(items) = Len(out)
      BY <2>1, <2>2, <2>3, StopsAt
    <2>5. items[Len(out) + 1].end = "length" /\ (Len(out) + 1 < Len(items) \/ Changed(damage))
      BY <2>1, <2>2 DEF Place
    <2>6. Changed(damage) => "changed" \in Range(damage)
      <3>1. DOMAIN damage = 1 .. Len(damage)
        BY <2>3 DEF Typed
      <3> QED BY <3>1 DEF Changed, Range
    <2> QED BY <2>4, <2>5, <2>6, Zenon DEF MayThrow
  <1> QED BY <1>1, LogInvariant, PTL

\* Every block that load_all_blocks returns, or had returned when it threw, is one that
\* append_block was called with: damage loses blocks and never makes one up.
OnlyWritten == \A i \in DOMAIN out : out[i] \in Written
THEOREM LogOnlyWritten == Spec => []OnlyWritten
  <1>1. ASSUME LogInd PROVE OnlyWritten
    BY <1>1 DEF LogInd, Typed, OnlyWritten
  <1> QED BY <1>1, LogInvariant, PTL

\* What is signed tells transactions apart, and is the same after reading: the
\* lengths in front of key and label make the signed bytes readable in one way only.
THEOREM LogSigningBytesTell == Spec => []SigningBytesTell
  <1>1. ASSUME NEW t \in Transaction, NEW u \in Transaction
        PROVE  serialize_transaction(t, TRUE) = serialize_transaction(u, TRUE)
                  <=> Unsigned(t) = Unsigned(u)
    <2>1. ASSUME serialize_transaction(t, TRUE) = serialize_transaction(u, TRUE)
          PROVE  Unsigned(t) = Unsigned(u)
      <3>1. \A tx \in Transaction :
               parse_transaction(serialize_transaction(tx, TRUE)) = <<Unsigned(tx)>>
        BY TxRound
      <3>2. <<Unsigned(t)>> = <<Unsigned(u)>>
        BY <2>1, <3>1, Zenon
      <3>3. \A x, y : <<x>> = <<y>> => x = y
        OBVIOUS
      <3> QED BY <3>2, <3>3, Zenon
    <2>2. ASSUME Unsigned(t) = Unsigned(u)
          PROVE  serialize_transaction(t, TRUE) = serialize_transaction(u, TRUE)
      <3> DEFINE none == <<>>
      <3>1. \A tx \in Transaction : Unsigned(tx) = [tx EXCEPT !.signature = none]
        BY Zenon DEF Unsigned
      <3> HIDE DEF none
      <3>2. \A tx \in Transaction :
               /\ Unsigned(tx).version = tx.version /\ Unsigned(tx).nonce = tx.nonce
               /\ Unsigned(tx).amount = tx.amount /\ Unsigned(tx).from_pub_pem = tx.from_pub_pem
               /\ Unsigned(tx).to_label = tx.to_label
        BY <3>1 DEF Transaction
      <3>3. /\ t.version = u.version /\ t.nonce = u.nonce /\ t.amount = u.amount
            /\ t.from_pub_pem = u.from_pub_pem /\ t.to_label = u.to_label
        BY <2>2, <3>2, Zenon
      <3> QED BY <3>3, Zenon DEF serialize_transaction, TxStart
    <2> QED BY <2>1, <2>2
  <1>2. ASSUME LogInd PROVE SigningBytesTell
    <2>1. \A i \in DOMAIN out : out[i] \in Written
      BY <1>2 DEF LogInd, Typed
    <2>2. \A block \in Written : \A t \in Range(block.transactions) : t \in Transaction
      <3>1. ASSUME NEW block \in Written, NEW t \in Range(block.transactions) PROVE t \in Transaction
        <4>1. block.transactions \in Seq(Transaction)
          BY WrittenAssumption DEF Block
        <4> QED BY <4>1 DEF Range
      <3> QED BY <3>1
    <2> QED BY <1>1, <2>1, <2>2, Zenon DEF SigningBytesTell
  <1> QED BY <1>2, LogInvariant, PTL

=============================================================================
