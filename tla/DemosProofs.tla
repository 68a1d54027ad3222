---------------------------- MODULE DemosProofs -----------------------------
(***************************************************************************)
(* Proofs about Demos and the OpenSSL calls of Crypto under it: for every  *)
(* set of hashes, difficulties and clock readings, and for any number of   *)
(* failing calls where a theorem does not say otherwise.                   *)
(***************************************************************************)
EXTENDS Demos, SequenceTheorems, FiniteSetTheorems, NaturalsInduction,
        WellFoundedInduction, TLAPS

\* The handles a function holds before its call n when no call failed.
Held(f, n) ==
    CASE f = "crypto_init" -> {}
      [] f = "generate_ec_keypair" ->
            (IF n > 1 THEN {"ctx"} ELSE {}) \cup (IF n > 4 THEN {"key"} ELSE {})
            \cup (IF n \in {6, 7, 9, 10} THEN {"bio"} ELSE {})
      [] f \in {"sign_message", "verify_message"} ->
            (IF n > 1 THEN {"bio"} ELSE {}) \cup (IF n > 2 THEN {"key"} ELSE {})
            \cup (IF n > 3 THEN {"ctx"} ELSE {})
      [] f = "sha256" -> IF n > 1 THEN {"md"} ELSE {}

\* Those among them that have a guard: all but sha256's context.
Owned(f, n) == IF f = "sha256" THEN {} ELSE Held(f, n)

\* A function that runs has all its handles, and they their guards, or it is
\* sign_message on its way to DigestSignInit without a key.  Whatever failed is
\* counted.
Underway ==
    /\ fn = "none" => owned = {}
    /\ fn # "none" => /\ result = "none"
                      /\ ~erred => live = Held(fn, at) /\ owned = Owned(fn, at)
                      /\ erred => /\ fn = "sign_message" /\ at \in {2, 3, 4}
                                  /\ "key" \notin live /\ (at = 2 => live = {})
                                  /\ live \subseteq owned
    /\ erred => failures > 0
CryptoInd == NoLeak /\ FailsClosed /\ Underway

\* The steps the program is past, and those among them whose hash it kept: not the
\* ones that only check, nor the parent of a block that has none.
Past == {Program[prog][i] : i \in 1 .. step - 1}
Kept == (Past \cap Hashing) \ ({"tip", "vroot1"} \cup IF height = 0 THEN {"prev"} ELSE {})

\* The hashes that were lost to a failing call, and a failure whose result is not
\* taken yet.
Lost == {s \in Kept : val[s] = Zero}
Failing == erred /\ (fn # "none" \/ result # "none")

\* A hash that was not lost is that of its input.
Recorded == \A s \in Kept \ Lost : val[s] = Input(s)

\* mine_block took a header whose hash it did not get.
Unmined == "mine" \in Past /\ hash = <<>>

\* Every loss has its own failing call, told apart up to the second one.
LossesCounted ==
    /\ failures = 0 => Lost = {} /\ ~Unmined
    /\ failures <= 1 => /\ \A s, t \in Lost : s = t
                        /\ Lost # {} => ~Failing /\ ~Unmined
                        /\ Unmined => ~Failing

\* Only the miner demo asks for work, and no function runs at a step left out.
Idle ==
    /\ prog # "mine" => bits = 0
    /\ exit = "running" /\ Skipped => fn = "none" /\ result = "none"

\* What the checks a program is past have shown.
ChecksShow ==
    /\ "vroot0" \in Past /\ failures = 0 => height # 0
    /\ "vroot0" \in Past /\ height # 0 /\ failures <= 1 => val["root0"] = <<"coinbase", "root">>
    /\ "tip" \in Past => height # 0
    /\ "tip" \in Past /\ failures <= 1 => val["prev"] # Zero
    /\ "vroot1" \in Past /\ failures <= 1 => val["root1"] = <<"tx", "root">>
    /\ "mine" \in Past /\ hash # <<>> /\ exit = "running" => leading_zero_bits(hash) >= bits

\* Unless the clock was set back, the second block is no older than the first.
Timed ==
    /\ ~back => time0 <= clock
    /\ \/ "prev" \in Past /\ height # 0
       \/ exit = "running" /\ Step = "prev" /\ (fn # "none" \/ result # "none")
       => time1 >= time0 \/ (prog = "mine" /\ back)

\* AcceptedIsRight, but for what the number of leading zero bits means.
AcceptedIsChecked ==
    exit = "0" /\ prog \in {"demo_chain", "mine"} /\ failures <= 1 =>
        /\ height = 2
        /\ val["root0"] = <<"coinbase", "root">> /\ val["root1"] = <<"tx", "root">>
        /\ val["prev"] = <<"coinbase", "root", "header">>
        /\ bits > 0 => hash # <<>> /\ leading_zero_bits(hash) >= bits

\* Nothing is on the chain before the genesis block was checked, and that block only
\* while the program runs.
Heights == exit = "running" => height # 2 /\ ("vroot0" \notin Past => height = 0)

DemosInd ==
    /\ TypeOK /\ Heights /\ CryptoInd /\ Idle
    /\ Recorded /\ LossesCounted /\ ChecksShow /\ Timed
    /\ AcceptedIsChecked /\ RefusedForCause

-----------------------------------------------------------------------------
\* A call of a script.
Handles == {"bio", "key", "ctx", "md"}
Call == [needs : SUBSET Handles, opens : SUBSET Handles, guards : SUBSET Handles,
         frees : SUBSET Handles, ends : SUBSET Handles,
         failing : {"throw", "false", "zero", "ignore"}, undoes : SUBSET Handles]

\* The elements of two sequences, one behind the other.
LEMMA Joined ==
    ASSUME NEW S, NEW s \in Seq(S), NEW t \in Seq(S)
    PROVE  /\ s \o t \in Seq(S) /\ Len(s \o t) = Len(s) + Len(t)
           /\ \A i \in 1 .. Len(s) : (s \o t)[i] = s[i]
           /\ \A i \in 1 .. Len(t) : (s \o t)[Len(s) + i] = t[i]
  OBVIOUS

\* What a call is to a function that makes it as the n-th of `all`: it lacks no handle
\* that earlier calls yield, and leaves the handles and guards the next one is to
\* find; wherever the function may be left, what is not freed by hand has a guard.
Handed(f, call, n) == (Held(f, n) \cup call.opens) \ call.frees
Watched(f, call, n) == Owned(f, n) \cup call.guards
Fits(f, call, n, all) ==
    /\ call.needs \subseteq Held(f, n)
    /\ n < all => /\ Handed(f, call, n) \ (Watched(f, call, n) \cap call.ends) = Held(f, n + 1)
                  /\ Watched(f, call, n) \ call.ends = Owned(f, n + 1)
    /\ n = all => Handed(f, call, n) \ Watched(f, call, n) = {}
    /\ call.failing # "ignore" => (Held(f, n) \ call.undoes) \ Owned(f, n) = {}

\* What the scripts come to: every call fits, and the two calls whose failure goes
\* unnoticed are those that yield sign_message's key.
Suits(f, s) ==
    /\ s \in Seq(Call) /\ Len(s) > 0
    /\ \A n \in 1 .. Len(s) :
          /\ Fits(f, s[n], n, Len(s))
          /\ s[n].failing = "ignore" <=> f = "sign_message" /\ n \in {1, 2}

\* The one call of crypto_init.
LEMMA InitSuits == Suits("crypto_init", crypto_init)
  <1>1. LET call == Uses({}, "false")
        IN  /\ call \in Call /\ call.needs = {} /\ call.opens = {} /\ call.frees = {}
            /\ call.guards = {} /\ call.failing = "false"
    BY DEF Uses, Call, Handles
  <1> QED BY <1>1 DEF Suits, Fits, Handed, Watched, crypto_init, Held, Owned

\* sha256: the context, and the three calls that use it.
LEMMA Sha256Suits == Suits("sha256", sha256)
  <1> DEFINE open == Opens("md", {}, "zero")
             use  == Undoing
             last == [Undoing EXCEPT !.frees = {"md"}]
             s    == sha256
  <1>1. /\ open \in Call /\ open.needs = {} /\ open.opens = {"md"} /\ open.guards = {}
        /\ open.frees = {} /\ open.ends = {} /\ open.failing = "zero" /\ open.undoes = {}
    BY DEF Opens, Uses, Call, Handles
  <1>2. /\ use \in Call /\ use.needs = {"md"} /\ use.opens = {} /\ use.guards = {}
        /\ use.frees = {} /\ use.ends = {} /\ use.failing = "zero" /\ use.undoes = {"md"}
    BY DEF Undoing, Uses, Call, Handles
  <1>3. /\ last \in Call /\ last.needs = {"md"} /\ last.opens = {} /\ last.guards = {}
        /\ last.frees = {"md"} /\ last.ends = {} /\ last.failing = "zero"
        /\ last.undoes = {"md"}
    BY DEF Undoing, Uses, Call, Handles
  <1>4. s = <<open, use, use, last>>
    BY DEF sha256
  <1> HIDE DEF open, use, last, s
  <1>5. /\ s \in Seq(Call) /\ Len(s) = 4
        /\ s[1] = open /\ s[2] = use /\ s[3] = use /\ s[4] = last
    BY <1>1, <1>2, <1>3, <1>4
  <1>6. /\ Held("sha256", 1) = {} /\ Held("sha256", 2) = {"md"}
        /\ Held("sha256", 3) = {"md"} /\ Held("sha256", 4) = {"md"}
    BY DEF Held
  <1>7. \A n \in 1 .. 5 : Owned("sha256", n) = {}
    BY DEF Owned
  <1>8. /\ Fits("sha256", open, 1, 4) /\ Fits("sha256", use, 2, 4)
        /\ Fits("sha256", use, 3, 4) /\ Fits("sha256", last, 4, 4)
    BY <1>1, <1>2, <1>3, <1>6, <1>7 DEF Fits, Handed, Watched
  <1>9. ASSUME NEW n \in 1 .. 4
        PROVE  Fits("sha256", s[n], n, 4) /\ s[n].failing # "ignore"
    BY <1>1, <1>2, <1>3, <1>5, <1>8
  <1>10. Suits("sha256", s)
    BY <1>5, <1>9 DEF Suits
  <1> QED BY <1>10 DEF s

\* Calls of keys.cpp by what they need, open and guard, by the guards that end with
\* them, and by what a failure does.
Is(call, needs, opens, ends, failing) ==
    /\ call \in Call /\ call.needs = needs /\ call.opens = opens /\ call.guards = opens
    /\ call.frees = {} /\ call.ends = ends /\ call.failing = failing /\ call.undoes = {}

\* A call that uses handles,
LEMMA UsesIs ==
    ASSUME NEW needs \in SUBSET Handles, NEW failing \in {"throw", "false", "zero", "ignore"}
    PROVE  Is(Uses(needs, failing), needs, {}, {}, failing)
  BY DEF Uses, Call, Is

\* and one that also yields a handle, with its guard.
LEMMA GuardedIs ==
    ASSUME NEW needs \in SUBSET Handles, NEW handle \in Handles,
           NEW failing \in {"throw", "false", "zero", "ignore"}
    PROVE  Is(Guarded(handle, needs, failing), needs, {handle}, {}, failing)
  BY DEF Guarded, Opens, Uses, Call, Is

\* Both halves of a script that starts by reading a key.
LEMMA ReadingIs ==
    ASSUME NEW failing \in {"throw", "ignore"}
    PROVE  /\ Reading(failing) \in Seq(Call) /\ Len(Reading(failing)) = 2
           /\ Is(Reading(failing)[1], {}, {"bio"}, {}, failing)
           /\ Is(Reading(failing)[2], {"bio"}, {"key"}, {}, failing)
  <1> DEFINE a == Guarded("bio", {}, failing)
             b == Guarded("key", {"bio"}, failing)
  <1>1. /\ {} \in SUBSET Handles /\ {"bio"} \in SUBSET Handles
        /\ "bio" \in Handles /\ "key" \in Handles
    BY DEF Handles
  <1>2. Is(a, {}, {"bio"}, {}, failing) /\ Is(b, {"bio"}, {"key"}, {}, failing)
    BY <1>1, GuardedIs
  <1>3. Reading(failing) = <<a, b>>
    BY DEF Reading
  <1>4. a \in Call /\ b \in Call
    BY <1>2 DEF Is
  <1> HIDE DEF a, b
  <1> QED BY <1>2, <1>3, <1>4

\* verify_message: the key, the context, and the calls that use both.
LEMMA VerifySuits == Suits("verify_message", verify_message)
  <1> DEFINE a == Guarded("ctx", {}, "throw")
             b == Uses({"ctx", "key"}, "throw")
             c == Uses({"ctx"}, "throw")
             d == Uses({"ctx"}, "false")
             tail == <<a, b, c, d>>
             read == Reading("throw")
             s == verify_message
  <1>1. /\ {} \in SUBSET Handles /\ {"ctx"} \in SUBSET Handles
        /\ {"ctx", "key"} \in SUBSET Handles /\ "ctx" \in Handles
    BY DEF Handles
  <1>2. Is(a, {}, {"ctx"}, {}, "throw")
    BY <1>1, GuardedIs
  <1>3. /\ Is(b, {"ctx", "key"}, {}, {}, "throw") /\ Is(c, {"ctx"}, {}, {}, "throw")
        /\ Is(d, {"ctx"}, {}, {}, "false")
    BY <1>1, UsesIs
  <1>4. s = read \o tail
    BY DEF verify_message
  <1>5. /\ read \in Seq(Call) /\ Len(read) = 2
        /\ Is(read[1], {}, {"bio"}, {}, "throw")
        /\ Is(read[2], {"bio"}, {"key"}, {}, "throw")
    BY ReadingIs
  <1>6. a \in Call /\ b \in Call /\ c \in Call /\ d \in Call
    BY <1>2, <1>3 DEF Is
  <1> HIDE DEF a, b, c, d, read, s
  <1>7. /\ tail \in Seq(Call) /\ Len(tail) = 4
        /\ tail[1] = a /\ tail[2] = b /\ tail[3] = c /\ tail[4] = d
    BY <1>6
  <1> HIDE DEF tail
  <1>8. /\ s \in Seq(Call) /\ Len(s) = 6
        /\ \A i \in 1 .. 2 : s[i] = read[i]
        /\ \A i \in 1 .. 4 : s[2 + i] = tail[i]
    <2>1. read \in Seq(Call) /\ tail \in Seq(Call)
      BY <1>5, <1>7
    <2>2. /\ read \o tail \in Seq(Call) /\ Len(read \o tail) = Len(read) + Len(tail)
          /\ \A i \in 1 .. Len(read) : (read \o tail)[i] = read[i]
          /\ \A i \in 1 .. Len(tail) : (read \o tail)[Len(read) + i] = tail[i]
      BY <2>1
    <2>3. /\ s \in Seq(Call) /\ Len(s) = Len(read) + Len(tail)
          /\ \A i \in 1 .. Len(read) : s[i] = read[i]
          /\ \A i \in 1 .. Len(tail) : s[Len(read) + i] = tail[i]
      BY <1>4, <2>2, Zenon
    <2>4. Len(read) = 2 /\ Len(tail) = 4
      BY <1>5, <1>7
    <2> QED BY <2>3, <2>4
  <1>9. /\ s[1] = read[1] /\ s[2] = read[2]
        /\ s[3] = a /\ s[4] = b /\ s[5] = c /\ s[6] = d
    BY <1>7, <1>8
  <1>10. ASSUME NEW n \in 1 .. 6
         PROVE  /\ Fits("verify_message", s[n], n, 6)
                /\ s[n].failing # "ignore"
    <2>1. n = 1 \/ n = 2 \/ n = 3 \/ n = 4 \/ n = 5 \/ n = 6
      OBVIOUS
    <2> QED BY <1>2, <1>3, <1>5, <1>9, <2>1 DEF Is, Fits, Handed, Watched, Held, Owned
  <1>11. Suits("verify_message", s)
    BY <1>8, <1>10 DEF Suits
  <1> QED BY <1>11 DEF s

\* sign_message cannot have its key without its BIO, nor go on to sign without its key.
LEMMA SignSuits ==
    /\ Suits("sign_message", sign_message) /\ Len(sign_message) = 7
    /\ sign_message[2].needs = {"bio"}
    /\ sign_message[3].opens = {"ctx"} /\ sign_message[3].guards = {"ctx"}
    /\ sign_message[3].frees = {} /\ sign_message[3].ends = {}
    /\ "key" \in sign_message[4].needs
  <1> DEFINE a == Guarded("ctx", {}, "throw")
             b == Uses({"ctx", "key"}, "throw")
             c == Uses({"ctx"}, "throw")
             tail == <<a, b, c, c, c>>
             read == Reading("ignore")
             s == sign_message
  <1>1. /\ {} \in SUBSET Handles /\ {"ctx"} \in SUBSET Handles
        /\ {"ctx", "key"} \in SUBSET Handles /\ "ctx" \in Handles
    BY DEF Handles
  <1>2. Is(a, {}, {"ctx"}, {}, "throw")
    BY <1>1, GuardedIs
  <1>3. Is(b, {"ctx", "key"}, {}, {}, "throw") /\ Is(c, {"ctx"}, {}, {}, "throw")
    BY <1>1, UsesIs
  <1>4. s = read \o tail
    BY DEF sign_message, Sign
  <1>5. /\ read \in Seq(Call) /\ Len(read) = 2
        /\ Is(read[1], {}, {"bio"}, {}, "ignore")
        /\ Is(read[2], {"bio"}, {"key"}, {}, "ignore")
    BY ReadingIs
  <1>6. a \in Call /\ b \in Call /\ c \in Call
    BY <1>2, <1>3 DEF Is
  <1> HIDE DEF a, b, c, read, s
  <1>7. /\ tail \in Seq(Call) /\ Len(tail) = 5
        /\ tail[1] = a /\ tail[2] = b /\ tail[3] = c /\ tail[4] = c /\ tail[5] = c
    BY <1>6
  <1> HIDE DEF tail
  <1>8. /\ s \in Seq(Call) /\ Len(s) = 7
        /\ \A i \in 1 .. 2 : s[i] = read[i]
        /\ \A i \in 1 .. 5 : s[2 + i] = tail[i]
    <2>1. read \in Seq(Call) /\ tail \in Seq(Call)
      BY <1>5, <1>7
    <2>2. /\ read \o tail \in Seq(Call) /\ Len(read \o tail) = Len(read) + Len(tail)
          /\ \A i \in 1 .. Len(read) : (read \o tail)[i] = read[i]
          /\ \A i \in 1 .. Len(tail) : (read \o tail)[Len(read) + i] = tail[i]
      BY <2>1
    <2>3. /\ s \in Seq(Call) /\ Len(s) = Len(read) + Len(tail)
          /\ \A i \in 1 .. Len(read) : s[i] = read[i]
          /\ \A i \in 1 .. Len(tail) : s[Len(read) + i] = tail[i]
      BY <1>4, <2>2, Zenon
    <2>4. Len(read) = 2 /\ Len(tail) = 5
      BY <1>5, <1>7
    <2> QED BY <2>3, <2>4
  <1>9. /\ s[1] = read[1] /\ s[2] = read[2]
        /\ s[3] = a /\ s[4] = b /\ s[5] = c /\ s[6] = c /\ s[7] = c
    BY <1>7, <1>8
  <1>10. ASSUME NEW n \in 1 .. 7
         PROVE  /\ Fits("sign_message", s[n], n, 7)
                /\ s[n].failing = "ignore" <=> n \in {1, 2}
    <2>1. n = 1 \/ n = 2 \/ n = 3 \/ n = 4 \/ n = 5 \/ n = 6 \/ n = 7
      OBVIOUS
    <2> QED BY <1>2, <1>3, <1>5, <1>9, <2>1 DEF Is, Fits, Handed, Watched, Held, Owned
  <1>11. Suits("sign_message", s)
    BY <1>8, <1>10 DEF Suits
  <1>12. /\ s[2].needs = {"bio"} /\ s[3].opens = {"ctx"} /\ s[3].guards = {"ctx"}
         /\ s[3].frees = {} /\ s[3].ends = {} /\ "key" \in s[4].needs
    BY <1>2, <1>3, <1>5, <1>9 DEF Is
  <1> QED BY <1>8, <1>11, <1>12 DEF s

\* generate_ec_keypair: the key, and both its halves through a BIO of their own.
LEMMA GenerateSuits == Suits("generate_ec_keypair", generate_ec_keypair)
  <1> DEFINE a == Guarded("ctx", {}, "throw")
             b == Uses({"ctx"}, "throw")
             c == Guarded("key", {"ctx"}, "throw")
             d == Guarded("bio", {}, "throw")
             e == Uses({"bio", "key"}, "throw")
             f == [Uses({"bio"}, "throw") EXCEPT !.ends = {"bio"}]
             head == <<a, b, b, c>>
             export == <<d, e, f>>
             half == head \o export
             s == generate_ec_keypair
  <1>1. /\ {} \in SUBSET Handles /\ {"ctx"} \in SUBSET Handles /\ {"bio"} \in SUBSET Handles
        /\ {"bio", "key"} \in SUBSET Handles
        /\ "ctx" \in Handles /\ "key" \in Handles /\ "bio" \in Handles
    BY DEF Handles
  <1>2. /\ Is(a, {}, {"ctx"}, {}, "throw") /\ Is(c, {"ctx"}, {"key"}, {}, "throw")
        /\ Is(d, {}, {"bio"}, {}, "throw")
    BY <1>1, GuardedIs
  <1>3. Is(b, {"ctx"}, {}, {}, "throw") /\ Is(e, {"bio", "key"}, {}, {}, "throw")
    BY <1>1, UsesIs
  <1>4. Is(f, {"bio"}, {}, {"bio"}, "throw")
    BY DEF Uses, Is, Call, Handles
  <1>5. s = half \o export
    BY DEF generate_ec_keypair, export_key_pem
  <1>6. a \in Call /\ b \in Call /\ c \in Call /\ d \in Call /\ e \in Call /\ f \in Call
    BY <1>2, <1>3, <1>4 DEF Is
  <1> HIDE DEF a, b, c, d, e, f, s
  <1>7. /\ head \in Seq(Call) /\ Len(head) = 4
        /\ head[1] = a /\ head[2] = b /\ head[3] = b /\ head[4] = c
        /\ export \in Seq(Call) /\ Len(export) = 3
        /\ export[1] = d /\ export[2] = e /\ export[3] = f
    BY <1>6
  <1> HIDE DEF head, export
  <1>8. /\ half \in Seq(Call) /\ Len(half) = 7
        /\ \A i \in 1 .. 4 : half[i] = head[i]
        /\ \A i \in 1 .. 3 : half[4 + i] = export[i]
    <2>0. half = head \o export
      OBVIOUS
    <2> HIDE DEF half
    <2>1. head \in Seq(Call) /\ export \in Seq(Call)
      BY <1>7
    <2>2. /\ head \o export \in Seq(Call) /\ Len(head \o export) = Len(head) + Len(export)
          /\ \A i \in 1 .. Len(head) : (head \o export)[i] = head[i]
          /\ \A i \in 1 .. Len(export) : (head \o export)[Len(head) + i] = export[i]
      BY <2>1
    <2>3. /\ half \in Seq(Call) /\ Len(half) = Len(head) + Len(export)
          /\ \A i \in 1 .. Len(head) : half[i] = head[i]
          /\ \A i \in 1 .. Len(export) : half[Len(head) + i] = export[i]
      BY <2>0, <2>2, Zenon
    <2>4. Len(head) = 4 /\ Len(export) = 3
      BY <1>7
    <2> QED BY <2>3, <2>4
  <1> HIDE DEF half
  <1>9. /\ s \in Seq(Call) /\ Len(s) = 10
        /\ \A i \in 1 .. 7 : s[i] = half[i]
        /\ \A i \in 1 .. 3 : s[7 + i] = export[i]
    <2>1. half \in Seq(Call) /\ export \in Seq(Call)
      BY <1>7, <1>8
    <2>2. /\ half \o export \in Seq(Call) /\ Len(half \o export) = Len(half) + Len(export)
          /\ \A i \in 1 .. Len(half) : (half \o export)[i] = half[i]
          /\ \A i \in 1 .. Len(export) : (half \o export)[Len(half) + i] = export[i]
      BY <2>1
    <2>3. /\ s \in Seq(Call) /\ Len(s) = Len(half) + Len(export)
          /\ \A i \in 1 .. Len(half) : s[i] = half[i]
          /\ \A i \in 1 .. Len(export) : s[Len(half) + i] = export[i]
      BY <1>5, <2>2, Zenon
    <2>4. Len(half) = 7 /\ Len(export) = 3
      BY <1>7, <1>8
    <2> QED BY <2>3, <2>4
  <1>10. /\ s[1] = a /\ s[2] = b /\ s[3] = b /\ s[4] = c /\ s[5] = d /\ s[6] = e /\ s[7] = f
         /\ s[8] = d /\ s[9] = e /\ s[10] = f
    <2>1. half[5] = d /\ half[6] = e /\ half[7] = f
      BY <1>7, <1>8
    <2> QED BY <1>7, <1>8, <1>9, <2>1
  <1>11. ASSUME NEW n \in 1 .. 10
         PROVE  /\ Fits("generate_ec_keypair", s[n], n, 10)
                /\ s[n].failing # "ignore"
    <2>1. \/ n = 1 \/ n = 2 \/ n = 3 \/ n = 4 \/ n = 5 \/ n = 6 \/ n = 7 \/ n = 8
          \/ n = 9 \/ n = 10
      OBVIOUS
    <2> QED BY <1>2, <1>3, <1>4, <1>10, <2>1 DEF Is, Fits, Handed, Watched, Held, Owned
  <1>12. Suits("generate_ec_keypair", s)
    BY <1>9, <1>11 DEF Suits
  <1> QED BY <1>12 DEF s

\* Every function that is called has a script that suits it.
LEMMA ScriptSuits ==
    /\ DOMAIN Script = {"crypto_init", "generate_ec_keypair", "sign_message",
                        "verify_message", "sha256"}
    /\ \A f \in DOMAIN Script : Suits(f, Script[f])
    /\ Script["sign_message"] = sign_message
  <1>1. /\ DOMAIN Script = {"crypto_init", "generate_ec_keypair", "sign_message",
                            "verify_message", "sha256"}
        /\ Script["crypto_init"] = crypto_init
        /\ Script["generate_ec_keypair"] = generate_ec_keypair
        /\ Script["sign_message"] = sign_message
        /\ Script["verify_message"] = verify_message
        /\ Script["sha256"] = sha256
    BY DEF Script
  <1> QED
    BY <1>1, InitSuits, GenerateSuits, SignSuits, VerifySuits, Sha256Suits

\* Nothing is held before the first call.
LEMMA HeldFirst ==
    ASSUME NEW f \in DOMAIN Script
    PROVE  Held(f, 1) = {} /\ Owned(f, 1) = {}
  BY ScriptSuits DEF Held, Owned

-----------------------------------------------------------------------------
CryptoOK == CryptoTypeOK /\ CryptoInd

\* A call that succeeds, in a function that then goes on or returns.
LEMMA SucceedStep == ASSUME CryptoOK, Succeed PROVE CryptoOK'
  <1> DEFINE s == Script[fn]
             call == s[at]
             handles == (live \cup call.opens) \ call.frees
             guards == owned \cup call.guards
  <1>1. /\ fn \in DOMAIN Script /\ at \in 1 .. Len(s) /\ Suits(fn, s)
        /\ s \in Seq(Call) /\ Len(s) \in Nat /\ call \in Call
        /\ Fits(fn, call, at, Len(s))
    <2>1. fn \in DOMAIN Script /\ at \in DOMAIN s
      BY DEF CryptoOK, CryptoTypeOK, Succeed
    <2>2. Suits(fn, s)
      BY <2>1, ScriptSuits
    <2> QED BY <2>1, <2>2 DEF Suits
  <1>2. /\ call.needs \subseteq live /\ erred' = erred /\ failures' = failures
        /\ fn # "none" /\ result = "none"
    BY DEF Succeed, CryptoOK, CryptoInd, Underway
  <1>3. /\ erred \in BOOLEAN /\ failures \in 0 .. MaxFailures
        /\ live \subseteq Handles /\ owned \subseteq Handles /\ (erred => failures > 0)
    BY DEF CryptoOK, CryptoTypeOK, CryptoInd, Underway, Handles
  <1>4. ASSUME ~erred
        PROVE  /\ live = Held(fn, at) /\ owned = Owned(fn, at)
               /\ handles = Handed(fn, call, at) /\ guards = Watched(fn, call, at)
    BY <1>2, <1>4 DEF CryptoOK, CryptoInd, Underway, Handed, Watched
  <1>5. CASE at = Len(s)
    <2>1. ~erred
      <3>1. CASE erred
        <4>1. fn = "sign_message" /\ at \in {2, 3, 4}
          BY <1>2, <3>1 DEF CryptoOK, CryptoInd, Underway
        <4>2. Len(s) = 7
          BY <4>1, SignSuits, ScriptSuits
        <4> QED BY <1>5, <4>1, <4>2
      <3> QED BY <3>1
    <2>2. /\ fn' = "none" /\ at' = 0 /\ result' = "done" /\ owned' = {}
          /\ live' = handles \ guards
      BY <1>5 DEF Succeed, Leave
    <2>3. live' = {}
      BY <1>1, <1>4, <1>5, <2>1, <2>2 DEF Fits
    <2>4. CryptoTypeOK'
      BY <1>2, <1>3, <2>2, <2>3, Zenon DEF CryptoTypeOK
    <2>5. NoLeak' /\ FailsClosed' /\ Underway'
      BY <1>2, <1>3, <2>1, <2>2, <2>3 DEF NoLeak, FailsClosed, Underway
    <2> QED BY <2>4, <2>5 DEF CryptoOK, CryptoInd
  <1>6. CASE at # Len(s)
    <2>1. /\ at' = at + 1 /\ live' = handles \ (guards \cap call.ends)
          /\ owned' = guards \ call.ends /\ fn' = fn /\ result' = result
      BY <1>6 DEF Succeed
    <2>2. at' \in 1 .. Len(s) /\ live' \subseteq Handles /\ owned' \subseteq Handles
      BY <1>1, <1>3, <1>6, <2>1 DEF Call
    <2>3. CryptoTypeOK'
      <3>1. at' \in DOMAIN Script[fn]
        BY <1>1, <2>2
      <3> QED BY <1>1, <1>2, <1>3, <2>1, <2>2, <3>1 DEF CryptoTypeOK, Handles
    <2>4. ASSUME ~erred PROVE live' = Held(fn, at') /\ owned' = Owned(fn, at')
      <3>1. at < Len(s)
        BY <1>1, <1>6
      <3>2. /\ Handed(fn, call, at) \ (Watched(fn, call, at) \cap call.ends) = Held(fn, at + 1)
            /\ Watched(fn, call, at) \ call.ends = Owned(fn, at + 1)
        BY <1>1, <3>1 DEF Fits
      <3>3. handles = Handed(fn, call, at) /\ guards = Watched(fn, call, at)
        BY <1>4, <2>4
      <3> HIDE DEF handles, guards
      <3> QED BY <2>1, <3>2, <3>3
    <2>5. ASSUME erred
          PROVE  /\ fn = "sign_message" /\ at' \in {2, 3, 4}
                 /\ "key" \notin live' /\ (at' = 2 => live' = {})
                 /\ live' \subseteq owned'
      <3>1. /\ fn = "sign_message" /\ at \in {2, 3, 4} /\ "key" \notin live
            /\ (at = 2 => live = {}) /\ live \subseteq owned
        BY <1>2, <2>5 DEF CryptoOK, CryptoInd, Underway
      <3>2. s = sign_message
        BY <3>1, ScriptSuits
      <3>3. at # 2
        BY <1>2, <3>1, <3>2, SignSuits
      <3>4. at # 4
        BY <1>2, <3>1, <3>2, SignSuits
      <3>5. /\ at = 3 /\ call.opens = {"ctx"} /\ call.guards = {"ctx"}
            /\ call.frees = {} /\ call.ends = {}
        BY <3>1, <3>2, <3>3, <3>4, SignSuits
      <3> QED BY <2>1, <3>1, <3>5
    <2>6. NoLeak' /\ FailsClosed' /\ Underway'
      BY <1>2, <1>3, <2>1, <2>4, <2>5 DEF NoLeak, FailsClosed, Underway
    <2> QED BY <2>3, <2>6 DEF CryptoOK, CryptoInd
  <1> QED BY <1>5, <1>6

\* A call that fails: for want of a handle only after another one failed.
LEMMA FailStep ==
    ASSUME CryptoOK, Fail
    PROVE  /\ CryptoOK'
           /\ erred' = TRUE
           /\ \/ failures' = failures + 1
              \/ failures' = failures /\ erred
  <1> DEFINE s == Script[fn]
             call == s[at]
  <1>1. /\ fn \in DOMAIN Script /\ at \in 1 .. Len(s) /\ Suits(fn, s)
        /\ s \in Seq(Call) /\ Len(s) \in Nat /\ call \in Call
        /\ Fits(fn, call, at, Len(s))
    <2>1. fn \in DOMAIN Script /\ at \in DOMAIN s
      BY DEF CryptoOK, CryptoTypeOK, Fail
    <2>2. Suits(fn, s)
      BY <2>1, ScriptSuits
    <2> QED BY <2>1, <2>2 DEF Suits
  <1>2. erred' = TRUE /\ fn # "none" /\ result = "none"
    BY DEF Fail, CryptoOK, CryptoInd, Underway
  <1>3. /\ failures \in 0 .. MaxFailures /\ live \subseteq Handles
        /\ owned \subseteq Handles /\ (erred => failures > 0) /\ MaxFailures \in Nat
    BY CryptoAssumption DEF CryptoOK, CryptoTypeOK, CryptoInd, Underway, Handles
  <1>4. /\ call.needs \subseteq live => failures < MaxFailures /\ failures' = failures + 1
        /\ ~(call.needs \subseteq live) => failures' = failures
    BY DEF Fail
  <1>5. ASSUME ~erred
        PROVE  live = Held(fn, at) /\ owned = Owned(fn, at) /\ call.needs \subseteq live
    <2>1. live = Held(fn, at) /\ owned = Owned(fn, at)
      BY <1>2, <1>5 DEF CryptoOK, CryptoInd, Underway
    <2> QED BY <1>1, <2>1 DEF Fits
  <1>6. \/ failures' = failures + 1
        \/ failures' = failures /\ erred
    BY <1>4, <1>5
  <1>7. failures' \in 0 .. MaxFailures /\ failures' > 0
    BY <1>3, <1>4, <1>6
  <1>8. CASE call.failing # "ignore"
    <2>0. /\ fn' = "none" /\ at' = 0 /\ result' = call.failing /\ owned' = {}
          /\ live' = (live \ call.undoes) \ owned
      BY <1>8 DEF Fail, Leave
    <2>1. fn' = "none" /\ at' = 0 /\ result' = call.failing /\ owned' = {} /\ live' = {}
      <3>1. CASE erred
        <4>1. live \subseteq owned
          BY <1>2, <3>1 DEF CryptoOK, CryptoInd, Underway
        <4> QED BY <2>0, <4>1
      <3>2. CASE ~erred
        <4>1. (Held(fn, at) \ call.undoes) \ Owned(fn, at) = {}
          BY <1>1, <1>8 DEF Fits
        <4> QED BY <1>5, <2>0, <3>2, <4>1
      <3> QED BY <3>1, <3>2 DEF CryptoOK, CryptoTypeOK
    <2>2. result' \in {"throw", "false", "zero"}
      BY <1>1, <1>8, <2>1 DEF Call
    <2>3. CryptoTypeOK'
      BY <1>2, <1>7, <2>1, <2>2, Zenon DEF CryptoTypeOK
    <2>4. NoLeak' /\ FailsClosed' /\ Underway'
      BY <1>2, <1>7, <2>1, <2>2 DEF NoLeak, FailsClosed, Underway
    <2> QED BY <1>2, <1>6, <2>3, <2>4 DEF CryptoOK, CryptoInd
  <1>9. CASE call.failing = "ignore"
    <2>1. /\ at' = at + 1 /\ fn' = fn /\ live' = live /\ result' = result
          /\ owned' = owned \cup call.guards /\ owned' \subseteq Handles
      BY <1>1, <1>3, <1>9 DEF Fail, Call
    <2>2. fn = "sign_message" /\ at \in {1, 2}
      BY <1>1, <1>9 DEF Suits
    <2>3. Len(s) = 7
      BY <2>2, ScriptSuits, SignSuits
    <2>4. "key" \notin live /\ (at = 1 => live = {}) /\ live \subseteq owned
      <3>1. CASE erred
        <4>1. "key" \notin live /\ at \in {2, 3, 4} /\ live \subseteq owned
          BY <1>2, <3>1 DEF CryptoOK, CryptoInd, Underway
        <4> QED BY <4>1
      <3>2. CASE ~erred
        <4>1. live = Held("sign_message", at) /\ owned = live
          BY <1>5, <2>2, <3>2 DEF Owned
        <4> QED BY <2>2, <4>1 DEF Held
      <3> QED BY <3>1, <3>2 DEF CryptoOK, CryptoTypeOK
    <2>5. at' \in DOMAIN Script[fn]
      BY <1>1, <2>1, <2>2, <2>3
    <2>6. CryptoTypeOK'
      BY <1>1, <1>2, <1>3, <1>7, <2>1, <2>5, Zenon DEF CryptoTypeOK, Handles
    <2>7. NoLeak' /\ FailsClosed' /\ Underway'
      BY <1>2, <1>7, <2>1, <2>2, <2>4 DEF NoLeak, FailsClosed, Underway
    <2> QED BY <1>2, <1>6, <2>6, <2>7 DEF CryptoOK, CryptoInd
  <1> QED BY <1>8, <1>9

\* A function is called.
LEMMA BeginStep == ASSUME CryptoOK, NEW f \in DOMAIN Script, Begin(f) PROVE CryptoOK'
  <1>1. /\ fn = "none" /\ result = "none" /\ fn' = f /\ at' = 1 /\ erred' = FALSE
        /\ live' = live /\ owned' = owned /\ result' = result /\ failures' = failures
    BY DEF Begin
  <1>2. live = {} /\ owned = {} /\ failures \in 0 .. MaxFailures
    BY <1>1 DEF CryptoOK, CryptoInd, CryptoTypeOK, NoLeak, Underway
  <1>3. f # "none" /\ 1 \in DOMAIN Script[f]
    <2>1. Script[f] \in Seq(Call) /\ Len(Script[f]) > 0
      BY ScriptSuits DEF Suits
    <2> QED BY <2>1, ScriptSuits
  <1>4. CryptoTypeOK'
    BY <1>1, <1>2, <1>3 DEF CryptoTypeOK
  <1>5. CryptoInd'
    BY <1>1, <1>2, <1>3, HeldFirst DEF CryptoInd, NoLeak, FailsClosed, Underway
  <1> QED BY <1>4, <1>5 DEF CryptoOK

\* The result is taken.
LEMMA TakeStep == ASSUME CryptoOK, Take PROVE CryptoOK'
  <1>1. /\ fn = "none" /\ fn' = fn /\ at' = at /\ live' = live /\ owned' = owned
        /\ erred' = erred /\ failures' = failures /\ result' = "none"
    BY DEF Take
  <1>2. CryptoTypeOK'
    BY <1>1 DEF CryptoOK, CryptoTypeOK
  <1>3. CryptoInd'
    BY <1>1 DEF CryptoOK, CryptoInd, NoLeak, FailsClosed, Underway
  <1> QED BY <1>2, <1>3 DEF CryptoOK

-----------------------------------------------------------------------------
\* All there is to do.
Steps == {"init", "leaf0", "root0", "vleaf0", "vroot0", "keys", "sign", "prev", "leaf1", "root1",
          "mine", "tip", "vleaf1", "vroot1", "verify", "pow"}

\* The programs as their steps.
Short(p) ==
    /\ p \in Seq(Steps) /\ Len(p) = 4
    /\ p[1] = "init" /\ p[2] = "keys" /\ p[3] = "sign" /\ p[4] = "verify"
Chaining(p) ==
    /\ p \in Seq(Steps) /\ Len(p) = 14
    /\ p[1] = "init" /\ p[2] = "leaf0" /\ p[3] = "root0" /\ p[4] = "vleaf0"
    /\ p[5] = "vroot0" /\ p[6] = "keys" /\ p[7] = "sign" /\ p[8] = "prev"
    /\ p[9] = "leaf1" /\ p[10] = "root1" /\ p[11] = "tip" /\ p[12] = "vleaf1"
    /\ p[13] = "vroot1" /\ p[14] = "verify"
Mining(p) ==
    /\ p \in Seq(Steps) /\ Len(p) = 16
    /\ p[1] = "init" /\ p[2] = "leaf0" /\ p[3] = "root0" /\ p[4] = "vleaf0"
    /\ p[5] = "vroot0" /\ p[6] = "keys" /\ p[7] = "sign" /\ p[8] = "prev"
    /\ p[9] = "leaf1" /\ p[10] = "root1" /\ p[11] = "mine" /\ p[12] = "tip"
    /\ p[13] = "vleaf1" /\ p[14] = "vroot1" /\ p[15] = "verify" /\ p[16] = "pow"

\* The programs are the sequences one reads off their definitions.
LEMMA ProgramSteps ==
    /\ DOMAIN Program = {"demo_keys", "demo_tx", "demo_chain", "mine"}
    /\ Short(Program["demo_keys"]) /\ Short(Program["demo_tx"])
    /\ Chaining(Program["demo_chain"]) /\ Mining(Program["mine"])
  <1> DEFINE i == <<"init">>
             m == <<"mine">>
             w == <<"pow">>
             v == <<"verify">>
             g == Genesis
             k == Signing
             b == Building
             a == Append1
             x1 == i \o k
             x2 == x1 \o v
             y1 == i \o g
             y2 == y1 \o k
             y3 == y2 \o b
             y4 == y3 \o a
             z1 == y3 \o m
             z2 == z1 \o a
             z3 == z2 \o w
  <1>1. /\ DOMAIN Program = {"demo_keys", "demo_tx", "demo_chain", "mine"}
        /\ Program["demo_keys"] = x2 /\ Program["demo_tx"] = x2
        /\ Program["demo_chain"] = y4 /\ Program["mine"] = z3
    BY DEF Program
  <1>2. /\ i \in Seq(Steps) /\ Len(i) = 1
        /\ i[1] = "init"
    BY DEF Steps
  <1>3. /\ m \in Seq(Steps) /\ Len(m) = 1
        /\ m[1] = "mine"
    BY DEF Steps
  <1>4. /\ w \in Seq(Steps) /\ Len(w) = 1
        /\ w[1] = "pow"
    BY DEF Steps
  <1>5. /\ v \in Seq(Steps) /\ Len(v) = 1
        /\ v[1] = "verify"
    BY DEF Steps
  <1>6. /\ g \in Seq(Steps) /\ Len(g) = 4
        /\ g[1] = "leaf0" /\ g[2] = "root0" /\ g[3] = "vleaf0" /\ g[4] = "vroot0"
    BY DEF Genesis, Steps
  <1>7. /\ k \in Seq(Steps) /\ Len(k) = 2
        /\ k[1] = "keys" /\ k[2] = "sign"
    BY DEF Signing, Steps
  <1>8. /\ b \in Seq(Steps) /\ Len(b) = 3
        /\ b[1] = "prev" /\ b[2] = "leaf1" /\ b[3] = "root1"
    BY DEF Building, Steps
  <1>9. /\ a \in Seq(Steps) /\ Len(a) = 4
        /\ a[1] = "tip" /\ a[2] = "vleaf1" /\ a[3] = "vroot1" /\ a[4] = "verify"
    BY DEF Append1, Steps
  <1> HIDE DEF i, m, w, v, g, k, b, a
  <1>10. /\ x1 \in Seq(Steps) /\ Len(x1) = 3
        /\ x1[1] = "init" /\ x1[2] = "keys" /\ x1[3] = "sign"
    <2>1. i \in Seq(Steps) /\ k \in Seq(Steps)
      BY <1>2, <1>7
    <2>2. /\ x1 \in Seq(Steps) /\ Len(x1) = Len(i) + Len(k)
          /\ \A j \in 1 .. Len(i) : x1[j] = i[j]
          /\ \A j \in 1 .. Len(k) : x1[Len(i) + j] = k[j]
      BY <2>1
    <2> HIDE DEF x1
    <2>3. /\ x1 \in Seq(Steps) /\ Len(x1) = 3
          /\ \A j \in 1 .. 1 : x1[j] = i[j]
          /\ \A j \in 1 .. 2 : x1[1 + j] = k[j]
      BY <1>2, <1>7, <2>2
    <2> QED BY <1>2, <1>7, <2>3
  <1> HIDE DEF x1
  <1>11. /\ x2 \in Seq(Steps) /\ Len(x2) = 4
        /\ x2[1] = "init" /\ x2[2] = "keys" /\ x2[3] = "sign" /\ x2[4] = "verify"
    <2>1. x1 \in Seq(Steps) /\ v \in Seq(Steps)
      BY <1>10, <1>5
    <2>2. /\ x2 \in Seq(Steps) /\ Len(x2) = Len(x1) + Len(v)
          /\ \A j \in 1 .. Len(x1) : x2[j] = x1[j]
          /\ \A j \in 1 .. Len(v) : x2[Len(x1) + j] = v[j]
      BY <2>1
    <2> HIDE DEF x2
    <2>3. /\ x2 \in Seq(Steps) /\ Len(x2) = 4
          /\ \A j \in 1 .. 3 : x2[j] = x1[j]
          /\ \A j \in 1 .. 1 : x2[3 + j] = v[j]
      BY <1>10, <1>5, <2>2
    <2> QED BY <1>10, <1>5, <2>3
  <1> HIDE DEF x2
  <1>12. /\ y1 \in Seq(Steps) /\ Len(y1) = 5
        /\ y1[1] = "init" /\ y1[2] = "leaf0" /\ y1[3] = "root0" /\ y1[4] = "vleaf0"
        /\ y1[5] = "vroot0"
    <2>1. i \in Seq(Steps) /\ g \in Seq(Steps)
      BY <1>2, <1>6
    <2>2. /\ y1 \in Seq(Steps) /\ Len(y1) = Len(i) + Len(g)
          /\ \A j \in 1 .. Len(i) : y1[j] = i[j]
          /\ \A j \in 1 .. Len(g) : y1[Len(i) + j] = g[j]
      BY <2>1
    <2> HIDE DEF y1
    <2>3. /\ y1 \in Seq(Steps) /\ Len(y1) = 5
          /\ \A j \in 1 .. 1 : y1[j] = i[j]
          /\ \A j \in 1 .. 4 : y1[1 + j] = g[j]
      BY <1>2, <1>6, <2>2
    <2> QED BY <1>2, <1>6, <2>3
  <1> HIDE DEF y1
  <1>13. /\ y2 \in Seq(Steps) /\ Len(y2) = 7
        /\ y2[1] = "init" /\ y2[2] = "leaf0" /\ y2[3] = "root0" /\ y2[4] = "vleaf0"
        /\ y2[5] = "vroot0" /\ y2[6] = "keys" /\ y2[7] = "sign"
    <2>1. y1 \in Seq(Steps) /\ k \in Seq(Steps)
      BY <1>12, <1>7
    <2>2. /\ y2 \in Seq(Steps) /\ Len(y2) = Len(y1) + Len(k)
          /\ \A j \in 1 .. Len(y1) : y2[j] = y1[j]
          /\ \A j \in 1 .. Len(k) : y2[Len(y1) + j] = k[j]
      BY <2>1
    <2> HIDE DEF y2
    <2>3. /\ y2 \in Seq(Steps) /\ Len(y2) = 7
          /\ \A j \in 1 .. 5 : y2[j] = y1[j]
          /\ \A j \in 1 .. 2 : y2[5 + j] = k[j]
      BY <1>12, <1>7, <2>2
    <2> QED BY <1>12, <1>7, <2>3
  <1> HIDE DEF y2
  <1>14. /\ y3 \in Seq(Steps) /\ Len(y3) = 10
        /\ y3[1] = "init" /\ y3[2] = "leaf0" /\ y3[3] = "root0" /\ y3[4] = "vleaf0"
        /\ y3[5] = "vroot0" /\ y3[6] = "keys" /\ y3[7] = "sign" /\ y3[8] = "prev"
        /\ y3[9] = "leaf1" /\ y3[10] = "root1"
    <2>1. y2 \in Seq(Steps) /\ b \in Seq(Steps)
      BY <1>13, <1>8
    <2>2. /\ y3 \in Seq(Steps) /\ Len(y3) = Len(y2) + Len(b)
          /\ \A j \in 1 .. Len(y2) : y3[j] = y2[j]
          /\ \A j \in 1 .. Len(b) : y3[Len(y2) + j] = b[j]
      BY <2>1
    <2> HIDE DEF y3
    <2>3. /\ y3 \in Seq(Steps) /\ Len(y3) = 10
          /\ \A j \in 1 .. 7 : y3[j] = y2[j]
          /\ \A j \in 1 .. 3 : y3[7 + j] = b[j]
      BY <1>13, <1>8, <2>2
    <2> QED BY <1>13, <1>8, <2>3
  <1> HIDE DEF y3
  <1>15. /\ y4 \in Seq(Steps) /\ Len(y4) = 14
        /\ y4[1] = "init" /\ y4[2] = "leaf0" /\ y4[3] = "root0" /\ y4[4] = "vleaf0"
        /\ y4[5] = "vroot0" /\ y4[6] = "keys" /\ y4[7] = "sign" /\ y4[8] = "prev"
        /\ y4[9] = "leaf1" /\ y4[10] = "root1" /\ y4[11] = "tip" /\ y4[12] = "vleaf1"
        /\ y4[13] = "vroot1" /\ y4[14] = "verify"
    <2>1. y3 \in Seq(Steps) /\ a \in Seq(Steps)
      BY <1>14, <1>9
    <2>2. /\ y4 \in Seq(Steps) /\ Len(y4) = Len(y3) + Len(a)
          /\ \A j \in 1 .. Len(y3) : y4[j] = y3[j]
          /\ \A j \in 1 .. Len(a) : y4[Len(y3) + j] = a[j]
      BY <2>1
    <2> HIDE DEF y4
    <2>3. /\ y4 \in Seq(Steps) /\ Len(y4) = 14
          /\ \A j \in 1 .. 10 : y4[j] = y3[j]
          /\ \A j \in 1 .. 4 : y4[10 + j] = a[j]
      BY <1>14, <1>9, <2>2
    <2> QED BY <1>14, <1>9, <2>3
  <1> HIDE DEF y4
  <1>16. /\ z1 \in Seq(Steps) /\ Len(z1) = 11
        /\ z1[1] = "init" /\ z1[2] = "leaf0" /\ z1[3] = "root0" /\ z1[4] = "vleaf0"
        /\ z1[5] = "vroot0" /\ z1[6] = "keys" /\ z1[7] = "sign" /\ z1[8] = "prev"
        /\ z1[9] = "leaf1" /\ z1[10] = "root1" /\ z1[11] = "mine"
    <2>1. y3 \in Seq(Steps) /\ m \in Seq(Steps)
      BY <1>14, <1>3
    <2>2. /\ z1 \in Seq(Steps) /\ Len(z1) = Len(y3) + Len(m)
          /\ \A j \in 1 .. Len(y3) : z1[j] = y3[j]
          /\ \A j \in 1 .. Len(m) : z1[Len(y3) + j] = m[j]
      BY <2>1
    <2> HIDE DEF z1
    <2>3. /\ z1 \in Seq(Steps) /\ Len(z1) = 11
          /\ \A j \in 1 .. 10 : z1[j] = y3[j]
          /\ \A j \in 1 .. 1 : z1[10 + j] = m[j]
      BY <1>14, <1>3, <2>2
    <2> QED BY <1>14, <1>3, <2>3
  <1> HIDE DEF z1
  <1>17. /\ z2 \in Seq(Steps) /\ Len(z2) = 15
        /\ z2[1] = "init" /\ z2[2] = "leaf0" /\ z2[3] = "root0" /\ z2[4] = "vleaf0"
        /\ z2[5] = "vroot0" /\ z2[6] = "keys" /\ z2[7] = "sign" /\ z2[8] = "prev"
        /\ z2[9] = "leaf1" /\ z2[10] = "root1" /\ z2[11] = "mine" /\ z2[12] = "tip"
        /\ z2[13] = "vleaf1" /\ z2[14] = "vroot1" /\ z2[15] = "verify"
    <2>1. z1 \in Seq(Steps) /\ a \in Seq(Steps)
      BY <1>16, <1>9
    <2>2. /\ z2 \in Seq(Steps) /\ Len(z2) = Len(z1) + Len(a)
          /\ \A j \in 1 .. Len(z1) : z2[j] = z1[j]
          /\ \A j \in 1 .. Len(a) : z2[Len(z1) + j] = a[j]
      BY <2>1
    <2> HIDE DEF z2
    <2>3. /\ z2 \in Seq(Steps) /\ Len(z2) = 15
          /\ \A j \in 1 .. 11 : z2[j] = z1[j]
          /\ \A j \in 1 .. 4 : z2[11 + j] = a[j]
      BY <1>16, <1>9, <2>2
    <2> QED BY <1>16, <1>9, <2>3
  <1> HIDE DEF z2
  <1>18. /\ z3 \in Seq(Steps) /\ Len(z3) = 16
        /\ z3[1] = "init" /\ z3[2] = "leaf0" /\ z3[3] = "root0" /\ z3[4] = "vleaf0"
        /\ z3[5] = "vroot0" /\ z3[6] = "keys" /\ z3[7] = "sign" /\ z3[8] = "prev"
        /\ z3[9] = "leaf1" /\ z3[10] = "root1" /\ z3[11] = "mine" /\ z3[12] = "tip"
        /\ z3[13] = "vleaf1" /\ z3[14] = "vroot1" /\ z3[15] = "verify" /\ z3[16] = "pow"
    <2>1. z2 \in Seq(Steps) /\ w \in Seq(Steps)
      BY <1>17, <1>4
    <2>2. /\ z3 \in Seq(Steps) /\ Len(z3) = Len(z2) + Len(w)
          /\ \A j \in 1 .. Len(z2) : z3[j] = z2[j]
          /\ \A j \in 1 .. Len(w) : z3[Len(z2) + j] = w[j]
      BY <2>1
    <2> HIDE DEF z3
    <2>3. /\ z3 \in Seq(Steps) /\ Len(z3) = 16
          /\ \A j \in 1 .. 15 : z3[j] = z2[j]
          /\ \A j \in 1 .. 1 : z3[15 + j] = w[j]
      BY <1>17, <1>4, <2>2
    <2> QED BY <1>17, <1>4, <2>3
  <1> HIDE DEF z3
  <1> QED BY <1>1, <1>11, <1>15, <1>18 DEF Short, Chaining, Mining

\* What a program is past when it comes to a step.
Before(s) ==
    CASE s = "root0"  -> {"leaf0"}
      [] s = "vleaf0" -> {"leaf0", "root0"}
      [] s = "vroot0" -> {"leaf0", "root0", "vleaf0"}
      [] s \in {"prev", "leaf1"} -> {"leaf0", "root0", "vleaf0", "vroot0"}
      [] s = "root1"  -> {"leaf0", "root0", "vleaf0", "vroot0", "prev", "leaf1"}
      [] s \in {"mine", "tip"} ->
            {"leaf0", "root0", "vleaf0", "vroot0", "prev", "leaf1", "root1"}
      [] s = "vleaf1" ->
            {"leaf0", "root0", "vleaf0", "vroot0", "prev", "leaf1", "root1", "tip"}
      [] s = "vroot1" ->
            {"leaf0", "root0", "vleaf0", "vroot0", "prev", "leaf1", "root1", "tip", "vleaf1"}
      [] s = "pow" ->
            {"leaf0", "root0", "vleaf0", "vroot0", "prev", "leaf1", "root1", "mine", "tip",
             "vleaf1", "vroot1"}
      [] OTHER -> {}

\* Everything is done once, and in the order the program needs.
InOrder(p) ==
    /\ \A i, j \in 1 .. Len(p) : p[i] = p[j] => i = j
    /\ \A i \in 1 .. Len(p) : \A s \in Before(p[i]) : \E j \in 1 .. i - 1 : p[j] = s

\* demo-keys and demo-tx,
LEMMA ShortInOrder == ASSUME NEW p, Short(p) PROVE InOrder(p)
  <1>1. \A i \in 1 .. 4 :
           \/ i = 1 \/ i = 2 \/ i = 3 \/ i = 4
    OBVIOUS
  <1>2. ASSUME NEW i \in 1 .. 4, NEW j \in 1 .. 4, p[i] = p[j] PROVE i = j
    BY <1>1, <1>2 DEF Short
  <1>3. ASSUME NEW i \in 1 .. 4, NEW s \in Before(p[i]) PROVE \E j \in 1 .. i - 1 : p[j] = s
    BY <1>1, <1>3 DEF Short, Before
  <1> QED BY <1>2, <1>3 DEF Short, InOrder

\* demo-chain,
LEMMA ChainingInOrder == ASSUME NEW p, Chaining(p) PROVE InOrder(p)
  <1>1. \A i \in 1 .. 14 :
           \/ i = 1 \/ i = 2 \/ i = 3 \/ i = 4 \/ i = 5 \/ i = 6 \/ i = 7
           \/ i = 8 \/ i = 9 \/ i = 10 \/ i = 11 \/ i = 12 \/ i = 13 \/ i = 14
    OBVIOUS
  <1>2. ASSUME NEW i \in 1 .. 14, NEW j \in 1 .. 14, p[i] = p[j] PROVE i = j
    BY <1>1, <1>2, SMTT(30) DEF Chaining
  <1>3. ASSUME NEW i \in 1 .. 14, NEW s \in Before(p[i]) PROVE \E j \in 1 .. i - 1 : p[j] = s
    BY <1>1, <1>3 DEF Chaining, Before
  <1> QED BY <1>2, <1>3 DEF Chaining, InOrder

\* and the miner demo.
LEMMA MiningInOrder == ASSUME NEW p, Mining(p) PROVE InOrder(p)
  <1>1. \A i \in 1 .. 16 :
           \/ i = 1 \/ i = 2 \/ i = 3 \/ i = 4 \/ i = 5 \/ i = 6 \/ i = 7
           \/ i = 8 \/ i = 9 \/ i = 10 \/ i = 11 \/ i = 12 \/ i = 13 \/ i = 14
           \/ i = 15 \/ i = 16
    OBVIOUS
  <1>2. ASSUME NEW i \in 1 .. 16, NEW j \in 1 .. 16, p[i] = p[j] PROVE i = j
    <2>1. CASE i \in 1 .. 8
      BY <1>1, <1>2, <2>1, SMTT(30) DEF Mining
    <2>2. CASE i \in 9 .. 16
      BY <1>1, <1>2, <2>2, SMTT(30) DEF Mining
    <2> QED BY <2>1, <2>2
  <1>3. ASSUME NEW i \in 1 .. 16, NEW s \in Before(p[i]) PROVE \E j \in 1 .. i - 1 : p[j] = s
    BY <1>1, <1>3 DEF Mining, Before
  <1> QED BY <1>2, <1>3 DEF Mining, InOrder

\* A program comes to each step once and has everything before it behind it; the long
\* ones end with the signature and the work, behind the other checks.
LEMMA StepFacts ==
    ASSUME prog \in DOMAIN Program, step \in DOMAIN Program[prog]
    PROVE  /\ prog \in {"demo_keys", "demo_tx", "demo_chain", "mine"}
           /\ Program[prog] \in Seq(Steps)
           /\ step \in 1 .. Len(Program[prog]) /\ Len(Program[prog]) \in Nat
           /\ Step \in Steps /\ Past \subseteq Steps /\ Step \notin Past
           /\ \A s \in Past \cup {Step} : Before(s) \subseteq Past
           /\ Step = "pow" => step = Len(Program[prog])
           /\ step = Len(Program[prog]) =>
                 /\ Step \in {"verify", "pow"} /\ (Step = "pow" <=> prog = "mine")
                 /\ prog = "demo_chain" => "vroot1" \in Past
           /\ Step \in {"mine", "pow"} \/ "mine" \in Past => prog = "mine"
           /\ prog \in {"demo_keys", "demo_tx"} => Step \in {"init", "keys", "sign", "verify"}
  <1> DEFINE p == Program[prog]
  <1>1. prog \in {"demo_keys", "demo_tx", "demo_chain", "mine"}
    BY ProgramSteps
  <1>2. /\ prog \in {"demo_keys", "demo_tx"} => Short(p)
        /\ prog = "demo_chain" => Chaining(p)
        /\ prog = "mine" => Mining(p)
    BY <1>1, ProgramSteps, Zenon
  <1>3. p \in Seq(Steps) /\ InOrder(p) /\ step \in DOMAIN p
    BY <1>1, <1>2, ShortInOrder, ChainingInOrder, MiningInOrder DEF Short, Chaining, Mining
  <1>4. Step = p[step] /\ Past = {p[i] : i \in 1 .. step - 1}
    BY DEF Step, Past
  <1> HIDE DEF p
  <1>5. step \in 1 .. Len(p) /\ Len(p) \in Nat
    BY <1>3
  <1>6. Step \in Steps /\ Past \subseteq Steps /\ Step \notin Past
    BY <1>3, <1>4, <1>5 DEF InOrder
  <1>7. ASSUME NEW s \in Past \cup {Step}, NEW r \in Before(s) PROVE r \in Past
    <2>1. PICK i \in 1 .. step : p[i] = s
      BY <1>4, <1>5, <1>7
    <2>a. r \in Before(p[i]) /\ i \in 1 .. Len(p)
      BY <1>5, <1>7, <2>1
    <2>2. PICK j \in 1 .. i - 1 : p[j] = r
      BY <1>3, <2>a, Zenon DEF InOrder
    <2>3. j \in 1 .. step - 1
      BY <1>5, <2>1
    <2> QED BY <1>4, <2>2, <2>3
  <1>8. ASSUME step = Len(p)
        PROVE  /\ Step \in {"verify", "pow"} /\ (Step = "pow" <=> prog = "mine")
               /\ prog = "demo_chain" => "vroot1" \in Past
    <2>1. CASE prog \in {"demo_keys", "demo_tx"}
      BY <1>2, <1>4, <1>8, <2>1 DEF Short
    <2>2. CASE prog = "demo_chain"
      <3>1. Step = "verify" /\ p[13] = "vroot1" /\ 13 \in 1 .. step - 1
        BY <1>2, <1>4, <1>8, <2>2, SMTT(30) DEF Chaining
      <3> QED BY <1>4, <2>2, <3>1
    <2>3. CASE prog = "mine"
      BY <1>2, <1>4, <1>8, <2>3 DEF Mining
    <2> QED BY <1>1, <2>1, <2>2, <2>3
  <1>9. ASSUME prog # "mine", NEW i \in 1 .. Len(p)
        PROVE  /\ p[i] \notin {"mine", "pow"}
               /\ prog # "demo_chain" => p[i] \in {"init", "keys", "sign", "verify"}
    <2>1. CASE prog \in {"demo_keys", "demo_tx"}
      <3>a. Len(p) = 4
        BY <1>2, <2>1 DEF Short
      <3>b. i \in 1 .. 4
        BY <1>9, <3>a
      <3>1. i = 1 \/ i = 2 \/ i = 3 \/ i = 4
        BY <3>b
      <3> QED BY <1>2, <2>1, <3>1 DEF Short
    <2>2. CASE prog = "demo_chain"
      <3>a. Len(p) = 14
        BY <1>2, <2>2 DEF Chaining
      <3>b. i \in 1 .. 14
        BY <1>9, <3>a
      <3>1. \/ i = 1 \/ i = 2 \/ i = 3 \/ i = 4 \/ i = 5 \/ i = 6 \/ i = 7 \/ i = 8 \/ i = 9
            \/ i = 10 \/ i = 11 \/ i = 12 \/ i = 13 \/ i = 14
        BY <3>b
      <3> QED BY <1>2, <2>2, <3>1 DEF Chaining
    <2> QED BY <1>1, <1>9, <2>1, <2>2
  <1>10. Step \in {"mine", "pow"} \/ "mine" \in Past => prog = "mine"
    BY <1>4, <1>5, <1>9
  <1>11. prog \in {"demo_keys", "demo_tx"} => Step \in {"init", "keys", "sign", "verify"}
    BY <1>4, <1>5, <1>9
  <1>12. Step = "pow" => step = Len(p)
    <2>1. CASE prog = "mine" /\ Step = "pow"
      <3>1. Len(p) = 16 /\ p[16] = "pow"
        BY <1>2, <2>1 DEF Mining
      <3>2. \A i, j \in 1 .. Len(p) : p[i] = p[j] => i = j
        BY <1>3 DEF InOrder
      <3>3. p[step] = p[16] /\ 16 \in 1 .. Len(p)
        BY <1>4, <2>1, <3>1
      <3> QED BY <1>5, <3>1, <3>2, <3>3
    <2> QED BY <1>10, <2>1
  <1> QED BY <1>1, <1>3, <1>5, <1>6, <1>7, <1>8, <1>10, <1>11, <1>12 DEF p

\* Going on: to the next step, or to the end.
LEMMA GoOnPast ==
    ASSUME prog \in DOMAIN Program, step \in DOMAIN Program[prog], GoOn, prog' = prog
    PROVE  /\ step' \in DOMAIN Program[prog]
           /\ \/ /\ step = Len(Program[prog]) /\ exit' = "0" /\ step' = step
                 /\ Past' = Past /\ Step' = Step
              \/ /\ exit' = exit /\ Past' = Past \cup {Step}
  <1> DEFINE p == Program[prog]
  <1>1. /\ p \in Seq(Steps) /\ step \in 1 .. Len(p) /\ Len(p) \in Nat
        /\ Step = p[step] /\ Past = {p[i] : i \in 1 .. step - 1}
        /\ Past' = {p[i] : i \in 1 .. step' - 1} /\ Step' = p[step']
    BY StepFacts DEF Past, Step
  <1>2. CASE step = Len(p)
    BY <1>1, <1>2 DEF GoOn
  <1>3. CASE step # Len(p)
    <2>1. step' = step + 1 /\ exit' = exit
      BY <1>3 DEF GoOn
    <2> HIDE DEF p
    <2>2. step' \in 1 .. Len(p) /\ step' - 1 = step
      BY <1>1, <1>3, <2>1
    <2>3. Past' = Past \cup {Step}
      BY <1>1, <2>2
    <2>4. step' \in DOMAIN p
      BY <1>1, <2>2
    <2> QED BY <2>1, <2>3, <2>4 DEF p
  <1> QED BY <1>2, <1>3

-----------------------------------------------------------------------------
\* What a hash may commit to.
Labels == {"coinbase", "tx", "root", "header"}

\* A hash that was computed is never taken for the zero hash.
LEMMA InputType ==
    ASSUME val \in [Hashing -> Seq(Labels)], NEW s \in Hashing
    PROVE  Input(s) \in Seq(Labels) /\ Input(s) # Zero
  <1>1. \A v \in Seq(Labels), x \in Labels :
           Append(v, x) \in Seq(Labels) /\ Len(Append(v, x)) = Len(v) + 1
    OBVIOUS
  <1>2. \A v \in Seq(Labels), x \in Labels : Append(v, x) # Zero
    BY <1>1 DEF Zero
  <1>3. <<"coinbase">> \in Seq(Labels) /\ <<"tx">> \in Seq(Labels)
    BY DEF Labels
  <1>4. <<"coinbase">> # Zero /\ <<"tx">> # Zero
    BY DEF Zero
  <1>5. "root" \in Labels /\ "header" \in Labels
    BY DEF Labels
  <1>6. /\ val["leaf0"] \in Seq(Labels) /\ val["vleaf0"] \in Seq(Labels)
        /\ val["leaf1"] \in Seq(Labels) /\ val["vleaf1"] \in Seq(Labels)
        /\ val["root0"] \in Seq(Labels)
    BY DEF Hashing
  <1> QED BY <1>1, <1>2, <1>3, <1>4, <1>5, <1>6 DEF Input, Hashing

\* What sha256 returns is a hash, and the zero hash after a failure only.
LEMMA ComputedType ==
    ASSUME val \in [Hashing -> Seq(Labels)], NEW s \in Hashing
    PROVE  /\ Computed(s) \in Seq(Labels)
           /\ result = "zero" => Computed(s) = Zero
           /\ result # "zero" => Computed(s) = Input(s)
  <1>1. Zero \in Seq(Labels)
    BY DEF Zero
  <1> QED BY <1>1, InputType DEF Computed

\* What the program's own variables may be.
DemoTypeOK ==
    /\ prog \in DOMAIN Program /\ step \in DOMAIN Program[prog]
    /\ bits \in Difficulties \cup {0} /\ height \in 0 .. 2
    /\ exit \in {"running", "abort", "0", "1", "2", "3"}
    /\ (exit # "running" => fn = "none" /\ result = "none")
    /\ val \in [Hashing -> Seq(Labels)]
    /\ time0 \in Times \cup {0} /\ time1 \in Nat /\ clock \in Times \cup {0}
    /\ nonce \in 0 .. MaxNonce /\ bump \in Times \cup {0}
    /\ hash \in Digests \cup {<<>>} /\ back \in BOOLEAN
    /\ Heights

\* A step that puts no block on the chain leaves the heights right.
LEMMA HeightsSame ==
    ASSUME DemoTypeOK, exit = "running", prog' = prog, height' = height,
           \/ GoOn \/ UNCHANGED <<step, exit>>
           \/ \E code \in {"abort", "1", "2", "3"} : Exit(code)
    PROVE  Heights'
  <1>1. exit' = "running" => Past \subseteq Past'
    <2>1. CASE GoOn
      BY <2>1, GoOnPast DEF DemoTypeOK
    <2>2. CASE UNCHANGED <<step, exit>>
      BY <2>2 DEF Past
    <2>3. CASE \E code \in {"abort", "1", "2", "3"} : Exit(code)
      BY <2>3 DEF Exit
    <2> QED BY <2>1, <2>2, <2>3
  <1>2. Heights
    BY DEF DemoTypeOK
  <1> QED BY <1>1, <1>2 DEF Heights

\* A step of the caller leaves everything as it should be once each variable it
\* assigns has its type: the function it calls is one there is a script for.
LEMMA FunctionType == ASSUME NEW s PROVE FunctionOf(s) \in DOMAIN Script
  BY ScriptSuits DEF FunctionOf

\* A reading of the clock.
LEMMA ReadClockType ==
    ASSUME NEW t \in Times, ReadClock(t)
    PROVE  clock' \in Times \cup {0} /\ back' \in BOOLEAN
  <1>1. clock' = t /\ back' = (back \/ t < clock)
    BY DEF ReadClock
  <1>2. back' \in BOOLEAN
    BY <1>1, Zenon
  <1> QED BY <1>1, <1>2

\* The types, action by action: a call of a function,
LEMMA StartType == ASSUME DemoTypeOK, CryptoOK, Start PROVE DemoTypeOK' /\ CryptoOK'
  <1>1. /\ exit = "running" /\ Begin(FunctionOf(Step))
        /\ hash' = IF Step = "mine" THEN <<>> ELSE hash
        /\ UNCHANGED <<prog, bits, step, exit, val, height, nonce, bump>>
    BY DEF Start
  <1>2. CryptoOK'
    BY <1>1, FunctionType, BeginStep
  <1>3. /\ time0' \in Times \cup {0} /\ time1' \in Nat
        /\ clock' \in Times \cup {0} /\ back' \in BOOLEAN
    <2>1. CASE Step = "leaf0" \/ (Step = "prev" /\ prog = "mine")
      <3>1. PICK t \in Times : /\ ReadClock(t)
                               /\ IF Step = "leaf0" THEN time0' = t /\ UNCHANGED time1
                                                    ELSE time1' = t /\ UNCHANGED time0
        BY <2>1 DEF Start
      <3>2. clock' \in Times \cup {0} /\ back' \in BOOLEAN
        BY <3>1, ReadClockType
      <3> QED BY <3>1, <3>2, DemosAssumption DEF DemoTypeOK
    <2>2. CASE ~(Step = "leaf0" \/ (Step = "prev" /\ prog = "mine"))
      <3>1. /\ time1' = (IF Step = "prev" THEN time0 + 1 ELSE time1)
            /\ UNCHANGED <<time0, clock, back>>
        BY <2>2 DEF Start
      <3> QED BY <3>1, DemosAssumption DEF DemoTypeOK
    <2> QED BY <2>1, <2>2
  <1>4. hash' \in Digests \cup {<<>>}
    BY <1>1 DEF DemoTypeOK
  <1>5. Heights'
    BY <1>1, HeightsSame
  <1> QED BY <1>1, <1>2, <1>3, <1>4, <1>5 DEF DemoTypeOK

\* a call of OpenSSL in it,
LEMMA LibraryType == ASSUME DemoTypeOK, CryptoOK, Library PROVE DemoTypeOK' /\ CryptoOK'
  <1>1. UNCHANGED demoVars /\ (Succeed \/ Fail)
    BY DEF Library
  <1>2. CryptoOK'
    BY <1>1, SucceedStep, FailStep
  <1>3. exit = "running"
    BY <1>1 DEF Succeed, Fail, DemoTypeOK
  <1>4. Heights'
    BY <1>1, <1>3, HeightsSame DEF demoVars
  <1> QED BY <1>1, <1>2, <1>3, <1>4 DEF DemoTypeOK, demoVars

\* The result is taken, and the program goes on or ends.
LEMMA TakeType ==
    ASSUME DemoTypeOK, CryptoOK, Take, prog' = prog,
           GoOn \/ \E code \in {"abort", "1", "2", "3"} : Exit(code)
    PROVE  /\ CryptoOK' /\ step' \in DOMAIN Program[prog]
           /\ exit' \in {"running", "abort", "0", "1", "2", "3"}
           /\ fn' = "none" /\ result' = "none"
           /\ exit = "running" /\ (height' = height => Heights')
  <1>1. CryptoOK' /\ fn' = "none" /\ result' = "none" /\ exit = "running"
    BY TakeStep DEF Take, DemoTypeOK
  <1>2. CASE GoOn
    BY <1>1, <1>2, GoOnPast, HeightsSame DEF DemoTypeOK
  <1>3. CASE \E code \in {"abort", "1", "2", "3"} : Exit(code)
    BY <1>1, <1>3, HeightsSame DEF DemoTypeOK, Exit
  <1> QED BY <1>2, <1>3

\* a result that is only tested,
LEMMA InitOrThrowType ==
    ASSUME DemoTypeOK, CryptoOK, InitOrThrow PROVE DemoTypeOK' /\ CryptoOK'
  <1>1. /\ Take /\ (GoOn \/ \E code \in {"abort", "1", "2", "3"} : Exit(code))
        /\ UNCHANGED <<prog, bits, val, height, time0, time1, nonce, bump, hash, clock, back>>
    BY DEF InitOrThrow
  <1> QED BY <1>1, TakeType DEF DemoTypeOK

\* a hash that is kept,
LEMMA HashedType == ASSUME DemoTypeOK, CryptoOK, Hashed PROVE DemoTypeOK' /\ CryptoOK'
  <1>1. /\ Take /\ GoOn /\ val' = [val EXCEPT ![Step] = Computed(Step)]
        /\ UNCHANGED <<prog, bits, height, time0, time1, nonce, bump, hash, clock, back>>
    BY DEF Hashed
  <1>2. Step \in Hashing
    BY DEF Hashed, Hashing
  <1>3. val' \in [Hashing -> Seq(Labels)]
    BY <1>1, <1>2, ComputedType DEF DemoTypeOK
  <1> QED BY <1>1, <1>3, TakeType DEF DemoTypeOK

\* The chain is empty when the genesis block is checked, so its coinbase is in place
\* and it makes a chain of one block.
LEMMA GenesisPush ==
    ASSUME DemoTypeOK, GenesisChecked
    PROVE  /\ height = 0
           /\ IF Computed("vroot0") = val["root0"]
              THEN height' = 1 /\ GoOn
              ELSE height' = 0 /\ (IF prog = "mine" THEN Exit("2") ELSE GoOn)
  <1>1. "vroot0" \notin Past /\ exit = "running"
    BY StepFacts DEF GenesisChecked, AtStep, DemoTypeOK
  <1>2. height = 0
    BY <1>1 DEF DemoTypeOK, Heights
  <1>3. CoinbaseInPlace(1) /\ Pushed = 1
    BY <1>2 DEF CoinbaseInPlace, from_pub_pem, Pushed
  <1> QED BY <1>2, <1>3 DEF GenesisChecked

\* A second block is out of place on an empty chain only.
LEMMA SecondInPlace == CoinbaseInPlace(2) <=> height # 0
  BY DEF CoinbaseInPlace, from_pub_pem

\* the genesis block,
LEMMA GenesisType ==
    ASSUME DemoTypeOK, CryptoOK, GenesisChecked PROVE DemoTypeOK' /\ CryptoOK'
  <1>1. /\ Take /\ (GoOn \/ \E code \in {"abort", "1", "2", "3"} : Exit(code))
        /\ val' = [val EXCEPT !["vroot0"] = Computed("vroot0")]
        /\ UNCHANGED <<prog, bits, time0, time1, nonce, bump, hash, clock, back>>
    BY DEF GenesisChecked
  <1>2. val' \in [Hashing -> Seq(Labels)]
    BY <1>1, ComputedType DEF DemoTypeOK, Hashing
  <1>3. height' \in 0 .. 2 /\ Heights'
    <2>1. CASE height' = height
      BY <1>1, <2>1, TakeType DEF DemoTypeOK
    <2>2. CASE height' # height
      <3>1. height' = 1 /\ GoOn
        BY <2>2, GenesisPush
      <3>2. exit' = "running" => "vroot0" \in Past'
        BY <1>1, <3>1, GoOnPast DEF DemoTypeOK, GenesisChecked, AtStep
      <3> QED BY <3>1, <3>2 DEF Heights
    <2> QED BY <2>1, <2>2
  <1> QED BY <1>1, <1>2, <1>3, TakeType DEF DemoTypeOK

\* a step that is left out,
LEMMA SkipType == ASSUME DemoTypeOK, CryptoOK, Skip PROVE DemoTypeOK' /\ CryptoOK'
  <1>1. /\ fn = "none" /\ result = "none" /\ exit = "running"
        /\ GoOn \/ Exit("2")
        /\ height' = (IF Step = "pow" THEN height + 1 ELSE height)
        /\ Step = "pow" => GoOn
        /\ UNCHANGED <<prog, bits, val, time0, time1, nonce, bump, hash, clock, back, cryptoVars>>
    BY DEF Skip, Pushed
  <1>2. CryptoOK'
    BY <1>1 DEF cryptoVars, CryptoOK, CryptoTypeOK, CryptoInd, NoLeak, FailsClosed, Underway
  <1>3. fn' = "none" /\ result' = "none"
    BY <1>1 DEF cryptoVars
  <1>4. step' \in DOMAIN Program[prog] /\ exit' \in {"running", "0", "2"}
    BY <1>1, GoOnPast DEF DemoTypeOK, Exit
  <1>5. height' \in 0 .. 2 /\ Heights'
    <2>1. CASE Step = "pow"
      <3>1. exit' = "0"
        BY <1>1, <2>1, StepFacts DEF GoOn, DemoTypeOK
      <3>2. height \in 0 .. 1
        BY <1>1 DEF DemoTypeOK, Heights
      <3> QED BY <1>1, <2>1, <3>1, <3>2 DEF Heights
    <2>2. CASE Step # "pow"
      BY <1>1, <2>2, HeightsSame DEF DemoTypeOK
    <2> QED BY <2>1, <2>2
  <1> QED BY <1>1, <1>2, <1>3, <1>4, <1>5 DEF DemoTypeOK

\* a nonce,
LEMMA MinedType == ASSUME DemoTypeOK, CryptoOK, Mined PROVE DemoTypeOK' /\ CryptoOK'
  <1>1. Take /\ UNCHANGED <<prog, bits, val, height, time0>>
    BY DEF Mined
  <1>2. PICK digest \in Digests :
           /\ hash' = IF result = "zero" THEN <<>> ELSE digest
           /\ \/ GoOn /\ UNCHANGED <<time1, nonce, bump, clock, back>>
              \/ /\ nonce < MaxNonce
                 /\ nonce' = nonce + 1
                 /\ IF nonce % BumpEvery # 0 THEN UNCHANGED <<time1, bump, clock, back>>
                    ELSE \E t \in Times :
                            /\ ReadClock(t)
                            /\ time1' = (IF t > bump THEN t ELSE time1)
                            /\ bump' = (IF t > bump THEN t ELSE bump)
                 /\ UNCHANGED <<step, exit>>
    BY DEF Mined
  <1>3. hash' \in Digests \cup {<<>>}
    BY <1>2
  <1>4. CASE GoOn /\ UNCHANGED <<time1, nonce, bump, clock, back>>
    BY <1>1, <1>3, <1>4, TakeType DEF DemoTypeOK
  <1>5. CASE /\ nonce < MaxNonce
             /\ nonce' = nonce + 1
             /\ IF nonce % BumpEvery # 0 THEN UNCHANGED <<time1, bump, clock, back>>
                ELSE \E t \in Times :
                        /\ ReadClock(t)
                        /\ time1' = (IF t > bump THEN t ELSE time1)
                        /\ bump' = (IF t > bump THEN t ELSE bump)
             /\ UNCHANGED <<step, exit>>
    <2>1. CryptoOK' /\ fn' = "none" /\ result' = "none"
      BY <1>1, TakeStep DEF Take
    <2>2. /\ clock' \in Times \cup {0} /\ back' \in BOOLEAN /\ time1' \in Nat
          /\ bump' \in Times \cup {0}
      <3>1. CASE nonce % BumpEvery # 0
        BY <1>5, <3>1 DEF DemoTypeOK
      <3>2. CASE nonce % BumpEvery = 0
        <4>1. PICK t \in Times :
                 /\ ReadClock(t)
                 /\ time1' = (IF t > bump THEN t ELSE time1)
                 /\ bump' = (IF t > bump THEN t ELSE bump)
          BY <1>5, <3>2
        <4>2. clock' \in Times \cup {0} /\ back' \in BOOLEAN
          BY <4>1, ReadClockType
        <4> QED BY <4>1, <4>2, DemosAssumption DEF DemoTypeOK
      <3> QED BY <3>1, <3>2
    <2>3. nonce' \in 0 .. MaxNonce
      BY <1>5, DemosAssumption DEF DemoTypeOK
    <2>4. Heights'
      BY <1>1, <1>5, HeightsSame DEF Mined, AtStep
    <2> QED BY <1>1, <1>3, <1>5, <2>1, <2>2, <2>3, <2>4 DEF DemoTypeOK
  <1> QED BY <1>2, <1>4, <1>5

\* and a check of the second block.
LEMMA CheckedType == ASSUME DemoTypeOK, CryptoOK, Checked PROVE DemoTypeOK' /\ CryptoOK'
  <1>1. Take /\ UNCHANGED <<prog, bits, val, time0, time1, nonce, bump, clock, back>>
    BY DEF Checked
  <1>2. PICK digest \in IF Step = "pow" /\ hash = <<>> THEN Digests ELSE {hash} :
           /\ hash' = IF result = "zero" THEN hash ELSE digest
           /\ GoOn \/ \E code \in {"2", "3"} : Exit(code)
           /\ height' = IF exit' = "0" /\ prog \in {"demo_chain", "mine"} THEN height + 1
                                                                          ELSE height
    BY DEF Checked, Pushed
  <1>3. hash' \in Digests \cup {<<>>}
    BY <1>2 DEF DemoTypeOK
  <1>4. GoOn \/ \E code \in {"abort", "1", "2", "3"} : Exit(code)
    BY <1>2
  <1>5. height' \in 0 .. 2 /\ Heights'
    <2>1. CASE height' = height
      BY <1>1, <1>4, <2>1, TakeType DEF DemoTypeOK
    <2>2. CASE height' # height
      <3>1. exit' = "0" /\ height' = height + 1
        BY <1>2, <2>2
      <3>2. height \in 0 .. 1
        BY DEF DemoTypeOK, Heights, Checked
      <3> QED BY <3>1, <3>2 DEF Heights
    <2> QED BY <2>1, <2>2
  <1> QED BY <1>1, <1>3, <1>4, <1>5, TakeType DEF DemoTypeOK

\* Every step keeps the types, and Crypto's part of the invariant.
LEMMA TypeStep ==
    ASSUME DemoTypeOK, CryptoOK, [Next]_vars PROVE DemoTypeOK' /\ CryptoOK'
  <1>1. CASE UNCHANGED vars
    BY <1>1 DEF vars, demoVars, cryptoVars, DemoTypeOK, CryptoOK, CryptoTypeOK, CryptoInd,
                NoLeak, FailsClosed, Underway, Heights, Past
  <1> QED
    BY <1>1, StartType, LibraryType, InitOrThrowType, HashedType, GenesisType, SkipType,
       MinedType, CheckedType DEF Next

\* The types hold at first.
LEMMA TypeInit == ASSUME Init PROVE DemoTypeOK /\ CryptoOK
  <1>1. /\ fn = "none" /\ at = 0 /\ live = {} /\ owned = {} /\ erred = FALSE
        /\ result = "none" /\ failures = 0
    BY DEF Init, CryptoInit
  <1>2. CryptoOK
    <2>1. failures \in 0 .. MaxFailures
      BY <1>1, CryptoAssumption
    <2>2. CryptoTypeOK
      BY <1>1, <2>1, Zenon DEF CryptoTypeOK
    <2>3. CryptoInd
      BY <1>1 DEF CryptoInd, NoLeak, FailsClosed, Underway
    <2> QED BY <2>2, <2>3 DEF CryptoOK
  <1>3. <<>> \in Seq(Labels) /\ <<>> \in Digests \cup {<<>>}
    OBVIOUS
  <1>4. val \in [Hashing -> Seq(Labels)]
    BY <1>3, Zenon DEF Init, Zero
  <1>5. hash \in Digests \cup {<<>>}
    BY <1>3, Zenon DEF Init
  <1>6. step \in DOMAIN Program[prog]
    <2>1. prog \in {"demo_keys", "demo_tx", "demo_chain", "mine"} /\ step = 1
      BY ProgramSteps DEF Init
    <2>2. Program[prog] \in Seq(Steps) /\ Len(Program[prog]) \in {4, 14, 16}
      BY <2>1, ProgramSteps, ZenonT(60) DEF Short, Chaining, Mining
    <2> QED BY <2>1, <2>2
  <1>7. /\ prog \in DOMAIN Program /\ bits \in Difficulties \cup {0} /\ height = 0
        /\ exit = "running" /\ time0 = 0 /\ time1 = 0 /\ clock = 0 /\ nonce = 0 /\ bump = 0
        /\ back = FALSE
    BY DEF Init
  <1>8. nonce \in 0 .. MaxNonce /\ height \in 0 .. 2 /\ time1 \in Nat
    BY <1>7, DemosAssumption
  <1>9. Heights
    BY <1>7 DEF Heights
  <1> QED BY <1>2, <1>4, <1>5, <1>6, <1>7, <1>8, <1>9, Zenon DEF DemoTypeOK

\* The two halves of TypeOK.
LEMMA TypeIs == TypeOK /\ Heights <=> DemoTypeOK /\ CryptoTypeOK
  BY DEF TypeOK, DemoTypeOK, Labels

-----------------------------------------------------------------------------
\* The hashes a program kept and the ones that were lost.

\* What each hash is of.
LEMMA InputIs ==
    /\ Input("leaf0") = <<"coinbase">> /\ Input("vleaf0") = <<"coinbase">>
    /\ Input("leaf1") = <<"tx">> /\ Input("vleaf1") = <<"tx">>
    /\ Input("root0") = Append(val["leaf0"], "root")
    /\ Input("vroot0") = Append(val["vleaf0"], "root")
    /\ Input("root1") = Append(val["leaf1"], "root")
    /\ Input("vroot1") = Append(val["vleaf1"], "root")
    /\ Input("prev") = Append(val["root0"], "header")
    /\ Input("tip") = Append(val["root0"], "header")
  BY DEF Input

\* A hash is of hashes that were computed before it.
LEMMA InputStable ==
    ASSUME NEW s \in Hashing, \A r \in Before(s) : val'[r] = val[r]
    PROVE  Input(s)' = Input(s)
  BY DEF Hashing, Before, Input

\* A result that is taken, and what a failure says.
LEMMA TakeFacts ==
    ASSUME CryptoOK, Take
    PROVE  /\ fn = "none" /\ result # "none" /\ fn' = "none" /\ result' = "none"
           /\ erred' = erred /\ failures' = failures /\ failures \in Nat
           /\ ~Failing' /\ (erred => Failing /\ failures > 0)
           /\ (result = "done" <=> ~erred) /\ (result = "zero" => erred)
  <1>1. /\ fn = "none" /\ result # "none" /\ fn' = "none" /\ result' = "none"
        /\ erred' = erred /\ failures' = failures
    BY DEF Take
  <1>2. (result = "done" <=> ~erred) /\ (erred => failures > 0)
    BY <1>1 DEF CryptoOK, CryptoInd, FailsClosed, Underway
  <1>3. failures \in Nat
    BY CryptoAssumption DEF CryptoOK, CryptoTypeOK
  <1> QED BY <1>1, <1>2, <1>3 DEF Failing

\* What is kept was computed, and all it was computed from.
LEMMA KeptFacts ==
    ASSUME DemoTypeOK
    PROVE  /\ Kept \subseteq Hashing \cap Past /\ Step \notin Kept
           /\ \A s \in Kept : Before(s) \subseteq Past
           /\ \A s \in (Past \cap Hashing) \ {"prev", "tip", "vroot1"} : s \in Kept
           /\ "prev" \in Past /\ height # 0 => "prev" \in Kept
  BY StepFacts DEF Kept, DemoTypeOK, Hashing

\* Nothing is kept of a step that only checks, and nothing is lost by it.
LEMMA KeptSame ==
    ASSUME NEW w, Past' = Past \/ Past' = Past \cup {w},
           \/ w \notin Hashing \/ w \in {"tip", "vroot1"}
           \/ w = "prev" /\ height = 0,
           height' = 0 <=> height = 0
    PROVE  Kept' = Kept
  BY DEF Kept, Hashing

\* A step that keeps no hash loses none.
LEMMA RecordSame ==
    ASSUME Recorded, LossesCounted, val' = val, Kept' = Kept, failures' = failures,
           Failing' => Failing, Unmined' => Unmined
    PROVE  Recorded' /\ LossesCounted' /\ Lost' = Lost
  <1>1. Lost' = Lost
    BY DEF Lost
  <1>2. Recorded'
    BY <1>1 DEF Recorded, Input
  <1>3. LossesCounted'
    BY <1>1 DEF LossesCounted
  <1> QED BY <1>1, <1>2, <1>3

\* A hash is computed and kept, or lost.
LEMMA RecordGrows ==
    ASSUME DemoTypeOK, CryptoOK, Take, Recorded, LossesCounted,
           NEW w \in Hashing, w = Step, val' = [val EXCEPT ![w] = Computed(w)],
           Past' = Past \/ Past' = Past \cup {w}, hash' = hash,
           Kept' \subseteq Kept \cup {w}
    PROVE  Recorded' /\ LossesCounted'
  <1>1. /\ w \notin Kept /\ w \notin Past /\ Kept \subseteq Hashing \cap Past
        /\ \A s \in Kept : Before(s) \subseteq Past
    BY KeptFacts, StepFacts DEF DemoTypeOK
  <1>2. val \in [Hashing -> Seq(Labels)]
    BY DEF DemoTypeOK
  <1>3. /\ val'[w] = Computed(w) /\ \A s \in Hashing : s # w => val'[s] = val[s]
    BY <1>2
  <1>4. ASSUME NEW s \in Kept \cup {w} PROVE Input(s)' = Input(s)
    <2>1. s \in Hashing /\ Before(s) \subseteq Past
      BY <1>1, <1>4, StepFacts DEF DemoTypeOK
    <2>2. \A r \in Before(s) : val'[r] = val[r]
      <3>1. Before(s) \subseteq Past
        BY <2>1
      <3>2. \A r \in Past : r # w
        BY <1>1
      <3>3. ASSUME NEW r \in Before(s), r \notin Hashing PROVE FALSE
        BY <2>1, <3>3 DEF Before, Hashing
      <3> QED BY <1>3, <3>1, <3>2, <3>3
    <2> QED BY <2>1, <2>2, InputStable
  <1>5. /\ result = "zero" => Computed(w) = Zero
        /\ result # "zero" => Computed(w) = Input(w) /\ Input(w) # Zero
    BY <1>2, ComputedType, InputType
  <1>6. Lost' \subseteq Lost \cup {w} /\ (w \in Lost' => result = "zero")
    BY <1>1, <1>3, <1>5 DEF Lost
  <1>7. Recorded'
    <2>1. ASSUME NEW s \in Kept', s \notin Lost' PROVE val'[s] = Input(s)'
      <3>1. s \in Kept \cup {w} /\ val'[s] # Zero
        BY <2>1 DEF Lost
      <3>2. CASE s = w
        BY <1>3, <1>4, <1>5, <3>1, <3>2
      <3>3. CASE s # w
        <4>1. s \in Kept /\ val'[s] = val[s]
          BY <1>1, <1>3, <3>1, <3>3
        <4>2. val[s] = Input(s)
          BY <3>1, <4>1 DEF Recorded, Lost
        <4> QED BY <1>4, <4>1, <4>2
      <3> QED BY <3>2, <3>3
    <2> QED BY <2>1 DEF Recorded
  <1>8. Unmined' => Unmined
    BY DEF Unmined, Hashing
  <1>9. LossesCounted'
    <2>1. /\ failures' = failures /\ failures \in Nat /\ ~Failing'
          /\ (result = "zero" => Failing /\ failures > 0)
      BY TakeFacts
    <2>2. CASE result = "zero"
      <3>1. failures <= 1 => Lost = {} /\ ~Unmined
        BY <2>1, <2>2 DEF LossesCounted
      <3>2. failures <= 1 => Lost' \subseteq {w} /\ ~Unmined'
        BY <1>6, <1>8, <3>1
      <3>3. failures' # 0 /\ ~Failing' /\ failures' = failures
        BY <2>1, <2>2
      <3> QED BY <3>2, <3>3 DEF LossesCounted
    <2>3. CASE result # "zero"
      <3>1. Lost' \subseteq Lost
        BY <1>6, <2>3
      <3> QED BY <1>8, <2>1, <3>1 DEF LossesCounted
    <2> QED BY <2>2, <2>3
  <1> QED BY <1>7, <1>9

\* OpenSSL's part: each failure is counted when it happens.
LEMMA LibraryRecord ==
    ASSUME DemoTypeOK, CryptoOK, Recorded, LossesCounted, Library
    PROVE  Recorded' /\ LossesCounted'
  <1>1. UNCHANGED demoVars /\ failures \in Nat
    BY CryptoAssumption DEF Library, CryptoOK, CryptoTypeOK
  <1>2. Past' = Past /\ Kept' = Kept /\ val' = val /\ hash' = hash
    BY <1>1 DEF demoVars, Past, Kept
  <1>3. Lost' = Lost /\ Unmined' = Unmined
    BY <1>2 DEF Lost, Unmined
  <1>4. Recorded'
    BY <1>2, <1>3 DEF Recorded, Input
  <1>5. CASE Succeed
    <2>1. failures' = failures /\ erred' = erred /\ fn # "none"
      BY <1>5 DEF Succeed
    <2> QED BY <1>3, <1>4, <2>1 DEF LossesCounted, Failing
  <1>6. CASE Fail
    <2>1. \/ failures' = failures + 1
          \/ failures' = failures /\ erred
      BY <1>6, FailStep
    <2>2. CASE failures' = failures + 1
      <3>1. failures' # 0 /\ (failures' <= 1 => failures = 0)
        BY <1>1, <2>2
      <3>2. failures' <= 1 => Lost' = {} /\ ~Unmined'
        BY <1>3, <3>1 DEF LossesCounted
      <3> QED BY <1>4, <3>1, <3>2 DEF LossesCounted
    <2>3. CASE failures' = failures /\ erred
      <3>1. Failing
        BY <1>6, <2>3 DEF Fail, Failing
      <3> QED BY <1>3, <1>4, <2>3, <3>1 DEF LossesCounted
    <2> QED BY <2>1, <2>2, <2>3
  <1> QED BY <1>5, <1>6 DEF Library

\* A call of a function forgets no failure: there was none under way.
LEMMA StartRecord ==
    ASSUME DemoTypeOK, Recorded, LossesCounted, Start
    PROVE  Recorded' /\ LossesCounted' /\ Past' = Past /\ Kept' = Kept
  <1>1. /\ Begin(FunctionOf(Step)) /\ hash' = IF Step = "mine" THEN <<>> ELSE hash
        /\ UNCHANGED <<prog, step, val, height>>
    BY DEF Start
  <1>2. Past' = Past /\ Kept' = Kept
    BY <1>1 DEF Past, Kept
  <1>3. ~Failing' /\ failures' = failures
    BY <1>1 DEF Begin, Failing
  <1>4. Unmined' => Unmined
    <2>1. "mine" \in Past => Step # "mine"
      BY StepFacts DEF DemoTypeOK
    <2> QED BY <1>1, <1>2, <2>1 DEF Unmined
  <1> QED BY <1>1, <1>2, <1>3, <1>4, RecordSame

\* Neither crypto_init nor the signature is a hash.
LEMMA InitOrThrowRecord ==
    ASSUME DemoTypeOK, CryptoOK, Recorded, LossesCounted, InitOrThrow
    PROVE  /\ Recorded' /\ LossesCounted'
           /\ Past' = Past \/ (Past' = Past \cup {Step} /\ Step \in {"init", "keys", "sign"})
  <1>1. /\ Take /\ UNCHANGED <<prog, val, height, hash>>
        /\ (GoOn /\ Step \in {"init", "keys", "sign"}) \/ step' = step
    BY DEF InitOrThrow, AtStep, Exit
  <1>2. Past' = Past \/ (Past' = Past \cup {Step} /\ Step \in {"init", "keys", "sign"})
    BY <1>1, GoOnPast DEF DemoTypeOK, Past
  <1>3. Kept' = Kept
    BY <1>1, <1>2 DEF Kept, Hashing
  <1>4. Unmined' => Unmined
    BY <1>1, <1>2 DEF Unmined
  <1> QED BY <1>1, <1>2, <1>3, <1>4, TakeFacts, RecordSame

\* A hash of the blocks being built.
LEMMA HashedRecord ==
    ASSUME DemoTypeOK, CryptoOK, Recorded, LossesCounted, Hashed
    PROVE  Recorded' /\ LossesCounted' /\ Past' = Past \cup {Step}
  <1>1. /\ Take /\ GoOn /\ val' = [val EXCEPT ![Step] = Computed(Step)]
        /\ Step \in {"leaf0", "root0", "vleaf0", "leaf1", "root1", "vleaf1", "prev"}
        /\ UNCHANGED <<prog, height, hash>>
    BY DEF Hashed
  <1>2. Past' = Past \cup {Step}
    BY <1>1, GoOnPast, StepFacts DEF DemoTypeOK
  <1>3. PICK w \in Hashing : w = Step
    BY <1>1 DEF Hashing
  <1>4. Kept' \subseteq Kept \cup {w}
    BY <1>1, <1>2, <1>3 DEF Kept
  <1>5. val' = [val EXCEPT ![w] = Computed(w)]
    BY <1>1, <1>3
  <1> QED BY <1>1, <1>2, <1>3, <1>4, <1>5, RecordGrows

\* The root of the genesis block, computed again before any later step.
LEMMA GenesisRecord ==
    ASSUME DemoTypeOK, CryptoOK, Recorded, LossesCounted, GenesisChecked
    PROVE  /\ Recorded' /\ LossesCounted'
           /\ \/ Past' = Past /\ exit' = "2" /\ prog = "mine"
                 /\ Computed("vroot0") # val["root0"]
              \/ Past' = Past \cup {"vroot0"} /\ exit' = "running"
           /\ \A s \in {"prev", "tip", "mine", "vroot1"} : s \notin Past'
  <1>1. /\ Take /\ Step = "vroot0" /\ exit = "running"
        /\ val' = [val EXCEPT !["vroot0"] = Computed("vroot0")]
        /\ UNCHANGED <<prog, hash>>
        /\ GoOn \/ (Exit("2") /\ prog = "mine" /\ Computed("vroot0") # val["root0"])
    BY GenesisPush DEF GenesisChecked, AtStep
  <1>2. \/ Past' = Past /\ exit' = "2" /\ prog = "mine" /\ Computed("vroot0") # val["root0"]
        \/ Past' = Past \cup {"vroot0"} /\ exit' = "running"
    <2>1. CASE GoOn
      BY <1>1, <2>1, GoOnPast, StepFacts DEF DemoTypeOK
    <2>2. CASE Exit("2") /\ prog = "mine" /\ Computed("vroot0") # val["root0"]
      BY <1>1, <2>2 DEF Exit, Past
    <2> QED BY <1>1, <2>1, <2>2
  <1>3. \A s \in {"prev", "tip", "mine", "vroot1"} : s \notin Past'
    <2>1. \A s \in {"prev", "tip", "mine", "vroot1"} : "vroot0" \in Before(s)
      BY DEF Before
    <2>2. "vroot0" \notin Past /\ \A s \in Past : Before(s) \subseteq Past
      BY <1>1, StepFacts DEF DemoTypeOK
    <2> QED BY <1>2, <2>1, <2>2
  <1>4. Kept' \subseteq Kept \cup {"vroot0"}
    BY <1>2, <1>3 DEF Kept
  <1>5. "vroot0" \in Hashing
    BY DEF Hashing
  <1> QED BY <1>1, <1>2, <1>3, <1>4, <1>5, RecordGrows

\* Steps left out: the work at difficulty 0, and the parent of a block without one.
LEMMA SkipRecord ==
    ASSUME DemoTypeOK, CryptoOK, Recorded, LossesCounted, ChecksShow, Skip
    PROVE  /\ Recorded' /\ LossesCounted'
           /\ \/ /\ Step = "pow" /\ bits = 0 /\ height # 0 /\ height' = 2 /\ exit' = "0"
                 /\ Past' = Past /\ prog = "mine"
              \/ /\ Step = "prev" /\ height = 0 /\ height' = height /\ exit' = "running"
                 /\ Past' = Past \cup {"prev"}
              \/ /\ Step = "tip" /\ height = 0 /\ height' = height /\ exit' = "2"
                 /\ Past' = Past
  <1>1. /\ exit = "running" /\ fn = "none" /\ result = "none" /\ Skipped
        /\ IF Step = "tip" /\ height = 0 THEN Exit("2") ELSE Step # "tip" => GoOn
        /\ height' = (IF Step = "pow" THEN height + 1 ELSE height)
        /\ UNCHANGED <<prog, val, hash, cryptoVars>>
    BY SecondInPlace DEF Skip, Pushed
  <1>2. CASE Step = "pow"
    <2>1. "tip" \in Before("pow")
      BY DEF Before
    <2>2. bits = 0 /\ prog = "mine" /\ "tip" \in Past
      BY <1>1, <1>2, <2>1, StepFacts DEF Skipped, DemoTypeOK
    <2>3. height = 1 /\ height' = 2
      <3>1. height # 0 /\ height \in 0 .. 1
        BY <1>1, <2>2 DEF ChecksShow, DemoTypeOK, Heights
      <3> QED BY <1>1, <1>2, <3>1
    <2>4. step = Len(Program[prog])
      BY <1>2, StepFacts DEF DemoTypeOK
    <2>5. exit' = "0" /\ Past' = Past
      BY <1>1, <1>2, <2>4 DEF GoOn, Past
    <2>6. Kept' = Kept
      BY <1>1, <1>2, <2>3, <2>5 DEF Kept
    <2>7. Unmined' = Unmined /\ Failing' = Failing /\ failures' = failures
      BY <1>1, <2>5 DEF Unmined, Failing, cryptoVars
    <2> QED BY <1>1, <1>2, <2>2, <2>3, <2>5, <2>6, <2>7, RecordSame
  <1>3. CASE Step \in {"prev", "tip"}
    <2>1. height = 0 /\ height' = height
      BY <1>1, <1>3 DEF Skipped
    <2>2. \/ Step = "prev" /\ exit' = "running" /\ Past' = Past \cup {"prev"}
          \/ Step = "tip" /\ exit' = "2" /\ Past' = Past
      <3>1. CASE Step = "prev"
        BY <1>1, <3>1, GoOnPast, StepFacts DEF DemoTypeOK
      <3>2. CASE Step = "tip"
        BY <1>1, <2>1, <3>2 DEF Exit, Past
      <3> QED BY <1>3, <3>1, <3>2
    <2>3. Kept' = Kept
      BY <2>1, <2>2 DEF Kept
    <2>4. (Unmined' => Unmined) /\ Failing' = Failing /\ failures' = failures
      BY <1>1, <2>2 DEF Unmined, Failing, cryptoVars
    <2> QED BY <1>1, <1>3, <2>1, <2>2, <2>3, <2>4, RecordSame
  <1> QED BY <1>1, <1>2, <1>3 DEF Skipped

\* A header that mine_block took has the work, or its hash was not got.
LEMMA MinedRecord ==
    ASSUME DemoTypeOK, CryptoOK, Recorded, LossesCounted, Mined
    PROVE  /\ Recorded' /\ LossesCounted' /\ exit' = "running"
           /\ \/ Past' = Past
              \/ /\ Past' = Past \cup {"mine"}
                 /\ hash' # <<>> => leading_zero_bits(hash') >= bits
  <1>1. Take /\ Step = "mine" /\ exit = "running" /\ UNCHANGED <<prog, val, height>>
    BY DEF Mined, AtStep
  <1>2. PICK digest \in Digests :
           /\ hash' = IF result = "zero" THEN <<>> ELSE digest
           /\ (Found(Seen(digest)) /\ GoOn) \/ UNCHANGED <<step, exit>>
    BY DEF Mined
  <1>3. digest # <<>>
    BY DemosAssumption
  <1>4. \/ Past' = Past /\ exit' = "running"
        \/ Past' = Past \cup {"mine"} /\ exit' = "running" /\ Found(Seen(digest))
    <2>1. CASE Found(Seen(digest)) /\ GoOn
      BY <1>1, <2>1, GoOnPast, StepFacts DEF DemoTypeOK
    <2>2. CASE UNCHANGED <<step, exit>>
      BY <1>1, <2>2 DEF Past
    <2> QED BY <1>2, <2>1, <2>2
  <1>5. Kept' = Kept
    BY <1>1, <1>4 DEF Kept, Hashing
  <1>6. Lost' = Lost
    BY <1>1, <1>5 DEF Lost
  <1>7. Recorded'
    BY <1>1, <1>5, <1>6 DEF Recorded, Input
  <1>8. "mine" \notin Past
    BY <1>1, StepFacts DEF DemoTypeOK
  <1>9. LossesCounted'
    <2>1. /\ failures' = failures /\ failures \in Nat /\ ~Failing'
          /\ (result = "zero" => Failing /\ failures > 0)
      BY <1>1, TakeFacts
    <2>2. Unmined' => result = "zero"
      BY <1>2, <1>3 DEF Unmined
    <2>3. CASE result = "zero"
      <3>1. failures <= 1 => Lost = {}
        BY <2>1, <2>3 DEF LossesCounted
      <3> QED BY <1>6, <2>1, <2>3, <3>1 DEF LossesCounted
    <2>4. CASE result # "zero"
      BY <1>6, <2>1, <2>2, <2>4 DEF LossesCounted
    <2> QED BY <2>3, <2>4
  <1>10. ASSUME hash' # <<>>, Found(Seen(digest)) PROVE leading_zero_bits(hash') >= bits
    <2>1. hash' = digest /\ Seen(digest) = digest
      BY <1>2, <1>10 DEF Seen
    <2> QED BY <1>10, <2>1 DEF Found
  <1> QED BY <1>4, <1>7, <1>9, <1>10

\* The checks of the second block keep no hash, and the last one ends the program.
LEMMA CheckedRecord ==
    ASSUME DemoTypeOK, CryptoOK, Recorded, LossesCounted, ChecksShow, Checked
    PROVE  /\ Recorded' /\ LossesCounted'
           /\ \/ exit' # "running" /\ Past' = Past
              \/ exit' = "running" /\ Past' = Past \cup {Step} /\ Step # "pow"
           /\ height' = 0 <=> height = 0
           /\ exit' = "0" /\ prog \in {"demo_chain", "mine"} => height' = 2
  <1>1. Take /\ exit = "running" /\ UNCHANGED <<prog, val>>
    BY DEF Checked
  <1>2. PICK digest \in IF Step = "pow" /\ hash = <<>> THEN Digests ELSE {hash} :
           /\ hash' = IF result = "zero" THEN hash ELSE digest
           /\ GoOn \/ \E code \in {"2", "3"} : Exit(code)
           /\ height' = IF exit' = "0" /\ prog \in {"demo_chain", "mine"} THEN height + 1
                                                                          ELSE height
    BY DEF Checked, Pushed
  <1>3. \/ exit' \in {"2", "3"} /\ Past' = Past
        \/ exit' = "0" /\ step = Len(Program[prog]) /\ Past' = Past
        \/ exit' = "running" /\ Past' = Past \cup {Step}
    BY <1>1, <1>2, GoOnPast DEF DemoTypeOK, Exit, Past
  <1>4. Step = "pow" => exit' # "running"
    BY <1>1, <1>2, StepFacts DEF GoOn, DemoTypeOK, Exit
  <1>5. /\ height' = 0 <=> height = 0
        /\ exit' = "0" /\ prog \in {"demo_chain", "mine"} => height' = 2
    <2>1. CASE exit' = "0" /\ prog \in {"demo_chain", "mine"}
      <3>1. "tip" \in Before("pow") /\ "tip" \in Before("vroot1")
        BY DEF Before
      <3>2. step = Len(Program[prog])
        BY <1>3, <2>1
      <3>3. "tip" \in Past
        BY <2>1, <3>1, <3>2, StepFacts DEF DemoTypeOK
      <3>4. height # 0 /\ height \in 0 .. 1
        BY <1>1, <3>3 DEF ChecksShow, DemoTypeOK, Heights
      <3> QED BY <1>2, <2>1, <3>4
    <2>2. CASE ~(exit' = "0" /\ prog \in {"demo_chain", "mine"})
      BY <1>2, <2>2
    <2> QED BY <2>1, <2>2
  <1>6. Step \in {"tip", "vroot1", "verify", "pow"}
    BY DEF Checked
  <1>7. Kept' = Kept
    BY <1>3, <1>5, <1>6 DEF Kept, Hashing
  <1>8. Unmined' => Unmined
    BY <1>2, <1>3, <1>6 DEF Unmined
  <1>9. Recorded' /\ LossesCounted'
    BY <1>1, <1>7, <1>8, TakeFacts, RecordSame
  <1> QED BY <1>3, <1>4, <1>5, <1>9

-----------------------------------------------------------------------------
\* What the checks show.

\* A step that is no check, or a check that ends the program, shows nothing new.
LEMMA ChecksSame ==
    ASSUME ChecksShow, failures \in Nat, failures' \in Nat, failures <= failures',
           height' = 0 <=> height = 0,
           \A s \in {"vroot0", "tip", "vroot1", "mine"} : s \in Past' => s \in Past,
           "vroot0" \in Past => val'["root0"] = val["root0"],
           "tip" \in Past => val'["prev"] = val["prev"],
           "vroot1" \in Past => val'["root1"] = val["root1"],
           bits' = bits, exit' = "running" /\ "mine" \in Past => exit = "running" /\ hash' = hash
    PROVE  ChecksShow'
  <1>1. failures' = 0 => failures = 0
    OBVIOUS
  <1>2. failures' <= 1 => failures <= 1
    OBVIOUS
  <1>3. "vroot0" \in Past' /\ failures' = 0 => height' # 0
    BY <1>1 DEF ChecksShow
  <1>4. "vroot0" \in Past' /\ height' # 0 /\ failures' <= 1
           => val'["root0"] = <<"coinbase", "root">>
    BY <1>2 DEF ChecksShow
  <1>5. /\ "tip" \in Past' => height' # 0
        /\ "tip" \in Past' /\ failures' <= 1 => val'["prev"] # Zero
    BY <1>2 DEF ChecksShow
  <1>6. "vroot1" \in Past' /\ failures' <= 1 => val'["root1"] = <<"tx", "root">>
    BY <1>2 DEF ChecksShow
  <1>7. "mine" \in Past' /\ hash' # <<>> /\ exit' = "running"
           => leading_zero_bits(hash') >= bits'
    BY DEF ChecksShow
  <1> QED BY <1>3, <1>4, <1>5, <1>6, <1>7 DEF ChecksShow

\* Hashes of hashes, written out.
LEMMA Written ==
    /\ Append(<<"coinbase">>, "root") = <<"coinbase", "root">>
    /\ Append(<<"tx">>, "root") = <<"tx", "root">>
    /\ Append(<<"coinbase", "root">>, "header") = <<"coinbase", "root", "header">>
  <1>1. ASSUME NEW s \in Seq(Labels), NEW t \in Seq(Labels), Len(s) = Len(t),
               \A i \in 1 .. Len(s) : s[i] = t[i]
        PROVE  s = t
    BY <1>1, SeqEqual
  <1>2. /\ <<"coinbase">> \in Seq(Labels) /\ <<"tx">> \in Seq(Labels)
        /\ <<"coinbase", "root">> \in Seq(Labels) /\ <<"tx", "root">> \in Seq(Labels)
        /\ <<"coinbase", "root", "header">> \in Seq(Labels)
        /\ "root" \in Labels /\ "header" \in Labels
    BY DEF Labels
  <1>3. ASSUME NEW s \in Seq(Labels), NEW x \in Labels
        PROVE  /\ Append(s, x) \in Seq(Labels) /\ Len(Append(s, x)) = Len(s) + 1
               /\ \A i \in 1 .. Len(s) : Append(s, x)[i] = s[i]
               /\ Append(s, x)[Len(s) + 1] = x
    OBVIOUS
  <1>4. ASSUME NEW a \in Labels, NEW x \in Labels, <<a>> \in Seq(Labels), <<a, x>> \in Seq(Labels)
        PROVE  Append(<<a>>, x) = <<a, x>>
    <2> DEFINE s == Append(<<a>>, x)
    <2>1. s \in Seq(Labels) /\ Len(s) = 2 /\ s[1] = a /\ s[2] = x
      BY <1>3, <1>4
    <2> HIDE DEF s
    <2>2. Len(s) = Len(<<a, x>>) /\ \A i \in 1 .. Len(s) : s[i] = <<a, x>>[i]
      BY <2>1
    <2>3. s = <<a, x>>
      BY <1>1, <1>4, <2>1, <2>2
    <2> QED BY <2>3 DEF s
  <1>5. ASSUME NEW a \in Labels, NEW b \in Labels, NEW x \in Labels,
               <<a, b>> \in Seq(Labels), <<a, b, x>> \in Seq(Labels)
        PROVE  Append(<<a, b>>, x) = <<a, b, x>>
    <2> DEFINE s == Append(<<a, b>>, x)
    <2>1. s \in Seq(Labels) /\ Len(s) = 3 /\ s[1] = a /\ s[2] = b /\ s[3] = x
      BY <1>3, <1>5
    <2> HIDE DEF s
    <2>2. Len(s) = Len(<<a, b, x>>) /\ \A i \in 1 .. Len(s) : s[i] = <<a, b, x>>[i]
      BY <2>1
    <2>3. s = <<a, b, x>>
      BY <1>1, <1>5, <2>1, <2>2
    <2> QED BY <2>3 DEF s
  <1>6. "coinbase" \in Labels /\ "tx" \in Labels
    BY DEF Labels
  <1> QED BY <1>2, <1>4, <1>5, <1>6

\* A root that is the same when it is computed again is the right one, unless two
\* calls failed.
LEMMA RootRight ==
    ASSUME DemoTypeOK, CryptoOK, Take, Recorded, LossesCounted, failures <= 1
    PROVE  /\ Step = "vroot0" /\ Computed("vroot0") = val["root0"]
              => val["root0"] = <<"coinbase", "root">>
           /\ Step = "vroot1" /\ Computed("vroot1") = val["root1"]
              => val["root1"] = <<"tx", "root">>
  <1>1. /\ Append(<<"coinbase">>, "root") = <<"coinbase", "root">>
        /\ Append(<<"tx">>, "root") = <<"tx", "root">>
    BY Written
  <1>2. /\ \A s \in Past \cup {Step} : Before(s) \subseteq Past
        /\ \A s \in (Past \cap Hashing) \ {"prev", "tip", "vroot1"} : s \in Kept
    BY StepFacts, KeptFacts DEF DemoTypeOK
  <1>3. result = "zero" => Lost = {}
    BY TakeFacts DEF LossesCounted
  <1>4. \A s, t \in Lost : s = t
    BY DEF LossesCounted
  <1>5. \A s \in Kept : s \notin Lost => val[s] = Input(s)
    BY DEF Recorded
  <1>6. \A s \in Kept : val[s] = Zero <=> s \in Lost
    BY DEF Lost
  <1>7. ASSUME Step = "vroot0", Computed("vroot0") = val["root0"]
        PROVE  val["root0"] = <<"coinbase", "root">>
    <2>1. {"leaf0", "root0", "vleaf0"} \subseteq Kept /\ "vroot0" \in Hashing
      BY <1>2, <1>7 DEF Before, Hashing
    <2>2. result # "zero"
      <3>1. result = "zero" => val["root0"] = Zero
        BY <1>7 DEF Computed
      <3> QED BY <1>3, <1>6, <2>1, <3>1
    <2>3. Computed("vroot0") = Input("vroot0") /\ Input("vroot0") # Zero
      BY <2>1, <2>2, ComputedType, InputType DEF DemoTypeOK
    <2>4. "root0" \notin Lost
      BY <1>6, <1>7, <2>1, <2>3
    <2>5. val["root0"] = Input("root0") /\ val["root0"] = Input("vroot0")
      BY <1>5, <1>7, <2>1, <2>3, <2>4
    <2>6. val["leaf0"] = Input("leaf0") \/ val["vleaf0"] = Input("vleaf0")
      BY <1>4, <1>5, <2>1
    <2> QED BY <1>1, <2>5, <2>6, InputIs
  <1>8. ASSUME Step = "vroot1", Computed("vroot1") = val["root1"]
        PROVE  val["root1"] = <<"tx", "root">>
    <2>1. {"leaf1", "root1", "vleaf1"} \subseteq Kept /\ "vroot1" \in Hashing
      BY <1>2, <1>8 DEF Before, Hashing
    <2>2. result # "zero"
      <3>1. result = "zero" => val["root1"] = Zero
        BY <1>8 DEF Computed
      <3> QED BY <1>3, <1>6, <2>1, <3>1
    <2>3. Computed("vroot1") = Input("vroot1") /\ Input("vroot1") # Zero
      BY <2>1, <2>2, ComputedType, InputType DEF DemoTypeOK
    <2>4. "root1" \notin Lost
      BY <1>6, <1>8, <2>1, <2>3
    <2>5. val["root1"] = Input("root1") /\ val["root1"] = Input("vroot1")
      BY <1>5, <1>8, <2>1, <2>3, <2>4
    <2>6. val["leaf1"] = Input("leaf1") \/ val["vleaf1"] = Input("vleaf1")
      BY <1>4, <1>5, <2>1
    <2> QED BY <1>1, <2>5, <2>6, InputIs
  <1> QED BY <1>7, <1>8

\* When nothing failed, what is computed again is what it was.
LEMMA SameAgain ==
    ASSUME DemoTypeOK, CryptoOK, Take, Recorded, LossesCounted, failures = 0
    PROVE  /\ result = "done"
           /\ Step = "vroot0" => Computed("vroot0") = val["root0"]
           /\ Step = "vroot1" => Computed("vroot1") = val["root1"]
           /\ Step = "tip" /\ height # 0 => Computed("tip") = val["prev"]
  <1>1. result = "done"
    BY TakeFacts
  <1>2. /\ \A s \in Past \cup {Step} : Before(s) \subseteq Past
        /\ \A s \in (Past \cap Hashing) \ {"prev", "tip", "vroot1"} : s \in Kept
        /\ "prev" \in Past /\ height # 0 => "prev" \in Kept
    BY StepFacts, KeptFacts DEF DemoTypeOK
  <1>3. \A s \in Kept : val[s] = Input(s)
    BY DEF Recorded, LossesCounted
  <1>4. \A s \in {"vroot0", "vroot1", "tip"} : Computed(s) = Input(s)
    BY <1>1, ComputedType DEF DemoTypeOK, Hashing
  <1>5. ASSUME Step = "vroot0" PROVE Computed("vroot0") = val["root0"]
    <2>1. {"leaf0", "root0", "vleaf0"} \subseteq Kept
      BY <1>2, <1>5 DEF Before, Hashing
    <2>2. val["leaf0"] = val["vleaf0"] /\ val["root0"] = Append(val["leaf0"], "root")
      BY <1>3, <2>1, InputIs
    <2> QED BY <1>4, <2>2, InputIs
  <1>6. ASSUME Step = "vroot1" PROVE Computed("vroot1") = val["root1"]
    <2>1. {"leaf1", "root1", "vleaf1"} \subseteq Kept
      BY <1>2, <1>6 DEF Before, Hashing
    <2>2. val["leaf1"] = val["vleaf1"] /\ val["root1"] = Append(val["leaf1"], "root")
      BY <1>3, <2>1, InputIs
    <2> QED BY <1>4, <2>2, InputIs
  <1>7. ASSUME Step = "tip", height # 0 PROVE Computed("tip") = val["prev"]
    <2>1. "prev" \in Kept
      BY <1>2, <1>7 DEF Before
    <2> QED BY <1>3, <1>4, <2>1, InputIs
  <1> QED BY <1>1, <1>5, <1>6, <1>7

\* The part of the invariant a step may rely on.
Rely == DemoTypeOK /\ CryptoOK /\ Idle /\ Recorded /\ LossesCounted /\ ChecksShow

\* What the checks show, action by action: a call of OpenSSL,
LEMMA LibraryChecks == ASSUME Rely, Library PROVE ChecksShow'
  <1>1. UNCHANGED demoVars /\ failures \in Nat
    BY CryptoAssumption DEF Library, Rely, CryptoOK, CryptoTypeOK
  <1>2. failures' \in Nat /\ failures <= failures'
    <2>1. CASE Succeed
      <3>1. failures' = failures
        BY <2>1 DEF Succeed
      <3> QED BY <1>1, <3>1
    <2>2. CASE Fail
      <3>1. failures' = failures + 1 \/ failures' = failures
        BY <2>2, FailStep DEF Rely
      <3> QED BY <1>1, <3>1
    <2> QED BY <2>1, <2>2 DEF Library
  <1>3. Past' = Past
    BY <1>1 DEF demoVars, Past
  <1> QED BY <1>1, <1>2, <1>3, ChecksSame DEF demoVars, Rely

\* the start of a function,
LEMMA StartChecks == ASSUME Rely, Start PROVE ChecksShow'
  <1>1. /\ Begin(FunctionOf(Step)) /\ hash' = IF Step = "mine" THEN <<>> ELSE hash
        /\ UNCHANGED <<prog, bits, step, exit, val, height>>
    BY DEF Start
  <1>2. failures' = failures /\ failures \in Nat
    BY <1>1, CryptoAssumption DEF Begin, Rely, CryptoOK, CryptoTypeOK
  <1>3. Past' = Past
    BY <1>1 DEF Past
  <1>4. "mine" \in Past => hash' = hash
    BY <1>1, StepFacts DEF Rely, DemoTypeOK
  <1> QED BY <1>1, <1>2, <1>3, <1>4, ChecksSame DEF Rely

\* a result that is only tested,
LEMMA InitOrThrowChecks == ASSUME Rely, InitOrThrow PROVE ChecksShow'
  <1>1. Take /\ exit = "running" /\ UNCHANGED <<bits, val, height, hash>>
    BY DEF InitOrThrow
  <1>2. failures' = failures /\ failures \in Nat
    BY <1>1, TakeFacts DEF Rely
  <1>3. \A s \in {"vroot0", "tip", "vroot1", "mine"} : s \in Past' => s \in Past
    BY InitOrThrowRecord DEF Rely
  <1> QED BY <1>1, <1>2, <1>3, ChecksSame DEF Rely

\* a hash that is kept, never one that was compared before,
LEMMA HashedChecks == ASSUME Rely, Hashed PROVE ChecksShow'
  <1>1. /\ Take /\ exit = "running" /\ val' = [val EXCEPT ![Step] = Computed(Step)]
        /\ Step \in {"leaf0", "root0", "vleaf0", "leaf1", "root1", "vleaf1", "prev"}
        /\ UNCHANGED <<bits, height, hash>>
    BY DEF Hashed
  <1>2. failures' = failures /\ failures \in Nat
    BY <1>1, TakeFacts DEF Rely
  <1>3. Past' = Past \cup {Step}
    BY HashedRecord DEF Rely
  <1>4. /\ Step \notin Past /\ \A s \in Past : Before(s) \subseteq Past
        /\ val \in [Hashing -> Seq(Labels)]
    BY StepFacts DEF Rely, DemoTypeOK
  <1>5. /\ "root0" \in Before("vroot0") /\ "prev" \in Before("tip")
        /\ "root1" \in Before("vroot1")
    BY DEF Before
  <1>6. /\ "vroot0" \in Past => Step # "root0"
        /\ "tip" \in Past => Step # "prev"
        /\ "vroot1" \in Past => Step # "root1"
    BY <1>4, <1>5
  <1>7. \A s \in {"root0", "prev", "root1"} : Step # s => val'[s] = val[s]
    BY <1>1, <1>4 DEF Hashing
  <1> QED BY <1>1, <1>2, <1>3, <1>6, <1>7, ChecksSame DEF Rely

\* the genesis block, on the chain when its root is the same again,
LEMMA GenesisChecks == ASSUME Rely, GenesisChecked PROVE ChecksShow'
  <1>1. /\ Take /\ Step = "vroot0"
        /\ val' = [val EXCEPT !["vroot0"] = Computed("vroot0")]
        /\ height' = IF Computed("vroot0") = val["root0"] THEN 1 ELSE 0
    BY GenesisPush DEF Rely, GenesisChecked, AtStep
  <1>2. \A s \in {"prev", "tip", "mine", "vroot1"} : s \notin Past'
    BY GenesisRecord DEF Rely
  <1>3. failures' = failures
    BY <1>1, TakeFacts DEF Rely
  <1>4. val'["root0"] = val["root0"]
    BY <1>1 DEF Rely, DemoTypeOK, Hashing
  <1>5. failures = 0 => height' # 0
    BY <1>1, SameAgain DEF Rely
  <1>6. height' # 0 /\ failures <= 1 => val["root0"] = <<"coinbase", "root">>
    BY <1>1, RootRight DEF Rely
  <1> QED BY <1>2, <1>3, <1>4, <1>5, <1>6 DEF ChecksShow

\* a step that is left out,
LEMMA SkipChecks == ASSUME Rely, Skip PROVE ChecksShow'
  <1>1. /\ exit = "running" /\ UNCHANGED <<bits, val, hash, cryptoVars>>
    BY DEF Skip
  <1>2. failures' = failures /\ failures \in Nat
    BY <1>1, CryptoAssumption DEF cryptoVars, Rely, CryptoOK, CryptoTypeOK
  <1>3. /\ height' = 0 <=> height = 0
        /\ \A s \in {"vroot0", "tip", "vroot1", "mine"} : s \in Past' => s \in Past
    BY SkipRecord DEF Rely
  <1> QED BY <1>1, <1>2, <1>3, ChecksSame DEF Rely

\* a nonce,
LEMMA MinedChecks == ASSUME Rely, Mined PROVE ChecksShow'
  <1>1. Take /\ Step = "mine" /\ UNCHANGED <<bits, val, height>>
    BY DEF Mined, AtStep
  <1>2. failures' = failures /\ failures \in Nat
    BY <1>1, TakeFacts DEF Rely
  <1>3. \/ Past' = Past
        \/ /\ Past' = Past \cup {"mine"}
           /\ hash' # <<>> => leading_zero_bits(hash') >= bits
    BY MinedRecord DEF Rely
  <1>4. "mine" \notin Past
    BY <1>1, StepFacts DEF Rely, DemoTypeOK
  <1> QED BY <1>1, <1>2, <1>3, <1>4 DEF ChecksShow, Rely

\* and the second block: the hash of its parent, its root, its signature, its work.
LEMMA CheckedChecks == ASSUME Rely, Checked PROVE ChecksShow'
  <1>1. /\ Take /\ exit = "running" /\ UNCHANGED <<prog, bits, val>>
        /\ Step \in {"tip", "vroot1", "verify", "pow"}
    BY DEF Checked
  <1>2. failures' = failures /\ failures \in Nat
    BY <1>1, TakeFacts DEF Rely
  <1>3. /\ \/ exit' # "running" /\ Past' = Past
           \/ exit' = "running" /\ Past' = Past \cup {Step} /\ Step # "pow"
        /\ height' = 0 <=> height = 0
    BY CheckedRecord DEF Rely
  <1>4. CASE exit' # "running" \/ Step = "verify"
    <2>1. exit' = "running" => hash' = hash
      BY <1>4 DEF Checked
    <2>2. \A s \in {"vroot0", "tip", "vroot1", "mine"} : s \in Past' => s \in Past
      BY <1>3, <1>4
    <2> QED BY <1>1, <1>2, <1>3, <2>1, <2>2, ChecksSame DEF Rely
  <1>5. CASE exit' = "running" /\ Step \in {"tip", "vroot1"}
    <2>1. prog \notin {"demo_keys", "demo_tx"}
      BY <1>5, StepFacts DEF Rely, DemoTypeOK
    <2>2. PICK digest \in {hash} :
             /\ hash' = IF result = "zero" THEN hash ELSE digest
             /\ IF Valid(digest) \/ prog \in {"demo_keys", "demo_tx"} THEN GoOn
                ELSE Exit(IF prog = "mine" THEN "3" ELSE "2")
      BY <1>5 DEF Checked
    <2>3. Valid(digest) /\ hash' = hash
      BY <1>5, <2>1, <2>2 DEF Exit
    <2>4. CASE Step = "tip"
      <3>1. Computed("tip") = val["prev"]
        BY <2>3, <2>4 DEF Valid, Passes
      <3>2. height # 0
        BY <1>1, <2>4, TakeFacts DEF Rely, Idle, Skipped
      <3>3. "prev" \in Kept
        <4>1. "prev" \in Before("tip")
          BY DEF Before
        <4>2. "prev" \in Past
          BY <2>4, <4>1, StepFacts DEF Rely, DemoTypeOK
        <4> QED BY <3>2, <4>2, KeptFacts DEF Rely
      <3>4. failures <= 1 => val["prev"] # Zero
        <4>1. ASSUME val["prev"] = Zero PROVE result = "zero"
          <5>1. "tip" \in Hashing
            BY DEF Hashing
          <5>2. val \in [Hashing -> Seq(Labels)]
            BY DEF Rely, DemoTypeOK
          <5>3. Input("tip") # Zero
            BY <5>1, <5>2, InputType
          <5> QED BY <3>1, <4>1, <5>3 DEF Computed
        <4>2. val["prev"] = Zero => "prev" \in Lost
          BY <3>3 DEF Lost
        <4> QED BY <1>1, <4>1, <4>2, TakeFacts DEF Rely, LossesCounted
      <3>5. ChecksShow
        BY DEF Rely
      <3> QED BY <1>1, <1>2, <1>3, <1>5, <2>3, <2>4, <3>2, <3>4, <3>5 DEF ChecksShow
    <2>5. CASE Step = "vroot1"
      <3>1. Computed("vroot1") = val["root1"]
        BY <2>3, <2>5 DEF Valid, Passes
      <3>2. failures <= 1 => val["root1"] = <<"tx", "root">>
        BY <1>1, <2>5, <3>1, RootRight DEF Rely
      <3>3. ChecksShow
        BY DEF Rely
      <3> QED BY <1>1, <1>2, <1>3, <1>5, <2>3, <2>5, <3>2, <3>3 DEF ChecksShow
    <2> QED BY <1>5, <2>4, <2>5
  <1> QED BY <1>1, <1>3, <1>4, <1>5

\* So every step keeps what the checks show,
LEMMA ChecksStep == ASSUME Rely, Next PROVE ChecksShow'
  BY LibraryChecks, StartChecks, InitOrThrowChecks, HashedChecks, GenesisChecks, SkipChecks,
     MinedChecks, CheckedChecks DEF Next

\* and the account of the hashes that were lost.
LEMMA RecordStep == ASSUME Rely, Next PROVE Recorded' /\ LossesCounted'
  BY LibraryRecord, StartRecord, InitOrThrowRecord, HashedRecord, GenesisRecord, SkipRecord,
     MinedRecord, CheckedRecord DEF Next, Rely

\* A program that ended does nothing more.
LEMMA RunsOnly ==
    ASSUME DemoTypeOK, Next
    PROVE  exit = "running" /\ prog' = prog /\ bits' = bits
  <1>1. CASE Library
    BY <1>1 DEF Library, demoVars, Succeed, Fail, DemoTypeOK
  <1>2. CASE Start
    BY <1>2 DEF Start
  <1>3. CASE InitOrThrow \/ Hashed \/ Skip
    BY <1>3 DEF InitOrThrow, Hashed, Skip
  <1>4. CASE GenesisChecked \/ Mined \/ Checked
    BY <1>4 DEF GenesisChecked, Mined, Checked, AtStep
  <1> QED BY <1>1, <1>2, <1>3, <1>4 DEF Next

\* What is left out is left out without a call.
LEMMA IdleStep == ASSUME Rely, Next PROVE Idle'
  <1>1. prog' # "mine" => bits' = 0
    BY RunsOnly DEF Rely, Idle
  <1>2. CASE Library
    <2>1. ~Skipped /\ UNCHANGED demoVars
      BY <1>2, RunsOnly DEF Library, Succeed, Fail, Rely, Idle
    <2>2. ~Skipped'
      BY <2>1 DEF demoVars, Skipped, Step
    <2> QED BY <1>1, <2>2 DEF Idle
  <1>3. CASE Start
    <2>1. ~Skipped'
      BY <1>3 DEF Start, Skipped, Step
    <2> QED BY <1>1, <2>1 DEF Idle
  <1>4. CASE Skip
    <2>1. fn' = "none" /\ result' = "none"
      BY <1>4 DEF Skip, cryptoVars
    <2> QED BY <1>1, <2>1 DEF Idle
  <1>5. CASE InitOrThrow \/ Hashed \/ GenesisChecked \/ Mined \/ Checked
    <2>1. Take
      BY <1>5 DEF InitOrThrow, Hashed, GenesisChecked, Mined, Checked
    <2>2. fn' = "none" /\ result' = "none"
      BY <2>1 DEF Take
    <2> QED BY <1>1, <2>2 DEF Idle
  <1> QED BY <1>2, <1>3, <1>4, <1>5 DEF Next

-----------------------------------------------------------------------------
\* The timestamps.

\* Nothing that a step leaves alone is out of time.
LEMMA TimedSame ==
    ASSUME Timed, prog' = prog, time0' = time0, time1' = time1, clock' = clock, back' = back,
           "prev" \in Past' /\ height' # 0 =>
              \/ "prev" \in Past /\ height # 0
              \/ exit = "running" /\ Step = "prev" /\ (fn # "none" \/ result # "none"),
           \/ fn' = "none" /\ result' = "none"
           \/ Step' = "prev" =>
                 exit = "running" /\ Step = "prev" /\ (fn # "none" \/ result # "none")
    PROVE  Timed'
  BY DEF Timed

\* The clock is read: when it was not set back, it shows no less than before.
LEMMA ReadForward ==
    ASSUME DemoTypeOK, Timed, NEW t \in Times, ReadClock(t)
    PROVE  /\ clock' = t /\ (back => back')
           /\ ~back' => ~back /\ clock <= t /\ time0 <= t
           /\ time0 \in Nat /\ t \in Nat /\ clock \in Nat
  <1>1. time0 \in Nat /\ t \in Nat /\ clock \in Nat
    BY DemosAssumption DEF DemoTypeOK
  <1>2. clock' = t
    BY DEF ReadClock
  <1>3. back => back'
    BY Zenon DEF ReadClock
  <1>4. ~back' => ~back /\ ~(t < clock)
    BY Zenon DEF ReadClock
  <1>5. ~back => time0 <= clock
    BY DEF Timed
  <1> QED BY <1>1, <1>2, <1>3, <1>4, <1>5

\* A timestamp is taken when the genesis block is made, and when mining starts.
LEMMA StartTimed == ASSUME Rely, Timed, Start PROVE Timed'
  <1>1. /\ exit = "running" /\ ~Skipped /\ Begin(FunctionOf(Step))
        /\ UNCHANGED <<prog, step, exit, height>>
    BY DEF Start
  <1>2. Past' = Past /\ Step' = Step /\ prog' = prog /\ exit' = exit /\ height' = height
    BY <1>1 DEF Past, Step
  <1>3. "prev" \in Past => Step # "leaf0" /\ Step # "prev"
    <2>1. "leaf0" \in Before("prev")
      BY DEF Before
    <2> QED BY <2>1, StepFacts DEF Rely, DemoTypeOK
  <1>4. DemoTypeOK /\ time0 \in Nat /\ time1 \in Nat
    BY DemosAssumption DEF Rely, DemoTypeOK
  <1>5. CASE Step = "leaf0"
    <2>1. PICK t \in Times : ReadClock(t) /\ time0' = t
      BY <1>5 DEF Start
    <2>2. clock' = t /\ t \in Nat
      BY <1>4, <2>1, ReadForward
    <2>3. time0' <= clock'
      BY <2>1, <2>2
    <2> QED BY <1>2, <1>3, <1>5, <2>3 DEF Timed
  <1>6. CASE Step = "prev" /\ prog = "mine"
    <2>1. PICK t \in Times : ReadClock(t) /\ time1' = t /\ time0' = time0
      BY <1>6 DEF Start
    <2>2. clock' = t /\ (~back' => time0 <= t) /\ t \in Nat
      BY <1>4, <2>1, ReadForward
    <2>3. ~back' => time0' <= clock' /\ time1' >= time0'
      BY <1>4, <2>1, <2>2
    <2> QED BY <1>2, <1>6, <2>3 DEF Timed
  <1>7. CASE Step = "prev" /\ prog # "mine"
    <2>1. time1' = time0 + 1 /\ time0' = time0 /\ clock' = clock /\ back' = back
      BY <1>7 DEF Start
    <2>2. time1' >= time0'
      BY <1>4, <2>1
    <2> QED BY <2>1, <2>2 DEF Timed
  <1>8. CASE Step \notin {"leaf0", "prev"}
    <2>1. time1' = time1 /\ time0' = time0 /\ clock' = clock /\ back' = back
      BY <1>8 DEF Start
    <2> QED BY <1>2, <1>8, <2>1, TimedSame
  <1> QED BY <1>5, <1>6, <1>7, <1>8

\* mine_block takes a later reading only.
LEMMA MinedTimed == ASSUME Rely, Timed, Mined PROVE Timed'
  <1>1. Take /\ Step = "mine" /\ UNCHANGED <<prog, height, time0>>
    BY DEF Mined, AtStep
  <1>2. fn' = "none" /\ result' = "none"
    BY <1>1 DEF Take
  <1>3. /\ "prev" \in Past' => "prev" \in Past
        /\ prog = "mine"
    BY <1>1, MinedRecord, StepFacts DEF Rely, DemoTypeOK
  <1>4. CASE UNCHANGED <<time1, clock, back>>
    BY <1>1, <1>2, <1>3, <1>4, TimedSame
  <1>5. CASE \E t \in Times : ReadClock(t) /\ time1' = (IF t > bump THEN t ELSE time1)
    <2>1. PICK t \in Times : ReadClock(t) /\ (time1' = t \/ time1' = time1)
      BY <1>5
    <2>2. DemoTypeOK
      BY DEF Rely
    <2>3. /\ clock' = t /\ (back => back') /\ (~back' => ~back /\ time0 <= t)
          /\ time0 \in Nat /\ t \in Nat
      BY <2>1, <2>2, ReadForward
    <2>4. ~back' => time0' <= clock'
      BY <1>1, <2>3
    <2>5. ASSUME "prev" \in Past' /\ height' # 0 PROVE time1' >= time0' \/ back'
      <3>1. time1 >= time0 \/ back
        BY <1>1, <1>3, <2>5 DEF Timed
      <3> QED BY <1>1, <2>1, <2>3, <3>1
    <2> QED BY <1>1, <1>2, <1>3, <2>4, <2>5 DEF Timed
  <1> QED BY <1>4, <1>5 DEF Mined

\* Every other step leaves the timestamps alone.
LEMMA TimedStep == ASSUME Rely, Timed, Next PROVE Timed'
  <1>1. exit = "running" /\ prog' = prog
    BY RunsOnly DEF Rely
  <1>2. CASE Library
    <2>1. UNCHANGED demoVars /\ fn # "none"
      BY <1>2 DEF Library, Succeed, Fail
    <2>2. Past' = Past /\ Step' = Step
      BY <2>1 DEF demoVars, Past, Step
    <2> QED BY <1>1, <2>1, <2>2, TimedSame DEF demoVars
  <1>3. CASE InitOrThrow
    <2>1. "prev" \in Past' => "prev" \in Past
      BY <1>3, InitOrThrowRecord DEF Rely
    <2> QED BY <1>1, <1>3, <2>1, TimedSame DEF InitOrThrow, Take
  <1>4. CASE Hashed
    <2>1. /\ Past' = Past \cup {Step} /\ height' = height
          /\ fn' = "none" /\ result' = "none" /\ result # "none"
          /\ UNCHANGED <<time0, time1, clock, back>>
      BY <1>4, HashedRecord DEF Rely, Hashed, Take
    <2> QED BY <1>1, <2>1, TimedSame
  <1>5. CASE GenesisChecked
    <2>1. "prev" \notin Past'
      BY <1>5, GenesisRecord DEF Rely
    <2> QED BY <1>1, <1>5, <2>1, TimedSame DEF GenesisChecked, Take
  <1>6. CASE Skip
    <2>1. "prev" \in Past' /\ height' # 0 => "prev" \in Past /\ height # 0
      BY <1>6, SkipRecord DEF Rely
    <2>2. fn' = "none" /\ result' = "none" /\ UNCHANGED <<time0, time1, clock, back>>
      BY <1>6 DEF Skip, cryptoVars
    <2> QED BY <1>1, <2>1, <2>2, TimedSame
  <1>7. CASE Checked
    <2>1. /\ Step # "prev" /\ fn' = "none" /\ result' = "none"
          /\ UNCHANGED <<time0, time1, clock, back>>
      BY <1>7 DEF Checked, Take
    <2>2. "prev" \in Past' /\ height' # 0 => "prev" \in Past /\ height # 0
      BY <1>7, <2>1, CheckedRecord DEF Rely
    <2> QED BY <1>1, <2>1, <2>2, TimedSame
  <1> QED BY <1>2, <1>3, <1>4, <1>5, <1>6, <1>7, StartTimed, MinedTimed DEF Next

-----------------------------------------------------------------------------
\* How a program ends.

\* Both blocks are right once every root was compared and the parent's hash too.
LEMMA BlocksRight ==
    ASSUME Rely, "vroot1" \in Past, failures <= 1
    PROVE  /\ val["root0"] = <<"coinbase", "root">> /\ val["root1"] = <<"tx", "root">>
           /\ val["prev"] = <<"coinbase", "root", "header">>
  <1>1. ChecksShow /\ Recorded /\ DemoTypeOK
    BY DEF Rely
  <1>2. {"vroot0", "tip", "prev"} \subseteq Past
    <2>1. {"vroot0", "tip", "prev"} \subseteq Before("vroot1")
      BY DEF Before
    <2> QED BY <1>1, <2>1, StepFacts DEF DemoTypeOK
  <1>3. height # 0 /\ val["prev"] # Zero
    BY <1>1, <1>2 DEF ChecksShow
  <1>4. val["root0"] = <<"coinbase", "root">> /\ val["root1"] = <<"tx", "root">>
    BY <1>1, <1>2, <1>3 DEF ChecksShow
  <1>5. "prev" \in Kept \ Lost
    BY <1>1, <1>2, <1>3, KeptFacts DEF Lost
  <1>6. val["prev"] = Append(val["root0"], "header")
    BY <1>1, <1>5, InputIs DEF Recorded
  <1> QED BY <1>4, <1>6, Written

\* Only the last step ends a program well.
LEMMA EndsLast ==
    ASSUME DemoTypeOK, CryptoOK, Next, exit' = "0"
    PROVE  step = Len(Program[prog]) /\ (Checked \/ Skip)
  <1>1. exit = "running"
    BY RunsOnly
  <1>2. step = Len(Program[prog]) => Step \in {"verify", "pow"}
    BY StepFacts DEF DemoTypeOK
  <1>3. GoOn /\ exit' = "0" => step = Len(Program[prog])
    BY <1>1 DEF GoOn
  <1>4. CASE Library \/ Start
    BY <1>1, <1>4 DEF Library, Start, demoVars
  <1>5. CASE InitOrThrow
    BY <1>2, <1>3, <1>5 DEF InitOrThrow, AtStep, Exit
  <1>6. CASE Hashed \/ GenesisChecked \/ Mined
    BY <1>1, <1>2, <1>3, <1>6 DEF Hashed, GenesisChecked, Mined, AtStep, Exit
  <1>7. CASE Skip
    BY <1>3, <1>7 DEF Skip, Exit
  <1>8. CASE Checked
    BY <1>3, <1>8 DEF Checked, Exit
  <1> QED BY <1>4, <1>5, <1>6, <1>7, <1>8 DEF Next

\* A program that ends well: every check was passed, and at most one of them was
\* passed because of a failure.
LEMMA AcceptedStep == ASSUME Rely, Next PROVE AcceptedIsChecked'
  <1> SUFFICES ASSUME exit' = "0", prog' \in {"demo_chain", "mine"}, failures' <= 1
               PROVE  /\ height' = 2
                      /\ val'["root0"] = <<"coinbase", "root">> /\ val'["root1"] = <<"tx", "root">>
                      /\ val'["prev"] = <<"coinbase", "root", "header">>
                      /\ bits' > 0 => hash' # <<>> /\ leading_zero_bits(hash') >= bits'
    BY DEF AcceptedIsChecked
  <1>1. DemoTypeOK /\ CryptoOK /\ Idle /\ LossesCounted /\ ChecksShow
    BY DEF Rely
  <1>2. exit = "running" /\ prog' = prog /\ bits' = bits
    BY <1>1, RunsOnly
  <1>3. step = Len(Program[prog]) /\ (Checked \/ Skip)
    BY <1>1, EndsLast
  <1>4. "vroot1" \in Past
    <2>1. "vroot1" \in Before("pow")
      BY DEF Before
    <2> QED BY <1>1, <1>2, <1>3, <2>1, StepFacts DEF DemoTypeOK
  <1>5. /\ Step \in {"verify", "pow"} /\ (Step = "pow" <=> prog = "mine")
        /\ Step = "pow" => "mine" \in Past
    <2>1. "mine" \in Before("pow")
      BY DEF Before
    <2> QED BY <1>1, <1>3, <2>1, StepFacts DEF DemoTypeOK
  <1>6. CASE Skip
    <2>1. failures' = failures /\ val' = val
      BY <1>6 DEF Skip, cryptoVars
    <2>2. height' = 2 /\ bits = 0
      BY <1>5, <1>6, SkipRecord DEF Rely
    <2>3. ~(bits' > 0)
      BY <1>2, <2>2
    <2> QED BY <1>4, <2>1, <2>2, <2>3, BlocksRight
  <1>7. CASE Checked
    <2>1. Take /\ val' = val
      BY <1>7 DEF Checked
    <2>2. failures' = failures
      BY <2>1 DEF Take
    <2>3. PICK digest \in IF Step = "pow" /\ hash = <<>> THEN Digests ELSE {hash} :
             /\ hash' = IF result = "zero" THEN hash ELSE digest
             /\ IF Valid(digest) \/ prog \in {"demo_keys", "demo_tx"} THEN GoOn
                ELSE Exit(IF prog = "mine" THEN "3" ELSE "2")
      BY <1>7 DEF Checked
    <2>4. height' = 2 /\ Valid(digest)
      BY <1>2, <1>7, <2>3, CheckedRecord DEF Exit, Rely
    <2>5. ASSUME bits > 0 PROVE hash' # <<>> /\ leading_zero_bits(hash') >= bits
      <3>1. Step = "pow" /\ "mine" \in Past
        BY <1>1, <1>5, <2>5 DEF Idle
      <3>2. CASE result = "zero"
        <4>1. hash' = hash /\ Failing
          BY <1>1, <2>1, <2>3, <3>2, TakeFacts
        <4>2. hash # <<>>
          BY <1>1, <2>2, <3>1, <4>1 DEF LossesCounted, Unmined
        <4> QED BY <1>1, <1>2, <3>1, <4>1, <4>2 DEF ChecksShow
      <3>3. CASE result # "zero"
        <4>1. hash' = digest /\ Seen(digest) = digest
          BY <2>3, <3>3 DEF Seen
        <4>2. digest # <<>>
          BY <2>3, <3>1, DemosAssumption
        <4>3. leading_zero_bits(digest) >= bits
          BY <2>4, <3>1, <4>1 DEF Valid, Passes
        <4> QED BY <4>1, <4>2, <4>3
      <3> QED BY <3>2, <3>3
    <2> QED BY <1>2, <1>4, <2>1, <2>2, <2>4, <2>5, BlocksRight
  <1> QED BY <1>3, <1>6, <1>7

\* A program that ends badly although nothing failed: only the timestamps are left.
LEMMA RefusedStep == ASSUME Rely, Timed, Next PROVE RefusedForCause'
  <1> SUFFICES ASSUME exit' \notin {"running", "0"}, ~(failures' > 0)
               PROVE  exit' = "3" /\ back'
    BY DEF RefusedForCause
  <1>1. DemoTypeOK /\ CryptoOK /\ Idle /\ Recorded /\ LossesCounted /\ ChecksShow
    BY DEF Rely
  <1>2. exit = "running" /\ prog' = prog /\ bits' = bits
    BY <1>1, RunsOnly
  <1>3. failures \in Nat
    BY <1>1, CryptoAssumption DEF CryptoOK, CryptoTypeOK
  <1>4. Take => failures = 0 /\ result = "done"
    BY <1>1, <1>3, TakeFacts, SameAgain
  <1>5. CASE Library \/ Start
    BY <1>2, <1>5 DEF Library, Start, demoVars
  <1>6. CASE InitOrThrow
    BY <1>2, <1>4, <1>6 DEF InitOrThrow, GoOn
  <1>7. CASE Hashed \/ Mined
    BY <1>2, <1>7 DEF Hashed, Mined, GoOn
  <1>8. CASE GenesisChecked
    <2>1. Take /\ Step = "vroot0"
      BY <1>8 DEF GenesisChecked, AtStep
    <2>2. Computed("vroot0") = val["root0"]
      BY <1>1, <1>4, <2>1, SameAgain
    <2> QED BY <1>2, <1>8, <2>2, GenesisRecord DEF Rely
  <1>9. CASE Skip
    <2>1. failures = 0
      BY <1>3, <1>9 DEF Skip, cryptoVars
    <2>2. Step = "tip" /\ height = 0
      BY <1>9, SkipRecord DEF Rely
    <2>3. "vroot0" \in Before("tip")
      BY DEF Before
    <2>4. "vroot0" \in Past
      BY <1>1, <2>2, <2>3, StepFacts DEF DemoTypeOK
    <2> QED BY <1>1, <2>1, <2>2, <2>4 DEF ChecksShow
  <1>10. CASE Checked
    <2>1. /\ Take /\ Step \in {"tip", "vroot1", "verify", "pow"} /\ back' = back
      BY <1>10 DEF Checked
    <2>2. PICK digest \in IF Step = "pow" /\ hash = <<>> THEN Digests ELSE {hash} :
             IF Valid(digest) \/ prog \in {"demo_keys", "demo_tx"} THEN GoOn
             ELSE Exit(IF prog = "mine" THEN "3" ELSE "2")
      BY <1>10 DEF Checked
    <2>3. ~Valid(digest) /\ exit' = (IF prog = "mine" THEN "3" ELSE "2")
      BY <1>2, <2>2 DEF GoOn, Exit
    <2>4. failures = 0 /\ result = "done"
      BY <1>4, <2>1
    <2>5. CASE Step = "tip"
      <3>1. height # 0
        BY <1>1, <1>2, <2>4, <2>5 DEF Idle, Skipped
      <3>2. Computed("tip") = val["prev"]
        BY <1>1, <2>1, <2>4, <2>5, <3>1, SameAgain
      <3>3. ~(time1 >= time0)
        BY <2>3, <2>5, <3>1, <3>2, SecondInPlace DEF Valid, Passes
      <3>4. "prev" \in Before("tip")
        BY DEF Before
      <3>5. "prev" \in Past
        BY <1>1, <2>5, <3>4, StepFacts DEF DemoTypeOK
      <3>6. prog = "mine" /\ back
        BY <3>1, <3>3, <3>5 DEF Timed
      <3> QED BY <2>1, <2>3, <3>6
    <2>6. CASE Step = "vroot1"
      BY <1>1, <2>1, <2>3, <2>4, <2>6, SameAgain DEF Valid, Passes
    <2>7. CASE Step = "verify"
      BY <2>3, <2>4, <2>7 DEF Valid, Passes
    <2>8. CASE Step = "pow"
      <3>1. "mine" \in Before("pow")
        BY DEF Before
      <3>2. "mine" \in Past
        BY <1>1, <2>8, <3>1, StepFacts DEF DemoTypeOK
      <3>3. hash # <<>>
        BY <1>1, <2>4, <3>2 DEF LossesCounted, Unmined
      <3>4. digest = hash /\ Seen(digest) = digest
        BY <2>2, <2>4, <3>3 DEF Seen
      <3>5. leading_zero_bits(digest) >= bits
        BY <1>1, <1>2, <3>2, <3>3, <3>4 DEF ChecksShow
      <3> QED BY <2>3, <2>8, <3>4, <3>5 DEF Valid, Passes
    <2> QED BY <2>1, <2>5, <2>6, <2>7, <2>8
  <1> QED BY <1>5, <1>6, <1>7, <1>8, <1>9, <1>10 DEF Next

-----------------------------------------------------------------------------
\* The parts of the inductive invariant.
LEMMA IndIs == DemosInd <=> Rely /\ Timed /\ AcceptedIsChecked /\ RefusedForCause
  BY TypeIs DEF DemosInd, Rely, CryptoOK

\* It holds at first,
LEMMA DemosIndInit == ASSUME Init PROVE DemosInd
  <1>1. DemoTypeOK /\ CryptoOK
    BY TypeInit
  <1>2. /\ step = 1 /\ exit = "running" /\ height = 0 /\ fn = "none" /\ result = "none"
        /\ time0 = 0 /\ clock = 0 /\ (prog # "mine" => bits = 0)
    BY DEF Init, CryptoInit
  <1>3. Past = {} /\ Kept = {} /\ Lost = {}
    BY <1>2 DEF Past, Kept, Lost
  <1>4. Idle /\ Recorded /\ AcceptedIsChecked /\ RefusedForCause
    BY <1>2, <1>3 DEF Idle, Recorded, AcceptedIsChecked, RefusedForCause
  <1>5. LossesCounted /\ ChecksShow /\ Timed
    BY <1>2, <1>3 DEF LossesCounted, Unmined, ChecksShow, Timed
  <1> QED BY <1>1, <1>4, <1>5, IndIs DEF Rely

\* and every step keeps it.
LEMMA DemosIndStep == ASSUME DemosInd, [Next]_vars PROVE DemosInd'
  <1>1. Rely /\ Timed /\ AcceptedIsChecked /\ RefusedForCause /\ DemoTypeOK /\ CryptoOK
    BY IndIs DEF Rely
  <1>2. DemoTypeOK' /\ CryptoOK'
    BY <1>1, TypeStep
  <1>3. CASE Next
    <2>1. Idle' /\ Recorded' /\ LossesCounted' /\ ChecksShow' /\ Timed'
      BY <1>1, <1>3, IdleStep, RecordStep, ChecksStep, TimedStep
    <2>2. AcceptedIsChecked' /\ RefusedForCause'
      BY <1>1, <1>3, AcceptedStep, RefusedStep
    <2>3. TypeOK' /\ Heights' /\ CryptoInd'
      BY <1>2 DEF TypeOK, DemoTypeOK, Labels, CryptoOK
    <2> QED BY <2>1, <2>2, <2>3 DEF DemosInd
  <1>4. CASE UNCHANGED vars
    <2>1. Past' = Past /\ Kept' = Kept /\ Lost' = Lost /\ Step' = Step
      BY <1>4 DEF vars, demoVars, Past, Kept, Lost, Step
    <2>2. Idle' /\ Recorded'
      BY <1>1, <1>4, <2>1 DEF Rely, vars, demoVars, cryptoVars, Idle, Skipped, Recorded, Input
    <2>3. LossesCounted' /\ ChecksShow'
      BY <1>1, <1>4, <2>1 DEF Rely, vars, demoVars, cryptoVars, LossesCounted, Unmined, Failing,
         ChecksShow
    <2>4. Timed' /\ AcceptedIsChecked' /\ RefusedForCause'
      BY <1>1, <1>4, <2>1 DEF vars, demoVars, cryptoVars, Timed, AcceptedIsChecked, RefusedForCause
    <2>5. TypeOK' /\ Heights' /\ CryptoInd'
      BY <1>2 DEF TypeOK, DemoTypeOK, Labels, CryptoOK
    <2> QED BY <2>2, <2>3, <2>4, <2>5 DEF DemosInd
  <1> QED BY <1>3, <1>4

\* The inductive invariant of the demos.
THEOREM DemosInductive == Spec => []DemosInd
  <1>1. Init => DemosInd
    BY DemosIndInit
  <1>2. DemosInd /\ [Next]_vars => DemosInd'
    BY DemosIndStep
  <1> QED BY <1>1, <1>2, PTL DEF Spec

\* Every variable of the demos keeps its type, and OpenSSL is called by a running
\* program only.
THEOREM DemosTypeOK == Spec => []TypeOK
  <1>1. DemosInd => TypeOK
    BY DEF DemosInd
  <1> QED BY <1>1, DemosInductive, PTL

\* However many calls fail, and wherever: no function of keys.cpp nor sha256 leaves a
\* handle behind.
THEOREM DemosNoLeak == Spec => []NoLeak
  <1>1. DemosInd => NoLeak
    BY DEF DemosInd, CryptoInd
  <1> QED BY <1>1, DemosInductive, PTL

\* However many calls fail: no function comes to a result after a failed call, not
\* even sign_message, which reads its key without a look at the results.
THEOREM DemosFailsClosed == Spec => []FailsClosed
  <1>1. DemosInd => FailsClosed
    BY DEF DemosInd, CryptoInd
  <1> QED BY <1>1, DemosInductive, PTL

\* A program that refuses its own blocks, or ends otherwise badly, had a failing call
\* or, the miner demo, a clock that was set back.
THEOREM DemosRefusedForCause == Spec => []RefusedForCause
  <1>1. DemosInd => RefusedForCause
    BY DEF DemosInd
  <1> QED BY <1>1, DemosInductive, PTL

-----------------------------------------------------------------------------
(* Recursive functions.  The induction rule of the library has an operator *)
(* for a parameter; the ones here have sets and functions.                 *)

\* A set of numbers with 0 in it and the next one of each is all of them.
LEMMA Induction ==
    ASSUME NEW S, 0 \in S, \A n \in Nat : n \in S => n + 1 \in S
    PROVE  Nat \subseteq S
  <1> DEFINE T == {n \in Nat : n \notin S}
  <1>1. SUFFICES ASSUME T # {} PROVE FALSE
    OBVIOUS
  <1>2. PICK m \in T : \A i \in T : ~(<<i, m>> \in OpToRel(<, Nat))
    BY <1>1, WFMin, NatLessThanWellFounded
  <1>3. \A i \in T : ~(i < m)
    BY <1>2 DEF OpToRel
  <1>4. m \in Nat /\ m # 0
    OBVIOUS
  <1>5. m - 1 \in Nat /\ m - 1 \notin T /\ (m - 1) + 1 = m
    BY <1>3, <1>4
  <1> QED BY <1>5

\* The same up to a bound.
LEMMA BoundedInduction ==
    ASSUME NEW S, NEW N \in Nat, 0 \in S, \A n \in 0 .. N - 1 : n \in S => n + 1 \in S
    PROVE  0 .. N \subseteq S
  <1> DEFINE T == S \cup {n \in Nat : n > N}
  <1>1. 0 \in T
    OBVIOUS
  <1>2. ASSUME NEW n \in Nat, n \in T PROVE n + 1 \in T
    <2>1. CASE n < N
      BY <1>2, <2>1
    <2>2. CASE n >= N
      BY <2>2
    <2> QED BY <2>1, <2>2
  <1>3. Nat \subseteq T
    BY <1>1, <1>2, Induction
  <1> QED BY <1>3

\* A set of numbers that is not empty has a least one.
LEMMA Least ==
    ASSUME NEW S \in SUBSET Nat, S # {}
    PROVE  \E m \in S : \A i \in S : m <= i
  <1>1. PICK m \in S : \A i \in S : ~(<<i, m>> \in OpToRel(<, Nat))
    BY WFMin, NatLessThanWellFounded
  <1>2. \A i \in S : ~(i < m)
    BY <1>1 DEF OpToRel
  <1> QED BY <1>2

\* A loop that takes n passes has a trace.
Trace(f, base, pass, n) == f[0] = base /\ \A i \in 1 .. n : f[i] = pass[i][f[i - 1]]
LEMMA TraceExists ==
    ASSUME NEW S, NEW base \in S, NEW pass, \A i \in Nat : \A s \in S : pass[i][s] \in S
    PROVE  \A n \in Nat : \E f \in [0 .. n -> S] : Trace(f, base, pass, n)
  <1> DEFINE T == {n \in Nat : \E f \in [0 .. n -> S] : Trace(f, base, pass, n)}
  <1>1. 0 \in T
    <2>1. [i \in 0 .. 0 |-> base] \in [0 .. 0 -> S] /\ Trace([i \in 0 .. 0 |-> base], base, pass, 0)
      BY DEF Trace
    <2> QED BY <2>1
  <1>2. ASSUME NEW n \in Nat, n \in T PROVE n + 1 \in T
    <2>1. PICK f \in [0 .. n -> S] : Trace(f, base, pass, n)
      BY <1>2
    <2> DEFINE g == [i \in 0 .. n + 1 |-> IF i = n + 1 THEN pass[n + 1][f[n]] ELSE f[i]]
    <2>2. f[n] \in S /\ pass[n + 1][f[n]] \in S
      OBVIOUS
    <2>3. g \in [0 .. n + 1 -> S]
      BY <2>2
    <2>4. g[0] = base
      BY <2>1 DEF Trace
    <2>5. ASSUME NEW i \in 1 .. n + 1 PROVE g[i] = pass[i][g[i - 1]]
      <3>1. CASE i = n + 1
        BY <3>1
      <3>2. CASE i # n + 1
        <4>1. i \in 1 .. n /\ i - 1 \in 0 .. n
          BY <3>2
        <4> QED BY <2>1, <3>2, <4>1 DEF Trace
      <3> QED BY <3>1, <3>2
    <2>6. Trace(g, base, pass, n + 1)
      BY <2>4, <2>5 DEF Trace
    <2> QED BY <2>3, <2>6
  <1> HIDE DEF T
  <1>3. Nat \subseteq T
    BY <1>1, <1>2, Induction
  <1> QED BY <1>3 DEF T

\* Traces agree as far as both go,
LEMMA TraceUnique ==
    ASSUME NEW base, NEW pass, NEW m \in Nat, NEW n \in Nat, m <= n, NEW f, NEW g,
           Trace(f, base, pass, m), Trace(g, base, pass, n)
    PROVE  f[m] = g[m]
  <1> DEFINE T == {i \in 0 .. m : f[i] = g[i]}
  <1>1. 0 \in T
    BY DEF Trace
  <1>2. ASSUME NEW i \in 0 .. m - 1, i \in T PROVE i + 1 \in T
    <2>1. i + 1 \in 1 .. m /\ i + 1 \in 1 .. n /\ (i + 1) - 1 = i
      OBVIOUS
    <2> QED BY <1>2, <2>1 DEF Trace
  <1> HIDE DEF T
  <1>3. 0 .. m \subseteq T
    BY <1>1, <1>2, BoundedInduction
  <1> QED BY <1>3 DEF T

\* so that a loop without end has one too.
Endless(f, base, pass) == f[0] = base /\ \A n \in Nat \ {0} : f[n] = pass[n][f[n - 1]]
LEMMA NatRecursion ==
    ASSUME NEW S, NEW base \in S, NEW pass, \A i \in Nat : \A s \in S : pass[i][s] \in S
    PROVE  \E f \in [Nat -> S] : Endless(f, base, pass)
  <1> DEFINE t(n) == CHOOSE f : f \in [0 .. n -> S] /\ Trace(f, base, pass, n)
             f == [n \in Nat |-> t(n)[n]]
  <1>1. ASSUME NEW n \in Nat PROVE t(n) \in [0 .. n -> S] /\ Trace(t(n), base, pass, n)
    <2>1. \E g : g \in [0 .. n -> S] /\ Trace(g, base, pass, n)
      BY TraceExists
    <2> QED BY <2>1
  <1> HIDE DEF t
  <1>2. f \in [Nat -> S]
    <2>1. ASSUME NEW n \in Nat PROVE t(n)[n] \in S
      <3>1. n \in 0 .. n
        OBVIOUS
      <3> QED BY <1>1, <3>1
    <2> QED BY <2>1
  <1>3. f[0] = base
    BY <1>1 DEF Trace
  <1>4. ASSUME NEW n \in Nat \ {0} PROVE f[n] = pass[n][f[n - 1]]
    <2>1. n - 1 \in Nat /\ n - 1 <= n /\ n \in 1 .. n
      OBVIOUS
    <2>2. t(n)[n] = pass[n][t(n)[n - 1]]
      BY <1>1, <2>1 DEF Trace
    <2>3. t(n - 1)[n - 1] = t(n)[n - 1]
      BY <1>1, <2>1, TraceUnique
    <2> QED BY <2>1, <2>2, <2>3
  <1>5. Endless(f, base, pass)
    BY <1>3, <1>4 DEF Endless
  <1> QED BY <1>2, <1>5

-----------------------------------------------------------------------------
(* The bits of a hash. *)

\* The powers of two, what they double to in a byte, and their order.
LEMMA PowerIs ==
    /\ Power \in [Nat -> Nat \ {0}] /\ Power[0] = 1
    /\ \A n \in Nat : Power[n + 1] = 2 * Power[n]
  <1> DEFINE S == Nat \ {0}
             pass == [i \in Nat |-> [s \in S |-> 2 * s]]
             Solves(p) == p = [n \in Nat |-> IF n = 0 THEN 1 ELSE 2 * p[n - 1]]
  <1>1. 1 \in S /\ \A i \in Nat : \A s \in S : pass[i][s] \in S /\ pass[i][s] = 2 * s
    OBVIOUS
  <1> HIDE DEF pass, S
  <1>2. PICK f \in [Nat -> S] : Endless(f, 1, pass)
    <2>1. 1 \in S /\ \A i \in Nat : \A s \in S : pass[i][s] \in S
      BY <1>1
    <2> QED BY <2>1, NatRecursion, Zenon
  <1>3. ASSUME NEW n \in Nat \ {0} PROVE f[n] = 2 * f[n - 1]
    <2>1. n \in Nat /\ n - 1 \in Nat
      OBVIOUS
    <2>2. f[n - 1] \in S
      BY <1>2, <2>1
    <2>3. f[n] = pass[n][f[n - 1]]
      BY <1>2 DEF Endless
    <2> QED BY <1>1, <2>1, <2>2, <2>3
  <1>4. Solves(f)
    BY <1>2, <1>3 DEF Endless
  <1>5. Solves(Power)
    BY <1>4, Zenon DEF Power
  <1>6. Power[0] = 1 /\ \A n \in Nat \ {0} : Power[n] = 2 * Power[n - 1]
    BY <1>5
  <1>7. ASSUME NEW n \in Nat PROVE Power[n + 1] = 2 * Power[n]
    <2>1. n + 1 \in Nat \ {0} /\ (n + 1) - 1 = n
      OBVIOUS
    <2> QED BY <1>6, <2>1
  <1>8. ASSUME NEW n \in Nat PROVE Power[n] \in S
    <2> DEFINE T == {i \in Nat : Power[i] \in S}
    <2>1. 0 \in T
      BY <1>1, <1>6
    <2>2. ASSUME NEW i \in Nat, i \in T PROVE i + 1 \in T
      <3>1. \A s \in S : 2 * s \in S
        BY DEF S
      <3> QED BY <1>7, <2>2, <3>1
    <2> HIDE DEF T
    <2>3. Nat \subseteq T
      BY <2>1, <2>2, Induction
    <2> QED BY <2>3 DEF T
  <1>9. Power \in [Nat -> S]
    BY <1>5, <1>8
  <1> QED BY <1>6, <1>7, <1>9 DEF S

\* Eight more bits are a byte more.
LEMMA PowerOfByte == \A n \in Nat : Power[n + 8] = 256 * Power[n]
  <1>1. SUFFICES ASSUME NEW n \in Nat PROVE Power[n + 8] = 256 * Power[n]
    OBVIOUS
  <1>2. ASSUME NEW i \in Nat PROVE Power[(n + i) + 1] = 2 * Power[n + i] /\ Power[n + i] \in Nat
    BY PowerIs
  <1>3. /\ Power[n + 1] = 2 * Power[n] /\ Power[n + 2] = 2 * Power[n + 1]
        /\ Power[n + 3] = 2 * Power[n + 2] /\ Power[n + 4] = 2 * Power[n + 3]
        /\ Power[n + 5] = 2 * Power[n + 4] /\ Power[n + 6] = 2 * Power[n + 5]
        /\ Power[n + 7] = 2 * Power[n + 6] /\ Power[n + 8] = 2 * Power[n + 7]
    <2>1. /\ (n + 0) + 1 = n + 1 /\ (n + 1) + 1 = n + 2 /\ (n + 2) + 1 = n + 3
          /\ (n + 3) + 1 = n + 4 /\ (n + 4) + 1 = n + 5 /\ (n + 5) + 1 = n + 6
          /\ (n + 6) + 1 = n + 7 /\ (n + 7) + 1 = n + 8 /\ n + 0 = n
      OBVIOUS
    <2> QED BY <1>2, <2>1
  <1>4. Power[n] \in Nat
    BY PowerIs
  <1> QED BY <1>3, <1>4

\* More bits never mean less.
LEMMA PowerGrows == \A m, n \in Nat : m <= n => Power[m] <= Power[n]
  <1>1. SUFFICES ASSUME NEW m \in Nat PROVE \A n \in Nat : m <= n => Power[m] <= Power[n]
    OBVIOUS
  <1> DEFINE T == {k \in Nat : Power[m] <= Power[m + k]}
  <1>2. \A k \in Nat : Power[k] \in Nat /\ Power[k + 1] = 2 * Power[k]
    BY PowerIs
  <1>3. 0 \in T
    <2>1. m + 0 = m
      OBVIOUS
    <2> QED BY <1>2, <2>1
  <1>4. ASSUME NEW k \in Nat, k \in T PROVE k + 1 \in T
    <2>1. (m + k) + 1 = m + (k + 1) /\ m + k \in Nat
      OBVIOUS
    <2>2. Power[m + (k + 1)] = 2 * Power[m + k] /\ Power[m + k] \in Nat /\ Power[m] \in Nat
      BY <1>2, <2>1
    <2> QED BY <1>4, <2>2
  <1>5. Nat \subseteq T
    <2> HIDE DEF T
    <2> QED BY <1>3, <1>4, Induction
  <1>6. ASSUME NEW n \in Nat, m <= n PROVE Power[m] <= Power[n]
    <2>1. n - m \in Nat /\ m + (n - m) = n
      BY <1>6
    <2>2. n - m \in T
      BY <1>5, <2>1
    <2> QED BY <2>1, <2>2
  <1> QED BY <1>6

\* The masks and shifts count the leading zero bits of a byte that has a one.
LEMMA OneByte ==
    ASSUME NEW x \in 1 .. 255
    PROVE  /\ leading_zero_bits_one_byte(x) \in 0 .. 7
           /\ Power[7 - leading_zero_bits_one_byte(x)] <= x
           /\ x < Power[8 - leading_zero_bits_one_byte(x)]
  <1> DEFINE l == leading_zero_bits_one_byte(x)
  <1>1. \/ x \in 128 .. 255 /\ l = 0
        \/ x \in 64 .. 127 /\ l = 1
        \/ x \in 32 .. 63 /\ l = 2
        \/ x \in 16 .. 31 /\ l = 3
        \/ x \in 8 .. 15 /\ l = 4
        \/ x \in 4 .. 7 /\ l = 5
        \/ x \in 2 .. 3 /\ l = 6
        \/ x = 1 /\ l = 7
    BY DEF leading_zero_bits_one_byte
  <1>2. /\ Power[0] = 1 /\ Power[1] = 2 /\ Power[2] = 4 /\ Power[3] = 8 /\ Power[4] = 16
        /\ Power[5] = 32 /\ Power[6] = 64 /\ Power[7] = 128 /\ Power[8] = 256
    <2>1. Power[0] = 1 /\ \A n \in Nat : Power[n + 1] = 2 * Power[n]
      BY PowerIs
    <2>2. /\ Power[0 + 1] = 2 * Power[0] /\ Power[1 + 1] = 2 * Power[1]
          /\ Power[2 + 1] = 2 * Power[2] /\ Power[3 + 1] = 2 * Power[3]
          /\ Power[4 + 1] = 2 * Power[4] /\ Power[5 + 1] = 2 * Power[5]
          /\ Power[6 + 1] = 2 * Power[6] /\ Power[7 + 1] = 2 * Power[7]
      BY <2>1
    <2> QED BY <2>1, <2>2
  <1> HIDE DEF l
  <1>3. l \in 0 .. 7 /\ Power[7 - l] <= x /\ x < Power[8 - l]
    BY <1>1, <1>2
  <1> QED BY <1>3 DEF l

\* Bytes are numbers, and a sequence holds what it is a sequence of.
LEMMA OctetIs == \A x \in 0 .. 255 : x \in Nat
  OBVIOUS

LEMMA ElementsAre ==
    ASSUME NEW S, NEW s \in Seq(S)
    PROVE  Len(s) \in Nat /\ DOMAIN s = 1 .. Len(s) /\ \A i \in 1 .. Len(s) : s[i] \in S
  OBVIOUS

\* The hash as a number is read a byte at a time.
Reads(v, bytes) ==
    v[0] = 0 /\ \A i \in 1 .. Len(bytes) : v[i] = 256 * v[i - 1] + bytes[i]
LEMMA ValueIs ==
    ASSUME NEW bytes \in Seq(0 .. 255)
    PROVE  \E v \in [0 .. Len(bytes) -> Nat] : Reads(v, bytes) /\ Value(bytes) = v[Len(bytes)]
  <1> DEFINE n == Len(bytes)
             byte(i) == bytes[i]
             next == [i \in Nat |-> [s \in Nat |-> IF i \in 1 .. n THEN 256 * s + byte(i) ELSE s]]
             Solves(f) == f = [i \in 0 .. n |-> IF i = 0 THEN 0 ELSE 256 * f[i - 1] + byte(i)]
             num == CHOOSE f : Solves(f)
  <1>0. n \in Nat
    BY ElementsAre
  <1>1. ASSUME NEW i \in 1 .. n PROVE byte(i) \in Nat
    <2>1. byte(i) \in 0 .. 255
      BY ElementsAre, Zenon
    <2> QED BY <2>1, OctetIs, Zenon
  <1>7. Value(bytes) = num[n]
    BY Zenon DEF Value
  <1>a. \A f : Reads(f, bytes) <=> f[0] = 0 /\ \A i \in 1 .. n : f[i] = 256 * f[i - 1] + byte(i)
    BY DEF Reads
  <1> HIDE DEF byte, n
  <1>2. \A i \in Nat : \A s \in Nat :
           next[i][s] \in Nat /\ (i \in 1 .. n => next[i][s] = 256 * s + byte(i))
    BY <1>1
  <1> HIDE DEF next
  <1>3. PICK f \in [0 .. n -> Nat] : Trace(f, 0, next, n)
    <2>1. 0 \in Nat /\ \A i \in Nat : \A s \in Nat : next[i][s] \in Nat
      BY <1>2
    <2> QED BY <1>0, <2>1, TraceExists
  <1>4. f[0] = 0 /\ \A i \in 1 .. n : f[i] = 256 * f[i - 1] + byte(i)
    <2>1. ASSUME NEW i \in 1 .. n PROVE f[i] = 256 * f[i - 1] + byte(i)
      <3>1. i \in Nat /\ i - 1 \in 0 .. n
        BY <1>0
      <3>2. f[i - 1] \in Nat
        BY <1>3, <3>1
      <3>3. f[i] = next[i][f[i - 1]]
        BY <1>3 DEF Trace
      <3> QED BY <1>2, <3>1, <3>2, <3>3
    <2> QED BY <1>3, <2>1 DEF Trace
  <1>5. Solves(f)
    BY <1>0, <1>3, <1>4
  <1>6. Solves(num)
    <2> HIDE DEF Solves
    <2>1. \E g : Solves(g)
      BY <1>5
    <2> QED BY <2>1, Zenon
  <1> HIDE DEF num
  <1>8. num[0] = 0 /\ \A i \in 1 .. n : num[i] = 256 * num[i - 1] + byte(i)
    BY <1>0, <1>6
  <1>9. ASSUME NEW k \in 0 .. n PROVE num[k] \in Nat
    <2> DEFINE T == {i \in 0 .. n : num[i] \in Nat}
    <2>1. 0 \in T
      BY <1>0, <1>8
    <2>2. ASSUME NEW i \in 0 .. n - 1, i \in T PROVE i + 1 \in T
      <3>1. i + 1 \in 1 .. n /\ (i + 1) - 1 = i
        BY <1>0
      <3>2. num[i + 1] = 256 * num[i] + byte(i + 1) /\ byte(i + 1) \in Nat
        BY <1>1, <1>8, <3>1
      <3> QED BY <2>2, <3>1, <3>2
    <2> HIDE DEF T
    <2>3. 0 .. n \subseteq T
      BY <1>0, <2>1, <2>2, BoundedInduction
    <2> QED BY <2>3 DEF T
  <1>10. num \in [0 .. n -> Nat]
    BY <1>6, <1>9
  <1>11. Reads(num, bytes)
    BY <1>8, <1>a
  <1> QED BY <1>7, <1>10, <1>11 DEF n

\* The bytes before the first that is not zero.
Zeros(bytes) == {i \in DOMAIN bytes : \A j \in 1 .. i : bytes[j] = 0}
LEMMA ZerosAre ==
    ASSUME NEW bytes \in Seq(0 .. 255)
    PROVE  /\ Cardinality(Zeros(bytes)) \in 0 .. Len(bytes)
           /\ \A i \in 1 .. Cardinality(Zeros(bytes)) : bytes[i] = 0
           /\ Cardinality(Zeros(bytes)) # Len(bytes)
                 => bytes[Cardinality(Zeros(bytes)) + 1] \in 1 .. 255
  <1> DEFINE n == Len(bytes)
             Some == {i \in 0 .. n : i = n \/ bytes[i + 1] # 0}
  <1>0. n \in Nat /\ DOMAIN bytes = 1 .. n /\ \A i \in 1 .. n : bytes[i] \in 0 .. 255
    BY ElementsAre, Zenon
  <1> HIDE DEF n
  <1>1. PICK z \in Some : \A i \in Some : z <= i
    <2>1. Some \in SUBSET Nat /\ n \in Some
      BY <1>0
    <2> HIDE DEF Some
    <2> QED BY <2>1, Least
  <1>2. z \in 0 .. n /\ (z = n \/ bytes[z + 1] # 0)
    OBVIOUS
  <1>3. ASSUME NEW i \in 1 .. z PROVE bytes[i] = 0
    <2>1. i - 1 \in 0 .. n /\ i - 1 # n /\ ~(z <= i - 1) /\ (i - 1) + 1 = i
      BY <1>0, <1>2
    <2>2. i - 1 \notin Some
      BY <1>1, <2>1
    <2> QED BY <2>1, <2>2
  <1>4. Zeros(bytes) = 1 .. z
    <2>1. ASSUME NEW i \in 1 .. z PROVE i \in Zeros(bytes)
      <3>1. i \in 1 .. n /\ \A j \in 1 .. i : j \in 1 .. z
        BY <1>0, <1>2
      <3> QED BY <1>0, <1>3, <3>1 DEF Zeros
    <2>2. ASSUME NEW i \in Zeros(bytes) PROVE i \in 1 .. z
      <3>1. i \in 1 .. n /\ \A j \in 1 .. i : bytes[j] = 0
        BY <1>0 DEF Zeros
      <3>2. ASSUME i > z PROVE FALSE
        <4>1. z + 1 \in 1 .. i /\ z # n
          BY <1>0, <1>2, <3>1, <3>2
        <4> QED BY <1>2, <3>1, <4>1
      <3> QED BY <1>0, <1>2, <3>1, <3>2
    <2> QED BY <2>1, <2>2
  <1>5. Cardinality(Zeros(bytes)) = z
    <2>1. Cardinality(1 .. z) = IF 1 > z THEN 0 ELSE z - 1 + 1
      BY <1>0, <1>2, FS_Interval
    <2>2. (IF 1 > z THEN 0 ELSE z - 1 + 1) = z
      BY <1>0, <1>2
    <2> QED BY <1>4, <2>1, <2>2
  <1>6. z # n => bytes[z + 1] \in 1 .. 255
    <2>1. z # n => z + 1 \in 1 .. n
      BY <1>0, <1>2
    <2> QED BY <1>0, <1>2, <2>1
  <1> QED BY <1>2, <1>3, <1>5, <1>6 DEF n

\* z zero bytes and then one with l leading zero bits: the number has its first one bit
\* right after them, whatever the bytes behind are.
LEMMA LeadingZeros ==
    ASSUME NEW n \in Nat, NEW v \in [0 .. n -> Nat], NEW byte \in [1 .. n -> 0 .. 255],
           v[0] = 0, \A i \in 1 .. n : v[i] = 256 * v[i - 1] + byte[i],
           NEW z \in 0 .. n, \A i \in 1 .. z : byte[i] = 0
    PROVE  /\ \A i \in 0 .. z : v[i] = 0
           /\ z # n => \A l \in 0 .. 7 :
                 /\ Power[7 - l] <= byte[z + 1] /\ byte[z + 1] < Power[8 - l]
                 => /\ Power[8 * (n - z) - l - 1] <= v[n]
                    /\ v[n] < Power[8 * (n - z) - l]
  <1>1. ASSUME NEW k \in 0 .. z PROVE v[k] = 0
    <2> DEFINE T == {i \in 0 .. z : v[i] = 0}
    <2>1. 0 \in T
      OBVIOUS
    <2>2. ASSUME NEW i \in 0 .. z - 1, i \in T PROVE i + 1 \in T
      <3>1. i + 1 \in 1 .. z /\ i + 1 \in 1 .. n /\ (i + 1) - 1 = i
        OBVIOUS
      <3>2. v[i + 1] = 256 * v[i] + byte[i + 1] /\ byte[i + 1] = 0 /\ v[i] = 0
        BY <2>2, <3>1
      <3> QED BY <3>1, <3>2
    <2> HIDE DEF T
    <2>3. z \in Nat
      OBVIOUS
    <2>4. 0 .. z \subseteq T
      BY <2>1, <2>2, <2>3, BoundedInduction
    <2> QED BY <2>4 DEF T
  <1>2. ASSUME z # n, NEW l \in 0 .. 7,
               Power[7 - l] <= byte[z + 1], byte[z + 1] < Power[8 - l]
        PROVE  Power[8 * (n - z) - l - 1] <= v[n] /\ v[n] < Power[8 * (n - z) - l]
    <2> DEFINE N == n - (z + 1)
               P(i) == Power[8 * i + (7 - l)]
               Q(i) == Power[8 * i + (8 - l)]
               u(i) == v[i + (z + 1)]
               T == {i \in 0 .. N : P(i) <= u(i) /\ u(i) < Q(i)}
    <2>1. N \in Nat /\ z + 1 \in 1 .. n /\ z \in Nat
      BY <1>2
    <2>2. ASSUME NEW i \in Nat
          PROVE  /\ P(i) \in Nat /\ Q(i) \in Nat
                 /\ P(i + 1) = 256 * P(i) /\ Q(i + 1) = 256 * Q(i)
      <3> DEFINE p == 8 * i + (7 - l)
                 q == 8 * i + (8 - l)
      <3>1. /\ p \in Nat /\ q \in Nat
            /\ 8 * (i + 1) + (7 - l) = p + 8 /\ 8 * (i + 1) + (8 - l) = q + 8
        OBVIOUS
      <3>2. P(i) = Power[p] /\ Q(i) = Power[q] /\ P(i + 1) = Power[p + 8] /\ Q(i + 1) = Power[q + 8]
        BY <3>1
      <3> HIDE DEF p, q, P, Q
      <3>3. \A k \in Nat : Power[k] \in Nat
        BY PowerIs
      <3>4. Power[p + 8] = 256 * Power[p] /\ Power[q + 8] = 256 * Power[q]
        BY <3>1, PowerOfByte
      <3>5. Power[p] \in Nat /\ Power[q] \in Nat
        BY <3>1, <3>3
      <3>6. P(i) \in Nat /\ Q(i) \in Nat
        BY <3>2, <3>5
      <3>7. P(i + 1) = 256 * P(i) /\ Q(i + 1) = 256 * Q(i)
        BY <3>2, <3>4
      <3> QED BY <3>6, <3>7
    <2>3. \A i \in 0 .. N : u(i) \in Nat
      BY <2>1
    <2>4. ASSUME NEW i \in 0 .. N - 1
          PROVE  \E x \in 0 .. 255 : u(i + 1) = 256 * u(i) + x
      <3>1. /\ (i + 1) + (z + 1) \in 1 .. n /\ ((i + 1) + (z + 1)) - 1 = i + (z + 1)
        BY <2>1
      <3>2. byte[(i + 1) + (z + 1)] \in 0 .. 255
        BY <3>1
      <3>3. u(i + 1) = 256 * u(i) + byte[(i + 1) + (z + 1)]
        BY <3>1
      <3> QED BY <3>2, <3>3
    <2>5. P(0) <= u(0) /\ u(0) < Q(0)
      <3>1. v[z + 1] = 256 * v[z] + byte[z + 1] /\ v[z] = 0 /\ byte[z + 1] \in Nat
        <4>1. (z + 1) - 1 = z /\ z \in 0 .. z
          BY <2>1
        <4>2. v[z] = 0
          BY <1>1, <4>1
        <4>3. byte[z + 1] \in 0 .. 255
          BY <2>1
        <4>4. v[z + 1] = 256 * v[z] + byte[z + 1]
          BY <2>1, <4>1
        <4> QED BY <4>2, <4>3, <4>4, OctetIs, Zenon
      <3>2. v[z + 1] = byte[z + 1]
        BY <3>1
      <3>3. 8 * 0 + (7 - l) = 7 - l /\ 8 * 0 + (8 - l) = 8 - l /\ 0 + (z + 1) = z + 1
        BY <2>1
      <3> QED BY <1>2, <3>2, <3>3
    <2>6. N + (z + 1) = n /\ 8 * N + (7 - l) = 8 * (n - z) - l - 1
          /\ 8 * N + (8 - l) = 8 * (n - z) - l
      BY <2>1
    <2> HIDE DEF P, Q, u, N
    <2>7. 0 \in T
      BY <2>1, <2>5
    <2>8. ASSUME NEW i \in 0 .. N - 1, i \in T PROVE i + 1 \in T
      <3>1. PICK x \in 0 .. 255 : u(i + 1) = 256 * u(i) + x
        BY <2>4
      <3>2. /\ i \in Nat /\ i \in 0 .. N /\ i + 1 \in 0 .. N
            /\ P(i) <= u(i) /\ u(i) < Q(i)
        BY <2>1, <2>8
      <3>3. /\ P(i) \in Nat /\ Q(i) \in Nat /\ u(i) \in Nat
            /\ P(i + 1) = 256 * P(i) /\ Q(i + 1) = 256 * Q(i)
        BY <2>2, <2>3, <3>2
      <3>4. P(i + 1) <= u(i + 1) /\ u(i + 1) < Q(i + 1)
        <4> DEFINE p == P(i)
                   q == Q(i)
                   a == u(i)
        <4>1. p \in Nat /\ q \in Nat /\ a \in Nat /\ p <= a /\ a < q
          BY <3>2, <3>3
        <4> HIDE DEF p, q, a
        <4>2. 256 * p <= 256 * a + x /\ 256 * a + x < 256 * q
          BY <4>1
        <4> QED BY <3>1, <3>3, <4>2 DEF p, q, a
      <3> QED BY <3>2, <3>4
    <2>9. 0 .. N \subseteq T
      <3> HIDE DEF T
      <3> QED BY <2>1, <2>7, <2>8, BoundedInduction
    <2>10. P(N) <= u(N) /\ u(N) < Q(N)
      BY <2>1, <2>9
    <2> QED BY <2>6, <2>10 DEF P, Q, u
  <1> QED BY <1>1, <1>2

\* So it is below the target of every number of bits up to that, and of none beyond.
LEMMA BitsCompare ==
    ASSUME NEW n \in Nat, NEW z \in 0 .. n, NEW w \in Nat, NEW l, NEW need \in Nat,
           z = n => w = 0,
           z # n => /\ l \in 0 .. 7 /\ Power[8 * (n - z) - l - 1] <= w
                    /\ w < Power[8 * (n - z) - l]
    PROVE  8 * z + (IF z = n THEN 0 ELSE l) >= need
              <=> need <= 8 * n /\ w < Power[8 * n - need]
  <1>1. \A k \in Nat : Power[k] \in Nat \ {0}
    BY PowerIs
  <1>2. CASE z = n
    <2>1. need <= 8 * n => 8 * n - need \in Nat
      OBVIOUS
    <2>2. need <= 8 * n => 0 < Power[8 * n - need]
      BY <1>1, <2>1
    <2> QED BY <1>2, <2>2
  <1>3. CASE z # n
    <2> DEFINE lz == 8 * z + l
               k == 8 * n - need
               p == 8 * (n - z) - l - 1
    <2>1. lz \in Nat /\ lz <= 8 * n /\ p \in Nat /\ p + 1 = 8 * n - lz
          /\ p + 1 = 8 * (n - z) - l /\ p + 1 \in Nat
      BY <1>3
    <2>2. Power[p] <= w /\ w < Power[p + 1]
      BY <1>3, <2>1
    <2>3. CASE lz >= need
      <3>1. need <= 8 * n /\ k \in Nat /\ p + 1 <= k
        BY <2>1, <2>3
      <3> HIDE DEF p, k
      <3>2. Power[p + 1] <= Power[k] /\ Power[p + 1] \in Nat /\ Power[k] \in Nat
        BY <1>1, <2>1, <3>1, PowerGrows
      <3>3. w < Power[k]
        BY <2>2, <3>2
      <3> QED BY <1>3, <2>3, <3>1, <3>3 DEF k
    <2>4. CASE ~(lz >= need)
      <3>1. ASSUME need <= 8 * n PROVE ~(w < Power[k])
        <4>1. k \in Nat /\ k <= p
          BY <2>1, <2>4, <3>1
        <4> HIDE DEF p, k
        <4>2. Power[k] <= Power[p] /\ Power[p] \in Nat /\ Power[k] \in Nat
          BY <1>1, <2>1, <4>1, PowerGrows
        <4> QED BY <2>2, <4>2
      <3> QED BY <1>3, <2>4, <3>1
    <2> QED BY <2>3, <2>4
  <1> QED BY <1>2, <1>3

\* A hash has as many leading zero bits as a difficulty asks for exactly when it is
\* below the target.
LEMMA BitsTell ==
    ASSUME NEW bytes \in Seq(0 .. 255), NEW need \in Nat
    PROVE  leading_zero_bits(bytes) >= need <=> BelowTarget(bytes, need)
  <1> DEFINE n == Len(bytes)
             z == Cardinality(Zeros(bytes))
             l == leading_zero_bits_one_byte(bytes[z + 1])
             w == Value(bytes)
             byte(i) == bytes[i]
             b == [i \in 1 .. n |-> byte(i)]
  <1>1. n \in Nat /\ \A i \in 1 .. n : byte(i) \in 0 .. 255
    BY ElementsAre, Zenon
  <1>2. PICK v \in [0 .. n -> Nat] : Reads(v, bytes) /\ w = v[n]
    BY ValueIs
  <1>3. v[0] = 0 /\ \A i \in 1 .. n : v[i] = 256 * v[i - 1] + byte(i)
    BY <1>2, Zenon DEF Reads
  <1>4. z \in 0 .. n /\ (\A i \in 1 .. z : byte(i) = 0) /\ (z # n => byte(z + 1) \in 1 .. 255)
    BY ZerosAre, Zenon
  <1>5. leading_zero_bits(bytes) = 8 * z + (IF z = n THEN 0 ELSE l)
    BY Zenon DEF leading_zero_bits, Zeros
  <1>6. z # n => l \in 0 .. 7 /\ Power[7 - l] <= byte(z + 1) /\ byte(z + 1) < Power[8 - l]
    BY <1>4, OneByte, Zenon
  <1>7. BelowTarget(bytes, need) <=> need <= 8 * n /\ w < Power[8 * n - need]
    BY Zenon DEF BelowTarget
  <1> HIDE DEF byte, n, z, l, w
  <1>8. b \in [1 .. n -> 0 .. 255] /\ \A i \in 1 .. n : b[i] = byte(i)
    BY <1>1, Zenon
  <1> HIDE DEF b
  <1>a. n \in 0 .. n /\ z \in 0 .. z /\ (\A i \in 1 .. z : i \in 1 .. n)
        /\ (z # n => z + 1 \in 1 .. n)
    BY <1>1, <1>4
  <1>9. /\ \A i \in 0 .. z : v[i] = 0
        /\ z # n => \A k \in 0 .. 7 :
              /\ Power[7 - k] <= b[z + 1] /\ b[z + 1] < Power[8 - k]
              => /\ Power[8 * (n - z) - k - 1] <= v[n]
                 /\ v[n] < Power[8 * (n - z) - k]
    <2>1. \A i \in 1 .. n : v[i] = 256 * v[i - 1] + b[i]
      BY <1>3, <1>8, Zenon
    <2>2. \A i \in 1 .. z : b[i] = 0
      BY <1>4, <1>8, <1>a, Zenon
    <2> QED BY <1>1, <1>2, <1>3, <1>4, <1>8, <2>1, <2>2, LeadingZeros, ZenonT(60)
  <1>10. w \in Nat
    BY <1>2, <1>a, Zenon
  <1>11. z = n => w = 0
    BY <1>2, <1>9, <1>a, Zenon
  <1>12. z # n => /\ l \in 0 .. 7 /\ Power[8 * (n - z) - l - 1] <= w
                  /\ w < Power[8 * (n - z) - l]
    BY <1>2, <1>6, <1>8, <1>9, <1>a, Zenon
  <1>13. 8 * z + (IF z = n THEN 0 ELSE l) >= need <=> need <= 8 * n /\ w < Power[8 * n - need]
    BY <1>1, <1>4, <1>10, <1>11, <1>12, BitsCompare, Zenon
  <1> QED BY <1>5, <1>7, <1>13, Zenon

-----------------------------------------------------------------------------
\* leading_zero_bits of a mined header's hash reaches a difficulty exactly when the hash,
\* read as a number, is below that difficulty's target: for hashes of any length.
THEOREM DemosCountsBits == Spec => []CountsBits
  <1>1. ASSUME DemosInd PROVE CountsBits
    <2>1. hash # <<>> => hash \in Seq(0 .. 255)
      BY <1>1, DemosAssumption, Zenon DEF DemosInd, TypeOK
    <2>2. hash # <<>> => \A b \in Nat : leading_zero_bits(hash) >= b <=> BelowTarget(hash, b)
      BY <2>1, BitsTell, Zenon
    <2>3. \A n : \A b \in 0 .. n : b \in Nat
      OBVIOUS
    <2> QED BY <2>2, <2>3, Zenon DEF CountsBits
  <1> QED BY <1>1, DemosInductive, PTL

\* With at most one failing call, demo-chain and the miner demo end well only with the
\* right blocks on the chain, the mined one below its target.
THEOREM DemosAcceptedIsRight ==
    ASSUME MaxFailures <= 1
    PROVE  Spec => []AcceptedIsRight
  <1>0. \A d \in Digests : \A b \in Nat : leading_zero_bits(d) >= b => BelowTarget(d, b)
    BY DemosAssumption, BitsTell, Zenon
  <1>1. ASSUME DemosInd PROVE AcceptedIsRight
    <2>1. failures <= 1 /\ hash \in Digests \cup {<<>>} /\ bits \in Nat
      <3>1. TypeOK
        BY <1>1 DEF DemosInd
      <3>2. failures \in 0 .. MaxFailures /\ MaxFailures \in Nat
        BY <3>1, CryptoAssumption DEF TypeOK, CryptoTypeOK
      <3> QED BY <3>1, <3>2, DemosAssumption DEF TypeOK
    <2>2. AcceptedIsChecked
      BY <1>1 DEF DemosInd
    <2> QED BY <1>0, <2>1, <2>2 DEF AcceptedIsChecked, AcceptedIsRight
  <1> QED BY <1>1, DemosInductive, PTL
=============================================================================
