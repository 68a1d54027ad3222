------------------------------- MODULE Crypto -------------------------------
(***************************************************************************)
(* keys.cpp and sha256 of hash.cpp as what they are: short scripts of      *)
(* OpenSSL calls, each of which may fail.  A call needs handles, may yield *)
(* one, and has its own answer to failure: the function throws, returns    *)
(* false or 32 zero bytes, or goes on with a null handle.  A call that is  *)
(* given a null handle fails.                                              *)
(*                                                                         *)
(* A handle is freed in two ways only: by its guard (a unique_ptr) when    *)
(* the guard's scope ends, or by hand.  Where a guard is set up, and which *)
(* paths free by hand, is written in the scripts.                          *)
(***************************************************************************)
EXTENDS Naturals, Sequences

CONSTANT MaxFailures  \* bound on the OpenSSL calls that fail by themselves

ASSUME CryptoAssumption == MaxFailures \in Nat

VARIABLES
    fn, at,    \* the function that runs, and the call it makes next
    live,      \* the handles that are allocated
    owned,     \* the handles a guard was set up for, null or not
    erred,     \* a call of this function failed
    result,    \* what the function came to, for its caller to take
    failures   \* how many calls failed by themselves

cryptoVars == <<fn, at, live, owned, erred, result, failures>>

-----------------------------------------------------------------------------
\* A call, and what goes with it: the handle it opens; the guard that is set up
\* before the next call; on success the handles freed by hand and the guards whose
\* scope ends; on failure the answer, and the handles freed by hand before it.
Uses(needs, failing) ==
    [needs |-> needs, opens |-> {}, guards |-> {}, frees |-> {}, ends |-> {},
     failing |-> failing, undoes |-> {}]
Opens(handle, needs, failing) == [Uses(needs, failing) EXCEPT !.opens = {handle}]
Guarded(handle, needs, failing) ==
    [Opens(handle, needs, failing) EXCEPT !.guards = {handle}]

crypto_init == <<Uses({}, "false")>>

\* Mutant: the guard is set up after the key was written.
ExportGuardedLate ==
    <<Opens("bio", {}, "throw"), [Uses({"bio", "key"}, "throw") EXCEPT !.guards = {"bio"}],
      [Uses({"bio"}, "throw") EXCEPT !.ends = {"bio"}]>>

\* BIO_new, PEM_write_bio_*, BIO_get_mem_data.  The BIO goes with this scope.
export_key_pem ==
    <<Guarded("bio", {}, "throw"), Uses({"bio", "key"}, "throw"),
      [Uses({"bio"}, "throw") EXCEPT !.ends = {"bio"}]>>

\* The context, keygen_init, set_params (a curve OpenSSL does not know fails here),
\* keygen, and both halves of the key as PEM.
generate_ec_keypair ==
    <<Guarded("ctx", {}, "throw"), Uses({"ctx"}, "throw"), Uses({"ctx"}, "throw"),
      Guarded("key", {"ctx"}, "throw")>> \o export_key_pem \o export_key_pem

\* A key is read: the guards are set up over the results, looked at or not.
Reading(failing) == <<Guarded("bio", {}, failing), Guarded("key", {"bio"}, failing)>>

\* The key is read without a look at the results; then the digest context,
\* DigestSignInit, Update, and Final for the length and for the signature.
Sign(init_failing) ==
    Reading("ignore") \o
    <<Guarded("ctx", {}, "throw"), Uses({"ctx", "key"}, init_failing),
      Uses({"ctx"}, "throw"), Uses({"ctx"}, "throw"), Uses({"ctx"}, "throw")>>

\* Mutant: the result of DigestSignInit is not looked at either.
SignUnchecked == Sign("ignore")

sign_message == Sign("throw")

verify_message ==
    Reading("throw") \o
    <<Guarded("ctx", {}, "throw"), Uses({"ctx", "key"}, "throw"),
      Uses({"ctx"}, "throw"), Uses({"ctx"}, "false")>>

\* sha256 has no guard: EVP_MD_CTX_free stands before every return, but for the one
\* without a context.
Undoing == [Uses({"md"}, "zero") EXCEPT !.undoes = {"md"}]

\* Mutant: one of the error paths returns without it.
Sha256Leaking ==
    <<Opens("md", {}, "zero"), Undoing, Uses({"md"}, "zero"),
      [Undoing EXCEPT !.frees = {"md"}]>>

\* EVP_MD_CTX_new, Init, Update, Final.
sha256 ==
    <<Opens("md", {}, "zero"), Undoing, Undoing,
      [Undoing EXCEPT !.frees = {"md"}]>>

Script == [crypto_init |-> crypto_init, generate_ec_keypair |-> generate_ec_keypair,
           sign_message |-> sign_message, verify_message |-> verify_message,
           sha256 |-> sha256]

-----------------------------------------------------------------------------
CryptoInit ==
    /\ fn = "none" /\ at = 0 /\ live = {} /\ owned = {} /\ erred = FALSE
    /\ result = "none" /\ failures = 0

Begin(f) ==
    /\ fn = "none" /\ result = "none"
    /\ fn' = f /\ at' = 1 /\ erred' = FALSE
    /\ UNCHANGED <<live, owned, result, failures>>

\* The function is left, by return or throw, with these handles and guards: all
\* scopes end, and the guards free what they own.
Leave(outcome, handles, guards) ==
    /\ fn' = "none" /\ at' = 0 /\ result' = outcome
    /\ live' = handles \ guards /\ owned' = {}

\* The next call of the running function succeeds,
Succeed ==
    /\ fn # "none"
    /\ LET call    == Script[fn][at]
           handles == (live \cup call.opens) \ call.frees
           guards  == owned \cup call.guards
       IN  /\ call.needs \subseteq live
           /\ IF at = Len(Script[fn]) THEN Leave("done", handles, guards)
              ELSE /\ at' = at + 1
                   /\ live' = handles \ (guards \cap call.ends)
                   /\ owned' = guards \ call.ends
                   /\ UNCHANGED <<fn, result>>
    /\ UNCHANGED <<erred, failures>>

\* or fails, by itself or for want of a handle.  A guard set up over a result that
\* nobody looked at holds null.
Fail ==
    /\ fn # "none"
    /\ LET call == Script[fn][at]
       IN  /\ IF call.needs \subseteq live
              THEN failures < MaxFailures /\ failures' = failures + 1
              ELSE UNCHANGED failures
           /\ IF call.failing # "ignore"
              THEN Leave(call.failing, live \ call.undoes, owned)
              ELSE /\ at' = at + 1 /\ owned' = owned \cup call.guards
                   /\ UNCHANGED <<fn, live, result>>
    /\ erred' = TRUE

-----------------------------------------------------------------------------
CryptoTypeOK ==
    /\ fn \in DOMAIN Script \cup {"none"}
    /\ at \in IF fn = "none" THEN {0} ELSE DOMAIN Script[fn]
    /\ live \subseteq {"bio", "key", "ctx", "md"} /\ erred \in BOOLEAN
    /\ owned \subseteq {"bio", "key", "ctx", "md"}
    /\ result \in {"none", "done", "throw", "false", "zero"}
    /\ failures \in 0 .. MaxFailures

\* Whichever call fails, every handle was freed by a guard or by hand by the time
\* the function is left: no way out of sha256 lacks its EVP_MD_CTX_free, and no call
\* of keys.cpp can throw between a handle and its guard.
NoLeak == fn = "none" => live = {}

\* No failure goes unnoticed, not even those of sign_message's two unchecked
\* calls: a function that comes to a result had every one of its calls succeed,
\* and a caller that sees "throw", false or the zero hash can blame a failed call.
FailsClosed == result # "none" => (result = "done" <=> ~erred)
=============================================================================
