---------------------------- MODULE MCSharedLog -----------------------------
(***************************************************************************)
(* Module SharedLog on small instances.                                    *)
(***************************************************************************)
EXTENDS SharedLog

MCSignedTx == [body |-> 1, from_pub_pem |-> "pem", signature |-> "good"]
MCTxLists  == {<<Coinbase>>, <<MCSignedTx>>}

MCLeadingZeroBits(h) == 0

\* The store demos are interchangeable.
StoreSymmetry == Permutations(Stores)
=============================================================================
