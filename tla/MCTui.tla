------------------------------- MODULE MCTui --------------------------------
(***************************************************************************)
(* Module Tui on small instances.  A header's hash has as many leading     *)
(* zero bits as its nonce says.                                            *)
(***************************************************************************)
EXTENDS Tui

MCAppendTx == [body |-> 1, from_pub_pem |-> "pem", signature |-> "good"]
MCMineTx   == [body |-> 2, from_pub_pem |-> "pem", signature |-> "good"]
MCTxLists  == {<<Coinbase>>, <<MCAppendTx>>, <<MCMineTx>>}

MCLeadingZeroBits(h) == h[Len(h)].nonce
=============================================================================
