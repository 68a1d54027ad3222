------------------------------- MODULE MCNode -------------------------------
(***************************************************************************)
(* Module Node on small instances.  A header's hash has as many leading    *)
(* zero bits as its nonce says, so the nonces decide what passes the       *)
(* proof-of-work rule.                                                     *)
(***************************************************************************)
EXTENDS Node

Tx(key, sig) == [body |-> 1, from_pub_pem |-> key, signature |-> sig]

MCTxLists == {<<Tx("pem", "good")>>, <<Tx("pem", "bad")>>,
              <<Coinbase, Tx("pem", "good")>>, <<Coinbase, Tx("pem", "bad")>>,
              <<Coinbase, Coinbase>>, <<Tx("malformed", "bad")>>}

\* Fewer lists, for the runs that look at failures and not at validation.
FewTxLists == {<<Coinbase>>, <<Tx("pem", "good")>>}

MCLeadingZeroBits(h) == h[Len(h)].nonce
=============================================================================
