---------------------------- MODULE MCLogFormat -----------------------------
(***************************************************************************)
(* Module LogFormat on a genesis block and a block of two transactions     *)
(* that differ in where the key ends and the label begins.                 *)
(***************************************************************************)
EXTENDS LogFormat

MCMagic == <<2, 3, 1, 1>>

MCTx(nonce, key, label, sig) ==
    [version |-> 6, nonce |-> nonce, amount |-> 9, from_pub_pem |-> key,
     to_label |-> label, signature |-> sig]
MCBlock(time, txs) ==
    [header |-> [version |-> 1, prev_hash |-> <<0, 3>>, merkle_root |-> <<1, 2>>,
                 timestamp |-> time, nonce |-> 300],
     transactions |-> txs]

MCWritten == {MCBlock(77, <<MCTx(0, <<>>, <<3>>, <<>>)>>),
              MCBlock(78, <<MCTx(1, <<1>>, <<2, 3>>, <<3>>),
                            MCTx(1, <<1, 2>>, <<3>>, <<2>>)>>)}
=============================================================================
