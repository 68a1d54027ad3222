------------------------------ MODULE MCDemos -------------------------------
(***************************************************************************)
(* Module Demos with hashes of two bytes.                                  *)
(***************************************************************************)
EXTENDS Demos

\* Every first byte, and after a zero the second bytes on either side of a power of 2.
MCDigests == {<<b, 255>> : b \in 1 .. 255}
             \cup {<<0, 2^k - 1>> : k \in 0 .. 8} \cup {<<0, 2^k>> : k \in 0 .. 7}
=============================================================================
