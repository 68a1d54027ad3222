------------------------------ MODULE LogFile -------------------------------
(***************************************************************************)
(* The file chain.log as a sequence of items, the way module Node sees it: *)
(* whole records, and fragments of records whose writing was cut short.    *)
(* Module LogFormat reads the file byte by byte and shows that what is     *)
(* said here about the reader of block_store.cpp is so.                    *)
(***************************************************************************)
EXTENDS Naturals, Sequences

\* Mutant: length and check sum are taken of the payload before it is filled.
RecordEmpty(block) == [end |-> "check", payload |-> <<>>]

\* A record that goes on to its check sum, or a fragment: a record that was cut
\* inside the length field, or anywhere else before the end.
Record(block) == [end |-> "check", payload |-> <<block>>]
Fragment == [end : {"length", "other"}, payload : {<<>>}]

\* The number of whole records before the first fragment.
Readable(file) ==
    CHOOSE n \in 0 .. Len(file) :
        /\ \A i \in 1 .. n : file[i].end = "check"
        /\ n < Len(file) => file[n + 1].end # "check"

\* The reader takes the bytes a fragment lacks from what is behind it, finds the
\* check sum wrong or the file too short, and stops for good.
load_all_blocks(file) == [i \in 1 .. Readable(file) |-> file[i].payload[1]]

\* A cut length field gets its upper bytes from the record behind it, which
\* starts with "ASTR": payload.resize is asked for more than there is and throws.
\* (What follows may be too short a fragment; then the reader just stops.)
MayThrow(file) ==
    LET n == Readable(file)
    IN  n + 1 < Len(file) /\ file[n + 1].end = "length"

Stored(file) == {load_all_blocks(file)[i] : i \in 1 .. Readable(file)}
=============================================================================
