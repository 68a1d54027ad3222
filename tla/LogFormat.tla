----------------------------- MODULE LogFormat ------------------------------
(***************************************************************************)
(* The bytes of chain.log: ByteWriter and ByteReader (serializer.hpp), the *)
(* serialize() of headers, blocks and transactions, the record that        *)
(* BlockStore::append_block writes, and load_all_blocks read by read.      *)
(*                                                                         *)
(* Every field has the width it has in the code, in bytes; a byte has Base *)
(* values instead of 256 and a hash HashLen bytes instead of 32.  A byte   *)
(* of a SHA-256 knows the bytes it was computed from, so that two digests  *)
(* are equal only when their inputs are.                                   *)
(*                                                                         *)
(* `items` is the same file as module Node sees it.  The properties say    *)
(* that the abstract reader of module LogFile is right about this one.     *)
(***************************************************************************)
EXTENDS LogFile, SequencesExt

CONSTANTS
    Base, HashLen,
    Magic,     \* the four bytes of MAGIC, "ASTR" with the low byte first
    Written,   \* the blocks append_block is called with
    MaxItems,  \* bound on the records written, whole or cut
    MaxDamage  \* bound on the writes cut short and the bytes changed

ASSUME LogFormatAssumption ==
    /\ Base \in Nat \ {0, 1} /\ HashLen \in Nat \ {0}
    /\ Magic \in [1 .. 4 -> 1 .. Base - 1]
    /\ Magic[1] \notin {1, Magic[2], Magic[3], Magic[4]}
    /\ MaxItems \in Nat /\ MaxDamage \in Nat

-----------------------------------------------------------------------------
(* Writing. *)

\* What a byte counts that has n bytes below it.
Weight[n \in Nat] == IF n = 0 THEN 1 ELSE Base * Weight[n - 1]

\* ByteWriter::write_le_value of a value that is n bytes wide, and back.
write_le_value(value, n) == [i \in 1 .. n |-> (value \div Weight[i - 1]) % Base]
le_value(bytes) ==
    LET sum[i \in 0 .. Len(bytes)] ==
            IF i = 0 THEN 0 ELSE sum[i - 1] + bytes[i] * Weight[i - 1]
    IN  sum[Len(bytes)]

\* ByteWriter::write_bytes and write_string.
write_bytes(bytes) == write_le_value(Len(bytes), 4) \o bytes

\* What Transaction::serialize writes up to the key.
TxStart(tx) ==
    <<1, 1>> \o write_le_value(1, 4) \o write_le_value(tx.version, 4)
    \o write_le_value(tx.nonce, 8) \o write_le_value(tx.amount, 8)

\* Mutant: key and label are signed without their lengths.
serialize_unprefixed(tx, for_signing) ==
    TxStart(tx)
    \o (IF for_signing THEN tx.from_pub_pem \o tx.to_label
        ELSE write_bytes(tx.from_pub_pem) \o write_bytes(tx.to_label)
             \o write_bytes(tx.signature))

\* Transaction::serialize.
serialize_transaction(tx, for_signing) ==
    TxStart(tx) \o write_bytes(tx.from_pub_pem) \o write_bytes(tx.to_label)
    \o (IF for_signing THEN write_le_value(0, 4) ELSE write_bytes(tx.signature))

\* BlockHeader::serialize and Block::serialize.
serialize_header(header) ==
    write_le_value(header.version, 4) \o header.prev_hash \o header.merkle_root
    \o write_le_value(header.timestamp, 8) \o write_le_value(header.nonce, 8)
serialize(block) ==
    serialize_header(block.header)
    \o write_le_value(Len(block.transactions), 4)
    \o FlattenSeq([i \in DOMAIN block.transactions |->
                      write_bytes(serialize_transaction(block.transactions[i], FALSE))])

\* What the fields of a block can hold: a number fits its width, the length of a
\* string or of a transaction the 32 bits it is written in, and so does a block's,
\* which is kept in memory.
Byte == 0 .. Base - 1
Uint(n) == 0 .. Weight[n] - 1
ByteString == {bytes \in Seq(Byte) : Len(bytes) < Weight[4]}
Transaction == [version : Uint(2), nonce : Uint(8), amount : Uint(8),
                from_pub_pem : ByteString, to_label : ByteString, signature : ByteString]
Header == [version : Uint(4), prev_hash : [1 .. HashLen -> Byte],
           merkle_root : [1 .. HashLen -> Byte], timestamp : Uint(8), nonce : Uint(8)]
Block == [header : Header, transactions : Seq(Transaction)]

ASSUME WrittenAssumption ==
    \A block \in Written :
        /\ block \in Block /\ Len(block.transactions) < Weight[4]
        /\ Len(serialize(block)) < Weight[4]
        /\ \A i \in DOMAIN block.transactions :
              Len(serialize_transaction(block.transactions[i], FALSE)) < Weight[4]

\* A byte of the file, and the digest of a sequence of bytes.
Plain(bytes) == [i \in DOMAIN bytes |-> [byte |-> bytes[i], digest_of |-> <<>>]]
Bytes(cells) == [i \in DOMAIN cells |-> cells[i].byte]
sha256(bytes) == [i \in 1 .. HashLen |-> [byte |-> i % Base, digest_of |-> <<bytes>>]]

\* The record of a block: magic, version and kind; length; payload; check sum.
RecordStart == Magic \o write_le_value(1, 8) \o write_le_value(1, 2)
record(block) ==
    LET payload == serialize(block)
    IN  Plain(RecordStart \o write_le_value(Len(payload), 8) \o payload)
        \o sha256(payload)

HeaderSize == 4 + 8 + 2 + 8

-----------------------------------------------------------------------------
(* Reading. *)

\* ByteReader on `src`: the fields of the given widths one after the other, 0 for
\* one that carries its length.  It throws unless `ok`.
Fields(src, widths) ==
    LET Read(reader, width) ==
            LET start == IF width = 0 THEN reader.pos + 4 ELSE reader.pos
                size  == IF width > 0 THEN width
                         ELSE le_value(SubSeq(src, reader.pos + 1, start))
            IN  IF ~reader.ok \/ start > Len(src) \/ size > Len(src) - start
                THEN [reader EXCEPT !.ok = FALSE]
                ELSE [ok |-> TRUE, pos |-> start + size,
                      values |-> Append(reader.values,
                                        SubSeq(src, start + 1, start + size))]
        read[i \in 0 .. Len(widths)] ==
            IF i = 0 THEN [ok |-> TRUE, pos |-> 0, values |-> <<>>]
            ELSE Read(read[i - 1], widths[i])
    IN  read[Len(widths)]

\* Mutant: the version is read as 64 bits.
parse_wide(bytes) ==
    LET reader == Fields(bytes, <<1, 1, 4, 8, 8, 8, 0, 0, 0>>)
    IN  IF reader.ok THEN <<reader.values>> ELSE <<>>

\* parse_transaction: empty when it throws.  Transaction::version is 16 bits wide.
parse_transaction(bytes) ==
    LET reader == Fields(bytes, <<1, 1, 4, 4, 8, 8, 0, 0, 0>>)
        v      == reader.values
    IN  IF reader.ok
        THEN <<[version |-> le_value(v[4]) % Weight[2], nonce |-> le_value(v[5]),
                amount |-> le_value(v[6]), from_pub_pem |-> v[7],
                to_label |-> v[8], signature |-> v[9]]>>
        ELSE <<>>

\* The end of load_all_blocks' loop: the payload becomes a block, or a throw.
parse_block(payload) ==
    LET head   == <<4, HashLen, HashLen, 8, 8, 4>>
        fixed  == Fields(payload, head)
        number == le_value(fixed.values[6])
        reader == Fields(payload, head \o [i \in 1 .. number |-> 0])
        txs    == [i \in 1 .. number |-> parse_transaction(reader.values[6 + i])]
        v      == reader.values
    IN  IF fixed.ok /\ reader.ok /\ \A i \in 1 .. number : txs[i] # <<>>
        THEN <<[header |-> [version |-> le_value(v[1]), prev_hash |-> v[2],
                            merkle_root |-> v[3], timestamp |-> le_value(v[4]),
                            nonce |-> le_value(v[5])],
                transactions |-> FlattenSeq(txs)]>>
        ELSE <<>>

-----------------------------------------------------------------------------
VARIABLES
    file,     \* the bytes of chain.log
    items,    \* history: the file as records and fragments
    damage,   \* history: what happened to it, "cut" or "changed", in order
    pc, pos,  \* load_all_blocks: where it is in its loop and in the file
    length,   \* the record's length field
    payload,  \* the record's payload
    out       \* the blocks read so far

fileVars == <<file, items, damage>>
vars == <<fileVars, pc, pos, length, payload, out>>

Init ==
    /\ file = <<>> /\ items = <<>> /\ damage = <<>>
    /\ pc = "closed" /\ pos = 0 /\ length = 0 /\ payload = <<>> /\ out = <<>>

\* append_block, at the end of the file whatever is there.
AppendBlock(block) ==
    /\ pc = "closed" /\ Len(items) < MaxItems
    /\ file' = file \o record(block)
    /\ items' = Append(items, Record(block))
    /\ UNCHANGED <<damage, pc, pos, length, payload, out>>

\* Where a record of which n bytes are there was cut, in the words of LogFile.
CutAt(n) == [end |-> IF n \in Len(RecordStart) .. HeaderSize - 1 THEN "length" ELSE "other",
             payload |-> <<>>]

\* append_block cut short after n bytes.
AppendCut(block, n) ==
    /\ pc = "closed" /\ Len(items) < MaxItems /\ Len(damage) < MaxDamage
    /\ n < Len(record(block))
    /\ file' = file \o SubSeq(record(block), 1, n)
    /\ items' = Append(items, CutAt(n))
    /\ damage' = Append(damage, "cut")
    /\ UNCHANGED <<pc, pos, length, payload, out>>

\* A byte of a record in an undamaged file changes on the disk.
Change(i, n) ==
    LET before == FlattenSeq([j \in 1 .. i - 1 |-> record(items[j].payload[1])])
        at     == Len(before) + n
    IN  /\ pc = "closed" /\ damage = <<>> /\ MaxDamage > 0
        /\ n <= Len(record(items[i].payload[1]))
        /\ file' = [file EXCEPT ![at].byte = (file[at].byte + 1) % Base]
        /\ items' = [items EXCEPT ![i] = CutAt(n - 1)]
        /\ damage' = <<"changed">>
        /\ UNCHANGED <<pc, pos, length, payload, out>>

-----------------------------------------------------------------------------
remaining == Len(file) - pos
Ahead(from, to) == SubSeq(file, pos + from, pos + to)

\* load_all_blocks goes somewhere and reads nothing: into its loop, or out of it.
Go(how) == pc' = how /\ UNCHANGED <<fileVars, pos, length, payload, out>>

Open == pc = "closed" /\ items # <<>> /\ Go("peek")

\* The file is there and cannot be opened: load_all_blocks throws, nothing is read.
OpenFails == pc = "closed" /\ items # <<>> /\ Go("unopened")

\* peek() finds the end of the file.
AtEnd == pc = "peek" /\ remaining = 0 /\ Go("done")

\* Magic, version, kind and length: too short, not a record, or taken.
HeaderRead(refused) ==
    /\ pc = "peek" /\ remaining > 0
    /\ IF remaining < HeaderSize \/ refused
       THEN Go("done")
       ELSE /\ pc' = "payload"
            /\ length' = le_value(Bytes(Ahead(Len(RecordStart) + 1, HeaderSize)))
            /\ pos' = pos + HeaderSize
            /\ UNCHANGED <<fileVars, payload, out>>

\* Mutant: magic, version and kind are read and not compared.
ReadHeaderUnseen == HeaderRead(FALSE)

ReadHeader == HeaderRead(Bytes(Ahead(1, Len(RecordStart))) # RecordStart)

\* payload.resize throws on a size of four gigabytes (256^4) or more, or does not.
ResizeThrows == pc = "payload" /\ length >= Weight[4] /\ Go("threw")

\* Mutant: a payload shorter than its length is not noticed.
ReadPayloadShort ==
    /\ pc = "payload"
    /\ pc' = "check"
    /\ payload' = Bytes(Ahead(1, Min({length, remaining})))
    /\ pos' = pos + length
    /\ UNCHANGED <<fileVars, length, out>>

\* The payload: too short, or taken.
ReadPayload ==
    /\ pc = "payload"
    /\ IF remaining < length
       THEN Go("done")
       ELSE /\ pc' = "check"
            /\ payload' = Bytes(Ahead(1, length))
            /\ pos' = pos + length
            /\ UNCHANGED <<fileVars, length, out>>

\* The check sum: too short, wrong, or right.  Then the block is parsed.
CheckRead(refused) ==
    /\ pc = "check"
    /\ IF remaining < HashLen \/ refused
       THEN Go("done")
       ELSE LET block == parse_block(payload)
            IN  /\ pc' = IF block = <<>> THEN "malformed" ELSE "peek"
                /\ pos' = pos + HashLen
                /\ out' = out \o block
                /\ UNCHANGED <<fileVars, length, payload>>

\* Mutant: the check sum is read and not compared.
ReadCheckUnseen == CheckRead(FALSE)

ReadCheck == CheckRead(Ahead(1, HashLen) # sha256(payload))

\* The process that read the file ends.
Close ==
    /\ pc \in {"done", "threw", "unopened"}
    /\ pc' = "closed"
    /\ pos' = 0 /\ length' = 0 /\ payload' = <<>> /\ out' = <<>>
    /\ UNCHANGED fileVars

Sizes == 1 .. Max({Len(record(block)) : block \in Written})

Next ==
    \/ \E block \in Written : AppendBlock(block)
    \/ \E block \in Written, n \in Sizes : AppendCut(block, n)
    \/ \E i \in DOMAIN items, n \in Sizes : Change(i, n)
    \/ Open \/ OpenFails \/ AtEnd \/ ReadHeader \/ ResizeThrows \/ ReadPayload \/ ReadCheck
    \/ Close

Spec == Init /\ [][Next]_vars

-----------------------------------------------------------------------------
\* Every variable has its type, and the reader stays inside the file.
TypeOK ==
    /\ \A i \in DOMAIN file : file[i].byte \in 0 .. Base - 1
    /\ \A i \in DOMAIN items : items[i] \in Fragment \cup {Record(b) : b \in Written}
    /\ damage \in Seq({"cut", "changed"})
    /\ pc \in {"closed", "peek", "payload", "check", "done", "threw", "unopened",
               "malformed"}
    /\ pos \in 0 .. Len(file) /\ length \in Nat

\* load_all_blocks returns exactly the blocks of the whole records in front of the
\* first damage, field by field as they were written: what a cut record lacks is
\* never supplied by the record behind it, and no changed byte goes unnoticed.
ReadsWholeRecords == pc = "done" => out = load_all_blocks(items)

\* It throws only where Node!StartThrows says so: a length field was cut and
\* something follows, or (with a changed byte) was the field that changed.
ThrowsOnTornLength ==
    pc = "threw" => \/ MayThrow(items)
                    \/ "changed" \in Range(damage)
                       /\ items[Readable(items) + 1].end = "length"

\* A payload with the right check sum is one ByteReader can read: SerializeError
\* never escapes load_all_blocks.
NeverMalformed == pc # "malformed"

\* What a signature covers is the same after reading, and tells any two
\* transactions apart that differ in more than the signature.
Unsigned(tx) == [tx EXCEPT !.signature = <<>>]
SigningBytesTell ==
    \A i, j \in DOMAIN out :
        \A t \in Range(out[i].transactions), u \in Range(out[j].transactions) :
            serialize_transaction(t, TRUE) = serialize_transaction(u, TRUE)
                <=> Unsigned(t) = Unsigned(u)
=============================================================================
