------------------------------- MODULE Snappy -------------------------------
(***************************************************************************)
(* golang/snappy: a Writer that compresses what a program writes into      *)
(* chunks, and a Reader at the other end of the stream.  An element of a   *)
(* block is a record whose numbers have the width of their bit fields; the *)
(* sizes of the format are parameters (the code's value in parentheses).   *)
(* The stream may fail in the middle of a chunk.                           *)
(***************************************************************************)
EXTENDS Integers, Sequences, FiniteSets, SequencesExt

CONSTANTS MaxBlockSize,  \* (65536)
          InputMargin,   \* bytes at the end that are not searched (15)
          MinMatch,      \* shortest copy, the bytes of load32 (4)
          MaxCopy,       \* longest copy of one element (64)
          Copy1Lens,     \* lengths a copy of the short form can have (8)
          Copy1Offsets,  \* and its offsets (2048)
          LitShort,      \* lengths of a literal that fit its tag (60)
          ByteSize,      \* (256)
          TableSize, SkipUnit,  \* of the search (16384 and 32)
          Buffered,      \* NewBufferedWriter, or NewWriter
          SnapInputs     \* what the program may write with its first, second ... Write

ASSUME SnappyAssumption ==
    /\ {MaxBlockSize, MinMatch, MaxCopy, Copy1Lens, Copy1Offsets, LitShort, ByteSize,
        TableSize, SkipUnit, InputMargin} \subseteq Nat \ {0}
    /\ InputMargin >= MinMatch /\ MaxBlockSize <= ByteSize * ByteSize
    /\ MaxCopy >= 2 * MinMatch /\ MaxCopy > MinMatch + Copy1Lens
    /\ Buffered \in BOOLEAN /\ SnapInputs \in Seq(SUBSET Seq(0..ByteSize - 1))

(***************************************************************************)
(* Blocks.  Positions count from 0, as in the code.                        *)
(***************************************************************************)
Bytes0(src, i, j) == SubSeq(src, i + 1, j)        \* src[i:j]
Load32(src, i)    == Bytes0(src, i, i + MinMatch)
Hash(u) == LET over[k \in 0..Len(u)] == IF k = 0 THEN 0 ELSE (3 * over[k - 1] + u[k]) % TableSize
           IN  over[Len(u)]

EmitLiteral(lit) ==
    LET n == Len(lit) - 1 IN
    [tag |-> "literal", n |-> n % (ByteSize * ByteSize), bytes |-> lit,
     size |-> Len(lit) + IF n < LitShort THEN 1 ELSE IF n < ByteSize THEN 2 ELSE 3]

Copy1(offset, length) == [tag |-> "copy1", n |-> (length - MinMatch) % Copy1Lens,
                          offset |-> offset % Copy1Offsets, size |-> 2]
Copy2(offset, length) == [tag |-> "copy2", n |-> (length - 1) % MaxCopy,
                          offset |-> offset % (ByteSize * ByteSize), size |-> 3]

\* Copies of full length while they leave a match; what is left may be too long
\* for one copy by less than a match.  A rest fits the short form or not.
LongCopies(offset, length) == [i \in 1..((length - MinMatch) \div MaxCopy) |-> Copy2(offset, MaxCopy)]
RestCopy(offset, length) ==
    IF length >= MinMatch + Copy1Lens \/ offset >= Copy1Offsets
    THEN Copy2(offset, length) ELSE Copy1(offset, length)

\* The rest after the long copies is taken to fit one copy.
FaultyEmitCopy(offset, length) ==
    LongCopies(offset, length) \o <<RestCopy(offset, MinMatch + ((length - MinMatch) % MaxCopy))>>

EmitCopy(offset, length) ==
    LET rest == MinMatch + ((length - MinMatch) % MaxCopy) IN
    LongCopies(offset, length)
      \o (IF rest <= MaxCopy THEN <<RestCopy(offset, rest)>>
          ELSE <<Copy2(offset, MaxCopy - MinMatch), RestCopy(offset, rest - (MaxCopy - MinMatch))>>)

\* The largest k such that src[i:i+k-j] and src[j:k] are the same.
ExtendMatch(src, i, j) ==
    CHOOSE k \in j..Len(src) : /\ Bytes0(src, i, i + k - j) = Bytes0(src, j, k)
                               /\ k = Len(src) \/ src[i + k - j + 1] # src[k + 1]

\* The state of encodeBlock: what it emitted, where the next literal starts, its
\* table of positions by hash, and at s either the search for a match, with the
\* hash of the bytes there, or a match with the bytes at candidate.
SLimit(src) == Len(src) - InputMargin
EncodeStart(src) == [at |-> "search", out |-> <<>>, nextEmit |-> 0, s |-> 1, candidate |-> 0, skip |-> SkipUnit,
                     table |-> [h \in 0..TableSize - 1 |-> 0], nextHash |-> Hash(Load32(src, 1))]
EmitRemainder(src, e) ==
    [e EXCEPT !.at = "done", !.out = IF e.nextEmit < Len(src)
                                     THEN Append(@, EmitLiteral(Bytes0(src, e.nextEmit, Len(src)))) ELSE @]

\* The inner loop.
Search(src, e) ==
    LET nextS     == e.s + (e.skip \div SkipUnit)
        candidate == e.table[e.nextHash]
        f == [e EXCEPT !.table[e.nextHash] = e.s, !.nextHash = Hash(Load32(src, nextS))]
    IN  IF nextS > SLimit(src) THEN EmitRemainder(src, e)
        ELSE IF Load32(src, e.s) = Load32(src, candidate)
        THEN [f EXCEPT !.at = "match", !.candidate = candidate,
                       !.out = Append(@, EmitLiteral(Bytes0(src, e.nextEmit, e.s)))]
        ELSE [f EXCEPT !.s = nextS, !.skip = @ + (@ \div SkipUnit)]

\* Copies for a match; another match may follow at once.
Copies(src, e) ==
    LET s == ExtendMatch(src, e.candidate + MinMatch, e.s + MinMatch)
        c == [e EXCEPT !.out = @ \o EmitCopy(e.s - e.candidate, s - e.s), !.nextEmit = s, !.s = s]
        h == Hash(Load32(src, s))
        table == [e.table EXCEPT ![Hash(Load32(src, s - 1))] = s - 1]
        f == [c EXCEPT !.table = [table EXCEPT ![h] = s], !.candidate = table[h]]
    IN  IF s >= SLimit(src) THEN EmitRemainder(src, c)
        ELSE IF Load32(src, s) = Load32(src, table[h]) THEN f
        ELSE [f EXCEPT !.at = "search", !.s = s + 1, !.skip = SkipUnit, !.nextHash = Hash(Load32(src, s + 1))]

EncodeStep(src, e) == CASE e.at = "search" -> Search(src, e)
                        [] e.at = "match"  -> Copies(src, e)
                        [] e.at = "done"   -> e

\* s advances with every step but those from a search to its match, which then
\* advances by two at least.
EncodeBlock(src) ==
    LET after[k \in 0..Len(src)] == IF k = 0 THEN EncodeStart(src) ELSE EncodeStep(src, after[k - 1])
    IN  after[Len(src)].out

MinNonLiteralBlockSize == 2 + InputMargin

\* src in pieces of MaxBlockSize.
PieceCount(src) == (Len(src) + MaxBlockSize - 1) \div MaxBlockSize
PieceEnd(src, k) == IF k * MaxBlockSize < Len(src) THEN k * MaxBlockSize ELSE Len(src)
Pieces(src) == [k \in 1..PieceCount(src) |-> Bytes0(src, (k - 1) * MaxBlockSize, PieceEnd(src, k))]

EncodePiece(p) == IF Len(p) < MinNonLiteralBlockSize THEN <<EmitLiteral(p)>> ELSE EncodeBlock(p)
SnapEncode(src) ==
    LET pieces == Pieces(src) IN
    [dLen |-> Len(src), elements |-> FlattenSeq([k \in DOMAIN pieces |-> EncodePiece(pieces[k])])]

\* The bytes a block takes: the length as a varint, then the elements.
EncodedLen(block) ==
    Cardinality({k \in 0..8 : k = 0 \/ block.dLen >= (ByteSize \div 2)^k})
      + FoldLeft(LAMBDA n, x : n + x.size, 0, block.elements)

\* decode: the elements one after the other; a copy may overlap what it writes.
ForwardCopy(dst, offset, n) ==
    LET copied[k \in 0..n] == IF k = 0 THEN dst
                              ELSE LET q == copied[k - 1] IN Append(q, q[Len(q) + 1 - offset])
    IN  copied[n]
Corrupt == [ok |-> FALSE, bytes |-> <<>>]
DecodeNext(dLen, acc, x) ==
    LET length == CASE x.tag = "literal" -> x.n + 1
                    [] x.tag = "copy1"   -> MinMatch + x.n
                    [] x.tag = "copy2"   -> 1 + x.n
        d      == Len(acc.bytes)
    IN  CASE ~acc.ok \/ length > dLen - d -> Corrupt
          [] acc.ok /\ length <= dLen - d /\ x.tag = "literal" ->
                 IF length > Len(x.bytes) THEN Corrupt
                 ELSE [acc EXCEPT !.bytes = @ \o Bytes0(x.bytes, 0, length)]
          [] OTHER -> IF x.offset <= 0 \/ d < x.offset THEN Corrupt
                      ELSE [acc EXCEPT !.bytes = ForwardCopy(@, x.offset, length)]
SnapDecode(block) ==
    LET upTo[k \in 0..Len(block.elements)] ==
            IF k = 0 THEN [ok |-> TRUE, bytes |-> <<>>]
            ELSE DecodeNext(block.dLen, upTo[k - 1], block.elements[k])
        d == upTo[Len(block.elements)]
    IN  IF Len(d.bytes) # block.dLen THEN Corrupt ELSE d

(***************************************************************************)
(* The stream: chunks are the ones on their way, written what Write took   *)
(* and Reset did not discard, got what Read returned.  A checksum stands   *)
(* for the bytes it was computed from.                                     *)
(***************************************************************************)
VARIABLES writer, reader, chunks, written, got, writes

snapVars == <<writer, reader, chunks, written, got, writes>>

NewW == [err |-> "nil", ibuf |-> <<>>, wroteStreamHeader |-> FALSE]
NewR == [err |-> "nil", pending |-> <<>>, readHeader |-> FALSE]

SnapInit == writer = NewW /\ reader = NewR /\ chunks = <<>> /\ written = <<>> /\ got = <<>> /\ writes = 0

Magic == [type |-> "identifier"]
Torn  == [type |-> "torn"]

\* A chunk is compressed only if that saves an eighth.
ChunkOf(p) ==
    LET block == SnapEncode(p) IN
    IF EncodedLen(block) >= Len(p) - Len(p) \div 8
    THEN [type |-> "uncompressed", sum |-> p, body |-> p]
    ELSE [type |-> "compressed", sum |-> p, body |-> block]

\* Writer.write; of the chunks, ok get through before the stream fails.
WriteChunks(s, p, ok) ==
    LET all    == Pieces(p)
        broken == ok < Len(all)
        whole  == IF broken THEN ok ELSE Len(all)
    IN  IF p = <<>> \/ s.w.err # "nil" THEN s
        ELSE [s EXCEPT !.w.wroteStreamHeader = TRUE,
                       !.w.err  = IF broken THEN "broken" ELSE @,
                       !.n      = @ + PieceEnd(p, whole),
                       !.chunks = @ \o (IF s.w.wroteStreamHeader THEN <<>> ELSE <<Magic>>)
                                    \o [k \in 1..whole |-> ChunkOf(all[k])]
                                    \o (IF broken THEN <<Torn>> ELSE <<>>)]

FlushIbuf(s, ok) ==
    IF s.w.err # "nil" \/ s.w.ibuf = <<>> THEN s
    ELSE [WriteChunks(s, s.w.ibuf, ok) EXCEPT !.w.ibuf = <<>>, !.n = s.n]

\* Writer.Write: what does not fit the buffer goes out, directly if it is empty.
\* The loop fills and flushes a buffer that is not empty once, for then it is.
FillIbuf(s, p) == [s EXCEPT !.w.ibuf = @ \o p, !.n = @ + Len(p)]
Room(s) == MaxBlockSize - Len(s.w.ibuf)
WriteLast(s, p, ok) ==
    IF s.w.err # "nil" THEN s
    ELSE IF Len(p) <= Room(s) THEN FillIbuf(s, p) ELSE WriteChunks(s, p, ok)
WriteLoop(s, p, ok) ==
    IF s.w.err = "nil" /\ Len(p) > Room(s) /\ s.w.ibuf # <<>>
    THEN WriteLast(FlushIbuf(FillIbuf(s, Bytes0(p, 0, Room(s))), ok), Bytes0(p, Room(s), Len(p)), ok - 1)
    ELSE WriteLast(s, p, ok)

\* The state a call of the Writer works on; n counts the bytes it took.
Now0 == [w |-> writer, chunks |-> chunks, n |-> 0]
Becomes(s) == writer' = s.w /\ chunks' = s.chunks

SnapWrite(p, ok) ==
    LET s == IF Buffered THEN WriteLoop(Now0, p, ok) ELSE WriteChunks(Now0, p, ok) IN
    /\ writes' = writes + 1
    /\ Becomes(s) /\ written' = written \o Bytes0(p, 0, s.n)
    /\ UNCHANGED <<reader, got>>

SnapFlush(ok) == Becomes(FlushIbuf(Now0, ok)) /\ UNCHANGED <<reader, got, written, writes>>

SnapClose(ok) ==
    LET s == FlushIbuf(Now0, ok) IN
    /\ Becomes(IF s.w.err = "nil" THEN [s EXCEPT !.w.err = "closed"] ELSE s)
    /\ UNCHANGED <<reader, got, written, writes>>

\* Writer.Reset to the same stream: what was not flushed is discarded.
WriterReset ==
    /\ writer.err # "broken"
    /\ writer' = NewW
    /\ written' = Bytes0(written, 0, Len(written) - Len(writer.ibuf))
    /\ UNCHANGED <<reader, chunks, got, writes>>

\* Reader.Read of one chunk, and of what was decoded.
ReadChunk ==
    LET c == Head(chunks)
        d == IF c.type = "compressed" THEN SnapDecode(c.body) ELSE [ok |-> TRUE, bytes |-> c.body]
        corrupt == \/ c.type # "identifier" /\ ~reader.readHeader
                   \/ c.type = "torn"
                   \/ c.type # "identifier" /\ (~d.ok \/ Len(d.bytes) > MaxBlockSize \/ d.bytes # c.sum)
    IN  /\ reader.err = "nil" /\ reader.pending = <<>> /\ chunks # <<>>
        /\ chunks' = Tail(chunks)
        /\ reader' = IF corrupt THEN [reader EXCEPT !.err = "corrupt"]
                     ELSE IF c.type = "identifier" THEN [reader EXCEPT !.readHeader = TRUE]
                     ELSE [reader EXCEPT !.pending = d.bytes]
        /\ UNCHANGED <<writer, got, written, writes>>

SnapRead(n) ==
    /\ reader.err = "nil" /\ reader.pending # <<>>
    /\ LET k == IF n > Len(reader.pending) THEN Len(reader.pending) ELSE n IN
       /\ got' = got \o Bytes0(reader.pending, 0, k)
       /\ reader' = [reader EXCEPT !.pending = Bytes0(@, k, Len(@))]
    /\ UNCHANGED <<writer, chunks, written, writes>>

SnapNext ==
    \/ /\ writes < Len(SnapInputs)
       /\ \E p \in SnapInputs[writes + 1], ok \in 0..3 : SnapWrite(p, ok)
    \/ \E ok \in 0..1 : SnapFlush(ok) \/ SnapClose(ok)
    \/ WriterReset \/ ReadChunk
    \/ \E n \in {3, MaxBlockSize} : SnapRead(n)

SnapSpec == SnapInit /\ [][SnapNext]_snapVars

(***************************************************************************)
(* Properties.                                                             *)
(***************************************************************************)

\* However a program cuts its data into calls of Write, Flush, Close and Reset,
\* and wherever the stream breaks: Read returns, in order, only bytes that were
\* written, and all of them once they were flushed and the stream is whole.
SnappyStream ==
    /\ IsPrefix(got \o reader.pending, written)
    /\ reader.err = "nil" /\ chunks = <<>> /\ writer.ibuf = <<>> /\ writer.err # "broken" =>
           got \o reader.pending = written
    /\ reader.err = "corrupt" => writer.err = "broken"
=============================================================================
