----------------------------- MODULE ProtoWire -----------------------------
(***************************************************************************)
(* The fundamental encoders and decoders of golang/protobuf/proto          *)
(* (encode.go, decode.go).  A varint has groups of GroupBits bits, a byte  *)
(* one bit more; a word has WordBits bits, a short one HalfBits: 7, 64 and *)
(* 32 in the code.  A decoder takes a buffer and the position of its next  *)
(* byte and returns the value, the position behind it, and an error.       *)
(***************************************************************************)
EXTENDS Integers, Sequences, SequencesExt

CONSTANTS GroupBits, WordBits, HalfBits

ASSUME WireAssumption ==
    /\ GroupBits \in Nat \ {0} /\ WordBits \in Nat /\ HalfBits \in 1..WordBits
    /\ WordBits % (GroupBits + 1) = 0 /\ HalfBits % (GroupBits + 1) = 0

Group   == 2^GroupBits
ByteVal == 2 * Group
Word    == 2^WordBits
Half    == 2^HalfBits

\* The most bytes a varint has: maxVarintBytes.
MaxVarintBytes == (WordBits + GroupBits - 1) \div GroupBits

Got(x, i)    == [x |-> x, i |-> i, err |-> ""]
Fails(i, e)  == [x |-> 0, i |-> i, err |-> e]

RECURSIVE EncodeVarint(_)
EncodeVarint(x) ==
    IF x < Group THEN <<x>>
    ELSE <<Group + (x % Group)>> \o EncodeVarint(x \div Group)

\* The size of a number that fills its groups is one too small.
FaultySizeVarint(x) == Cardinality({n \in 1..MaxVarintBytes : n = 1 \/ x > Group^(n - 1)})

\* sizeVarint counts the shifts until nothing is left.
SizeVarint(x) == Cardinality({n \in 1..MaxVarintBytes : n = 1 \/ x >= Group^(n - 1)})

EncodeFixed(x, bits) ==
    [k \in 1..(bits \div (GroupBits + 1)) |-> (x \div ByteVal^(k - 1)) % ByteVal]

EncodeFixed64(x) == EncodeFixed(x, WordBits)
EncodeFixed32(x) == EncodeFixed(x % Half, HalfBits)

\* (x << 1) ^ (x >> top), with the arithmetic shift of a word of n values.
Zigzag(x, n) == IF x < n \div 2 THEN 2 * x ELSE n - 1 - ((2 * x) % n)

EncodeZigzag64(x) == EncodeVarint(Zigzag(x, Word))
EncodeZigzag32(x) == EncodeVarint(Zigzag(x % Half, Half))

EncodeRawBytes(b) == EncodeVarint(Len(b)) \o b
SizeRawBytes(b)   == SizeVarint(Len(b)) + Len(b)

(***************************************************************************)
(* Decoders.                                                               *)
(***************************************************************************)

RECURSIVE VarintFrom(_, _, _, _, _)
\* The loop of decodeVarintSlow, which began at i and is at j: bits that do not fit
\* the word are dropped.
VarintFrom(buf, i, j, shift, x) ==
    IF shift >= WordBits THEN Fails(i, "overflow")
    ELSE IF j > Len(buf) THEN Fails(i, "EOF")
    ELSE LET y == (x + (buf[j] % Group) * 2^shift) % Word IN
         IF buf[j] < Group THEN Got(y, j + 1)
         ELSE VarintFrom(buf, i, j + 1, shift + GroupBits, y)

DecodeVarintSlow(buf, i) == VarintFrom(buf, i, i, 0, 0)

\* DecodeVarint without bounds checks: adds whole bytes and takes the
\* continuation bit off again.
DecodeVarintFast(buf, i) ==
    LET byte(k) == buf[i + k]
        sum[k \in 0..MaxVarintBytes - 1] ==
            (IF k = 0 THEN 0 ELSE sum[k-1] - Group * 2^(GroupBits * (k - 1)))
               + byte(k) * 2^(GroupBits * k)
        ends == {k \in 0..MaxVarintBytes - 1 : byte(k) < Group}
    IN  IF ends = {} THEN Fails(i, "overflow")
        ELSE LET k == CHOOSE k \in ends : \A j \in ends : k <= j
             IN  Got(sum[k] % Word, i + k + 1)

DecodeVarint(buf, i) ==
    IF i > Len(buf) THEN Fails(i, "EOF")
    ELSE IF buf[i] < Group THEN Got(buf[i], i + 1)
    ELSE IF Len(buf) - i + 1 < MaxVarintBytes THEN DecodeVarintSlow(buf, i)
    ELSE DecodeVarintFast(buf, i)

DecodeFixed(buf, i, bits) ==
    LET n == bits \div (GroupBits + 1)
        upTo[k \in 0..n] == IF k = 0 THEN 0 ELSE upTo[k-1] + buf[i + k - 1] * ByteVal^(k - 1)
    IN  IF i + n - 1 > Len(buf) THEN Fails(i, "EOF") ELSE Got(upTo[n], i + n)

DecodeFixed64(buf, i) == DecodeFixed(buf, i, WordBits)
DecodeFixed32(buf, i) == DecodeFixed(buf, i, HalfBits)

\* (x >> 1) ^ -(x & 1)
Unzigzag(x, n) == IF x % 2 = 0 THEN x \div 2 ELSE n - 1 - x \div 2

Unzigzagged(r, n) == IF r.err # "" THEN r ELSE Got(Unzigzag(r.x % n, n), r.i)
DecodeZigzag64(buf, i) == Unzigzagged(DecodeVarint(buf, i), Word)
DecodeZigzag32(buf, i) == Unzigzagged(DecodeVarint(buf, i), Half)

\* The bytes behind the length r.x; one with the sign bit set is a bad one.
BytesBehind(buf, r) ==
    IF r.err # "" THEN [x |-> <<>>, i |-> r.i, err |-> r.err]
    ELSE IF r.x >= Word \div 2 THEN [x |-> <<>>, i |-> r.i, err |-> "length"]
    ELSE IF r.i + r.x - 1 > Len(buf) THEN [x |-> <<>>, i |-> r.i, err |-> "EOF"]
    ELSE [x |-> SubSeq(buf, r.i, r.i + r.x - 1), i |-> r.i + r.x, err |-> ""]
DecodeRawBytes(buf, i) == BytesBehind(buf, DecodeVarint(buf, i))
=============================================================================
