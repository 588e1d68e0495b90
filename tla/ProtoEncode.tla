---------------------------- MODULE ProtoEncode ----------------------------
(***************************************************************************)
(* How golang/protobuf/proto writes messages and computes their size:      *)
(* properties.go, encode.go and the map of extensions.go.                  *)
(*                                                                         *)
(* A field's properties p are a record (see Field); the value of a field   *)
(* is a sequence: empty for nil, of length one for a field that is set,    *)
(* any length for a repeated one; that of a map field is a function from   *)
(* keys to such sequences.  A message m has the values m.f of its fields,  *)
(* m.one (its oneof, a sequence of [name, v]), m.ext (its extension map)   *)
(* and m.unrec (XXX_unrecognized).  d is a message type: its fields in     *)
(* tag order, its oneof alternatives, its extension numbers and            *)
(* descriptors, and whether it keeps unknown fields.                       *)
(***************************************************************************)
EXTENDS ProtoWire, FiniteSets

CONSTANTS MaxMarshalSize,  \* maxMarshalSize, 2^31 - 1
          BitmapTags       \* required fields up to this tag are told apart (64)

ASSUME CodecAssumption == MaxMarshalSize \in Nat /\ BitmapTags \in Nat

\* Properties of a field as Parse reads them from a struct tag; def is its default.
Field(name, tag, type, wire, label) ==
    [name |-> name, tag |-> tag, type |-> type, wire |-> wire, label |-> label,
     packed |-> FALSE, proto3 |-> FALSE, oneof |-> FALSE,
     def |-> <<>>, sub |-> <<>>, key |-> <<>>, val |-> <<>>]

Type(fields, oneofs, extRange, exts, unrec) ==
    [fields |-> SortSeq(fields, LAMBDA p, q : p.tag < q.tag), oneofs |-> oneofs,
     extRange |-> extRange, exts |-> exts, unrec |-> unrec]

\* A new struct: proto3 numbers and strings are zero, everything else is nil.
Unset(p) == IF p.proto3 /\ p.label # "rep"
            THEN CASE p.type = "bool" -> <<FALSE>>
                   [] p.type \in {"int32", "uint32", "int64"} -> <<0>>
                   [] p.type = "string" -> << <<>> >>
                   [] OTHER -> <<>>
            ELSE <<>>
New(d) == [f |-> [n \in {d.fields[i].name : i \in DOMAIN d.fields} |->
                     Unset(d.fields[CHOOSE i \in DOMAIN d.fields : d.fields[i].name = n])],
           one |-> <<>>, ext |-> <<>>, unrec |-> <<>>]

(***************************************************************************)
(* Parse and setEncAndDec: the wire type and the coders of numbers.        *)
(***************************************************************************)
WireVarint     == 0
WireFixed64    == 1
WireBytes      == 2
WireStartGroup == 3
WireEndGroup   == 4
WireFixed32    == 5

WireType(p) == CASE p.wire \in {"varint", "zigzag32", "zigzag64"} -> WireVarint
                 [] p.wire = "fixed32" -> WireFixed32
                 [] p.wire = "fixed64" -> WireFixed64
                 [] p.wire \in {"bytes", "group"} -> WireBytes

ValEnc(p, x) == CASE p.wire = "varint"   -> EncodeVarint(x)
                  [] p.wire = "fixed32"  -> EncodeFixed32(x)
                  [] p.wire = "fixed64"  -> EncodeFixed64(x)
                  [] p.wire = "zigzag32" -> EncodeZigzag32(x)
                  [] p.wire = "zigzag64" -> EncodeZigzag64(x)

ValSize(p, x) == CASE p.wire = "varint"   -> SizeVarint(x)
                   [] p.wire = "fixed32"  -> HalfBits \div (GroupBits + 1)
                   [] p.wire = "fixed64"  -> WordBits \div (GroupBits + 1)
                   [] p.wire = "zigzag32" -> SizeVarint(Zigzag(x % Half, Half))
                   [] p.wire = "zigzag64" -> SizeVarint(Zigzag(x, Word))

ValDec(p, buf, i) == CASE p.wire = "varint"   -> DecodeVarint(buf, i)
                       [] p.wire = "fixed32"  -> DecodeFixed32(buf, i)
                       [] p.wire = "fixed64"  -> DecodeFixed64(buf, i)
                       [] p.wire = "zigzag32" -> DecodeZigzag32(buf, i)
                       [] p.wire = "zigzag64" -> DecodeZigzag64(buf, i)

TagCode(p) == EncodeVarint(8 * p.tag + IF p.packed THEN WireBytes ELSE WireType(p))
GroupTag(p, wire) == EncodeVarint(8 * p.tag + wire)

(***************************************************************************)
(* Encoders and sizers: each field operator gives the bytes with an error  *)
(* (enc) and the size (size), which are computed in different ways.  The   *)
(* error "nil" is ErrNil; "required" is the one after which encoding goes  *)
(* on.                                                                     *)
(***************************************************************************)
Bytes(b)  == [buf |-> b, err |-> ""]
Error(e)  == [buf |-> <<>>, err |-> e]
ShouldContinue(e) == e \in {"", "required"}

\* Pieces put together: by halves, which keeps the recursion flat.
FirstHalf(s) == SubSeq(s, 1, Len(s) \div 2)
LastHalf(s)  == SubSeq(s, Len(s) \div 2 + 1, Len(s))
RECURSIVE SumUp(_), Join(_)
SumUp(ns) == CASE Len(ns) = 0 -> 0 [] Len(ns) = 1 -> ns[1] [] OTHER -> SumUp(FirstHalf(ns)) + SumUp(LastHalf(ns))
Join(ss)  == CASE Len(ss) = 0 -> <<>> [] Len(ss) = 1 -> ss[1] [] OTHER -> Join(FirstHalf(ss)) \o Join(LastHalf(ss))

SumOver(s, F(_)) == SumUp([i \in DOMAIN s |-> F(s[i])])
Each(s, F(_))    == Join([i \in DOMAIN s |-> F(s[i])])

\* int32 is sign-extended to a word, uint32 is not; a bool is 0 or 1.
SignExtended(n) == n % Word
AsIs(n)         == n
OfBool(b)       == IF b THEN 1 ELSE 0

\* What is in common to the scalar types: nil, and a proto3 zero, is left out;
\* the sizer counts the zero of a oneof.
Scalar(p, v, zero, bytes, size) ==
    [enc  |-> IF v = <<>> \/ (p.proto3 /\ zero) THEN Error("nil")
              ELSE Bytes(TagCode(p) \o bytes),
     size |-> IF v = <<>> \/ (p.proto3 /\ zero /\ ~p.oneof) THEN 0
              ELSE Len(TagCode(p)) + size]

Bool(p, v) == Scalar(p, v, ~v[1], ValEnc(p, OfBool(v[1])), 1)

Number(p, v, Widen(_)) ==
    LET x == Widen(v[1]) IN Scalar(p, v, x = 0, ValEnc(p, x), ValSize(p, x))

Int32(p, v)  == Number(p, v, SignExtended)
Uint32(p, v) == Number(p, v, AsIs)
Int64(p, v)  == Number(p, v, AsIs)

String(p, v) == Scalar(p, v, v[1] = <<>>, EncodeRawBytes(v[1]), SizeRawBytes(v[1]))

\* []byte: proto2 tells nil from empty, proto3 does not.
SliceByte(p, v) == Scalar(p, v, Len(v[1]) = 0, EncodeRawBytes(v[1]), SizeRawBytes(v[1]))

\* A repeated field, one tag per element, or packed behind one tag: bs has the
\* bytes and ns the size of each element.
Slice(p, bs, ns) ==
    [enc  |-> IF bs = <<>> THEN Error("nil") ELSE Bytes(Each(bs, LAMBDA b : TagCode(p) \o b)),
     size |-> SumOver(ns, LAMBDA n : Len(TagCode(p)) + n)]

Packed(p, bs, ns) ==
    LET n == SumUp(ns) IN
    [enc  |-> IF bs = <<>> THEN Error("nil") ELSE Bytes(TagCode(p) \o EncodeRawBytes(Join(bs))),
     size |-> IF bs = <<>> THEN 0 ELSE Len(TagCode(p)) + SizeVarint(n) + n]

Repeated(p, bs, ns) == IF p.packed THEN Packed(p, bs, ns) ELSE Slice(p, bs, ns)

SliceBool(p, s) ==
    Repeated(p, [i \in DOMAIN s |-> ValEnc(p, OfBool(s[i]))], [i \in DOMAIN s |-> 1])

Numbers(p, s, Widen(_)) ==
    Repeated(p, [i \in DOMAIN s |-> ValEnc(p, Widen(s[i]))], [i \in DOMAIN s |-> ValSize(p, Widen(s[i]))])

SliceInt32(p, s)  == Numbers(p, s, SignExtended)
SliceUint32(p, s) == Numbers(p, s, AsIs)
SliceInt64(p, s)  == Numbers(p, s, AsIs)

\* [][]byte and []string
SliceSliceByte(p, s) ==
    Slice(p, [i \in DOMAIN s |-> EncodeRawBytes(s[i])], [i \in DOMAIN s |-> SizeRawBytes(s[i])])

RECURSIVE StructCode(_, _)

\* enc_len_thing: what e encodes, behind its length.
EncLen(e) == IF ShouldContinue(e.err) THEN [buf |-> EncodeRawBytes(e.buf), err |-> e.err] ELSE e
Tagged(before, e, after) ==
    IF ShouldContinue(e.err) THEN [buf |-> before \o e.buf \o after, err |-> e.err] ELSE e

\* A message behind its length, and one between the tags of a group; c is the
\* code of the struct.
StructMessage(p, c) ==
    [enc  |-> Tagged(TagCode(p), EncLen(c.enc), <<>>),
     size |-> Len(TagCode(p)) + c.size + SizeVarint(c.size)]
StructGroup(p, c) ==
    [enc  |-> Tagged(GroupTag(p, WireStartGroup), c.enc, GroupTag(p, WireEndGroup)),
     size |-> Len(GroupTag(p, WireStartGroup)) + c.size + Len(GroupTag(p, WireEndGroup))]

Wrapped(p, c) == IF p.wire = "bytes" THEN StructMessage(p, c) ELSE StructGroup(p, c)
Struct(p, v)  == IF v = <<>> THEN [enc |-> Error("nil"), size |-> 0]
                 ELSE Wrapped(p, StructCode(p.sub, v[1]))

\* Elements one after the other; a required field that is not set is reported
\* at the end, another error (a nil element) ends the field.
Joined(es) ==
    [enc  |-> IF \E i \in DOMAIN es : ~ShouldContinue(es[i].enc.err) THEN Error("repeated nil")
              ELSE [buf |-> Each(es, LAMBDA e : e.enc.buf),
                    err |-> IF \E i \in DOMAIN es : es[i].enc.err = "required" THEN "required" ELSE ""],
     size |-> SumOver(es, LAMBDA e : e.size)]

SliceStruct(p, s) == Joined([i \in DOMAIN s |-> Struct(p, s[i])])

\* The coders setEncAndDec chooses for a field that is not a slice or a map ...
OfSingle(p, v) ==
    CASE p.type = "bool"   -> Bool(p, v)
      [] p.type = "int32"  -> Int32(p, v)
      [] p.type = "uint32" -> Uint32(p, v)
      [] p.type = "int64"  -> Int64(p, v)
      [] p.type = "string" -> String(p, v)
      [] p.type = "bytes"  -> SliceByte(p, v)
      [] p.type = "struct" -> Struct(p, v)

\* ... and for a slice.
OfSlice(p, s) ==
    CASE p.type = "bool"   -> SliceBool(p, s)
      [] p.type = "int32"  -> SliceInt32(p, s)
      [] p.type = "uint32" -> SliceUint32(p, s)
      [] p.type = "int64"  -> SliceInt64(p, s)
      [] p.type \in {"string", "bytes"} -> SliceSliceByte(p, s)
      [] p.type = "struct" -> SliceStruct(p, s)

\* A map field: entries with key and value as fields 1 and 2, in any order of
\* the keys.  A nil value is left out; a required field that is not set in a
\* value ends the field there.
MapEntry(p, key, val) ==
    StructMessage(p, [enc  |-> IF val.enc.err = "nil" THEN key.enc
                               ELSE Tagged(key.enc.buf, val.enc, <<>>),
                      size |-> key.size + val.size])

\* The entries up to the first that has an error.
Entries(es) ==
    LET bad  == {i \in DOMAIN es : es[i].enc.err # ""}
        stop == CHOOSE i \in bad : \A j \in bad : i <= j
    IN  [enc  |-> IF bad = {} THEN Bytes(Each(es, LAMBDA e : e.enc.buf))
                  ELSE [buf |-> Each(SubSeq(es, 1, stop), LAMBDA e : e.enc.buf),
                        err |-> es[stop].enc.err],
         size |-> SumOver(es, LAMBDA e : e.size)]

NewMap(p, v) ==
    LET keys == SetToSeq(DOMAIN v) IN
    Entries([i \in DOMAIN keys |-> MapEntry(p, OfSingle(p.key, <<keys[i]>>), OfSingle(p.val, v[keys[i]]))])

OfField(p, v) == IF p.type = "map" THEN NewMap(p, v)
                 ELSE IF p.label = "rep" THEN OfSlice(p, v) ELSE OfSingle(p, v)

(***************************************************************************)
(* Extensions: an entry of the extension map has the encoded form enc, or  *)
(* in value (a sequence, empty for nil) what SetExtension or GetExtension  *)
(* has put there, or both.                                                 *)
(***************************************************************************)
ExtProp(d, tag) == d.exts[CHOOSE i \in DOMAIN d.exts : d.exts[i].tag = tag]
OnlyEncoded(e)  == e.value = <<>>
ExtCodes(d, ext) == [t \in {t \in DOMAIN ext : ~OnlyEncoded(ext[t])} |->
                        OfField(ExtProp(d, t), ext[t].value[1])]

\* encodeExtensionsMap: a value is encoded again even if it has been before; one
\* that cannot be encoded ends the work.
WithEncoded(ext, codes) ==
    LET bad == {t \in DOMAIN codes : codes[t].enc.err # ""} IN
    [ext |-> [t \in DOMAIN ext |-> IF t \in DOMAIN codes \ bad
                                   THEN [ext[t] EXCEPT !.enc = codes[t].enc.buf] ELSE ext[t]],
     err |-> IF bad = {} THEN "" ELSE codes[CHOOSE t \in bad : TRUE].enc.err]
EncodeExtensionsMap(d, ext) == WithEncoded(ext, ExtCodes(d, ext))

\* enc_map_body: in the order of their numbers.
EncMapBody(ext) ==
    Each(SetToSortSeq(DOMAIN ext, LAMBDA a, b : a < b), LAMBDA t : ext[t].enc)

\* enc_exts: all extensions, or none of them.
EncExts(ext, codes) ==
    LET e == WithEncoded(ext, codes) IN
    IF e.err # "" THEN Error(e.err) ELSE Bytes(EncMapBody(e.ext))

\* extensionsMapSize
ExtensionsMapSize(ext, codes) ==
    SumOver(SetToSeq(DOMAIN ext),
            LAMBDA t : IF OnlyEncoded(ext[t]) THEN Len(ext[t].enc) ELSE codes[t].size)

(***************************************************************************)
(* enc_struct and size_struct; c has the codes of the fields, the oneof    *)
(* and the extensions of m.                                                *)
(***************************************************************************)

\* The field of a oneof that is set, also if it is zero (generated code).
OneofProp(d, one) == d.oneofs[CHOOSE i \in DOMAIN d.oneofs : d.oneofs[i].name = one.name]
OneofCode(d, one) == OfSingle([OneofProp(d, one) EXCEPT !.proto3 = FALSE], one.v)

\* One field more: nil is skipped, unless the field is required.
EncNext(acc, p, e) ==
    CASE ~ShouldContinue(acc.err) -> acc
      [] ShouldContinue(acc.err) /\ e.err = "nil" ->
             IF p.label = "req" THEN [acc EXCEPT !.err = "required"] ELSE acc
      [] ShouldContinue(acc.err) /\ ShouldContinue(e.err) ->
             [buf |-> acc.buf \o e.buf,
              err |-> IF Len(acc.buf) + Len(e.buf) > MaxMarshalSize THEN "too large"
                      ELSE IF acc.err # "" THEN acc.err ELSE e.err]
      [] OTHER -> e

RECURSIVE EncFields(_, _, _)
EncFields(acc, ps, es) ==
    IF ~ShouldContinue(acc.err) \/ ps = <<>> THEN acc
    ELSE IF Len(ps) = 1 THEN EncNext(acc, ps[1], es[1])
    ELSE EncFields(EncFields(acc, FirstHalf(ps), FirstHalf(es)), LastHalf(ps), LastHalf(es))

\* Extensions have no tag of their own and come first, then the fields in tag
\* order, the oneof, and last what was not recognized.
EncStruct(d, m, c) ==
    LET exts   == EncNext(Bytes(<<>>), [label |-> "opt"], EncExts(m.ext, c.ext))
        fields == EncFields(exts, d.fields, [i \in DOMAIN c.fields |-> c.fields[i].enc])
        oneof  == IF ~ShouldContinue(fields.err) THEN fields
                  ELSE [fields EXCEPT !.buf = @ \o Each(c.one, LAMBDA o : o.enc.buf)]
    IN  IF ~ShouldContinue(oneof.err) THEN oneof
        ELSE IF Len(oneof.buf) + Len(m.unrec) > MaxMarshalSize THEN Error("too large")
        ELSE [oneof EXCEPT !.buf = @ \o m.unrec]

SizeStruct(m, c) ==
    ExtensionsMapSize(m.ext, c.ext) + SumOver(c.fields, LAMBDA e : e.size)
      + Len(m.unrec) + SumOver(c.one, LAMBDA e : e.size)

CodeOf(d, m, c) == [enc |-> EncStruct(d, m, c), size |-> SizeStruct(m, c)]
StructCode(d, m) ==
    CodeOf(d, m, [ext    |-> ExtCodes(d, m.ext),
                  fields |-> [i \in DOMAIN d.fields |-> OfField(d.fields[i], m.f[d.fields[i].name])],
                  one    |-> [i \in DOMAIN m.one |-> OneofCode(d, m.one[i])]])

\* Marshal; Size
Marshal(d, m) == StructCode(d, m).enc
Size(d, m)    == StructCode(d, m).size
=============================================================================
