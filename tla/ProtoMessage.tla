---------------------------- MODULE ProtoMessage ----------------------------
(***************************************************************************)
(* What a program does with a message besides sending it: Clone and Merge  *)
(* (clone.go), Equal (equal.go), SetDefaults (lib.go), the extension calls *)
(* (extensions.go) and message sets (message_set.go), all of package       *)
(* golang/protobuf/proto.  Values are those of ProtoEncode.                *)
(***************************************************************************)
EXTENDS ProtoDecode

FieldNames(d) == {d.fields[i].name : i \in DOMAIN d.fields}
FieldNamed(d, n) == d.fields[CHOOSE i \in DOMAIN d.fields : d.fields[i].name = n]

(***************************************************************************)
(* Clone and Merge.                                                        *)
(***************************************************************************)
RECURSIVE MergeStruct(_, _, _)

\* isProto3Zero, for the value of a field that is no pointer.
IsProto3Zero(p, x) == CASE p.type = "bool" -> ~x
                        [] p.type \in {"int32", "uint32", "int64"} -> x = 0
                        [] p.type \in {"string", "bytes"} -> x = <<>>
                        [] OTHER -> FALSE

\* A map's entries replace those of the destination; a nil message is copied as
\* an empty one.
MergeMap(p, out, in) ==
    [k \in DOMAIN out \cup DOMAIN in |->
        IF k \notin DOMAIN in THEN out[k]
        ELSE IF p.val.type # "struct" THEN in[k]
        ELSE <<IF in[k] = <<>> THEN New(p.val.sub) ELSE MergeStruct(p.val.sub, New(p.val.sub), in[k][1])>>]

\* mergeAny for a field: repeated ones are appended, messages merged, and
\* others replaced if they are set.
MergeAny(p, out, in) ==
    CASE p.type = "map" -> MergeMap(p, out, in)
      [] p.type # "map" /\ p.label = "rep" -> out \o in
      [] p.type = "struct" /\ p.label # "rep" ->
             IF in = <<>> THEN out
             ELSE <<MergeStruct(p.sub, IF out = <<>> THEN New(p.sub) ELSE out[1], in[1])>>
      [] OTHER -> IF in = <<>> \/ (p.proto3 /\ IsProto3Zero(p, in[1])) THEN out ELSE in

\* The wrapper of a oneof is replaced by one of the source's type, and its field
\* is merged like that of a proto3 message: a zero does not replace what is there.
MergeOneof(d, out, in) ==
    IF in = <<>> THEN out
    ELSE IF out # <<>> /\ out[1].name = in[1].name /\ IsProto3Zero(OneofProp(d, in[1]), in[1].v[1])
         THEN out ELSE in

\* mergeExtension: a copy of each entry of the source.
MergeExtension(out, in) == in @@ out

MergeStruct(d, out, in) ==
    [f     |-> [n \in FieldNames(d) |-> MergeAny(FieldNamed(d, n), out.f[n], in.f[n])],
     one   |-> MergeOneof(d, out.one, in.one),
     ext   |-> MergeExtension(out.ext, in.ext),
     unrec |-> IF in.unrec = <<>> THEN out.unrec ELSE in.unrec]

Merge(d, dst, src) == MergeStruct(d, dst, src)
Clone(d, m)        == MergeStruct(d, New(d), m)

(***************************************************************************)
(* Extensions.                                                             *)
(***************************************************************************)

\* decodeExtension: every occurrence is read with the decoder of a field that is
\* not packed, whatever wire type its tag has.
RECURSIVE ExtensionFrom(_, _, _, _)
Onwards(p, enc, r) == IF r.err # "" \/ r.i > Len(enc) THEN r
                      ELSE ExtensionFrom(p, enc, r.v, DecodeVarint(enc, r.i))
ExtensionFrom(p, enc, v, u) ==
    IF u.err # "" THEN Now(v, u.i, u.err) ELSE Onwards(p, enc, DecField(p, enc, u.i, v, FALSE))

DecodeExtension(p, enc) == ExtensionFrom(p, enc, <<>>, DecodeVarint(enc, 1))

\* Calls: the message afterwards, the value (a field's, in a sequence that is
\* empty for nil) and an error.
Result(m, v, err) == [m |-> m, v |-> v, err |-> err]

\* defaultExtensionValue
DefaultExtensionValue(p) == [v |-> p.def, err |-> IF p.def = <<>> THEN "missing" ELSE ""]

HasExtension(m, tag) == tag \in DOMAIN m.ext

\* GetExtension keeps the decoded value and drops the encoded form.
KeepDecoded(m, tag, r) ==
    IF r.err # "" THEN Result(m, <<>>, r.err)
    ELSE Result([m EXCEPT !.ext[tag] = [enc |-> <<>>, value |-> <<r.v>>]], <<r.v>>, "")
GetExtension(d, m, tag) ==
    CASE tag \notin d.extRange -> Result(m, <<>>, "range")
      [] tag \in d.extRange /\ ~HasExtension(m, tag) ->
             LET def == DefaultExtensionValue(ExtProp(d, tag)) IN Result(m, def.v, def.err)
      [] HasExtension(m, tag) /\ ~OnlyEncoded(m.ext[tag]) -> Result(m, m.ext[tag].value, "")
      [] OTHER -> KeepDecoded(m, tag, DecodeExtension(ExtProp(d, tag), m.ext[tag].enc))

\* A field's value that is nil is refused; an empty slice is not.
SetExtension(d, m, tag, value) ==
    IF tag \notin d.extRange THEN Result(m, <<>>, "range")
    ELSE IF value = <<>> THEN Result(m, <<>>, "nil")
    ELSE Result([m EXCEPT !.ext = (tag :> [enc |-> <<>>, value |-> value]) @@ @], <<>>, "")

ClearExtension(m, tag)  == [m EXCEPT !.ext = [t \in DOMAIN @ \ {tag} |-> @[t]]]
ClearAllExtensions(m)   == [m EXCEPT !.ext = <<>>]

(***************************************************************************)
(* Equal.                                                                  *)
(***************************************************************************)
RECURSIVE EqualStruct(_, _, _)

EqualPtr(p, x, y) == /\ (x = <<>>) = (y = <<>>)
                     /\ x # <<>> => IF p.type = "struct" THEN EqualStruct(p.sub, x[1], y[1])
                                    ELSE x[1] = y[1]

\* equalAny: nil and empty bytes differ unless the field is a proto3 one.
EqualAny(p, x, y) ==
    CASE p.type = "map" -> /\ Cardinality(DOMAIN x) = Cardinality(DOMAIN y)
                           /\ \A k \in DOMAIN x : k \in DOMAIN y /\ EqualPtr(p.val, x[k], y[k])
      [] p.type # "map" /\ p.label = "rep" ->
             /\ Len(x) = Len(y)
             /\ \A i \in DOMAIN x : IF p.type = "struct" THEN EqualPtr(p, x[i], y[i]) ELSE x[i] = y[i]
      [] p.type = "bytes" /\ p.label # "rep" /\ p.proto3 /\ x \in {<<>>, << <<>> >>} -> y \in {<<>>, << <<>> >>}
      [] OTHER -> EqualPtr(p, x, y)

\* equalExtMap: what is only encoded is decoded first.
ExtensionValue(p, e) == IF OnlyEncoded(e) THEN DecodeExtension(p, e.enc) ELSE Now(e.value[1], 0, "")
EqualValues(p, r1, r2) == r1.err = "" /\ r2.err = "" /\ EqualAny(p, r1.v, r2.v)
EqualExtension(p, e1, e2) == EqualValues(p, ExtensionValue(p, e1), ExtensionValue(p, e2))
EqualExtMap(d, x, y) ==
    /\ Cardinality(DOMAIN x) = Cardinality(DOMAIN y)
    /\ \A t \in DOMAIN x : t \in DOMAIN y /\ EqualExtension(ExtProp(d, t), x[t], y[t])

EqualOneof(d, x, y) == /\ (x = <<>>) = (y = <<>>)
                       /\ x # <<>> => x[1].name = y[1].name /\ x[1].v = y[1].v

EqualStruct(d, x, y) ==
    /\ \A n \in FieldNames(d) : EqualAny(FieldNamed(d, n), x.f[n], y.f[n])
    /\ EqualOneof(d, x.one, y.one)
    /\ EqualExtMap(d, x.ext, y.ext)
    /\ x.unrec = y.unrec

Equal(d, x, y) == EqualStruct(d, x, y)

(***************************************************************************)
(* SetDefaults.                                                            *)
(***************************************************************************)
RECURSIVE SetDefaults(_, _)

\* fieldDefault: only a proto2 scalar, or bytes, can have a default.
CanHaveDefault(p) == /\ p.label # "rep" /\ p.type \notin {"struct", "map"}
                     /\ p.proto3 => p.type = "bytes"

\* A message anywhere below the field gets the defaults of its own fields.
Nested(d, v) == IF v = <<>> THEN v ELSE <<SetDefaults(d, v[1])>>
WithDefault(p, v) ==
    CASE CanHaveDefault(p) -> IF v = <<>> THEN p.def ELSE v
      [] p.type = "struct" /\ p.label # "rep" -> Nested(p.sub, v)
      [] p.type = "struct" /\ p.label = "rep" -> [i \in DOMAIN v |-> Nested(p.sub, v[i])]
      [] p.type = "map" /\ p.val.type = "struct" -> [k \in DOMAIN v |-> Nested(p.val.sub, v[k])]
      [] OTHER -> v

SetDefaults(d, m) == [m EXCEPT !.f = [n \in DOMAIN @ |-> WithDefault(FieldNamed(d, n), @[n])]]

(***************************************************************************)
(* Message sets: the extensions of a message, each in a group of its own.  *)
(***************************************************************************)
ItemType == Type(<<Field("type_id", 2, "int32", "varint", "req"),
                   Field("message", 3, "bytes", "bytes", "req")>>, <<>>, {}, <<>>, FALSE)
MessageSet == Type(<<[Field("item", 1, "struct", "group", "rep") EXCEPT !.sub = ItemType]>>,
                   <<>>, {}, <<>>, TRUE)

SkipVarint(buf) ==
    LET i == CHOOSE i \in DOMAIN buf : buf[i] < Group /\ \A j \in 1..i - 1 : buf[j] >= Group
    IN  SubSeq(buf, i + 1, Len(buf))

Item(id, msg) == <<[New(ItemType) EXCEPT !.f = [type_id |-> <<id>>, message |-> <<msg>>]]>>

InItems(e) ==
    LET ids == SetToSortSeq(DOMAIN e.ext, LAMBDA a, b : a < b)
        items == [i \in DOMAIN ids |-> Item(ids[i], SkipVarint(SkipVarint(e.ext[ids[i]].enc)))]
    IN  IF e.err # "" THEN Error(e.err)
        ELSE Marshal(MessageSet, [New(MessageSet) EXCEPT !.f["item"] = items])
MarshalMessageSet(d, ext) == InItems(EncodeExtensionsMap(d, ext))

\* A second item of a type takes the place of the first.
FaultyAddItem(ext, item) ==
    LET id == item[1].f["type_id"][1]
        b  == EncodeVarint(8 * id + WireBytes) \o EncodeRawBytes(item[1].f["message"][1])
    IN  (id :> [enc |-> b, value |-> <<>>]) @@ ext

\* Items of one type are joined behind one tag and length.
AddItem(ext, item) ==
    LET id  == item[1].f["type_id"][1]
        msg == item[1].f["message"][1]
        all == IF id \in DOMAIN ext THEN SkipVarint(SkipVarint(ext[id].enc)) \o msg ELSE msg
        b   == EncodeVarint(8 * id + WireBytes) \o EncodeRawBytes(all)
    IN  (id :> [enc |-> b, value |-> <<>>]) @@ ext

AddItems(ext, r) ==
    [ext |-> IF r.err # "" THEN ext ELSE FoldLeft(AddItem, ext, r.m.f["item"]), err |-> r.err]
UnmarshalMessageSet(buf, ext) == AddItems(ext, Unmarshal(MessageSet, buf))
=============================================================================
