---------------------------- MODULE ProtoDecode ----------------------------
(***************************************************************************)
(* How golang/protobuf/proto reads messages (decode.go).  A decoder takes  *)
(* the buffer, the position and the value the field has, and returns the   *)
(* new value (v), the position behind what was read (i) and an error.      *)
(***************************************************************************)
EXTENDS ProtoEncode

RECURSIVE UnmarshalType(_, _, _, _, _), Skip(_, _, _), SkipGroup(_, _)

Now(v, i, err) == [v |-> v, i |-> i, err |-> err]

\* What a field of p's type keeps of a word.
Narrow(p, x) == CASE p.type = "bool"   -> x # 0
                  [] p.type = "uint32" -> x % Half
                  [] p.type = "int32"  -> IF x % Half < Half \div 2 THEN x % Half
                                          ELSE (x % Half) - Half
                  [] OTHER -> x

\* A field with the value old after r was read: what Keep makes of r.x.
After(r, old, Keep(_)) == IF r.err # "" THEN Now(old, r.i, r.err) ELSE Now(Keep(r.x), r.i, "")

\* dec_bool, dec_int32, dec_int64 and their proto3 forms.
DecNumber(p, buf, i, old) == After(ValDec(p, buf, i), old, LAMBDA x : <<Narrow(p, x)>>)

\* dec_string and dec_slice_byte.
DecString(p, buf, i, old) == After(DecodeRawBytes(buf, i), old, LAMBDA x : <<x>>)

\* dec_slice_bool and the other numbers: one more element.
DecSliceNumber(p, buf, i, old) ==
    After(ValDec(p, buf, i), old, LAMBDA x : Append(old, Narrow(p, x)))

\* dec_slice_string, dec_slice_slice_byte.
DecSliceString(p, buf, i, old) == After(DecodeRawBytes(buf, i), old, LAMBDA x : Append(old, x))

\* The loop of the packed decoders: up to fin, or beyond it with the last number.
RECURSIVE PackedTo(_, _, _, _)
PackedTo(p, buf, fin, r) ==
    IF r.err # "" \/ r.i >= fin THEN r
    ELSE PackedTo(p, buf, fin, DecSliceNumber(p, buf, r.i, r.v))

\* The numbers behind the length n; those of bool are assigned all together.
AllOrOld(p, r, old) == IF r.err # "" /\ p.type = "bool" THEN Now(old, r.i, r.err) ELSE r
PackedBehind(p, buf, n, old) ==
    IF n.err # "" THEN Now(old, n.i, n.err)
    ELSE IF n.x >= Word \div 2 THEN Now(old, n.i, "overflow")
    ELSE AllOrOld(p, PackedTo(p, buf, n.i + n.x, Now(old, n.i, "")), old)
DecPacked(p, buf, i, old) == PackedBehind(p, buf, DecodeVarint(buf, i), old)

\* dec_struct_message and dec_struct_group: into the message that is there, or
\* a new one.  A message has a buffer of its own (raw.x), a group is read where it
\* is; r is the result.
IsGroup(p) == p.wire = "group"
Embedded(p, raw, r) == Now(<<r.m>>, IF IsGroup(p) THEN r.i ELSE raw.i, r.err)
StructIn(p, raw, old) ==
    IF raw.err # "" THEN Now(old, raw.i, raw.err)
    ELSE Embedded(p, raw, UnmarshalType(p.sub, raw.x, IF IsGroup(p) THEN raw.i ELSE 1, IsGroup(p),
                                        IF old = <<>> THEN New(p.sub) ELSE old[1]))
DecStruct(p, buf, i, old) ==
    StructIn(p, IF IsGroup(p) THEN Got(buf, i) ELSE DecodeRawBytes(buf, i), old)

\* dec_slice_struct: a new element for each occurrence.
AppendStruct(p, r, old) == Now(Append(old, IF r.v = <<>> THEN <<New(p.sub)>> ELSE r.v), r.i, r.err)
DecSliceStruct(p, buf, i, old) == AppendStruct(p, DecStruct(p, buf, i, <<>>), old)

\* Decoders for a key or value that is not a slice or map.
DecSingle(p, buf, i, old) ==
    CASE p.type \in {"string", "bytes"} -> DecString(p, buf, i, old)
      [] p.type = "struct" -> DecStruct(p, buf, i, old)
      [] OTHER -> DecNumber(p, buf, i, old)

\* The loop of dec_new_map over an entry that ends before position fin: e has the
\* key and the value (val) read so far.
EntryAt(i) == [key |-> <<>>, val |-> <<>>, i |-> i, err |-> ""]
HavingRead(e, part, r) == [e EXCEPT ![part] = r.v, !.i = r.i, !.err = r.err]
RECURSIVE EntryTo(_, _, _, _)
EntryTo(p, buf, fin, e) ==
    LET parts == {x \in {"key", "val"} : buf[e.i] = TagCode(p[x])[1]}
        part  == CHOOSE x \in parts : TRUE
    IN  CASE e.err # "" \/ e.i >= fin -> e
          [] e.err = "" /\ e.i < fin /\ parts = {} -> [e EXCEPT !.i = @ + 1, !.err = "map tag"]
          [] OTHER -> EntryTo(p, buf, fin,
                              HavingRead(e, part, DecSingle(p[part], buf, e.i + 1, e[part])))

\* A key that is missing is zero, and so is a value that is a number or string.
ZeroOf(p) == Unset([p EXCEPT !.proto3 = TRUE, !.label = "opt"])

\* The map old with the entry e.
PutEntry(p, e, old) ==
    LET k == IF e.key = <<>> THEN ZeroOf(p.key)[1] ELSE e.key[1]
        v == IF e.val = <<>> THEN ZeroOf(p.val) ELSE e.val
    IN  IF e.err # "" THEN Now(old, e.i, e.err)
        ELSE Now([x \in DOMAIN old \cup {k} |-> IF x = k THEN v ELSE old[x]], e.i, "")

EntryIn(p, buf, raw, old) ==
    IF raw.err # "" THEN Now(old, raw.i, raw.err)
    ELSE PutEntry(p, EntryTo(p, buf, raw.i, EntryAt(raw.i - Len(raw.x))), old)
DecNewMap(p, buf, i, old) == EntryIn(p, buf, DecodeRawBytes(buf, i), old)

\* Decoders for an element of a slice.
DecSlice(p, buf, i, old) ==
    CASE p.type \in {"string", "bytes"} -> DecSliceString(p, buf, i, old)
      [] p.type = "struct" -> DecSliceStruct(p, buf, i, old)
      [] OTHER -> DecSliceNumber(p, buf, i, old)

\* The decoder setEncAndDec chooses; packed is its packedDec.
DecField(p, buf, i, old, packed) ==
    CASE packed -> DecPacked(p, buf, i, old)
      [] ~packed /\ p.type = "map" -> DecNewMap(p, buf, i, old)
      [] ~packed /\ p.type # "map" /\ p.label = "rep" -> DecSlice(p, buf, i, old)
      [] OTHER -> DecSingle(p, buf, i, old)

Packable(p) == p.label = "rep" /\ p.type \in {"bool", "int32", "uint32", "int64"}

(***************************************************************************)
(* Unknown fields.                                                         *)
(***************************************************************************)

\* skip: the position behind an item of the given wire type.
Skip(buf, i, wire) ==
    CASE wire = WireVarint     -> DecodeVarint(buf, i)
      [] wire = WireFixed64    -> DecodeFixed64(buf, i)
      [] wire = WireBytes      -> DecodeRawBytes(buf, i)
      [] wire = WireFixed32    -> DecodeFixed32(buf, i)
      [] wire = WireStartGroup -> SkipGroup(buf, i)
      [] OTHER -> Fails(i, "wire type")

\* Items up to the one that ends the group; u is a tag, r what it stood before.
NextInGroup(buf, r) == IF r.err # "" THEN r ELSE SkipGroup(buf, r.i)
SkipItem(buf, u) == IF u.err # "" \/ u.x % 8 = WireEndGroup THEN u
                    ELSE NextInGroup(buf, Skip(buf, u.i, u.x % 8))
SkipGroup(buf, i) == SkipItem(buf, DecodeVarint(buf, i))

\* The message after r was skipped, with the tag and the bytes in XXX_unrecognized.
Saved(d, m, tag, buf, i, r) ==
    [m |-> IF r.err = "" /\ d.unrec
           THEN [m EXCEPT !.unrec = @ \o tag \o SubSeq(buf, i, r.i - 1)] ELSE m,
     i |-> r.i, err |-> r.err]

\* The tag of an unknown field is not saved with its bytes.
FaultySkipAndSave(d, m, buf, i, u) == Saved(d, m, <<>>, buf, i, Skip(buf, i, u % 8))

\* skipAndSave: the tag is written again, in front of the bytes.
SkipAndSave(d, m, buf, i, u) == Saved(d, m, EncodeVarint(u), buf, i, Skip(buf, i, u % 8))

NoExtension == [enc |-> <<>>, value |-> <<>>]

\* An extension's bytes, with the tag at position from, are added to those that
\* are there.
SaveExtension(m, tag, buf, from, r) ==
    LET old == IF tag \in DOMAIN m.ext THEN m.ext[tag] ELSE NoExtension
        new == [old EXCEPT !.enc = @ \o SubSeq(buf, from, r.i - 1)]
    IN  [m |-> IF r.err # "" THEN m
               ELSE [m EXCEPT !.ext = [t \in DOMAIN m.ext \cup {tag} |->
                                          IF t = tag THEN new ELSE m.ext[t]]],
         i |-> r.i, err |-> r.err]

\* The generated oneof decoder: a wrong wire type is an error.
SetOneof(p, m, r) ==
    [m |-> IF r.err # "" THEN m ELSE [m EXCEPT !.one = <<[name |-> p.name, v |-> r.v]>>],
     i |-> r.i, err |-> r.err]
DecOneof(p, m, buf, i, wire) ==
    IF wire # WireType(p) THEN [m |-> m, i |-> i, err |-> "wire type"]
    ELSE SetOneof(p, m, DecSingle(p, buf, i, <<>>))

(***************************************************************************)
(* unmarshalType: s has the message, the position, the first "required"    *)
(* error of an embedded message, and the required fields that are missing. *)
(***************************************************************************)
Known(d, tag)  == \E k \in DOMAIN d.fields : d.fields[k].tag = tag
PropOf(ps, tag) == ps[CHOOSE k \in DOMAIN ps : ps[k].tag = tag]
Ends(s, err)   == [m |-> s.m, i |-> s.i, err |-> err]

\* A required field was decoded: the bitmap catches one that comes twice, but
\* only for small tags.
Counted(s, p) ==
    IF p.label # "req" \/ p.tag \in s.reqFields THEN s
    ELSE [s EXCEPT !.required = @ - 1,
                   !.reqFields = IF p.tag <= BitmapTags THEN @ \cup {p.tag} ELSE @]

RECURSIVE FieldsFrom(_, _, _, _)

\* The field p at position i, or an error; s.i is the tag's position.
FieldDecoded(d, buf, isGroup, s, p, r) ==
    LET next == [s EXCEPT !.m.f[p.name] = r.v, !.i = r.i, !.err = IF @ = "" THEN r.err ELSE @]
    IN  IF ~ShouldContinue(r.err) THEN Ends(next, r.err)
        ELSE FieldsFrom(d, buf, isGroup, Counted(next, p))
KnownField(d, buf, isGroup, s, p, i, wire) ==
    LET packed == wire # WireStartGroup /\ wire # WireType(p)
    IN  IF packed /\ ~(wire = WireBytes /\ Packable(p)) THEN Ends([s EXCEPT !.i = i], "wire type")
        ELSE FieldDecoded(d, buf, isGroup, s, p, DecField(p, buf, i, s.m.f[p.name], packed))

\* An extension, a oneof, or a field this type does not have.
OtherDecoded(d, buf, isGroup, s, r) ==
    LET next == [s EXCEPT !.m = r.m, !.i = r.i] IN
    IF r.err # "" THEN Ends(next, r.err) ELSE FieldsFrom(d, buf, isGroup, next)
OtherField(d, buf, isGroup, s, u, i) ==
    LET tag == u \div 8 IN
    OtherDecoded(d, buf, isGroup, s,
        CASE tag \in d.extRange -> SaveExtension(s.m, tag, buf, s.i, Skip(buf, i, u % 8))
          [] tag \notin d.extRange /\ \E k \in DOMAIN d.oneofs : d.oneofs[k].tag = tag ->
                 DecOneof(PropOf(d.oneofs, tag), s.m, buf, i, u % 8)
          [] OTHER -> SkipAndSave(d, s.m, buf, i, u))

\* The tag u was read.  At the end of a group an error of an embedded message is
\* forgotten.
FieldAt(d, buf, isGroup, s, u) ==
    LET tag == u.x \div 8
    IN  CASE u.err # "" -> Ends(s, u.err)
          [] u.err = "" /\ u.x % 8 = WireEndGroup ->
                 Ends([s EXCEPT !.i = u.i],
                      IF ~isGroup THEN "end group"
                      ELSE IF s.required > 0 THEN "required" ELSE "")
          [] u.err = "" /\ u.x % 8 # WireEndGroup /\ tag = 0 -> Ends(s, "tag")
          [] u.err = "" /\ u.x % 8 # WireEndGroup /\ tag # 0 /\ Known(d, tag) ->
                 KnownField(d, buf, isGroup, s, PropOf(d.fields, tag), u.i, u.x % 8)
          [] OTHER -> OtherField(d, buf, isGroup, s, u.x, u.i)

FieldsFrom(d, buf, isGroup, s) ==
    IF s.i > Len(buf)
    THEN Ends(s, IF isGroup THEN "EOF"
                 ELSE IF s.err # "" \/ s.required > 0 THEN "required" ELSE "")
    ELSE FieldAt(d, buf, isGroup, s, DecodeVarint(buf, s.i))

UnmarshalType(d, buf, i, isGroup, m) ==
    FieldsFrom(d, buf, isGroup,
               [m |-> m, i |-> i, err |-> "", reqFields |-> {},
                required |-> Cardinality({k \in DOMAIN d.fields : d.fields[k].label = "req"})])

UnmarshalMerge(d, buf, m) == UnmarshalType(d, buf, 1, FALSE, m)
Unmarshal(d, buf)         == UnmarshalMerge(d, buf, New(d))
=============================================================================
