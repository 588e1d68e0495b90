----------------------------- MODULE ProtoJson -----------------------------
(***************************************************************************)
(* The JSON format of golang/protobuf/jsonpb.  A JSON value is a tree: an  *)
(* object has its members under the field's original (.proto) or its JSON  *)
(* name, extensions under their names in brackets, and the entries of a    *)
(* map under their quoted keys.  encoding/json, which writes and reads     *)
(* numbers, strings and base64, is external.  Well-known types and enums   *)
(* are left out.                                                           *)
(***************************************************************************)
EXTENDS ProtoText

Null       == [null |-> TRUE]
JNumber(n) == [number |-> n]
JString(s) == [string |-> s]
JDigits(n) == [digits |-> n]       \* a number in quotes
JBytes(b)  == [base64 |-> b]
JBool(b)   == [bool |-> b]
JList(s)   == [list |-> s]
JMap(f)    == [entries |-> f]
JObject(members, exts) == [members |-> members, exts |-> exts]
IsNull(j)  == j = Null

\* The options of a Marshaler: EmitDefaults and OrigName.
Options == [emitDefaults : BOOLEAN, origName : BOOLEAN]
JSONName(o, p) == <<IF o.origName THEN "orig" ELSE "json", p.name>>

(***************************************************************************)
(* Marshaler.                                                              *)
(***************************************************************************)
RECURSIVE MarshalObject(_, _, _)

\* Integers of 64 bits are quoted.
FaultyMarshalScalar(p, x) ==
    CASE p.type = "bool"   -> JBool(x)
      [] p.type = "int64"  -> JNumber(x % Half)
      [] p.type = "string" -> JString(x)
      [] p.type = "bytes"  -> JBytes(x)
      [] OTHER -> JNumber(x)

MarshalScalar(p, x) ==
    CASE p.type = "bool"   -> JBool(x)
      [] p.type = "int64"  -> JDigits(x)
      [] p.type = "string" -> JString(x)
      [] p.type = "bytes"  -> JBytes(x)
      [] OTHER -> JNumber(x)

MarshalOne(o, p, v) == IF v = <<>> THEN Null
                       ELSE IF p.type = "struct" THEN MarshalObject(o, p.sub, v[1])
                       ELSE MarshalScalar(p, v[1])

MarshalValue(o, p, v) ==
    CASE p.type = "map" -> JMap([k \in DOMAIN v |-> MarshalOne(o, p.val, v[k])])
      [] p.type # "map" /\ p.label = "rep" ->
             JList([i \in DOMAIN v |-> MarshalOne(o, p, IF p.type = "struct" THEN v[i] ELSE <<v[i]>>)])
      [] OTHER -> MarshalOne(o, p, v)

\* What is nil or a proto3 zero is left out, unless EmitDefaults.
Emitted(o, p, v) == \/ o.emitDefaults
                    \/ v # <<>> /\ ~(p.proto3 /\ p.label # "rep" /\ IsProto3Zero(p, v[1]))

MarshalObject(o, d, m) ==
    LET emitted == {n \in FieldNames(d) : Emitted(o, FieldNamed(d, n), m.f[n])}
        name(n)  == JSONName(o, FieldNamed(d, n))
        one      == OneofProp(d, m.one[1])
    IN  JObject([x \in {name(n) : n \in emitted} |->
                    MarshalValue(o, FieldNamed(d, x[2]), m.f[x[2]])]
                  @@ (IF m.one = <<>> THEN <<>>
                      ELSE JSONName(o, one) :> MarshalOne(o, one, m.one[1].v)),
                [t \in DOMAIN m.ext |->
                    MarshalValue(o, ExtProp(d, t), GetExtension(d, m, t).v[1])])

JsonMarshal(o, d, m) == MarshalObject(o, d, m)

(***************************************************************************)
(* Unmarshaler: a value and an error.                                      *)
(***************************************************************************)
RECURSIVE UnmarshalObject(_, _)

Read(v, err) == [v |-> v, err |-> err]
FirstError(errs) == IF errs \subseteq {""} THEN "" ELSE CHOOSE e \in errs : e # ""

\* encoding/json: null leaves the (new) value zero, and numbers must fit.
UnmarshalScalar(p, j) ==
    CASE IsNull(j) -> Read(IF p.type = "bytes" THEN <<>> ELSE ZeroOf(p), "")
      [] p.type = "bool" /\ IsA(j, "bool") -> Read(<<j.bool>>, "")
      [] p.type = "string" /\ IsA(j, "string") -> Read(<<j.string>>, "")
      [] p.type = "bytes" /\ IsA(j, "base64") -> Read(<<j.base64>>, "")
      [] p.type = "int64" /\ IsA(j, "digits") -> Read(<<j.digits>>, "")
      [] p.type \in {"int32", "uint32", "int64"} /\ IsA(j, "number") ->
             IF Fits(p, j.number) THEN Read(<<j.number>>, "") ELSE Read(<<>>, "range")
      [] OTHER -> Read(<<>>, "type")

\* A pointer is allocated whatever the value is: null becomes a zero or an empty
\* message.
UnmarshalOne(p, j) ==
    IF p.type # "struct" THEN UnmarshalScalar(p, j)
    ELSE IF IsNull(j) THEN Read(<<New(p.sub)>>, "")
    ELSE IF ~IsA(j, "members") THEN Read(<<>>, "type")
    ELSE LET r == UnmarshalObject(p.sub, j) IN Read(<<r.v>>, r.err)

UnmarshalList(p, j) ==
    IF IsNull(j) THEN Read(<<>>, "")
    ELSE IF ~IsA(j, "list") THEN Read(<<>>, "type")
    ELSE LET rs == [i \in DOMAIN j.list |-> UnmarshalOne(p, j.list[i])] IN
         Read([i \in DOMAIN rs |-> IF p.type = "struct" THEN rs[i].v ELSE rs[i].v[1]],
              FirstError({rs[i].err : i \in DOMAIN rs}))

UnmarshalMap(p, j) ==
    IF IsNull(j) THEN Read(<<>>, "")
    ELSE IF ~IsA(j, "entries") THEN Read(<<>>, "type")
    ELSE LET rs == [k \in DOMAIN j.entries |-> UnmarshalOne(p.val, j.entries[k])] IN
         Read([k \in DOMAIN rs |-> rs[k].v], FirstError({rs[k].err : k \in DOMAIN rs}))

UnmarshalValue(p, j) == CASE p.type = "map" -> UnmarshalMap(p, j)
                          [] p.type # "map" /\ p.label = "rep" -> UnmarshalList(p, j)
                          [] OTHER -> UnmarshalOne(p, j)

\* consumeField: the names a field may have; the JSON name wins.
Accepted(p) == << <<"json", p.name>>, <<"orig", p.name>> >>
Present(p, members)  == \E n \in ToSet(Accepted(p)) : n \in DOMAIN members
Consumed(p, members) == IF <<"json", p.name>> \in DOMAIN members THEN members[<<"json", p.name>>]
                        ELSE members[<<"orig", p.name>>]

\* Extensions are read as values of their element type and set (one that is
\* repeated is not read as a list).
UnmarshalExtension(p, j) ==
    IF p.label = "rep" THEN Read(<<>>, "type") ELSE UnmarshalOne(p, j)

UnmarshalObject(d, j) ==
    LET members == j.members
        fields == {n \in FieldNames(d) : Present(FieldNamed(d, n), members)}
        oneofs == {k \in DOMAIN d.oneofs : Present(d.oneofs[k], members)}
        got(p) == UnmarshalValue(p, Consumed(p, members))
        one    == d.oneofs[CHOOSE k \in oneofs : TRUE]
        ext    == [t \in DOMAIN j.exts |-> UnmarshalExtension(ExtProp(d, t), j.exts[t])]
        known  == fields \cup {d.oneofs[k].name : k \in oneofs}
    IN  Read([f   |-> [n \in FieldNames(d) |-> IF n \in fields THEN got(FieldNamed(d, n)).v
                                               ELSE Unset(FieldNamed(d, n))],
              one |-> IF oneofs = {} THEN <<>> ELSE <<[name |-> one.name, v |-> got(one).v]>>,
              ext |-> [t \in DOMAIN ext |-> [enc |-> <<>>, value |-> <<ext[t].v>>]],
              unrec |-> <<>>],
             IF \E x \in DOMAIN members : x[2] \notin known THEN "unknown field"
             ELSE FirstError({got(FieldNamed(d, n)).err : n \in fields}
                               \cup {got(d.oneofs[k]).err : k \in oneofs}
                               \cup {ext[t].err : t \in DOMAIN ext}))

JsonUnmarshal(d, j) == UnmarshalObject(d, j)
=============================================================================
