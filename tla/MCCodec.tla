------------------------------ MODULE MCCodec ------------------------------
(***************************************************************************)
(* Message types with a field of each kind, and values at the limits of    *)
(* a word of 12 bits (a short one of 6) and varint groups of 5 bits.       *)
(***************************************************************************)
EXTENDS ProtoSession

Sub(p, d)  == [p EXCEPT !.sub = d]
Packs(p)   == [p EXCEPT !.packed = TRUE]
Proto3(p)  == [p EXCEPT !.proto3 = TRUE]
Default(p, v) == [p EXCEPT !.def = <<v>>]
MapField(name, tag, k, v) == [Field(name, tag, "map", "bytes", "rep") EXCEPT !.key = k, !.val = v]

InnerA == Default(Field("a", 1, "int32", "varint", "opt"), 3)
InnerS == Field("s", 2, "string", "bytes", "rep")
Inner  == Type(<<InnerA, InnerS>>, <<>>, {}, <<>>, TRUE)
Shrunk == Type(<<InnerS>>, <<>>, {}, <<>>, TRUE)
Strict == Type(<<Field("q", 1, "bool", "varint", "req")>>, <<>>, {}, <<>>, FALSE)

KeyOf(type, wire) == Field("key", 1, type, wire, "opt")
FieldsWith(inner) == <<
    Field("i", 1, "int32", "varint", "opt"),
    Field("z", 2, "int32", "zigzag32", "rep"),
    Packs(Field("k", 3, "int64", "zigzag64", "rep")),
    Default(Field("b", 4, "bool", "varint", "opt"), TRUE),
    Packs(Field("bs", 5, "bool", "varint", "rep")),
    Field("f", 6, "uint32", "fixed32", "opt"),
    Field("g", 7, "int64", "fixed64", "rep"),
    Field("s", 8, "string", "bytes", "opt"),
    Field("y", 9, "bytes", "bytes", "opt"),
    Field("ys", 10, "bytes", "bytes", "rep"),
    Sub(Field("m", 11, "struct", "bytes", "opt"), inner),
    Sub(Field("gr", 12, "struct", "group", "opt"), inner),
    Sub(Field("ms", 13, "struct", "bytes", "rep"), inner),
    Sub(Field("grs", 14, "struct", "group", "rep"), Strict),
    MapField("mp", 15, KeyOf("int32", "varint"), Field("value", 2, "string", "bytes", "opt")),
    MapField("mm", 16, KeyOf("string", "bytes"), Sub(Field("value", 2, "struct", "bytes", "opt"), inner)),
    Proto3(Field("pi", 17, "int64", "varint", "opt")),
    Proto3(Field("ps", 18, "string", "bytes", "opt")),
    Proto3(Field("pb", 19, "bool", "varint", "opt")) >>

Alternatives == <<Field("oi", 20, "int32", "varint", "opt"), Field("ob", 21, "int64", "zigzag64", "opt")>>
Extensions == <<Field("ei", 24, "int32", "varint", "opt"), Field("er", 25, "uint32", "varint", "rep"),
                Sub(Field("em", 26, "struct", "bytes", "opt"), Inner)>>

FullType == Type(FieldsWith(Inner), Alternatives, 24..26, Extensions, TRUE)

\* What an older program knows: every other field, and less of the messages in it.
OlderType == Type(SelectSeq(FieldsWith(Shrunk), LAMBDA p : p.tag % 2 = 1), <<>>, {}, <<>>, TRUE)

In(a, s) == [New(Inner) EXCEPT !.f = [a |-> a, s |-> s]]
Values ==
    [i |-> {<<0>>, <<-32>>}, z |-> {<<-1, 31>>}, k |-> {<<0, 4095, 2048>>},
     b |-> {<<FALSE>>}, g |-> {<<4095, 1>>},
     s |-> {<< <<>> >>, << <<0, 9, 1, 63>> >>}, y |-> {<<>>, << <<>> >>},
     ys |-> {<< <<>>, <<9>> >>},
     m |-> {<<In(<<>>, <<>>)>>, <<In(<<3>>, << <<>>, <<4>> >>)>>}, gr |-> {<<In(<<-3>>, <<>>)>>},
     ms |-> {<< <<In(<<>>, <<>>)>>, <<In(<<5>>, <<>>)>> >>, << <<>> >>},
     grs |-> {<< <<[New(Strict) EXCEPT !.f["q"] = <<TRUE>>]>> >>, << <<New(Strict)>> >>},
     mp |-> {(0 :> << <<>> >>), (-1 :> << <<2>> >>) @@ (4 :> << <<>> >>)},
     mm |-> {(<<1>> :> <<In(<<>>, << <<2>> >>)>>), (<<>> :> <<>>)},
     pi |-> {<<0>>, <<1024>>}]
OneofChoices == {<<[name |-> "oi", v |-> <<0>>]>>, <<[name |-> "ob", v |-> <<77>>]>>}
ExtChoices == [t \in 24..26 |-> CASE t = 24 -> {<< <<5>> >>} [] t = 25 -> {<< <<1, 40>> >>}
                                  [] t = 26 -> {<< <<In(<<1>>, <<>>)>> >>}]

Filled == [New(FullType) EXCEPT
    !.f = [@ EXCEPT !.i = <<9>>, !.z = <<2>>, !.k = <<1>>, !.m = <<In(<<8>>, << <<5>> >>)>>,
                    !.gr = <<In(<<>>, << <<6>> >>)>>, !.mp = (4 :> << <<1>> >>), !.pb = <<TRUE>>,
                    !.mm = (<<1>> :> <<In(<<2>>, <<>>)>>)],
    !.ext = (24 :> [enc |-> <<>>, value |-> << <<7>> >>])
              @@ (26 :> [enc |-> <<>>, value |-> << <<In(<<>>, << <<3>> >>)>> >>])]
Strange == [New(FullType) EXCEPT !.unrec = EncodeVarint(8 * 40) \o <<5>>,
    !.f = [@ EXCEPT !.y = << <<>> >>, !.f = <<63>>, !.bs = <<TRUE, FALSE>>, !.ps = << <<3>> >>,
                    !.grs = << <<[New(Strict) EXCEPT !.f["q"] = <<FALSE>>]>> >>]]
OtherMessages == {Filled, Strange}

CodecSpec == SessionInit /\ [][SessionNext]_sessionVars
=============================================================================
