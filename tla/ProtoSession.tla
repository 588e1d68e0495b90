---------------------------- MODULE ProtoSession ----------------------------
(***************************************************************************)
(* A program that fills, copies, merges, reads and writes one message with *)
(* the calls of golang/protobuf/proto, in any order, up to MaxCalls calls. *)
(* Whatever the calls were, what the message holds must survive the wire.  *)
(***************************************************************************)
EXTENDS ProtoJson

CONSTANTS MsgType,     \* the message's type
          OldType,     \* the type an older program knows: some fields are missing
          FieldValues, \* the values the program assigns to each field
          OneofValues, \* and to the oneof
          ExtValues,   \* the values it gives each extension
          Samples,     \* other messages of the type, to merge
          MaxCalls     \* bound on the calls

VARIABLES msg, calls

sessionVars == <<msg, calls>>

SessionInit == msg = New(MsgType) /\ calls = 0

Calls(m) == calls < MaxCalls /\ calls' = calls + 1 /\ msg' = m

Assign(n, v) == Calls([msg EXCEPT !.f[n] = v])
AssignOneof(o) == Calls([msg EXCEPT !.one = o])

CallSetExtension(t, v) == Calls(SetExtension(MsgType, msg, t, v).m)
CallGetExtension(t) == Calls(GetExtension(MsgType, msg, t).m)
CallClearExtension(t) == Calls(ClearExtension(msg, t))
CallClearAllExtensions == Calls(ClearAllExtensions(msg))

CallSetDefaults == Calls(SetDefaults(MsgType, msg))
CallMerge(s) == Calls(Merge(MsgType, msg, s))
CallClone == Calls(Clone(MsgType, msg))

\* Marshal leaves the encoded form of the extensions behind.
CallMarshal == Calls([msg EXCEPT !.ext = EncodeExtensionsMap(MsgType, @).ext])

\* A buffer that was cut off leaves what was read before the error.
SampleBytes == [s \in Samples |-> Marshal(MsgType, s).buf]
CutOff(b, missing) == SubSeq(b, 1, Len(b) - missing)
CallUnmarshalMerge(s, missing) ==
    Calls(UnmarshalMerge(MsgType, CutOff(SampleBytes[s], missing), msg).m)

SessionNext ==
    \/ \E n \in DOMAIN FieldValues : \E v \in FieldValues[n] : Assign(n, v)
    \/ \E o \in OneofValues : AssignOneof(o)
    \/ \E t \in DOMAIN ExtValues : \E v \in ExtValues[t] : CallSetExtension(t, v)
    \/ \E t \in DOMAIN ExtValues : CallGetExtension(t) \/ CallClearExtension(t)
    \/ CallClearAllExtensions \/ CallSetDefaults \/ CallClone \/ CallMarshal
    \/ \E s \in Samples : CallMerge(s) \/ \E n \in 0..2 : CallUnmarshalMerge(s, n)

(***************************************************************************)
(* Properties.                                                             *)
(***************************************************************************)
Writable == Marshal(MsgType, msg).err = ""
Reads(r) == r.err = "" /\ Equal(MsgType, r.m, msg)

\* Whatever calls made a message, and also after an Unmarshal that failed half
\* way: what Marshal writes without error has the length that Size computes, with
\* sizers written apart from the encoders, and is read back without error into a
\* message that Equal calls equal (encode.go, decode.go, equal.go).
WellCoded(c) == c.enc.err = "" => /\ c.size = Len(c.enc.buf)
                                  /\ Reads(Unmarshal(MsgType, c.enc.buf))
WireRoundTrip == WellCoded(StructCode(MsgType, msg))

\* Merge does what the wire format does, though clone.go and decode.go are written
\* apart: reading two messages one after the other gives the fields of their
\* merge, and two message sets one after the other, which message_set.go joins
\* without decoding them, the merge of the messages they hold.
OnlyFields(m) == [New(MsgType) EXCEPT !.f = m.f]
SameFields(r, m) == r.err = "" /\ Equal(MsgType, OnlyFields(r.m), OnlyFields(m))

Held(m) == {t \in DOMAIN m.ext : ExtProp(MsgType, t).type = "struct" /\ ~OnlyEncoded(m.ext[t])}
HeldValue(m, t) == IF t \in Held(m) THEN m.ext[t].value[1] ELSE <<>>
AsSet(m) == MarshalMessageSet(MsgType, Restrict(m.ext, Held(m)))
SetsJoin(s, both) ==
    /\ both.err = "" /\ DOMAIN both.ext = Held(msg) \cup Held(s)
    /\ \A t \in DOMAIN both.ext :
           LET p == ExtProp(MsgType, t) IN
           EqualExtension(p, both.ext[t],
               [enc |-> <<>>, value |-> <<MergeAny(p, HeldValue(msg, t), HeldValue(s, t))>>])
SetsRead(s, a, b) ==
    a.err = "" /\ b.err = "" => SetsJoin(s, UnmarshalMessageSet(a.buf \o b.buf, <<>>))
SampleSets == [s \in Samples |-> AsSet(s)]
FieldsRead(s, a) ==
    a.err = "" => SameFields(Unmarshal(MsgType, a.buf \o SampleBytes[s]), Merge(MsgType, msg, s))
JoinsAll(a, set) == \A s \in Samples : FieldsRead(s, a) /\ SetsRead(s, set, SampleSets[s])
MergeIsConcat == JoinsAll(Marshal(MsgType, msg), AsSet(msg))

\* A program that knows an older type of the message passes it on unharmed: what
\* it did not recognize is written again (decode.go's skipAndSave).
PassedOn(old) == old.err = "" /\ Reads(Unmarshal(MsgType, Marshal(OldType, old.m).buf))
ReadByOlder(enc) == enc.err = "" => PassedOn(Unmarshal(OldType, enc.buf))
UnknownKept == ReadByOlder(Marshal(MsgType, msg))

\* A message whose fields are all known is read back from its text, also when
\* another program would write it with other brackets and separators (text.go,
\* text_parser.go).
Respelled(t) == CASE t = Sym("<") -> <<Sym("{")>> [] t = Sym(">") -> <<Sym("}")>>
                  [] t = Name("true") -> <<Num(1)>> [] IsA(t, "num") -> <<t, Sym(",")>>
                  [] OTHER -> <<t>>
SaysMsg(r) == r.err = "" /\ Equal(MsgType, r.v, msg)
Spellings(t) == {t, Each(t, Respelled)}
TextRoundTrip ==
    Writable /\ msg.unrec = <<>> =>
        \A text \in Spellings(MarshalText(MsgType, msg)) : SaysMsg(UnmarshalText(MsgType, text))

\* JSON written with any options is read back without error, and without
\* EmitDefaults (which writes null for a field that is not set, and null is read
\* as zero) as an equal message, unless it has what JSON cannot say: unknown
\* bytes, nil messages in lists and maps, repeated extensions (jsonpb.go).
Sayable ==
    /\ msg.unrec = <<>>
    /\ \A t \in DOMAIN msg.ext : ExtProp(MsgType, t).label # "rep"
    /\ \A n \in FieldNames(MsgType) :
           LET p == FieldNamed(MsgType, n) IN
           /\ p.type = "struct" /\ p.label = "rep" => \A i \in DOMAIN msg.f[n] : msg.f[n][i] # <<>>
           /\ p.type = "map" => \A k \in DOMAIN msg.f[n] : msg.f[n][k] # <<>>
JsonSaysMsg(o, r) == r.err = "" /\ (~o.emitDefaults => Equal(MsgType, r.v, msg))
JsonRoundTrip ==
    Writable /\ Sayable =>
        \A o \in Options : JsonSaysMsg(o, JsonUnmarshal(MsgType, JsonMarshal(o, MsgType, msg)))
=============================================================================
