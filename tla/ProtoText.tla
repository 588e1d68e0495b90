----------------------------- MODULE ProtoText -----------------------------
(***************************************************************************)
(* The text format of golang/protobuf/proto: text.go writes a message as a *)
(* sequence of tokens (white space, which only separates them, is left     *)
(* out), text_parser.go reads it back.  A token is a symbol, a word, a     *)
(* number or a quoted string, whose characters are written one by one.     *)
(* A byte has 6 bits here, so an octal escape has two digits, not three.   *)
(***************************************************************************)
EXTENDS ProtoMessage

Sym(s)    == [symbol |-> s]
Name(s)   == [name |-> s]
Num(n)    == [num |-> n]
Quoted(s) == [quoted |-> s]
TheEnd    == [end |-> TRUE]
IsA(t, kind) == kind \in DOMAIN t

\* Characters with a meaning in a quoted string; the digits 0 to 7 start at Digit0.
CharTab == 1
CharNewline == 2
CharReturn == 3
CharQuote == 4
CharBackslash == 5
Digit0 == 8
CharN == 16
CharR == 17
CharT == 18
Isprint(c) == c \in CharQuote..47

(***************************************************************************)
(* The writer.                                                             *)
(***************************************************************************)

\* Octal escapes without the leading zeros.
FaultyWriteChar(c) ==
    CASE c = CharNewline   -> <<CharBackslash, CharN>>
      [] c = CharReturn    -> <<CharBackslash, CharR>>
      [] c = CharTab       -> <<CharBackslash, CharT>>
      [] c \in {CharQuote, CharBackslash} -> <<CharBackslash, c>>
      [] c \notin {CharQuote, CharBackslash} /\ Isprint(c) -> <<c>>
      [] OTHER -> IF c < 8 THEN <<CharBackslash, Digit0 + c>>
                  ELSE <<CharBackslash, Digit0 + c \div 8, Digit0 + (c % 8)>>

WriteChar(c) ==
    CASE c = CharNewline   -> <<CharBackslash, CharN>>
      [] c = CharReturn    -> <<CharBackslash, CharR>>
      [] c = CharTab       -> <<CharBackslash, CharT>>
      [] c \in {CharQuote, CharBackslash} -> <<CharBackslash, c>>
      [] c \notin {CharQuote, CharBackslash} /\ Isprint(c) -> <<c>>
      [] OTHER -> <<CharBackslash, Digit0 + c \div 8, Digit0 + (c % 8)>>

WriteString(s) == Quoted(Each(s, WriteChar))

RECURSIVE WriteStruct(_, _)

WriteAny(p, x) ==
    CASE p.type \in {"string", "bytes"} -> <<WriteString(x)>>
      [] p.type = "struct" ->
             LET isGroup == p.wire = "group" IN
             <<Sym(IF isGroup THEN "{" ELSE "<")>> \o WriteStruct(p.sub, x)
                 \o <<Sym(IF isGroup THEN "}" ELSE ">")>>
      [] p.type = "bool" -> <<Name(IF x THEN "true" ELSE "false")>>
      [] OTHER -> <<Num(x)>>

WriteName(p) == IF p.wire = "group" THEN <<Name(p.name)>> ELSE <<Name(p.name), Sym(":")>>

\* A nil element of a repeated field is written as <nil>.
WriteRepeated(p, s) ==
    Each(s, LAMBDA x : WriteName(p) \o
        IF p.type = "struct" /\ x = <<>> THEN <<Sym("<"), Name("nil"), Sym(">")>>
        ELSE WriteAny(p, IF p.type = "struct" THEN x[1] ELSE x))

WriteMap(p, v) ==
    Each(SetToSeq(DOMAIN v), LAMBDA k : WriteName(p)
        \o <<Sym("<"), Name("key"), Sym(":")>> \o WriteAny(p.key, k)
        \o (IF v[k] = <<>> THEN <<>> ELSE <<Name("value"), Sym(":")>> \o WriteAny(p.val, v[k][1]))
        \o <<Sym(">")>>)

\* What is nil, or a proto3 zero, is not written.
WriteField(p, v) ==
    CASE p.type = "map" -> WriteMap(p, v)
      [] p.type # "map" /\ p.label = "rep" -> WriteRepeated(p, v)
      [] OTHER -> IF v = <<>> \/ (p.proto3 /\ IsProto3Zero(p, v[1])) THEN <<>>
                  ELSE WriteName(p) \o WriteAny(p, v[1])

RECURSIVE WriteUnknownFrom(_, _)
\* writeUnknownStruct: fields by number, until something cannot be read; u is the
\* tag, b the bytes and r the number behind it.
UnknownBytes(data, b) == (IF b.err # "" THEN <<>> ELSE <<Sym(":"), Quoted(b.x)>>)
                            \o WriteUnknownFrom(data, b.i)
UnknownNumber(data, r) == IF r.err # "" THEN <<>>
                          ELSE <<Sym(":"), Num(r.x)>> \o WriteUnknownFrom(data, r.i)
WriteUnknownField(data, u) ==
    LET wire == u.x % 8
        head == <<Num(u.x \div 8)>>
    IN  CASE u.err # "" -> <<>>
          [] u.err = "" /\ wire = WireEndGroup -> <<Sym("}")>> \o WriteUnknownFrom(data, u.i)
          [] u.err = "" /\ wire = WireStartGroup ->
                 head \o <<Sym("{")>> \o WriteUnknownFrom(data, u.i)
          [] u.err = "" /\ wire = WireBytes ->
                 head \o UnknownBytes(data, DecodeRawBytes(data, u.i))
          [] OTHER -> head \o UnknownNumber(data, Skip(data, u.i, wire))
WriteUnknownFrom(data, i) ==
    IF i > Len(data) THEN <<>> ELSE WriteUnknownField(data, DecodeVarint(data, i))
WriteUnknownStruct(data) == WriteUnknownFrom(data, 1)

\* writeExtensions: in the order of their numbers; one that cannot be read ends
\* the text.
WriteExtension(p, x) == <<Sym("["), Name(p.name), Sym("]"), Sym(":")>>
                           \o WriteAny([p EXCEPT !.wire = "bytes"], x)
WriteExtensions(d, got) ==
    LET good == {t \in DOMAIN got : \A u \in DOMAIN got : u <= t => got[u].err = ""}
    IN  Each(SetToSortSeq(good, LAMBDA a, b : a < b),
             LAMBDA t : Each(got[t].v[1], LAMBDA x : WriteExtension(ExtProp(d, t), x)))

WriteOneof(d, one) == Each(one, LAMBDA o : WriteName(OneofProp(d, o)) \o WriteAny(OneofProp(d, o), o.v[1]))

WriteStruct(d, m) ==
    Each(d.fields, LAMBDA p : WriteField(p, m.f[p.name]))
      \o WriteOneof(d, m.one) \o WriteUnknownStruct(m.unrec)
      \o WriteExtensions(d, [t \in DOMAIN m.ext |-> GetExtension(d, m, t)])

MarshalText(d, m) == WriteStruct(d, m)

(***************************************************************************)
(* The parser.  Each step returns what Now does: a value, the position of  *)
(* the next token, an error.                                               *)
(***************************************************************************)
At(s, i) == IF i > Len(s) THEN TheEnd ELSE s[i]

\* A quoted string is checked when its token is read (advance, unquoteC).
RECURSIVE UnquoteFrom(_, _, _)
UnquoteFrom(s, i, acc) ==
    IF i > Len(s) THEN Now(acc, i, "")
    ELSE IF s[i] # CharBackslash THEN UnquoteFrom(s, i + 1, Append(acc, s[i]))
    ELSE LET c == IF i < Len(s) THEN s[i + 1] ELSE -1 IN
         CASE c = CharN -> UnquoteFrom(s, i + 2, Append(acc, CharNewline))
           [] c = CharR -> UnquoteFrom(s, i + 2, Append(acc, CharReturn))
           [] c = CharT -> UnquoteFrom(s, i + 2, Append(acc, CharTab))
           [] c \in {CharQuote, CharBackslash} -> UnquoteFrom(s, i + 2, Append(acc, c))
           [] c \in Digit0..Digit0 + 7 ->
                  IF i + 2 > Len(s) \/ s[i + 2] \notin Digit0..Digit0 + 7 THEN Now(acc, i, "digits")
                  ELSE UnquoteFrom(s, i + 3, Append(acc, 8 * (c - Digit0) + s[i + 2] - Digit0))
           [] OTHER -> Now(acc, i, "escape")
UnquoteC(s) == UnquoteFrom(s, 1, <<>>)

\* The colon may be left out in front of a message or group.
NeedColon(p) == p.wire # "group" /\ p.type \notin {"struct", "map"}
CheckForColon(p, s, i) ==
    IF At(s, i) = Sym(":") THEN Now(<<>>, i + 1, "")
    ELSE Now(<<>>, i, IF NeedColon(p) THEN "colon" ELSE "")
ConsumeOptionalSeparator(s, i) == IF At(s, i) \in {Sym(";"), Sym(",")} THEN i + 1 ELSE i

RECURSIVE ReadStruct(_, _, _, _, _)

\* A struct of which nothing is read yet; and the struct behind an opening bracket.
Unread(d) == [m |-> New(d), set |-> {}, err |-> ""]
Closing(t) == IF t = Sym("<") THEN Sym(">") ELSE Sym("}")
ReadBlock(d, s, i) ==
    IF At(s, i) \in {Sym("{"), Sym("<")} THEN ReadStruct(d, s, i + 1, Closing(At(s, i)), Unread(d))
    ELSE Now(New(d), i, "bracket")

\* readAny for one value: a number must fit the field.
Fits(p, n) == CASE p.type = "int32"  -> n \in -(Half \div 2)..(Half \div 2 - 1)
                [] p.type = "uint32" -> n \in 0..Half - 1
                [] OTHER -> n \in 0..Word - 1
ReadAny(p, s, i) ==
    LET t == At(s, i) IN
    CASE t = TheEnd -> Now(0, i, "EOF")
      [] t # TheEnd /\ p.type \in {"string", "bytes"} ->
             IF ~IsA(t, "quoted") THEN Now(0, i, "invalid")
             ELSE [UnquoteC(t.quoted) EXCEPT !.i = i + 1]
      [] t # TheEnd /\ p.type = "struct" -> ReadBlock(p.sub, s, i)
      [] t # TheEnd /\ p.type = "bool" ->
             IF t \in {Name("true"), Name("t"), Name("True")} THEN Now(TRUE, i + 1, "")
             ELSE IF t \in {Name("false"), Name("f"), Name("False")} THEN Now(FALSE, i + 1, "")
             ELSE IF IsA(t, "num") /\ t.num \in {0, 1} THEN Now(t.num = 1, i + 1, "")
             ELSE Now(FALSE, i, "invalid")
      [] OTHER -> IF IsA(t, "num") /\ Fits(p, t.num) THEN Now(t.num, i + 1, "") ELSE Now(0, i, "invalid")

\* An element of a repeated field holds a message by pointer.
Element(p, x) == IF p.type = "struct" THEN <<x>> ELSE x

RECURSIVE ReadList(_, _, _, _)
\* [x, y, z], behind the opening bracket: r is what was read there.
ListItem(p, s, acc, r) ==
    CASE r.err # "" -> Now(acc, r.i, r.err)
      [] r.err = "" /\ At(s, r.i) = Sym("]") -> Now(Append(acc, Element(p, r.v)), r.i + 1, "")
      [] r.err = "" /\ At(s, r.i) = Sym(",") -> ReadList(p, s, r.i + 1, Append(acc, Element(p, r.v)))
      [] OTHER -> Now(acc, r.i, "list")
ReadList(p, s, i, acc) == ListItem(p, s, acc, ReadAny(p, s, i))

\* readAny for a field: v is the value it has.
FieldWith(p, v, r) ==
    Now(IF ~ShouldContinue(r.err) THEN v
        ELSE IF p.label = "rep" THEN Append(v, Element(p, r.v)) ELSE <<r.v>>, r.i, r.err)
ReadField(p, s, i, v) ==
    IF p.label = "rep" /\ At(s, i) = Sym("[") THEN ReadList(p, s, i + 1, v)
    ELSE FieldWith(p, v, ReadAny(p, s, i))

\* The entry of a map up to its closing bracket: key and value in any order.
RECURSIVE ReadMapEntry(_, _, _, _)
EntryPart(s, e, part, r) ==
    IF r.err # "" THEN [e EXCEPT !.err = part]
    ELSE [e EXCEPT ![part] = <<r.v>>, !.i = ConsumeOptionalSeparator(s, r.i)]
ReadMapEntry(p, s, terminator, e) ==
    LET t    == At(s, e.i)
        part == IF t = Name("key") THEN "key" ELSE "val"
        c    == CheckForColon(p[part], s, e.i + 1)
    IN  CASE e.err # "" -> e
          [] e.err = "" /\ t = terminator -> [e EXCEPT !.i = @ + 1]
          [] e.err = "" /\ t \notin {terminator, Name("key"), Name("value")} -> [e EXCEPT !.err = "map"]
          [] e.err = "" /\ t \in {Name("key"), Name("value")} /\ c.err # "" -> [e EXCEPT !.err = c.err]
          [] OTHER -> ReadMapEntry(p, s, terminator, EntryPart(s, e, part, ReadAny(p[part], s, c.i)))

ReadMap(p, s, i, old) ==
    LET c == CheckForColon(p, s, i) IN
    IF At(s, c.i) \notin {Sym("<"), Sym("{")} THEN Now(old, c.i, "bracket")
    ELSE PutEntry(p, ReadMapEntry(p, s, Closing(At(s, c.i)), EntryAt(c.i + 1)), old)

\* acc has the message, the fields that were read and the first "required" error
\* of an embedded message, which does not end the text.
Having(acc, m, set, r, i) ==
    Now([m |-> m, set |-> set, err |-> IF r.err = "required" THEN r.err ELSE acc.err], i,
        IF r.err = "required" THEN "" ELSE r.err)

\* [name]: value.  A repeated extension is read, extended and set again.
ExtensionRead(d, s, acc, p, old, r) ==
    LET v == IF p.label # "rep" THEN <<r.v>>
             ELSE IF old.err = "" THEN Append(old.v[1], r.v) ELSE <<r.v>>
    IN  IF ~ShouldContinue(r.err) THEN Now(acc, r.i, r.err)
        ELSE Having(acc, SetExtension(d, old.m, p.tag, <<v>>).m, acc.set, r,
                    ConsumeOptionalSeparator(s, r.i))
ReadExtension(d, s, i, acc) ==
    LET found == {j \in DOMAIN d.exts : Name(d.exts[j].name) = At(s, i)}
        p     == d.exts[CHOOSE j \in found : TRUE]
        c     == CheckForColon(p, s, i + 2)
    IN  IF found = {} \/ At(s, i + 1) # Sym("]") THEN Now(acc, i, "extension")
        ELSE IF c.err # "" THEN Now(acc, c.i, c.err)
        ELSE ExtensionRead(d, s, acc, p, GetExtension(d, acc.m, p.tag),
                           ReadAny([p EXCEPT !.label = "opt"], s, c.i))

\* A field or an alternative of the oneof.
FieldRead(s, acc, p, isField, r) ==
    Having(acc, IF isField THEN [acc.m EXCEPT !.f[p.name] = r.v]
                ELSE [acc.m EXCEPT !.one = <<[name |-> p.name, v |-> r.v]>>],
           acc.set \cup {p.name}, r, IF p.type = "map" THEN r.i ELSE ConsumeOptionalSeparator(s, r.i))
ReadNamed(d, s, i, acc) ==
    LET is(p)  == Name(p.name) = At(s, i)
        f      == {j \in DOMAIN d.fields : is(d.fields[j])}
        o      == {j \in DOMAIN d.oneofs : is(d.oneofs[j])}
        p      == IF f # {} THEN d.fields[CHOOSE j \in f : TRUE] ELSE d.oneofs[CHOOSE j \in o : TRUE]
        c      == CheckForColon(p, s, i + 1)
    IN  CASE f = {} /\ o = {} -> Now(acc, i, "unknown field")
          [] f = {} /\ o # {} /\ acc.m.one # <<>> -> Now(acc, i, "oneof")
          [] f # {} /\ p.label # "rep" /\ p.name \in acc.set -> Now(acc, i, "repeated")
          [] f # {} /\ p.type # "map" /\ c.err # "" -> Now(acc, i, c.err)
          [] OTHER -> FieldRead(s, acc, p, f # {},
                          IF p.type = "map" THEN ReadMap(p, s, i + 1, acc.m.f[p.name])
                          ELSE ReadField(p, s, c.i, IF f # {} THEN acc.m.f[p.name] ELSE <<>>))

\* readStruct up to its terminator.
StructNext(d, s, terminator, r) == IF r.err # "" THEN Now(r.v.m, r.i, r.err)
                                   ELSE ReadStruct(d, s, r.i, terminator, r.v)
ReadStruct(d, s, i, terminator, acc) ==
    LET missing == \E j \in DOMAIN d.fields : d.fields[j].label = "req" /\ d.fields[j].name \notin acc.set
    IN  IF At(s, i) = terminator THEN Now(acc.m, i + 1, IF missing THEN "required" ELSE acc.err)
        ELSE StructNext(d, s, terminator, IF At(s, i) = Sym("[") THEN ReadExtension(d, s, i + 1, acc)
                                          ELSE ReadNamed(d, s, i, acc))

UnmarshalText(d, s) == ReadStruct(d, s, 1, TheEnd, Unread(d))
=============================================================================
