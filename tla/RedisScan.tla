----------------------------- MODULE RedisScan -----------------------------
(***************************************************************************)
(* What redigo makes of a reply: the conversions of reply.go, Scan,        *)
(* ScanStruct, ScanSlice and Args.AddFlat of scan.go, and the              *)
(* notifications of pubsub.go.  A program saves a struct with HMSET and    *)
(* reads it back with HGETALL into a struct that it may use again.         *)
(*                                                                         *)
(* A destination is [kind, bits, elem].  A struct type is a sequence of    *)
(* fields, and a struct value a function from the index paths of its       *)
(* fields (reflect's FieldByIndex) to values.                              *)
(***************************************************************************)
EXTENDS RedisWire, TLC

CONSTANTS Structs,   \* [type, values]: struct types and values of them
          Pushes,    \* notifications: [kind, args]
          IntBits,   \* bits of int and int64
          MaxSaves   \* bound on the saves

ASSUME ScanAssumption == IntBits \in Nat \ {0} /\ MaxSaves \in Nat

Dest(kind, bits) == [kind |-> kind, bits |-> bits]
SliceOf(d) == [kind |-> "slice", elem |-> d]

Got(v)       == [v |-> v, err |-> "nil"]
Failed(v, e) == [v |-> v, err |-> e]
Cannot(old)  == Failed(old, "cannot convert")

(***************************************************************************)
(* strconv (external): a number out of range is cut to the nearest one.    *)
(***************************************************************************)
InRange(n, lo, hi) == IF n < lo THEN Failed(lo, "range") ELSE IF n > hi THEN Failed(hi, "range") ELSE Got(n)
StrconvInt(p, bits) ==
    IF ParseInt(p).err # "nil" THEN Failed(0, "syntax") ELSE InRange(ParseInt(p).n, -(2^(bits-1)), 2^(bits-1) - 1)
StrconvUint(p, bits) ==
    IF p = <<>> \/ ~(ToSet(p) \subseteq Digits) THEN Failed(0, "syntax") ELSE InRange(FromDigits(p), 0, 2^bits - 1)
StrconvBool(p) == IF p \in {<<0>>, <<1>>} THEN Got(p = <<1>>) ELSE Failed(FALSE, "syntax")

(***************************************************************************)
(* reply.go: one function for each type of Go.                             *)
(***************************************************************************)
ReplyTo(zero, r, of) == CASE r.kind = "nil"   -> Failed(zero, "nil returned")
                          [] r.kind = "error" -> Failed(zero, "error reply")
                          [] OTHER -> of
Unexpected(zero) == Failed(zero, "unexpected type")

ReplyInt(r)  == ReplyTo(0, r, CASE r.kind = "int"  -> Got(r.n)
                                [] r.kind = "bulk" -> StrconvInt(r.of, IntBits)
                                [] OTHER -> Unexpected(0))
ReplyUint(r) == ReplyTo(0, r, CASE r.kind = "int"  -> IF r.n < 0 THEN Failed(0, "negative") ELSE Got(r.n)
                                [] r.kind = "bulk" -> StrconvUint(r.of, IntBits)
                                [] OTHER -> Unexpected(0))
ReplyBool(r) == ReplyTo(FALSE, r, CASE r.kind = "int"  -> Got(r.n # 0)
                                    [] r.kind = "bulk" -> StrconvBool(r.of)
                                    [] OTHER -> Unexpected(FALSE))
ReplyString(r) == ReplyTo(<<>>, r, IF r.kind \in {"bulk", "status"} THEN Got(r.of) ELSE Unexpected(<<>>))
Values(r) == ReplyTo(<<>>, r, IF r.kind = "array" THEN Got(r.of) ELSE Unexpected(<<>>))

\* Strings, ByteSlices: a nil element is an empty string.
Strings(r) ==
    IF Values(r).err # "nil" THEN Values(r)
    ELSE IF \E i \in DOMAIN r.of : r.of[i].kind \notin {"bulk", "nil"} THEN Unexpected(<<>>)
    ELSE Got([i \in DOMAIN r.of |-> IF r.of[i] = NilReply THEN <<>> ELSE r.of[i].of])

\* StringMap, IntMap, Int64Map: names and values in turn.
MapOf(r, Value(_)) ==
    LET s    == r.of
        keys == {i \in DOMAIN s : i % 2 = 1}
        of(k) == CHOOSE i \in keys : s[i].of = k /\ \A j \in keys : s[j].of = k => j <= i
    IN  IF Values(r).err # "nil" THEN Values(r)
        ELSE IF Len(s) % 2 # 0 \/ \E i \in keys : s[i].kind # "bulk" \/ Value(s[i + 1]).err # "nil"
        THEN Unexpected(<<>>)
        ELSE Got([k \in {s[i].of : i \in keys} |-> Value(s[of(k) + 1]).v])
BulkOnly(r)  == IF r.kind = "bulk" THEN Got(r.of) ELSE Unexpected(<<>>)
StringMap(r) == MapOf(r, BulkOnly)
IntMap(r)    == MapOf(r, ReplyInt)

(***************************************************************************)
(* scan.go.  old is what the destination holds.                            *)
(***************************************************************************)
ConvertAssignBulkString(d, s, old) ==
    CASE d.kind = "int"  -> StrconvInt(s, d.bits)
      [] d.kind = "uint" -> StrconvUint(s, d.bits)
      [] d.kind = "bool" -> StrconvBool(s)
      [] d.kind \in {"string", "bytes"} -> Got(s)
      [] OTHER -> Cannot(old)

ConvertAssignInt(d, n, old) ==
    CASE d.kind = "int"  -> IF n \in -(2^(d.bits-1))..2^(d.bits-1) - 1 THEN Got(n) ELSE Failed(0, "range")
      [] d.kind = "uint" -> IF n < 0 THEN Failed(old, "range")
                            ELSE IF n < 2^d.bits THEN Got(n) ELSE Failed(0, "range")
      [] d.kind = "bool" -> Got(n # 0)
      [] OTHER -> Cannot(old)

\* cannotConvert asks a nil for its type, which panics.
ConvertAssignValue(d, r, old) ==
    CASE r.kind = "bulk" -> ConvertAssignBulkString(d, r.of, old)
      [] r.kind = "int"  -> ConvertAssignInt(d, r.n, old)
      [] r.kind = "nil"  -> Failed(old, "panic")
      [] OTHER -> Cannot(old)

Zero(d) == CASE d.kind \in {"int", "uint"} -> 0 [] d.kind = "bool" -> FALSE [] OTHER -> <<>>

\* A list of assignments, up to the first error; skipNil: a nil changes nothing.
AssignAll(ds, rs, olds, skipNil) ==
    FoldLeft(LAMBDA acc, i :
                 IF acc.err # "nil" \/ (skipNil /\ rs[i] = NilReply) THEN acc
                 ELSE LET c == ConvertAssignValue(ds[i], rs[i], olds[i])
                      IN  [v |-> [acc.v EXCEPT ![i] = c.v], err |-> c.err],
             Got(olds), [i \in 1..Len(rs) |-> i])

ConvertAssignArray(d, rs, old) ==
    IF d.kind # "slice" THEN Cannot(old)
    ELSE AssignAll([i \in DOMAIN rs |-> d.elem], rs, [i \in DOMAIN rs |-> Zero(d.elem)], FALSE)

ConvertAssign(d, r, old) ==
    CASE r.kind = "nil"   -> Got(old)
      [] r.kind = "error" -> Failed(old, "error reply")
      [] r.kind \notin {"nil", "error"} /\ d.kind = "any" -> Got(r)
      [] r.kind \in {"bulk", "int"} /\ d.kind # "any" -> ConvertAssignValue(d, r, old)
      [] r.kind = "status" /\ d.kind # "any" -> IF d.kind = "string" THEN Got(r.of) ELSE Cannot(old)
      [] r.kind = "array" /\ d.kind # "any" -> ConvertAssignArray(d, r.of, old)

\* Scan into as many variables as ds, all of them zero.
Scan(ds, rs) ==
    IF Len(rs) < Len(ds) THEN Failed(<<>>, "array short")
    ELSE FoldLeft(LAMBDA acc, i :
                      IF acc.err # "nil" THEN acc
                      ELSE LET c == ConvertAssign(ds[i], rs[i], Zero(ds[i]))
                           IN  [v |-> [acc.v EXCEPT ![i] = c.v], err |-> c.err],
                  Got([i \in DOMAIN ds |-> Zero(ds[i])]), [i \in 1..Len(ds) |-> i])

Field(name, dest, omitEmpty) == [field |-> "plain", name |-> name, dest |-> dest, omitEmpty |-> omitEmpty]
Embedded(type) == [field |-> "embedded", type |-> type]
Ignored == [field |-> "ignored"]

\* structSpec: m by name, l in order; depth is where a name was found first.
NoSpec == [m |-> <<>>, l |-> <<>>, depth |-> <<>>]
Spec1(fs, n) == [spec |-> fs, index |-> n]

\* Fields of one name at one depth do not hide each other.
FaultyEnterField(ss, f, index, i) ==
    IF f.name \in DOMAIN ss.depth /\ Len(index) > ss.depth[f.name] THEN ss
    ELSE [m |-> (IF f.name \in DOMAIN ss.m THEN ss.m ELSE (f.name :> Spec1(f, Append(index, i)))) @@ ss.m,
          l |-> Append(ss.l, Spec1(f, Append(index, i))),
          depth |-> (f.name :> Len(index)) @@ ss.depth]

\* A plain field: the first at its depth counts, a second takes both away, a less
\* deep one takes the name over (the deeper one stays in l).
EnterField(ss, f, index, i) ==
    LET found == f.name \in DOMAIN ss.depth
        fs    == Spec1(f, Append(index, i))
    IN  IF found /\ Len(index) = ss.depth[f.name]
        THEN [ss EXCEPT !.m = [n \in DOMAIN @ \ {f.name} |-> @[n]],
                        !.l = SelectSeq(@, LAMBDA x : x.spec.name # f.name)]
        ELSE IF found /\ Len(index) > ss.depth[f.name] THEN ss
        ELSE [m |-> (f.name :> fs) @@ ss.m, l |-> Append(ss.l, fs),
              depth |-> (f.name :> Len(index)) @@ ss.depth]

RECURSIVE CompileStructSpec(_, _, _)
CompileStructSpec(t, index, ss0) ==
    FoldLeft(LAMBDA ss, i : CASE t[i].field = "ignored"  -> ss
                              [] t[i].field = "embedded" -> CompileStructSpec(t[i].type, Append(index, i), ss)
                              [] t[i].field = "plain"    -> EnterField(ss, t[i], index, i),
             ss0, [i \in 1..Len(t) |-> i])
StructSpecForType(t) == CompileStructSpec(t, <<>>, NoSpec)

\* ScanStruct into the struct old: names that are not known are passed over.
ScanStruct(t, src, old) ==
    LET ss == StructSpecForType(t)
        next(acc, k) ==
            LET name == src[2*k - 1]
                r1   == src[2*k]
            IN  IF acc.err # "nil" \/ r1 = NilReply THEN acc
                ELSE IF name.kind # "bulk" THEN Failed(acc.v, "key")
                ELSE IF name.of \notin DOMAIN ss.m THEN acc
                ELSE LET fs == ss.m[name.of]
                         c  == ConvertAssignValue(fs.spec.dest, r1, acc.v[fs.index])
                     IN  [v |-> [acc.v EXCEPT ![fs.index] = c.v], err |-> c.err]
    IN  IF Len(src) % 2 # 0 THEN Failed(old, "odd")
        ELSE FoldLeft(next, Got(old), [k \in 1..Len(src) \div 2 |-> k])

\* ScanSlice of plain elements, and of structs: all fields of l for each.
ScanSlice(d, src) == AssignAll([i \in DOMAIN src |-> d], src, [i \in DOMAIN src |-> Zero(d)], TRUE)
ScanSliceOfStructs(t, src, zero) ==
    LET l == StructSpecForType(t).l
        n == IF l = <<>> THEN 0 ELSE Len(src) \div Len(l)
        one(i) == FoldLeft(LAMBDA acc, j :
                      LET r1 == src[(i - 1) * Len(l) + j]
                          c  == ConvertAssignValue(l[j].spec.dest, r1, acc.v[l[j].index])
                      IN  IF acc.err # "nil" \/ r1 = NilReply THEN acc
                          ELSE [v |-> [acc.v EXCEPT ![l[j].index] = c.v], err |-> c.err],
                      Got(zero), [j \in 1..Len(l) |-> j])
    IN  IF l = <<>> \/ n * Len(l) # Len(src) THEN Failed(<<>>, "length")
        ELSE [v |-> [i \in 1..n |-> one(i).v],
              err |-> IF \E i \in 1..n : one(i).err # "nil" THEN "element" ELSE "nil"]

\* An argument of a command, as writeCommand takes it.
Arg(d, x) == CASE d.kind \in {"int", "uint"} -> Integer(x)
               [] d.kind = "bool" -> [kind |-> "bool", b |-> x]
               [] OTHER -> Bulk(x)

\* AddFlat of a struct.
FlattenStruct(t, v) ==
    LET l    == StructSpecForType(t).l
        kept == SelectSeq(l, LAMBDA fs : ~(fs.spec.omitEmpty /\ v[fs.index] = Zero(fs.spec.dest)))
    IN  FlattenSeq([i \in DOMAIN kept |-> <<Bulk(kept[i].spec.name), Arg(kept[i].spec.dest, v[kept[i].index])>>])

(***************************************************************************)
(* PubSubConn.Receive.  The names of the kinds are one letter and a number.*)
(***************************************************************************)
NotificationKinds == {"message", "pmessage", "subscribe", "psubscribe", "unsubscribe", "punsubscribe", "pong"}
KindName(kind) == CASE kind = "message" -> <<Letter, 1>>     [] kind = "pmessage" -> <<Letter, 2>>
                    [] kind = "subscribe" -> <<Letter, 3>>   [] kind = "psubscribe" -> <<Letter, 4>>
                    [] kind = "unsubscribe" -> <<Letter, 5>> [] kind = "punsubscribe" -> <<Letter, 6>>
                    [] kind = "pong" -> <<Letter, 7>>
KindArgs(kind) ==
    LET str == Dest("string", 0)
        num == Dest("int", IntBits)
    IN  CASE kind = "message" -> <<str, Dest("bytes", 0)>> [] kind = "pmessage" -> <<str, str, Dest("bytes", 0)>>
          [] kind = "pong" -> <<str>> [] OTHER -> <<str, num>>
PubSubReceive(r) ==
    LET name == Scan(<<Dest("string", 0)>>, Values(r).v)
        of   == {k \in NotificationKinds : KindName(k) = name.v[1]}
        kind == CHOOSE k \in of : TRUE
        args == Scan(KindArgs(kind), Tail(Values(r).v))
    IN  CASE Values(r).err # "nil" -> Failed(<<>>, Values(r).err)
          [] Values(r).err = "nil" /\ name.err # "nil" -> Failed(<<>>, name.err)
          [] OTHER -> IF of = {} THEN Failed(<<>>, "unknown") ELSE
                      IF args.err # "nil" THEN args ELSE Got([kind |-> kind, args |-> args.v])

(***************************************************************************)
(* The program: saves structs of one type under a key, reads the key into  *)
(* target, deletes it.                                                     *)
(***************************************************************************)
VARIABLES stype,    \* the type
          hash,     \* the server's hash: names to strings
          target,   \* the struct that is read into
          saves     \* what was saved since the key was deleted

scanVars == <<stype, hash, target, saves>>

ZeroStruct(s) == LET t == s.type IN [p \in DOMAIN (CHOOSE v \in s.values : TRUE) |->
                     LET f[k \in 1..Len(p)] == IF k = 1 THEN t[p[1]] ELSE f[k-1].type[p[k]]
                     IN  Zero(f[Len(p)].dest)]

ScanInit == stype \in Structs /\ hash = <<>> /\ target = ZeroStruct(stype) /\ saves = <<>>

\* The server stores what it reads of the command, pair by pair (external).
Hmset(h, args) ==
    FoldLeft(LAMBDA acc, k : (args[2*k - 1].of :> args[2*k].of) @@ acc, h, [k \in 1..Len(args) \div 2 |-> k])

SaveStruct(v) ==
    /\ Len(saves) < MaxSaves
    /\ hash' = Hmset(hash, ReadReply(WriteCommand(FlattenStruct(stype.type, v)), 1).v.of)
    /\ saves' = Append(saves, v)
    /\ UNCHANGED <<stype, target>>

Hgetall == LET names == SetToSeq(DOMAIN hash)
           IN  FlattenSeq([i \in DOMAIN names |-> <<Bulk(names[i]), Bulk(hash[names[i]])>>])
Loaded == ScanStruct(stype.type, Hgetall, target)

LoadStruct == target' = Loaded.v /\ UNCHANGED <<stype, hash, saves>>
DelKey == hash' = <<>> /\ saves' = <<>> /\ UNCHANGED <<stype, target>>

ScanNext == (\E v \in stype.values : SaveStruct(v)) \/ LoadStruct \/ DelKey

(***************************************************************************)
(* Properties.                                                             *)
(***************************************************************************)

\* What ScanStruct is to find in the field fs: what was saved last; of a field
\* that is omitted when empty the last value that was not, or what was there.
ExpectedIn(fs) ==
    LET told == {i \in DOMAIN saves : ~fs.spec.omitEmpty \/ saves[i][fs.index] # Zero(fs.spec.dest)}
        last == CHOOSE i \in told : \A j \in told : j <= i
    IN  IF told = {} THEN target[fs.index] ELSE saves[last][fs.index]
StructKept ==
    LET ss   == StructSpecForType(stype.type)
        seen == {ss.m[n].index : n \in DOMAIN ss.m}
    IN  /\ Loaded.err = "nil"
        /\ \A n \in DOMAIN ss.m : Loaded.v[ss.m[n].index] = ExpectedIn(ss.m[n])
        /\ \A p \in DOMAIN target \ seen : Loaded.v[p] = target[p]
        /\ \A i \in DOMAIN saves : ss.l # <<>> =>
               LET row == [j \in DOMAIN ss.l |-> Bulk(AsString(Arg(ss.l[j].spec.dest, saves[i][ss.l[j].index])).of)]
                   r1  == ScanSliceOfStructs(stype.type, row \o row, ZeroStruct(stype))
               IN  r1.err = "nil" /\ Len(r1.v) = 2 /\ \A j \in DOMAIN ss.l : r1.v[2][ss.l[j].index] = saves[i][ss.l[j].index]

\* reply.go and scan.go, written apart, make the same of a reply, except that nil
\* is an error to the one and leaves the variable alone for the other, and that
\* Bytes takes a status.
SameAs(a, b) == IF a.err = "nil" THEN b = a ELSE b.err # "nil"
ConversionsAgree ==
    \A r1 \in Replies \ {NilReply} :
        /\ SameAs(ReplyInt(r1), ConvertAssign(Dest("int", IntBits), r1, 0))
        /\ SameAs(ReplyUint(r1), ConvertAssign(Dest("uint", IntBits), r1, 0))
        /\ SameAs(ReplyBool(r1), ConvertAssign(Dest("bool", 0), r1, FALSE))
        /\ SameAs(ReplyString(r1), ConvertAssign(Dest("string", 0), r1, <<>>))
        /\ r1.kind = "array" =>
              /\ SameAs(Strings(r1), ScanSlice(Dest("string", 0), r1.of))
              /\ StringMap(r1).err = "nil" =>
                    \A k \in DOMAIN StringMap(r1).v : IntMap(r1).err = "nil" =>
                        IntMap(r1).v[k] = StrconvInt(StringMap(r1).v[k], IntBits).v
NotificationsRead ==
    \A p \in Pushes :
        PubSubReceive(Array(<<Bulk(KindName(p.kind))>> \o
            [i \in DOMAIN p.args |-> Arg(KindArgs(p.kind)[i], p.args[i])])) = Got(p)

\* A struct that was saved, whatever was saved and read before, is read back field
\* by field: by name from HGETALL and by position with ScanSlice, with fields of
\* embedded structs that hide each other, fields omitted when empty and a struct
\* that is used again; the conversions of reply.go agree with those of scan.go;
\* and a notification is read as what was published.
RepliesKept == StructKept /\ (saves = <<>> => ConversionsAgree /\ NotificationsRead)
=============================================================================
