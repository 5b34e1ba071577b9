------------------------------ MODULE Replies -------------------------------
(***************************************************************************)
(* Reading the replies of the CAS, byte by byte: Reader and ReadStatus     *)
(* (internal/protocol), the replies to PREPARE, EXECUTE, FETCH,            *)
(* GET_SCHEMA_INFO, the batches and the connect request.                   *)
(*                                                                         *)
(* A parser is a plan: the fields still to be read, the first next.  A     *)
(* field can end the parse with an error or change the plan (a count puts  *)
(* the fields of its items in front).  The server's side (the first part)  *)
(* is the layout the code documents, written apart from the plans.  A      *)
(* reply arrives as it was sent, cut short at any byte, or with one of its *)
(* counts wrong.                                                           *)
(***************************************************************************)
EXTENDS Integers, Sequences, FiniteSets, SequencesExt

CONSTANTS
  MaxItems,   \* bound on the columns, results and tuples of a reply
  SqlLen      \* the length of the statement that was prepared, in bytes

\* Counts and lengths are sent in four bytes.
MaxInt32 == 2147483647
RepliesConstants == MaxItems \in 0 .. MaxInt32 /\ SqlLen \in 0 .. MaxInt32

VARIABLES
  reply,    \* what the server sent, and what became of it on the way
  payload,  \* the bytes received
  off,      \* Reader.off
  plan,     \* the fields still to be read
  vals,     \* the values read
  alloc,    \* the largest slice allocated for a count, in items
  outcome   \* "parsing", "ok", "short" (ErrShortBuffer), "refused" or "server"

vars == <<reply, payload, off, plan, vals, alloc, outcome>>

-----------------------------------------------------------------------------
(* The server: fields as values and bytes (big-endian)                     *)

Versions == {1, 2, 3, 4, 5}

Bytes2(v) == <<(v \div 256) % 256, v % 256>>
Bytes4(v) == <<(v \div 16777216) % 256, (v \div 65536) % 256>> \o Bytes2(v)

F(b, v) == [b |-> b, v |-> v, opt |-> FALSE]
F8(v) == F(<<v>>, v)
F16(v) == F(Bytes2(v), v)
F32(v) == F(Bytes4(v), v)
Raw(n) == F([i \in 1 .. n |-> 7], [i \in 1 .. n |-> 7])
Optional(fs) == [i \in DOMAIN fs |-> [fs[i] EXCEPT !.opt = TRUE]]

\* A string: its NUL is counted; the empty one may also be sent as nothing.
Strings == {F(Bytes4(0), <<>>), F(Bytes4(1) \o <<0>>, <<>>), F(Bytes4(2) \o <<65, 0>>, <<65>>)}
NoString == F(Bytes4(0), <<>>)
Null == <<-1>>
\* A column value: NULL, empty, or a byte.
Values == {F(Bytes4(-1), Null), F(Bytes4(0), <<>>), F(Bytes4(1) \o <<0>>, <<0>>)}

\* The type of a column in one byte or, extended, in two.
Types == {<<F8(2)>>, <<F8(132), F8(2)>>}

SchemaColumn(type, name) == type \o <<F16(0), F32(1), name>>
PrepareColumn(type, name) ==
  SchemaColumn(type, name) \o <<NoString, name, F8(0), NoString>> \o [i \in 1 .. 7 |-> F8(0)]

PrepareColumns == {PrepareColumn(t, s) : t \in Types, s \in Strings}
SchemaColumns == {SchemaColumn(t, s) : t \in Types, s \in Strings}
UpTo(S) == UNION {[1 .. n -> S] : n \in 0 .. MaxItems}

\* A count and its items; at: where the count is among the fields.
Counted(head, items, tail) ==
  [at |-> Len(head) + 1, fields |-> head \o <<F32(Len(items))>> \o FlattenSeq(items) \o tail]

PrepareReplies ==
  {Counted(<<F32(9), F32(0), F8(21), F32(p), F8(0)>>, cols, <<>>) :
     p \in {0, SqlLen}, cols \in UpTo(PrepareColumns)}
SchemaReplies ==
  {Counted(<<F32(9), F32(2)>>, cols, <<>>) : cols \in UpTo(SchemaColumns)}

ResultInfo == <<F8(21), F32(1), Raw(8), F32(0), F32(0)>>
Tuple(i, v) == <<F32(i), Raw(8), v>>
FetchBlock(ver, tuples) ==
  <<F32(Len(tuples))>> \o FlattenSeq([i \in DOMAIN tuples |-> Tuple(i, tuples[i])])
  \o (IF ver >= 5 THEN Optional(<<F8(1)>>) ELSE <<>>)
\* rc rows, of which the reply may carry the first ones.
ExecuteReplies(ver) ==
  {Counted(<<F32(rc), F8(0)>>, [i \in 1 .. n |-> ResultInfo],
      (IF ver >= 2 THEN <<F8(0)>> ELSE <<>>) \o (IF ver >= 5 THEN <<F32(0)>> ELSE <<>>)
      \o (IF rc > 0 /\ inline THEN Optional(<<F32(0)>> \o FetchBlock(ver, tuples)) ELSE <<>>)) :
     rc \in {0, 3}, n \in 0 .. MaxItems, inline \in BOOLEAN, tuples \in UpTo(Values)}
FetchReplies(ver) ==
  {[at |-> 2, fields |-> <<F32(0)>> \o FetchBlock(ver, tuples)] : tuples \in UpTo(Values)}

BatchOk(n) == <<F32(n), F32(0), F16(0), F16(0)>>
BatchErr(s) == <<F32(-1), F32(-670), s>>
BatchReplies(ver, typed) ==
  {Counted(<<F32(0)>>,
      [i \in DOMAIN items |-> (IF typed THEN <<F8(20)>> ELSE <<>>) \o items[i]],
      IF ver >= 5 THEN <<F32(0)>> ELSE <<>>) :
     items \in UpTo({BatchOk(0), BatchOk(2)} \cup {BatchErr(s) : s \in Strings})}

\* Byte 5 of the broker's information is the version, behind its indicator bit.
Broker(ver) == LET b == <<1, 1, 1, 1, 64 + ver, 0, 0, 0>> IN F(b, b)
ConnectReplies(ver) ==
  {[at |-> 0, fields |-> <<F32(77), Broker(ver)>>
      \o (IF ver >= 4 THEN <<F32(1)>> ELSE <<>>)
      \o (IF ver >= 3 THEN <<Raw(20)>> ELSE Optional(<<F32(5)>>))]}

\* An error status: an indicator and the code, or the code alone; the message is
\* the rest.
ErrorReplies ==
  {[at |-> 0, fields |-> c \o m] :
     c \in {<<F32(-1), F32(-493)>>, <<F32(-493)>>},
     m \in {<<>>, <<F(<<65, 66, 67, 68, 69, 0>>, <<65, 66, 67, 68, 69>>)>>}}

Kinds == {"prepare", "schema", "execute", "fetch", "batch", "sqlbatch", "connect", "error"}
RepliesOf(kind, ver) ==
  CASE kind = "prepare" -> PrepareReplies
    [] kind = "schema" -> SchemaReplies
    [] kind = "execute" -> ExecuteReplies(ver)
    [] kind = "fetch" -> FetchReplies(ver)
    [] kind = "batch" -> BatchReplies(ver, FALSE)
    [] kind = "sqlbatch" -> BatchReplies(ver, TRUE)
    [] kind = "connect" -> ConnectReplies(ver)
    [] kind = "error" -> ErrorReplies

-----------------------------------------------------------------------------
(* The plans of the parsers                                                *)

\* The fields of n items; as an item has at least a byte, as many as there are
\* bytes left and one more do for any larger n.
Repeat(n, fs, left) ==
  FlattenSeq([i \in 1 .. (IF n > left THEN left + 1 ELSE n) |-> fs])

SchemaColumnPlan == <<"type", "int16", "int32", "string">>
ColumnPlan ==
  SchemaColumnPlan \o <<"string", "string", "byte", "string">> \o [i \in 1 .. 7 |-> "byte"]
TuplePlan == <<"int32", "bytes8", "value">>

Plan(kind, ver) ==
  <<"status">> \o
  CASE kind = "prepare" -> <<"int32", "byte", "paramCount", "byte", "nCols">>
    [] kind = "schema" -> <<"int32", "nSchemaCols">>
    [] kind = "execute" ->
         <<"byte", "nResults">> \o (IF ver >= 2 THEN <<"columnInfo">> ELSE <<>>)
         \o (IF ver >= 5 THEN <<"int32">> ELSE <<>>) \o <<"inline">>
    [] kind \in {"fetch", "error"} -> <<"nTuples">> \o (IF ver >= 5 THEN <<"completed">> ELSE <<>>)
    [] kind \in {"batch", "sqlbatch"} ->
         <<"nBatch">> \o (IF ver >= 5 THEN <<"int32">> ELSE <<>>)
    [] kind = "connect" -> <<"broker">>

-----------------------------------------------------------------------------
(* The reader                                                              *)

Remaining == Len(payload) - off
CanTake(n) == n >= 0 /\ off + n <= Len(payload)
Taken(at, n) == SubSeq(payload, at + 1, at + n)

Signed(b) == IF b >= 128 THEN b - 256 ELSE b
Int16At(at) == Signed(payload[at + 1]) * 256 + payload[at + 2]
Int32At(at) ==
  Signed(payload[at + 1]) * 16777216 + payload[at + 2] * 65536
  + payload[at + 3] * 256 + payload[at + 4]

Size(f) ==
  CASE f \in {"byte", "type", "columnInfo", "completed"} -> 1
    [] f = "int16" -> 2
    [] f \in {"bytes8", "broker"} -> 8
    [] f = "bytes20" -> 20
    [] OTHER -> 4

ValueAt(f) ==
  CASE Size(f) = 1 -> payload[off + 1]
    [] Size(f) = 2 -> Int16At(off)
    [] Size(f) = 4 -> Int32At(off)
    [] OTHER -> Taken(off, Size(f))

TrimNul(b) == IF b # <<>> /\ Last(b) = 0 THEN Front(b) ELSE b

\* The smallest size of an item: minColumnWireBytes, minSchemaColumnWireBytes,
\* minBatchResultBytes.
MinItem(f) == CASE f = "nCols" -> 28 [] f = "nSchemaCols" -> 11 [] f = "nBatch" -> 12

\* Mutant of CountFits: a count is used as it comes.
Unguarded(f, v, left) == TRUE

CountFits(f, v, left) == v >= 0 /\ v * MinItem(f) <= left

Version(b) == IF (b[5] \div 64) % 2 = 1 THEN b[5] % 64 ELSE 0

\* The fields that reading v for field f puts in front of the rest.
Items(kind, f, v, left) ==
  CASE f = "type" /\ v >= 128 -> <<"byte">>
    [] f = "nCols" -> Repeat(v, ColumnPlan, left)
    [] f = "nSchemaCols" -> Repeat(v, SchemaColumnPlan, left)
    [] f = "nResults" -> Repeat(v, <<"byte", "int32", "bytes8", "int32", "int32">>, left)
    [] f = "nTuples" -> Repeat(v, TuplePlan, left)
    [] f = "nBatch" -> Repeat(v, IF kind = "sqlbatch" THEN <<"byte", "result">>
                               ELSE <<"result">>, left)
    [] f = "result" -> IF v < 0 THEN <<"int32", "string">> ELSE <<"int32", "int16", "int16">>
    [] f = "broker" ->
         (IF Version(v) >= 4 THEN <<"int32">> ELSE <<>>)
         \o (IF Version(v) >= 3 THEN <<"bytes20">> ELSE <<"legacy">>)
    [] OTHER -> <<>>

Refuses(f, v, left) ==
  \/ f \in {"nCols", "nSchemaCols", "nBatch"} /\ ~CountFits(f, v, left)
  \/ f = "paramCount" /\ (v < 0 \/ v > SqlLen)
  \/ f = "columnInfo" /\ v = 1

\* Mutant of Skipped: whatever is left at the end may be absent.
AnyTrailing(f) ==
  \/ f = "completed" /\ Remaining < 1
  \/ f \in {"legacy", "int32"} /\ Remaining < 4
  \/ f = "inline" /\ (vals[1] <= 0 \/ Remaining <= 4)

\* A field that is read only when enough is left for it.
Skipped(f) ==
  \/ f = "completed" /\ Remaining < 1
  \/ f = "legacy" /\ Remaining < 4
  \/ f = "inline" /\ (vals[1] <= 0 \/ Remaining <= 4)

\* The replies that are the same in every version are tried in one.
Init ==
  \E kind \in Kinds, ver \in Versions :
    /\ kind \in {"prepare", "schema", "error"} => ver = 5
    /\ \E r \in RepliesOf(kind, ver) :
      LET bytes == FlattenSeq([i \in DOMAIN r.fields |-> r.fields[i].b])
          upTo(i) == Len(FlattenSeq([j \in 1 .. i - 1 |-> r.fields[j].b]))
          is(fault) == reply = [kind |-> kind, ver |-> ver, fields |-> r.fields, fault |-> fault]
      IN /\ \/ is("none") /\ payload = bytes
            \/ is("cut") /\ \E k \in 0 .. Len(bytes) - 1 : payload = SubSeq(bytes, 1, k)
            \/ /\ is("count") /\ r.at > 0
               /\ \E v \in {-1, r.fields[r.at].v + 1, 9} :
                    payload = SubSeq(bytes, 1, upTo(r.at)) \o Bytes4(v)
                              \o SubSeq(bytes, upTo(r.at) + 5, Len(bytes))
         /\ off = 0 /\ plan = Plan(kind, ver) /\ vals = <<>> /\ alloc = 0 /\ outcome = "parsing"

\* The slice made for a count; a CALL_SP's columns are padded to one more than
\* its parameters.
SliceLen(f, v) == IF f = "paramCount" THEN v + 1 ELSE v

\* Take the field f of n bytes at off as the value v, and go on with its items.
Accept(f, n, v) ==
  /\ off' = off + n
  /\ vals' = Append(vals, v)
  /\ outcome' = IF Refuses(f, v, Remaining - n) THEN "refused" ELSE "parsing"
  /\ IF Refuses(f, v, Remaining - n) THEN UNCHANGED <<plan, alloc>>
     ELSE /\ plan' = Items(reply.kind, f, v, Remaining - n) \o Tail(plan)
          /\ alloc' = IF f \in {"nCols", "nSchemaCols", "nBatch", "paramCount"} 
                         /\ (SliceLen(f, v) > alloc \/ v < 0)
                      THEN SliceLen(f, v) ELSE alloc
  /\ UNCHANGED <<reply, payload>>

Ends(how) == outcome' = how /\ UNCHANGED <<reply, payload, off, plan, vals, alloc>>

Parsing(fs) == outcome = "parsing" /\ plan # <<>> /\ Head(plan) \in fs

\* ReadStatus: a negative status is the server's error; its code is the second
\* number if that is there and negative.
ReadError(rc) ==
  LET second == IF Remaining >= 8 THEN Int32At(off + 4) ELSE 0
  IN /\ vals' = <<IF second < 0 THEN second ELSE rc>>
     /\ outcome' = "server" /\ off' = Len(payload)
     /\ UNCHANGED <<reply, payload, plan, alloc>>

ReadStatus ==
  /\ Parsing({"status"})
  /\ IF ~CanTake(4) THEN Ends("short")
     ELSE IF Int32At(off) < 0 THEN ReadError(Int32At(off))
     ELSE Accept("status", 4, Int32At(off))

ReadField ==
  /\ outcome = "parsing" /\ plan # <<>>
  /\ Head(plan) \notin {"status", "string", "value", "inline"} /\ ~Skipped(Head(plan))
  /\ IF ~CanTake(Size(Head(plan))) THEN Ends("short")
     ELSE Accept(Head(plan), Size(Head(plan)), ValueAt(Head(plan)))

\* A length and that many bytes; no bytes for a length that is not positive, and
\* for a column value a negative one is NULL.
ReadSized ==
  /\ Parsing({"string", "value"})
  /\ LET f == Head(plan)
         n == Int32At(off)
         body == Taken(off + 4, n)
     IN IF ~CanTake(4) \/ (n > 0 /\ ~CanTake(4 + n)) THEN Ends("short")
        ELSE IF n < 0 THEN Accept(f, 4, IF f = "value" THEN Null ELSE <<>>)
        ELSE Accept(f, 4 + n, IF f = "string" THEN TrimNul(body) ELSE body)

Skip ==
  /\ outcome = "parsing" /\ plan # <<>> /\ Skipped(Head(plan))
  /\ plan' = Tail(plan)
  /\ UNCHANGED <<reply, payload, off, vals, alloc, outcome>>

\* The rows that come with the reply to EXECUTE.
Inline ==
  /\ Parsing({"inline"}) /\ ~Skipped("inline")
  /\ plan' = <<"int32", "nTuples">> \o (IF reply.ver >= 5 THEN <<"completed">> ELSE <<>>)
  /\ UNCHANGED <<reply, payload, off, vals, alloc, outcome>>

Done == outcome = "parsing" /\ plan = <<>> /\ Ends("ok")

Next == ReadStatus \/ ReadField \/ ReadSized \/ Skip \/ Inline \/ Done

Spec == Init /\ [][Next]_vars

-----------------------------------------------------------------------------
(* Properties                                                              *)

Sent == [i \in DOMAIN reply.fields |-> reply.fields[i].v]

\* CompleteParses: a reply that arrives as it was sent is read to its last byte
\* into the values the server sent, in every protocol version, with strings with
\* and without a NUL and columns of the smallest size (the limits on the counts
\* refuse none), and a server error keeps its code (prepare, execute,
\* consumeFetch, SchemaInfo, ParseBatchResponse, ParseConnectReply, ReadStatus).
CompleteParses ==
  reply.fault = "none" /\ outcome # "parsing" =>
    IF reply.kind = "error" THEN outcome = "server" /\ vals = <<-493>>
    ELSE outcome = "ok" /\ off = Len(payload) /\ vals = Sent

\* CutIsNoticed: a reply that was cut short is an error, or what is missing is no
\* more than a part that may be absent (the inline rows, the fetch-completed
\* byte, the session id of old brokers); no value is made up.
CutIsNoticed ==
  reply.fault = "cut" /\ outcome = "ok" =>
    /\ IsPrefix(vals, Sent)
    /\ \A i \in Len(vals) + 1 .. Len(Sent) : reply.fields[i].opt

\* AllocBounded: whatever a count says, no slice is made with a negative length
\* or with more items than the reply has bytes, or than one for each character of
\* the statement and the statement slot of a CALL.
AllocBounded == alloc >= 0 /\ (alloc <= Len(payload) \/ alloc <= SqlLen + 1)
=============================================================================
