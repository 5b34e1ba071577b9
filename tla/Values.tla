------------------------------- MODULE Values -------------------------------
(***************************************************************************)
(* Values on their way to the server and back: binding (encodeArg,         *)
(* EncodeParam, encodeCollectionParam), the column metadata                *)
(* (readColumnType, Column.decodeType, TypeName), decoding (DecodeValue    *)
(* and what it calls) and the adapter's widening and scan types.           *)
(*                                                                         *)
(* A Go value is <<type, contents>>.  Integers are scaled down: a short,   *)
(* an int and a long are 2, 4 and 8 bits, kept as that many "bytes", so    *)
(* that two's complement is worked out and every value is tried.  A time   *)
(* is its wall-clock fields, the fraction of a millisecond and its zone;   *)
(* on the wire each field is one short.  A collection on the wire is its   *)
(* element type and its elements, and has the size of its header.          *)
(***************************************************************************)
EXTENDS Integers, Sequences, FiniteSets, SequencesExt

CONSTANT MaxDepth  \* maxCollectionDepth

ValuesConstants == MaxDepth \in Nat \ {0}

VARIABLES
  given,  \* the Go value bound, or the value a server column holds
  col,    \* the column on the server: its type, collection kind and form
  data,   \* the value on the wire
  seen,   \* the column as the driver read it
  got,    \* the value decoded
  out,    \* the value the adapter delivers
  phase   \* how far it has come; "refused": an error was returned instead

vars == <<given, col, data, seen, got, out, phase>>

Nil == <<"nil", 0>>
None == [code |-> 0, coll |-> 0, form |-> "none"]

(* The type codes (types.go).                                              *)
TNull == 0
TVarchar == 2
TVarbit == 6
TNumeric == 7
TInt == 8
TShort == 9
TMonetary == 10
TFloat == 11
TDouble == 12
TDate == 13
TTime == 14
TTimestamp == 15
TSequence == 18
TObject == 19
TBigint == 21
TDatetime == 22
TJSON == 34
Chars == {1, 2, 3, 4, 25, TNumeric}
Bits == {5, 6}
Ints == {TInt, 27}
Shorts == {TShort, 26}
Bigints == {TBigint, 28}
Collections == {16, 17, TSequence}
Times == {TDate, TTime, TTimestamp, TDatetime}
Zoned == {29, 30, 31, 32}
Lobs == {23, 24}
Codes == (0 .. 32) \cup {TJSON}

Width(code) ==
  IF code \in Shorts THEN 2 ELSE IF code \in Ints \cup {TFloat} THEN 4 ELSE 8

-----------------------------------------------------------------------------
(* Bytes                                                                   *)

Weight == <<1, 2, 4, 8, 16, 32, 64, 128>>
Digits(v, n) == [i \in 1 .. n |-> (v \div Weight[n - i + 1]) % 2]
Signed(b) ==
  LET first[i \in 0 .. Len(b)] ==
        IF i = 0 THEN 0 ELSE 2 * first[i - 1] + (IF i = 1 THEN -b[1] ELSE b[i])
  IN first[Len(b)]

TrimNul(b) == SubSeq(b, 1, SelectLastInSeq(b, LAMBDA c : c # 0))

-----------------------------------------------------------------------------
(* Binding                                                                 *)

WireType(k) ==
  CASE k = "nil" -> TNull
    [] k \in {"bool", "int16"} -> TShort
    [] k = "int32" -> TInt
    [] k \in {"int", "int64"} -> TBigint
    [] k = "float32" -> TFloat
    [] k = "float64" -> TDouble
    [] k = "string" -> TVarchar
    [] k = "bytes" -> TVarbit
    [] k = "time" -> TDatetime
    [] OTHER -> -1

\* A time is bound as its wall-clock fields to the millisecond, without a zone.
Scalar(x) ==
  CASE x[1] \in {"bool", "int16", "int32", "int", "int64", "float32", "float64"} ->
         Digits(x[2], Width(WireType(x[1])))
    [] x[1] = "string" -> x[2] \o <<0>>
    [] x[1] = "bytes" -> x[2]
    [] x[1] = "time" -> x[2].wall

Collection(t, es) == [et |-> t, elems |-> es]
Elem(body, size) == [size |-> size, body |-> body]
\* NULL is a size of zero in a request and in a collection, -1 in a row.
NullElem == Elem(<<>>, 0)
NullColumn == Elem(<<>>, -1)

ElemTypes(xs) == {WireType(xs[i][1]) : i \in {i \in DOMAIN xs : xs[i] # Nil}}
\* Elements of one wire type, not all of them nil, none a collection.
Bindable(xs) ==
  /\ -1 \notin ElemTypes(xs) /\ Cardinality(ElemTypes(xs)) <= 1
  /\ xs # <<>> => ElemTypes(xs) # {}

EncodeCollection(xs) ==
  Collection(IF ElemTypes(xs) = {} THEN TObject ELSE CHOOSE t \in ElemTypes(xs) : TRUE,
             [i \in DOMAIN xs |-> IF xs[i] = Nil THEN NullElem
                                  ELSE Elem(Scalar(xs[i]), Len(Scalar(xs[i])))])

\* encodeArg: Numeric travels as its string.
Bound(x) == IF x[1] = "Numeric" THEN <<"string", x[2]>> ELSE x

\* The bind, and the server's storing of the value in a column of the type it was
\* announced with.  The server takes an argument without bytes as NULL.
Encode ==
  /\ phase = "given"
  /\ LET x == Bound(given)
         refused == IF x[1] = "slice" THEN ~Bindable(x[2]) ELSE WireType(x[1]) = -1
     IN IF refused
        THEN phase' = "refused" /\ UNCHANGED <<col, data>>
        ELSE /\ phase' = "stored"
             /\ data' = IF x[1] = "slice" THEN Elem(EncodeCollection(x[2]), 5)
                        ELSE IF x = Nil \/ Scalar(x) = <<>> THEN NullColumn
                        ELSE Elem(Scalar(x), Len(Scalar(x)))
             /\ \E form \in {"extended", "legacy"} :
                  col' = IF x[1] = "slice"
                         THEN [code |-> data'.body.et, coll |-> 3, form |-> form]
                         ELSE [code |-> WireType(x[1]), coll |-> 0, form |-> form]
  /\ UNCHANGED <<given, seen, got, out>>

-----------------------------------------------------------------------------
(* Column metadata                                                         *)

\* The server's type field: two bytes, or one for types below 32.
TypeField(c) ==
  IF c.form = "legacy" THEN <<c.coll * 32 + c.code>> ELSE <<128 + c.coll * 32 + 5, c.code>>

\* Mutant of ReadColumnType: the collection bits of the one-byte form are not masked.
LegacyUnmasked(b) ==
  IF b[1] >= 128 THEN [code |-> b[2], coll |-> (b[1] \div 32) % 4]
  ELSE [code |-> b[1], coll |-> b[1] \div 32]

ReadColumnType(b) ==
  IF b[1] >= 128 THEN [code |-> b[2], coll |-> (b[1] \div 32) % 4]
  ELSE [code |-> b[1] % 32, coll |-> b[1] \div 32]

\* The same field as a number, in the rows of SCH_ATTRIBUTE.
SchemaTypeCode(v) == IF (v \div 32768) % 2 = 1 THEN v % 256 ELSE (v % 256) % 32
AsNumber(b) == IF Len(b) = 2 THEN b[1] * 256 + b[2] ELSE b[1]

DecodeType(c) == IF c.coll = 0 THEN c.code ELSE 15 + c.coll

Name(code) ==
  CASE code \in {1, 2, 3, 4, 25, TNumeric} -> "text"
    [] code \in Bits -> "bits"
    [] code \in Ints \cup Shorts \cup Bigints -> "integer"
    [] code \in {TFloat, TDouble, TMonetary} -> "floating"
    [] code \in Times \cup Zoned -> "time"
    [] code \in Collections -> "collection"
    [] code \in Lobs -> "lob"
    [] code = TJSON -> "json"
    [] OTHER -> "other"
\* ColumnTypeScanType by way of TypeName: the Go type it announces.
ScanType(c) ==
  LET n == IF c.coll = 0 THEN Name(c.code) ELSE "collection"
  IN CASE n = "text" -> "string" [] n \in {"bits", "json", "lob"} -> "bytes"
       [] n = "integer" -> "int64" [] n = "floating" -> "float64"
       [] n = "time" -> "time" [] n = "collection" -> "slice" [] OTHER -> "any"

-----------------------------------------------------------------------------
(* Decoding                                                                *)

Refused == <<"error", 0>>

\* Wall-clock fields by type: year to day, hour to second, or all of them.
Fields(code) ==
  CASE code \in {TDate, TTime} -> 3 [] code \in {TTimestamp, 29, 30} -> 6 [] OTHER -> 7
WallOf(code, f) ==
  CASE code = TDate -> f \o <<0, 0, 0, 0>>
    [] code = TTime -> <<1, 1, 1>> \o f \o <<0>>
    [] Fields(code) = 6 -> f \o <<0>>
    [] OTHER -> f

\* An IANA name, an offset, none, or one that cannot be resolved.
Zones == {"Asia/Seoul", "+09:00", "", "nowhere"}
LookupZone(z) == IF z \in {"", "nowhere"} THEN "UTC" ELSE z

Time(wall, zone) == <<"time", [wall |-> wall, frac |-> 0, zone |-> zone]>>

\* Levels(x, Inside)[d]: what lies d levels deep in x, Inside(y) being what y holds.
Levels(x, Inside(_)) ==
  LET level[d \in 0 .. MaxDepth + 1] ==
        IF d = 0 THEN {x} ELSE UNION {Inside(y) : y \in level[d - 1]}
  IN level

DecodeScalar(code, b) ==
  CASE code \in Chars -> <<"string", TrimNul(b)>>
    [] code = TJSON -> <<"bytes", TrimNul(b)>>
    [] code \in Ints -> <<"int32", Signed(b)>>
    [] code \in Shorts -> <<"int16", Signed(b)>>
    [] code \in Bigints -> <<"int64", Signed(b)>>
    [] code = TFloat -> <<"float32", Signed(b)>>
    [] code \in {TDouble, TMonetary} -> <<"float64", Signed(b)>>
    [] code \in Bits -> <<"bytes", b>>
    [] code \in Times -> Time(WallOf(code, b), "UTC")
    [] code \in Zoned -> Time(WallOf(code, b.wall), LookupZone(b.zone))
    [] OTHER -> Refused

TooDeep(depth) == depth >= MaxDepth

\* A part of a value on the wire: its type and its bytes.  The elements that are
\* not NULL are the parts of a collection, all of its element type.
Part(code, b) == <<code, b>>
Elements(p) ==
  IF p[1] \in Collections
  THEN {Part(p[2].et, p[2].elems[i].body) : i \in {i \in DOMAIN p[2].elems : p[2].elems[i].size > 0}}
  ELSE {}

\* deeper: the parts one level down, decoded.
DecodeCollection(c, depth, deeper) ==
  LET v(i) == IF c.elems[i].size <= 0 THEN Nil ELSE deeper[Part(c.et, c.elems[i].body)]
  IN IF TooDeep(depth) \/ \E i \in DOMAIN c.elems : v(i)[1] = "error" THEN Refused
     ELSE <<"slice", [i \in DOMAIN c.elems |-> v(i)]>>
Decode(code, b) ==
  LET parts == Levels(Part(code, b), Elements)
      decoded[d \in 0 .. MaxDepth + 1] ==
        [p \in parts[d] |-> IF p[1] \in Collections THEN DecodeCollection(p[2], d, decoded[d + 1])
                            ELSE DecodeScalar(p[1], p[2])]
  IN decoded[0][Part(code, b)]

\* A value with its type in front, in one byte or two.
SelfDescribed(prefix, b) ==
  LET t == IF prefix[1] < 128 THEN prefix[1]
           ELSE IF (prefix[1] \div 32) % 4 = 0 THEN prefix[2] ELSE 15 + ((prefix[1] \div 32) % 4)
  IN IF t = TNull THEN Nil ELSE Decode(t, b)

Prepare ==
  /\ phase = "stored"
  /\ LET c == ReadColumnType(TypeField(col))
     IN seen' = [code |-> c.code, coll |-> c.coll, form |-> col.form]
  /\ phase' = "prepared"
  /\ UNCHANGED <<given, col, data, got, out>>

\* One column of consumeFetch; the columns of a CALL are all decoded as those of
\* type TNull are.
Fetch ==
  /\ phase = "prepared"
  /\ LET t == DecodeType(seen)
         v == IF data.size < 0 THEN Nil
              ELSE IF t = TNull THEN SelfDescribed(data.body[1], data.body[2])
              ELSE IF t \in Lobs THEN <<"Lob", data.body>>
              ELSE Decode(t, data.body)
     IN got' = v /\ phase' = IF v[1] = "error" THEN "refused" ELSE "fetched"
  /\ UNCHANGED <<given, col, data, seen, out>>

\* toDriverValue, and what it does with a value that is no collection.
Widen(v) ==
  CASE v[1] \in {"int16", "int32"} -> <<"int64", v[2]>>
    [] v[1] = "float32" -> <<"float64", v[2]>>
    [] v[1] = "Lob" -> <<"bytes", v[2]>>
    [] OTHER -> v
\* Mutant of ToDriverValue: the elements of a collection are not widened.
TopLevelOnly(v) == Widen(v)

Members(v) == IF v[1] = "slice" THEN ToSet(v[2]) ELSE {}
\* No value that was decoded has collections more than MaxDepth deep.
ToDriverValue(v) ==
  LET values == Levels(v, Members)
      widened[d \in 0 .. MaxDepth] ==
        [x \in values[d] |->
           IF x[1] = "slice" /\ d < MaxDepth
           THEN <<"slice", [i \in DOMAIN x[2] |-> widened[d + 1][x[2][i]]]>>
           ELSE Widen(x)]
  IN widened[0][v]

Deliver ==
  /\ phase = "fetched"
  /\ out' = ToDriverValue(got)
  /\ phase' = "delivered"
  /\ UNCHANGED <<given, col, data, seen, got>>

-----------------------------------------------------------------------------
(* The values tried                                                        *)

Strs == UNION {[1 .. n -> {0, 1}] : n \in 0 .. 2}
Wall == <<3, 2, 1, 4, 5, 6, 7>>
Scalars ==
  {Nil} \cup ({"bool"} \X {0, 1}) \cup ({"int16"} \X (-2 .. 1)) \cup ({"int32", "float32"} \X (-8 .. 7))
  \cup ({"int", "int64", "float64"} \X (-128 .. 127))
  \cup ({"string", "bytes", "Numeric"} \X Strs) \cup {<<"unsupported", 0>>}
  \cup ({"time"} \X [wall : {Wall}, frac : {0, 1}, zone : {"UTC", "Asia/Seoul"}])
ElementValues ==
  {Nil, <<"bool", 1>>, <<"int16", -2>>, <<"int32", -8>>, <<"string", <<>>>>, <<"string", <<1>>>>,
   <<"bytes", <<>>>>, <<"bytes", <<1>>>>, <<"Numeric", <<1>>>>, <<"slice", <<>>>>}
Slices == {"slice"} \X UNION {[1 .. n -> ElementValues] : n \in 0 .. 3}

\* What a server column of the type can hold, and collections nested n deep.
RawOf(code) ==
  CASE code \in Chars \cup {TJSON} -> {<<1, 0>>}
    [] code \in Bits \cup Lobs -> {<<1>>}
    [] code \in Times -> {[i \in 1 .. Fields(code) |-> i]}
    [] code \in Zoned -> [wall : {[i \in 1 .. Fields(code) |-> i]}, zone : Zones]
    [] code \in Collections -> {Collection(TInt, <<Elem(Digits(1, 4), 4), NullElem>>)}
    [] code = TNull -> {<<<<TShort>>, Digits(1, 2)>>,
                        <<<<133, TShort>>, Digits(1, 2)>>,
                        <<<<TNull>>, <<>>>>,
                        <<<<165, TInt>>, Collection(TInt, <<NullElem>>)>>}
    [] OTHER -> {Digits(1, Width(code))}

Nested[n \in 1 .. MaxDepth + 1] ==
  IF n = 1 THEN Collection(TInt, <<Elem(Digits(1, 4), 4)>>)
  ELSE Collection(TSequence, <<Elem(Nested[n - 1], 5)>>)

Init ==
  /\ seen = None /\ got = Nil /\ out = Nil
  /\ \/ given \in Scalars \cup Slices /\ col = None /\ data = NullColumn /\ phase = "given"
     \/ /\ given = Nil /\ phase = "stored"
        /\ \E code \in Codes, coll \in 0 .. 3, form \in {"extended", "legacy"} :
             /\ form = "legacy" => code < 32
             /\ col = [code |-> code, coll |-> coll, form |-> form]
             /\ \/ data = NullColumn
                \/ \E b \in RawOf(IF coll = 0 THEN code ELSE TSequence) : data = Elem(b, 1)
     \/ \E n \in 1 .. MaxDepth + 1 :
          /\ given = <<"nested", n>> /\ phase = "stored"
          /\ col = [code |-> TSequence, coll |-> 3, form |-> "extended"]
          /\ data = Elem(Nested[n], 5)

Next == Encode \/ Prepare \/ Fetch \/ Deliver
Spec == Init /\ [][Next]_vars

-----------------------------------------------------------------------------
(* Properties                                                              *)

\* What comes back of a bound value: integers and floats widened, strings without
\* trailing NULs, times to the millisecond with their wall clock read as UTC, and
\* a value that takes no bytes as NULL.
ExpectedScalar(x) ==
  CASE x[1] \in {"bool", "int16", "int32", "int", "int64"} -> <<"int64", x[2]>>
    [] x[1] \in {"float32", "float64"} -> <<"float64", x[2]>>
    [] x[1] \in {"string", "Numeric"} -> <<"string", TrimNul(x[2])>>
    [] x[1] = "bytes" -> IF x[2] = <<>> THEN Nil ELSE x
    [] x[1] = "time" -> Time(x[2].wall, "UTC")
    [] OTHER -> x
Expected(x) ==
  IF x[1] = "slice" THEN <<"slice", [i \in DOMAIN x[2] |-> ExpectedScalar(x[2][i])]>>
  ELSE ExpectedScalar(x)

\* RoundTrip: a value that was accepted for binding comes back through a column of
\* its type as the same value, each element of a collection at its place, whatever
\* form the column's type had (EncodeParam, encodeCollectionParam, DecodeValue,
\* toDriverValue).
RoundTrip ==
  phase = "delivered" /\ given # Nil /\ given[1] # "nested" => out = Expected(given)

\* ScanTypeAgrees: a value that is delivered has the Go type the column announced
\* (ColumnTypeScanType), for every type and collection kind, and the driver reads
\* each form of the type field as the server meant it, in a result and in the
\* catalogue (readColumnType, schemaTypeCode).
ScanTypeAgrees ==
  /\ phase = "delivered" => \/ out = Nil \/ ScanType(seen) = "any"
                            \/ out[1] = ScanType(seen)
  /\ phase = "prepared" => /\ seen = col
                           /\ SchemaTypeCode(AsNumber(TypeField(col))) = col.code

\* DepthCapped: collections nested up to maxCollectionDepth deep are delivered,
\* deeper ones are an error before the decoder goes any deeper.
DepthCapped ==
  given[1] = "nested" =>
    /\ phase = "delivered" => given[2] <= MaxDepth
    /\ phase = "refused" => given[2] > MaxDepth
=============================================================================
