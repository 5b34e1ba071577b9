------------------------------- MODULE Schema -------------------------------
(***************************************************************************)
(* Schema introspection (cubrid/schema.go): Tables, Columns, PrimaryKey,   *)
(* Indexes, ImportedKeys and ExportedKeys, each one or two GET_SCHEMA_INFO *)
(* requests whose rows are pulled from a server handle and mapped.         *)
(*                                                                         *)
(* The catalogue is any one a server could hold; the server may emit the   *)
(* rows of a request in any order (with KEY_ORDER in them) or the columns  *)
(* of each index in key order (without).  A table name given as a pattern  *)
(* also selects the tables its '_' wildcards match (Siblings).  Names are  *)
(* already unqualified; of a row only what the helpers use is kept.        *)
(***************************************************************************)
EXTENDS Integers, Sequences, FiniteSets, SequencesExt

CONSTANTS
  Tables,    \* the names of the user's tables
  Siblings,  \* Siblings[t]: the tables that t matches when taken as a pattern
  Cols,      \* column names
  MaxOrphans \* bound on the handles left open on the server

SchemaConstants ==
  /\ MaxOrphans \in Nat
  /\ Siblings \in [Tables -> SUBSET Tables]
  /\ \A t \in Tables : t \in Siblings[t]

VARIABLES
  catalog,  \* the server's catalogue
  bad,      \* Conn.bad
  handles,  \* request handles open on the server
  orphans,  \* those of unparsable replies and of rejected CLOSEs
  call,     \* the introspection call in progress
  result    \* what the last call returned

vars == <<catalog, bad, handles, orphans, call, result>>

Fns == {"Tables", "Columns", "PrimaryKey", "Indexes", "ImportedKeys", "ExportedKeys"}

KeyCols == {s \in UNION {[1 .. n -> Cols] : n \in 0 .. Cardinality(Cols)} : IsInjective(s)}
Indexed == {"i1", "i2"}
UniqueIndexes == {"i1"}

\* idx[i]: the columns of index i of any table; <<>>: there is no index i.
\* listed: the server lists the primary key's index among the constraints.
\* ordered: its constraint rows carry KEY_ORDER.
Catalogs ==
  [idx : {f \in [Indexed -> KeyCols] : Len(f["i2"]) <= 1},
   pk : {f \in [Tables -> KeyCols] : \A t \in Tables : Siblings[t] = {t} => Len(f[t]) = 1},
   listed : BOOLEAN, ordered : BOOLEAN]

\* A row of any family.
Row(t, name, col, n, unique, primary) ==
  [table |-> t, name |-> name, col |-> col, n |-> n, unique |-> unique, primary |-> primary]

PkRows(t) ==
  {Row(t, <<"pk", t>>, catalog.pk[t][k], k, TRUE, TRUE) : k \in DOMAIN catalog.pk[t]}
ConstraintRows(t) ==
  UNION {{Row(t, <<"ix", i>>, catalog.idx[i][k], k, i \in UniqueIndexes, FALSE) :
             k \in DOMAIN catalog.idx[i]} : i \in Indexed}
  \cup (IF catalog.listed THEN {[r EXCEPT !.primary = FALSE] : r \in PkRows(t)} ELSE {})

RowsOf(family, t) ==
  CASE family = "class" -> {Row(t, <<"class", t>>, "", 0, FALSE, FALSE)}
    [] family = "attribute" -> {Row(t, <<"class", t>>, c, 0, FALSE, FALSE) : c \in Cols}
    [] family = "primary key" -> PkRows(t)
    [] family = "constraint" -> ConstraintRows(t)
    [] family = "foreign key" -> {Row(t, <<"fk", t>>, c, 1, FALSE, FALSE) : c \in Cols}

\* Whether the class argument of a request is a name or a LIKE pattern.
ArgPattern(family) == family \in {"class", "primary key", "foreign key"}

\* What the server selects; Tables passes no class argument at all.
Selected(family, t) ==
  IF family = "class" THEN Tables ELSE IF ArgPattern(family) THEN Siblings[t] ELSE {t}

NoCall == [fn |-> "none", arg |-> "", family |-> "", phase |-> "idle",
           todo |-> {}, got |-> <<>>, kept |-> <<>>]
NoResult == [fn |-> "none", arg |-> "", err |-> FALSE, rows |-> <<>>]

Init ==
  /\ catalog \in Catalogs
  /\ bad = FALSE /\ handles = 0 /\ orphans = 0
  /\ call = NoCall /\ result = NoResult

-----------------------------------------------------------------------------
(* The client-side mapping                                                 *)

\* The place of row k in its index: KEY_ORDER, or else its arrival.
KeyOrder(rows, k) ==
  IF catalog.ordered THEN rows[k].n
  ELSE Cardinality({j \in 1 .. k - 1 : rows[j].name = rows[k].name})

ByArrival(rows, S) ==
  [j \in 1 .. Cardinality(S) |-> rows[SetToSortSeq(S, <)[j]].col]
ColumnsOf(rows, S) ==
  LET before(a, b) == \/ KeyOrder(rows, a) < KeyOrder(rows, b)
                      \/ KeyOrder(rows, a) = KeyOrder(rows, b) /\ a < b
      sorted == SetToSortSeq(S, before)
  IN [j \in DOMAIN sorted |-> rows[sorted[j]].col]

\* One IndexInfo per index name, in the order the names first appeared.
Grouped(rows) ==
  LET firsts == {k \in DOMAIN rows : \A j \in 1 .. k - 1 : rows[j].name # rows[k].name}
      order == SetToSortSeq(firsts, <)
  IN [i \in DOMAIN order |->
        [name |-> rows[order[i]].name, unique |-> rows[order[i]].unique,
         columns |-> ColumnsOf(rows, {k \in DOMAIN rows : rows[k].name = rows[order[i]].name}),
         primary |-> rows[order[i]].primary]]

\* Mutant of OwnRows: the rows of the pattern request are not filtered.
Unfiltered(rows, t) == rows

OwnRows(rows, t) == SelectSeq(rows, LAMBDA r : r.table = t)

\* Indexes' merge of the primary key: its listed index is marked, or one is
\* made from its rows and put first.
MergePrimaryKey(out, rows, t) ==
  LET pk == SortSeq(OwnRows(rows, t), LAMBDA a, b : a.n < b.n)
      listed == {i \in DOMAIN out : out[i].name = pk[1].name}
  IN IF pk = <<>> THEN out
     ELSE IF listed # {}
     THEN [i \in DOMAIN out |->
             IF i \in listed THEN [out[i] EXCEPT !.primary = TRUE, !.unique = TRUE] ELSE out[i]]
     ELSE <<[name |-> pk[1].name, unique |-> TRUE, columns |-> [j \in DOMAIN pk |-> pk[j].col],
             primary |-> TRUE]>> \o out

-----------------------------------------------------------------------------
(* The calls                                                               *)

Family(fn) ==
  CASE fn = "Tables" -> "class"
    [] fn = "Columns" -> "attribute"
    [] fn = "PrimaryKey" -> "primary key"
    [] fn = "Indexes" -> "constraint"
    [] fn \in {"ImportedKeys", "ExportedKeys"} -> "foreign key"

Call(fn, t) ==
  /\ call = NoCall
  /\ call' = [NoCall EXCEPT !.fn = fn, !.arg = t, !.family = Family(fn), !.phase = "request"]
  /\ result' = NoResult
  /\ UNCHANGED <<catalog, bad, handles, orphans>>

ReturnErr ==
  /\ call' = NoCall
  /\ result' = [fn |-> call.fn, arg |-> call.arg, err |-> TRUE, rows |-> <<>>]

\* SchemaInfo: the request is answered with a new handle, by an error, by a
\* reply that cannot be parsed, or not at all.
SchemaInfo ==
  /\ call.phase = "request" /\ ~bad
  /\ handles' = handles + 1
  /\ call' = [call EXCEPT !.phase = "rows", !.got = <<>>,
       !.todo = UNION {RowsOf(call.family, t) : t \in Selected(call.family, call.arg)}]
  /\ UNCHANGED <<catalog, bad, orphans, result>>

SchemaInfoError ==
  /\ call.phase = "request"
  /\ ReturnErr
  /\ \/ ~bad /\ UNCHANGED <<bad, handles, orphans>>
     \/ /\ ~bad /\ orphans < MaxOrphans
        /\ handles' = handles + 1 /\ orphans' = orphans + 1 /\ UNCHANGED bad
     \/ bad' = TRUE /\ UNCHANGED <<handles, orphans>>
  /\ UNCHANGED catalog

\* Rows.Next delivers the next row, and the callback takes it.
NextRow(r) ==
  /\ call.phase = "rows" /\ r \in call.todo
  /\ call.family = "constraint" /\ ~catalog.ordered =>
       \A q \in call.todo : q.name = r.name => r.n <= q.n
  /\ call' = [call EXCEPT !.todo = @ \ {r}, !.got = Append(@, r)]
  /\ UNCHANGED <<catalog, bad, handles, orphans, result>>

\* Mutant of RowsClose: the rows are not closed.
RowsLeftOpen == UNCHANGED <<bad, handles, orphans>>

\* The deferred Rows.Close, which owns the handle; its own error, a rejected
\* CLOSE_REQ_HANDLE or a poisoned connection, is dropped.
RowsClose ==
  \/ ~bad /\ handles' = handles - 1 /\ UNCHANGED <<bad, orphans>>
  \/ ~bad /\ orphans < MaxOrphans /\ orphans' = orphans + 1 /\ UNCHANGED <<bad, handles>>
  \/ bad' = TRUE /\ UNCHANGED <<handles, orphans>>

\* forEachSchemaRow at io.EOF: Indexes goes on to the primary key, the other
\* calls return their rows.
EndRows ==
  /\ call.phase = "rows" /\ call.todo = {}
  /\ RowsClose
  /\ IF call.fn = "Indexes" /\ call.family = "constraint"
     THEN /\ call' = [call EXCEPT !.phase = "request", !.family = "primary key",
                                  !.kept = Grouped(call.got)]
          /\ UNCHANGED result
     ELSE /\ call' = NoCall
          /\ result' = [fn |-> call.fn, arg |-> call.arg, err |-> FALSE,
                        rows |-> IF call.fn = "Indexes"
                                 THEN MergePrimaryKey(call.kept, call.got, call.arg)
                                 ELSE call.got]
  /\ UNCHANGED catalog

\* A FETCH fails, a row cannot be decoded, is too narrow or has no integer where
\* one is needed: the rows are closed and the call has no result.
RowFails(transport) ==
  /\ call.phase = "rows"
  /\ IF transport THEN bad' = TRUE /\ UNCHANGED <<handles, orphans>> ELSE RowsClose
  /\ ReturnErr
  /\ UNCHANGED catalog

Next ==
  \/ \E fn \in Fns, t \in Tables : Call(fn, t)
  \/ SchemaInfo \/ SchemaInfoError \/ EndRows
  \/ \E r \in call.todo : NextRow(r)
  \/ \E transport \in BOOLEAN : RowFails(transport)

Spec == Init /\ [][Next]_vars

-----------------------------------------------------------------------------
(* Properties                                                              *)

\* TypeOK: the types; a call is idle exactly when there is none.
TypeOK ==
  /\ catalog \in Catalogs /\ bad \in BOOLEAN /\ orphans \in Nat /\ handles \in Nat
  /\ call.fn \in Fns \cup {"none"} /\ call.phase \in {"idle", "request", "rows"}
  /\ (call.phase = "idle") = (call = NoCall)
  /\ result.fn \in Fns \cup {"none"} /\ result.err \in BOOLEAN

\* HandlesReleased: between calls the server holds no handle for the connection
\* but those of replies that could not be parsed and those it refused to close,
\* however the call ended: at end-of-rows, on a FETCH error, or on a row its mapping rejects (SchemaInfo
\* opens the handle, forEachSchemaRow's deferred Close is the only release).
HandlesReleased == call = NoCall /\ ~bad => handles = orphans

IndexInfos(t) ==
  {[name |-> <<"ix", i>>, unique |-> i \in UniqueIndexes, columns |-> catalog.idx[i],
    primary |-> FALSE] : i \in {i \in Indexed : catalog.idx[i] # <<>>}}
  \cup {[name |-> <<"pk", t>>, unique |-> TRUE, columns |-> s, primary |-> TRUE] :
          s \in {catalog.pk[t]} \ {<<>>}}

\* IndexesExact: Indexes returns every index of the table and its primary key
\* once, each with its columns in key order, the key of no other table though the
\* request is a pattern, and the key first when the server did not list it -
\* whatever the order in which the rows of several indexes arrived.
IndexesExact ==
  result.fn = "Indexes" /\ ~result.err =>
    /\ ToSet(result.rows) = IndexInfos(result.arg)
    /\ Len(result.rows) = Cardinality(IndexInfos(result.arg))
    /\ catalog.pk[result.arg] # <<>> /\ ~catalog.listed => result.rows[1].primary

\* ColumnsExact: Columns returns the columns of the table asked for and of no
\* table its name would match as a pattern, each once.
ColumnsExact ==
  result.fn = "Columns" /\ ~result.err =>
    /\ ToSet(result.rows) = RowsOf("attribute", result.arg)
    /\ Len(result.rows) = Cardinality(Cols)

\* PrimaryKeyOwn: "PrimaryKey lists table's primary-key columns": no key column of
\* another table.  The request is flagged as a pattern and its rows are returned
\* as they come, so this does not hold.
PrimaryKeyOwn ==
  result.fn = "PrimaryKey" => \A k \in DOMAIN result.rows : result.rows[k].table = result.arg
=============================================================================
