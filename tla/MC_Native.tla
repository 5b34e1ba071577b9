----------------------------- MODULE MC_Native ------------------------------
(***************************************************************************)
(* The calls on a native connection, checked together.  A behaviour is one *)
(* of the session (Session.tla), of its parameters (Params.tla), of a      *)
(* statement with OUT parameters (OutParams.tla), of a batch (Batch.tla)   *)
(* or of a schema lookup (Schema.tla); the variables of the others are     *)
(* off, and those of the session stay as they began.                       *)
(***************************************************************************)
EXTENDS Session

CONSTANTS
  MaxMs, NsPerMs, Durations,   \* Params
  MaxParams,                   \* OutParams, Batch
  MaxRows,                     \* Batch
  Tables, Siblings, Cols       \* Schema

VARIABLES
  part,
  v7, paramsBad, iso, lock, asked, unsure, read,
  sp, markers, described, outParams, late, runs, fetching, outRow,
  prepared, paramCount, rows, phase, args, ran, replied, results,
  catalog, schemaBad, schemaHandles, schemaOrphans, schemaCall, result

paramsVars == <<v7, paramsBad, iso, lock, asked, unsure, read>>
outVars == <<sp, markers, described, outParams, late, runs, fetching, outRow>>
batchVars == <<prepared, paramCount, rows, phase, args, ran, replied, results>>
schemaVars == <<catalog, schemaBad, schemaHandles, schemaOrphans, schemaCall, result>>

P == INSTANCE Params WITH bad <- paramsBad
O == INSTANCE OutParams WITH paramCount <- markers
B == INSTANCE Batch
S == INSTANCE Schema WITH bad <- schemaBad, handles <- schemaHandles,
                          orphans <- schemaOrphans, call <- schemaCall

\* An int32 of three bits and a millisecond of two nanoseconds: every duration
\* from below zero to well past the clamp.
MCDurations == -3 .. 17

\* go_t taken as a pattern matches goxt, too.
MCSiblings == [t \in Tables |-> IF t = "go_t" THEN Tables ELSE {t}]

ASSUME NativeConstants ==
  P!ParamsConstants /\ O!OutParamsConstants /\ B!BatchConstants /\ S!SchemaConstants

Off == "off"
ParamsOff ==
  /\ v7 = Off /\ paramsBad = Off /\ iso = Off /\ lock = Off
  /\ asked = Off /\ unsure = Off /\ read = Off
OutParamsOff ==
  /\ sp = Off /\ markers = Off /\ described = Off /\ outParams = Off
  /\ late = Off /\ runs = Off /\ fetching = Off /\ outRow = Off
BatchOff ==
  /\ prepared = Off /\ paramCount = Off /\ rows = Off /\ phase = Off
  /\ args = Off /\ ran = Off /\ replied = Off /\ results = Off
SchemaOff ==
  /\ catalog = Off /\ schemaBad = Off /\ schemaHandles = Off
  /\ schemaOrphans = Off /\ schemaCall = Off /\ result = Off

NativeInit ==
  /\ Init
  /\ \/ part = "session" /\ ParamsOff /\ OutParamsOff /\ BatchOff /\ SchemaOff
     \/ part = "params" /\ P!Init /\ OutParamsOff /\ BatchOff /\ SchemaOff
     \/ part = "outparams" /\ O!Init /\ ParamsOff /\ BatchOff /\ SchemaOff
     \/ part = "batch" /\ B!Init /\ ParamsOff /\ OutParamsOff /\ SchemaOff
     \/ part = "schema" /\ S!Init /\ ParamsOff /\ OutParamsOff /\ BatchOff

\* A statement and a batch stop when the bound on executions is reached.
Stop ==
  /\ part \in {"outparams", "batch"}
  /\ UNCHANGED <<vars, paramsVars, outVars, batchVars, schemaVars>>

NativeNext ==
  /\ UNCHANGED part
  /\ \/ part = "session" /\ Next /\ UNCHANGED <<paramsVars, outVars, batchVars, schemaVars>>
     \/ part = "params" /\ P!Next /\ UNCHANGED <<vars, outVars, batchVars, schemaVars>>
     \/ part = "outparams" /\ O!Next /\ UNCHANGED <<vars, paramsVars, batchVars, schemaVars>>
     \/ part = "batch" /\ B!Next /\ UNCHANGED <<vars, paramsVars, outVars, schemaVars>>
     \/ part = "schema" /\ S!Next /\ UNCHANGED <<vars, paramsVars, outVars, batchVars>>
     \/ Stop

NativeSpec ==
  NativeInit /\ [][NativeNext]_<<part, vars, paramsVars, outVars, batchVars, schemaVars>>

-----------------------------------------------------------------------------
\* The types of the session's, the parameters' and the schema lookup's state; the
\* server's isolation level is always one it has.
NativeTypeOK ==
  TypeOK /\ (part = "params" => P!TypeOK) /\ (part = "schema" => S!TypeOK)

\* However an Exec or a schema lookup ends, its handle on the server is released,
\* save those of replies that could not be parsed and those the server refused to
\* close (Session.tla, Schema.tla).
HandlesReleased == StatementsClosed /\ (part = "schema" => S!HandlesReleased)

\* The lock timeout and isolation level on the server are what the last successful
\* SetLockTimeout and SetIsolationLevel asked for, and a long wait never becomes an
\* endless one (Params.tla).
ParamsAsAsked == part = "params" => P!ParamsAsAsked

\* Each entry of OutValues is its own marker's value, of the last execution, though
\* PREPARE described fewer columns than the row has (OutParams.tla).
OutValuesOwn == part = "outparams" => O!OutValuesOwn

\* A batch that was sent has one result for each row, of that row's values, though
\* the request has no row boundaries (Batch.tla).
ResultsAreRows == part = "batch" => B!ResultsAreRows

\* Indexes returns each index of the table and its primary key once, with columns in
\* key order, in whatever order rows arrive; neither it nor Columns returns anything
\* of another table that the name matches as a pattern (Schema.tla).
LookupsExact == part = "schema" => S!IndexesExact /\ S!ColumnsExact
=============================================================================
