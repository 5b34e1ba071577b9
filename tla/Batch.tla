------------------------------- MODULE Batch --------------------------------
(***************************************************************************)
(* Stmt.ExecBatch and Conn.ExecBatchSQL (cubrid/batch.go): many executions *)
(* in one round trip.  The request for a prepared statement is the rows'   *)
(* arguments one after another with nothing between rows: the server takes *)
(* them ParamCount at a time.  An argument is the pair <<row, place>>.     *)
(* The reading of the reply is in Replies.tla.                             *)
(***************************************************************************)
EXTENDS Naturals, Sequences, SequencesExt

CONSTANTS
  MaxRows,   \* bound on the rows or statements of a batch
  MaxParams  \* bound on the statement's parameters

BatchConstants == MaxRows \in Nat /\ MaxParams \in Nat

VARIABLES
  prepared,    \* ExecBatch of a prepared statement; otherwise ExecBatchSQL
  paramCount,  \* Stmt.paramCount
  rows,        \* the rows given: the number of values of each
  phase,       \* "call", "server", "reply" or "done"
  args,        \* the arguments sent
  ran,         \* what the server executed: the arguments of each execution
  replied,     \* the outcome of each, in the reply
  results      \* what the call returned; <<"error">> if it failed

vars == <<prepared, paramCount, rows, phase, args, ran, replied, results>>

Init ==
  /\ prepared \in BOOLEAN /\ paramCount \in 0 .. MaxParams
  /\ rows \in UNION {[1 .. n -> 0 .. MaxParams] : n \in 0 .. MaxRows}
  /\ ~prepared => paramCount = 1 /\ \A i \in DOMAIN rows : rows[i] = 1
  /\ phase = "call" /\ args = <<>> /\ ran = <<>> /\ replied = <<>> /\ results = <<>>

Args == FlattenSeq([i \in DOMAIN rows |-> [j \in 1 .. rows[i] |-> <<i, j>>]])

\* Mutant of EveryRowFits: only the total number of values is checked.
TotalFits(rs, p) ==
  /\ p = 0 => Len(rs) <= 1
  /\ FoldSeq(+, 0, rs) = Len(rs) * p

EveryRowFits(rs, p) ==
  /\ p = 0 => Len(rs) <= 1
  /\ \A i \in DOMAIN rs : rs[i] = p

\* The checks of ExecBatch; an empty batch is no round trip.
Call ==
  /\ phase = "call"
  /\ \/ rows = <<>> /\ phase' = "done" /\ UNCHANGED <<args, results>>
     \/ /\ rows # <<>> /\ ~EveryRowFits(rows, paramCount)
        /\ phase' = "done" /\ results' = <<"error">> /\ args' = args
     \/ /\ rows # <<>> /\ EveryRowFits(rows, paramCount)
        /\ phase' = "server" /\ args' = Args /\ results' = results
  /\ UNCHANGED <<prepared, paramCount, rows, ran, replied>>

\* The server runs the statement for every paramCount arguments, each execution
\* failing or not, and goes on after a failure; without parameters it runs once.
Serve ==
  /\ phase = "server"
  /\ LET n == IF paramCount = 0 THEN 1 ELSE Len(args) \div paramCount
     IN /\ ran' = [i \in 1 .. n |-> SubSeq(args, (i - 1) * paramCount + 1, i * paramCount)]
        /\ replied' \in [1 .. n -> {"ok", "err"}]
  /\ phase' = "reply"
  /\ UNCHANGED <<prepared, paramCount, rows, args, results>>

\* batchRoundTrip: the reply is turned into one result per execution, in order.
Reply ==
  /\ phase = "reply"
  /\ results' = replied
  /\ phase' = "done"
  /\ UNCHANGED <<prepared, paramCount, rows, args, ran, replied>>

\* A value cannot be encoded, the round trip fails, or the reply cannot be parsed.
Fails ==
  /\ \/ phase = "call" /\ rows # <<>> /\ EveryRowFits(rows, paramCount)
     \/ phase \in {"server", "reply"}
  /\ results' = <<"error">> /\ phase' = "done"
  /\ UNCHANGED <<prepared, paramCount, rows, args, ran, replied>>

Next == Call \/ Serve \/ Reply \/ Fails
Spec == Init /\ [][Next]_vars

\* ResultsAreRows: a batch that returns without an error has one result per row,
\* in the order of the rows, and result i is the outcome of executing the
\* statement with the values of row i and of no other (Stmt.ExecBatch: the wire
\* format carries no row boundaries).
ResultsAreRows ==
  phase = "done" /\ results # <<"error">> =>
    /\ Len(results) = Len(rows)
    /\ \A i \in DOMAIN rows :
         /\ results[i] = replied[i]
         /\ ran[i] = [j \in 1 .. rows[i] |-> <<i, j>>]
=============================================================================
