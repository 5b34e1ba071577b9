-------------------------------- MODULE Rows --------------------------------
(***************************************************************************)
(* cubrid.Stmt executions and cubrid.Rows: how a result set is pulled from *)
(* the CAS block by block and handed out row by row (cubrid/stmt.go        *)
(* execute/Query/Close, cubrid/rows.go).                                   *)
(*                                                                         *)
(* One prepared statement is executed several times; execution e may leave *)
(* behind a Rows object, also called e.  A row is a pair <<e, i>>: row i   *)
(* of the result of execution e.  The requests go through roundTrip, whose *)
(* promise (Rpc.tla, implemented by Conn.tla) is used here: a request is   *)
(* answered by its own reply, or fails and poisons the connection.         *)
(*                                                                         *)
(* Between the request and its reply (op # NoOp) the caller's context can  *)
(* be cancelled.  EXECUTE, and the FETCH that follows a CALL, run under    *)
(* it; the FETCH of Rows.Next runs under context.Background().             *)
(***************************************************************************)
EXTENDS Integers, Sequences, FiniteSets, FiniteSetsExt

CONSTANTS
  MaxExec,     \* bound on the executions of the statement
  MaxRows,     \* bound on the rows of all results together
  FetchSize,   \* Config.FetchSize: rows asked for by one FETCH
  SharedStmt   \* TRUE: the statement may be executed again or closed while
               \* Rows of an earlier execution are open; FALSE: database/sql's
               \* discipline outside a transaction, where every open Rows has
               \* a statement of its own

ASSUME RowsConstants ==
  /\ MaxExec \in Nat \ {0}
  /\ MaxRows \in Nat \ {0}
  /\ FetchSize \in Nat \ {0}
  /\ SharedStmt \in BOOLEAN

VARIABLES
  v5,         \* the broker speaks protocol V5 or later
  cmd,        \* the statement's command type: "select", "call" or "other"
  bad,        \* Conn.bad
  stmtClosed, \* Stmt.closed
  outRow,     \* Stmt.outRow: the CALL value row of the last execution
  nExec,      \* executions started
  op,         \* the request awaiting its reply
  qctx,       \* qctx[e]: the context execution e was started with
  rows,       \* rows[e]: the Rows object of execution e
  total,      \* total[e]: rows in the result of e, on the server
  undec,      \* undec[e]: rows of e with a value the driver cannot decode
  cursor,     \* the execution the server handle's cursor is on; 0 if none
  delivered,  \* delivered[e]: the rows Next has returned from rows[e]
  ret,        \* ret[e]: what the last Next on rows[e] returned
  failed      \* failed[e]: some Next on rows[e] returned an error

vars == <<v5, cmd, bad, stmtClosed, outRow, nExec, op, qctx, rows, total, undec,
          cursor, delivered, ret, failed>>

serverVars == <<total, undec, cursor>>
callerVars == <<delivered, ret, failed>>
stmtVars == <<stmtClosed, outRow, nExec, qctx>>

Exec == 1 .. MaxExec
Row == Exec \X (1 .. MaxRows)
NoRow == <<0, 0>>
NoOp == [kind |-> "none", e |-> 0]
MaxDelivered == MaxRows + 1 \* a caller that got this many rows stops

RowsObject ==
  [state : {"none", "open", "closed"}, tuples : Seq(Row), pos : 0 .. MaxRows,
   nextIndex : 1 .. MaxRows + 1, fetchedAll : BOOLEAN]

TypeOK ==
  /\ v5 \in BOOLEAN /\ bad \in BOOLEAN /\ stmtClosed \in BOOLEAN
  /\ cmd \in {"select", "call", "other"}
  /\ outRow \in Row \union {NoRow}
  /\ nExec \in 0 .. MaxExec
  /\ op \in [kind : {"exec", "callfetch", "fetch"}, e : Exec] \union {NoOp}
  /\ qctx \in [Exec -> {"live", "done"}]
  /\ rows \in [Exec -> RowsObject]
  /\ \A e \in Exec : rows[e].pos <= Len(rows[e].tuples)
  /\ total \in [Exec -> 0 .. MaxRows]
  /\ undec \in [Exec -> SUBSET (1 .. MaxRows)]
  /\ cursor \in 0 .. MaxExec
  /\ delivered \in [Exec -> Seq(Row)]
  /\ ret \in [Exec -> {"none", "row", "eof", "err"}]
  /\ failed \in [Exec -> BOOLEAN]

\* &Rows{stmt, cols, totalRows, nextIndex: 1}
FreshRows ==
  [state |-> "none", tuples |-> <<>>, pos |-> 0, nextIndex |-> 1,
   fetchedAll |-> FALSE]

Init ==
  /\ v5 \in BOOLEAN
  /\ cmd \in {"select", "call", "other"}
  /\ bad = FALSE
  /\ stmtClosed = FALSE
  /\ outRow = NoRow
  /\ nExec = 0
  /\ op = NoOp
  /\ qctx = [e \in Exec |-> "live"]
  /\ rows = [e \in Exec |-> FreshRows]
  /\ total = [e \in Exec |-> 0]
  /\ undec = [e \in Exec |-> {}]
  /\ cursor = 0
  /\ delivered = [e \in Exec |-> <<>>]
  /\ ret = [e \in Exec |-> "none"]
  /\ failed = [e \in Exec |-> FALSE]

-----------------------------------------------------------------------------
(* The fetch block *)

\* The CAS's answer to "rows from index start" of a result of t rows: some
\* of them (limited by the size of its buffer), none when there are no more.
BlockSizes(t, start, limit) ==
  IF start > t THEN {0} ELSE 1 .. Min({t - start + 1, limit})

\* The fetch-completed byte, sent from V5 on: never set before the last row;
\* the CAS may notice the end only with the next request.
CompletedFlags(t, start, k) ==
  IF start + k > t THEN BOOLEAN ELSE {FALSE}

\* Rows of the block, k rows from r.nextIndex on, that cannot be decoded.
Undecodable(r, u, k) == u \intersect (r.nextIndex .. r.nextIndex + k - 1)

\* Mutants of ConsumeFetch: the next index is that of the last row read; a block
\* shorter than FetchSize is taken for the last one.
ConsumeFetchSameIndex(r, x, u, k, fc) ==
  [r EXCEPT !.tuples = [i \in 1 .. k |-> <<x, r.nextIndex + i - 1>>],
            !.nextIndex = IF k = 0 THEN @ ELSE @ + k - 1,
            !.fetchedAll = IF v5 THEN fc ELSE IF k = 0 THEN TRUE ELSE @]

ConsumeFetchShortIsLast(r, x, u, k, fc) ==
  [r EXCEPT !.tuples = [i \in 1 .. k |-> <<x, r.nextIndex + i - 1>>],
            !.nextIndex = @ + k,
            !.fetchedAll = k < FetchSize]

\* Rows.consumeFetch on a block of k rows of execution x, starting at
\* r.nextIndex; u are the rows of x that cannot be decoded.  The index advances
\* before the row is decoded; the first row that cannot be decoded ends the
\* block with an error, leaving the rows before it buffered.
ConsumeFetch(r, x, u, k, fc) ==
  LET unread == Undecodable(r, u, k)
      good == IF unread = {} THEN k ELSE Min(unread) - r.nextIndex
  IN [r EXCEPT
        !.tuples = [i \in 1 .. good |-> <<x, r.nextIndex + i - 1>>],
        !.nextIndex = IF unread = {} THEN @ + k ELSE @ + good + 1,
        !.fetchedAll = IF unread # {} THEN @
                       ELSE IF v5 THEN fc
                       ELSE IF k = 0 THEN TRUE ELSE @]

\* Mutant of Emptied: the read position is not reset.
EmptiedKeepsPos(r) == [r EXCEPT !.tuples = <<>>]

\* tuples = tuples[:0]; pos = 0
Emptied(r) == [r EXCEPT !.tuples = <<>>, !.pos = 0]

-----------------------------------------------------------------------------
(* Stmt.execute *)

OpenRows == {e \in Exec : rows[e].state = "open"}

\* Up to the EXECUTE request.  (On a closed statement, or with the wrong number
\* of arguments, execute returns an error and changes nothing.)
ExecuteSend ==
  /\ op = NoOp /\ nExec < MaxExec /\ ~stmtClosed /\ ~bad
  /\ SharedStmt \/ OpenRows = {}
  /\ nExec' = nExec + 1
  /\ outRow' = NoRow
  /\ op' = [kind |-> "exec", e |-> nExec + 1]
  /\ UNCHANGED <<v5, cmd, bad, stmtClosed, qctx, rows>>
  /\ UNCHANGED <<serverVars, callerVars>>

\* An argument cannot be encoded, or the connection is poisoned: nothing is
\* sent, but the OUT values are gone.
ExecuteUnsent ==
  /\ op = NoOp /\ nExec < MaxExec /\ ~stmtClosed
  /\ SharedStmt \/ OpenRows = {}
  /\ nExec' = nExec + 1
  /\ outRow' = NoRow
  /\ UNCHANGED <<v5, cmd, bad, stmtClosed, op, qctx, rows>>
  /\ UNCHANGED <<serverVars, callerVars>>

\* The CAS runs the statement: the handle's cursor moves to the new result.
\* External.
ServerExecutes(e, t, u) ==
  /\ total' = [total EXCEPT ![e] = t]
  /\ undec' = [undec EXCEPT ![e] = u]
  /\ cursor' = e

\* A SELECT's reply without an inline block.
ExecuteReplyPlain(t, u) ==
  /\ op.kind = "exec" /\ cmd = "select"
  /\ ServerExecutes(op.e, t, u)
  /\ rows' = [rows EXCEPT ![op.e] = [FreshRows EXCEPT !.state = "open",
                                                      !.fetchedAll = (t = 0)]]
  /\ op' = NoOp
  /\ UNCHANGED <<v5, cmd, bad, stmtVars, callerVars>>

\* A SELECT's reply with an inline block of k rows: a block that cannot be
\* decoded fails the whole execution, no Rows object is returned.
ExecuteReplyInline(t, u, k, fc) ==
  LET r == [FreshRows EXCEPT !.state = "open"]
  IN /\ op.kind = "exec" /\ cmd = "select"
     /\ t > 0 /\ k \in BlockSizes(t, 1, t) /\ fc \in CompletedFlags(t, 1, k)
     /\ ServerExecutes(op.e, t, u)
     /\ rows' = IF Undecodable(r, u, k) = {}
                THEN [rows EXCEPT ![op.e] = ConsumeFetch(r, op.e, u, k, fc)]
                ELSE rows
     /\ op' = NoOp
     /\ UNCHANGED <<v5, cmd, bad, stmtVars, callerVars>>

\* A CALL without a value row, or any other statement that is no SELECT, has no
\* rows: Query makes an empty, complete Rows.
ExecuteReplyNoRows ==
  /\ op.kind = "exec" /\ cmd # "select"
  /\ ServerExecutes(op.e, 0, {})
  /\ rows' = [rows EXCEPT ![op.e] = [FreshRows EXCEPT !.state = "open",
                                                      !.fetchedAll = TRUE]]
  /\ op' = NoOp
  /\ UNCHANGED <<v5, cmd, bad, stmtVars, callerVars>>

\* A CALL's value row is not inline: FETCH pulls it under the same context.
ExecuteReplyCall(u) ==
  /\ op.kind = "exec" /\ cmd = "call"
  /\ ServerExecutes(op.e, 1, u)
  /\ op' = [op EXCEPT !.kind = "callfetch"]
  /\ UNCHANGED <<v5, cmd, bad, stmtVars, rows, callerVars>>

\* The value row arrives: outRow is set; the Rows is complete once nextIndex is
\* past the result count.
CallFetchReply(k, fc) ==
  LET e == op.e
      new == [FreshRows EXCEPT !.state = "open"]
      r == ConsumeFetch(new, e, undec[e], k, fc)
  IN /\ op.kind = "callfetch" /\ cursor = e
     /\ k \in BlockSizes(total[e], 1, FetchSize)
     /\ fc \in CompletedFlags(total[e], 1, k)
     /\ IF Undecodable(new, undec[e], k) = {}
        THEN /\ rows' = [rows EXCEPT ![e] =
                           [r EXCEPT !.fetchedAll = @ \/ r.nextIndex > total[e]]]
             /\ outRow' = IF r.tuples # <<>> THEN r.tuples[1] ELSE NoRow
        ELSE UNCHANGED <<rows, outRow>>
     /\ op' = NoOp
     /\ UNCHANGED <<v5, cmd, bad, stmtClosed, nExec, qctx, serverVars, callerVars>>

\* The server rejects EXECUTE or the CALL's FETCH: execute returns the error,
\* the connection stays usable.
ExecuteServerError ==
  /\ op.kind \in {"exec", "callfetch"}
  /\ op' = NoOp
  /\ cursor' \in {0, cursor}
  /\ UNCHANGED <<v5, cmd, bad, stmtVars, rows, total, undec, callerVars>>

\* The round trip fails, possibly because the context is done: poisoned.  What
\* the server did no longer matters, nothing more is asked of it.
ExecuteFails ==
  /\ op.kind \in {"exec", "callfetch"}
  /\ bad' = TRUE
  /\ op' = NoOp
  /\ UNCHANGED <<v5, cmd, stmtVars, rows, serverVars, callerVars>>

ExecuteCancelled ==
  /\ op.kind \in {"exec", "callfetch"} /\ qctx[op.e] = "done"
  /\ ExecuteFails

\* Stmt.Close marks the statement closed before it sends CLOSE_REQ_HANDLE; the
\* server drops the cursor unless the request does not get through.
StmtClose ==
  /\ op = NoOp /\ ~stmtClosed
  /\ SharedStmt \/ OpenRows = {}
  /\ stmtClosed' = TRUE
  /\ bad' \in {TRUE, bad}
  /\ cursor' \in IF bad THEN {cursor} ELSE {0, cursor}
  /\ UNCHANGED <<v5, cmd, outRow, nExec, op, qctx, rows, total, undec, callerVars>>

-----------------------------------------------------------------------------
(* Rows.Next and Rows.Close *)

Returns(e, what) == ret' = [ret EXCEPT ![e] = what]

ReturnsError(e) == Returns(e, "err") /\ failed' = [failed EXCEPT ![e] = TRUE]

\* row := r.tuples[r.pos]; r.pos++
Deliver(e, r) ==
  /\ rows' = [rows EXCEPT ![e] = [r EXCEPT !.pos = @ + 1]]
  /\ delivered' = [delivered EXCEPT ![e] = Append(@, r.tuples[r.pos + 1])]
  /\ Returns(e, "row")
  /\ UNCHANGED failed

\* Next on Rows that are not closed (on closed ones it only returns an error).
CanNext(e) ==
  /\ op = NoOp
  /\ rows[e].state = "open"
  /\ Len(delivered[e]) < MaxDelivered

NextBuffered(e) ==
  /\ CanNext(e)
  /\ rows[e].pos < Len(rows[e].tuples)
  /\ Deliver(e, rows[e])
  /\ UNCHANGED <<v5, cmd, bad, stmtVars, op, serverVars>>

NextEOF(e) ==
  /\ CanNext(e)
  /\ rows[e].pos >= Len(rows[e].tuples) /\ rows[e].fetchedAll
  /\ Returns(e, "eof")
  /\ UNCHANGED <<v5, cmd, bad, stmtVars, op, rows, serverVars, delivered, failed>>

NeedsFetch(e) ==
  CanNext(e) /\ rows[e].pos >= Len(rows[e].tuples) /\ ~rows[e].fetchedAll

\* fetchNext on a poisoned connection: ErrBadConn.
NextBadConn(e) ==
  /\ NeedsFetch(e) /\ bad
  /\ ReturnsError(e)
  /\ UNCHANGED <<v5, cmd, bad, stmtVars, op, rows, serverVars, delivered>>

\* fetchNext sends FETCH, under context.Background().
NextFetchSend(e) ==
  /\ NeedsFetch(e) /\ ~bad
  /\ op' = [kind |-> "fetch", e |-> e]
  /\ UNCHANGED <<v5, cmd, bad, stmtVars, rows, serverVars, callerVars>>

\* The reply to FETCH: a block of whatever result the handle's cursor is on.
\* Next then returns the block's first row, EOF if it is empty, or the
\* decoding error.
FetchReply(k, fc) ==
  LET e == op.e
      empty == Emptied(rows[e])
      r == ConsumeFetch(empty, cursor, undec[cursor], k, fc)
      undecodable == Undecodable(empty, undec[cursor], k) # {}
  IN /\ op.kind = "fetch" /\ cursor # 0
     /\ k \in BlockSizes(total[cursor], empty.nextIndex, FetchSize)
     /\ fc \in CompletedFlags(total[cursor], empty.nextIndex, k)
     /\ \/ /\ undecodable
           /\ rows' = [rows EXCEPT ![e] = r]
           /\ ReturnsError(e) /\ UNCHANGED delivered
        \/ /\ ~undecodable /\ r.pos < Len(r.tuples)
           /\ Deliver(e, r)
        \/ /\ ~undecodable /\ r.pos >= Len(r.tuples)
           /\ rows' = [rows EXCEPT ![e] = r]
           /\ Returns(e, "eof") /\ UNCHANGED <<delivered, failed>>
     /\ op' = NoOp
     /\ UNCHANGED <<v5, cmd, bad, stmtVars, serverVars>>

\* The server rejects FETCH (always when the handle has no cursor).
FetchServerError ==
  /\ op.kind = "fetch"
  /\ ReturnsError(op.e)
  /\ op' = NoOp
  /\ UNCHANGED <<v5, cmd, bad, stmtVars, rows, serverVars, delivered>>

FetchFails ==
  /\ op.kind = "fetch"
  /\ bad' = TRUE
  /\ ReturnsError(op.e)
  /\ op' = NoOp
  /\ UNCHANGED <<v5, cmd, stmtVars, rows, serverVars, delivered>>

RowsClose(e) ==
  /\ op = NoOp /\ rows[e].state = "open"
  /\ rows' = [rows EXCEPT ![e].state = "closed"]
  /\ UNCHANGED <<v5, cmd, bad, stmtVars, op, serverVars, callerVars>>

-----------------------------------------------------------------------------
(* External *)

\* The end of a transaction closes the server's cursors.
TransactionEnds ==
  /\ op = NoOp /\ ~bad /\ cursor # 0
  /\ cursor' = 0
  /\ UNCHANGED <<v5, cmd, bad, stmtVars, op, rows, total, undec, callerVars>>

CtxDone(e) ==
  /\ qctx[e] = "live" /\ (op.e = e \/ rows[e].state = "open")
  /\ qctx' = [qctx EXCEPT ![e] = "done"]
  /\ UNCHANGED <<v5, cmd, bad, stmtClosed, outRow, nExec, op, rows, serverVars,
                 callerVars>>

-----------------------------------------------------------------------------
NextCall(e) == NextBuffered(e) \/ NextEOF(e) \/ NextBadConn(e) \/ NextFetchSend(e)

FetchAnswered == \E k \in 0 .. MaxRows, fc \in BOOLEAN : FetchReply(k, fc)

\* How many rows the next result may have.
RowsLeft == {t \in 0 .. MaxRows : t + MapThenSumSet(LAMBDA e : total[e], Exec) <= MaxRows}

Next ==
  \/ ExecuteSend
  \/ ExecuteUnsent
  \/ \E t \in RowsLeft : \E u \in SUBSET (1 .. t) : ExecuteReplyPlain(t, u)
  \/ \E t \in RowsLeft : \E u \in SUBSET (1 .. t) :
       \E k \in 1 .. t, fc \in BOOLEAN : ExecuteReplyInline(t, u, k, fc)
  \/ ExecuteReplyNoRows
  \/ \E u \in SUBSET {1} : ExecuteReplyCall(u)
  \/ \E k \in 0 .. MaxRows, fc \in BOOLEAN : CallFetchReply(k, fc)
  \/ ExecuteServerError
  \/ ExecuteFails
  \/ StmtClose
  \/ \E e \in Exec : NextBuffered(e)
  \/ \E e \in Exec : NextEOF(e)
  \/ \E e \in Exec : NextBadConn(e)
  \/ \E e \in Exec : NextFetchSend(e)
  \/ FetchAnswered
  \/ FetchServerError
  \/ FetchFails
  \/ \E e \in Exec : RowsClose(e)
  \/ TransactionEnds
  \/ \E e \in Exec : CtxDone(e)

Spec == Init /\ [][Next]_vars

\* The caller keeps calling Next and the server answers each FETCH.
Fairness ==
  /\ \A e \in Exec : WF_vars(NextCall(e))
  /\ WF_vars(FetchAnswered \/ FetchServerError)

DrainSpec == Spec /\ Fairness

\* What the driver alone can be held to: it reacts to a done context wherever
\* the request runs under it (Conn.tla, CancelledCallReturns).
CancelSpec == Spec /\ WF_vars(ExecuteCancelled)

-----------------------------------------------------------------------------
(* Properties *)

\* Rows are handed out in cursor order, none twice, whatever errors Next
\* returned in between.
InOrder ==
  \A e \in Exec : \A i, j \in 1 .. Len(delivered[e]) :
    i < j => delivered[e][i][2] < delivered[e][j][2]

\* EOF means the end: every row of the result was handed out, save those that
\* cannot be decoded, for each of which Next (or Query) returned an error.
\* Errors of the server in between, and the boundary between two blocks with
\* or without the fetch-completed byte, lose nothing.
CompleteAtEOF ==
  \A e \in Exec : ret[e] = "eof" =>
    /\ {delivered[e][i] : i \in 1 .. Len(delivered[e])}
         = {<<e, i>> : i \in (1 .. total[e]) \ undec[e]}
    /\ undec[e] # {} => failed[e]

\* A caller that keeps calling Next gets to EOF or to an error: no block
\* boundary makes Next hand out the same rows for ever.
Drains ==
  \A e \in Exec :
    (rows[e].state = "open" /\ ret[e] = "none")
      ~> (ret[e] \in {"eof", "err"} \/ rows[e].state = "closed")

\* "Rows iterates a query result" (rows.go): the rows of the execution that
\* produced it, also when its statement is executed again.
RowsOfOwnExecution ==
  \A e \in Exec : \A i \in 1 .. Len(delivered[e]) : delivered[e][i][1] = e

\* "context.Context-aware cancellation on every network operation"
\* (README.md): an operation whose query context is done returns.
CancelledOperationReturns ==
  \A e \in Exec :
    (op.e = e /\ qctx[e] = "done") ~> (op.e # e \/ op.kind = "none")
=============================================================================
