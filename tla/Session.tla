------------------------------ MODULE Session -------------------------------
(***************************************************************************)
(* The native session on one connection: Conn.Exec (cubrid/conn.go), which *)
(* is three round trips, and transactions with savepoints (cubrid/tx.go).  *)
(* Each round trip is one step, answered or poisoning the connection       *)
(* (Rpc.tla); the server drops a transaction of a lost connection.         *)
(*                                                                         *)
(* The application keeps a ledger: what it may believe of its transaction  *)
(* from what the calls returned.  When the reply to an EXECUTE cannot be   *)
(* parsed the statement has run but the call fails on a good connection:   *)
(* the application is in doubt, and concludes nothing more from the calls  *)
(* of that transaction until it ends it; so it is when the reply to an     *)
(* END_TRAN is too short to hold its status.  It turns autocommit on or    *)
(* off only between transactions.                                          *)
(***************************************************************************)
EXTENDS Integers, Sequences, SequencesExt

CONSTANTS
  MaxWork,     \* bound on the statements executed
  MaxItems,    \* bound on the statements and savepoints of a transaction
  MaxOrphans   \* bound on the handles left open on the server

ASSUME SessionConstants == MaxWork \in Nat /\ MaxItems \in Nat /\ MaxOrphans \in Nat

VARIABLES
  bad,       \* Conn.bad
  auto,      \* Conn.autoCommit
  call,      \* Conn.Exec in progress
  issued,    \* statements issued so far
  handles,   \* statement handles open on the server
  orphans,   \* those of unparsable PREPARE replies and of rejected CLOSEs
  log,       \* the server's open transaction: statements and savepoints
  durable,   \* statements the server has committed
  ledger,    \* the open transaction as the application may believe it
  doubt,     \* some statement of it has run though its Exec failed
  promised,  \* statements the application was told are durable
  undone     \* statements it was told have no effect

serverVars == <<handles, orphans, log, durable>>
appVars == <<issued, ledger, doubt, promised, undone>>
vars == <<bad, auto, call, serverVars, appVars>>

Savepoints == {"s", "t"}
Work == 1 .. MaxWork
Item == [kind : {"work"}, id : Work] \cup [kind : {"save"}, id : Savepoints]
Works(s) == {e.id : e \in {e \in ToSet(s) : e.kind = "work"}}

NoCall == [phase |-> "idle", kind |-> "work", id |-> 0, ok |-> FALSE]

Init ==
  /\ bad = FALSE /\ auto = TRUE /\ call = NoCall
  /\ handles = 0 /\ orphans = 0 /\ log = <<>> /\ durable = {}
  /\ issued = 0 /\ ledger = <<>> /\ doubt = FALSE
  /\ promised = {} /\ undone = {}

\* The work after the last savepoint of that name goes; the savepoint stays.
RolledBackTo(s, name) ==
  LET k == SelectLastInSeq(s, LAMBDA e : e.kind = "save" /\ e.id = name)
  IN SubSeq(s, 1, k)
Has(s, name) == \E i \in DOMAIN s : s[i].kind = "save" /\ s[i].id = name

\* A statement's effect on a transaction, the server's or the ledger's.
Applied(s, kind, id) ==
  IF kind = "rollto" THEN RolledBackTo(s, id) ELSE Append(s, [kind |-> kind, id |-> id])

-----------------------------------------------------------------------------
(* Conn.Exec: PREPARE, EXECUTE and, deferred, CLOSE                        *)

ExecBegin(kind, id) ==
  /\ call = NoCall
  /\ \/ kind = "work" /\ id = issued + 1 /\ id \in Work /\ issued' = id
     \/ kind = "save" /\ ~auto /\ id \in Savepoints /\ Len(log) < MaxItems /\ issued' = issued
     \/ kind = "rollto" /\ ~auto /\ id \in Savepoints /\ issued' = issued
  /\ call' = [NoCall EXCEPT !.phase = "prepare", !.kind = kind, !.id = id]
  /\ UNCHANGED <<bad, auto, serverVars, ledger, doubt, promised, undone>>

\* Exec returns before anything was executed: the work has no effect.
NotExecuted ==
  undone' = IF call.kind = "work" THEN undone \cup {call.id} ELSE undone

PrepareReply ==
  /\ call.phase = "prepare" /\ ~bad
  /\ handles' = handles + 1
  /\ call' = [call EXCEPT !.phase = "execute"]
  /\ UNCHANGED <<bad, auto, orphans, log, durable, appVars>>

\* An error status, or a reply that cannot be parsed: its handle stays open.
PrepareError(orphan) ==
  /\ call.phase = "prepare" /\ ~bad
  /\ orphan => orphans < MaxOrphans
  /\ handles' = handles + (IF orphan THEN 1 ELSE 0)
  /\ orphans' = orphans + (IF orphan THEN 1 ELSE 0)
  /\ NotExecuted
  /\ call' = NoCall
  /\ UNCHANGED <<bad, auto, log, durable, issued, ledger, doubt, promised>>

\* The server runs the statement, in its own transaction with autocommit on.
Executed ==
  /\ call.kind = "rollto" => Has(log, call.id)
  /\ IF auto THEN durable' = durable \cup {call.id} /\ log' = log
     ELSE log' = Applied(log, call.kind, call.id) /\ durable' = durable

ExecuteReply ==
  /\ call.phase = "execute" /\ ~bad
  /\ Executed
  /\ IF auto THEN promised' = promised \cup {call.id} /\ UNCHANGED <<ledger, undone>>
     ELSE /\ ledger' = IF doubt THEN ledger ELSE Applied(ledger, call.kind, call.id)
          /\ undone' = undone \cup (Works(ledger) \ Works(ledger'))
          /\ promised' = promised
  /\ call' = [call EXCEPT !.phase = "close", !.ok = TRUE]
  /\ UNCHANGED <<bad, auto, handles, orphans, issued, doubt>>

ExecuteUnparsable ==
  /\ call.phase = "execute" /\ ~bad
  /\ Executed
  /\ doubt' = ~auto
  /\ call' = [call EXCEPT !.phase = "close"]
  /\ UNCHANGED <<bad, auto, handles, orphans, issued, ledger, promised, undone>>

\* Mutant of ExecuteError: the error status is ignored.
ErrorSwallowed ==
  /\ call.phase = "execute" /\ ~bad /\ ~auto /\ call.kind = "work"
  /\ ledger' = Applied(ledger, call.kind, call.id)
  /\ call' = [call EXCEPT !.phase = "close", !.ok = TRUE]
  /\ UNCHANGED <<bad, auto, serverVars, issued, doubt, promised, undone>>

\* An error status, or an argument that does not encode: nothing was executed.
ExecuteError ==
  /\ call.phase = "execute" /\ ~bad
  /\ NotExecuted
  /\ call' = [call EXCEPT !.phase = "close"]
  /\ UNCHANGED <<bad, auto, serverVars, issued, ledger, doubt, promised>>

CloseReply ==
  /\ call.phase = "close" /\ ~bad
  /\ handles' = handles - 1
  /\ call' = NoCall
  /\ UNCHANGED <<bad, auto, orphans, log, durable, appVars>>

\* An error status: Stmt.Close returns it, Exec drops it, the handle stays open.
CloseError ==
  /\ call.phase = "close" /\ ~bad
  /\ orphans < MaxOrphans /\ orphans' = orphans + 1
  /\ call' = NoCall
  /\ UNCHANGED <<bad, auto, handles, log, durable, appVars>>

\* A round trip of Exec fails, with its effect on the server or without, or the
\* connection was bad already.  In the close, Exec still returns what EXECUTE did.
ExecFails(effect) ==
  /\ call.phase # "idle"
  /\ bad' = TRUE
  /\ IF effect THEN call.phase = "execute" /\ ~bad /\ Executed ELSE UNCHANGED <<log, durable>>
  /\ call' = NoCall
  /\ UNCHANGED <<auto, handles, orphans, appVars>>

-----------------------------------------------------------------------------
(* Commit, Rollback and the end of a transaction                           *)

Ended == log' = <<>> /\ ledger' = <<>> /\ doubt' = FALSE

TranType(commit) == commit

\* endTransaction: commit or roll back on the server, and what the application
\* may conclude when it returns nil.  (A rejected END_TRAN changes nothing.)
EndTransaction(commit) ==
  /\ call = NoCall /\ ~auto /\ ~bad
  /\ Ended
  /\ durable' = IF TranType(commit) THEN durable \cup Works(log) ELSE durable
  /\ promised' = IF commit /\ ~doubt THEN promised \cup Works(ledger) ELSE promised
  /\ undone' = IF commit THEN undone ELSE undone \cup Works(ledger)
  /\ UNCHANGED <<bad, auto, call, handles, orphans, issued>>

\* The reply is too short to hold the status: endTransaction fails on a good
\* connection though the transaction has ended.
EndTransactionUnparsable(commit) ==
  /\ call = NoCall /\ ~auto /\ ~bad
  /\ log' = <<>> /\ ledger' = <<>> /\ doubt' = TRUE
  /\ durable' = IF TranType(commit) THEN durable \cup Works(log) ELSE durable
  /\ UNCHANGED <<bad, auto, call, handles, orphans, issued, promised, undone>>

\* The reply is lost: the application knows nothing of the outcome.
EndTransactionFails(commit, effect) ==
  /\ call = NoCall /\ ~auto /\ ~bad
  /\ bad' = TRUE
  /\ log' = IF effect THEN <<>> ELSE log
  /\ durable' = IF effect /\ TranType(commit) THEN durable \cup Works(log) ELSE durable
  /\ UNCHANGED <<auto, call, handles, orphans, appVars>>

\* Mutant of EndTransactionBadConn: a lost END_TRAN is reported as success.
NilOnBadConn ==
  /\ call = NoCall /\ ~auto /\ bad
  /\ ledger' = <<>> /\ doubt' = FALSE /\ promised' = promised \cup Works(ledger)
  /\ UNCHANGED <<bad, auto, call, serverVars, issued, undone>>

\* On a bad connection endTransaction returns ErrBadConn; the application
\* concludes nothing.
EndTransactionBadConn ==
  /\ call = NoCall /\ ~auto /\ bad
  /\ ledger' = <<>> /\ doubt' = FALSE
  /\ UNCHANGED <<bad, auto, call, serverVars, issued, promised, undone>>

\* The server notices that the connection is gone.
ServerDrops ==
  /\ bad /\ log # <<>>
  /\ log' = <<>>
  /\ UNCHANGED <<bad, auto, call, handles, orphans, durable, appVars>>

SetAutoCommit ==
  /\ call = NoCall /\ log = <<>> /\ ledger = <<>> /\ ~doubt
  /\ auto' = ~auto
  /\ UNCHANGED <<bad, call, serverVars, appVars>>

-----------------------------------------------------------------------------
Next ==
  \/ \E id \in Work : ExecBegin("work", id)
  \/ \E kind \in {"save", "rollto"}, id \in Savepoints : ExecBegin(kind, id)
  \/ PrepareReply \/ \E orphan \in BOOLEAN : PrepareError(orphan)
  \/ ExecuteReply \/ ExecuteUnparsable \/ ExecuteError \/ CloseReply \/ CloseError
  \/ \E effect \in BOOLEAN : ExecFails(effect)
  \/ \E commit \in BOOLEAN : EndTransaction(commit) \/ EndTransactionUnparsable(commit)
  \/ \E commit, effect \in BOOLEAN : EndTransactionFails(commit, effect)
  \/ EndTransactionBadConn \/ ServerDrops \/ SetAutoCommit

Spec == Init /\ [][Next]_vars

-----------------------------------------------------------------------------
(* Properties                                                              *)

Phases == {"idle", "prepare", "execute", "close"}
CallType ==
  [phase : Phases, kind : {"work"}, id : 0 .. MaxWork, ok : BOOLEAN]
    \cup [phase : Phases, kind : {"save", "rollto"}, id : Savepoints, ok : BOOLEAN]

\* TypeOK: the types of the state; a savepoint's call has a savepoint's name.
TypeOK ==
  /\ bad \in BOOLEAN /\ auto \in BOOLEAN /\ doubt \in BOOLEAN
  /\ call \in CallType
  /\ handles \in Nat /\ orphans \in 0 .. MaxOrphans /\ issued \in 0 .. MaxWork
  /\ log \in Seq(Item) /\ ledger \in Seq(Item)
  /\ durable \subseteq Work /\ promised \subseteq Work /\ undone \subseteq Work

\* OutcomeAsTold: what the application was told is durable is: every statement
\* whose Exec returned nil under autocommit, and every one pending when Commit
\* returned nil, less those rolled back to a savepoint - also when the deferred
\* close of an Exec that returned nil has poisoned the connection before the
\* Commit.  What it was told has no effect (an Exec that failed before it ran, a
\* Rollback or RollbackToSavepoint that returned nil) never becomes durable, by a
\* later Commit or by a savepoint set twice (Conn.Exec, Conn.endTransaction).
OutcomeAsTold == promised \subseteq durable /\ undone \cap durable = {}

\* LedgerIsLog: while the connection is good and no reply was unparsable, what
\* the application can tell from the calls' results is the server's transaction,
\* savepoints included.
LedgerIsLog == ~bad /\ ~doubt => ledger = log

\* StatementsClosed: between calls the server holds no statement handle for the
\* connection but those of PREPARE replies that could not be parsed and those it
\* refused to close, however Exec ended (the deferred Stmt.Close of Conn.Exec).
StatementsClosed == call = NoCall /\ ~bad => handles = orphans
=============================================================================
