------------------------------ MODULE SqlPool ------------------------------
(***************************************************************************)
(* The database/sql adapter (conn.go, tx.go, stmt.go, rows.go, value.go of *)
(* the root package) under database/sql's connection pool: several clients *)
(* run one-shot statements, queries and transactions over pooled           *)
(* connections, each to a CAS process of its own.                          *)
(*                                                                         *)
(* A round trip is one step here (Conn.tla shows what it promises).  It    *)
(* ends in a reply, in an error status of the server, in a reply that      *)
(* cannot be parsed although the request was carried out, or in a          *)
(* transport failure.  Only the last poisons the connection; then the      *)
(* request was lost, was carried out, or will be carried out late, when    *)
(* the caller is long gone.  database/sql and the CAS are external.        *)
(***************************************************************************)
EXTENDS Naturals, FiniteSets

CONSTANTS
  Clients,     \* goroutines using the sql.DB
  MaxConns,    \* bound on the connections dialled
  MaxStmts,    \* bound on the statements run
  MaxTx,       \* bound on the transactions begun
  MaxOrphans,  \* bound on the handles left open on the servers at a time
  Levels       \* isolation levels asked for in BeginTx; 0 is sql.LevelDefault

ASSUME PoolConstants ==
  /\ MaxConns \in Nat /\ MaxStmts \in Nat /\ MaxTx \in Nat
  /\ MaxOrphans \in Nat
  /\ Levels \subseteq Nat

VARIABLES
  pool,       \* pool[k]: where database/sql has connection k
  nc,         \* nc[k]: the native connection's bad and autoCommit flags
  cas,        \* cas[k]: the CAS of connection k
  cl,         \* cl[c]: what client c is doing
  nStmts,     \* statements started
  nTx,        \* transactions started
  txOf,       \* txOf[s]: the transaction statement s belongs to; 0 if none
  execs,      \* execs[s]: how often the server executed s
  stmtRes,    \* stmtRes[s]: what the caller of s got back
  txRes,      \* txRes[t]: what Commit or Rollback of t returned
  committed   \* statements whose effects are durable

vars == <<pool, nc, cas, cl, nStmts, nTx, txOf, execs, stmtRes, txRes, committed>>

ConnId == 1 .. MaxConns
Stmt == 1 .. MaxStmts
Tx == 1 .. MaxTx

\* What the adapter may return; "server" is an error that leaves the connection
\* good (the server's status, or a reply that cannot be parsed), and
\* "cubrid.ErrBadConn" the native error.
Err == {"nil", "server", "net", "driver.ErrBadConn"}
NoLate == [kind |-> "none", s |-> 0, ac |-> FALSE]
DefaultLevel == 4 \* the session's level before any SET_DB_PARAMETER

IdleClient ==
  [pc |-> "idle", k |-> 0, s |-> 0, query |-> FALSE, tx |-> 0, level |-> 0,
   err |-> "nil", tries |-> 0]

PC == {"idle", "acquire", "begin", "intx", "prepare", "execute", "rows", "close",
       "release"}

ConnType == [bad : BOOLEAN, autoCommit : BOOLEAN]

\* The CAS of a connection: the work of its open transaction, the statement
\* handles it holds, which of them the adapter will not close again (the
\* orphans), its isolation level, and an abandoned request not yet carried out.
CasType ==
  [pending : SUBSET Stmt, handles : SUBSET Stmt, orphans : SUBSET Stmt,
   iso : Levels \union {DefaultLevel},
   late : [kind : {"none", "exec", "commit", "rollback"}, s : 0 .. MaxStmts,
           ac : BOOLEAN]]

ClientType ==
  [pc : PC, k : 0 .. MaxConns, s : 0 .. MaxStmts, query : BOOLEAN, tx : 0 .. MaxTx,
   level : Levels \union {0}, err : Err, tries : 0 .. 2]

TxResults ==
  {"none", "committed", "rolledback", "commit failed", "rollback failed",
   "commit unsent", "rollback unsent", "commit rejected", "rollback rejected",
   "abandoned"}

TypeOK ==
  /\ pool \in [ConnId -> {"undialled", "free", "used", "closed"}]
  /\ nc \in [ConnId -> ConnType]
  /\ cas \in [ConnId -> CasType]
  /\ cl \in [Clients -> ClientType]
  /\ nStmts \in 0 .. MaxStmts /\ nTx \in 0 .. MaxTx
  /\ txOf \in [Stmt -> 0 .. MaxTx]
  /\ execs \in [Stmt -> Nat]
  /\ stmtRes \in [Stmt -> {"none"} \union Err]
  /\ txRes \in [Tx -> TxResults]
  /\ committed \subseteq Stmt

\* connectHost: a fresh connection is usable and in autocommit mode.
FreshConn == [bad |-> FALSE, autoCommit |-> TRUE]

FreshCas ==
  [pending |-> {}, handles |-> {}, orphans |-> {}, iso |-> DefaultLevel,
   late |-> NoLate]

Init ==
  /\ pool = [k \in ConnId |-> "undialled"]
  /\ nc = [k \in ConnId |-> FreshConn]
  /\ cas = [k \in ConnId |-> FreshCas]
  /\ cl = [c \in Clients |-> IdleClient]
  /\ nStmts = 0 /\ nTx = 0
  /\ txOf = [s \in Stmt |-> 0]
  /\ execs = [s \in Stmt |-> 0]
  /\ stmtRes = [s \in Stmt |-> "none"]
  /\ txRes = [t \in Tx |-> "none"]
  /\ committed = {}

-----------------------------------------------------------------------------
(* Helpers *)

Valid(k) == ~nc[k].bad

Goto(c, pc) == cl' = [cl EXCEPT ![c].pc = pc]

\* The operation of client c ends with err: inside a transaction the connection
\* stays with the Tx, otherwise it goes back to the pool.
Ends(c, err) ==
  cl' = [cl EXCEPT ![c].pc = IF cl[c].tx = 0 THEN "release" ELSE "intx",
                   ![c].err = err]

Poison(k) == nc' = [nc EXCEPT ![k].bad = TRUE]

\* Mutants of MapErr: every transport failure is reported as ErrBadConn; the
\* native error is not translated.
MapErrAll(err) ==
  IF err \in {"net", "cubrid.ErrBadConn"} THEN "driver.ErrBadConn" ELSE err

MapErrNone(err) == err

\* mapErr: only the native ErrBadConn becomes driver.ErrBadConn; a failed
\* round trip returns the context's or the network's error.
MapErr(err) == IF err = "cubrid.ErrBadConn" THEN "driver.ErrBadConn" ELSE err

\* The CAS executes statement s (external): in autocommit mode it commits
\* whatever its transaction holds.
CasRuns(k, s, ac) ==
  /\ execs' = [execs EXCEPT ![s] = @ + 1]
  /\ IF ac
     THEN /\ committed' = committed \union cas[k].pending \union {s}
          /\ cas' = [cas EXCEPT ![k].pending = {}, ![k].late = NoLate]
     ELSE /\ cas' = [cas EXCEPT ![k].pending = @ \union {s}, ![k].late = NoLate]
          /\ UNCHANGED committed

\* The CAS ends its transaction (external).
CasEnds(k, kind) ==
  /\ committed' = IF kind = "commit" THEN committed \union cas[k].pending
                  ELSE committed
  /\ cas' = [cas EXCEPT ![k].pending = {}, ![k].late = NoLate]

-----------------------------------------------------------------------------
(* database/sql: operations and the pool (external) *)

StartStmt(c) ==
  /\ nStmts < MaxStmts
  /\ \/ cl[c].pc = "idle" \/ cl[c].pc = "intx"
  /\ nStmts' = nStmts + 1
  /\ txOf' = [txOf EXCEPT ![nStmts + 1] = cl[c].tx]
  /\ \E q \in BOOLEAN :
       cl' = [cl EXCEPT ![c].pc = IF @ = "idle" THEN "acquire" ELSE "prepare",
                        ![c].s = nStmts + 1, ![c].query = q, ![c].err = "nil"]
  /\ UNCHANGED <<pool, nc, cas, nTx, execs, stmtRes, txRes, committed>>

StartTx(c, lv) ==
  /\ nTx < MaxTx /\ cl[c].pc = "idle"
  /\ nTx' = nTx + 1
  /\ cl' = [cl EXCEPT ![c].pc = "acquire", ![c].tx = nTx + 1, ![c].level = lv]
  /\ UNCHANGED <<pool, nc, cas, nStmts, txOf, execs, stmtRes, txRes, committed>>

Acquired(c, k) ==
  /\ pool' = [pool EXCEPT ![k] = "used"]
  /\ cl' = [cl EXCEPT ![c].pc = IF cl[c].tx = 0 THEN "prepare" ELSE "begin",
                      ![c].k = k]

\* Connector.Connect dials a new connection.
Dial(c, k) ==
  /\ cl[c].pc = "acquire"
  /\ pool[k] = "undialled"
  /\ \A j \in ConnId : j < k => pool[j] # "undialled"
  /\ \A j \in ConnId : pool[j] # "free"
  /\ Acquired(c, k)
  /\ UNCHANGED <<nc, cas, nStmts, nTx, txOf, execs, stmtRes, txRes, committed>>

\* Mutant of ResetSession: autocommit is turned on without the rollback.
ResetSessionNoRollback(c, k) ==
  /\ cl[c].pc = "acquire" /\ pool[k] = "free" /\ Valid(k)
  /\ Acquired(c, k)
  /\ nc' = [nc EXCEPT ![k].autoCommit = TRUE]
  /\ UNCHANGED <<cas, committed, nStmts, nTx, txOf, execs, stmtRes, txRes>>

\* Mutant of ResetSession: autocommit stays off after the rollback.
ResetSessionManual(c, k) ==
  /\ cl[c].pc = "acquire" /\ pool[k] = "free" /\ Valid(k)
  /\ Acquired(c, k)
  /\ IF nc[k].autoCommit THEN UNCHANGED <<cas, committed>>
     ELSE CasEnds(k, "rollback")
  /\ UNCHANGED <<nc, nStmts, nTx, txOf, execs, stmtRes, txRes>>

\* A cached connection is reset before it is handed out: ResetSession rolls
\* back a transaction left open in manual-commit mode and turns autocommit on.
ResetSession(c, k) ==
  /\ cl[c].pc = "acquire" /\ pool[k] = "free" /\ Valid(k)
  /\ Acquired(c, k)
  /\ IF nc[k].autoCommit
     THEN UNCHANGED <<nc, cas, committed>>
     ELSE /\ CasEnds(k, "rollback")
          /\ nc' = [nc EXCEPT ![k].autoCommit = TRUE]
  /\ UNCHANGED <<nStmts, nTx, txOf, execs, stmtRes, txRes>>

\* ResetSession returns ErrBadConn when the connection is not valid or that
\* rollback fails or is rejected: database/sql closes it and looks for another.
ResetSessionBad(c, k) ==
  /\ cl[c].pc = "acquire" /\ pool[k] = "free"
  /\ Valid(k) => ~nc[k].autoCommit
  /\ pool' = [pool EXCEPT ![k] = "closed"]
  /\ \E isBad \in BOOLEAN : nc' = [nc EXCEPT ![k].bad = @ \/ isBad]
  /\ UNCHANGED <<cas, cl, nStmts, nTx, txOf, execs, stmtRes, txRes, committed>>

\* putConn: a connection that returned ErrBadConn or whose IsValid is false is
\* closed, any other one is kept.  An operation that failed with ErrBadConn is
\* tried again on another connection, at most twice, except in a Tx.
Release(c) ==
  LET k == cl[c].k
      retry == cl[c].err = "driver.ErrBadConn" /\ cl[c].tx = 0 /\ cl[c].tries < 2
  IN /\ cl[c].pc = "release"
     /\ pool' = [pool EXCEPT ![k] =
                   IF cl[c].err = "driver.ErrBadConn" \/ ~Valid(k) THEN "closed" ELSE "free"]
     /\ cl' = [cl EXCEPT ![c] =
                 IF retry THEN [cl[c] EXCEPT !.pc = "acquire", !.k = 0, !.err = "nil",
                                             !.tries = cl[c].tries + 1]
                 ELSE IdleClient]
     /\ stmtRes' = IF cl[c].s # 0 /\ cl[c].tx = 0 /\ ~retry
                   THEN [stmtRes EXCEPT ![cl[c].s] = cl[c].err] ELSE stmtRes
     /\ UNCHANGED <<nc, cas, nStmts, nTx, txOf, execs, txRes, committed>>

-----------------------------------------------------------------------------
(* conn.ExecContext, conn.QueryContext, rows.Close *)

stmtHistory == <<pool, nStmts, nTx, txOf, txRes>>

\* The statement's outcome is known to its caller inside a transaction.
Reported(c, err) ==
  stmtRes' = IF cl[c].tx # 0 THEN [stmtRes EXCEPT ![cl[c].s] = err] ELSE stmtRes

\* CAS k keeps a handle that the adapter will not close again.
Orphaned(k, s) ==
  /\ Cardinality(UNION {cas[j].orphans : j \in ConnId}) < MaxOrphans
  /\ cas' = [cas EXCEPT ![k].handles = @ \union {s}, ![k].orphans = @ \union {s}]

\* Prepare, the first round trip of both.
PrepareOK(c) ==
  LET k == cl[c].k
  IN /\ cl[c].pc = "prepare" /\ Valid(k)
     /\ cas' = [cas EXCEPT ![k].handles = @ \union {cl[c].s}]
     /\ Goto(c, "execute")
     /\ UNCHANGED <<nc, execs, stmtRes, committed, stmtHistory>>

PrepareError(c) ==
  /\ cl[c].pc = "prepare" /\ Valid(cl[c].k)
  /\ Ends(c, "server") /\ Reported(c, "server")
  /\ UNCHANGED <<nc, cas, execs, committed, stmtHistory>>

\* The server prepared the statement and answered with its handle, but the
\* rest of the reply cannot be parsed: Prepare returns the error and the handle
\* is lost, on a connection that stays good.
PrepareUnparsable(c) ==
  LET k == cl[c].k
  IN /\ cl[c].pc = "prepare" /\ Valid(k)
     /\ Orphaned(k, cl[c].s)
     /\ Ends(c, "server") /\ Reported(c, "server")
     /\ UNCHANGED <<nc, execs, committed, stmtHistory>>

PrepareFails(c) ==
  /\ cl[c].pc = "prepare" /\ Valid(cl[c].k)
  /\ Poison(cl[c].k)
  /\ Ends(c, MapErr("net")) /\ Reported(c, MapErr("net"))
  /\ UNCHANGED <<cas, execs, committed, stmtHistory>>

\* In a transaction whose connection an earlier statement poisoned.
PrepareBadConn(c) ==
  /\ cl[c].pc = "prepare" /\ ~Valid(cl[c].k)
  /\ Ends(c, MapErr("cubrid.ErrBadConn")) /\ Reported(c, MapErr("cubrid.ErrBadConn"))
  /\ UNCHANGED <<nc, cas, execs, committed, stmtHistory>>

\* Execute.  A query that succeeded hands its statement to the rows.
ExecuteOK(c) ==
  LET k == cl[c].k
  IN /\ cl[c].pc = "execute"
     /\ CasRuns(k, cl[c].s, nc[k].autoCommit)
     /\ cl' = [cl EXCEPT ![c].pc = IF cl[c].query THEN "rows" ELSE "close"]
     /\ Reported(c, "nil")
     /\ UNCHANGED <<nc, stmtHistory>>

\* Mutant of ExecuteError: the error path of QueryContext leaves the statement
\* open.
ExecuteErrorKeepsStmt(c) ==
  LET k == cl[c].k
  IN /\ cl[c].pc = "execute"
     /\ cas' = IF nc[k].autoCommit THEN [cas EXCEPT ![k].pending = {}] ELSE cas
     /\ IF cl[c].query THEN Ends(c, "server")
        ELSE cl' = [cl EXCEPT ![c].pc = "close", ![c].err = "server"]
     /\ Reported(c, "server")
     /\ UNCHANGED <<nc, execs, committed, stmtHistory>>

\* The server rejects the statement (in autocommit mode it also rolls back);
\* the adapter closes the statement, with or without deferred call.
ExecuteError(c) ==
  LET k == cl[c].k
  IN /\ cl[c].pc = "execute"
     /\ cas' = IF nc[k].autoCommit THEN [cas EXCEPT ![k].pending = {}] ELSE cas
     /\ cl' = [cl EXCEPT ![c].pc = "close", ![c].err = "server"]
     /\ Reported(c, "server")
     /\ UNCHANGED <<nc, execs, committed, stmtHistory>>

\* The server ran the statement but its reply cannot be parsed: an error to the
\* caller, on a connection that stays good.
ExecuteUnparsable(c) ==
  LET k == cl[c].k
  IN /\ cl[c].pc = "execute"
     /\ CasRuns(k, cl[c].s, nc[k].autoCommit)
     /\ cl' = [cl EXCEPT ![c].pc = "close", ![c].err = "server"]
     /\ Reported(c, "server")
     /\ UNCHANGED <<nc, stmtHistory>>

\* The round trip fails: the request is lost, was executed, or will be.
ExecuteFails(c) ==
  LET k == cl[c].k
      s == cl[c].s
      ac == nc[k].autoCommit
  IN /\ cl[c].pc = "execute"
     /\ Poison(k)
     /\ \/ UNCHANGED <<cas, execs, committed>>
        \/ CasRuns(k, s, ac)
        \/ /\ cas' = [cas EXCEPT ![k].late = [kind |-> "exec", s |-> s, ac |-> ac]]
           /\ UNCHANGED <<execs, committed>>
     /\ cl' = [cl EXCEPT ![c].pc = "close", ![c].err = MapErr("net")]
     /\ Reported(c, MapErr("net"))
     /\ UNCHANGED stmtHistory

\* A FETCH of rows.Next that fails poisons the connection; database/sql then
\* closes the rows.  One that succeeds, or is rejected, changes nothing here.
FetchFails(c) ==
  /\ cl[c].pc = "rows"
  /\ Poison(cl[c].k)
  /\ Goto(c, "close")
  /\ UNCHANGED <<cas, execs, stmtRes, committed, stmtHistory>>

RowsClose(c) ==
  /\ cl[c].pc = "rows"
  /\ Goto(c, "close")
  /\ UNCHANGED <<nc, cas, execs, stmtRes, committed, stmtHistory>>

\* Stmt.Close under context.Background(); its error is dropped.
CloseOK(c) ==
  /\ cl[c].pc = "close" /\ Valid(cl[c].k)
  /\ cas' = [cas EXCEPT ![cl[c].k].handles = @ \ {cl[c].s}]
  /\ Ends(c, cl[c].err)
  /\ UNCHANGED <<nc, execs, stmtRes, committed, stmtHistory>>

\* The server rejects CLOSE_REQ_HANDLE: nobody will close the handle again.
CloseError(c) ==
  /\ cl[c].pc = "close" /\ Valid(cl[c].k)
  /\ Orphaned(cl[c].k, cl[c].s)
  /\ Ends(c, cl[c].err)
  /\ UNCHANGED <<nc, execs, stmtRes, committed, stmtHistory>>

CloseFails(c) ==
  /\ cl[c].pc = "close"
  /\ Poison(cl[c].k)
  /\ Ends(c, cl[c].err)
  /\ UNCHANGED <<cas, execs, stmtRes, committed, stmtHistory>>

-----------------------------------------------------------------------------
(* conn.BeginTx, tx.Commit, tx.Rollback *)

\* Mutant of BeginTx: autocommit stays on.
BeginTxAutoCommit(c) ==
  LET k == cl[c].k
      lv == cl[c].level
  IN /\ cl[c].pc = "begin"
     /\ cas' = IF lv # 0 THEN [cas EXCEPT ![k].iso = lv] ELSE cas
     /\ Goto(c, "intx")
     /\ UNCHANGED <<nc, execs, stmtRes, committed, stmtHistory>>

\* BeginTx sets a non-default isolation level in a round trip of its own and
\* then turns autocommit off.  (It rejects read-only transactions and unknown
\* levels before that, changing nothing.)
BeginTx(c) ==
  LET k == cl[c].k
      lv == cl[c].level
  IN /\ cl[c].pc = "begin"
     /\ nc' = [nc EXCEPT ![k].autoCommit = FALSE]
     /\ cas' = IF lv # 0 THEN [cas EXCEPT ![k].iso = lv] ELSE cas
     /\ Goto(c, "intx")
     /\ UNCHANGED <<execs, stmtRes, committed, stmtHistory>>

\* An error to the caller's SET_DB_PARAMETER: the level is set, or it is not.
LevelSetOrNot(k, lv) ==
  \E iso \in {cas[k].iso, lv} : cas' = [cas EXCEPT ![k].iso = iso]

\* The server rejects the level, or its reply is too short for its status.
BeginTxError(c) ==
  /\ cl[c].pc = "begin" /\ cl[c].level # 0
  /\ LevelSetOrNot(cl[c].k, cl[c].level)
  /\ cl' = [cl EXCEPT ![c].pc = "release", ![c].err = "server"]
  /\ UNCHANGED <<nc, execs, stmtRes, committed, stmtHistory>>

\* The level's round trip fails.
BeginTxFails(c) ==
  LET k == cl[c].k
      lv == cl[c].level
  IN /\ cl[c].pc = "begin" /\ lv # 0
     /\ Poison(k)
     /\ LevelSetOrNot(k, lv)
     /\ cl' = [cl EXCEPT ![c].pc = "release", ![c].err = MapErr("net")]
     /\ UNCHANGED <<execs, stmtRes, committed, stmtHistory>>

EndsTx(c, res) ==
  /\ cl' = [cl EXCEPT ![c].pc = "release"]
  /\ txRes' = [txRes EXCEPT ![cl[c].tx] = res]

\* SetAutoCommit(true), whatever END_TRAN returned.
AutoCommitOn(k, isBad) == nc' = [nc EXCEPT ![k] = [bad |-> isBad, autoCommit |-> TRUE]]

\* tx.Commit and tx.Rollback (also database/sql's rollback when the Tx's
\* context is cancelled): END_TRAN under context.Background().
EndTran(c, kind) ==
  LET k == cl[c].k
  IN /\ cl[c].pc = "intx" /\ Valid(k)
     /\ CasEnds(k, kind)
     /\ AutoCommitOn(k, FALSE)
     /\ EndsTx(c, IF kind = "commit" THEN "committed" ELSE "rolledback")
     /\ UNCHANGED <<pool, nStmts, nTx, txOf, execs, stmtRes>>

\* The server rejects END_TRAN and the transaction stays open; or it ended the
\* transaction and the reply is too short for its status, an error all the same.
EndTranError(c, kind) ==
  LET k == cl[c].k
  IN /\ cl[c].pc = "intx" /\ Valid(k)
     /\ UNCHANGED <<cas, committed>> \/ CasEnds(k, kind)
     /\ AutoCommitOn(k, FALSE)
     /\ EndsTx(c, IF kind = "commit" THEN "commit rejected"
                  ELSE "rollback rejected")
     /\ UNCHANGED <<pool, nStmts, nTx, txOf, execs, stmtRes>>

\* The round trip fails.
EndTranFails(c, kind) ==
  LET k == cl[c].k
  IN /\ cl[c].pc = "intx" /\ Valid(k)
     /\ AutoCommitOn(k, TRUE)
     /\ \/ UNCHANGED <<cas, committed>>
        \/ CasEnds(k, kind)
        \/ /\ cas' = [cas EXCEPT ![k].late = [kind |-> kind, s |-> 0, ac |-> FALSE]]
           /\ UNCHANGED committed
     /\ EndsTx(c, IF kind = "commit" THEN "commit failed" ELSE "rollback failed")
     /\ UNCHANGED <<pool, nStmts, nTx, txOf, execs, stmtRes>>

\* A statement of the transaction poisoned the connection: ErrBadConn.
EndTranBadConn(c, kind) ==
  LET k == cl[c].k
  IN /\ cl[c].pc = "intx" /\ ~Valid(k)
     /\ AutoCommitOn(k, TRUE)
     /\ EndsTx(c, IF kind = "commit" THEN "commit unsent" ELSE "rollback unsent")
     /\ UNCHANGED <<pool, cas, nStmts, nTx, txOf, execs, stmtRes, committed>>

\* A transaction begun on the driver connection itself (sql.Conn.Raw) and
\* abandoned: the connection goes back in manual-commit mode (external).
Abandon(c) ==
  /\ cl[c].pc = "intx"
  /\ EndsTx(c, "abandoned")
  /\ UNCHANGED <<pool, nc, cas, nStmts, nTx, txOf, execs, stmtRes, committed>>

-----------------------------------------------------------------------------
(* The CAS on its own (external) *)

\* A request whose caller gave up is carried out late.
CasLate(k) ==
  /\ cas[k].late.kind # "none"
  /\ IF cas[k].late.kind = "exec"
     THEN CasRuns(k, cas[k].late.s, cas[k].late.ac)
     ELSE CasEnds(k, cas[k].late.kind) /\ UNCHANGED execs
  /\ UNCHANGED <<pool, nc, cl, nStmts, nTx, txOf, stmtRes, txRes>>

\* The CAS notices that the connection is gone: its transaction is rolled back
\* and its handles are freed.
CasHangup(k) ==
  /\ pool[k] = "closed" /\ cas[k] # FreshCas
  /\ cas' = [cas EXCEPT ![k] = FreshCas]
  /\ UNCHANGED <<pool, nc, cl, nStmts, nTx, txOf, execs, stmtRes, txRes, committed>>

Next ==
  \/ \E c \in Clients : StartStmt(c)
  \/ \E c \in Clients, lv \in Levels : StartTx(c, lv)
  \/ \E c \in Clients, k \in ConnId : Dial(c, k)
  \/ \E c \in Clients, k \in ConnId : ResetSession(c, k)
  \/ \E c \in Clients, k \in ConnId : ResetSessionBad(c, k)
  \/ \E c \in Clients : Release(c)
  \/ \E c \in Clients : PrepareOK(c)
  \/ \E c \in Clients : PrepareError(c)
  \/ \E c \in Clients : PrepareUnparsable(c)
  \/ \E c \in Clients : PrepareFails(c)
  \/ \E c \in Clients : PrepareBadConn(c)
  \/ \E c \in Clients : ExecuteOK(c)
  \/ \E c \in Clients : ExecuteError(c)
  \/ \E c \in Clients : ExecuteUnparsable(c)
  \/ \E c \in Clients : ExecuteFails(c)
  \/ \E c \in Clients : FetchFails(c)
  \/ \E c \in Clients : RowsClose(c)
  \/ \E c \in Clients : CloseOK(c)
  \/ \E c \in Clients : CloseError(c)
  \/ \E c \in Clients : CloseFails(c)
  \/ \E c \in Clients : BeginTx(c)
  \/ \E c \in Clients : BeginTxError(c)
  \/ \E c \in Clients : BeginTxFails(c)
  \/ \E c \in Clients, kind \in {"commit", "rollback"} : EndTran(c, kind)
  \/ \E c \in Clients, kind \in {"commit", "rollback"} : EndTranError(c, kind)
  \/ \E c \in Clients, kind \in {"commit", "rollback"} : EndTranFails(c, kind)
  \/ \E c \in Clients, kind \in {"commit", "rollback"} : EndTranBadConn(c, kind)
  \/ \E c \in Clients : Abandon(c)
  \/ \E k \in ConnId : CasLate(k)
  \/ \E k \in ConnId : CasHangup(k)

Spec == Init /\ [][Next]_vars

-----------------------------------------------------------------------------
(* Properties *)

\* No statement is executed twice: database/sql re-runs an operation only when
\* the driver returns ErrBadConn, and the driver returns it only for a request
\* that was never sent; a failed round trip, whose request the CAS may have
\* executed or may yet execute, returns another error.
ExecutedOnce == \A s \in Stmt : execs[s] <= 1

\* What Commit and Rollback returned is what happened: after a successful
\* Commit all the transaction's successful statements are durable; after a
\* successful Rollback, or when the connection was already bad, none is, not
\* even later, when a late request is carried out.
TxOutcome ==
  \A s \in Stmt : txOf[s] # 0 =>
    /\ txRes[txOf[s]] = "committed" /\ stmtRes[s] = "nil" => s \in committed
    /\ txRes[txOf[s]] \in {"rolledback", "commit unsent", "rollback unsent"} =>
         s \notin committed

Rejected == {"commit rejected", "rollback rejected"}

\* Statements of a transaction become durable only through its own Commit:
\* never one by one, never because it was abandoned, and never by an
\* autocommit statement of whoever gets the connection next.  The exception is
\* a transaction whose END_TRAN returned an error (see ReturnsNeutral).
OnlyCommitCommits ==
  \A s \in Stmt : (txOf[s] # 0 /\ s \in committed) =>
    txRes[txOf[s]] \in {"committed", "commit failed"} \union Rejected

\* A one-shot statement that returned without error is durable.
AutocommitDurable ==
  \A s \in Stmt : (txOf[s] = 0 /\ stmtRes[s] = "nil") => s \in committed

\* A client that gets a connection from the pool, whoever had it before and
\* however that client's last operation ended, finds it usable, in autocommit
\* mode, with no abandoned request still to be carried out, with no transaction
\* open but one whose END_TRAN returned an error, and with no statement handle
\* on the server but those the driver could not close: of a PREPARE whose reply
\* could not be parsed, or of a CLOSE_REQ_HANDLE the server rejected.  Every
\* other exit of ExecContext, QueryContext and rows.Close, the failing ones
\* included, has closed its statement.
HandedOutNeutral ==
  \A c \in Clients :
    (cl[c].pc = "begin" \/ (cl[c].pc = "prepare" /\ cl[c].tx = 0)) =>
      LET k == cl[c].k
      IN /\ Valid(k) /\ nc[k].autoCommit
         /\ cas[k].handles \subseteq cas[k].orphans /\ cas[k].late = NoLate
         /\ \A s \in cas[k].pending : txOf[s] # 0 /\ txRes[txOf[s]] \in Rejected

\* "autocommit is restored either way so the pooled connection returns in its
\* neutral state" (tx.go): a connection that waits in the pool in autocommit
\* mode has no transaction open.
ReturnsNeutral ==
  \A k \in ConnId : (pool[k] = "free" /\ nc[k].autoCommit) => cas[k].pending = {}
=============================================================================
