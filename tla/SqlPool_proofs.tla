--------------------------- MODULE SqlPool_proofs ---------------------------
(***************************************************************************)
(* Proofs about the adapter under database/sql's pool (SqlPool.tla), for   *)
(* any number of clients, connections, statements and transactions and any *)
(* set of isolation levels: no statement is executed twice, what Commit    *)
(* and Rollback returned is what happened, only Commit commits, and a      *)
(* connection is handed out neutral.                                       *)
(*                                                                         *)
(* The inductive invariant has three layers: who holds what (HoldInv), how *)
(* often a statement was or may yet be executed (OnceInv), and whose       *)
(* effects a connection's CAS may still make durable (TxInv).              *)
(***************************************************************************)
EXTENDS SqlPool, TLAPS

-----------------------------------------------------------------------------
(* Who holds what *)

Working == {"prepare", "execute", "rows", "close"}

\* Client c has a connection of the pool in its hands.
Holds(c) == cl[c].pc \notin {"idle", "acquire"}

\* What a client works on exists, and belongs to the transaction it is in.
ClientOK(c) ==
  /\ cl[c].s <= nStmts /\ cl[c].tx <= nTx
  /\ cl[c].s # 0 => txOf[cl[c].s] = cl[c].tx
  /\ cl[c].pc = "idle" => cl[c].s = 0 /\ cl[c].tx = 0
  /\ (cl[c].pc # "idle" /\ cl[c].tx = 0) => cl[c].s # 0
  /\ cl[c].pc \in Working => cl[c].s # 0
  /\ cl[c].pc \in {"begin", "intx"} => cl[c].tx # 0
  /\ Holds(c) => cl[c].k # 0 /\ pool[cl[c].k] = "used"

\* No two clients share a connection, a statement or a transaction.
Apart(c, d) ==
  /\ Holds(c) /\ Holds(d) => cl[c].k # cl[d].k
  /\ cl[c].s # 0 => cl[c].s # cl[d].s
  /\ cl[c].tx # 0 => cl[c].tx # cl[d].tx

\* A request still to be carried out is one the server was really sent.
LateOK(k) ==
  /\ cas[k].late.kind = "exec" => cas[k].late.s \in 1 .. nStmts
  /\ ~nc[k].bad => cas[k].late = NoLate

HoldInv ==
  /\ TypeOK
  /\ \A c \in Clients : ClientOK(c)
  /\ \A c, d \in Clients : c # d => Apart(c, d)
  /\ \A k \in ConnId : LateOK(k)

-----------------------------------------------------------------------------
(* How often a statement is executed *)

\* Statement s may yet be executed by the CAS of connection k.
Late(k, s) == cas[k].late.kind = "exec" /\ cas[k].late.s = s

Untouched(s) == execs[s] = 0 /\ \A k \in ConnId : ~Late(k, s)

\* The statement of client c has not been sent, and may be tried again.
Unsent(c) ==
  /\ cl[c].s # 0
  /\ \/ cl[c].pc \in {"acquire", "prepare", "execute"}
     \/ cl[c].pc = "release" /\ cl[c].tx = 0 /\ cl[c].err = "driver.ErrBadConn"

\* ErrBadConn is only ever the error of an operation that ended before it was
\* sent.
ErrOK(c) ==
  /\ cl[c].pc \in {"idle", "acquire", "begin", "prepare", "execute", "rows"} =>
       cl[c].err = "nil"
  /\ cl[c].pc = "close" => cl[c].err # "driver.ErrBadConn"

OnceInv ==
  /\ HoldInv
  /\ \A c \in Clients : ErrOK(c)
  /\ \A c \in Clients : Unsent(c) => Untouched(cl[c].s)
  /\ \A s \in Stmt : s > nStmts => Untouched(s)
  /\ \A k \in ConnId, s \in Stmt : Late(k, s) => execs[s] = 0
  /\ \A j, k \in ConnId, s \in Stmt : Late(j, s) /\ Late(k, s) => j = k
  /\ ExecutedOnce

-----------------------------------------------------------------------------
(* What is durable *)

InTx(c) == cl[c].tx # 0 /\ cl[c].pc \in {"intx"} \union Working

\* The handles CAS k holds and the adapter has still to close.
Loose(k) == cas[k].handles \ cas[k].orphans

\* The connection of a client is in the mode the client needs, and a usable one
\* has no statement still to be closed but the client's.
ConnOK(c) ==
  LET k == cl[c].k
  IN /\ cl[c].pc \in {"begin", "execute", "rows"} => Valid(k)
     /\ (cl[c].pc = "prepare" /\ cl[c].tx = 0) => Valid(k)
     /\ cl[c].pc = "begin" => nc[k].autoCommit
     /\ (cl[c].pc \in {"prepare", "execute"} /\ cl[c].tx = 0) => nc[k].autoCommit
     /\ InTx(c) => ~nc[k].autoCommit
     /\ (cl[c].pc \in {"begin", "intx", "prepare", "release"} /\ Valid(k)) =>
          Loose(k) = {}
     /\ (cl[c].pc \in {"execute", "rows", "close"} /\ Valid(k)) =>
          Loose(k) \subseteq {cl[c].s}

PoolOK(k) ==
  /\ pool[k] = "undialled" => nc[k] = FreshConn /\ cas[k] = FreshCas
  /\ pool[k] = "free" => Valid(k) /\ Loose(k) = {}

\* Statement s belongs to a transaction that ended with one of res.
Ended(s, res) == txOf[s] # 0 /\ txRes[txOf[s]] \in res

\* Whatever CAS k holds and may still make durable may be made durable.
PendingOK(k) ==
  /\ (Valid(k) /\ nc[k].autoCommit) => \A s \in cas[k].pending : Ended(s, Rejected)
  /\ (cas[k].late.kind = "exec" /\ cas[k].late.ac) =>
       /\ txOf[cas[k].late.s] = 0
       /\ \A s \in cas[k].pending : Ended(s, Rejected)
  /\ cas[k].late.kind = "commit" =>
       \A s \in cas[k].pending : Ended(s, Rejected \union {"commit failed"})

\* A running transaction has no result yet, and what its successful statements
\* did is in the CAS, which holds nothing of anybody else's but what the server
\* refused to end.
TxOK(c) ==
  LET k == cl[c].k
      t == cl[c].tx
  IN /\ (t # 0 /\ cl[c].pc \in {"acquire", "begin"}) => \A s \in Stmt : txOf[s] # t
     /\ (t # 0 /\ cl[c].pc # "release") => txRes[t] = "none"
     /\ (InTx(c) /\ Valid(k)) =>
          /\ \A s \in cas[k].pending : txOf[s] = t \/ Ended(s, Rejected)
          /\ \A s \in Stmt : (txOf[s] = t /\ stmtRes[s] = "nil") =>
               s \in cas[k].pending

\* A one-shot statement that ran without error is durable.
OneShotOK(c) ==
  (cl[c].tx = 0 /\ cl[c].pc \in {"rows", "close", "release"} /\ cl[c].err = "nil") =>
    cl[c].s \in committed

UnstartedOK ==
  /\ \A s \in Stmt : txOf[s] <= nTx
  /\ \A s \in Stmt : s > nStmts => txOf[s] = 0 /\ stmtRes[s] = "none" /\ s \notin committed
  /\ \A t \in Tx : t > nTx => txRes[t] = "none"
  /\ \A k \in ConnId : \A s \in cas[k].pending : s <= nStmts

TxInv ==
  /\ OnceInv
  /\ UnstartedOK
  /\ \A c \in Clients : ConnOK(c) /\ TxOK(c) /\ OneShotOK(c)
  /\ \A k \in ConnId : PoolOK(k) /\ PendingOK(k)
  /\ TxOutcome
  /\ OnlyCommitCommits
  /\ AutocommitDurable

-----------------------------------------------------------------------------
(* What the helpers of the actions do *)

\* Client c goes on with what it holds, to pc and with error err.
Moved(c, pc, err) ==
  /\ cl' \in [Clients -> ClientType]
  /\ \A d \in Clients : d # c => cl'[d] = cl[d]
  /\ cl'[c].pc = pc /\ cl'[c].err = err
  /\ cl'[c].k = cl[c].k /\ cl'[c].s = cl[c].s /\ cl'[c].tx = cl[c].tx

LEMMA ClientFields ==
  ASSUME cl \in [Clients -> ClientType], NEW c \in Clients
  PROVE  /\ cl[c].pc \in PC /\ cl[c].k \in 0 .. MaxConns /\ cl[c].s \in 0 .. MaxStmts
         /\ cl[c].query \in BOOLEAN /\ cl[c].tx \in 0 .. MaxTx
         /\ cl[c].level \in Levels \union {0} /\ cl[c].err \in Err
         /\ cl[c].tries \in 0 .. 2
  BY DEF ClientType

LEMMA GotoMoves ==
  ASSUME TypeOK, NEW c \in Clients, NEW pc \in PC, Goto(c, pc)
  PROVE  Moved(c, pc, cl[c].err)
<1>1. cl \in [Clients -> ClientType]  BY DEF TypeOK
<1>2. cl' \in [Clients -> ClientType]
  BY <1>1 DEF Goto, ClientType
<1> QED  BY <1>1, <1>2 DEF Moved, Goto, ClientType

LEMMA PcErrMoves ==
  ASSUME TypeOK, NEW c \in Clients, NEW pc \in PC, NEW err \in Err,
         cl' = [cl EXCEPT ![c].pc = pc, ![c].err = err]
  PROVE  Moved(c, pc, err)
<1>1. cl \in [Clients -> ClientType]  BY DEF TypeOK
<1>2. cl' \in [Clients -> ClientType]
  BY <1>1 DEF ClientType
<1> QED  BY <1>1, <1>2 DEF Moved, ClientType

LEMMA EndsMoves ==
  ASSUME TypeOK, NEW c \in Clients, NEW err \in Err, Ends(c, err)
  PROVE  Moved(c, IF cl[c].tx = 0 THEN "release" ELSE "intx", err)
<1> DEFINE pc == IF cl[c].tx = 0 THEN "release" ELSE "intx"
<1>1. pc \in PC  BY DEF PC
<1>2. cl' = [cl EXCEPT ![c].pc = pc, ![c].err = err]  BY DEF Ends
<1> HIDE DEF pc
<1>3. Moved(c, pc, err)  BY <1>1, <1>2, PcErrMoves
<1> QED  BY <1>3 DEF pc

\* nc or cas change at connection k only.
NcAt(k) == nc' \in [ConnId -> ConnType] /\ \A j \in ConnId : j # k => nc'[j] = nc[j]

CasAt(k) == cas' \in [ConnId -> CasType] /\ \A j \in ConnId : j # k => cas'[j] = cas[j]

Poisoned(k) ==
  NcAt(k) /\ nc'[k].bad = TRUE /\ nc'[k].autoCommit = nc[k].autoCommit

LEMMA Poisons ==
  ASSUME TypeOK, NEW k \in ConnId, Poison(k)
  PROVE  Poisoned(k)
  BY DEF TypeOK, Poison, Poisoned, NcAt, ConnType

\* CAS k has executed s.
Ran(k, s, ac) ==
  /\ CasAt(k)
  /\ cas'[k].late = NoLate /\ Loose(k)' = Loose(k)
  /\ cas'[k].pending = IF ac THEN {} ELSE cas[k].pending \union {s}
  /\ committed' = IF ac THEN committed \union cas[k].pending \union {s} ELSE committed
  /\ committed' \subseteq Stmt
  /\ execs' \in [Stmt -> Nat]
  /\ execs'[s] = execs[s] + 1
  /\ \A r \in Stmt : r # s => execs'[r] = execs[r]

LEMMA CasRan ==
  ASSUME TypeOK, NEW k \in ConnId, NEW s \in Stmt, NEW ac \in BOOLEAN,
         CasRuns(k, s, ac)
  PROVE  Ran(k, s, ac)
<1>1. cas \in [ConnId -> CasType]  BY DEF TypeOK
<1>2. NoLate \in [kind : {"none", "exec", "commit", "rollback"}, s : 0 .. MaxStmts,
                  ac : BOOLEAN]
  BY PoolConstants DEF NoLate
<1>3. CasAt(k) /\ cas'[k].late = NoLate /\ Loose(k)' = Loose(k)
  BY <1>1, <1>2 DEF CasRuns, CasAt, CasType, Loose
<1>4. cas'[k].pending = IF ac THEN {} ELSE cas[k].pending \union {s}
  <2>1. CASE ac
    <3>1. cas' = [cas EXCEPT ![k].pending = {}, ![k].late = NoLate]  BY <2>1 DEF CasRuns
    <3>2. cas'[k].pending = {}  BY <1>1, <3>1 DEF CasType
    <3> QED  BY <2>1, <3>2
  <2>2. CASE ~ac
    <3>1. cas' = [cas EXCEPT ![k].pending = cas[k].pending \union {s}, ![k].late = NoLate]
      BY <2>2 DEF CasRuns
    <3>2. cas'[k].pending = cas[k].pending \union {s}  BY <1>1, <3>1 DEF CasType
    <3> QED  BY <2>2, <3>2
  <2> QED  BY <2>1, <2>2
<1>5. /\ committed' = IF ac THEN committed \union cas[k].pending \union {s} ELSE committed
      /\ committed' \subseteq Stmt
  BY <1>1 DEF CasRuns, CasType, TypeOK
<1>6. /\ execs' \in [Stmt -> Nat] /\ execs'[s] = execs[s] + 1
      /\ \A r \in Stmt : r # s => execs'[r] = execs[r]
  BY DEF CasRuns, TypeOK
<1> QED  BY <1>3, <1>4, <1>5, <1>6 DEF Ran

\* CAS k has ended its transaction.
EndedCas(k, kind) ==
  /\ CasAt(k)
  /\ cas'[k].late = NoLate /\ Loose(k)' = Loose(k)
  /\ cas'[k].pending = {}
  /\ committed' = IF kind = "commit" THEN committed \union cas[k].pending ELSE committed
  /\ committed' \subseteq Stmt

LEMMA CasEnded ==
  ASSUME TypeOK, NEW k \in ConnId, NEW kind, CasEnds(k, kind)
  PROVE  EndedCas(k, kind)
<1>1. cas \in [ConnId -> CasType]  BY DEF TypeOK
<1>2. NoLate \in [kind : {"none", "exec", "commit", "rollback"}, s : 0 .. MaxStmts,
                  ac : BOOLEAN]
  BY PoolConstants DEF NoLate
<1>0. cas' = [cas EXCEPT ![k].pending = {}, ![k].late = NoLate]  BY DEF CasEnds
<1>6. cas' \in [ConnId -> CasType]
  <2>1. {} \in SUBSET Stmt  OBVIOUS
  <2>2. [cas[k] EXCEPT !.pending = {}, !.late = NoLate] \in CasType
    BY <1>1, <1>2, <2>1 DEF CasType
  <2> QED  BY <1>0, <1>1, <2>2
<1>3. CasAt(k) /\ cas'[k].late = NoLate /\ Loose(k)' = Loose(k)
  BY <1>0, <1>1, <1>6 DEF CasAt, CasType, Loose
<1>4. cas'[k].pending = {}
  BY <1>1 DEF CasEnds, CasType
<1>5. committed' = (IF kind = "commit" THEN committed \union cas[k].pending ELSE committed)
      /\ committed' \subseteq Stmt
  BY <1>1 DEF CasEnds, CasType, TypeOK
<1> QED  BY <1>3, <1>4, <1>5 DEF EndedCas

\* Inside a transaction the outcome of c's statement is recorded.
Recorded(c, err) ==
  /\ stmtRes' \in [Stmt -> {"none"} \union Err]
  /\ \A s \in Stmt : stmtRes'[s] = IF s = cl[c].s /\ cl[c].tx # 0 THEN err
                                   ELSE stmtRes[s]

LEMMA ReportedRecords ==
  ASSUME TypeOK, NEW c \in Clients, NEW err \in Err, Reported(c, err)
  PROVE  Recorded(c, err)
  BY DEF TypeOK, Reported, Recorded

LEMMA MapErrNet == MapErr("net") = "net" /\ "net" \in Err
  BY DEF MapErr, Err

LEMMA MapErrBad ==
  MapErr("cubrid.ErrBadConn") = "driver.ErrBadConn" /\ "driver.ErrBadConn" \in Err
  BY DEF MapErr, Err

\* The transaction of c ends with res.
TxEnded(c, res) ==
  /\ Moved(c, "release", cl[c].err)
  /\ txRes' \in [Tx -> TxResults]
  /\ cl[c].tx # 0 => txRes'[cl[c].tx] = res
  /\ \A t \in Tx : t # cl[c].tx => txRes'[t] = txRes[t]

LEMMA EndsTxEnds ==
  ASSUME TypeOK, NEW c \in Clients, NEW res \in TxResults, EndsTx(c, res)
  PROVE  TxEnded(c, res)
<1>1. Moved(c, "release", cl[c].err)
  <2>1. Goto(c, "release")  BY DEF EndsTx, Goto
  <2> QED  BY <2>1, GotoMoves DEF PC
<1>2. cl[c].tx \in 0 .. MaxTx  BY ClientFields DEF TypeOK
<1> DEFINE tx == cl[c].tx
<1>0. txRes \in [Tx -> TxResults] /\ txRes' = [txRes EXCEPT ![tx] = res]
  BY DEF TypeOK, EndsTx
<1>4. tx # 0 => tx \in Tx  BY <1>2, PoolConstants DEF Tx
<1> HIDE DEF tx
<1>5. /\ txRes' \in [Tx -> TxResults]
      /\ tx # 0 => txRes'[tx] = res
      /\ \A t \in Tx : t # tx => txRes'[t] = txRes[t]
  BY <1>0, <1>4
<1>3. /\ txRes' \in [Tx -> TxResults]
      /\ cl[c].tx # 0 => txRes'[cl[c].tx] = res
      /\ \A t \in Tx : t # cl[c].tx => txRes'[t] = txRes[t]
  BY <1>5 DEF tx
<1> QED  BY <1>1, <1>3 DEF TxEnded

AutoOn(k, isBad) ==
  NcAt(k) /\ nc'[k].bad = isBad /\ nc'[k].autoCommit = TRUE

LEMMA AutoCommitOnSets ==
  ASSUME TypeOK, NEW k \in ConnId, NEW isBad \in BOOLEAN, AutoCommitOn(k, isBad)
  PROVE  AutoOn(k, isBad)
  BY DEF TypeOK, AutoCommitOn, AutoOn, NcAt, ConnType

LEMMA NothingAt ==
  ASSUME TypeOK, NEW k
  PROVE  (UNCHANGED nc => NcAt(k)) /\ (UNCHANGED cas => CasAt(k))
  BY DEF TypeOK, NcAt, CasAt

-----------------------------------------------------------------------------
(* HoldInv is inductive *)

LEMMA HeldConn ==
  ASSUME HoldInv, NEW c \in Clients, Holds(c)
  PROVE  cl[c].k \in ConnId /\ pool[cl[c].k] = "used"
<1>1. cl[c].k \in 0 .. MaxConns  BY ClientFields DEF HoldInv, TypeOK
<1>2. cl[c].k # 0 /\ pool[cl[c].k] = "used"  BY DEF HoldInv, ClientOK
<1> QED  BY <1>1, <1>2, PoolConstants DEF ConnId

LEMMA WorkingStmt ==
  ASSUME HoldInv, NEW c \in Clients, cl[c].pc \in Working
  PROVE  cl[c].s \in Stmt /\ cl[c].s \in 1 .. nStmts /\ txOf[cl[c].s] = cl[c].tx
<1>1. cl[c].s \in 0 .. MaxStmts  BY ClientFields DEF HoldInv, TypeOK
<1>2. cl[c].s # 0 /\ cl[c].s <= nStmts /\ txOf[cl[c].s] = cl[c].tx
  BY DEF HoldInv, ClientOK
<1>3. nStmts \in Nat  BY PoolConstants DEF HoldInv, TypeOK
<1> QED  BY <1>1, <1>2, <1>3, PoolConstants DEF Stmt

\* Client c, which holds a connection, goes on holding it.
Goes(c, pc, err) ==
  /\ Holds(c) /\ Moved(c, pc, err)
  /\ pc \in PC \ {"idle", "acquire"}
  /\ pc \in Working => cl[c].s # 0
  /\ pc \in {"begin", "intx"} => cl[c].tx # 0
  /\ UNCHANGED <<pool, nStmts, nTx, txOf>>

LEMMA GoesHolds ==
  ASSUME HoldInv, NEW c \in Clients, NEW pc, NEW err, Goes(c, pc, err)
  PROVE  /\ \A d \in Clients : ClientOK(d)'
         /\ \A d, e \in Clients : d # e => Apart(d, e)'
<1>1. \A d \in Clients : ClientOK(d)'
  <2> SUFFICES ASSUME NEW d \in Clients PROVE ClientOK(d)'
    OBVIOUS
  <2>1. ClientOK(d)  BY DEF HoldInv
  <2>2. CASE d = c
    BY <2>1, <2>2 DEF Goes, Moved, ClientOK, Holds
  <2>3. CASE d # c
    BY <2>1, <2>3 DEF Goes, Moved, ClientOK, Holds
  <2> QED  BY <2>2, <2>3
<1>2. \A d, e \in Clients : d # e => Apart(d, e)'
  <2> SUFFICES ASSUME NEW d \in Clients, NEW e \in Clients, d # e PROVE Apart(d, e)'
    OBVIOUS
  <2>1. Apart(d, e)  BY DEF HoldInv
  <2>2. \A f \in Clients :
          /\ cl'[f].k = cl[f].k /\ cl'[f].s = cl[f].s /\ cl'[f].tx = cl[f].tx
          /\ Holds(f)' => Holds(f)
    BY DEF Goes, Moved, Holds
  <2> QED  BY <2>1, <2>2 DEF Apart
<1> QED  BY <1>1, <1>2

LEMMA LateKept ==
  ASSUME HoldInv, NEW k \in ConnId, NcAt(k), CasAt(k), LateOK(k)',
         nStmts' \in Nat, nStmts <= nStmts'
  PROVE  \A j \in ConnId : LateOK(j)'
<1> SUFFICES ASSUME NEW j \in ConnId, j # k PROVE LateOK(j)'
  OBVIOUS
<1>1. LateOK(j) /\ nc'[j] = nc[j] /\ cas'[j] = cas[j]
  BY DEF HoldInv, NcAt, CasAt
<1>2. nStmts \in Nat  BY PoolConstants DEF HoldInv, TypeOK
<1> QED  BY <1>1, <1>2 DEF LateOK

\* The rest of what a step of c on its connection must keep.
LEMMA HoldKept ==
  ASSUME HoldInv, NEW c \in Clients, NEW pc, NEW err, Goes(c, pc, err),
         NEW k \in ConnId, NcAt(k), CasAt(k), LateOK(k)',
         execs' \in [Stmt -> Nat], stmtRes' \in [Stmt -> {"none"} \union Err],
         txRes' \in [Tx -> TxResults], committed' \subseteq Stmt
  PROVE  HoldInv'
<1>2. nStmts' = nStmts /\ nStmts \in Nat
  BY PoolConstants DEF HoldInv, TypeOK, Goes
<1>3. \A j \in ConnId : LateOK(j)'
  BY <1>2, LateKept
<1>4. TypeOK'
  <2>1. cl' \in [Clients -> ClientType]  BY DEF Goes, Moved
  <2>2. nc' \in [ConnId -> ConnType] /\ cas' \in [ConnId -> CasType]  BY DEF NcAt, CasAt
  <2>3. /\ pool' \in [ConnId -> {"undialled", "free", "used", "closed"}]
        /\ nStmts' \in 0 .. MaxStmts /\ nTx' \in 0 .. MaxTx
        /\ txOf' \in [Stmt -> 0 .. MaxTx]
    BY DEF HoldInv, TypeOK, Goes
  <2> QED  BY <2>1, <2>2, <2>3 DEF TypeOK
<1> QED  BY <1>3, <1>4, GoesHolds DEF HoldInv

-----------------------------------------------------------------------------
(* What each step of a client on the connection it holds does *)

\* Client c works on its connection k.
On(c, k) == HoldInv /\ c \in Clients /\ k \in ConnId /\ k = cl[c].k

LEMMA OnFacts ==
  ASSUME NEW c, NEW k, On(c, k)
  PROVE  /\ HoldInv /\ TypeOK /\ c \in Clients /\ k \in ConnId /\ k = cl[c].k
         /\ LateOK(k) /\ ClientOK(c) /\ nStmts \in Nat /\ nTx \in Nat
         /\ nc[k].bad \in BOOLEAN /\ nc[k].autoCommit \in BOOLEAN
         /\ cl[c].err \in Err /\ cl[c].query \in BOOLEAN /\ cl[c].level \in Levels \union {0}
         /\ cl[c].s \in 0 .. MaxStmts /\ cl[c].tx \in 0 .. MaxTx /\ cl[c].pc \in PC
<1>1. HoldInv /\ TypeOK /\ c \in Clients /\ k \in ConnId /\ k = cl[c].k
      /\ LateOK(k) /\ ClientOK(c)
  BY DEF On, HoldInv
<1>2. nc[k].bad \in BOOLEAN /\ nc[k].autoCommit \in BOOLEAN
  BY <1>1 DEF TypeOK, ConnType
<1>3. nStmts \in Nat /\ nTx \in Nat  BY <1>1, PoolConstants DEF TypeOK
<1> QED  BY <1>1, <1>2, <1>3, ClientFields DEF TypeOK

LEMMA WorkPCs ==
  /\ Working \subseteq PC \ {"idle", "acquire"}
  /\ {"release", "intx", "begin"} \subseteq PC \ {"idle", "acquire"}
  /\ "release" \notin Working /\ "intx" \notin Working /\ "begin" \notin Working
  BY DEF Working, PC

LEMMA EndsGoes ==
  ASSUME NEW c, NEW k, On(c, k), Holds(c), NEW err \in Err, Ends(c, err),
         UNCHANGED <<pool, nStmts, nTx, txOf>>
  PROVE  Goes(c, IF cl[c].tx = 0 THEN "release" ELSE "intx", err)
<1>1. Moved(c, IF cl[c].tx = 0 THEN "release" ELSE "intx", err)
  BY OnFacts, EndsMoves
<1> QED  BY <1>1, WorkPCs DEF Goes

LEMMA PrepareOKDoes ==
  ASSUME NEW c, NEW k, On(c, k), PrepareOK(c)
  PROVE  /\ cl[c].pc = "prepare" /\ Valid(k)
         /\ Goes(c, "execute", cl[c].err)
         /\ CasAt(k) /\ cas'[k].late = cas[k].late
         /\ cas'[k].pending = cas[k].pending
         /\ Loose(k)' \subseteq Loose(k) \union {cl[c].s}
         /\ UNCHANGED <<nc, execs, stmtRes, txRes, committed>>
<1>1. cl[c].pc = "prepare" /\ Valid(k)  BY OnFacts DEF PrepareOK
<1>2. cl[c].s \in Stmt /\ cl[c].s # 0
  BY <1>1, OnFacts, WorkingStmt DEF Working, Stmt
<1>3. Moved(c, "execute", cl[c].err)  BY OnFacts, GotoMoves DEF PrepareOK, PC
<1>4. Goes(c, "execute", cl[c].err)
  BY <1>1, <1>2, <1>3 DEF Goes, Holds, PrepareOK, PC, stmtHistory
<1>5. cas \in [ConnId -> CasType] /\ cas' = [cas EXCEPT ![k].handles = @ \union {cl[c].s}]
  BY OnFacts DEF TypeOK, PrepareOK
<1>6. CasAt(k) /\ cas'[k].late = cas[k].late /\ cas'[k].pending = cas[k].pending
      /\ Loose(k)' \subseteq Loose(k) \union {cl[c].s}
  BY <1>2, <1>5, OnFacts DEF CasAt, CasType, Loose
<1> QED  BY <1>1, <1>4, <1>6 DEF PrepareOK, stmtHistory

LEMMA PrepareErrorDoes ==
  ASSUME NEW c, NEW k, On(c, k), PrepareError(c)
  PROVE  /\ cl[c].pc = "prepare" /\ Valid(k)
         /\ Goes(c, IF cl[c].tx = 0 THEN "release" ELSE "intx", "server")
         /\ Recorded(c, "server")
         /\ UNCHANGED <<nc, cas, execs, txRes, committed>>
<1>1. cl[c].pc = "prepare" /\ Valid(k)  BY OnFacts DEF PrepareError
<1>2. Goes(c, IF cl[c].tx = 0 THEN "release" ELSE "intx", "server")
  BY <1>1, EndsGoes DEF PrepareError, stmtHistory, Holds, Err
<1>3. Recorded(c, "server")  BY OnFacts, ReportedRecords DEF PrepareError, Err
<1> QED  BY <1>1, <1>2, <1>3 DEF PrepareError, stmtHistory

\* CAS k keeps the handle of s, which is not to be closed.
Orphans(k, s) ==
  /\ CasAt(k) /\ cas'[k].late = cas[k].late /\ cas'[k].pending = cas[k].pending
  /\ Loose(k)' \subseteq Loose(k) \ {s}

LEMMA OrphanedDoes ==
  ASSUME TypeOK, NEW k \in ConnId, NEW s \in Stmt, Orphaned(k, s)
  PROVE  Orphans(k, s)
<1>1. cas \in [ConnId -> CasType]  BY DEF TypeOK
<1> DEFINE h == cas[k].handles \union {s}
           o == cas[k].orphans \union {s}
<1>2. cas' = [cas EXCEPT ![k].handles = h, ![k].orphans = o]  BY DEF Orphaned
<1>3. h \in SUBSET Stmt /\ o \in SUBSET Stmt  BY <1>1 DEF CasType
<1>4. h \ o \subseteq (cas[k].handles \ cas[k].orphans) \ {s}  OBVIOUS
<1> HIDE DEF h, o
<1>5. [cas[k] EXCEPT !.handles = h, !.orphans = o] \in CasType  BY <1>1, <1>3 DEF CasType
<1>6. cas' \in [ConnId -> CasType]  BY <1>1, <1>2, <1>5
<1>7. /\ cas'[k].handles = h /\ cas'[k].orphans = o
      /\ cas'[k].late = cas[k].late /\ cas'[k].pending = cas[k].pending
  BY <1>1, <1>2 DEF CasType
<1>8. CasAt(k)  BY <1>1, <1>2, <1>6 DEF CasAt
<1> QED  BY <1>4, <1>7, <1>8 DEF Orphans, Loose

LEMMA PrepareUnparsableDoes ==
  ASSUME NEW c, NEW k, On(c, k), PrepareUnparsable(c)
  PROVE  /\ cl[c].pc = "prepare" /\ Valid(k)
         /\ Goes(c, IF cl[c].tx = 0 THEN "release" ELSE "intx", "server")
         /\ Recorded(c, "server") /\ Orphans(k, cl[c].s)
         /\ UNCHANGED <<nc, execs, txRes, committed>>
<1>1. cl[c].pc = "prepare" /\ Valid(k)  BY OnFacts DEF PrepareUnparsable
<1>2. Goes(c, IF cl[c].tx = 0 THEN "release" ELSE "intx", "server")
  BY <1>1, EndsGoes DEF PrepareUnparsable, stmtHistory, Holds, Err
<1>3. Recorded(c, "server")  BY OnFacts, ReportedRecords DEF PrepareUnparsable, Err
<1>4. cl[c].s \in Stmt  BY <1>1, OnFacts, WorkingStmt DEF Working
<1>5. Orphans(k, cl[c].s)  BY <1>4, OnFacts, OrphanedDoes DEF PrepareUnparsable
<1> QED  BY <1>1, <1>2, <1>3, <1>5 DEF PrepareUnparsable, stmtHistory

LEMMA PrepareFailsDoes ==
  ASSUME NEW c, NEW k, On(c, k), PrepareFails(c)
  PROVE  /\ cl[c].pc = "prepare" /\ Valid(k)
         /\ Goes(c, IF cl[c].tx = 0 THEN "release" ELSE "intx", "net")
         /\ Recorded(c, "net") /\ Poisoned(k)
         /\ UNCHANGED <<cas, execs, txRes, committed>>
<1>1. cl[c].pc = "prepare" /\ Valid(k)  BY OnFacts DEF PrepareFails
<1>2. Goes(c, IF cl[c].tx = 0 THEN "release" ELSE "intx", "net")
  BY <1>1, EndsGoes, MapErrNet DEF PrepareFails, stmtHistory, Holds
<1>3. Recorded(c, "net")  BY OnFacts, ReportedRecords, MapErrNet DEF PrepareFails
<1>4. Poisoned(k)  BY OnFacts, Poisons DEF PrepareFails
<1> QED  BY <1>1, <1>2, <1>3, <1>4 DEF PrepareFails, stmtHistory

LEMMA PrepareBadConnDoes ==
  ASSUME NEW c, NEW k, On(c, k), PrepareBadConn(c)
  PROVE  /\ cl[c].pc = "prepare" /\ ~Valid(k)
         /\ Goes(c, IF cl[c].tx = 0 THEN "release" ELSE "intx", "driver.ErrBadConn")
         /\ Recorded(c, "driver.ErrBadConn")
         /\ UNCHANGED <<nc, cas, execs, txRes, committed>>
<1>1. cl[c].pc = "prepare" /\ ~Valid(k)  BY OnFacts DEF PrepareBadConn
<1>2. Goes(c, IF cl[c].tx = 0 THEN "release" ELSE "intx", "driver.ErrBadConn")
  BY <1>1, EndsGoes, MapErrBad DEF PrepareBadConn, stmtHistory, Holds
<1>3. Recorded(c, "driver.ErrBadConn")
  BY OnFacts, ReportedRecords, MapErrBad DEF PrepareBadConn
<1> QED  BY <1>1, <1>2, <1>3 DEF PrepareBadConn, stmtHistory

LEMMA ExecuteOKDoes ==
  ASSUME NEW c, NEW k, On(c, k), ExecuteOK(c)
  PROVE  /\ cl[c].pc = "execute" /\ cl[c].s \in Stmt
         /\ Goes(c, IF cl[c].query THEN "rows" ELSE "close", cl[c].err)
         /\ Ran(k, cl[c].s, nc[k].autoCommit)
         /\ Recorded(c, "nil")
         /\ UNCHANGED <<nc, txRes>>
<1>1. cl[c].pc = "execute"  BY DEF ExecuteOK
<1>2. cl[c].s \in Stmt /\ cl[c].s # 0
  BY <1>1, OnFacts, WorkingStmt DEF Working, Stmt
<1> DEFINE pc == IF cl[c].query THEN "rows" ELSE "close"
<1>3. pc \in Working  BY DEF Working
<1>4. Goto(c, pc)  BY DEF ExecuteOK, Goto
<1>5. UNCHANGED <<pool, nStmts, nTx, txOf>>  BY DEF ExecuteOK, stmtHistory
<1> HIDE DEF pc
<1>6. Moved(c, pc, cl[c].err)  BY <1>3, <1>4, OnFacts, GotoMoves, WorkPCs
<1>7. Goes(c, pc, cl[c].err)
  BY <1>1, <1>2, <1>3, <1>5, <1>6, WorkPCs DEF Goes, Holds
<1>8. Ran(k, cl[c].s, nc[k].autoCommit)
  BY <1>2, OnFacts, CasRan DEF ExecuteOK
<1>9. Recorded(c, "nil")  BY OnFacts, ReportedRecords DEF ExecuteOK, Err
<1> QED  BY <1>1, <1>2, <1>7, <1>8, <1>9 DEF ExecuteOK, stmtHistory, pc

LEMMA CloseGoes ==
  ASSUME NEW c, NEW k, On(c, k), cl[c].pc = "execute", NEW err \in Err,
         cl' = [cl EXCEPT ![c].pc = "close", ![c].err = err],
         UNCHANGED <<pool, nStmts, nTx, txOf>>
  PROVE  Goes(c, "close", err)
<1>1. cl[c].s \in Stmt /\ cl[c].s # 0  BY OnFacts, WorkingStmt DEF Working, Stmt
<1>2. Moved(c, "close", err)  BY OnFacts, PcErrMoves DEF PC
<1> QED  BY <1>1, <1>2 DEF Goes, Holds, PC

LEMMA ExecuteErrorDoes ==
  ASSUME NEW c, NEW k, On(c, k), ExecuteError(c)
  PROVE  /\ cl[c].pc = "execute"
         /\ Goes(c, "close", "server")
         /\ CasAt(k) /\ cas'[k].late = cas[k].late /\ Loose(k)' = Loose(k)
         /\ cas'[k].pending = IF nc[k].autoCommit THEN {} ELSE cas[k].pending
         /\ Recorded(c, "server")
         /\ UNCHANGED <<nc, execs, txRes, committed>>
<1>1. cl[c].pc = "execute"  BY DEF ExecuteError
<1>2. Goes(c, "close", "server")
  BY <1>1, CloseGoes DEF ExecuteError, stmtHistory, Err
<1>3. Recorded(c, "server")  BY OnFacts, ReportedRecords DEF ExecuteError, Err
<1>4. cas \in [ConnId -> CasType]
      /\ cas' = IF nc[k].autoCommit THEN [cas EXCEPT ![k].pending = {}] ELSE cas
  BY OnFacts DEF TypeOK, ExecuteError
<1>5. CasAt(k) /\ cas'[k].late = cas[k].late /\ Loose(k)' = Loose(k)
      /\ cas'[k].pending = IF nc[k].autoCommit THEN {} ELSE cas[k].pending
  <2>1. CASE nc[k].autoCommit
    BY <1>4, <2>1, OnFacts DEF CasAt, CasType, Loose
  <2>2. CASE ~nc[k].autoCommit
    BY <1>4, <2>2, OnFacts DEF CasAt, CasType, Loose
  <2> QED  BY <2>1, <2>2
<1> QED  BY <1>1, <1>2, <1>3, <1>5 DEF ExecuteError, stmtHistory

LEMMA ExecuteUnparsableDoes ==
  ASSUME NEW c, NEW k, On(c, k), ExecuteUnparsable(c)
  PROVE  /\ cl[c].pc = "execute" /\ cl[c].s \in Stmt
         /\ Goes(c, "close", "server")
         /\ Ran(k, cl[c].s, nc[k].autoCommit)
         /\ Recorded(c, "server")
         /\ UNCHANGED <<nc, txRes>>
<1>1. cl[c].pc = "execute"  BY DEF ExecuteUnparsable
<1>2. cl[c].s \in Stmt  BY <1>1, OnFacts, WorkingStmt DEF Working
<1>3. Goes(c, "close", "server")
  BY <1>1, CloseGoes DEF ExecuteUnparsable, stmtHistory, Err
<1>4. Ran(k, cl[c].s, nc[k].autoCommit)
  BY <1>2, OnFacts, CasRan DEF ExecuteUnparsable
<1>5. Recorded(c, "server")  BY OnFacts, ReportedRecords DEF ExecuteUnparsable, Err
<1> QED  BY <1>1, <1>2, <1>3, <1>4, <1>5 DEF ExecuteUnparsable, stmtHistory

LEMMA ExecuteFailsDoes ==
  ASSUME NEW c, NEW k, On(c, k), ExecuteFails(c)
  PROVE  /\ cl[c].pc = "execute" /\ cl[c].s \in Stmt
         /\ Goes(c, "close", "net")
         /\ Poisoned(k)
         /\ \/ UNCHANGED <<cas, execs, committed>>
            \/ Ran(k, cl[c].s, nc[k].autoCommit)
            \/ /\ CasAt(k) /\ cas'[k].late = [kind |-> "exec", s |-> cl[c].s,
                                              ac |-> nc[k].autoCommit]
               /\ Loose(k)' = Loose(k) /\ cas'[k].pending = cas[k].pending
               /\ UNCHANGED <<execs, committed>>
         /\ Recorded(c, "net")
         /\ UNCHANGED <<txRes>>
<1>1. cl[c].pc = "execute"  BY DEF ExecuteFails
<1>2. cl[c].s \in Stmt  BY <1>1, OnFacts, WorkingStmt DEF Working
<1>3. Goes(c, "close", "net")
  BY <1>1, CloseGoes, MapErrNet DEF ExecuteFails, stmtHistory
<1>4. Recorded(c, "net")  BY OnFacts, ReportedRecords, MapErrNet DEF ExecuteFails
<1>5. Poisoned(k)  BY OnFacts, Poisons DEF ExecuteFails
<1> DEFINE late == [kind |-> "exec", s |-> cl[c].s, ac |-> nc[k].autoCommit]
<1>6. \/ UNCHANGED <<cas, execs, committed>>
      \/ Ran(k, cl[c].s, nc[k].autoCommit)
      \/ cas' = [cas EXCEPT ![k].late = late] /\ UNCHANGED <<execs, committed>>
  BY <1>2, OnFacts, CasRan DEF ExecuteFails
<1>7. late \in [kind : {"none", "exec", "commit", "rollback"}, s : 0 .. MaxStmts,
                ac : BOOLEAN]
  BY OnFacts
<1> HIDE DEF late
<1>8. ASSUME cas' = [cas EXCEPT ![k].late = late]
      PROVE  /\ CasAt(k) /\ cas'[k].late = late
             /\ Loose(k)' = Loose(k) /\ cas'[k].pending = cas[k].pending
  <2>1. cas \in [ConnId -> CasType] /\ k \in ConnId  BY OnFacts DEF TypeOK
  <2>2. [cas[k] EXCEPT !.late = late] \in CasType  BY <1>7, <2>1 DEF CasType
  <2>3. cas' \in [ConnId -> CasType]  BY <1>8, <2>1, <2>2
  <2> QED  BY <1>8, <2>1, <2>3 DEF CasAt, CasType, Loose
<1>9. \/ UNCHANGED <<cas, execs, committed>>
      \/ Ran(k, cl[c].s, nc[k].autoCommit)
      \/ /\ CasAt(k) /\ cas'[k].late = late
         /\ Loose(k)' = Loose(k) /\ cas'[k].pending = cas[k].pending
         /\ UNCHANGED <<execs, committed>>
  BY <1>6, <1>8
<1>10. UNCHANGED txRes  BY DEF ExecuteFails, stmtHistory
<1> QED  BY <1>1, <1>2, <1>3, <1>4, <1>5, <1>9, <1>10 DEF late

LEMMA FetchFailsDoes ==
  ASSUME NEW c, NEW k, On(c, k), FetchFails(c)
  PROVE  /\ cl[c].pc = "rows"
         /\ Goes(c, "close", cl[c].err) /\ Poisoned(k)
         /\ UNCHANGED <<cas, execs, stmtRes, txRes, committed>>
<1>1. cl[c].pc = "rows"  BY DEF FetchFails
<1>2. cl[c].s # 0  BY <1>1, OnFacts DEF ClientOK, Working
<1>3. Moved(c, "close", cl[c].err)  BY OnFacts, GotoMoves DEF FetchFails, PC
<1>4. Goes(c, "close", cl[c].err)
  BY <1>1, <1>2, <1>3 DEF Goes, Holds, FetchFails, PC, stmtHistory
<1>5. Poisoned(k)  BY OnFacts, Poisons DEF FetchFails
<1> QED  BY <1>1, <1>4, <1>5 DEF FetchFails, stmtHistory

LEMMA RowsCloseDoes ==
  ASSUME NEW c, NEW k, On(c, k), RowsClose(c)
  PROVE  /\ cl[c].pc = "rows"
         /\ Goes(c, "close", cl[c].err)
         /\ UNCHANGED <<nc, cas, execs, stmtRes, txRes, committed>>
<1>1. cl[c].pc = "rows"  BY DEF RowsClose
<1>2. cl[c].s # 0  BY <1>1, OnFacts DEF ClientOK, Working
<1>3. Moved(c, "close", cl[c].err)  BY OnFacts, GotoMoves DEF RowsClose, PC
<1>4. Goes(c, "close", cl[c].err)
  BY <1>1, <1>2, <1>3 DEF Goes, Holds, RowsClose, PC, stmtHistory
<1> QED  BY <1>1, <1>4 DEF RowsClose, stmtHistory

LEMMA CloseOKDoes ==
  ASSUME NEW c, NEW k, On(c, k), CloseOK(c)
  PROVE  /\ cl[c].pc = "close" /\ Valid(k)
         /\ Goes(c, IF cl[c].tx = 0 THEN "release" ELSE "intx", cl[c].err)
         /\ CasAt(k) /\ cas'[k].late = cas[k].late
         /\ cas'[k].pending = cas[k].pending
         /\ Loose(k)' = Loose(k) \ {cl[c].s}
         /\ UNCHANGED <<nc, execs, stmtRes, txRes, committed>>
<1>1. cl[c].pc = "close" /\ Valid(k)  BY OnFacts DEF CloseOK
<1>2. Goes(c, IF cl[c].tx = 0 THEN "release" ELSE "intx", cl[c].err)
  BY <1>1, OnFacts, EndsGoes DEF CloseOK, stmtHistory, Holds
<1>3. cas \in [ConnId -> CasType] /\ cas' = [cas EXCEPT ![k].handles = @ \ {cl[c].s}]
  BY OnFacts DEF TypeOK, CloseOK
<1>4. CasAt(k) /\ cas'[k].late = cas[k].late /\ cas'[k].pending = cas[k].pending
      /\ Loose(k)' = Loose(k) \ {cl[c].s}
  BY <1>3, OnFacts DEF CasAt, CasType, Loose
<1> QED  BY <1>1, <1>2, <1>4 DEF CloseOK, stmtHistory

LEMMA CloseErrorDoes ==
  ASSUME NEW c, NEW k, On(c, k), CloseError(c)
  PROVE  /\ cl[c].pc = "close" /\ Valid(k)
         /\ Goes(c, IF cl[c].tx = 0 THEN "release" ELSE "intx", cl[c].err)
         /\ Orphans(k, cl[c].s)
         /\ UNCHANGED <<nc, execs, stmtRes, txRes, committed>>
<1>1. cl[c].pc = "close" /\ Valid(k)  BY OnFacts DEF CloseError
<1>2. Goes(c, IF cl[c].tx = 0 THEN "release" ELSE "intx", cl[c].err)
  BY <1>1, OnFacts, EndsGoes DEF CloseError, stmtHistory, Holds
<1>3. cl[c].s \in Stmt  BY <1>1, OnFacts, WorkingStmt DEF Working
<1>4. Orphans(k, cl[c].s)  BY <1>3, OnFacts, OrphanedDoes DEF CloseError
<1> QED  BY <1>1, <1>2, <1>4 DEF CloseError, stmtHistory

LEMMA CloseFailsDoes ==
  ASSUME NEW c, NEW k, On(c, k), CloseFails(c)
  PROVE  /\ cl[c].pc = "close"
         /\ Goes(c, IF cl[c].tx = 0 THEN "release" ELSE "intx", cl[c].err)
         /\ Poisoned(k)
         /\ UNCHANGED <<cas, execs, stmtRes, txRes, committed>>
<1>1. cl[c].pc = "close"  BY DEF CloseFails
<1>2. Goes(c, IF cl[c].tx = 0 THEN "release" ELSE "intx", cl[c].err)
  BY <1>1, OnFacts, EndsGoes DEF CloseFails, stmtHistory, Holds
<1>3. Poisoned(k)  BY OnFacts, Poisons DEF CloseFails
<1> QED  BY <1>1, <1>2, <1>3 DEF CloseFails, stmtHistory

\* The isolation level of the session may have changed, nothing else.
Leveled(k) ==
  /\ CasAt(k) /\ cas'[k].late = cas[k].late
  /\ cas'[k].pending = cas[k].pending /\ Loose(k)' = Loose(k)

LEMMA SetsLevel ==
  ASSUME TypeOK, NEW k \in ConnId, NEW lv \in Levels \union {DefaultLevel},
         cas' = [cas EXCEPT ![k].iso = lv]
  PROVE  Leveled(k)
  BY DEF TypeOK, Leveled, CasAt, CasType, Loose

LEMMA BeginTxDoes ==
  ASSUME NEW c, NEW k, On(c, k), BeginTx(c)
  PROVE  /\ cl[c].pc = "begin"
         /\ Goes(c, "intx", cl[c].err)
         /\ NcAt(k) /\ nc'[k].bad = nc[k].bad /\ nc'[k].autoCommit = FALSE
         /\ Leveled(k)
         /\ UNCHANGED <<execs, stmtRes, txRes, committed>>
<1>1. cl[c].pc = "begin"  BY DEF BeginTx
<1>2. cl[c].tx # 0  BY <1>1, OnFacts DEF ClientOK
<1>3. Moved(c, "intx", cl[c].err)  BY OnFacts, GotoMoves DEF BeginTx, PC
<1>4. Goes(c, "intx", cl[c].err)
  BY <1>1, <1>2, <1>3, WorkPCs DEF Goes, Holds, BeginTx, stmtHistory
<1>5. NcAt(k) /\ nc'[k].bad = nc[k].bad /\ nc'[k].autoCommit = FALSE
  <2>1. nc' = [nc EXCEPT ![k].autoCommit = FALSE] /\ nc \in [ConnId -> ConnType]
    BY OnFacts DEF TypeOK, BeginTx
  <2> QED  BY <2>1, OnFacts DEF NcAt, ConnType
<1>6. Leveled(k)
  <2>1. CASE cl[c].level # 0
    <3>1. cl[c].level \in Levels  BY <2>1, OnFacts
    <3> QED  BY <2>1, <3>1, OnFacts, SetsLevel DEF BeginTx
  <2>2. CASE cl[c].level = 0
    <3>1. UNCHANGED cas  BY <2>2 DEF BeginTx
    <3> QED  BY <3>1, OnFacts DEF Leveled, CasAt, TypeOK, Loose
  <2> QED  BY <2>1, <2>2
<1> QED  BY <1>1, <1>4, <1>5, <1>6 DEF BeginTx, stmtHistory

LEMMA SetsLevelOrNot ==
  ASSUME TypeOK, NEW k \in ConnId, NEW lv \in Levels, LevelSetOrNot(k, lv)
  PROVE  Leveled(k)
<1>1. PICK iso \in {cas[k].iso, lv} : cas' = [cas EXCEPT ![k].iso = iso]
  BY DEF LevelSetOrNot
<1>2. cas[k].iso \in Levels \union {DefaultLevel}  BY DEF TypeOK, CasType
<1>3. iso \in Levels \union {DefaultLevel}  BY <1>1, <1>2
<1> QED  BY <1>1, <1>3, SetsLevel

LEMMA BeginTxErrorDoes ==
  ASSUME NEW c, NEW k, On(c, k), BeginTxError(c)
  PROVE  /\ cl[c].pc = "begin" /\ cl[c].tx # 0
         /\ Goes(c, "release", "server") /\ Leveled(k)
         /\ UNCHANGED <<nc, execs, stmtRes, txRes, committed>>
<1>1. cl[c].pc = "begin"  BY DEF BeginTxError
<1>2. cl[c].tx # 0  BY <1>1, OnFacts DEF ClientOK
<1>3. Moved(c, "release", "server")  BY OnFacts, PcErrMoves DEF BeginTxError, PC, Err
<1>4. Goes(c, "release", "server")
  BY <1>1, <1>3, WorkPCs DEF Goes, Holds, BeginTxError, stmtHistory
<1>5. cl[c].level \in Levels  BY OnFacts DEF BeginTxError
<1>6. Leveled(k)  BY <1>5, OnFacts, SetsLevelOrNot DEF BeginTxError
<1> QED  BY <1>1, <1>2, <1>4, <1>6 DEF BeginTxError, stmtHistory

LEMMA BeginTxFailsDoes ==
  ASSUME NEW c, NEW k, On(c, k), BeginTxFails(c)
  PROVE  /\ cl[c].pc = "begin" /\ cl[c].tx # 0
         /\ Goes(c, "release", "net") /\ Poisoned(k) /\ Leveled(k)
         /\ UNCHANGED <<execs, stmtRes, txRes, committed>>
<1>1. cl[c].pc = "begin"  BY DEF BeginTxFails
<1>2. cl[c].tx # 0  BY <1>1, OnFacts DEF ClientOK
<1>3. Moved(c, "release", "net")
  BY OnFacts, PcErrMoves, MapErrNet DEF BeginTxFails, PC
<1>4. Goes(c, "release", "net")
  BY <1>1, <1>3, WorkPCs DEF Goes, Holds, BeginTxFails, stmtHistory
<1>5. Poisoned(k)  BY OnFacts, Poisons DEF BeginTxFails
<1>6. cl[c].level \in Levels  BY OnFacts DEF BeginTxFails
<1>7. Leveled(k)  BY <1>6, OnFacts, SetsLevelOrNot DEF BeginTxFails
<1> QED  BY <1>1, <1>2, <1>4, <1>5, <1>7 DEF BeginTxFails, stmtHistory

\* The transaction of c ends with res, and c still holds its connection.
TxGoes(c, res) == TxEnded(c, res) /\ Goes(c, "release", cl[c].err) /\ cl[c].tx # 0

LEMMA EndsTxGoes ==
  ASSUME NEW c, NEW k, On(c, k), cl[c].pc = "intx", NEW res \in TxResults,
         EndsTx(c, res), UNCHANGED <<pool, nStmts, nTx, txOf>>
  PROVE  TxGoes(c, res)
<1>1. TxEnded(c, res)  BY OnFacts, EndsTxEnds
<1>2. cl[c].tx # 0  BY OnFacts DEF ClientOK
<1> QED  BY <1>1, <1>2, WorkPCs DEF TxGoes, TxEnded, Goes, Holds

LEMMA EndTranDoes ==
  ASSUME NEW c, NEW k, On(c, k), NEW kind \in {"commit", "rollback"}, EndTran(c, kind)
  PROVE  /\ cl[c].pc = "intx" /\ Valid(k)
         /\ TxGoes(c, IF kind = "commit" THEN "committed" ELSE "rolledback")
         /\ EndedCas(k, kind) /\ AutoOn(k, FALSE)
         /\ UNCHANGED <<execs, stmtRes>>
<1>1. cl[c].pc = "intx" /\ Valid(k)  BY OnFacts DEF EndTran
<1> DEFINE res == IF kind = "commit" THEN "committed" ELSE "rolledback"
<1>2. res \in TxResults  BY DEF TxResults
<1>3. EndsTx(c, res) /\ UNCHANGED <<pool, nStmts, nTx, txOf>>  BY DEF EndTran
<1> HIDE DEF res
<1>4. TxGoes(c, res)  BY <1>1, <1>2, <1>3, EndsTxGoes
<1>5. EndedCas(k, kind) /\ AutoOn(k, FALSE)
  BY OnFacts, CasEnded, AutoCommitOnSets DEF EndTran
<1> QED  BY <1>1, <1>4, <1>5 DEF EndTran, res

LEMMA EndTranErrorDoes ==
  ASSUME NEW c, NEW k, On(c, k), NEW kind \in {"commit", "rollback"},
         EndTranError(c, kind)
  PROVE  /\ cl[c].pc = "intx" /\ Valid(k)
         /\ TxGoes(c, IF kind = "commit" THEN "commit rejected" ELSE "rollback rejected")
         /\ AutoOn(k, FALSE)
         /\ UNCHANGED <<cas, committed>> \/ EndedCas(k, kind)
         /\ UNCHANGED <<execs, stmtRes>>
<1>1. cl[c].pc = "intx" /\ Valid(k)  BY OnFacts DEF EndTranError
<1> DEFINE res == IF kind = "commit" THEN "commit rejected" ELSE "rollback rejected"
<1>2. res \in TxResults  BY DEF TxResults
<1>3. EndsTx(c, res) /\ UNCHANGED <<pool, nStmts, nTx, txOf>>  BY DEF EndTranError
<1> HIDE DEF res
<1>4. TxGoes(c, res)  BY <1>1, <1>2, <1>3, EndsTxGoes
<1>5. AutoOn(k, FALSE)  BY OnFacts, AutoCommitOnSets DEF EndTranError
<1>6. UNCHANGED <<cas, committed>> \/ EndedCas(k, kind)
  <2>1. UNCHANGED <<cas, committed>> \/ CasEnds(k, kind)
    BY OnFacts, Zenon DEF EndTranError
  <2> QED  BY <2>1, OnFacts, CasEnded
<1> QED  BY <1>1, <1>4, <1>5, <1>6 DEF EndTranError, res

LEMMA EndTranFailsDoes ==
  ASSUME NEW c, NEW k, On(c, k), NEW kind \in {"commit", "rollback"},
         EndTranFails(c, kind)
  PROVE  /\ cl[c].pc = "intx" /\ Valid(k)
         /\ TxGoes(c, IF kind = "commit" THEN "commit failed" ELSE "rollback failed")
         /\ AutoOn(k, TRUE)
         /\ \/ UNCHANGED <<cas, committed>>
            \/ EndedCas(k, kind)
            \/ /\ CasAt(k) /\ cas'[k].late = [kind |-> kind, s |-> 0, ac |-> FALSE]
               /\ Loose(k)' = Loose(k) /\ cas'[k].pending = cas[k].pending
               /\ UNCHANGED committed
         /\ UNCHANGED <<execs, stmtRes>>
<1>1. cl[c].pc = "intx" /\ Valid(k)  BY OnFacts DEF EndTranFails
<1> DEFINE res == IF kind = "commit" THEN "commit failed" ELSE "rollback failed"
<1>2. res \in TxResults  BY DEF TxResults
<1>3. EndsTx(c, res) /\ UNCHANGED <<pool, nStmts, nTx, txOf>>  BY DEF EndTranFails
<1> HIDE DEF res
<1>4. TxGoes(c, res)  BY <1>1, <1>2, <1>3, EndsTxGoes
<1>5. AutoOn(k, TRUE)  BY OnFacts, AutoCommitOnSets DEF EndTranFails
<1> DEFINE late == [kind |-> kind, s |-> 0, ac |-> FALSE]
<1>6. \/ UNCHANGED <<cas, committed>>
      \/ EndedCas(k, kind)
      \/ cas' = [cas EXCEPT ![k].late = late] /\ UNCHANGED committed
  <2>1. \/ UNCHANGED <<cas, committed>>
        \/ CasEnds(k, kind)
        \/ cas' = [cas EXCEPT ![k].late = late] /\ UNCHANGED committed
    BY OnFacts, Zenon DEF EndTranFails
  <2> QED  BY <2>1, OnFacts, CasEnded
<1>7. late \in [kind : {"none", "exec", "commit", "rollback"}, s : 0 .. MaxStmts,
                ac : BOOLEAN]
  BY PoolConstants
<1> HIDE DEF late
<1>8. ASSUME cas' = [cas EXCEPT ![k].late = late]
      PROVE  /\ CasAt(k) /\ cas'[k].late = late
             /\ Loose(k)' = Loose(k) /\ cas'[k].pending = cas[k].pending
  <2>1. cas \in [ConnId -> CasType] /\ k \in ConnId  BY OnFacts DEF TypeOK
  <2>2. [cas[k] EXCEPT !.late = late] \in CasType  BY <1>7, <2>1 DEF CasType
  <2>3. cas' \in [ConnId -> CasType]  BY <1>8, <2>1, <2>2
  <2> QED  BY <1>8, <2>1, <2>3 DEF CasAt, CasType, Loose
<1>9. \/ UNCHANGED <<cas, committed>>
      \/ EndedCas(k, kind)
      \/ /\ CasAt(k) /\ cas'[k].late = late
         /\ Loose(k)' = Loose(k) /\ cas'[k].pending = cas[k].pending
         /\ UNCHANGED committed
  BY <1>6, <1>8
<1>10. UNCHANGED <<execs, stmtRes>>  BY DEF EndTranFails
<1> QED  BY <1>1, <1>4, <1>5, <1>9, <1>10 DEF late, res

LEMMA EndTranBadConnDoes ==
  ASSUME NEW c, NEW k, On(c, k), NEW kind \in {"commit", "rollback"},
         EndTranBadConn(c, kind)
  PROVE  /\ cl[c].pc = "intx" /\ ~Valid(k)
         /\ TxGoes(c, IF kind = "commit" THEN "commit unsent" ELSE "rollback unsent")
         /\ AutoOn(k, TRUE)
         /\ UNCHANGED <<cas, execs, stmtRes, committed>>
<1>1. cl[c].pc = "intx" /\ ~Valid(k)  BY OnFacts DEF EndTranBadConn
<1> DEFINE res == IF kind = "commit" THEN "commit unsent" ELSE "rollback unsent"
<1>2. res \in TxResults  BY DEF TxResults
<1>3. EndsTx(c, res) /\ UNCHANGED <<pool, nStmts, nTx, txOf>>  BY DEF EndTranBadConn
<1> HIDE DEF res
<1>4. TxGoes(c, res)  BY <1>1, <1>2, <1>3, EndsTxGoes
<1>5. AutoOn(k, TRUE)  BY OnFacts, AutoCommitOnSets DEF EndTranBadConn
<1> QED  BY <1>1, <1>4, <1>5 DEF EndTranBadConn, res

LEMMA AbandonDoes ==
  ASSUME NEW c, NEW k, On(c, k), Abandon(c)
  PROVE  /\ cl[c].pc = "intx" /\ TxGoes(c, "abandoned")
         /\ UNCHANGED <<nc, cas, execs, stmtRes, committed>>
<1>1. cl[c].pc = "intx"  BY DEF Abandon
<1>2. TxGoes(c, "abandoned")  BY <1>1, EndsTxGoes DEF Abandon, TxResults
<1> QED  BY <1>1, <1>2 DEF Abandon

-----------------------------------------------------------------------------
(* HoldInv, continued *)

\* A step of a client on the connection it holds.
HeldStep(c) ==
  \/ PrepareOK(c) \/ PrepareError(c) \/ PrepareUnparsable(c) \/ PrepareFails(c)
  \/ PrepareBadConn(c)
  \/ ExecuteOK(c) \/ ExecuteError(c) \/ ExecuteUnparsable(c) \/ ExecuteFails(c)
  \/ FetchFails(c) \/ RowsClose(c) \/ CloseOK(c) \/ CloseError(c) \/ CloseFails(c)
  \/ BeginTx(c) \/ BeginTxError(c) \/ BeginTxFails(c)
  \/ \E kind \in {"commit", "rollback"} :
       EndTran(c, kind) \/ EndTranError(c, kind) \/ EndTranFails(c, kind)
         \/ EndTranBadConn(c, kind)
  \/ Abandon(c)

LEMMA HeldStepOn ==
  ASSUME HoldInv, NEW c \in Clients, HeldStep(c)
  PROVE  \E k \in ConnId : On(c, k)
<1>1. Holds(c)
  BY DEF HeldStep, Holds, PrepareOK, PrepareError, PrepareUnparsable, PrepareFails,
     PrepareBadConn, ExecuteOK, ExecuteError, ExecuteUnparsable, ExecuteFails,
     FetchFails, RowsClose, CloseOK, CloseError, CloseFails,
     BeginTx, BeginTxError, BeginTxFails, EndTran, EndTranError, EndTranFails,
     EndTranBadConn, Abandon
<1> QED  BY <1>1, HeldConn DEF On

LEMMA HeldStepHolds ==
  ASSUME NEW c, NEW k, On(c, k), HeldStep(c)
  PROVE  HoldInv'
<1>0. /\ HoldInv /\ TypeOK /\ c \in Clients /\ k \in ConnId /\ LateOK(k)
      /\ nStmts \in Nat /\ nc[k].bad \in BOOLEAN
  BY OnFacts
<1>1. /\ execs \in [Stmt -> Nat] /\ stmtRes \in [Stmt -> {"none"} \union Err]
      /\ txRes \in [Tx -> TxResults] /\ committed \subseteq Stmt
  BY <1>0 DEF TypeOK
<1>2. (UNCHANGED nc => NcAt(k)) /\ (UNCHANGED cas => CasAt(k))  BY <1>0, NothingAt
<1>3. Poisoned(k) => NcAt(k) /\ (UNCHANGED nStmts /\ cas'[k].late = cas[k].late => LateOK(k)')
  BY <1>0 DEF Poisoned, LateOK
<1>4. ASSUME cas'[k].late = NoLate PROVE LateOK(k)'
  BY <1>4 DEF LateOK, NoLate
<1>5. UNCHANGED nStmts /\ UNCHANGED nc /\ cas'[k].late = cas[k].late => LateOK(k)'
  BY <1>0 DEF LateOK
<1>6. \A pc, err : Goes(c, pc, err) => UNCHANGED nStmts  BY DEF Goes
<1>7. \A err : Recorded(c, err) => stmtRes' \in [Stmt -> {"none"} \union Err]
  BY DEF Recorded
<1>8. \A s, ac : Ran(k, s, ac) => /\ CasAt(k) /\ cas'[k].late = NoLate
                                 /\ committed' \subseteq Stmt /\ execs' \in [Stmt -> Nat]
  BY DEF Ran
<1>9. \A kind : EndedCas(k, kind) => /\ CasAt(k) /\ cas'[k].late = NoLate
                                    /\ committed' \subseteq Stmt
  BY DEF EndedCas
<1>10. \A res : TxGoes(c, res) => /\ Goes(c, "release", cl[c].err)
                                 /\ txRes' \in [Tx -> TxResults]
  BY DEF TxGoes, TxEnded
<1>11. \A isBad : AutoOn(k, isBad) => NcAt(k) /\ nc'[k].bad = isBad  BY DEF AutoOn
<1>12. Leveled(k) => CasAt(k) /\ cas'[k].late = cas[k].late  BY DEF Leveled
<1>13. \A s : Orphans(k, s) => CasAt(k) /\ cas'[k].late = cas[k].late  BY DEF Orphans
<1>20. CASE PrepareOK(c)
  BY <1>0, <1>1, <1>2, <1>5, <1>6, <1>20, PrepareOKDoes, HoldKept
<1>21. CASE PrepareError(c)
  BY <1>0, <1>1, <1>2, <1>5, <1>6, <1>7, <1>21, PrepareErrorDoes, HoldKept
<1>22. CASE PrepareFails(c)
  BY <1>0, <1>1, <1>2, <1>3, <1>6, <1>7, <1>22, PrepareFailsDoes, HoldKept
<1>23. CASE PrepareBadConn(c)
  BY <1>0, <1>1, <1>2, <1>5, <1>6, <1>7, <1>23, PrepareBadConnDoes, HoldKept
<1>24. CASE ExecuteOK(c)
  BY <1>0, <1>1, <1>2, <1>4, <1>6, <1>7, <1>8, <1>24, ExecuteOKDoes, HoldKept
<1>25. CASE ExecuteError(c)
  BY <1>0, <1>1, <1>2, <1>5, <1>6, <1>7, <1>25, ExecuteErrorDoes, HoldKept
<1>26. CASE ExecuteFails(c)
  <2>1. /\ Goes(c, "close", "net") /\ Poisoned(k)
        /\ stmtRes' \in [Stmt -> {"none"} \union Err] /\ UNCHANGED <<txRes, nStmts>>
        /\ cl[c].pc \in Working
    BY <1>6, <1>7, <1>26, ExecuteFailsDoes DEF Working
  <2>2. /\ CasAt(k) /\ LateOK(k)' /\ execs' \in [Stmt -> Nat]
        /\ committed' \subseteq Stmt
    <3>1. CASE UNCHANGED <<cas, execs, committed>>
      BY <1>1, <1>2, <1>3, <2>1, <3>1
    <3>2. CASE Ran(k, cl[c].s, nc[k].autoCommit)
      BY <1>4, <1>8, <3>2
    <3>3. CASE /\ CasAt(k) /\ cas'[k].late = [kind |-> "exec", s |-> cl[c].s,
                                              ac |-> nc[k].autoCommit]
               /\ UNCHANGED <<execs, committed>>
      <4>1. cl[c].s \in 1 .. nStmts  BY <1>0, <2>1, WorkingStmt
      <4>2. LateOK(k)'  BY <2>1, <3>3, <4>1 DEF LateOK, Poisoned
      <4> QED  BY <1>1, <3>3, <4>2
    <3> QED  BY <1>26, <3>1, <3>2, <3>3, ExecuteFailsDoes
  <2> QED  BY <1>0, <1>1, <1>3, <2>1, <2>2, HoldKept
<1>27. CASE FetchFails(c)
  BY <1>0, <1>1, <1>2, <1>3, <1>6, <1>27, FetchFailsDoes, HoldKept
<1>28. CASE RowsClose(c)
  BY <1>0, <1>1, <1>2, <1>5, <1>6, <1>28, RowsCloseDoes, HoldKept
<1>29. CASE CloseOK(c)
  BY <1>0, <1>1, <1>2, <1>5, <1>6, <1>29, CloseOKDoes, HoldKept
<1>30. CASE CloseFails(c)
  BY <1>0, <1>1, <1>2, <1>3, <1>6, <1>30, CloseFailsDoes, HoldKept
<1>31. CASE BeginTx(c)
  <2>1. LateOK(k)'  BY <1>0, <1>6, <1>12, <1>31, BeginTxDoes DEF LateOK
  <2> QED  BY <1>0, <1>1, <1>12, <1>31, <2>1, BeginTxDoes, HoldKept
<1>32. CASE BeginTxError(c)
  BY <1>0, <1>1, <1>2, <1>5, <1>6, <1>12, <1>32, BeginTxErrorDoes, HoldKept
<1>33. CASE BeginTxFails(c)
  BY <1>0, <1>1, <1>3, <1>6, <1>12, <1>33, BeginTxFailsDoes, HoldKept
<1>34. ASSUME NEW kind \in {"commit", "rollback"}, EndTran(c, kind) PROVE HoldInv'
  BY <1>0, <1>1, <1>4, <1>9, <1>10, <1>11, <1>34, EndTranDoes, HoldKept
<1>35. ASSUME NEW kind \in {"commit", "rollback"}, EndTranError(c, kind) PROVE HoldInv'
  <2>1. /\ AutoOn(k, FALSE) /\ Valid(k) /\ UNCHANGED <<execs, stmtRes>>
        /\ Goes(c, "release", cl[c].err) /\ txRes' \in [Tx -> TxResults]
    BY <1>10, <1>35, EndTranErrorDoes
  <2>2. CasAt(k) /\ LateOK(k)' /\ committed' \subseteq Stmt
    <3>1. CASE UNCHANGED <<cas, committed>>
      <4>1. LateOK(k)'  BY <1>0, <1>6, <1>11, <2>1, <3>1 DEF LateOK, Valid
      <4> QED  BY <1>1, <1>2, <3>1, <4>1
    <3>2. CASE EndedCas(k, kind)
      BY <1>4, <1>9, <3>2
    <3> QED  BY <1>35, <3>1, <3>2, EndTranErrorDoes
  <2> QED  BY <1>0, <1>1, <1>11, <2>1, <2>2, HoldKept
<1>36. ASSUME NEW kind \in {"commit", "rollback"}, EndTranFails(c, kind) PROVE HoldInv'
  <2>1. /\ AutoOn(k, TRUE) /\ UNCHANGED <<execs, stmtRes>>
        /\ Goes(c, "release", cl[c].err) /\ txRes' \in [Tx -> TxResults]
    BY <1>10, <1>36, EndTranFailsDoes
  <2>2. CasAt(k) /\ LateOK(k)' /\ committed' \subseteq Stmt
    <3>1. CASE UNCHANGED <<cas, committed>>
      <4>1. LateOK(k)'  BY <1>0, <1>6, <1>11, <2>1, <3>1 DEF LateOK
      <4> QED  BY <1>1, <1>2, <3>1, <4>1
    <3>2. CASE EndedCas(k, kind)
      BY <1>4, <1>9, <3>2
    <3>3. CASE /\ CasAt(k) /\ cas'[k].late = [kind |-> kind, s |-> 0, ac |-> FALSE]
               /\ UNCHANGED committed
      <4>1. nc'[k].bad = TRUE  BY <1>11, <2>1
      <4>2. cas'[k].late.kind = kind /\ kind # "exec"  BY <3>3
      <4>3. LateOK(k)'  BY <4>1, <4>2 DEF LateOK
      <4> QED  BY <1>1, <3>3, <4>3
    <3> QED  BY <1>36, <3>1, <3>2, <3>3, EndTranFailsDoes
  <2> QED  BY <1>0, <1>1, <1>11, <2>1, <2>2, HoldKept
<1>37. ASSUME NEW kind \in {"commit", "rollback"}, EndTranBadConn(c, kind) PROVE HoldInv'
  <2>1. /\ AutoOn(k, TRUE) /\ UNCHANGED <<cas, execs, stmtRes, committed>>
        /\ Goes(c, "release", cl[c].err) /\ txRes' \in [Tx -> TxResults]
    BY <1>10, <1>37, EndTranBadConnDoes
  <2>2. LateOK(k)'  BY <1>0, <1>6, <1>11, <2>1 DEF LateOK
  <2> QED  BY <1>0, <1>1, <1>2, <1>11, <2>1, <2>2, HoldKept
<1>38. CASE Abandon(c)
  BY <1>0, <1>1, <1>2, <1>5, <1>6, <1>10, <1>38, AbandonDoes, HoldKept
<1>39. CASE PrepareUnparsable(c)
  BY <1>0, <1>1, <1>2, <1>5, <1>6, <1>7, <1>13, <1>39, PrepareUnparsableDoes, HoldKept
<1>40. CASE ExecuteUnparsable(c)
  BY <1>0, <1>1, <1>2, <1>4, <1>6, <1>7, <1>8, <1>40, ExecuteUnparsableDoes, HoldKept
<1>41. CASE CloseError(c)
  BY <1>0, <1>1, <1>2, <1>5, <1>6, <1>13, <1>41, CloseErrorDoes, HoldKept
<1> QED
  BY <1>20, <1>21, <1>22, <1>23, <1>24, <1>25, <1>26, <1>27, <1>28, <1>29, <1>30,
     <1>31, <1>32, <1>33, <1>34, <1>35, <1>36, <1>37, <1>38, <1>39, <1>40, <1>41
     DEF HeldStep

-----------------------------------------------------------------------------
(* What the other steps do *)

\* Client c takes or drops a connection, a statement or a transaction.
Turned(c) ==
  cl' \in [Clients -> ClientType] /\ \A d \in Clients : d # c => cl'[d] = cl[d]

LEMMA StartStmtDoes ==
  ASSUME HoldInv, NEW c \in Clients, StartStmt(c)
  PROVE  /\ nStmts' = nStmts + 1 /\ nStmts' \in Stmt /\ nStmts \in Nat
         /\ txOf' \in [Stmt -> 0 .. MaxTx] /\ txOf'[nStmts'] = cl[c].tx
         /\ \A s \in Stmt : s # nStmts' => txOf'[s] = txOf[s]
         /\ Turned(c)
         /\ \/ cl[c].pc = "idle" /\ cl'[c].pc = "acquire"
            \/ cl[c].pc = "intx" /\ cl'[c].pc = "prepare"
         /\ cl'[c].s = nStmts' /\ cl'[c].err = "nil"
         /\ cl'[c].tx = cl[c].tx /\ cl'[c].k = cl[c].k
         /\ UNCHANGED <<pool, nc, cas, nTx, execs, stmtRes, txRes, committed>>
<1>1. TypeOK  BY DEF HoldInv
<1>2. cl \in [Clients -> ClientType] /\ txOf \in [Stmt -> 0 .. MaxTx]
      /\ nStmts \in 0 .. MaxStmts
  BY <1>1 DEF TypeOK
<1>3. nStmts' = nStmts + 1 /\ nStmts' \in Stmt /\ nStmts' \in 0 .. MaxStmts /\ nStmts \in Nat
  BY <1>2, PoolConstants DEF StartStmt, Stmt
<1>4. cl[c].tx \in 0 .. MaxTx  BY <1>2, ClientFields
<1>5. /\ txOf' \in [Stmt -> 0 .. MaxTx] /\ txOf'[nStmts'] = cl[c].tx
      /\ \A s \in Stmt : s # nStmts' => txOf'[s] = txOf[s]
  BY <1>2, <1>3, <1>4 DEF StartStmt
<1>6. PICK q \in BOOLEAN :
        cl' = [cl EXCEPT ![c].pc = IF @ = "idle" THEN "acquire" ELSE "prepare",
                         ![c].s = nStmts', ![c].query = q, ![c].err = "nil"]
  BY <1>3 DEF StartStmt
<1> DEFINE pc == IF cl[c].pc = "idle" THEN "acquire" ELSE "prepare"
<1>7. pc \in PC /\ "nil" \in Err  BY DEF PC, Err
<1>8. cl' = [cl EXCEPT ![c].pc = pc, ![c].s = nStmts', ![c].query = q, ![c].err = "nil"]
  BY <1>6
<1>9. cl[c].pc = "idle" \/ cl[c].pc = "intx"  BY DEF StartStmt
<1>10. \/ cl[c].pc = "idle" /\ pc = "acquire"
       \/ cl[c].pc = "intx" /\ pc = "prepare"
  BY <1>9
<1> HIDE DEF pc
<1>11. cl' \in [Clients -> ClientType]
  <2>1. [cl[c] EXCEPT !.pc = pc, !.s = nStmts', !.query = q, !.err = "nil"] \in ClientType
    BY <1>2, <1>3, <1>7 DEF ClientType
  <2> QED  BY <1>2, <1>8, <2>1
<1>12. Turned(c)  BY <1>2, <1>8, <1>11 DEF Turned
<1>13. cl'[c].pc = pc /\ cl'[c].s = nStmts' /\ cl'[c].err = "nil"
  BY <1>2, <1>8 DEF ClientType
<1>14. cl'[c].tx = cl[c].tx /\ cl'[c].k = cl[c].k
  BY <1>2, <1>8 DEF ClientType
<1> QED  BY <1>3, <1>5, <1>10, <1>12, <1>13, <1>14 DEF StartStmt

LEMMA StartTxDoes ==
  ASSUME HoldInv, NEW c \in Clients, NEW lv \in Levels, StartTx(c, lv)
  PROVE  /\ nTx' = nTx + 1 /\ nTx' \in Tx /\ nTx \in Nat
         /\ cl[c].pc = "idle" /\ cl[c].s = 0
         /\ Turned(c) /\ cl'[c].pc = "acquire" /\ cl'[c].tx = nTx'
         /\ cl'[c].s = cl[c].s /\ cl'[c].err = cl[c].err /\ cl'[c].k = cl[c].k
         /\ UNCHANGED <<pool, nc, cas, nStmts, txOf, execs, stmtRes, txRes, committed>>
<1>1. cl \in [Clients -> ClientType] /\ nTx \in 0 .. MaxTx  BY DEF HoldInv, TypeOK
<1>2. nTx' = nTx + 1 /\ nTx' \in Tx /\ nTx' \in 0 .. MaxTx /\ nTx \in Nat
  BY <1>1, PoolConstants DEF StartTx, Tx
<1>3. cl[c].pc = "idle" /\ cl[c].s = 0  BY DEF StartTx, HoldInv, ClientOK
<1>4. cl' = [cl EXCEPT ![c].pc = "acquire", ![c].tx = nTx', ![c].level = lv]
  BY <1>2 DEF StartTx
<1>5. "acquire" \in PC  BY DEF PC
<1>6. cl' \in [Clients -> ClientType]
  <2>1. lv \in Levels \union {0}  OBVIOUS
  <2>2. [cl[c] EXCEPT !.pc = "acquire", !.tx = nTx', !.level = lv] \in ClientType
    BY <1>1, <1>2, <1>5, <2>1 DEF ClientType
  <2> QED  BY <1>1, <1>4, <2>2
<1>7. Turned(c)  BY <1>1, <1>4, <1>6 DEF Turned
<1>8. cl'[c].pc = "acquire" /\ cl'[c].tx = nTx'  BY <1>1, <1>4 DEF ClientType
<1>9. cl'[c].s = cl[c].s /\ cl'[c].err = cl[c].err /\ cl'[c].k = cl[c].k
  BY <1>1, <1>4 DEF ClientType
<1> QED  BY <1>2, <1>3, <1>7, <1>8, <1>9 DEF StartTx

\* Client c has connection k handed out to it.
HandedOut(c, k) ==
  /\ pool' \in [ConnId -> {"undialled", "free", "used", "closed"}]
  /\ pool'[k] = "used" /\ \A j \in ConnId : j # k => pool'[j] = pool[j]
  /\ Turned(c)
  /\ cl'[c].pc = (IF cl[c].tx = 0 THEN "prepare" ELSE "begin") /\ cl'[c].k = k
  /\ cl'[c].s = cl[c].s /\ cl'[c].tx = cl[c].tx /\ cl'[c].err = cl[c].err

LEMMA AcquiredHandsOut ==
  ASSUME TypeOK, NEW c \in Clients, NEW k \in ConnId, Acquired(c, k)
  PROVE  HandedOut(c, k)
<1>1. cl \in [Clients -> ClientType]  BY DEF TypeOK
<1>2. k \in 0 .. MaxConns  BY PoolConstants DEF ConnId
<1> DEFINE pc == IF cl[c].tx = 0 THEN "prepare" ELSE "begin"
<1>3. pc \in PC /\ cl' = [cl EXCEPT ![c].pc = pc, ![c].k = k]  BY DEF PC, Acquired
<1> HIDE DEF pc
<1>4. cl' \in [Clients -> ClientType]
  <2>1. [cl[c] EXCEPT !.pc = pc, !.k = k] \in ClientType  BY <1>1, <1>2, <1>3 DEF ClientType
  <2> QED  BY <1>1, <1>3, <2>1
<1>5. Turned(c)  BY <1>1, <1>3, <1>4 DEF Turned
<1>6. cl'[c].pc = pc /\ cl'[c].k = k /\ cl'[c].s = cl[c].s  BY <1>1, <1>3 DEF ClientType
<1>7. cl'[c].tx = cl[c].tx /\ cl'[c].err = cl[c].err  BY <1>1, <1>3 DEF ClientType
<1>8. /\ pool' \in [ConnId -> {"undialled", "free", "used", "closed"}]
      /\ pool'[k] = "used" /\ \A j \in ConnId : j # k => pool'[j] = pool[j]
  BY DEF TypeOK, Acquired
<1> QED  BY <1>5, <1>6, <1>7, <1>8 DEF HandedOut, pc

LEMMA DialDoes ==
  ASSUME HoldInv, NEW c \in Clients, NEW k \in ConnId, Dial(c, k)
  PROVE  /\ cl[c].pc = "acquire" /\ pool[k] = "undialled" /\ HandedOut(c, k)
         /\ UNCHANGED <<nc, cas, nStmts, nTx, txOf, execs, stmtRes, txRes, committed>>
<1>1. HandedOut(c, k)  BY AcquiredHandsOut DEF Dial, HoldInv
<1> QED  BY <1>1 DEF Dial

LEMMA ResetSessionDoes ==
  ASSUME HoldInv, NEW c \in Clients, NEW k \in ConnId, ResetSession(c, k)
  PROVE  /\ cl[c].pc = "acquire" /\ pool[k] = "free" /\ Valid(k) /\ HandedOut(c, k)
         /\ \/ nc[k].autoCommit /\ UNCHANGED <<nc, cas, committed>>
            \/ /\ EndedCas(k, "rollback") /\ NcAt(k)
               /\ nc'[k].bad = nc[k].bad /\ nc'[k].autoCommit = TRUE
         /\ UNCHANGED <<nStmts, nTx, txOf, execs, stmtRes, txRes>>
<1>1. HandedOut(c, k)  BY AcquiredHandsOut DEF ResetSession, HoldInv
<1>2. \/ nc[k].autoCommit /\ UNCHANGED <<nc, cas, committed>>
      \/ /\ EndedCas(k, "rollback") /\ NcAt(k)
         /\ nc'[k].bad = nc[k].bad /\ nc'[k].autoCommit = TRUE
  <2>1. CASE nc[k].autoCommit
    BY <2>1 DEF ResetSession
  <2>2. CASE ~nc[k].autoCommit
    <3>1. CasEnds(k, "rollback") /\ nc' = [nc EXCEPT ![k].autoCommit = TRUE]
          /\ nc \in [ConnId -> ConnType]
      BY <2>2 DEF ResetSession, HoldInv, TypeOK
    <3>2. EndedCas(k, "rollback")  BY <3>1, CasEnded DEF HoldInv
    <3>3. NcAt(k) /\ nc'[k].bad = nc[k].bad /\ nc'[k].autoCommit = TRUE
      BY <3>1 DEF NcAt, ConnType
    <3> QED  BY <3>2, <3>3
  <2> QED  BY <2>1, <2>2
<1> QED  BY <1>1, <1>2 DEF ResetSession

LEMMA ResetSessionBadDoes ==
  ASSUME HoldInv, NEW c \in Clients, NEW k \in ConnId, ResetSessionBad(c, k)
  PROVE  /\ pool[k] = "free"
         /\ pool' \in [ConnId -> {"undialled", "free", "used", "closed"}]
         /\ pool'[k] = "closed" /\ \A j \in ConnId : j # k => pool'[j] = pool[j]
         /\ NcAt(k) /\ nc'[k].autoCommit = nc[k].autoCommit
         /\ nc[k].bad => nc'[k].bad
         /\ Valid(k) => ~nc[k].autoCommit
         /\ UNCHANGED <<cas, cl, nStmts, nTx, txOf, execs, stmtRes, txRes, committed>>
<1>1. PICK isBad \in BOOLEAN : nc' = [nc EXCEPT ![k].bad = @ \/ isBad]
  BY DEF ResetSessionBad
<1>2. nc \in [ConnId -> ConnType]  BY DEF HoldInv, TypeOK
<1>3. NcAt(k) /\ nc'[k].autoCommit = nc[k].autoCommit
  <2> DEFINE b == nc[k].bad \/ isBad
  <2>1. b \in BOOLEAN  OBVIOUS
  <2>2. nc' = [nc EXCEPT ![k].bad = b]  BY <1>1
  <2> HIDE DEF b
  <2> QED  BY <1>2, <2>1, <2>2 DEF NcAt, ConnType
<1>4. nc[k].bad => nc'[k].bad
  BY <1>1, <1>2, Zenon DEF ConnType
<1>5. /\ pool' \in [ConnId -> {"undialled", "free", "used", "closed"}]
      /\ pool'[k] = "closed" /\ \A j \in ConnId : j # k => pool'[j] = pool[j]
  BY DEF ResetSessionBad, HoldInv, TypeOK
<1> QED  BY <1>3, <1>4, <1>5 DEF ResetSessionBad

LEMMA ReleaseDoes ==
  ASSUME NEW c, NEW k, On(c, k), Release(c)
  PROVE  /\ cl[c].pc = "release"
         /\ pool' \in [ConnId -> {"undialled", "free", "used", "closed"}]
         /\ pool'[k] \in {"free", "closed"} /\ (pool'[k] = "free" => Valid(k))
         /\ \A j \in ConnId : j # k => pool'[j] = pool[j]
         /\ Turned(c) /\ cl'[c].err = "nil"
         /\ stmtRes' \in [Stmt -> {"none"} \union Err]
         /\ \/ /\ cl[c].err = "driver.ErrBadConn" /\ cl[c].tx = 0
               /\ cl'[c].pc = "acquire" /\ cl'[c].s = cl[c].s /\ cl'[c].tx = cl[c].tx
               /\ UNCHANGED stmtRes
            \/ /\ cl'[c].pc = "idle" /\ cl'[c].s = 0 /\ cl'[c].tx = 0
               /\ \A s \in Stmt : stmtRes'[s] = IF s = cl[c].s /\ cl[c].tx = 0
                                                THEN cl[c].err ELSE stmtRes[s]
         /\ UNCHANGED <<nc, cas, nStmts, nTx, txOf, execs, txRes, committed>>
<1>0. /\ c \in Clients /\ k \in ConnId /\ k = cl[c].k /\ cl \in [Clients -> ClientType]
      /\ pool \in [ConnId -> {"undialled", "free", "used", "closed"}]
      /\ stmtRes \in [Stmt -> {"none"} \union Err] /\ cl[c].err \in Err
      /\ cl[c].s \in 0 .. MaxStmts /\ cl[c].tries \in 0 .. 2
  BY OnFacts, ClientFields DEF TypeOK
<1>1. cl[c].pc = "release"  BY DEF Release
<1>2. /\ pool' \in [ConnId -> {"undialled", "free", "used", "closed"}]
      /\ pool'[k] \in {"free", "closed"} /\ (pool'[k] = "free" => Valid(k))
      /\ \A j \in ConnId : j # k => pool'[j] = pool[j]
  <2> DEFINE to == IF cl[c].err = "driver.ErrBadConn" \/ ~Valid(k) THEN "closed" ELSE "free"
  <2>1. pool' = [pool EXCEPT ![k] = to]  BY <1>0 DEF Release
  <2>2. to \in {"free", "closed"} /\ (to = "free" => Valid(k))  OBVIOUS
  <2> HIDE DEF to
  <2> QED  BY <1>0, <2>1, <2>2
<1> DEFINE retry == cl[c].err = "driver.ErrBadConn" /\ cl[c].tx = 0 /\ cl[c].tries < 2
           again == [cl[c] EXCEPT !.pc = "acquire", !.k = 0, !.err = "nil",
                                  !.tries = cl[c].tries + 1]
<1>3. /\ cl' = [cl EXCEPT ![c] = IF retry THEN again ELSE IdleClient]
      /\ stmtRes' = IF cl[c].s # 0 /\ cl[c].tx = 0 /\ ~retry
                    THEN [stmtRes EXCEPT ![cl[c].s] = cl[c].err] ELSE stmtRes
  <2>1. cl' = [cl EXCEPT ![c] = IF retry THEN again ELSE IdleClient]
    BY <1>0 DEF Release
  <2>2. stmtRes' = IF cl[c].s # 0 /\ cl[c].tx = 0 /\ ~retry
                   THEN [stmtRes EXCEPT ![cl[c].s] = cl[c].err] ELSE stmtRes
    BY <1>0 DEF Release
  <2> QED  BY <2>1, <2>2
<1>4. {"acquire", "idle"} \subseteq PC /\ "nil" \in Err /\ 0 \in 0 .. MaxConns
      /\ 0 \in 0 .. MaxStmts /\ 0 \in 0 .. MaxTx /\ 0 \in 0 .. 2
  BY PoolConstants DEF PC, Err
<1>5. IdleClient \in ClientType  BY <1>4 DEF IdleClient, ClientType
<1>6. UNCHANGED <<nc, cas, nStmts, nTx, txOf, execs, txRes, committed>>  BY DEF Release
<1>7. CASE retry
  <2>1. cl[c].tries + 1 \in 0 .. 2  BY <1>0, <1>7
  <2>2. again \in ClientType  BY <1>0, <1>4, <2>1 DEF ClientType
  <2>3. again.pc = "acquire" /\ again.s = cl[c].s /\ again.tx = cl[c].tx /\ again.err = "nil"
    BY <1>0 DEF ClientType
  <2>4. cl' = [cl EXCEPT ![c] = again] /\ UNCHANGED stmtRes  BY <1>3, <1>7
  <2>5. cl[c].err = "driver.ErrBadConn" /\ cl[c].tx = 0  BY <1>7
  <2> HIDE DEF again, retry
  <2>6. Turned(c) /\ cl'[c] = again  BY <1>0, <2>2, <2>4 DEF Turned
  <2> QED  BY <1>0, <1>1, <1>2, <1>6, <2>3, <2>4, <2>5, <2>6
<1>8. CASE ~retry
  <2>1. cl' = [cl EXCEPT ![c] = IdleClient]
        /\ stmtRes' = IF cl[c].s # 0 /\ cl[c].tx = 0
                      THEN [stmtRes EXCEPT ![cl[c].s] = cl[c].err] ELSE stmtRes
    BY <1>3, <1>8
  <2> HIDE DEF again, retry
  <2>2. Turned(c) /\ cl'[c] = IdleClient  BY <1>0, <1>5, <2>1 DEF Turned
  <2>3. cl'[c].pc = "idle" /\ cl'[c].s = 0 /\ cl'[c].tx = 0 /\ cl'[c].err = "nil"
    BY <2>2 DEF IdleClient
  <2>4. /\ stmtRes' \in [Stmt -> {"none"} \union Err]
        /\ \A s \in Stmt : stmtRes'[s] = IF s = cl[c].s /\ cl[c].tx = 0
                                         THEN cl[c].err ELSE stmtRes[s]
    BY <1>0, <2>1, PoolConstants DEF Stmt
  <2> QED  BY <1>1, <1>2, <1>6, <2>2, <2>3, <2>4
<1> QED  BY <1>7, <1>8

LEMMA CasLateDoes ==
  ASSUME HoldInv, NEW k \in ConnId, CasLate(k)
  PROVE  /\ nc[k].bad /\ cas[k].late.kind \in {"exec", "commit", "rollback"}
         /\ \/ /\ cas[k].late.kind = "exec" /\ cas[k].late.s \in Stmt
               /\ Ran(k, cas[k].late.s, cas[k].late.ac)
            \/ /\ cas[k].late.kind # "exec"
               /\ EndedCas(k, cas[k].late.kind) /\ UNCHANGED execs
         /\ UNCHANGED <<pool, nc, cl, nStmts, nTx, txOf, stmtRes, txRes>>
<1>1. /\ cas \in [ConnId -> CasType] /\ nc \in [ConnId -> ConnType] /\ TypeOK
      /\ nStmts \in 0 .. MaxStmts /\ LateOK(k)
  BY DEF HoldInv, TypeOK
<1>2. cas[k].late.kind \in {"exec", "commit", "rollback"} /\ cas[k].late.ac \in BOOLEAN
  BY <1>1 DEF CasLate, CasType
<1>3. nc[k].bad
  <2>1. NoLate.kind = "none"  BY DEF NoLate
  <2>2. cas[k].late.kind # "none"  BY DEF CasLate
  <2> QED  BY <1>1, <2>1, <2>2 DEF LateOK
<1>4. CASE cas[k].late.kind = "exec"
  <2>1. cas[k].late.s \in Stmt
    BY <1>1, <1>4, PoolConstants DEF LateOK, Stmt
  <2>2. CasRuns(k, cas[k].late.s, cas[k].late.ac)  BY <1>4 DEF CasLate
  <2>3. Ran(k, cas[k].late.s, cas[k].late.ac)  BY <1>1, <1>2, <2>1, <2>2, CasRan
  <2> QED  BY <1>2, <1>3, <1>4, <2>1, <2>3 DEF CasLate
<1>5. CASE cas[k].late.kind # "exec"
  <2>1. CasEnds(k, cas[k].late.kind) /\ UNCHANGED execs  BY <1>5 DEF CasLate
  <2>2. EndedCas(k, cas[k].late.kind)  BY <1>1, <2>1, CasEnded
  <2> QED  BY <1>2, <1>3, <1>5, <2>1, <2>2 DEF CasLate
<1> QED  BY <1>4, <1>5

LEMMA FreshFacts ==
  /\ FreshCas \in CasType /\ FreshCas.pending = {} /\ FreshCas.handles = {}
  /\ FreshCas.late = NoLate /\ NoLate.kind = "none"
  /\ FreshConn \in ConnType /\ FreshConn.bad = FALSE /\ FreshConn.autoCommit = TRUE
<1>1. NoLate \in [kind : {"none", "exec", "commit", "rollback"}, s : 0 .. MaxStmts,
                  ac : BOOLEAN]
      /\ NoLate.kind = "none"
  BY PoolConstants DEF NoLate
<1>2. FreshCas \in CasType  BY <1>1 DEF FreshCas, CasType
<1>3. FreshCas.pending = {} /\ FreshCas.handles = {} /\ FreshCas.late = NoLate
  BY DEF FreshCas
<1>4. FreshConn \in ConnType /\ FreshConn.bad = FALSE /\ FreshConn.autoCommit = TRUE
  BY DEF FreshConn, ConnType
<1> QED  BY <1>1, <1>2, <1>3, <1>4

LEMMA CasHangupDoes ==
  ASSUME HoldInv, NEW k \in ConnId, CasHangup(k)
  PROVE  /\ pool[k] = "closed" /\ CasAt(k) /\ cas'[k].pending = {}
         /\ Loose(k)' = {} /\ cas'[k].late = NoLate
         /\ UNCHANGED <<pool, nc, cl, nStmts, nTx, txOf, execs, stmtRes, txRes, committed>>
<1>1. cas' = [cas EXCEPT ![k] = FreshCas] /\ cas \in [ConnId -> CasType]
  BY DEF CasHangup, HoldInv, TypeOK
<1>2. CasAt(k) /\ cas'[k] = FreshCas  BY <1>1, FreshFacts DEF CasAt
<1> QED  BY <1>2, FreshFacts DEF CasHangup, Loose

-----------------------------------------------------------------------------
(* HoldInv, concluded *)

LEMMA ClientRanges ==
  ASSUME HoldInv, NEW d \in Clients
  PROVE  /\ cl[d].s \in Nat /\ cl[d].s <= nStmts /\ cl[d].tx \in Nat /\ cl[d].tx <= nTx
         /\ cl[d].s # 0 => cl[d].s \in 1 .. nStmts /\ cl[d].s \in Stmt
         /\ nStmts \in 0 .. MaxStmts /\ nTx \in 0 .. MaxTx /\ nStmts \in Nat /\ nTx \in Nat
         /\ ClientOK(d)
<1>1. ClientOK(d) /\ nStmts \in 0 .. MaxStmts /\ nTx \in 0 .. MaxTx  BY DEF HoldInv, TypeOK
<1>2. cl[d].s \in 0 .. MaxStmts /\ cl[d].tx \in 0 .. MaxTx  BY ClientFields DEF HoldInv, TypeOK
<1>3. cl[d].s <= nStmts /\ cl[d].tx <= nTx  BY <1>1 DEF ClientOK
<1> QED  BY <1>1, <1>2, <1>3, PoolConstants DEF Stmt

\* What c takes is new or was its own, so nobody else has it.
LEMMA TurnedHolds ==
  ASSUME HoldInv, NEW c \in Clients, Turned(c), ClientOK(c)',
         nStmts' \in Nat, nStmts <= nStmts', nTx' \in Nat, nTx <= nTx',
         \A s \in 1 .. nStmts : txOf'[s] = txOf[s],
         \A d \in Clients : d # c /\ Holds(d) =>
            pool'[cl[d].k] = "used" /\ (Holds(c)' => cl[d].k # cl'[c].k),
         cl'[c].s = 0 \/ cl'[c].s = cl[c].s \/ cl'[c].s > nStmts,
         cl'[c].tx = 0 \/ cl'[c].tx = cl[c].tx \/ cl'[c].tx > nTx
  PROVE  /\ \A d \in Clients : ClientOK(d)'
         /\ \A d, e \in Clients : d # e => Apart(d, e)'
<1>1. ASSUME NEW d \in Clients, d # c PROVE ClientOK(d)'
  <2>1. cl'[d] = cl[d]  BY <1>1 DEF Turned
  <2>2. /\ cl[d].s \in Nat /\ cl[d].s <= nStmts /\ cl[d].tx \in Nat /\ cl[d].tx <= nTx
        /\ cl[d].s # 0 => cl[d].s \in 1 .. nStmts
        /\ nStmts \in Nat /\ nTx \in Nat /\ ClientOK(d)
    BY ClientRanges
  <2>3. Holds(d)' <=> Holds(d)  BY <2>1 DEF Holds
  <2> QED  BY <1>1, <2>1, <2>2, <2>3 DEF ClientOK
<1>2. ASSUME NEW d \in Clients, d # c PROVE Apart(c, d)' /\ Apart(d, c)'
  <2>1. cl'[d] = cl[d] /\ (Holds(d)' <=> Holds(d))  BY <1>2 DEF Turned, Holds
  <2>2. /\ cl[d].s \in Nat /\ cl[d].s <= nStmts /\ cl[d].tx \in Nat /\ cl[d].tx <= nTx
        /\ nStmts \in Nat /\ nTx \in Nat
    BY ClientRanges
  <2>3. Apart(c, d) /\ Apart(d, c)  BY <1>2 DEF HoldInv
  <2>4. cl'[c].s \in Nat /\ cl'[c].tx \in Nat
    BY PoolConstants DEF Turned, ClientType
  <2>5. (cl'[c].s # 0 => cl'[c].s # cl[d].s) /\ (cl[d].s # 0 => cl[d].s # cl'[c].s)
    BY <2>2, <2>3, <2>4 DEF Apart
  <2>6. (cl'[c].tx # 0 => cl'[c].tx # cl[d].tx) /\ (cl[d].tx # 0 => cl[d].tx # cl'[c].tx)
    BY <2>2, <2>3, <2>4 DEF Apart
  <2>7. Holds(c)' /\ Holds(d)' => cl'[c].k # cl'[d].k  BY <1>2, <2>1
  <2> QED  BY <2>1, <2>5, <2>6, <2>7 DEF Apart
<1>3. ASSUME NEW d \in Clients, NEW e \in Clients, d # e, d # c, e # c PROVE Apart(d, e)'
  <2>1. cl'[d] = cl[d] /\ cl'[e] = cl[e] /\ Apart(d, e)  BY <1>3 DEF Turned, HoldInv
  <2> QED  BY <2>1 DEF Apart, Holds
<1>4. \A d \in Clients : ClientOK(d)'  BY <1>1
<1>5. \A d, e \in Clients : d # e => Apart(d, e)'  BY <1>2, <1>3
<1> QED  BY <1>4, <1>5

LEMMA StartStmtHolds ==
  ASSUME HoldInv, NEW c \in Clients, StartStmt(c)
  PROVE  HoldInv'
<1>1. /\ nStmts' = nStmts + 1 /\ nStmts' \in Stmt /\ nStmts \in Nat
      /\ txOf' \in [Stmt -> 0 .. MaxTx] /\ txOf'[nStmts'] = cl[c].tx
      /\ \A s \in Stmt : s # nStmts' => txOf'[s] = txOf[s]
      /\ Turned(c)
      /\ \/ cl[c].pc = "idle" /\ cl'[c].pc = "acquire"
         \/ cl[c].pc = "intx" /\ cl'[c].pc = "prepare"
      /\ cl'[c].s = nStmts' /\ cl'[c].tx = cl[c].tx /\ cl'[c].k = cl[c].k
      /\ UNCHANGED <<pool, nc, cas, nTx, execs, stmtRes, txRes, committed>>
  BY StartStmtDoes
<1>2. /\ ClientOK(c) /\ nTx \in Nat /\ cl[c].tx \in Nat /\ nStmts \in 0 .. MaxStmts
  BY ClientRanges
<1>3. ClientOK(c)'  BY <1>1, <1>2 DEF ClientOK, Holds, Working
<1>4. \A s \in 1 .. nStmts : txOf'[s] = txOf[s]
  BY <1>1, <1>2, PoolConstants DEF Stmt
<1>5. \A d \in Clients : d # c /\ Holds(d) =>
        pool'[cl[d].k] = "used" /\ (Holds(c)' => cl[d].k # cl'[c].k)
  BY <1>1 DEF HoldInv, ClientOK, Apart, Holds
<1>6. nStmts' \in Nat /\ nStmts <= nStmts' /\ nTx' \in Nat /\ nTx <= nTx' /\ cl'[c].s > nStmts
  BY <1>1, <1>2
<1>7. /\ \A d \in Clients : ClientOK(d)'
      /\ \A d, e \in Clients : d # e => Apart(d, e)'
  BY <1>1, <1>3, <1>4, <1>5, <1>6, TurnedHolds
<1>8. \A k \in ConnId : LateOK(k)'
  BY <1>1, <1>6 DEF HoldInv, LateOK
<1>9. TypeOK'
  <2>1. nStmts' \in 0 .. MaxStmts  BY <1>1, PoolConstants DEF Stmt
  <2> QED  BY <1>1, <2>1 DEF HoldInv, TypeOK, Turned
<1> QED  BY <1>7, <1>8, <1>9 DEF HoldInv

LEMMA StartTxHolds ==
  ASSUME HoldInv, NEW c \in Clients, NEW lv \in Levels, StartTx(c, lv)
  PROVE  HoldInv'
<1>1. /\ nTx' = nTx + 1 /\ nTx' \in Tx /\ nTx \in Nat
      /\ cl[c].pc = "idle" /\ cl[c].s = 0
      /\ Turned(c) /\ cl'[c].pc = "acquire" /\ cl'[c].tx = nTx'
      /\ cl'[c].s = cl[c].s /\ cl'[c].k = cl[c].k
      /\ UNCHANGED <<pool, nc, cas, nStmts, txOf, execs, stmtRes, txRes, committed>>
  BY StartTxDoes
<1>2. nStmts \in Nat /\ ClientOK(c)  BY ClientRanges
<1>3. ClientOK(c)'  BY <1>1, <1>2 DEF ClientOK, Holds, Working
<1>5. \A d \in Clients : d # c /\ Holds(d) =>
        pool'[cl[d].k] = "used" /\ (Holds(c)' => cl[d].k # cl'[c].k)
  BY <1>1 DEF HoldInv, ClientOK, Holds
<1>6. nStmts' \in Nat /\ nStmts <= nStmts' /\ nTx' \in Nat /\ nTx <= nTx' /\ cl'[c].tx > nTx
  BY <1>1, <1>2
<1>7. /\ \A d \in Clients : ClientOK(d)'
      /\ \A d, e \in Clients : d # e => Apart(d, e)'
  BY <1>1, <1>3, <1>5, <1>6, TurnedHolds
<1>8. \A k \in ConnId : LateOK(k)'  BY <1>1 DEF HoldInv, LateOK
<1>9. TypeOK'
  <2>1. nTx' \in 0 .. MaxTx  BY <1>1, PoolConstants DEF Tx
  <2> QED  BY <1>1, <2>1 DEF HoldInv, TypeOK, Turned
<1> QED  BY <1>7, <1>8, <1>9 DEF HoldInv

LEMMA HandedOutHolds ==
  ASSUME HoldInv, NEW c \in Clients, NEW k \in ConnId, cl[c].pc = "acquire",
         pool[k] # "used", HandedOut(c, k), NcAt(k), CasAt(k), LateOK(k)',
         committed' \subseteq Stmt,
         UNCHANGED <<nStmts, nTx, txOf, execs, stmtRes, txRes>>
  PROVE  HoldInv'
<1>2. nStmts \in Nat /\ nTx \in Nat /\ ClientOK(c)  BY ClientRanges
<1>3. ClientOK(c)'
  <2>1. k # 0  BY PoolConstants DEF ConnId
  <2> QED  BY <1>2, <2>1 DEF ClientOK, Holds, Working, HandedOut
<1>5. \A d \in Clients : d # c /\ Holds(d) =>
        pool'[cl[d].k] = "used" /\ (Holds(c)' => cl[d].k # cl'[c].k)
  BY HeldConn DEF HandedOut
<1>6. nStmts' \in Nat /\ nStmts <= nStmts' /\ nTx' \in Nat /\ nTx <= nTx'
  BY <1>2
<1>7. /\ \A d \in Clients : ClientOK(d)'
      /\ \A d, e \in Clients : d # e => Apart(d, e)'
  BY <1>3, <1>5, <1>6, TurnedHolds DEF HandedOut
<1>8. \A j \in ConnId : LateOK(j)'  BY <1>6, LateKept
<1>9. TypeOK'  BY DEF HoldInv, TypeOK, HandedOut, Turned, NcAt, CasAt
<1> QED  BY <1>7, <1>8, <1>9 DEF HoldInv

LEMMA ResetSessionHolds ==
  ASSUME HoldInv, NEW c \in Clients, NEW k \in ConnId, ResetSession(c, k)
  PROVE  HoldInv'
<1>1. /\ cl[c].pc = "acquire" /\ pool[k] = "free" /\ HandedOut(c, k)
      /\ UNCHANGED <<nStmts, nTx, txOf, execs, stmtRes, txRes>>
      /\ TypeOK /\ LateOK(k) /\ committed \subseteq Stmt
  BY ResetSessionDoes DEF HoldInv, TypeOK
<1>2. CASE UNCHANGED <<nc, cas, committed>>
  <2>1. NcAt(k) /\ CasAt(k) /\ LateOK(k)'  BY <1>1, <1>2, NothingAt DEF LateOK
  <2> QED  BY <1>1, <1>2, <2>1, HandedOutHolds
<1>3. CASE EndedCas(k, "rollback") /\ NcAt(k)
  <2>1. LateOK(k)'  BY <1>3 DEF EndedCas, LateOK, NoLate
  <2> QED  BY <1>1, <1>3, <2>1, HandedOutHolds DEF EndedCas
<1> QED  BY <1>2, <1>3, ResetSessionDoes

LEMMA ReleaseHolds ==
  ASSUME NEW c, NEW k, On(c, k), Release(c)
  PROVE  HoldInv'
<1>1. /\ cl[c].pc = "release"
      /\ pool' \in [ConnId -> {"undialled", "free", "used", "closed"}]
      /\ \A j \in ConnId : j # k => pool'[j] = pool[j]
      /\ Turned(c)
      /\ stmtRes' \in [Stmt -> {"none"} \union Err]
      /\ \/ /\ cl[c].tx = 0 /\ cl'[c].pc = "acquire"
            /\ cl'[c].s = cl[c].s /\ cl'[c].tx = cl[c].tx
         \/ /\ cl'[c].pc = "idle" /\ cl'[c].s = 0 /\ cl'[c].tx = 0
      /\ UNCHANGED <<nc, cas, nStmts, nTx, txOf, execs, txRes, committed>>
  BY ReleaseDoes
<1>2. HoldInv /\ c \in Clients /\ k \in ConnId /\ k = cl[c].k /\ nStmts \in Nat /\ nTx \in Nat
      /\ ClientOK(c)
  BY OnFacts
<1>3. ClientOK(c)' /\ ~Holds(c)'
  BY <1>1, <1>2 DEF ClientOK, Holds, Working
<1>5. \A d \in Clients : d # c /\ Holds(d) =>
        pool'[cl[d].k] = "used" /\ (Holds(c)' => cl[d].k # cl'[c].k)
  <2> SUFFICES ASSUME NEW d \in Clients, d # c, Holds(d) PROVE pool'[cl[d].k] = "used"
    BY <1>3
  <2>1. cl[d].k \in ConnId /\ pool[cl[d].k] = "used"  BY <1>2, HeldConn
  <2>2. cl[d].k # k  BY <1>1, <1>2 DEF HoldInv, Apart, Holds
  <2> QED  BY <1>1, <2>1, <2>2
<1>6. nStmts' \in Nat /\ nStmts <= nStmts' /\ nTx' \in Nat /\ nTx <= nTx'
  BY <1>1, <1>2
<1>7. /\ \A d \in Clients : ClientOK(d)'
      /\ \A d, e \in Clients : d # e => Apart(d, e)'
  BY <1>1, <1>2, <1>3, <1>5, <1>6, TurnedHolds
<1>8. \A j \in ConnId : LateOK(j)'  BY <1>1, <1>2 DEF HoldInv, LateOK
<1>9. TypeOK'  BY <1>1, <1>2 DEF HoldInv, TypeOK, Turned
<1> QED  BY <1>7, <1>8, <1>9 DEF HoldInv

\* A step on a connection that no client holds, or of its CAS alone.
LEMMA ConnStepHolds ==
  ASSUME HoldInv, NEW k \in ConnId, NcAt(k), CasAt(k), LateOK(k)',
         pool' \in [ConnId -> {"undialled", "free", "used", "closed"}],
         \A j \in ConnId : pool[j] = "used" => pool'[j] = "used",
         execs' \in [Stmt -> Nat], committed' \subseteq Stmt,
         UNCHANGED <<cl, nStmts, nTx, txOf, stmtRes, txRes>>
  PROVE  HoldInv'
<1>1. nStmts' \in Nat /\ nStmts <= nStmts'  BY PoolConstants DEF HoldInv, TypeOK
<1>2. \A j \in ConnId : LateOK(j)'  BY <1>1, LateKept
<1>3. TypeOK'  BY DEF HoldInv, TypeOK, NcAt, CasAt
<1>4. ASSUME NEW d \in Clients PROVE ClientOK(d)'
  <2>1. Holds(d) => pool'[cl[d].k] = "used"  BY HeldConn
  <2>2. Holds(d)' <=> Holds(d)  BY DEF Holds
  <2> QED  BY <2>1, <2>2 DEF HoldInv, ClientOK
<1>5. \A d, e \in Clients : d # e => Apart(d, e)'  BY DEF HoldInv, Apart, Holds
<1> QED  BY <1>2, <1>3, <1>4, <1>5 DEF HoldInv

LEMMA HoldInvInit == Init => HoldInv
<1> SUFFICES ASSUME Init PROVE HoldInv
  OBVIOUS
<1>1. nStmts = 0 /\ nTx = 0 /\ committed = {} /\ 0 \in 0 .. MaxStmts /\ 0 \in 0 .. MaxTx
      /\ 0 \in 0 .. MaxConns
  BY PoolConstants DEF Init
<1>2. IdleClient \in ClientType
  BY <1>1 DEF IdleClient, ClientType, PC, Err
<1>3. \A c \in Clients : cl[c] = IdleClient  BY DEF Init
<1>4. \A k \in ConnId : nc[k] = FreshConn /\ cas[k] = FreshCas  BY DEF Init
<1>5. TypeOK
  <2>1. /\ pool \in [ConnId -> {"undialled", "free", "used", "closed"}]
        /\ txOf \in [Stmt -> 0 .. MaxTx] /\ execs \in [Stmt -> Nat]
        /\ stmtRes \in [Stmt -> {"none"} \union Err]
        /\ txRes \in [Tx -> TxResults] /\ committed \subseteq Stmt
    BY <1>1 DEF Init, TxResults
  <2>2. nc \in [ConnId -> ConnType] /\ cas \in [ConnId -> CasType]
    BY FreshFacts DEF Init
  <2>3. cl \in [Clients -> ClientType]  BY <1>2 DEF Init
  <2> QED  BY <1>1, <2>1, <2>2, <2>3 DEF TypeOK
<1>6. IdleClient.pc = "idle" /\ IdleClient.s = 0 /\ IdleClient.tx = 0  BY DEF IdleClient
<1>7. \A c \in Clients : ClientOK(c)
  BY <1>1, <1>3, <1>6 DEF ClientOK, Holds, Working
<1>8. \A c, d \in Clients : c # d => Apart(c, d)
  BY <1>3, <1>6 DEF Apart, Holds
<1>9. \A k \in ConnId : LateOK(k)
  BY <1>4, FreshFacts DEF LateOK
<1> QED  BY <1>5, <1>7, <1>8, <1>9 DEF HoldInv

LEMMA HoldInvNext == HoldInv /\ [Next]_vars => HoldInv'
<1> SUFFICES ASSUME HoldInv, [Next]_vars PROVE HoldInv'
  OBVIOUS
<1>0. TypeOK  BY DEF HoldInv
<1>1. ASSUME NEW c \in Clients, HeldStep(c) PROVE HoldInv'
  BY <1>1, HeldStepOn, HeldStepHolds
<1>2. ASSUME NEW c \in Clients, StartStmt(c) PROVE HoldInv'
  BY <1>2, StartStmtHolds
<1>3. ASSUME NEW c \in Clients, NEW lv \in Levels, StartTx(c, lv) PROVE HoldInv'
  BY <1>3, StartTxHolds
<1>4. ASSUME NEW c \in Clients, NEW k \in ConnId, Dial(c, k) PROVE HoldInv'
  <2>1. /\ cl[c].pc = "acquire" /\ pool[k] = "undialled" /\ HandedOut(c, k)
        /\ UNCHANGED <<nc, cas, nStmts, nTx, txOf, execs, stmtRes, txRes, committed>>
    BY <1>4, DialDoes
  <2>2. NcAt(k) /\ CasAt(k) /\ LateOK(k)'
    BY <1>0, <2>1, NothingAt DEF HoldInv, LateOK
  <2> QED  BY <1>0, <2>1, <2>2, HandedOutHolds DEF TypeOK
<1>5. ASSUME NEW c \in Clients, NEW k \in ConnId, ResetSession(c, k) PROVE HoldInv'
  BY <1>5, ResetSessionHolds
<1>6. ASSUME NEW c \in Clients, NEW k \in ConnId, ResetSessionBad(c, k) PROVE HoldInv'
  <2>1. /\ pool[k] = "free" /\ pool' \in [ConnId -> {"undialled", "free", "used", "closed"}]
        /\ \A j \in ConnId : j # k => pool'[j] = pool[j]
        /\ NcAt(k) /\ (nc[k].bad => nc'[k].bad)
        /\ UNCHANGED <<cas, cl, nStmts, nTx, txOf, execs, stmtRes, txRes, committed>>
    BY <1>6, ResetSessionBadDoes
  <2>2. LateOK(k) /\ CasAt(k)  BY <1>0, <2>1, NothingAt DEF HoldInv
  <2>3. LateOK(k)'  BY <2>1, <2>2 DEF LateOK
  <2>4. \A j \in ConnId : pool[j] = "used" => pool'[j] = "used"  BY <2>1
  <2>5. execs' \in [Stmt -> Nat] /\ committed' \subseteq Stmt  BY <1>0, <2>1 DEF TypeOK
  <2> QED  BY <2>1, <2>2, <2>3, <2>4, <2>5, ConnStepHolds
<1>7. ASSUME NEW c \in Clients, Release(c) PROVE HoldInv'
  <2>1. \E k \in ConnId : On(c, k)  BY <1>7, HeldConn DEF On, Release, Holds
  <2> QED  BY <1>7, <2>1, ReleaseHolds
<1>8. ASSUME NEW k \in ConnId, CasLate(k) PROVE HoldInv'
  <2>1. /\ UNCHANGED <<pool, nc, cl, nStmts, nTx, txOf, stmtRes, txRes>>
        /\ CasAt(k) /\ cas'[k].late = NoLate /\ committed' \subseteq Stmt
        /\ execs' \in [Stmt -> Nat]
    BY <1>0, <1>8, CasLateDoes DEF Ran, EndedCas, TypeOK
  <2>2. NcAt(k) /\ LateOK(k)'  BY <1>0, <2>1, NothingAt, FreshFacts DEF LateOK
  <2> QED  BY <1>0, <2>1, <2>2, ConnStepHolds DEF TypeOK
<1>9. ASSUME NEW k \in ConnId, CasHangup(k) PROVE HoldInv'
  <2>1. /\ CasAt(k) /\ cas'[k].late = NoLate
        /\ UNCHANGED <<pool, nc, cl, nStmts, nTx, txOf, execs, stmtRes, txRes, committed>>
    BY <1>9, CasHangupDoes
  <2>2. NcAt(k) /\ LateOK(k)'  BY <1>0, <2>1, NothingAt, FreshFacts DEF LateOK
  <2> QED  BY <1>0, <2>1, <2>2, ConnStepHolds DEF TypeOK
<1>10. CASE UNCHANGED vars
  <2>1. TypeOK'  BY <1>0, <1>10 DEF TypeOK, vars
  <2>2. \A c \in Clients : ClientOK(c)'  BY <1>10 DEF HoldInv, ClientOK, Holds, vars
  <2>3. \A c, d \in Clients : c # d => Apart(c, d)'  BY <1>10 DEF HoldInv, Apart, Holds, vars
  <2>4. \A k \in ConnId : LateOK(k)'  BY <1>10 DEF HoldInv, LateOK, vars
  <2> QED  BY <2>1, <2>2, <2>3, <2>4 DEF HoldInv
<1> QED
  BY <1>1, <1>2, <1>3, <1>4, <1>5, <1>6, <1>7, <1>8, <1>9, <1>10 DEF Next, HeldStep

\* The adapter's state stays well-typed: in particular no client acts on a
\* statement or a connection it does not have.
THEOREM PoolTyped == Spec => []TypeOK
<1>1. HoldInv => TypeOK  BY DEF HoldInv
<1> QED  BY <1>1, HoldInvInit, HoldInvNext, PTL DEF Spec

-----------------------------------------------------------------------------
(* OnceInv is inductive *)

\* A step that executes nothing, sends nothing, and makes no statement eligible
\* for another try that was not.
LEMMA OnceKept ==
  ASSUME OnceInv, HoldInv', UNCHANGED execs, nStmts <= nStmts',
         \A k \in ConnId, s \in Stmt : Late(k, s)' => Late(k, s),
         \A c \in Clients : ErrOK(c)',
         \A c \in Clients : Unsent(c)' =>
            (Unsent(c) /\ cl'[c].s = cl[c].s) \/ cl'[c].s > nStmts
  PROVE  OnceInv'
<1>0. nStmts \in Nat /\ nStmts' \in Nat /\ Stmt \subseteq Nat
  BY PoolConstants DEF OnceInv, HoldInv, TypeOK, Stmt
<1>1. \A s \in Stmt : Untouched(s) => Untouched(s)'
  BY DEF Untouched
<1>2. ASSUME NEW c \in Clients, Unsent(c)' PROVE Untouched(cl[c].s)'
  <2>1. cl'[c].s \in Stmt
    <3>1. cl'[c].s \in 0 .. MaxStmts  BY DEF HoldInv, TypeOK, ClientType
    <3>2. cl'[c].s # 0  BY <1>2 DEF Unsent
    <3> QED  BY <3>1, <3>2, PoolConstants DEF Stmt
  <2>2. CASE Unsent(c) /\ cl'[c].s = cl[c].s
    <3>1. Untouched(cl[c].s)  BY <2>2 DEF OnceInv
    <3> QED  BY <2>1, <2>2, <3>1 DEF Untouched, Late
  <2>3. CASE cl'[c].s > nStmts
    <3>1. PICK s \in Stmt : s = cl'[c].s  BY <2>1
    <3>2. Untouched(s)  BY <2>3, <3>1 DEF OnceInv
    <3> QED  BY <1>1, <3>1, <3>2 DEF Untouched, Late
  <2> QED  BY <1>2, <2>2, <2>3
<1>3. \A s \in Stmt : s > nStmts' => Untouched(s)'
  BY <1>0, <1>1 DEF OnceInv
<1>4. \A k \in ConnId, s \in Stmt : Late(k, s)' => execs'[s] = 0
  BY DEF OnceInv
<1>5. \A j, k \in ConnId, s \in Stmt : Late(j, s)' /\ Late(k, s)' => j = k
  BY DEF OnceInv
<1>6. ExecutedOnce'  BY DEF OnceInv, ExecutedOnce
<1> QED  BY <1>2, <1>3, <1>4, <1>5, <1>6 DEF OnceInv

\* A client cannot get ErrBadConn for what was sent.
ErrSound(c, pc, err) ==
  /\ pc \in {"idle", "acquire", "begin", "prepare", "execute", "rows"} => err = "nil"
  /\ pc = "close" => err # "driver.ErrBadConn"
  /\ pc \in {"acquire", "prepare", "execute"} => cl[c].pc \in {"prepare", "execute"}
  /\ (pc = "release" /\ cl[c].tx = 0 /\ err = "driver.ErrBadConn") => cl[c].pc = "prepare"

LEMMA OnceGoes ==
  ASSUME OnceInv, HoldInv', NEW c \in Clients, NEW pc, NEW err, Goes(c, pc, err),
         ErrSound(c, pc, err)
  PROVE  /\ \A d \in Clients : ErrOK(d)'
         /\ \A d \in Clients : Unsent(d)' => Unsent(d) /\ cl'[d].s = cl[d].s
<1>1. ASSUME NEW d \in Clients, d # c
      PROVE  ErrOK(d)' /\ (Unsent(d)' => Unsent(d) /\ cl'[d].s = cl[d].s)
  <2>1. cl'[d] = cl[d]  BY <1>1 DEF Goes, Moved
  <2> QED  BY <2>1 DEF OnceInv, ErrOK, Unsent
<1>2. ErrOK(c)'  BY DEF ErrOK, Goes, Moved, ErrSound
<1>3. Unsent(c)' => Unsent(c) /\ cl'[c].s = cl[c].s
  BY DEF Unsent, Goes, Moved, ErrSound
<1> QED  BY <1>1, <1>2, <1>3

LEMMA LateOnlyAt ==
  ASSUME NEW k \in ConnId, CasAt(k),
         cas'[k].late = cas[k].late \/ cas'[k].late.kind # "exec"
  PROVE  \A j \in ConnId, s \in Stmt : Late(j, s)' => Late(j, s)
  BY DEF CasAt, Late

\* Connection k has executed s, which nobody will send again.
LEMMA OnceRan ==
  ASSUME OnceInv, HoldInv', NEW k \in ConnId, NEW s \in Stmt, NEW ac, Ran(k, s, ac),
         execs[s] = 0, s <= nStmts, \A j \in ConnId : Late(j, s) => j = k,
         UNCHANGED nStmts,
         \A c \in Clients : ErrOK(c)',
         \A c \in Clients : Unsent(c)' =>
            Unsent(c) /\ cl'[c].s = cl[c].s /\ cl[c].s # s
  PROVE  OnceInv'
<1>0. nStmts \in Nat /\ Stmt \subseteq Nat
  BY PoolConstants DEF OnceInv, HoldInv, TypeOK, Stmt
<1>1. /\ \A r \in Stmt : execs'[r] = IF r = s THEN 1 ELSE execs[r]
      /\ \A j \in ConnId, r \in Stmt : Late(j, r)' => Late(j, r) /\ r # s
  <2>1. \A r \in Stmt : execs'[r] = IF r = s THEN 1 ELSE execs[r]  BY DEF Ran
  <2>2. cas'[k].late.kind # "exec"  BY FreshFacts DEF Ran
  <2>3. ASSUME NEW j \in ConnId, NEW r \in Stmt, Late(j, r)'
        PROVE  Late(j, r) /\ r # s
    <3>1. j # k  BY <2>2, <2>3 DEF Late
    <3>2. Late(j, r)  BY <2>3, <3>1 DEF Late, Ran, CasAt
    <3> QED  BY <3>1, <3>2
  <2> QED  BY <2>1, <2>3
<1>2. \A r \in Stmt : Untouched(r) /\ r # s => Untouched(r)'
  BY <1>1 DEF Untouched
<1>3. ASSUME NEW c \in Clients, Unsent(c)' PROVE Untouched(cl[c].s)'
  <2>1. Untouched(cl[c].s) /\ cl'[c].s = cl[c].s /\ cl[c].s # s  BY <1>3 DEF OnceInv
  <2>2. PICK r \in Stmt : r = cl[c].s
    <3>1. cl[c].s \in 0 .. MaxStmts  BY ClientFields DEF OnceInv, HoldInv, TypeOK
    <3>2. cl[c].s # 0  BY <1>3 DEF Unsent
    <3> QED  BY <3>1, <3>2, PoolConstants DEF Stmt
  <2>3. Untouched(r)'  BY <1>2, <2>1, <2>2
  <2> QED  BY <2>1, <2>2, <2>3 DEF Untouched, Late
<1>4. \A r \in Stmt : r > nStmts' => Untouched(r)'
  BY <1>0, <1>2 DEF OnceInv
<1>5. \A j \in ConnId, r \in Stmt : Late(j, r)' => execs'[r] = 0
  BY <1>1 DEF OnceInv
<1>6. \A i, j \in ConnId, r \in Stmt : Late(i, r)' /\ Late(j, r)' => i = j
  BY <1>1 DEF OnceInv
<1>7. ExecutedOnce'  BY <1>1 DEF OnceInv, ExecutedOnce
<1> QED  BY <1>3, <1>4, <1>5, <1>6, <1>7 DEF OnceInv

\* Connection k may yet execute s, which nobody will send again.
LEMMA OnceLate ==
  ASSUME OnceInv, HoldInv', NEW k \in ConnId, NEW s \in Stmt, CasAt(k),
         cas'[k].late.s = s, Untouched(s), s <= nStmts, UNCHANGED <<execs, nStmts>>,
         \A c \in Clients : ErrOK(c)',
         \A c \in Clients : Unsent(c)' =>
            Unsent(c) /\ cl'[c].s = cl[c].s /\ cl[c].s # s
  PROVE  OnceInv'
<1>0. nStmts \in Nat /\ Stmt \subseteq Nat
  BY PoolConstants DEF OnceInv, HoldInv, TypeOK, Stmt
<1>1. ASSUME NEW j \in ConnId, NEW r \in Stmt, Late(j, r)'
      PROVE  (r = s /\ j = k) \/ (Late(j, r) /\ r # s)
  <2>1. CASE j = k
    BY <1>1, <2>1 DEF Late
  <2>2. CASE j # k
    BY <1>1, <2>2 DEF Late, CasAt, Untouched
  <2> QED  BY <2>1, <2>2
<1>2. \A r \in Stmt : Untouched(r) /\ r # s => Untouched(r)'
  BY <1>1 DEF Untouched
<1>3. ASSUME NEW c \in Clients, Unsent(c)' PROVE Untouched(cl[c].s)'
  <2>1. Untouched(cl[c].s) /\ cl'[c].s = cl[c].s /\ cl[c].s # s  BY <1>3 DEF OnceInv
  <2>2. PICK r \in Stmt : r = cl[c].s
    <3>1. cl[c].s \in 0 .. MaxStmts  BY ClientFields DEF OnceInv, HoldInv, TypeOK
    <3>2. cl[c].s # 0  BY <1>3 DEF Unsent
    <3> QED  BY <3>1, <3>2, PoolConstants DEF Stmt
  <2>3. Untouched(r)'  BY <1>2, <2>1, <2>2
  <2> QED  BY <2>1, <2>2, <2>3 DEF Untouched, Late
<1>4. \A r \in Stmt : r > nStmts' => Untouched(r)'
  BY <1>0, <1>2 DEF OnceInv
<1>5. \A j \in ConnId, r \in Stmt : Late(j, r)' => execs'[r] = 0
  BY <1>1 DEF OnceInv, Untouched
<1>6. \A i, j \in ConnId, r \in Stmt : Late(i, r)' /\ Late(j, r)' => i = j
  BY <1>1 DEF OnceInv
<1>7. ExecutedOnce'  BY DEF OnceInv, ExecutedOnce
<1> QED  BY <1>3, <1>4, <1>5, <1>6, <1>7 DEF OnceInv

LEMMA HeldStepOnce ==
  ASSUME OnceInv, NEW c, NEW k, On(c, k), HeldStep(c)
  PROVE  OnceInv'
<1>0. /\ HoldInv /\ c \in Clients /\ k \in ConnId /\ k = cl[c].k /\ nStmts \in Nat
      /\ ErrOK(c) /\ TypeOK
  BY OnFacts DEF OnceInv
<1>1. HoldInv'  BY HeldStepHolds
<1>2. UNCHANGED cas => CasAt(k) /\ cas'[k].late = cas[k].late  BY <1>0, NothingAt
<1>3. ASSUME NEW pc, NEW err, Goes(c, pc, err), ErrSound(c, pc, err), UNCHANGED execs,
             CasAt(k), cas'[k].late = cas[k].late \/ cas'[k].late.kind # "exec"
      PROVE  OnceInv'
  <2>1. /\ \A d \in Clients : ErrOK(d)'
        /\ \A d \in Clients : Unsent(d)' => Unsent(d) /\ cl'[d].s = cl[d].s
    BY <1>0, <1>1, <1>3, OnceGoes
  <2>2. nStmts <= nStmts'  BY <1>0, <1>3 DEF Goes
  <2>3. \A j \in ConnId, s \in Stmt : Late(j, s)' => Late(j, s)
    BY <1>0, <1>3, LateOnlyAt
  <2> QED  BY <1>1, <1>3, <2>1, <2>2, <2>3, OnceKept
<1>4. \A res : TxGoes(c, res) => Goes(c, "release", cl[c].err) /\ cl[c].tx # 0
  BY DEF TxGoes
<1>5. \A res : TxGoes(c, res) => ErrSound(c, "release", cl[c].err)
  BY <1>4 DEF ErrSound
<1>6. Leveled(k) => CasAt(k) /\ cas'[k].late = cas[k].late  BY DEF Leveled
<1>7. \A s : Orphans(k, s) => CasAt(k) /\ cas'[k].late = cas[k].late  BY DEF Orphans
<1>20. CASE PrepareOK(c)
  <2>1. ErrSound(c, "execute", cl[c].err)
    BY <1>0, <1>20, PrepareOKDoes DEF ErrSound, ErrOK
  <2> QED  BY <1>3, <1>20, <2>1, PrepareOKDoes
<1>21. CASE PrepareError(c)
  <2>1. ErrSound(c, IF cl[c].tx = 0 THEN "release" ELSE "intx", "server")
    BY DEF ErrSound
  <2> QED  BY <1>2, <1>3, <1>21, <2>1, PrepareErrorDoes
<1>22. CASE PrepareFails(c)
  <2>1. ErrSound(c, IF cl[c].tx = 0 THEN "release" ELSE "intx", "net")
    BY DEF ErrSound
  <2> QED  BY <1>2, <1>3, <1>22, <2>1, PrepareFailsDoes
<1>23. CASE PrepareBadConn(c)
  <2>1. ErrSound(c, IF cl[c].tx = 0 THEN "release" ELSE "intx", "driver.ErrBadConn")
    BY <1>23, PrepareBadConnDoes DEF ErrSound
  <2> QED  BY <1>2, <1>3, <1>23, <2>1, PrepareBadConnDoes
<1>24. ASSUME NEW pc, NEW err, cl[c].pc = "execute", pc \in {"rows", "close"},
              Goes(c, pc, err), pc = "rows" => err = "nil", err # "driver.ErrBadConn"
       PROVE  /\ Untouched(cl[c].s) /\ cl[c].s \in Stmt /\ cl[c].s <= nStmts
              /\ \A d \in Clients : ErrOK(d)'
              /\ \A d \in Clients : Unsent(d)' =>
                   Unsent(d) /\ cl'[d].s = cl[d].s /\ cl[d].s # cl[c].s
              /\ UNCHANGED nStmts
  <2>1. cl[c].s \in Stmt /\ cl[c].s \in 1 .. nStmts
    BY <1>0, <1>24, WorkingStmt DEF Working
  <2>2. Unsent(c) /\ cl[c].s <= nStmts  BY <1>0, <1>24, <2>1 DEF Unsent
  <2>3. Untouched(cl[c].s)  BY <1>0, <2>2 DEF OnceInv
  <2>4. ErrSound(c, pc, err)  BY <1>24 DEF ErrSound
  <2>5. /\ \A d \in Clients : ErrOK(d)'
        /\ \A d \in Clients : Unsent(d)' => Unsent(d) /\ cl'[d].s = cl[d].s
    BY <1>0, <1>1, <1>24, <2>4, OnceGoes
  <2>6. ~Unsent(c)'  BY <1>24 DEF Goes, Moved, Unsent
  <2>7. ASSUME NEW d \in Clients, d # c, Unsent(d) PROVE cl[d].s # cl[c].s
    BY <1>0, <2>7 DEF HoldInv, Apart, Unsent
  <2> QED  BY <1>24, <2>1, <2>2, <2>3, <2>5, <2>6, <2>7 DEF Goes
<1>25. ASSUME NEW pc, NEW err, cl[c].pc = "execute", pc \in {"rows", "close"},
              Goes(c, pc, err), pc = "rows" => err = "nil", err # "driver.ErrBadConn",
              Ran(k, cl[c].s, nc[k].autoCommit)
       PROVE  OnceInv'
  <2>1. PICK s : s = cl[c].s  OBVIOUS
  <2>2. /\ Untouched(s) /\ s \in Stmt /\ s <= nStmts
        /\ \A d \in Clients : ErrOK(d)'
        /\ \A d \in Clients : Unsent(d)' => Unsent(d) /\ cl'[d].s = cl[d].s /\ cl[d].s # s
        /\ UNCHANGED nStmts
    BY <1>24, <1>25, <2>1
  <2>3. execs[s] = 0 /\ \A j \in ConnId : Late(j, s) => j = k  BY <2>2 DEF Untouched
  <2>4. PICK ac : ac = nc[k].autoCommit  OBVIOUS
  <2>5. Ran(k, s, ac)  BY <1>25, <2>1, <2>4
  <2> QED  BY <1>0, <1>1, <2>2, <2>3, <2>5, OnceRan
<1>26. CASE ExecuteOK(c)
  <2>1. cl[c].pc = "execute" /\ cl[c].err = "nil"
    BY <1>0, <1>26, ExecuteOKDoes DEF ErrOK
  <2>2. PICK pc : pc = IF cl[c].query THEN "rows" ELSE "close"  OBVIOUS
  <2>3. Goes(c, pc, "nil") /\ Ran(k, cl[c].s, nc[k].autoCommit) /\ pc \in {"rows", "close"}
    BY <1>26, <2>1, <2>2, ExecuteOKDoes
  <2> QED  BY <1>25, <2>1, <2>3
<1>27. CASE ExecuteError(c)
  <2>1. ErrSound(c, "close", "server")  BY DEF ErrSound
  <2> QED  BY <1>3, <1>27, <2>1, ExecuteErrorDoes
<1>28. CASE ExecuteFails(c)
  <2>1. cl[c].pc = "execute" /\ Goes(c, "close", "net")  BY <1>28, ExecuteFailsDoes
  <2>2. CASE UNCHANGED <<cas, execs, committed>>
    <3>1. ErrSound(c, "close", "net")  BY DEF ErrSound
    <3> QED  BY <1>2, <1>3, <2>1, <2>2, <3>1
  <2>3. CASE Ran(k, cl[c].s, nc[k].autoCommit)
    BY <1>25, <2>1, <2>3
  <2>4. CASE /\ CasAt(k) /\ cas'[k].late = [kind |-> "exec", s |-> cl[c].s,
                                            ac |-> nc[k].autoCommit]
             /\ UNCHANGED <<execs, committed>>
    <3>1. PICK s : s = cl[c].s  OBVIOUS
    <3>2. /\ Untouched(s) /\ s \in Stmt /\ s <= nStmts
          /\ \A d \in Clients : ErrOK(d)'
          /\ \A d \in Clients : Unsent(d)' => Unsent(d) /\ cl'[d].s = cl[d].s /\ cl[d].s # s
          /\ UNCHANGED nStmts
      BY <1>24, <2>1, <3>1
    <3>3. cas'[k].late.s = s  BY <2>4, <3>1
    <3> QED  BY <1>0, <1>1, <2>4, <3>2, <3>3, OnceLate
  <2> QED  BY <1>28, <2>2, <2>3, <2>4, ExecuteFailsDoes
<1>29. CASE FetchFails(c)
  <2>1. ErrSound(c, "close", cl[c].err)
    BY <1>0, <1>29, FetchFailsDoes DEF ErrSound, ErrOK
  <2> QED  BY <1>2, <1>3, <1>29, <2>1, FetchFailsDoes
<1>30. CASE RowsClose(c)
  <2>1. ErrSound(c, "close", cl[c].err)
    BY <1>0, <1>30, RowsCloseDoes DEF ErrSound, ErrOK
  <2> QED  BY <1>2, <1>3, <1>30, <2>1, RowsCloseDoes
<1>31. cl[c].pc = "close" =>
         ErrSound(c, IF cl[c].tx = 0 THEN "release" ELSE "intx", cl[c].err)
  BY <1>0 DEF ErrSound, ErrOK
<1>32. CASE CloseOK(c)
  BY <1>3, <1>31, <1>32, CloseOKDoes
<1>33. CASE CloseFails(c)
  BY <1>2, <1>3, <1>31, <1>33, CloseFailsDoes
<1>34. CASE BeginTx(c)
  <2>1. ErrSound(c, "intx", cl[c].err)  BY DEF ErrSound
  <2> QED  BY <1>3, <1>6, <1>34, <2>1, BeginTxDoes
<1>35. CASE BeginTxError(c)
  <2>1. ErrSound(c, "release", "server")  BY DEF ErrSound
  <2> QED  BY <1>3, <1>6, <1>35, <2>1, BeginTxErrorDoes
<1>36. CASE BeginTxFails(c)
  <2>1. ErrSound(c, "release", "net")  BY DEF ErrSound
  <2> QED  BY <1>3, <1>6, <1>36, <2>1, BeginTxFailsDoes
<1>37. \A kind : EndedCas(k, kind) => CasAt(k) /\ cas'[k].late.kind # "exec"
  BY FreshFacts DEF EndedCas
<1>38. ASSUME NEW kind \in {"commit", "rollback"}, EndTran(c, kind) PROVE OnceInv'
  BY <1>3, <1>4, <1>5, <1>37, <1>38, EndTranDoes
<1>39. ASSUME NEW kind \in {"commit", "rollback"}, EndTranError(c, kind) PROVE OnceInv'
  <2>1. CasAt(k) /\ (cas'[k].late = cas[k].late \/ cas'[k].late.kind # "exec")
    BY <1>2, <1>37, <1>39, EndTranErrorDoes
  <2> QED  BY <1>3, <1>4, <1>5, <1>39, <2>1, EndTranErrorDoes
<1>40. ASSUME NEW kind \in {"commit", "rollback"}, EndTranFails(c, kind) PROVE OnceInv'
  <2>1. CasAt(k) /\ (cas'[k].late = cas[k].late \/ cas'[k].late.kind # "exec")
    <3>1. CASE UNCHANGED <<cas, committed>>
      BY <1>2, <3>1
    <3>2. CASE EndedCas(k, kind)
      BY <1>37, <3>2
    <3>3. CASE CasAt(k) /\ cas'[k].late = [kind |-> kind, s |-> 0, ac |-> FALSE]
      <4>1. cas'[k].late.kind = kind  BY <3>3
      <4> QED  BY <3>3, <4>1
    <3> QED  BY <1>40, <3>1, <3>2, <3>3, EndTranFailsDoes
  <2> QED  BY <1>3, <1>4, <1>5, <1>40, <2>1, EndTranFailsDoes
<1>41. ASSUME NEW kind \in {"commit", "rollback"}, EndTranBadConn(c, kind) PROVE OnceInv'
  BY <1>2, <1>3, <1>4, <1>5, <1>41, EndTranBadConnDoes
<1>42. CASE Abandon(c)
  BY <1>2, <1>3, <1>4, <1>5, <1>42, AbandonDoes
<1>43. CASE PrepareUnparsable(c)
  <2>1. ErrSound(c, IF cl[c].tx = 0 THEN "release" ELSE "intx", "server")
    BY DEF ErrSound
  <2> QED  BY <1>3, <1>7, <1>43, <2>1, PrepareUnparsableDoes
<1>44. CASE ExecuteUnparsable(c)
  BY <1>25, <1>44, ExecuteUnparsableDoes
<1>45. CASE CloseError(c)
  BY <1>3, <1>7, <1>31, <1>45, CloseErrorDoes
<1> QED
  BY <1>20, <1>21, <1>22, <1>23, <1>26, <1>27, <1>28, <1>29, <1>30, <1>32, <1>33,
     <1>34, <1>35, <1>36, <1>38, <1>39, <1>40, <1>41, <1>42, <1>43, <1>44, <1>45
     DEF HeldStep

LEMMA OnceInvInit == Init => OnceInv
<1> SUFFICES ASSUME Init PROVE OnceInv
  OBVIOUS
<1>1. HoldInv  BY HoldInvInit
<1>2. \A c \in Clients : cl[c].pc = "idle" /\ cl[c].err = "nil" /\ cl[c].s = 0
  BY DEF Init, IdleClient
<1>3. \A k \in ConnId, s \in Stmt : ~Late(k, s)
  <2>1. \A k \in ConnId : cas[k] = FreshCas  BY DEF Init
  <2>2. FreshCas.late.kind = "none"  BY FreshFacts
  <2> QED  BY <2>1, <2>2 DEF Late
<1>4. \A s \in Stmt : execs[s] = 0  BY DEF Init
<1>5. \A s \in Stmt : Untouched(s)  BY <1>3, <1>4 DEF Untouched
<1>6. ExecutedOnce  BY <1>4 DEF ExecutedOnce
<1>7. \A c \in Clients : ErrOK(c) /\ ~Unsent(c)  BY <1>2 DEF ErrOK, Unsent
<1> QED  BY <1>1, <1>3, <1>4, <1>5, <1>6, <1>7 DEF OnceInv

LEMMA OnceInvNext == OnceInv /\ [Next]_vars => OnceInv'
<1> SUFFICES ASSUME OnceInv, [Next]_vars PROVE OnceInv'
  OBVIOUS
<1>0. HoldInv /\ TypeOK /\ nStmts \in Nat
  BY PoolConstants DEF OnceInv, HoldInv, TypeOK
<1>1. HoldInv'  BY <1>0, HoldInvNext
<1>2. ASSUME NEW c \in Clients, HeldStep(c) PROVE OnceInv'
  BY <1>0, <1>2, HeldStepOn, HeldStepOnce
<1>3. ASSUME NEW c \in Clients, Turned(c), ErrOK(c)', UNCHANGED <<execs>>,
             nStmts <= nStmts', \A k \in ConnId, s \in Stmt : Late(k, s)' => Late(k, s),
             Unsent(c)' => (Unsent(c) /\ cl'[c].s = cl[c].s) \/ cl'[c].s > nStmts
      PROVE  OnceInv'
  <2>1. ASSUME NEW d \in Clients, d # c
        PROVE  ErrOK(d)' /\ (Unsent(d)' => Unsent(d) /\ cl'[d].s = cl[d].s)
    <3>1. cl'[d] = cl[d]  BY <1>3, <2>1 DEF Turned
    <3> QED  BY <3>1 DEF OnceInv, ErrOK, Unsent
  <2>2. \A d \in Clients : ErrOK(d)'  BY <1>3, <2>1
  <2>3. \A d \in Clients : Unsent(d)' =>
          (Unsent(d) /\ cl'[d].s = cl[d].s) \/ cl'[d].s > nStmts
    BY <1>3, <2>1
  <2> QED  BY <1>1, <1>3, <2>2, <2>3, OnceKept
<1>4. UNCHANGED cas => \A k \in ConnId, s \in Stmt : Late(k, s)' => Late(k, s)
  BY DEF Late
<1>5. ASSUME NEW c \in Clients, StartStmt(c) PROVE OnceInv'
  <2>1. /\ nStmts' = nStmts + 1 /\ Turned(c) /\ cl'[c].s = nStmts' /\ cl'[c].err = "nil"
        /\ cl'[c].pc \in {"acquire", "prepare"} /\ UNCHANGED <<cas, execs>>
    BY <1>0, <1>5, StartStmtDoes
  <2>2. nStmts <= nStmts' /\ cl'[c].s > nStmts  BY <1>0, <2>1
  <2>3. ErrOK(c)'  BY <2>1 DEF ErrOK
  <2> QED  BY <1>3, <1>4, <2>1, <2>2, <2>3
<1>6. ASSUME NEW c \in Clients, NEW lv \in Levels, StartTx(c, lv) PROVE OnceInv'
  <2>1. /\ Turned(c) /\ cl[c].pc = "idle" /\ cl'[c].s = 0 /\ cl'[c].err = cl[c].err
        /\ cl'[c].pc = "acquire" /\ UNCHANGED <<cas, execs, nStmts>>
    BY <1>0, <1>6, StartTxDoes
  <2>2. nStmts <= nStmts' /\ ~Unsent(c)'  BY <1>0, <2>1 DEF Unsent
  <2>3. ErrOK(c)'  BY <2>1 DEF ErrOK, OnceInv
  <2> QED  BY <1>3, <1>4, <2>1, <2>2, <2>3
<1>7. ASSUME NEW c \in Clients, NEW k \in ConnId, cl[c].pc = "acquire",
             HandedOut(c, k), UNCHANGED <<nStmts, execs>>,
             \A j \in ConnId, s \in Stmt : Late(j, s)' => Late(j, s)
      PROVE  OnceInv'
  <2>1. Turned(c) /\ cl'[c].err = cl[c].err /\ cl'[c].s = cl[c].s
        /\ cl'[c].pc \in {"prepare", "begin"}
    BY <1>7 DEF HandedOut
  <2>2. nStmts <= nStmts'  BY <1>0, <1>7
  <2>3. ErrOK(c)'  BY <1>7, <2>1 DEF ErrOK, OnceInv
  <2>4. Unsent(c)' => Unsent(c)  BY <1>7, <2>1 DEF Unsent
  <2> QED  BY <1>3, <1>7, <2>1, <2>2, <2>3, <2>4
<1>8. ASSUME NEW c \in Clients, NEW k \in ConnId, Dial(c, k) PROVE OnceInv'
  BY <1>0, <1>4, <1>7, <1>8, DialDoes
<1>9. ASSUME NEW c \in Clients, NEW k \in ConnId, ResetSession(c, k) PROVE OnceInv'
  <2>1. \A j \in ConnId, s \in Stmt : Late(j, s)' => Late(j, s)
    <3>1. CASE UNCHANGED cas
      BY <1>4, <3>1
    <3>2. CASE EndedCas(k, "rollback")
      BY <3>2, LateOnlyAt, FreshFacts DEF EndedCas
    <3> QED  BY <1>0, <1>9, <3>1, <3>2, ResetSessionDoes
  <2> QED  BY <1>0, <1>7, <1>9, <2>1, ResetSessionDoes
<1>10. ASSUME UNCHANGED <<cl, nStmts, execs>>,
              \A k \in ConnId, s \in Stmt : Late(k, s)' => Late(k, s)
       PROVE  OnceInv'
  <2>1. nStmts <= nStmts'  BY <1>0, <1>10
  <2>2. \A c \in Clients : ErrOK(c)' /\ (Unsent(c)' => Unsent(c))
    BY <1>10 DEF OnceInv, ErrOK, Unsent
  <2> QED  BY <1>1, <1>10, <2>1, <2>2, OnceKept
<1>11. ASSUME NEW c \in Clients, NEW k \in ConnId, ResetSessionBad(c, k) PROVE OnceInv'
  BY <1>0, <1>4, <1>10, <1>11, ResetSessionBadDoes
<1>12. ASSUME NEW c \in Clients, Release(c) PROVE OnceInv'
  <2>1. PICK k \in ConnId : On(c, k)  BY <1>0, <1>12, HeldConn DEF On, Release, Holds
  <2>2. /\ cl[c].pc = "release" /\ Turned(c) /\ cl'[c].err = "nil"
        /\ \/ /\ cl[c].err = "driver.ErrBadConn" /\ cl[c].tx = 0
              /\ cl'[c].pc = "acquire" /\ cl'[c].s = cl[c].s
           \/ cl'[c].pc = "idle"
        /\ UNCHANGED <<cas, nStmts, execs>>
    BY <1>12, <2>1, ReleaseDoes
  <2>3. ErrOK(c)'  BY <2>2 DEF ErrOK
  <2>4. Unsent(c)' => Unsent(c) /\ cl'[c].s = cl[c].s  BY <2>2 DEF Unsent
  <2>5. nStmts <= nStmts'  BY <1>0, <2>2
  <2> QED  BY <1>3, <1>4, <2>2, <2>3, <2>4, <2>5
<1>13. ASSUME NEW k \in ConnId, CasLate(k) PROVE OnceInv'
  <2>1. UNCHANGED <<cl, nStmts>>  BY <1>0, <1>13, CasLateDoes
  <2>2. CASE cas[k].late.kind = "exec"
    <3>1. PICK s \in Stmt : s = cas[k].late.s  BY <1>0, <1>13, <2>2, CasLateDoes
    <3>2. PICK ac : ac = cas[k].late.ac  OBVIOUS
    <3>3. Ran(k, s, ac)  BY <1>0, <1>13, <2>2, <3>1, <3>2, CasLateDoes
    <3>4. Late(k, s)  BY <2>2, <3>1 DEF Late
    <3>5. execs[s] = 0 /\ \A j \in ConnId : Late(j, s) => j = k  BY <3>4 DEF OnceInv
    <3>6. s <= nStmts
      <4>1. ~(s > nStmts)  BY <3>4 DEF OnceInv, Untouched
      <4> QED  BY <1>0, <4>1, PoolConstants DEF Stmt
    <3>7. ASSUME NEW c \in Clients
          PROVE  ErrOK(c)' /\ (Unsent(c)' => Unsent(c) /\ cl'[c].s = cl[c].s /\ cl[c].s # s)
      BY <2>1, <3>4 DEF OnceInv, ErrOK, Unsent, Untouched
    <3> QED  BY <1>1, <2>1, <3>3, <3>5, <3>6, <3>7, OnceRan
  <2>3. CASE cas[k].late.kind # "exec"
    <3>1. UNCHANGED execs /\ CasAt(k) /\ cas'[k].late = NoLate
      BY <1>0, <1>13, <2>3, CasLateDoes DEF EndedCas
    <3>2. \A j \in ConnId, s \in Stmt : Late(j, s)' => Late(j, s)
      BY <3>1, LateOnlyAt, FreshFacts
    <3> QED  BY <1>10, <2>1, <3>1, <3>2
  <2> QED  BY <2>2, <2>3
<1>14. ASSUME NEW k \in ConnId, CasHangup(k) PROVE OnceInv'
  <2>1. \A j \in ConnId, s \in Stmt : Late(j, s)' => Late(j, s)
    BY <1>0, <1>14, CasHangupDoes, LateOnlyAt, FreshFacts
  <2> QED  BY <1>0, <1>10, <1>14, <2>1, CasHangupDoes
<1>15. CASE UNCHANGED vars
  BY <1>4, <1>10, <1>15 DEF vars
<1> QED
  BY <1>2, <1>5, <1>6, <1>8, <1>9, <1>11, <1>12, <1>13, <1>14, <1>15 DEF Next, HeldStep

\* No statement is executed twice, although database/sql re-runs an operation
\* that failed with driver.ErrBadConn and a CAS may carry out a request whose
\* caller is gone: mapErr gives ErrBadConn only to what was never sent.
THEOREM NeverTwice == Spec => []ExecutedOnce
<1>1. OnceInv => ExecutedOnce  BY DEF OnceInv
<1> QED  BY <1>1, OnceInvInit, OnceInvNext, PTL DEF Spec

-----------------------------------------------------------------------------
(* TxInv is inductive: what a step leaves alone *)

Durable == {"committed", "commit failed"} \union Rejected

\* What is past does not change: whose a statement is, how a transaction ended.
Persists ==
  /\ nStmts <= nStmts' /\ nTx <= nTx'
  /\ \A s \in Stmt : s <= nStmts => txOf'[s] = txOf[s]
  /\ \A t \in Tx : txRes[t] # "none" => txRes'[t] = txRes[t]
  /\ committed \subseteq committed'

LEMMA TxFacts ==
  ASSUME TypeOK
  PROVE  /\ \A s \in Stmt : txOf[s] \in 0 .. MaxTx /\ (txOf[s] # 0 => txOf[s] \in Tx)
         /\ \A k \in ConnId : cas[k].pending \subseteq Stmt
         /\ nStmts \in Nat /\ nTx \in Nat /\ Stmt \subseteq Nat /\ Tx \subseteq Nat
         /\ committed \subseteq Stmt
<1>1. \A s \in Stmt : txOf[s] \in 0 .. MaxTx  BY DEF TypeOK
<1>2. \A s \in Stmt : txOf[s] # 0 => txOf[s] \in Tx  BY <1>1, PoolConstants DEF Tx
<1>3. \A k \in ConnId : cas[k].pending \subseteq Stmt  BY DEF TypeOK, CasType
<1> QED  BY <1>1, <1>2, <1>3, PoolConstants DEF TypeOK, Stmt, Tx

LEMMA EndedPersists ==
  ASSUME TypeOK, Persists, NEW s \in Stmt, s <= nStmts, NEW res, "none" \notin res,
         Ended(s, res)
  PROVE  Ended(s, res)'
<1>1. txOf[s] \in Tx /\ txRes[txOf[s]] \in res  BY TxFacts DEF Ended
<1>2. txOf'[s] = txOf[s] /\ txRes'[txOf[s]] = txRes[txOf[s]]  BY <1>1 DEF Persists
<1> QED  BY <1>1, <1>2 DEF Ended

LEMMA NoneIsNoResult ==
  /\ "none" \notin Rejected /\ "none" \notin Rejected \union {"commit failed"}
  /\ "none" \notin Durable
  BY DEF Rejected, Durable

\* What is pending stays as it was.
LEMMA PendingPersists ==
  ASSUME TxInv, Persists, NEW k \in ConnId, NEW s \in cas[k].pending
  PROVE  /\ s \in Stmt /\ s <= nStmts /\ txOf'[s] = txOf[s]
         /\ Ended(s, Rejected) => Ended(s, Rejected)'
         /\ Ended(s, Rejected \union {"commit failed"}) =>
              Ended(s, Rejected \union {"commit failed"})'
<1>1. TypeOK  BY DEF TxInv, OnceInv, HoldInv
<1>2. s \in Stmt /\ s <= nStmts  BY <1>1, TxFacts DEF TxInv, UnstartedOK
<1> QED  BY <1>1, <1>2, EndedPersists, NoneIsNoResult DEF Persists

\* A client the step is not about.
LEMMA ClientKept ==
  ASSUME TxInv, Persists, NEW d \in Clients, cl'[d] = cl[d],
         Holds(d) => /\ nc'[cl[d].k] = nc[cl[d].k]
                     /\ Valid(cl[d].k) => cas'[cl[d].k] = cas[cl[d].k],
         cl[d].tx # 0 =>
           /\ txRes'[cl[d].tx] = txRes[cl[d].tx]
           /\ \A s \in Stmt : txOf'[s] = cl[d].tx =>
                txOf[s] = cl[d].tx /\ (stmtRes'[s] = "nil" => stmtRes[s] = "nil")
  PROVE  ConnOK(d)' /\ TxOK(d)' /\ OneShotOK(d)'
<1>0. ConnOK(d) /\ TxOK(d) /\ OneShotOK(d) /\ HoldInv /\ cl[d].pc \in PC
  BY ClientFields DEF TxInv, OnceInv, HoldInv, TypeOK
<1>1. InTx(d)' <=> InTx(d)  BY DEF InTx
<1>2. InTx(d) => Holds(d)  BY DEF InTx, Holds, Working
<1>3. ConnOK(d)'
  <2>1. CASE Holds(d)
    BY <1>0, <1>1, <2>1 DEF ConnOK, Valid, Loose
  <2>2. CASE ~Holds(d)
    BY <1>1, <1>2, <2>2 DEF ConnOK, Holds
  <2> QED  BY <2>1, <2>2
<1>4. TxOK(d)'
  <2>1. (cl[d].tx # 0 /\ cl[d].pc \in {"acquire", "begin"}) =>
           \A s \in Stmt : txOf'[s] # cl[d].tx
    BY <1>0 DEF TxOK
  <2>2. (cl[d].tx # 0 /\ cl[d].pc # "release") => txRes'[cl[d].tx] = "none"
    BY <1>0 DEF TxOK
  <2>3. ASSUME InTx(d), Valid(cl[d].k)
        PROVE  /\ \A s \in cas[cl[d].k].pending : txOf'[s] = cl[d].tx \/ Ended(s, Rejected)'
               /\ \A s \in Stmt : (txOf'[s] = cl[d].tx /\ stmtRes'[s] = "nil") =>
                    s \in cas[cl[d].k].pending
    <3>1. cl[d].k \in ConnId /\ cl[d].tx # 0  BY <1>0, <1>2, <2>3, HeldConn DEF InTx
    <3>2. \A s \in cas[cl[d].k].pending : txOf'[s] = cl[d].tx \/ Ended(s, Rejected)'
      <4> SUFFICES ASSUME NEW s \in cas[cl[d].k].pending
                   PROVE  txOf'[s] = cl[d].tx \/ Ended(s, Rejected)'
        OBVIOUS
      <4>1. txOf[s] = cl[d].tx \/ Ended(s, Rejected)  BY <1>0, <2>3 DEF TxOK
      <4> QED  BY <3>1, <4>1, PendingPersists
    <3>3. \A s \in Stmt : (txOf'[s] = cl[d].tx /\ stmtRes'[s] = "nil") =>
             s \in cas[cl[d].k].pending
      BY <1>0, <2>3, <3>1 DEF TxOK
    <3> QED  BY <3>2, <3>3
  <2>4. InTx(d) => /\ nc'[cl[d].k] = nc[cl[d].k]
                   /\ Valid(cl[d].k) => cas'[cl[d].k] = cas[cl[d].k]
    BY <1>2
  <2> QED  BY <1>1, <2>1, <2>2, <2>3, <2>4 DEF TxOK, Valid
<1>5. OneShotOK(d)'  BY <1>0 DEF OneShotOK, Persists
<1> QED  BY <1>3, <1>4, <1>5

\* A connection the step is not about.
LEMMA ConnKept ==
  ASSUME TxInv, Persists, NEW j \in ConnId, nc'[j] = nc[j], cas'[j] = cas[j],
         pool'[j] = pool[j] \/ pool'[j] \notin {"undialled", "free"}
  PROVE  PoolOK(j)' /\ PendingOK(j)'
<1>0. PoolOK(j) /\ PendingOK(j) /\ LateOK(j) /\ TypeOK
  BY DEF TxInv, OnceInv, HoldInv
<1>1. PoolOK(j)'  BY <1>0 DEF PoolOK, Valid, Loose
<1>2. (~nc[j].bad /\ nc[j].autoCommit) => \A s \in cas[j].pending : Ended(s, Rejected)'
  BY <1>0, PendingPersists DEF PendingOK, Valid
<1>3. ASSUME cas[j].late.kind = "exec", cas[j].late.ac
      PROVE  /\ txOf'[cas[j].late.s] = 0
             /\ \A s \in cas[j].pending : Ended(s, Rejected)'
  <2>1. cas[j].late.s \in Stmt /\ cas[j].late.s <= nStmts
    BY <1>0, <1>3, PoolConstants DEF LateOK, Stmt, TypeOK
  <2>2. txOf'[cas[j].late.s] = 0  BY <1>0, <1>3, <2>1 DEF PendingOK, Persists
  <2>3. \A s \in cas[j].pending : Ended(s, Rejected)'
    BY <1>0, <1>3, PendingPersists DEF PendingOK
  <2> QED  BY <2>2, <2>3
<1>4. cas[j].late.kind = "commit" =>
        \A s \in cas[j].pending : Ended(s, Rejected \union {"commit failed"})'
  BY <1>0, PendingPersists DEF PendingOK
<1> QED  BY <1>1, <1>2, <1>3, <1>4 DEF PendingOK, Valid

\* The properties, given that what the step newly makes durable may be durable
\* and what it newly reports is true.
LEMMA PropsKept ==
  ASSUME TxInv, Persists, TypeOK',
         \A s \in committed' : s \notin committed =>
            s <= nStmts /\ (txOf[s] = 0 \/ Ended(s, Durable)'),
         \A s \in Stmt : (txOf'[s] # 0 /\ stmtRes'[s] = "nil" /\
                           txRes'[txOf'[s]] = "committed") =>
            s \in committed' \/ (/\ txOf[s] = txOf'[s] /\ stmtRes[s] = "nil"
                                /\ txRes[txOf[s]] = "committed"),
         \A s \in Stmt : (txOf'[s] = 0 /\ stmtRes'[s] = "nil") =>
            s \in committed' \/ (txOf[s] = 0 /\ stmtRes[s] = "nil")
  PROVE  TxOutcome' /\ OnlyCommitCommits' /\ AutocommitDurable'
<1>0. /\ TypeOK /\ committed \subseteq Stmt /\ committed' \subseteq Stmt
      /\ TxOutcome /\ OnlyCommitCommits /\ AutocommitDurable
      /\ \A s \in committed : s <= nStmts
  <2>1. TypeOK /\ TxOutcome /\ OnlyCommitCommits /\ AutocommitDurable
    BY DEF TxInv, OnceInv, HoldInv
  <2>2. \A s \in committed : s <= nStmts  BY <2>1, TxFacts DEF TxInv, UnstartedOK
  <2> QED  BY <2>1, <2>2 DEF TypeOK
<1>1. ASSUME NEW s \in Stmt, txOf'[s] # 0, s \in committed' PROVE Ended(s, Durable)'
  <2>1. CASE s \in committed
    <3>1. s <= nStmts /\ txOf[s] # 0  BY <1>0, <1>1, <2>1 DEF Persists
    <3>2. Ended(s, Durable)
      BY <1>0, <2>1, <3>1 DEF OnlyCommitCommits, Ended, Durable
    <3> QED  BY <1>0, <3>1, <3>2, EndedPersists, NoneIsNoResult
  <2>2. CASE s \notin committed
    BY <1>1, <2>2 DEF Persists
  <2> QED  BY <2>1, <2>2
<1>2. OnlyCommitCommits'  BY <1>1 DEF OnlyCommitCommits, Ended, Durable
<1>3. ASSUME NEW s \in Stmt, txOf'[s] # 0
      PROVE  /\ (txRes'[txOf'[s]] = "committed" /\ stmtRes'[s] = "nil") => s \in committed'
             /\ txRes'[txOf'[s]] \in {"rolledback", "commit unsent", "rollback unsent"} =>
                  s \notin committed'
  <2>1. (txRes'[txOf'[s]] = "committed" /\ stmtRes'[s] = "nil") => s \in committed'
    BY <1>0, <1>3 DEF TxOutcome, Persists
  <2>2. txRes'[txOf'[s]] \in {"rolledback", "commit unsent", "rollback unsent"} =>
          s \notin committed'
    BY <1>1, <1>3 DEF Ended, Durable, Rejected
  <2> QED  BY <2>1, <2>2
<1>4. TxOutcome'  BY <1>3 DEF TxOutcome
<1>5. AutocommitDurable'  BY <1>0 DEF AutocommitDurable, Persists
<1> QED  BY <1>2, <1>4, <1>5

-----------------------------------------------------------------------------
(* TxInv is inductive: the steps of a client on its connection *)

\* The marks a step of c on k leaves on what others see.
Touches(c, k) ==
  /\ cl[c].pc # "release" /\ NcAt(k) /\ CasAt(k)
  /\ \A s \in Stmt : stmtRes'[s] # stmtRes[s] => s = cl[c].s /\ cl[c].tx # 0
  /\ \A t \in Tx : txRes'[t] # txRes[t] => t = cl[c].tx
  /\ committed \subseteq committed'

LEMMA TouchesPersists ==
  ASSUME TxInv, NEW c, NEW k, On(c, k), NEW pc, NEW err, Goes(c, pc, err), Touches(c, k)
  PROVE  Persists
<1>1. /\ c \in Clients /\ nStmts \in Nat /\ nTx \in Nat /\ TxOK(c)
  BY OnFacts DEF TxInv
<1>2. nStmts <= nStmts' /\ nTx <= nTx' /\ UNCHANGED txOf  BY <1>1 DEF Goes
<1>3. ASSUME NEW t \in Tx, txRes[t] # "none" PROVE txRes'[t] = txRes[t]
  <2>1. t # 0  BY PoolConstants DEF Tx
  <2> QED  BY <1>1, <1>3, <2>1 DEF Touches, TxOK
<1> QED  BY <1>2, <1>3 DEF Persists, Touches

LEMMA TxHeld ==
  ASSUME TxInv, OnceInv', NEW c, NEW k, On(c, k), NEW pc, NEW err, Goes(c, pc, err),
         Touches(c, k), ConnOK(c)', TxOK(c)', OneShotOK(c)', PendingOK(k)',
         \A s \in cas'[k].pending : s <= nStmts,
         \A s \in committed' : s \notin committed =>
            s <= nStmts /\ (txOf[s] = 0 \/ Ended(s, Durable)'),
         \A s \in Stmt : (txOf[s] = cl[c].tx /\ cl[c].tx # 0 /\ stmtRes'[s] = "nil" /\
                           txRes'[cl[c].tx] = "committed") => s \in committed'
  PROVE  TxInv'
<1>0. /\ HoldInv /\ TypeOK /\ c \in Clients /\ k \in ConnId /\ k = cl[c].k /\ Holds(c)
      /\ ClientOK(c) /\ nStmts \in Nat /\ nTx \in Nat /\ TxOK(c) /\ UnstartedOK
      /\ UNCHANGED <<pool, nStmts, nTx, txOf>> /\ cl[c].tx \in 0 .. MaxTx
  BY OnFacts DEF TxInv, Goes
<1>1. Persists  BY TouchesPersists
<1>2. TypeOK'  BY DEF OnceInv, HoldInv
<1>3. ASSUME NEW d \in Clients PROVE ConnOK(d)' /\ TxOK(d)' /\ OneShotOK(d)'
  <2>1. CASE d = c
    BY <2>1
  <2>2. CASE d # c
    <3>1. cl'[d] = cl[d]  BY <2>2 DEF Goes, Moved
    <3>2. Apart(c, d) /\ Apart(d, c)  BY <1>0, <2>2 DEF HoldInv
    <3>3. Holds(d) => nc'[cl[d].k] = nc[cl[d].k] /\ cas'[cl[d].k] = cas[cl[d].k]
      <4> SUFFICES ASSUME Holds(d)
                   PROVE  nc'[cl[d].k] = nc[cl[d].k] /\ cas'[cl[d].k] = cas[cl[d].k]
        OBVIOUS
      <4>1. cl[d].k \in ConnId  BY <1>0, HeldConn
      <4>2. cl[d].k # k  BY <1>0, <3>2 DEF Apart
      <4> QED  BY <4>1, <4>2 DEF Touches, NcAt, CasAt
    <3>4. ASSUME cl[d].tx # 0
          PROVE  /\ txRes'[cl[d].tx] = txRes[cl[d].tx]
                 /\ \A s \in Stmt : txOf'[s] = cl[d].tx =>
                      txOf[s] = cl[d].tx /\ (stmtRes'[s] = "nil" => stmtRes[s] = "nil")
      <4>1. cl[d].tx # cl[c].tx  BY <3>2, <3>4 DEF Apart
      <4>2. cl[d].tx \in Tx
        <5>1. cl[d].tx \in 0 .. MaxTx  BY <1>0, ClientFields DEF TypeOK
        <5> QED  BY <3>4, <5>1, PoolConstants DEF Tx
      <4>3. ASSUME NEW s \in Stmt, txOf[s] = cl[d].tx PROVE stmtRes'[s] = stmtRes[s]
        <5>1. SUFFICES ASSUME stmtRes'[s] # stmtRes[s] PROVE FALSE
          OBVIOUS
        <5>2. s = cl[c].s /\ s # 0  BY <5>1, PoolConstants DEF Touches, Stmt
        <5>3. txOf[s] = cl[c].tx  BY <1>0, <5>2 DEF ClientOK
        <5> QED  BY <4>1, <4>3, <5>3
      <4> QED  BY <1>0, <4>1, <4>2, <4>3 DEF Touches
    <3> QED  BY <1>1, <3>1, <3>3, <3>4, ClientKept
  <2> QED  BY <2>1, <2>2
<1>4. ASSUME NEW j \in ConnId PROVE PoolOK(j)' /\ PendingOK(j)'
  <2>1. CASE j = k
    <3>1. pool'[k] = "used"  BY <1>0, HeldConn
    <3> QED  BY <2>1, <3>1 DEF PoolOK
  <2>2. CASE j # k
    BY <1>0, <1>1, <2>2, ConnKept DEF Touches, NcAt, CasAt
  <2> QED  BY <2>1, <2>2
<1>5. \A s \in Stmt : stmtRes'[s] # stmtRes[s] => s <= nStmts /\ txOf[s] = cl[c].tx
  <2> SUFFICES ASSUME NEW s \in Stmt, stmtRes'[s] # stmtRes[s]
               PROVE  s <= nStmts /\ txOf[s] = cl[c].tx
    OBVIOUS
  <2>1. s = cl[c].s /\ s # 0  BY PoolConstants DEF Touches, Stmt
  <2> QED  BY <1>0, <2>1 DEF ClientOK
<1>6. UnstartedOK'
  <2>1. \A s \in Stmt : txOf'[s] <= nTx'  BY <1>0 DEF UnstartedOK
  <2>2. ASSUME NEW s \in Stmt, s > nStmts
        PROVE  txOf'[s] = 0 /\ stmtRes'[s] = "none" /\ s \notin committed'
    <3>1. txOf[s] = 0 /\ stmtRes[s] = "none" /\ s \notin committed /\ ~(s <= nStmts)
      BY <1>0, <2>2, TxFacts DEF UnstartedOK
    <3> QED  BY <1>0, <1>5, <3>1
  <2>3. ASSUME NEW t \in Tx, t > nTx PROVE txRes'[t] = "none"
    <3>1. t # cl[c].tx  BY <1>0, <2>3, TxFacts DEF ClientOK
    <3> QED  BY <1>0, <2>3, <3>1 DEF UnstartedOK, Touches
  <2>4. \A j \in ConnId : \A s \in cas'[j].pending : s <= nStmts
    BY <1>0 DEF UnstartedOK, Touches, CasAt
  <2> QED  BY <1>0, <2>1, <2>2, <2>3, <2>4 DEF UnstartedOK
<1>7. TxOutcome' /\ OnlyCommitCommits' /\ AutocommitDurable'
  <2>1. ASSUME NEW s \in Stmt, txOf'[s] # 0, stmtRes'[s] = "nil",
               txRes'[txOf'[s]] = "committed"
        PROVE  s \in committed' \/ (/\ txOf[s] = txOf'[s] /\ stmtRes[s] = "nil"
                                    /\ txRes[txOf[s]] = "committed")
    <3>1. txOf'[s] = txOf[s] /\ txOf[s] \in Tx  BY <1>0, <2>1, TxFacts
    <3>2. CASE txOf[s] = cl[c].tx
      BY <2>1, <3>1, <3>2
    <3>3. CASE txOf[s] # cl[c].tx
      BY <1>5, <2>1, <3>1, <3>3 DEF Touches
    <3> QED  BY <3>2, <3>3
  <2>2. ASSUME NEW s \in Stmt, txOf'[s] = 0, stmtRes'[s] = "nil"
        PROVE  txOf[s] = 0 /\ stmtRes[s] = "nil"
    <3>1. txOf[s] = 0  BY <1>0, <2>2
    <3>2. stmtRes'[s] = stmtRes[s]  BY <1>5, <3>1 DEF Touches
    <3> QED  BY <2>2, <3>1, <3>2
  <2> QED  BY <1>1, <1>2, <2>1, <2>2, PropsKept
<1> QED  BY <1>3, <1>4, <1>6, <1>7 DEF TxInv

\* A step that neither executes a statement nor ends a transaction.
LEMMA TxPlain ==
  ASSUME TxInv, OnceInv', NEW c, NEW k, On(c, k), NEW pc, NEW err, Goes(c, pc, err),
         cl[c].pc # "release", pc # "begin", NcAt(k), CasAt(k),
         nc'[k].autoCommit = nc[k].autoCommit, nc[k].bad => nc'[k].bad,
         cas'[k].late = cas[k].late, cas'[k].pending = cas[k].pending,
         UNCHANGED <<txRes, committed>>,
         UNCHANGED stmtRes \/ \E e \in Err \ {"nil"} : Recorded(c, e),
         pc \in {"intx"} \union Working => cl[c].pc \in {"intx"} \union Working,
         ConnOK(c)', OneShotOK(c)'
  PROVE  TxInv'
<1>0. /\ HoldInv /\ TypeOK /\ c \in Clients /\ k \in ConnId /\ k = cl[c].k /\ LateOK(k)
      /\ TxOK(c) /\ PendingOK(k) /\ UnstartedOK /\ nStmts \in Nat
      /\ UNCHANGED <<pool, nStmts, nTx, txOf>>
  BY OnFacts DEF TxInv, Goes
<1>1. \A s \in Stmt : /\ stmtRes'[s] # stmtRes[s] => s = cl[c].s /\ cl[c].tx # 0
                      /\ stmtRes'[s] = "nil" => stmtRes[s] = "nil"
  BY DEF Recorded
<1>2. Touches(c, k)  BY <1>1 DEF Touches
<1>3. Persists  BY <1>2, TouchesPersists
<1>4. \A s \in cas[k].pending :
        /\ s <= nStmts
        /\ Ended(s, Rejected) => Ended(s, Rejected)'
        /\ Ended(s, Rejected \union {"commit failed"}) =>
             Ended(s, Rejected \union {"commit failed"})'
  BY <1>0, <1>3, PendingPersists
<1>5. PendingOK(k)'
  <2>1. Valid(k)' => Valid(k)  BY DEF Valid
  <2> QED  BY <1>0, <1>4, <2>1 DEF PendingOK
<1>6. TxOK(c)'
  <2>1. cl'[c].pc = pc /\ cl'[c].k = k /\ cl'[c].tx = cl[c].tx
        /\ pc \notin {"idle", "acquire"}
    BY <1>0 DEF Goes, Moved
  <2>2. cl[c].tx # 0 => txRes'[cl[c].tx] = "none"  BY <1>0 DEF TxOK
  <2>3. ASSUME InTx(c)', Valid(k)'
        PROVE  /\ \A s \in cas'[k].pending : txOf'[s] = cl[c].tx \/ Ended(s, Rejected)'
               /\ \A s \in Stmt : (txOf'[s] = cl[c].tx /\ stmtRes'[s] = "nil") =>
                    s \in cas'[k].pending
    <3>1. InTx(c) /\ Valid(k)  BY <2>1, <2>3 DEF InTx, Valid
    <3> QED  BY <1>0, <1>1, <1>4, <3>1 DEF TxOK
  <2> QED  BY <2>1, <2>2, <2>3 DEF TxOK, Valid
<1>7. \A s \in Stmt : (txOf[s] = cl[c].tx /\ cl[c].tx # 0 /\ stmtRes'[s] = "nil" /\
                       txRes'[cl[c].tx] = "committed") => s \in committed'
  BY <1>0 DEF TxOK
<1> QED  BY <1>2, <1>4, <1>5, <1>6, <1>7, TxHeld

PlainStep(c) ==
  \/ PrepareOK(c) \/ PrepareError(c) \/ PrepareUnparsable(c) \/ PrepareFails(c)
  \/ PrepareBadConn(c)
  \/ FetchFails(c) \/ RowsClose(c) \/ CloseOK(c) \/ CloseError(c) \/ CloseFails(c)
  \/ BeginTxError(c) \/ BeginTxFails(c)

LEMMA PlainStepTx ==
  ASSUME TxInv, OnceInv', NEW c, NEW k, On(c, k), PlainStep(c)
  PROVE  TxInv'
<1>0. /\ TypeOK /\ c \in Clients /\ k \in ConnId /\ k = cl[c].k
      /\ ConnOK(c) /\ OneShotOK(c) /\ ClientOK(c)
      /\ nc[k].bad \in BOOLEAN /\ nc[k].autoCommit \in BOOLEAN
  BY OnFacts DEF TxInv
<1>1. (UNCHANGED nc => NcAt(k)) /\ (UNCHANGED cas => CasAt(k))  BY <1>0, NothingAt
<1>2. Poisoned(k) => NcAt(k) /\ nc'[k].autoCommit = nc[k].autoCommit /\ nc'[k].bad
  BY DEF Poisoned
<1>3. \A pc, err : Goes(c, pc, err) =>
        /\ cl'[c].pc = pc /\ cl'[c].err = err /\ cl'[c].k = k /\ cl'[c].s = cl[c].s
        /\ cl'[c].tx = cl[c].tx
  BY <1>0 DEF Goes, Moved
<1>4. {"server", "net", "driver.ErrBadConn"} \subseteq Err \ {"nil"}  BY DEF Err
<1>5. Leveled(k) => /\ CasAt(k) /\ cas'[k].late = cas[k].late
                    /\ cas'[k].pending = cas[k].pending /\ Loose(k)' = Loose(k)
  BY DEF Leveled
<1>6. UNCHANGED cas => Loose(k)' = Loose(k)  BY DEF Loose
<1>10. CASE PrepareOK(c)
  <2>1. /\ cl[c].pc = "prepare" /\ Valid(k) /\ Goes(c, "execute", cl[c].err)
        /\ CasAt(k) /\ cas'[k].late = cas[k].late /\ cas'[k].pending = cas[k].pending
        /\ Loose(k)' \subseteq Loose(k) \union {cl[c].s}
        /\ UNCHANGED <<nc, execs, stmtRes, txRes, committed>>
    BY <1>10, PrepareOKDoes
  <2>2. ConnOK(c)'
    BY <1>0, <1>3, <1>6, <2>1 DEF ConnOK, InTx, Valid, Working
  <2>3. OneShotOK(c)'  BY <1>3, <2>1 DEF OneShotOK
  <2> QED  BY <1>1, <2>1, <2>2, <2>3, TxPlain DEF Working
<1>11. CASE PrepareError(c)
  <2>1. /\ cl[c].pc = "prepare" /\ Valid(k)
        /\ Goes(c, IF cl[c].tx = 0 THEN "release" ELSE "intx", "server")
        /\ Recorded(c, "server") /\ UNCHANGED <<nc, cas, execs, txRes, committed>>
    BY <1>11, PrepareErrorDoes
  <2>2. ConnOK(c)'
    BY <1>0, <1>3, <1>6, <2>1 DEF ConnOK, InTx, Valid, Working
  <2>3. OneShotOK(c)'  BY <1>3, <2>1 DEF OneShotOK
  <2> QED  BY <1>1, <1>4, <2>1, <2>2, <2>3, TxPlain DEF Working
<1>12. CASE PrepareFails(c)
  <2>1. /\ cl[c].pc = "prepare" /\ Valid(k)
        /\ Goes(c, IF cl[c].tx = 0 THEN "release" ELSE "intx", "net")
        /\ Recorded(c, "net") /\ Poisoned(k) /\ UNCHANGED <<cas, execs, txRes, committed>>
    BY <1>12, PrepareFailsDoes
  <2>2. ConnOK(c)'
    BY <1>0, <1>2, <1>3, <2>1 DEF ConnOK, InTx, Valid, Working
  <2>3. OneShotOK(c)'  BY <1>3, <2>1 DEF OneShotOK
  <2> QED  BY <1>1, <1>2, <1>4, <2>1, <2>2, <2>3, TxPlain DEF Working
<1>13. CASE PrepareBadConn(c)
  <2>1. /\ cl[c].pc = "prepare" /\ ~Valid(k)
        /\ Goes(c, IF cl[c].tx = 0 THEN "release" ELSE "intx", "driver.ErrBadConn")
        /\ Recorded(c, "driver.ErrBadConn")
        /\ UNCHANGED <<nc, cas, execs, txRes, committed>>
    BY <1>13, PrepareBadConnDoes
  <2>2. ConnOK(c)'
    BY <1>0, <1>3, <1>6, <2>1 DEF ConnOK, InTx, Valid, Working
  <2>3. OneShotOK(c)'  BY <1>3, <2>1 DEF OneShotOK
  <2> QED  BY <1>1, <1>4, <2>1, <2>2, <2>3, TxPlain DEF Working
<1>14. CASE FetchFails(c)
  <2>1. /\ cl[c].pc = "rows" /\ Goes(c, "close", cl[c].err) /\ Poisoned(k)
        /\ UNCHANGED <<cas, execs, stmtRes, txRes, committed>>
    BY <1>14, FetchFailsDoes
  <2>2. ConnOK(c)'
    BY <1>0, <1>2, <1>3, <2>1 DEF ConnOK, InTx, Valid, Working
  <2>3. OneShotOK(c)'  BY <1>0, <1>3, <2>1 DEF OneShotOK
  <2> QED  BY <1>1, <1>2, <2>1, <2>2, <2>3, TxPlain DEF Working
<1>15. CASE RowsClose(c)
  <2>1. /\ cl[c].pc = "rows" /\ Goes(c, "close", cl[c].err)
        /\ UNCHANGED <<nc, cas, execs, stmtRes, txRes, committed>>
    BY <1>15, RowsCloseDoes
  <2>2. ConnOK(c)'
    BY <1>0, <1>3, <1>6, <2>1 DEF ConnOK, InTx, Valid, Working
  <2>3. OneShotOK(c)'  BY <1>0, <1>3, <2>1 DEF OneShotOK
  <2> QED  BY <1>1, <2>1, <2>2, <2>3, TxPlain DEF Working
<1>16. CASE CloseOK(c)
  <2>1. /\ cl[c].pc = "close" /\ Valid(k)
        /\ Goes(c, IF cl[c].tx = 0 THEN "release" ELSE "intx", cl[c].err)
        /\ CasAt(k) /\ cas'[k].late = cas[k].late /\ cas'[k].pending = cas[k].pending
        /\ Loose(k)' = Loose(k) \ {cl[c].s}
        /\ UNCHANGED <<nc, execs, stmtRes, txRes, committed>>
    BY <1>16, CloseOKDoes
  <2>2. ConnOK(c)'
    BY <1>0, <1>3, <1>6, <2>1 DEF ConnOK, InTx, Valid, Working
  <2>3. OneShotOK(c)'  BY <1>0, <1>3, <2>1 DEF OneShotOK
  <2> QED  BY <1>1, <2>1, <2>2, <2>3, TxPlain DEF Working
<1>17. CASE CloseFails(c)
  <2>1. /\ cl[c].pc = "close" /\ Poisoned(k)
        /\ Goes(c, IF cl[c].tx = 0 THEN "release" ELSE "intx", cl[c].err)
        /\ UNCHANGED <<cas, execs, stmtRes, txRes, committed>>
    BY <1>17, CloseFailsDoes
  <2>2. ConnOK(c)'
    BY <1>0, <1>2, <1>3, <2>1 DEF ConnOK, InTx, Valid, Working
  <2>3. OneShotOK(c)'  BY <1>0, <1>3, <2>1 DEF OneShotOK
  <2> QED  BY <1>1, <1>2, <2>1, <2>2, <2>3, TxPlain DEF Working
<1>18. CASE BeginTxError(c)
  <2>1. /\ cl[c].pc = "begin" /\ cl[c].tx # 0 /\ Goes(c, "release", "server")
        /\ Leveled(k) /\ UNCHANGED <<nc, execs, stmtRes, txRes, committed>>
    BY <1>18, BeginTxErrorDoes
  <2>2. ConnOK(c)'
    BY <1>0, <1>3, <1>5, <2>1 DEF ConnOK, InTx, Valid, Working
  <2>3. OneShotOK(c)'  BY <1>3, <2>1 DEF OneShotOK
  <2> QED  BY <1>1, <1>5, <2>1, <2>2, <2>3, TxPlain DEF Working
<1>19. CASE BeginTxFails(c)
  <2>1. /\ cl[c].pc = "begin" /\ cl[c].tx # 0 /\ Goes(c, "release", "net")
        /\ Poisoned(k) /\ Leveled(k) /\ UNCHANGED <<execs, stmtRes, txRes, committed>>
    BY <1>19, BeginTxFailsDoes
  <2>2. ConnOK(c)'
    BY <1>0, <1>2, <1>3, <2>1 DEF ConnOK, InTx, Valid, Working
  <2>3. OneShotOK(c)'  BY <1>3, <2>1 DEF OneShotOK
  <2> QED  BY <1>2, <1>5, <2>1, <2>2, <2>3, TxPlain DEF Working
<1>20. CASE PrepareUnparsable(c)
  <2>1. /\ cl[c].pc = "prepare" /\ Valid(k)
        /\ Goes(c, IF cl[c].tx = 0 THEN "release" ELSE "intx", "server")
        /\ Recorded(c, "server") /\ UNCHANGED <<nc, execs, txRes, committed>>
        /\ CasAt(k) /\ cas'[k].late = cas[k].late /\ cas'[k].pending = cas[k].pending
        /\ Loose(k)' \subseteq Loose(k)
    BY <1>20, PrepareUnparsableDoes DEF Orphans
  <2>2. ConnOK(c)'
    BY <1>0, <1>3, <2>1 DEF ConnOK, InTx, Valid, Working
  <2>3. OneShotOK(c)'  BY <1>3, <2>1 DEF OneShotOK
  <2> QED  BY <1>1, <1>4, <2>1, <2>2, <2>3, TxPlain DEF Working
<1>21. CASE CloseError(c)
  <2>1. /\ cl[c].pc = "close" /\ Valid(k)
        /\ Goes(c, IF cl[c].tx = 0 THEN "release" ELSE "intx", cl[c].err)
        /\ CasAt(k) /\ cas'[k].late = cas[k].late /\ cas'[k].pending = cas[k].pending
        /\ Loose(k)' \subseteq Loose(k) \ {cl[c].s}
        /\ UNCHANGED <<nc, execs, stmtRes, txRes, committed>>
    BY <1>21, CloseErrorDoes DEF Orphans
  <2>2. ConnOK(c)'
    BY <1>0, <1>3, <2>1 DEF ConnOK, InTx, Valid, Working
  <2>3. OneShotOK(c)'  BY <1>0, <1>3, <2>1 DEF OneShotOK
  <2> QED  BY <1>1, <2>1, <2>2, <2>3, TxPlain DEF Working
<1> QED
  BY <1>10, <1>11, <1>12, <1>13, <1>14, <1>15, <1>16, <1>17, <1>18, <1>19, <1>20, <1>21
     DEF PlainStep

LEMMA BeginTxTx ==
  ASSUME TxInv, OnceInv', NEW c, NEW k, On(c, k), BeginTx(c)
  PROVE  TxInv'
<1>0. /\ TypeOK /\ c \in Clients /\ k \in ConnId /\ k = cl[c].k /\ LateOK(k)
      /\ ConnOK(c) /\ ClientOK(c) /\ TxOK(c) /\ PendingOK(k) /\ nStmts \in Nat
  BY OnFacts DEF TxInv
<1>1. /\ cl[c].pc = "begin" /\ Goes(c, "intx", cl[c].err)
      /\ NcAt(k) /\ nc'[k].bad = nc[k].bad /\ nc'[k].autoCommit = FALSE
      /\ CasAt(k) /\ cas'[k].late = cas[k].late
      /\ cas'[k].pending = cas[k].pending /\ Loose(k)' = Loose(k)
      /\ UNCHANGED <<execs, stmtRes, txRes, committed>>
  BY BeginTxDoes DEF Leveled
<1>2. /\ cl'[c].pc = "intx" /\ cl'[c].k = k /\ cl'[c].tx = cl[c].tx /\ cl'[c].s = cl[c].s
      /\ UNCHANGED txOf
  BY <1>0, <1>1 DEF Goes, Moved
<1>3. Valid(k) /\ nc[k].autoCommit /\ Loose(k) = {} /\ cas[k].late.kind = "none"
  BY <1>0, <1>1, FreshFacts DEF ConnOK, LateOK, Valid
<1>4. Touches(c, k)  BY <1>1 DEF Touches
<1>5. Persists  BY <1>1, <1>4, TouchesPersists
<1>6. \A s \in cas[k].pending : s <= nStmts /\ Ended(s, Rejected)'
  BY <1>0, <1>3, <1>5, PendingPersists DEF PendingOK
<1>7. cl[c].tx # 0 /\ txRes[cl[c].tx] = "none" /\ \A s \in Stmt : txOf[s] # cl[c].tx
  BY <1>0, <1>1 DEF ClientOK, TxOK
<1>8. ConnOK(c)'  BY <1>1, <1>2, <1>3 DEF ConnOK, Working
<1>9. TxOK(c)'  BY <1>1, <1>2, <1>6, <1>7 DEF TxOK
<1>10. OneShotOK(c)'  BY <1>2 DEF OneShotOK
<1>11. PendingOK(k)'  BY <1>1, <1>3 DEF PendingOK
<1> QED  BY <1>1, <1>4, <1>6, <1>7, <1>8, <1>9, <1>10, <1>11, TxHeld

\* What c knows of its connection before it sends EXECUTE.
LEMMA Executing ==
  ASSUME TxInv, NEW c, NEW k, On(c, k), cl[c].pc = "execute"
  PROVE  /\ TypeOK /\ c \in Clients /\ k \in ConnId /\ k = cl[c].k /\ LateOK(k)
         /\ TxOK(c) /\ PendingOK(k) /\ nStmts \in Nat /\ nc[k].autoCommit \in BOOLEAN
         /\ Valid(k) /\ Loose(k) \subseteq {cl[c].s} /\ cas[k].late = NoLate
         /\ nc[k].autoCommit <=> cl[c].tx = 0
         /\ cl[c].s \in Stmt /\ cl[c].s <= nStmts /\ txOf[cl[c].s] = cl[c].tx
         /\ cl[c].tx # 0 => InTx(c) /\ txRes[cl[c].tx] = "none"
<1>1. /\ HoldInv /\ TypeOK /\ c \in Clients /\ k \in ConnId /\ k = cl[c].k /\ LateOK(k)
      /\ ConnOK(c) /\ TxOK(c) /\ PendingOK(k) /\ nStmts \in Nat
      /\ nc[k].autoCommit \in BOOLEAN /\ nc[k].bad \in BOOLEAN
  BY OnFacts DEF TxInv
<1>2. cl[c].tx # 0 => InTx(c) /\ txRes[cl[c].tx] = "none"
  BY <1>1 DEF InTx, Working, TxOK
<1>3. Valid(k) /\ Loose(k) \subseteq {cl[c].s}  BY <1>1 DEF ConnOK
<1>4. nc[k].autoCommit <=> cl[c].tx = 0  BY <1>1, <1>2 DEF ConnOK
<1>5. cas[k].late = NoLate  BY <1>1, <1>3 DEF LateOK, Valid
<1>6. cl[c].s \in Stmt /\ cl[c].s <= nStmts /\ txOf[cl[c].s] = cl[c].tx
  BY <1>1, WorkingStmt DEF Working
<1> QED  BY <1>1, <1>2, <1>3, <1>4, <1>5, <1>6

LEMMA RanTx ==
  ASSUME TxInv, OnceInv', NEW c, NEW k, On(c, k), cl[c].pc = "execute",
         NEW pc \in {"rows", "close"}, NEW err, Goes(c, pc, err),
         NcAt(k), nc'[k].autoCommit = nc[k].autoCommit, pc = "rows" => ~nc'[k].bad,
         Ran(k, cl[c].s, nc[k].autoCommit), NEW e, Recorded(c, e), UNCHANGED txRes
  PROVE  TxInv'
<1>0. /\ TypeOK /\ c \in Clients /\ k \in ConnId /\ k = cl[c].k
      /\ TxOK(c) /\ PendingOK(k) /\ nStmts \in Nat /\ nc[k].autoCommit \in BOOLEAN
      /\ Valid(k) /\ Loose(k) \subseteq {cl[c].s}
      /\ nc[k].autoCommit <=> cl[c].tx = 0
      /\ cl[c].s \in Stmt /\ cl[c].s <= nStmts /\ txOf[cl[c].s] = cl[c].tx
      /\ cl[c].tx # 0 => InTx(c) /\ txRes[cl[c].tx] = "none"
  BY Executing
<1>1. PICK s \in Stmt : s = cl[c].s  BY <1>0
<1>2. /\ CasAt(k) /\ cas'[k].late = NoLate /\ Loose(k)' = Loose(k)
      /\ cl[c].tx = 0 => cas'[k].pending = {} /\ committed' = committed \union cas[k].pending \union {s}
      /\ cl[c].tx # 0 => cas'[k].pending = cas[k].pending \union {s} /\ committed' = committed
  BY <1>0, <1>1 DEF Ran
<1>3. /\ cl'[c].pc = pc /\ cl'[c].k = k /\ cl'[c].tx = cl[c].tx /\ cl'[c].s = s
      /\ UNCHANGED txOf
  BY <1>0, <1>1 DEF Goes, Moved
<1>4. \A r \in Stmt : stmtRes'[r] # stmtRes[r] => r = s /\ cl[c].tx # 0
  BY <1>1 DEF Recorded
<1>5. Touches(c, k)  BY <1>1, <1>2, <1>4 DEF Touches
<1>6. Persists  BY <1>5, TouchesPersists
<1>7. \A r \in cas[k].pending :
        r \in Stmt /\ r <= nStmts /\ (Ended(r, Rejected) => Ended(r, Rejected)')
  BY <1>0, <1>6, PendingPersists
<1>8. ConnOK(c)'
  <2>1. (cl[c].tx # 0 => ~nc'[k].autoCommit) /\ (pc = "rows" => ~nc'[k].bad)
    BY <1>0
  <2> QED  BY <1>0, <1>1, <1>2, <1>3, <2>1 DEF ConnOK, InTx, Valid
<1>9. TxOK(c)'
  <2>1. ASSUME cl[c].tx # 0
        PROVE  /\ \A r \in cas'[k].pending : txOf'[r] = cl[c].tx \/ Ended(r, Rejected)'
               /\ \A r \in Stmt : (txOf'[r] = cl[c].tx /\ stmtRes'[r] = "nil") =>
                    r \in cas'[k].pending
    <3>1. /\ \A r \in cas[k].pending : txOf[r] = cl[c].tx \/ Ended(r, Rejected)
          /\ \A r \in Stmt : (txOf[r] = cl[c].tx /\ stmtRes[r] = "nil") =>
               r \in cas[k].pending
      BY <1>0, <2>1 DEF TxOK
    <3>2. \A r \in cas'[k].pending : txOf'[r] = cl[c].tx \/ Ended(r, Rejected)'
      BY <1>0, <1>1, <1>2, <1>3, <1>7, <2>1, <3>1
    <3>3. \A r \in Stmt : (txOf'[r] = cl[c].tx /\ stmtRes'[r] = "nil") =>
             r \in cas'[k].pending
      BY <1>2, <1>3, <1>4, <2>1, <3>1
    <3> QED  BY <3>2, <3>3
  <2>2. cl[c].tx # 0 => txRes'[cl[c].tx] = "none"  BY <1>0
  <2> QED  BY <1>3, <2>1, <2>2 DEF TxOK, InTx
<1>10. OneShotOK(c)'  BY <1>2, <1>3 DEF OneShotOK
<1>11. PendingOK(k)'
  <2>1. cas'[k].late.kind = "none"  BY <1>2, FreshFacts
  <2>2. nc'[k].autoCommit => cas'[k].pending = {}  BY <1>0, <1>2
  <2> QED  BY <2>1, <2>2 DEF PendingOK
<1>12. \A r \in cas'[k].pending : r <= nStmts  BY <1>0, <1>1, <1>2, <1>7
<1>13. \A r \in committed' : r \notin committed =>
         r <= nStmts /\ (txOf[r] = 0 \/ Ended(r, Durable)')
  <2> SUFFICES ASSUME NEW r \in committed', r \notin committed
               PROVE  r <= nStmts /\ (txOf[r] = 0 \/ Ended(r, Durable)')
    OBVIOUS
  <2>1. cl[c].tx = 0 /\ (r = s \/ r \in cas[k].pending)  BY <1>2
  <2>2. CASE r = s
    BY <1>0, <1>1, <2>1, <2>2
  <2>3. CASE r \in cas[k].pending
    <3>1. Ended(r, Rejected)  BY <1>0, <2>1, <2>3 DEF PendingOK
    <3>2. Ended(r, Rejected)'  BY <1>7, <2>3, <3>1
    <3> QED  BY <1>7, <2>3, <3>2 DEF Ended, Durable
  <2> QED  BY <2>1, <2>2, <2>3
<1>14. \A r \in Stmt : (txOf[r] = cl[c].tx /\ cl[c].tx # 0 /\ stmtRes'[r] = "nil" /\
                        txRes'[cl[c].tx] = "committed") => r \in committed'
  BY <1>0
<1> QED  BY <1>5, <1>8, <1>9, <1>10, <1>11, <1>12, <1>13, <1>14, TxHeld

LEMMA ExecuteErrorTx ==
  ASSUME TxInv, OnceInv', NEW c, NEW k, On(c, k), ExecuteError(c)
  PROVE  TxInv'
<1>1. /\ cl[c].pc = "execute" /\ Goes(c, "close", "server")
      /\ CasAt(k) /\ cas'[k].late = cas[k].late /\ Loose(k)' = Loose(k)
      /\ cas'[k].pending = IF nc[k].autoCommit THEN {} ELSE cas[k].pending
      /\ Recorded(c, "server") /\ UNCHANGED <<nc, execs, txRes, committed>>
  BY ExecuteErrorDoes
<1>0. /\ TypeOK /\ c \in Clients /\ k \in ConnId /\ k = cl[c].k
      /\ TxOK(c) /\ PendingOK(k) /\ nStmts \in Nat
      /\ Valid(k) /\ Loose(k) \subseteq {cl[c].s} /\ cas[k].late = NoLate
      /\ nc[k].autoCommit <=> cl[c].tx = 0
      /\ cl[c].tx # 0 => InTx(c) /\ txRes[cl[c].tx] = "none"
  BY <1>1, Executing
<1>2. /\ cl'[c].pc = "close" /\ cl'[c].k = k /\ cl'[c].tx = cl[c].tx /\ cl'[c].s = cl[c].s
      /\ cl'[c].err = "server" /\ UNCHANGED txOf
  BY <1>0, <1>1 DEF Goes, Moved
<1>3. \A r \in Stmt : /\ stmtRes'[r] # stmtRes[r] => r = cl[c].s /\ cl[c].tx # 0
                      /\ stmtRes'[r] = "nil" => stmtRes[r] = "nil"
  BY <1>1 DEF Recorded
<1>4. NcAt(k)  BY <1>0, <1>1, NothingAt
<1>5. Touches(c, k)  BY <1>1, <1>3, <1>4 DEF Touches
<1>6. Persists  BY <1>1, <1>5, TouchesPersists
<1>7. \A r \in cas[k].pending : r <= nStmts /\ (Ended(r, Rejected) => Ended(r, Rejected)')
  BY <1>0, <1>6, PendingPersists
<1>8. ConnOK(c)'  BY <1>0, <1>1, <1>2 DEF ConnOK, InTx, Valid
<1>9. TxOK(c)'
  <2>1. ASSUME cl[c].tx # 0
        PROVE  /\ \A r \in cas'[k].pending : txOf'[r] = cl[c].tx \/ Ended(r, Rejected)'
               /\ \A r \in Stmt : (txOf'[r] = cl[c].tx /\ stmtRes'[r] = "nil") =>
                    r \in cas'[k].pending
    <3>1. cas'[k].pending = cas[k].pending  BY <1>0, <1>1, <2>1
    <3> QED  BY <1>0, <1>2, <1>3, <1>7, <2>1, <3>1 DEF TxOK
  <2>2. cl[c].tx # 0 => txRes'[cl[c].tx] = "none"  BY <1>0, <1>1
  <2> QED  BY <1>2, <2>1, <2>2 DEF TxOK, InTx
<1>10. OneShotOK(c)'  BY <1>2 DEF OneShotOK
<1>11. PendingOK(k)'
  <2>1. cas'[k].late.kind = "none"  BY <1>0, <1>1, FreshFacts
  <2>2. nc'[k].autoCommit => cas'[k].pending = {}  BY <1>1
  <2> QED  BY <2>1, <2>2 DEF PendingOK
<1>12. \A r \in cas'[k].pending : r <= nStmts  BY <1>1, <1>7
<1>13. cl[c].tx # 0 => txRes'[cl[c].tx] # "committed"  BY <1>0, <1>1
<1> QED  BY <1>1, <1>5, <1>8, <1>9, <1>10, <1>11, <1>12, <1>13, TxHeld

LEMMA ExecuteFailsTx ==
  ASSUME TxInv, OnceInv', NEW c, NEW k, On(c, k), ExecuteFails(c)
  PROVE  TxInv'
<1>1. /\ cl[c].pc = "execute" /\ Goes(c, "close", "net") /\ Poisoned(k)
      /\ Recorded(c, "net") /\ UNCHANGED txRes
  BY ExecuteFailsDoes
<1>2. NcAt(k) /\ nc'[k].bad = TRUE /\ nc'[k].autoCommit = nc[k].autoCommit
  BY <1>1 DEF Poisoned
<1>0. /\ TypeOK /\ c \in Clients /\ k \in ConnId /\ k = cl[c].k
      /\ TxOK(c) /\ PendingOK(k) /\ nStmts \in Nat
      /\ Valid(k) /\ cas[k].late = NoLate
      /\ nc[k].autoCommit <=> cl[c].tx = 0
      /\ cl[c].s \in Stmt /\ cl[c].s <= nStmts /\ txOf[cl[c].s] = cl[c].tx
      /\ cl[c].tx # 0 => InTx(c) /\ txRes[cl[c].tx] = "none"
  BY <1>1, Executing
<1>3. /\ cl'[c].pc = "close" /\ cl'[c].k = k /\ cl'[c].tx = cl[c].tx /\ cl'[c].s = cl[c].s
      /\ cl'[c].err = "net" /\ UNCHANGED txOf
  BY <1>0, <1>1 DEF Goes, Moved
<1>4. ConnOK(c)'  BY <1>0, <1>2, <1>3 DEF ConnOK, InTx, Valid
<1>5. OneShotOK(c)'  BY <1>3 DEF OneShotOK
<1>6. CASE UNCHANGED <<cas, execs, committed>>
  <2>1. CasAt(k)  BY <1>0, <1>6, NothingAt
  <2>2. nc[k].bad => nc'[k].bad  BY <1>2
  <2>3. "net" \in Err \ {"nil"}  BY DEF Err
  <2> QED  BY <1>1, <1>2, <1>4, <1>5, <1>6, <2>1, <2>2, <2>3, TxPlain DEF Working
<1>7. CASE Ran(k, cl[c].s, nc[k].autoCommit)
  BY <1>1, <1>2, <1>7, RanTx
<1>8. CASE /\ CasAt(k) /\ cas'[k].late = [kind |-> "exec", s |-> cl[c].s,
                                          ac |-> nc[k].autoCommit]
           /\ Loose(k)' = Loose(k) /\ cas'[k].pending = cas[k].pending
           /\ UNCHANGED <<execs, committed>>
  <2>1. \A r \in Stmt : stmtRes'[r] # stmtRes[r] => r = cl[c].s /\ cl[c].tx # 0
    BY <1>1 DEF Recorded
  <2>2. Touches(c, k)  BY <1>1, <1>2, <1>8, <2>1 DEF Touches
  <2>3. Persists  BY <1>1, <2>2, TouchesPersists
  <2>4. \A r \in cas[k].pending : r <= nStmts /\ (Ended(r, Rejected) => Ended(r, Rejected)')
    BY <1>0, <2>3, PendingPersists
  <2>5. TxOK(c)'
    <3>1. cl[c].tx # 0 => txRes'[cl[c].tx] = "none"  BY <1>0, <1>1
    <3> QED  BY <1>2, <1>3, <3>1 DEF TxOK, Valid
  <2>6. PendingOK(k)'
    <3>1. /\ cas'[k].late.kind = "exec" /\ cas'[k].late.s = cl[c].s
          /\ cas'[k].late.ac = nc[k].autoCommit
      BY <1>8
    <3>2. nc[k].autoCommit =>
            txOf'[cl[c].s] = 0 /\ \A r \in cas'[k].pending : Ended(r, Rejected)'
      BY <1>0, <1>3, <1>8, <2>4 DEF PendingOK
    <3> QED  BY <1>2, <3>1, <3>2 DEF PendingOK, Valid
  <2>7. \A r \in cas'[k].pending : r <= nStmts  BY <1>8, <2>4
  <2>8. cl[c].tx # 0 => txRes'[cl[c].tx] # "committed"  BY <1>0, <1>1
  <2> QED  BY <1>1, <1>4, <1>5, <1>8, <2>2, <2>5, <2>6, <2>7, <2>8, TxHeld
<1> QED  BY <1>6, <1>7, <1>8, ExecuteFailsDoes

LEMMA ExecuteOKTx ==
  ASSUME TxInv, OnceInv', NEW c, NEW k, On(c, k), ExecuteOK(c)
  PROVE  TxInv'
<1>1. PICK pc : pc = IF cl[c].query THEN "rows" ELSE "close"  OBVIOUS
<1>2. /\ cl[c].pc = "execute" /\ pc \in {"rows", "close"} /\ Goes(c, pc, cl[c].err)
      /\ Ran(k, cl[c].s, nc[k].autoCommit) /\ Recorded(c, "nil") /\ UNCHANGED <<nc, txRes>>
  BY <1>1, ExecuteOKDoes
<1>3. TypeOK /\ Valid(k)  BY <1>2, Executing
<1>4. NcAt(k) /\ ~nc'[k].bad  BY <1>2, <1>3, NothingAt DEF Valid
<1> QED  BY <1>2, <1>4, RanTx

LEMMA ExecuteUnparsableTx ==
  ASSUME TxInv, OnceInv', NEW c, NEW k, On(c, k), ExecuteUnparsable(c)
  PROVE  TxInv'
<1>1. /\ cl[c].pc = "execute" /\ Goes(c, "close", "server")
      /\ Ran(k, cl[c].s, nc[k].autoCommit) /\ Recorded(c, "server")
      /\ UNCHANGED <<nc, txRes>>
  BY ExecuteUnparsableDoes
<1>2. TypeOK /\ Valid(k)  BY <1>1, Executing
<1>3. NcAt(k) /\ ~nc'[k].bad  BY <1>1, <1>2, NothingAt DEF Valid
<1> QED  BY <1>1, <1>3, RanTx

\* What ends a transaction.
LEMMA EndingTx ==
  ASSUME TxInv, OnceInv', NEW c, NEW k, On(c, k), cl[c].pc = "intx",
         NEW res, TxGoes(c, res), NcAt(k), CasAt(k),
         Loose(k)' = Loose(k), nc[k].bad => nc'[k].bad,
         UNCHANGED stmtRes, committed \subseteq committed', PendingOK(k)',
         \A s \in cas'[k].pending : s <= nStmts,
         \A s \in committed' : s \notin committed => s <= nStmts /\ Ended(s, Durable)',
         res = "committed" =>
           \A s \in Stmt : (txOf[s] = cl[c].tx /\ stmtRes[s] = "nil") => s \in committed'
  PROVE  TxInv'
<1>0. /\ c \in Clients /\ k \in ConnId /\ k = cl[c].k /\ ConnOK(c)
  BY OnFacts DEF TxInv
<1>1. /\ Goes(c, "release", cl[c].err) /\ cl[c].tx # 0 /\ txRes'[cl[c].tx] = res
      /\ \A t \in Tx : t # cl[c].tx => txRes'[t] = txRes[t]
  BY DEF TxGoes, TxEnded
<1>2. cl'[c].pc = "release" /\ cl'[c].k = k /\ cl'[c].tx = cl[c].tx
  BY <1>0, <1>1 DEF Goes, Moved
<1>3. Touches(c, k)  BY <1>1 DEF Touches
<1>4. ConnOK(c)'  BY <1>0, <1>2 DEF ConnOK, InTx, Valid, Working
<1>5. TxOK(c)' /\ OneShotOK(c)'
  BY <1>1, <1>2 DEF TxOK, OneShotOK, InTx, Working
<1>6. \A s \in Stmt : (txOf[s] = cl[c].tx /\ cl[c].tx # 0 /\ stmtRes'[s] = "nil" /\
                       txRes'[cl[c].tx] = "committed") => s \in committed'
  BY <1>1
<1> QED  BY <1>1, <1>3, <1>4, <1>5, <1>6, TxHeld

\* What the CAS holds when a transaction ends: what its statements did, and what
\* the server refused to end before.
LEMMA EndingFacts ==
  ASSUME TxInv, NEW c, NEW k, On(c, k), cl[c].pc = "intx", NEW res, TxGoes(c, res),
         NcAt(k), CasAt(k), UNCHANGED stmtRes, committed \subseteq committed'
  PROVE  /\ TypeOK /\ k \in ConnId /\ LateOK(k) /\ PendingOK(k) /\ UNCHANGED txOf
         /\ InTx(c) /\ TxOK(c) /\ ConnOK(c) /\ k = cl[c].k /\ nc[k].bad \in BOOLEAN
         /\ Persists
         /\ \A s \in cas[k].pending :
              /\ s \in Stmt /\ s <= nStmts
              /\ Ended(s, Rejected) => Ended(s, Rejected)'
              /\ Ended(s, Rejected \union {"commit failed"}) =>
                   Ended(s, Rejected \union {"commit failed"})'
         /\ Valid(k) =>
              /\ \A s \in cas[k].pending : Ended(s, {res})' \/ Ended(s, Rejected)'
              /\ \A s \in Stmt : (txOf[s] = cl[c].tx /\ stmtRes[s] = "nil") =>
                   s \in cas[k].pending
<1>0. /\ TypeOK /\ c \in Clients /\ k \in ConnId /\ k = cl[c].k /\ LateOK(k) /\ PendingOK(k)
      /\ TxOK(c) /\ ConnOK(c) /\ nc[k].bad \in BOOLEAN
  BY OnFacts DEF TxInv
<1>1. /\ Goes(c, "release", cl[c].err) /\ cl[c].tx # 0 /\ txRes'[cl[c].tx] = res
      /\ \A t \in Tx : t # cl[c].tx => txRes'[t] = txRes[t]
      /\ UNCHANGED txOf
  BY DEF TxGoes, TxEnded, Goes
<1>2. InTx(c)  BY <1>1 DEF InTx
<1>3. Touches(c, k)  BY <1>1 DEF Touches
<1>4. Persists  BY <1>1, <1>3, TouchesPersists
<1>5. \A s \in cas[k].pending :
        /\ s \in Stmt /\ s <= nStmts
        /\ Ended(s, Rejected) => Ended(s, Rejected)'
        /\ Ended(s, Rejected \union {"commit failed"}) =>
             Ended(s, Rejected \union {"commit failed"})'
  BY <1>0, <1>4, PendingPersists
<1>6. ASSUME Valid(k)
      PROVE  /\ \A s \in cas[k].pending : Ended(s, {res})' \/ Ended(s, Rejected)'
             /\ \A s \in Stmt : (txOf[s] = cl[c].tx /\ stmtRes[s] = "nil") =>
                  s \in cas[k].pending
  <2>1. /\ \A s \in cas[k].pending : txOf[s] = cl[c].tx \/ Ended(s, Rejected)
        /\ \A s \in Stmt : (txOf[s] = cl[c].tx /\ stmtRes[s] = "nil") =>
             s \in cas[k].pending
    BY <1>0, <1>2, <1>6 DEF TxOK
  <2>2. \A s \in cas[k].pending : txOf[s] = cl[c].tx => Ended(s, {res})'
    BY <1>1 DEF Ended
  <2> QED  BY <1>5, <2>1, <2>2
<1> QED  BY <1>0, <1>1, <1>2, <1>4, <1>5, <1>6

LEMMA EndTranTx ==
  ASSUME TxInv, OnceInv', NEW c, NEW k, On(c, k), NEW kind \in {"commit", "rollback"},
         EndTran(c, kind)
  PROVE  TxInv'
<1>1. PICK res : res = IF kind = "commit" THEN "committed" ELSE "rolledback"  OBVIOUS
<1>2. /\ cl[c].pc = "intx" /\ Valid(k) /\ TxGoes(c, res) /\ UNCHANGED stmtRes
      /\ CasAt(k) /\ cas'[k].late = NoLate /\ Loose(k)' = Loose(k)
      /\ cas'[k].pending = {}
      /\ committed' = IF kind = "commit" THEN committed \union cas[k].pending ELSE committed
      /\ NcAt(k) /\ committed \subseteq committed'
  BY <1>1, EndTranDoes DEF EndedCas, AutoOn
<1>3. nc[k].bad => nc'[k].bad  BY <1>2 DEF Valid
<1>4. PendingOK(k)'
  <2>1. cas'[k].late.kind = "none"  BY <1>2, FreshFacts
  <2> QED  BY <1>2, <2>1 DEF PendingOK
<1>5. /\ \A s \in cas[k].pending : s <= nStmts /\ (Ended(s, {res})' \/ Ended(s, Rejected)')
      /\ \A s \in Stmt : (txOf[s] = cl[c].tx /\ stmtRes[s] = "nil") => s \in cas[k].pending
  BY <1>2, EndingFacts
<1>6. \A s \in committed' : s \notin committed => s <= nStmts /\ Ended(s, Durable)'
  BY <1>1, <1>2, <1>5 DEF Ended, Durable
<1>7. res = "committed" =>
        \A s \in Stmt : (txOf[s] = cl[c].tx /\ stmtRes[s] = "nil") => s \in committed'
  BY <1>1, <1>2, <1>5
<1> QED  BY <1>2, <1>3, <1>4, <1>6, <1>7, EndingTx

LEMMA EndTranErrorTx ==
  ASSUME TxInv, OnceInv', NEW c, NEW k, On(c, k), NEW kind \in {"commit", "rollback"},
         EndTranError(c, kind)
  PROVE  TxInv'
<1>1. PICK res : res = IF kind = "commit" THEN "commit rejected" ELSE "rollback rejected"
  OBVIOUS
<1>2. /\ cl[c].pc = "intx" /\ Valid(k) /\ TxGoes(c, res) /\ NcAt(k) /\ UNCHANGED stmtRes
  BY <1>1, EndTranErrorDoes DEF AutoOn
<1>3. res # "committed" /\ (nc[k].bad => nc'[k].bad)  BY <1>1, <1>2 DEF Valid
<1>4. CASE UNCHANGED <<cas, committed>>
  <2>1. CasAt(k) /\ Loose(k)' = Loose(k)
    <3>1. TypeOK  BY OnFacts
    <3> QED  BY <1>4, <3>1, NothingAt DEF Loose
  <2>2. /\ \A s \in cas[k].pending : s <= nStmts /\ (Ended(s, {res})' \/ Ended(s, Rejected)')
        /\ LateOK(k)
    BY <1>2, <1>4, <2>1, EndingFacts
  <2>3. \A s \in cas'[k].pending : Ended(s, Rejected)'
    BY <1>1, <1>4, <2>2 DEF Ended, Rejected
  <2>4. cas'[k].late.kind = "none"  BY <1>2, <1>4, <2>2, FreshFacts DEF LateOK, Valid
  <2>5. PendingOK(k)'  BY <2>3, <2>4 DEF PendingOK
  <2> QED  BY <1>2, <1>3, <1>4, <2>1, <2>2, <2>5, EndingTx
<1>5. CASE EndedCas(k, kind)
  <2>1. /\ CasAt(k) /\ cas'[k].late = NoLate /\ Loose(k)' = Loose(k)
        /\ cas'[k].pending = {}
        /\ committed' = IF kind = "commit" THEN committed \union cas[k].pending ELSE committed
        /\ committed \subseteq committed'
    BY <1>5 DEF EndedCas
  <2>2. \A s \in cas[k].pending : s <= nStmts /\ (Ended(s, {res})' \/ Ended(s, Rejected)')
    BY <1>2, <2>1, EndingFacts
  <2>3. cas'[k].late.kind = "none"  BY <2>1, FreshFacts
  <2>4. PendingOK(k)'  BY <2>1, <2>3 DEF PendingOK
  <2>5. \A s \in committed' : s \notin committed => s <= nStmts /\ Ended(s, Durable)'
    BY <1>1, <2>1, <2>2 DEF Ended, Durable, Rejected
  <2> QED  BY <1>2, <1>3, <2>1, <2>4, <2>5, EndingTx
<1> QED  BY <1>4, <1>5, EndTranErrorDoes

LEMMA EndTranFailsTx ==
  ASSUME TxInv, OnceInv', NEW c, NEW k, On(c, k), NEW kind \in {"commit", "rollback"},
         EndTranFails(c, kind)
  PROVE  TxInv'
<1>1. PICK res : res = IF kind = "commit" THEN "commit failed" ELSE "rollback failed"
  OBVIOUS
<1>2. /\ cl[c].pc = "intx" /\ Valid(k) /\ TxGoes(c, res) /\ UNCHANGED stmtRes
      /\ NcAt(k) /\ nc'[k].bad = TRUE
  BY <1>1, EndTranFailsDoes DEF AutoOn
<1>3. nc[k].bad => nc'[k].bad  BY <1>2
<1>4. res # "committed"  BY <1>1
<1>5. TypeOK  BY OnFacts
<1>6. CASE UNCHANGED <<cas, committed>>
  <2>1. CasAt(k) /\ Loose(k)' = Loose(k)  BY <1>5, <1>6, NothingAt DEF Loose
  <2>2. LateOK(k) /\ \A s \in cas[k].pending : s <= nStmts
    BY <1>2, <1>6, <2>1, EndingFacts
  <2>3. cas'[k].late.kind = "none"  BY <1>2, <1>6, <2>2, FreshFacts DEF LateOK, Valid
  <2>4. PendingOK(k)'  BY <1>2, <2>3 DEF PendingOK, Valid
  <2> QED  BY <1>2, <1>3, <1>4, <1>6, <2>1, <2>2, <2>4, EndingTx
<1>7. CASE EndedCas(k, kind)
  <2>1. /\ CasAt(k) /\ cas'[k].late = NoLate /\ Loose(k)' = Loose(k)
        /\ cas'[k].pending = {}
        /\ committed' = IF kind = "commit" THEN committed \union cas[k].pending ELSE committed
        /\ committed \subseteq committed'
    BY <1>7 DEF EndedCas
  <2>2. \A s \in cas[k].pending : s <= nStmts /\ (Ended(s, {res})' \/ Ended(s, Rejected)')
    BY <1>2, <2>1, EndingFacts
  <2>3. cas'[k].late.kind = "none"  BY <2>1, FreshFacts
  <2>4. PendingOK(k)'  BY <1>2, <2>3 DEF PendingOK, Valid
  <2>5. \A s \in committed' : s \notin committed => s <= nStmts /\ Ended(s, Durable)'
    BY <1>1, <2>1, <2>2 DEF Ended, Durable
  <2> QED  BY <1>2, <1>3, <1>4, <2>1, <2>4, <2>5, EndingTx
<1>8. CASE /\ CasAt(k) /\ cas'[k].late = [kind |-> kind, s |-> 0, ac |-> FALSE]
           /\ Loose(k)' = Loose(k) /\ cas'[k].pending = cas[k].pending
           /\ UNCHANGED committed
  <2>1. \A s \in cas[k].pending : s <= nStmts /\ (Ended(s, {res})' \/ Ended(s, Rejected)')
    BY <1>2, <1>8, EndingFacts
  <2>2. cas'[k].late.kind = kind  BY <1>8
  <2>3. kind = "commit" =>
          \A s \in cas'[k].pending : Ended(s, Rejected \union {"commit failed"})'
    BY <1>1, <1>8, <2>1 DEF Ended
  <2>4. PendingOK(k)'  BY <1>2, <2>2, <2>3 DEF PendingOK, Valid
  <2> QED  BY <1>2, <1>3, <1>4, <1>8, <2>1, <2>4, EndingTx
<1> QED  BY <1>6, <1>7, <1>8, EndTranFailsDoes

LEMMA EndTranBadConnTx ==
  ASSUME TxInv, OnceInv', NEW c, NEW k, On(c, k), NEW kind \in {"commit", "rollback"},
         EndTranBadConn(c, kind)
  PROVE  TxInv'
<1>1. PICK res : res = IF kind = "commit" THEN "commit unsent" ELSE "rollback unsent"
  OBVIOUS
<1>2. /\ cl[c].pc = "intx" /\ TxGoes(c, res) /\ NcAt(k) /\ nc'[k].bad = TRUE
      /\ UNCHANGED <<cas, stmtRes, committed>>
  BY <1>1, EndTranBadConnDoes DEF AutoOn
<1>3. CasAt(k) /\ Loose(k)' = Loose(k)
  <2>1. TypeOK  BY OnFacts
  <2> QED  BY <1>2, <2>1, NothingAt DEF Loose
<1>4. /\ PendingOK(k) /\ UNCHANGED txOf
      /\ \A s \in cas[k].pending :
           /\ s <= nStmts
           /\ Ended(s, Rejected) => Ended(s, Rejected)'
           /\ Ended(s, Rejected \union {"commit failed"}) =>
                Ended(s, Rejected \union {"commit failed"})'
  BY <1>2, <1>3, EndingFacts
<1>5. PendingOK(k)'  BY <1>2, <1>4 DEF PendingOK, Valid
<1>6. res # "committed" /\ (nc[k].bad => nc'[k].bad)  BY <1>1, <1>2
<1> QED  BY <1>2, <1>3, <1>4, <1>5, <1>6, EndingTx

LEMMA AbandonTx ==
  ASSUME TxInv, OnceInv', NEW c, NEW k, On(c, k), Abandon(c)
  PROVE  TxInv'
<1>1. /\ cl[c].pc = "intx" /\ TxGoes(c, "abandoned")
      /\ UNCHANGED <<nc, cas, stmtRes, committed>>
  BY AbandonDoes
<1>2. NcAt(k) /\ CasAt(k) /\ Loose(k)' = Loose(k)
  <2>1. TypeOK  BY OnFacts
  <2> QED  BY <1>1, <2>1, NothingAt DEF Loose
<1>3. /\ PendingOK(k) /\ UNCHANGED txOf
      /\ \A s \in cas[k].pending :
           /\ s <= nStmts
           /\ Ended(s, Rejected) => Ended(s, Rejected)'
           /\ Ended(s, Rejected \union {"commit failed"}) =>
                Ended(s, Rejected \union {"commit failed"})'
  BY <1>1, <1>2, EndingFacts
<1>4. PendingOK(k)'  BY <1>1, <1>3 DEF PendingOK, Valid
<1> QED  BY <1>1, <1>2, <1>3, <1>4, EndingTx

-----------------------------------------------------------------------------
(* TxInv is inductive: the other steps *)

LEMMA TxParts ==
  ASSUME TxInv
  PROVE  /\ OnceInv /\ HoldInv /\ TypeOK /\ UnstartedOK
         /\ \A d \in Clients : ConnOK(d) /\ TxOK(d) /\ OneShotOK(d) /\ ClientOK(d)
         /\ \A d, e \in Clients : d # e => Apart(d, e)
         /\ \A k \in ConnId : PoolOK(k) /\ PendingOK(k) /\ LateOK(k)
         /\ nStmts \in Nat /\ nTx \in Nat /\ Stmt \subseteq Nat /\ Tx \subseteq Nat
  BY TxFacts DEF TxInv, OnceInv, HoldInv

LEMMA ClientTx ==
  ASSUME TypeOK, NEW d \in Clients, cl[d].tx # 0
  PROVE  cl[d].tx \in Tx
<1>1. cl[d].tx \in 0 .. MaxTx  BY ClientFields DEF TypeOK
<1> QED  BY <1>1, PoolConstants DEF Tx

LEMMA StartStmtTx ==
  ASSUME TxInv, OnceInv', NEW c \in Clients, StartStmt(c)
  PROVE  TxInv'
<1>0. /\ HoldInv /\ TypeOK /\ UnstartedOK /\ nTx \in Nat /\ Stmt \subseteq Nat
      /\ ConnOK(c) /\ TxOK(c) /\ ClientOK(c) /\ TypeOK'
  BY TxParts DEF OnceInv, HoldInv
<1>1. /\ nStmts' = nStmts + 1 /\ nStmts' \in Stmt /\ nStmts \in Nat
      /\ txOf'[nStmts'] = cl[c].tx
      /\ \A s \in Stmt : s # nStmts' => txOf'[s] = txOf[s]
      /\ Turned(c)
      /\ \/ cl[c].pc = "idle" /\ cl'[c].pc = "acquire"
         \/ cl[c].pc = "intx" /\ cl'[c].pc = "prepare"
      /\ cl'[c].s = nStmts' /\ cl'[c].tx = cl[c].tx /\ cl'[c].k = cl[c].k
      /\ UNCHANGED <<pool, nc, cas, nTx, execs, stmtRes, txRes, committed>>
  BY <1>0, StartStmtDoes
<1>2. PICK n \in Stmt : n = nStmts' /\ n > nStmts /\ n \in Nat  BY <1>1
<1>10. nStmts \in Nat /\ nStmts' = nStmts + 1 /\ Stmt \subseteq Nat  BY <1>0, <1>1
<1>11. UnstartedOK  BY <1>0
<1>3. txOf[n] = 0 /\ stmtRes[n] = "none" /\ n \notin committed
  BY <1>0, <1>2 DEF UnstartedOK
<1>4. Persists  BY <1>0, <1>1, <1>2 DEF Persists
<1>5. ASSUME NEW d \in Clients, d # c PROVE ConnOK(d)' /\ TxOK(d)' /\ OneShotOK(d)'
  <2>1. cl'[d] = cl[d]  BY <1>1, <1>5 DEF Turned
  <2>2. cl[d].tx # 0 => cl[d].tx # cl[c].tx  BY <1>0, <1>5 DEF HoldInv, Apart
  <2>3. ASSUME NEW s \in Stmt, txOf'[s] = cl[d].tx, cl[d].tx # 0 PROVE txOf[s] = cl[d].tx
    BY <1>1, <1>2, <2>2, <2>3
  <2> QED  BY <1>1, <1>4, <2>1, <2>3, ClientKept
<1>6. ConnOK(c)' /\ TxOK(c)' /\ OneShotOK(c)'
  <2>1. CASE cl[c].pc = "idle"
    <3>1. cl'[c].pc = "acquire" /\ cl'[c].tx = 0  BY <1>0, <1>1, <2>1 DEF ClientOK
    <3> QED  BY <3>1 DEF ConnOK, TxOK, OneShotOK, InTx
  <2>2. CASE cl[c].pc = "intx"
    <3>1. cl'[c].pc = "prepare" /\ cl[c].tx # 0 /\ InTx(c) /\ Holds(c)
      BY <1>0, <1>1, <2>2 DEF ClientOK, InTx, Holds
    <3>2. ConnOK(c)'  BY <1>0, <1>1, <2>2, <3>1 DEF ConnOK, Valid, Loose
    <3>3. cl[c].k \in ConnId /\ txRes[cl[c].tx] = "none"
      BY <1>0, <2>2, <3>1, HeldConn DEF TxOK
    <3>4. ASSUME Valid(cl[c].k)
          PROVE  /\ \A s \in cas[cl[c].k].pending : txOf'[s] = cl[c].tx \/ Ended(s, Rejected)'
                 /\ \A s \in Stmt : (txOf'[s] = cl[c].tx /\ stmtRes'[s] = "nil") =>
                      s \in cas[cl[c].k].pending
      <4>1. /\ \A s \in cas[cl[c].k].pending : txOf[s] = cl[c].tx \/ Ended(s, Rejected)
            /\ \A s \in Stmt : (txOf[s] = cl[c].tx /\ stmtRes[s] = "nil") =>
                 s \in cas[cl[c].k].pending
        BY <1>0, <3>1, <3>4 DEF TxOK
      <4>2. \A s \in cas[cl[c].k].pending : txOf'[s] = cl[c].tx \/ Ended(s, Rejected)'
        BY <1>4, <3>3, <4>1, PendingPersists
      <4>3. \A s \in Stmt : (txOf'[s] = cl[c].tx /\ stmtRes'[s] = "nil") =>
               s \in cas[cl[c].k].pending
        BY <1>1, <1>2, <1>3, <4>1
      <4> QED  BY <4>2, <4>3
    <3>5. TxOK(c)'  BY <1>1, <3>1, <3>3, <3>4 DEF TxOK, Valid
    <3>6. OneShotOK(c)'  BY <3>1 DEF OneShotOK
    <3> QED  BY <3>2, <3>5, <3>6
  <2> QED  BY <1>1, <2>1, <2>2
<1>7. \A k \in ConnId : PoolOK(k)' /\ PendingOK(k)'  BY <1>1, <1>4, ConnKept
<1>8. UnstartedOK'
  <2>1. \A s \in Stmt : txOf'[s] <= nTx'
    BY <1>0, <1>1, <1>2 DEF UnstartedOK, ClientOK
  <2>2. \A s \in Stmt : s > nStmts' =>
           txOf'[s] = 0 /\ stmtRes'[s] = "none" /\ s \notin committed'
    <3> SUFFICES ASSUME NEW s \in Stmt, s > nStmts'
                 PROVE  txOf'[s] = 0 /\ stmtRes'[s] = "none" /\ s \notin committed'
      OBVIOUS
    <3>1. s \in Nat /\ s > nStmts /\ s # nStmts'  BY <1>10
    <3>2. txOf[s] = 0 /\ stmtRes[s] = "none" /\ s \notin committed
      BY <1>11, <3>1 DEF UnstartedOK
    <3> QED  BY <1>1, <3>1, <3>2
  <2>3. \A k \in ConnId : \A s \in cas'[k].pending : s <= nStmts'
    <3> SUFFICES ASSUME NEW k \in ConnId, NEW s \in cas[k].pending PROVE s <= nStmts'
      BY <1>1
    <3>1. s \in Stmt /\ s <= nStmts  BY <1>4, PendingPersists
    <3>2. s \in Nat  BY <1>10, <3>1
    <3> QED  BY <1>10, <3>1, <3>2
  <2>4. \A t \in Tx : t > nTx' => txRes'[t] = "none"  BY <1>0, <1>1 DEF UnstartedOK
  <2> QED  BY <2>1, <2>2, <2>3, <2>4 DEF UnstartedOK
<1>9. TxOutcome' /\ OnlyCommitCommits' /\ AutocommitDurable'
  <2>1. \A s \in Stmt : stmtRes'[s] = "nil" => stmtRes[s] = "nil" /\ txOf'[s] = txOf[s]
    BY <1>1, <1>2, <1>3
  <2> QED  BY <1>0, <1>1, <1>4, <2>1, PropsKept
<1> QED  BY <1>5, <1>6, <1>7, <1>8, <1>9 DEF TxInv

LEMMA StartTxTx ==
  ASSUME TxInv, OnceInv', NEW c \in Clients, NEW lv \in Levels, StartTx(c, lv)
  PROVE  TxInv'
<1>0. /\ HoldInv /\ UnstartedOK /\ nStmts \in Nat /\ TypeOK' /\ Tx \subseteq Nat
      /\ TypeOK
  BY TxParts DEF OnceInv, HoldInv
<1>1. /\ nTx' = nTx + 1 /\ nTx' \in Tx /\ nTx \in Nat
      /\ Turned(c) /\ cl'[c].pc = "acquire" /\ cl'[c].tx = nTx'
      /\ UNCHANGED <<pool, nc, cas, nStmts, txOf, execs, stmtRes, txRes, committed>>
  BY <1>0, StartTxDoes
<1>2. Persists  BY <1>0, <1>1 DEF Persists
<1>3. ASSUME NEW d \in Clients, d # c PROVE ConnOK(d)' /\ TxOK(d)' /\ OneShotOK(d)'
  <2>1. cl'[d] = cl[d]  BY <1>1, <1>3 DEF Turned
  <2> QED  BY <1>1, <1>2, <2>1, ClientKept
<1>4. ConnOK(c)' /\ TxOK(c)' /\ OneShotOK(c)'
  <2>1. \A s \in Stmt : txOf[s] # nTx'
    BY <1>0, <1>1, TxFacts DEF UnstartedOK
  <2>2. txRes'[nTx'] = "none"  BY <1>0, <1>1 DEF UnstartedOK
  <2> QED  BY <1>1, <2>1, <2>2 DEF ConnOK, TxOK, OneShotOK, InTx, Working
<1>5. \A k \in ConnId : PoolOK(k)' /\ PendingOK(k)'  BY <1>1, <1>2, ConnKept
<1>6. UnstartedOK'
  <2>1. \A s \in Stmt : txOf'[s] <= nTx'  BY <1>0, <1>1, TxFacts DEF UnstartedOK
  <2>2. \A t \in Tx : t > nTx' => txRes'[t] = "none"
    <3> SUFFICES ASSUME NEW t \in Tx, t > nTx' PROVE txRes'[t] = "none"
      OBVIOUS
    <3>0. nTx \in Nat /\ nTx' = nTx + 1 /\ Tx \subseteq Nat  BY <1>0, <1>1
    <3>1. t \in Nat /\ t > nTx  BY <3>0
    <3>2. txRes[t] = "none"  BY <1>0, <3>1 DEF UnstartedOK
    <3> QED  BY <1>1, <3>2
  <2> QED  BY <1>0, <1>1, <2>1, <2>2 DEF UnstartedOK
<1>7. TxOutcome' /\ OnlyCommitCommits' /\ AutocommitDurable'
  BY <1>0, <1>1, <1>2, PropsKept
<1> QED  BY <1>3, <1>4, <1>5, <1>6, <1>7 DEF TxInv

LEMMA HandedOutTx ==
  ASSUME TxInv, OnceInv', NEW c \in Clients, NEW k \in ConnId, cl[c].pc = "acquire",
         pool[k] # "used", HandedOut(c, k), NcAt(k), CasAt(k), ~nc'[k].bad,
         nc'[k].autoCommit, Loose(k)' = {}, PendingOK(k)',
         \A s \in cas'[k].pending : s <= nStmts,
         UNCHANGED <<nStmts, nTx, txOf, execs, stmtRes, txRes, committed>>
  PROVE  TxInv'
<1>0. /\ HoldInv /\ UnstartedOK /\ TypeOK' /\ TypeOK /\ TxOK(c) /\ nStmts \in Nat /\ nTx \in Nat
  BY TxParts DEF OnceInv, HoldInv
<1>1. Persists  BY <1>0 DEF Persists
<1>2. ASSUME NEW d \in Clients, d # c PROVE ConnOK(d)' /\ TxOK(d)' /\ OneShotOK(d)'
  <2>1. cl'[d] = cl[d]  BY <1>2 DEF HandedOut, Turned
  <2>2. Holds(d) => nc'[cl[d].k] = nc[cl[d].k] /\ cas'[cl[d].k] = cas[cl[d].k]
    BY <1>0, HeldConn DEF NcAt, CasAt
  <2> QED  BY <1>1, <2>1, <2>2, ClientKept
<1>3. /\ cl'[c].pc = (IF cl[c].tx = 0 THEN "prepare" ELSE "begin") /\ cl'[c].k = k
      /\ cl'[c].tx = cl[c].tx
  BY DEF HandedOut
<1>4. ~InTx(c)'  BY <1>3 DEF InTx, Working
<1>5. ConnOK(c)'  BY <1>3, <1>4 DEF ConnOK, Valid
<1>6. TxOK(c)'  BY <1>0, <1>3, <1>4 DEF TxOK
<1>7. OneShotOK(c)'  BY <1>3 DEF OneShotOK
<1>8. ASSUME NEW j \in ConnId PROVE PoolOK(j)' /\ PendingOK(j)'
  <2>1. CASE j = k
    BY <2>1 DEF PoolOK, HandedOut
  <2>2. CASE j # k
    BY <1>1, <2>2, ConnKept DEF HandedOut, NcAt, CasAt
  <2> QED  BY <2>1, <2>2
<1>9. UnstartedOK'  BY <1>0 DEF UnstartedOK, CasAt
<1>10. TxOutcome' /\ OnlyCommitCommits' /\ AutocommitDurable'
  BY <1>0, <1>1, PropsKept
<1> QED  BY <1>2, <1>5, <1>6, <1>7, <1>8, <1>9, <1>10 DEF TxInv

LEMMA DialTx ==
  ASSUME TxInv, OnceInv', NEW c \in Clients, NEW k \in ConnId, Dial(c, k)
  PROVE  TxInv'
<1>0. HoldInv /\ TypeOK /\ PoolOK(k) /\ PendingOK(k) /\ UnstartedOK  BY TxParts
<1>1. /\ cl[c].pc = "acquire" /\ pool[k] = "undialled" /\ HandedOut(c, k)
      /\ UNCHANGED <<nc, cas, nStmts, nTx, txOf, execs, stmtRes, txRes, committed>>
  BY <1>0, DialDoes
<1>2. nc'[k] = FreshConn /\ cas'[k] = FreshCas  BY <1>0, <1>1 DEF PoolOK
<1>3. NcAt(k) /\ CasAt(k) /\ pool[k] # "used"  BY <1>0, <1>1, NothingAt
<1>4. PendingOK(k)' /\ \A s \in cas'[k].pending : s <= nStmts
  BY <1>2, FreshFacts DEF PendingOK
<1>5. ~nc'[k].bad /\ nc'[k].autoCommit /\ Loose(k)' = {}
  BY <1>2, FreshFacts DEF Loose
<1> QED  BY <1>1, <1>3, <1>4, <1>5, HandedOutTx

LEMMA ResetSessionTx ==
  ASSUME TxInv, OnceInv', NEW c \in Clients, NEW k \in ConnId, ResetSession(c, k)
  PROVE  TxInv'
<1>0. HoldInv /\ TypeOK /\ PoolOK(k) /\ PendingOK(k) /\ UnstartedOK  BY TxParts
<1>1. /\ cl[c].pc = "acquire" /\ pool[k] = "free" /\ Valid(k) /\ HandedOut(c, k)
      /\ UNCHANGED <<nStmts, nTx, txOf, execs, stmtRes, txRes>>
  BY <1>0, ResetSessionDoes
<1>2. pool[k] # "used" /\ Loose(k) = {}  BY <1>0, <1>1 DEF PoolOK
<1>3. CASE nc[k].autoCommit /\ UNCHANGED <<nc, cas, committed>>
  <2>1. NcAt(k) /\ CasAt(k)  BY <1>0, <1>3, NothingAt
  <2>2. PendingOK(k)'  BY <1>0, <1>1, <1>3 DEF PendingOK, Valid, Ended
  <2>3. \A s \in cas'[k].pending : s <= nStmts  BY <1>0, <1>3 DEF UnstartedOK
  <2>4. ~nc'[k].bad /\ nc'[k].autoCommit /\ Loose(k)' = {}
    BY <1>1, <1>2, <1>3 DEF Valid, Loose
  <2> QED  BY <1>1, <1>2, <1>3, <2>1, <2>2, <2>3, <2>4, HandedOutTx
<1>4. CASE /\ EndedCas(k, "rollback") /\ NcAt(k)
           /\ nc'[k].bad = nc[k].bad /\ nc'[k].autoCommit = TRUE
  <2>1. /\ CasAt(k) /\ cas'[k].late = NoLate /\ cas'[k].pending = {}
        /\ Loose(k)' = {} /\ UNCHANGED committed
    BY <1>2, <1>4 DEF EndedCas
  <2>2. PendingOK(k)' /\ \A s \in cas'[k].pending : s <= nStmts
    BY <2>1, FreshFacts DEF PendingOK
  <2>3. ~nc'[k].bad  BY <1>1, <1>4 DEF Valid
  <2>4. nc'[k].autoCommit  BY <1>4
  <2> QED  BY <1>1, <1>2, <1>4, <2>1, <2>2, <2>3, <2>4, HandedOutTx
<1> QED  BY <1>0, <1>3, <1>4, ResetSessionDoes

\* A step on connection k that no client takes, and no holder of k depends on.
LEMMA ConnStepTx ==
  ASSUME TxInv, OnceInv', NEW k \in ConnId, NcAt(k), CasAt(k),
         UNCHANGED <<cl, nStmts, nTx, txOf, stmtRes, txRes>>,
         \A j \in ConnId : j # k => pool'[j] = pool[j],
         pool[k] = "used" => nc'[k] = nc[k] /\ ~Valid(k),
         PoolOK(k)', PendingOK(k)', committed \subseteq committed',
         \A s \in cas'[k].pending : s <= nStmts,
         \A s \in committed' : s \notin committed =>
            s <= nStmts /\ (txOf[s] = 0 \/ Ended(s, Durable))
  PROVE  TxInv'
<1>0. /\ HoldInv /\ TypeOK /\ TypeOK' /\ UnstartedOK /\ nStmts \in Nat /\ nTx \in Nat
      /\ Stmt \subseteq Nat
  BY TxParts DEF OnceInv, HoldInv
<1>1. Persists  BY <1>0 DEF Persists
<1>2. ASSUME NEW d \in Clients PROVE ConnOK(d)' /\ TxOK(d)' /\ OneShotOK(d)'
  <2>1. ASSUME Holds(d)
        PROVE  /\ nc'[cl[d].k] = nc[cl[d].k]
               /\ Valid(cl[d].k) => cas'[cl[d].k] = cas[cl[d].k]
    <3>1. cl[d].k \in ConnId /\ pool[cl[d].k] = "used"  BY <1>0, <2>1, HeldConn
    <3> QED  BY <3>1 DEF NcAt, CasAt
  <2> QED  BY <1>1, <2>1, ClientKept
<1>3. ASSUME NEW j \in ConnId PROVE PoolOK(j)' /\ PendingOK(j)'
  BY <1>1, <1>3, ConnKept DEF NcAt, CasAt
<1>4. UnstartedOK'
  <2>1. \A s \in Stmt : s > nStmts' =>
           txOf'[s] = 0 /\ stmtRes'[s] = "none" /\ s \notin committed'
    BY <1>0 DEF UnstartedOK
  <2>2. \A j \in ConnId : \A s \in cas'[j].pending : s <= nStmts'
    BY <1>0 DEF UnstartedOK, CasAt
  <2> QED  BY <1>0, <2>1, <2>2 DEF UnstartedOK
<1>5. TxOutcome' /\ OnlyCommitCommits' /\ AutocommitDurable'
  <2>1. \A s \in Stmt : Ended(s, Durable)' <=> Ended(s, Durable)  BY DEF Ended
  <2>2. committed' \subseteq Stmt  BY <1>0, TxFacts DEF TypeOK
  <2> QED  BY <1>0, <1>1, <2>1, <2>2, PropsKept
<1> QED  BY <1>2, <1>3, <1>4, <1>5 DEF TxInv

LEMMA ResetSessionBadTx ==
  ASSUME TxInv, OnceInv', NEW c \in Clients, NEW k \in ConnId, ResetSessionBad(c, k)
  PROVE  TxInv'
<1>0. HoldInv /\ TypeOK /\ PoolOK(k) /\ PendingOK(k) /\ UnstartedOK  BY TxParts
<1>1. /\ pool[k] = "free" /\ pool'[k] = "closed"
      /\ \A j \in ConnId : j # k => pool'[j] = pool[j]
      /\ NcAt(k) /\ nc'[k].autoCommit = nc[k].autoCommit
      /\ nc[k].bad => nc'[k].bad
      /\ UNCHANGED <<cas, cl, nStmts, nTx, txOf, execs, stmtRes, txRes, committed>>
  BY <1>0, ResetSessionBadDoes
<1>2. CasAt(k) /\ PoolOK(k)'  BY <1>0, <1>1, NothingAt DEF PoolOK
<1>3. PendingOK(k)'  BY <1>0, <1>1 DEF PendingOK, Valid, Ended
<1>4. \A s \in cas'[k].pending : s <= nStmts  BY <1>0, <1>1 DEF UnstartedOK
<1> QED  BY <1>1, <1>2, <1>3, <1>4, ConnStepTx

LEMMA CasHangupTx ==
  ASSUME TxInv, OnceInv', NEW k \in ConnId, CasHangup(k)
  PROVE  TxInv'
<1>0. HoldInv /\ TypeOK  BY TxParts
<1>1. /\ pool[k] = "closed" /\ CasAt(k) /\ cas'[k].pending = {} /\ cas'[k].late = NoLate
      /\ UNCHANGED <<pool, nc, cl, nStmts, nTx, txOf, execs, stmtRes, txRes, committed>>
  BY <1>0, CasHangupDoes
<1>2. NcAt(k) /\ PoolOK(k)'  BY <1>0, <1>1, NothingAt DEF PoolOK
<1>3. PendingOK(k)' /\ \A s \in cas'[k].pending : s <= nStmts
  BY <1>1, FreshFacts DEF PendingOK
<1> QED  BY <1>1, <1>2, <1>3, ConnStepTx

LEMMA CasLateTx ==
  ASSUME TxInv, OnceInv', NEW k \in ConnId, CasLate(k)
  PROVE  TxInv'
<1>0. HoldInv /\ TypeOK /\ PoolOK(k) /\ PendingOK(k) /\ LateOK(k) /\ UnstartedOK
      /\ nStmts \in Nat
  BY TxParts
<1>1. /\ nc[k].bad /\ UNCHANGED <<pool, nc, cl, nStmts, nTx, txOf, stmtRes, txRes>>
  BY <1>0, CasLateDoes
<1>2. pool[k] \notin {"undialled", "free"}
  BY <1>0, <1>1, FreshFacts DEF PoolOK, Valid
<1>3. NcAt(k) /\ PoolOK(k)'  BY <1>0, <1>1, <1>2, NothingAt DEF PoolOK
<1>4. \A s \in cas[k].pending : s <= nStmts  BY <1>0 DEF UnstartedOK
<1>5. \A s \in Stmt : Ended(s, Rejected) \/ Ended(s, Rejected \union {"commit failed"}) =>
                      Ended(s, Durable)
  BY DEF Ended, Durable
<1>6. cas[k].pending \subseteq Stmt  BY <1>0, TxFacts
<1>7. /\ CasAt(k) /\ cas'[k].late = NoLate /\ committed \subseteq committed'
      /\ \A s \in cas'[k].pending : s <= nStmts
      /\ \A s \in committed' : s \notin committed =>
            s <= nStmts /\ (txOf[s] = 0 \/ Ended(s, Durable))
  <2>1. CASE /\ cas[k].late.kind = "exec" /\ cas[k].late.s \in Stmt
             /\ Ran(k, cas[k].late.s, cas[k].late.ac)
    <3>1. cas[k].late.s <= nStmts  BY <1>0, <2>1 DEF LateOK
    <3>2. CASE cas[k].late.ac
      <4>1. /\ txOf[cas[k].late.s] = 0
            /\ \A s \in cas[k].pending : Ended(s, Rejected)
        BY <1>0, <2>1, <3>2 DEF PendingOK
      <4>2. /\ cas'[k].pending = {}
            /\ committed' = committed \union cas[k].pending \union {cas[k].late.s}
        BY <2>1, <3>2 DEF Ran
      <4> QED  BY <1>4, <1>5, <1>6, <2>1, <3>1, <4>1, <4>2 DEF Ran
    <3>3. CASE ~cas[k].late.ac
      <4>1. cas'[k].pending = cas[k].pending \union {cas[k].late.s} /\ committed' = committed
        BY <2>1, <3>3 DEF Ran
      <4> QED  BY <1>4, <2>1, <3>1, <4>1 DEF Ran
    <3> QED  BY <3>2, <3>3
  <2>2. CASE cas[k].late.kind # "exec" /\ EndedCas(k, cas[k].late.kind)
    <3>1. CASE cas[k].late.kind = "commit"
      <4>1. \A s \in cas[k].pending : Ended(s, Rejected \union {"commit failed"})
        BY <1>0, <3>1 DEF PendingOK
      <4> QED  BY <1>4, <1>5, <1>6, <2>2, <3>1, <4>1 DEF EndedCas
    <3>2. CASE cas[k].late.kind # "commit"
      BY <2>2, <3>2 DEF EndedCas
    <3> QED  BY <3>1, <3>2
  <2> QED  BY <1>0, <2>1, <2>2, CasLateDoes
<1>8. PendingOK(k)'  BY <1>1, <1>7, FreshFacts DEF PendingOK, Valid
<1>9. ~Valid(k)  BY <1>1 DEF Valid
<1> QED  BY <1>1, <1>3, <1>7, <1>8, <1>9, ConnStepTx

LEMMA ReleaseTx ==
  ASSUME TxInv, OnceInv', NEW c, NEW k, On(c, k), Release(c)
  PROVE  TxInv'
<1>0. /\ c \in Clients /\ k \in ConnId /\ k = cl[c].k /\ HoldInv /\ TypeOK /\ TypeOK'
      /\ ConnOK(c) /\ OneShotOK(c) /\ ClientOK(c) /\ PendingOK(k) /\ UnstartedOK
      /\ nStmts \in Nat /\ nTx \in Nat /\ Stmt \subseteq Nat
  BY OnFacts, TxParts DEF OnceInv, HoldInv
<1>1. /\ cl[c].pc = "release" /\ pool'[k] \in {"free", "closed"}
      /\ pool'[k] = "free" => Valid(k)
      /\ \A j \in ConnId : j # k => pool'[j] = pool[j]
      /\ Turned(c) /\ cl'[c].pc \in {"idle", "acquire"} /\ cl'[c].tx = 0
      /\ UNCHANGED <<nc, cas, nStmts, nTx, txOf, execs, txRes, committed>>
  BY ReleaseDoes
<1>2. \A s \in Stmt : stmtRes'[s] # stmtRes[s] =>
        s = cl[c].s /\ cl[c].tx = 0 /\ stmtRes'[s] = cl[c].err
  BY ReleaseDoes
<1>3. cl[c].s \in Nat /\ cl[c].s <= nStmts  BY <1>0, ClientRanges
<1>4. \A s \in Stmt : stmtRes'[s] # stmtRes[s] => txOf[s] = 0
  <2>1. 0 \notin Stmt  BY PoolConstants DEF Stmt
  <2> QED  BY <1>0, <1>2, <2>1 DEF ClientOK
<1>5. Persists  BY <1>0, <1>1 DEF Persists
<1>6. ASSUME NEW d \in Clients, d # c PROVE ConnOK(d)' /\ TxOK(d)' /\ OneShotOK(d)'
  <2>1. cl'[d] = cl[d]  BY <1>1, <1>6 DEF Turned
  <2> QED  BY <1>1, <1>4, <1>5, <2>1, ClientKept
<1>7. ConnOK(c)' /\ TxOK(c)' /\ OneShotOK(c)'
  BY <1>1 DEF ConnOK, TxOK, OneShotOK, InTx
<1>8. ASSUME NEW j \in ConnId PROVE PoolOK(j)' /\ PendingOK(j)'
  <2>1. CASE j = k
    <3>1. PoolOK(k)'  BY <1>0, <1>1 DEF PoolOK, ConnOK, Valid, Loose
    <3>2. PendingOK(k)'  BY <1>0, <1>1 DEF PendingOK, Valid, Ended
    <3> QED  BY <2>1, <3>1, <3>2
  <2>2. CASE j # k
    BY <1>1, <1>5, <2>2, ConnKept
  <2> QED  BY <2>1, <2>2
<1>9. UnstartedOK'
  <2>1. ASSUME NEW s \in Stmt, s > nStmts PROVE stmtRes'[s] = stmtRes[s]
    <3>0. s \in Nat /\ nStmts \in Nat  BY <1>0
    <3>1. s # cl[c].s  BY <1>3, <2>1, <3>0
    <3> QED  BY <1>2, <3>1
  <2> QED  BY <1>0, <1>1, <2>1 DEF UnstartedOK
<1>10. TxOutcome' /\ OnlyCommitCommits' /\ AutocommitDurable'
  <2>1. \A s \in Stmt : stmtRes'[s] = "nil" => stmtRes[s] = "nil" \/ s \in committed
    BY <1>0, <1>1, <1>2 DEF OneShotOK
  <2> QED  BY <1>0, <1>1, <1>5, <2>1, PropsKept
<1> QED  BY <1>6, <1>7, <1>8, <1>9, <1>10 DEF TxInv

LEMMA HeldStepTx ==
  ASSUME TxInv, OnceInv', NEW c \in Clients, HeldStep(c)
  PROVE  TxInv'
<1>0. HoldInv  BY TxParts
<1>1. PICK k \in ConnId : On(c, k)  BY <1>0, HeldStepOn
<1>2. CASE PlainStep(c)  BY <1>1, <1>2, PlainStepTx
<1>3. CASE ExecuteOK(c)  BY <1>1, <1>3, ExecuteOKTx
<1>4. CASE ExecuteError(c)  BY <1>1, <1>4, ExecuteErrorTx
<1>5. CASE ExecuteFails(c)  BY <1>1, <1>5, ExecuteFailsTx
<1>6. CASE BeginTx(c)  BY <1>1, <1>6, BeginTxTx
<1>7. ASSUME NEW kind \in {"commit", "rollback"}, EndTran(c, kind) PROVE TxInv'
  BY <1>1, <1>7, EndTranTx
<1>8. ASSUME NEW kind \in {"commit", "rollback"}, EndTranError(c, kind) PROVE TxInv'
  BY <1>1, <1>8, EndTranErrorTx
<1>9. ASSUME NEW kind \in {"commit", "rollback"}, EndTranFails(c, kind) PROVE TxInv'
  BY <1>1, <1>9, EndTranFailsTx
<1>10. ASSUME NEW kind \in {"commit", "rollback"}, EndTranBadConn(c, kind) PROVE TxInv'
  BY <1>1, <1>10, EndTranBadConnTx
<1>11. CASE Abandon(c)  BY <1>1, <1>11, AbandonTx
<1>12. CASE ExecuteUnparsable(c)  BY <1>1, <1>12, ExecuteUnparsableTx
<1> QED
  BY <1>2, <1>3, <1>4, <1>5, <1>6, <1>7, <1>8, <1>9, <1>10, <1>11, <1>12
     DEF HeldStep, PlainStep

LEMMA TxInvInit == Init => TxInv
<1> SUFFICES ASSUME Init PROVE TxInv
  OBVIOUS
<1>0. OnceInv /\ TypeOK  BY OnceInvInit DEF OnceInv, HoldInv
<1>1. /\ \A s \in Stmt : txOf[s] = 0 /\ stmtRes[s] = "none"
      /\ \A t \in Tx : txRes[t] = "none"
      /\ nTx = 0 /\ committed = {}
  BY DEF Init
<1>2. \A c \in Clients : cl[c].pc = "idle" /\ cl[c].tx = 0  BY DEF Init, IdleClient
<1>3. \A k \in ConnId : pool[k] = "undialled" /\ nc[k] = FreshConn /\ cas[k] = FreshCas
  BY DEF Init
<1>4. \A k \in ConnId : cas[k].pending = {} /\ cas[k].late.kind = "none"
  BY <1>3, FreshFacts
<1>5. UnstartedOK  BY <1>1, <1>4 DEF UnstartedOK
<1>6. \A c \in Clients : ConnOK(c) /\ TxOK(c) /\ OneShotOK(c)
  BY <1>2 DEF ConnOK, TxOK, OneShotOK, InTx
<1>7. \A k \in ConnId : PoolOK(k) /\ PendingOK(k)  BY <1>3, <1>4 DEF PoolOK, PendingOK
<1>8. TxOutcome /\ OnlyCommitCommits /\ AutocommitDurable
  BY <1>1 DEF TxOutcome, OnlyCommitCommits, AutocommitDurable
<1> QED  BY <1>0, <1>5, <1>6, <1>7, <1>8 DEF TxInv

LEMMA TxInvStutter ==
  ASSUME TxInv, OnceInv', UNCHANGED vars
  PROVE  TxInv'
<1>0. UNCHANGED <<pool, nc, cas, cl, nStmts, nTx, txOf, stmtRes, txRes, committed>>
  BY DEF vars
<1>1. UnstartedOK'  BY <1>0 DEF TxInv, UnstartedOK
<1>2. \A c \in Clients : ConnOK(c)'  BY <1>0 DEF TxInv, ConnOK, InTx, Valid, Loose
<1>3. \A c \in Clients : TxOK(c)'  BY <1>0 DEF TxInv, TxOK, InTx, Valid, Ended
<1>4. \A c \in Clients : OneShotOK(c)'  BY <1>0 DEF TxInv, OneShotOK
<1>5. \A k \in ConnId : PoolOK(k)'  BY <1>0 DEF TxInv, PoolOK, Valid, Loose
<1>6. \A k \in ConnId : PendingOK(k)'  BY <1>0 DEF TxInv, PendingOK, Valid, Ended
<1>7. TxOutcome' /\ OnlyCommitCommits' /\ AutocommitDurable'
  BY <1>0 DEF TxInv, TxOutcome, OnlyCommitCommits, AutocommitDurable
<1> QED  BY <1>1, <1>2, <1>3, <1>4, <1>5, <1>6, <1>7 DEF TxInv

LEMMA TxInvNext == TxInv /\ [Next]_vars => TxInv'
<1> SUFFICES ASSUME TxInv, [Next]_vars PROVE TxInv'
  OBVIOUS
<1>0. HoldInv /\ OnceInv /\ OnceInv'  BY TxParts, OnceInvNext
<1>1. ASSUME NEW c \in Clients, HeldStep(c) PROVE TxInv'
  BY <1>0, <1>1, HeldStepTx
<1>2. ASSUME NEW c \in Clients, StartStmt(c) PROVE TxInv'
  BY <1>0, <1>2, StartStmtTx
<1>3. ASSUME NEW c \in Clients, NEW lv \in Levels, StartTx(c, lv) PROVE TxInv'
  BY <1>0, <1>3, StartTxTx
<1>4. ASSUME NEW c \in Clients, NEW k \in ConnId, Dial(c, k) PROVE TxInv'
  BY <1>0, <1>4, DialTx
<1>5. ASSUME NEW c \in Clients, NEW k \in ConnId, ResetSession(c, k) PROVE TxInv'
  BY <1>0, <1>5, ResetSessionTx
<1>6. ASSUME NEW c \in Clients, NEW k \in ConnId, ResetSessionBad(c, k) PROVE TxInv'
  BY <1>0, <1>6, ResetSessionBadTx
<1>7. ASSUME NEW c \in Clients, Release(c) PROVE TxInv'
  <2>1. \E k \in ConnId : On(c, k)  BY <1>0, <1>7, HeldConn DEF On, Release, Holds
  <2> QED  BY <1>0, <1>7, <2>1, ReleaseTx
<1>8. ASSUME NEW k \in ConnId, CasLate(k) PROVE TxInv'
  BY <1>0, <1>8, CasLateTx
<1>9. ASSUME NEW k \in ConnId, CasHangup(k) PROVE TxInv'
  BY <1>0, <1>9, CasHangupTx
<1>10. CASE UNCHANGED vars
  BY <1>0, <1>10, TxInvStutter
<1> QED
  BY <1>1, <1>2, <1>3, <1>4, <1>5, <1>6, <1>7, <1>8, <1>9, <1>10 DEF Next, HeldStep

\* What Commit and Rollback returned is what happened (tx.Commit, tx.Rollback):
\* the effects of a transaction that was reported committed are durable, those
\* of one that was rolled back, or whose connection was already bad, never are,
\* whatever requests the server carries out late and whoever gets the
\* connection next.
THEOREM TxAsReported == Spec => []TxOutcome
<1>1. TxInv => TxOutcome  BY DEF TxInv
<1> QED  BY <1>1, TxInvInit, TxInvNext, PTL DEF Spec

\* Statements of a transaction become durable only through its own Commit or
\* an END_TRAN that returned an error: BeginTx turns autocommit off on a
\* connection nobody else holds, and ResetSession rolls back what an abandoned
\* transaction left.
THEOREM NothingElseCommits == Spec => []OnlyCommitCommits
<1>1. TxInv => OnlyCommitCommits  BY DEF TxInv
<1> QED  BY <1>1, TxInvInit, TxInvNext, PTL DEF Spec

\* A one-shot statement that returned nil (conn.ExecContext, conn.QueryContext)
\* is durable: it ran in autocommit mode.
THEOREM OneShotDurable == Spec => []AutocommitDurable
<1>1. TxInv => AutocommitDurable  BY DEF TxInv
<1> QED  BY <1>1, TxInvInit, TxInvNext, PTL DEF Spec

\* Connect and ResetSession hand out a connection that is usable, in autocommit
\* mode, without late requests, with no transaction open but one whose END_TRAN
\* returned an error, and with no statement handle on the server but those the
\* driver could not close: of a PREPARE whose reply could not be parsed, or of a
\* CLOSE_REQ_HANDLE the server rejected.
THEOREM NeutralWhenHandedOut == Spec => []HandedOutNeutral
<1>1. TxInv => HandedOutNeutral
  <2> SUFFICES ASSUME TxInv, NEW c \in Clients,
                      cl[c].pc = "begin" \/ (cl[c].pc = "prepare" /\ cl[c].tx = 0),
                      NEW k, k = cl[c].k
               PROVE  /\ Valid(k) /\ nc[k].autoCommit
                      /\ Loose(k) = {} /\ cas[k].late = NoLate
                      /\ \A s \in cas[k].pending : Ended(s, Rejected)
    BY DEF HandedOutNeutral, Ended, Loose
  <2>1. HoldInv /\ ConnOK(c)  BY TxParts
  <2>2. k \in ConnId  BY <2>1, HeldConn DEF Holds
  <2>3. PendingOK(k) /\ LateOK(k)  BY <2>2, TxParts
  <2>4. Valid(k) /\ nc[k].autoCommit /\ Loose(k) = {}  BY <2>1 DEF ConnOK
  <2> QED  BY <2>3, <2>4 DEF PendingOK, LateOK, Valid
<1> QED  BY <1>1, TxInvInit, TxInvNext, PTL DEF Spec
=============================================================================
