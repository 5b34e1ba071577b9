---------------------------- MODULE Native_proofs ---------------------------
(***************************************************************************)
(* Proofs about the calls on a native connection. First the session        *)
(* (Session.tla) for every bound: type correctness, what Exec, Commit and  *)
(* Rollback tell the application is what happens (OutcomeAsTold), the      *)
(* application's ledger is the server's transaction (LedgerIsLog), and no  *)
(* handle is left open (StatementsClosed). Then the calls as MC_Native.tla *)
(* puts them together: the session's theorems carried over, its parameters *)
(* (Params.tla) for every width of the integer, every length of the        *)
(* millisecond and every set of durations, and the handles of a schema     *)
(* lookup (Schema.tla) for every set of tables and columns.                *)
(***************************************************************************)
EXTENDS MC_Native, TLAPS, WellFoundedInduction, SequenceTheorems, FiniteSetTheorems

-----------------------------------------------------------------------------
(* The inductive invariant                                                 *)

\* A call's statement has been issued; savepoints are used with autocommit off.
CallTyped ==
  /\ call.phase = "idle" => call = NoCall
  /\ call.phase # "idle" /\ call.kind = "work" => call.id \in 1 .. issued
  /\ call.phase # "idle" /\ call.kind # "work" => ~auto

\* With autocommit on there is no transaction, on the server or in the ledger.
AutoHasNoTransaction == auto => log = <<>> /\ ledger = <<>> /\ ~doubt

\* Every statement that anything is known of has been issued.
Used == durable \cup undone \cup Works(log) \cup Works(ledger)
UsedIssued == Used \subseteq 1 .. issued

\* The statement of a call that has not been executed yet is known nowhere: the
\* application may still conclude either way.
CallIsFresh ==
  call.phase \in {"prepare", "execute"} /\ call.kind = "work" => call.id \notin Used

\* What the server would commit, the application was not told is undone; what it
\* may be told is undone by a Rollback is not durable yet.
PendingOpen ==
  /\ Works(log) \cap undone = {}
  /\ ~bad => Works(ledger) \cap durable = {}

\* One handle is open from PREPARE's reply until CLOSE's.
OneHandle ==
  ~bad => handles = orphans + (IF call.phase \in {"execute", "close"} THEN 1 ELSE 0)

SessionInv ==
  /\ TypeOK /\ CallTyped /\ AutoHasNoTransaction /\ UsedIssued /\ CallIsFresh
  /\ PendingOpen /\ OneHandle /\ LedgerIsLog /\ OutcomeAsTold

-----------------------------------------------------------------------------
(* What a statement does to a transaction                                  *)

\* A set of indexes up to n has a largest one: the indexes counted from n down
\* have a least one.
LEMMA MaxInSet ==
  ASSUME NEW n \in Nat, NEW T \in SUBSET (1 .. n), T # {}
  PROVE  Max(T) \in T
<1> DEFINE D == {n - i : i \in T}
<1>1. D \subseteq Nat /\ D # {}
  OBVIOUS
<1>2. PICK m \in D : \A d \in D : ~(<<d, m>> \in OpToRel(<, Nat))
  BY <1>1, NatLessThanWellFounded, WFMin
<1>3. PICK x \in T : m = n - x
  OBVIOUS
<1>4. \A y \in T : x >= y
  <2> SUFFICES ASSUME NEW y \in T, ~(x >= y) PROVE FALSE
    OBVIOUS
  <2>1. n - y \in D /\ n - y < m /\ n - y \in Nat /\ m \in Nat
    BY <1>1, <1>3
  <2>2. <<n - y, m>> \in OpToRel(<, Nat)
    BY <2>1 DEF OpToRel
  <2> QED
    BY <1>2, <2>1, <2>2
<1>5. \E z \in T : \A y \in T : z >= y
  BY <1>4
<1> QED
  BY <1>5 DEF Max

\* ROLLBACK TO SAVEPOINT leaves a beginning of the transaction, and so nothing
\* that was not in it.
LEMMA RolledBackToFacts ==
  ASSUME NEW s \in Seq(Item), NEW name
  PROVE  /\ RolledBackTo(s, name) \in Seq(Item)
         /\ Works(RolledBackTo(s, name)) \subseteq Works(s)
<1> DEFINE I == {i \in 1 .. Len(s) : s[i].kind = "save" /\ s[i].id = name}
           k == IF I # {} THEN Max(I) ELSE 0
<1>1. RolledBackTo(s, name) = SubSeq(s, 1, k)
  BY DEF RolledBackTo, SelectLastInSeq
<1>0. I \in SUBSET (1 .. Len(s)) /\ Len(s) \in Nat
  OBVIOUS
<1> HIDE DEF I
<1>2. k \in 0 .. Len(s)
  <2>1. I # {} => Max(I) \in I
    BY <1>0, MaxInSet
  <2>2. CASE I = {}
    <3>1. k = 0
      BY <2>2
    <3> QED
      BY <1>0, <3>1
  <2>3. CASE I # {}
    <3>1. k = Max(I)
      BY <2>3
    <3> HIDE DEF k
    <3>2. k \in 1 .. Len(s)
      BY <1>0, <2>1, <2>3, <3>1
    <3> QED
      BY <1>0, <3>2
  <2> QED
    BY <2>2, <2>3
<1> HIDE DEF k
<1> DEFINE r == SubSeq(s, 1, k)
<1>3. \A i \in 1 .. k : s[i] \in Item /\ i \in DOMAIN s
  BY <1>2
<1>4. /\ r \in Seq(Item) /\ Len(r) = k
      /\ \A i \in 1 .. k : r[i] = s[i]
  BY <1>2, <1>3
<1> HIDE DEF r
<1>5. DOMAIN r = 1 .. k
  BY <1>4
<1>6. ToSet(r) \subseteq ToSet(s)
  BY <1>3, <1>4, <1>5 DEF ToSet
<1>7. Works(r) \subseteq Works(s)
  BY <1>6 DEF Works
<1> QED
  BY <1>1, <1>4, <1>7 DEF r

\* A statement or savepoint comes after what is there.
LEMMA AppendFacts ==
  ASSUME NEW s \in Seq(Item), NEW e \in Item
  PROVE  /\ Append(s, e) \in Seq(Item)
         /\ Works(Append(s, e)) = Works(s) \cup (IF e.kind = "work" THEN {e.id} ELSE {})
<1> DEFINE r == Append(s, e)
<1>1. /\ r \in Seq(Item) /\ Len(r) = Len(s) + 1 /\ r[Len(s) + 1] = e
      /\ \A i \in 1 .. Len(s) : r[i] = s[i]
  OBVIOUS
<1> HIDE DEF r
<1>2. DOMAIN r = DOMAIN s \cup {Len(s) + 1} /\ DOMAIN s = 1 .. Len(s)
  BY <1>1
<1>3. ToSet(r) = ToSet(s) \cup {e}
  BY <1>1, <1>2 DEF ToSet
<1>4. Works(r) = Works(s) \cup (IF e.kind = "work" THEN {e.id} ELSE {})
  BY <1>3 DEF Works
<1> QED
  BY <1>1, <1>4 DEF r

\* A statement adds no work but its own to a transaction, and only a rollback to
\* a savepoint takes any away.
LEMMA AppliedFacts ==
  ASSUME NEW s \in Seq(Item), NEW kind, NEW id,
         \/ kind = "work" /\ id \in Work
         \/ kind \in {"save", "rollto"} /\ id \in Savepoints
  PROVE  /\ Applied(s, kind, id) \in Seq(Item)
         /\ Works(Applied(s, kind, id)) \subseteq Works(s) \cup (IF kind = "work" THEN {id} ELSE {})
         /\ kind # "rollto" => Works(s) \subseteq Works(Applied(s, kind, id))
<1>1. CASE kind = "rollto"
  BY <1>1, RolledBackToFacts DEF Applied
<1>2. CASE kind # "rollto"
  <2> DEFINE e == [kind |-> kind, id |-> id]
  <2>1. e \in Item /\ e.kind = kind /\ e.id = id
    BY <1>2 DEF Item
  <2>2. Applied(s, kind, id) = Append(s, e)
    BY <1>2 DEF Applied
  <2> HIDE DEF e
  <2> QED
    BY <1>2, <2>1, <2>2, AppendFacts
<1> QED
  BY <1>1, <1>2

\* An empty transaction has no work in it.
LEMMA EmptyWorks == <<>> \in Seq(Item) /\ Works(<<>>) = {}
  BY DEF Works, ToSet

-----------------------------------------------------------------------------
(* The invariant is inductive                                              *)

USE SessionConstants

\* A call in its next phase is the same call.
LEMMA CallMoves ==
  ASSUME NEW c \in CallType, NEW next \in Phases, NEW ok \in BOOLEAN
  PROVE  /\ [c EXCEPT !.phase = next] \in CallType
         /\ [c EXCEPT !.phase = next].phase = next
         /\ [c EXCEPT !.phase = next].kind = c.kind
         /\ [c EXCEPT !.phase = next].id = c.id
         /\ [c EXCEPT !.phase = next, !.ok = ok] \in CallType
         /\ [c EXCEPT !.phase = next, !.ok = ok].phase = next
         /\ [c EXCEPT !.phase = next, !.ok = ok].kind = c.kind
         /\ [c EXCEPT !.phase = next, !.ok = ok].id = c.id
<1>1. CASE c \in [phase : Phases, kind : {"work"}, id : 0 .. MaxWork, ok : BOOLEAN]
  BY <1>1 DEF CallType
<1>2. CASE c \in [phase : Phases, kind : {"save", "rollto"}, id : Savepoints, ok : BOOLEAN]
  BY <1>2 DEF CallType
<1> QED
  BY <1>1, <1>2 DEF CallType

\* The resting value of call.
LEMMA NoCallTyped == NoCall \in CallType /\ NoCall.phase = "idle"
  BY DEF NoCall, CallType, Phases

\* Nothing has been issued or told, and no handle is open.
LEMMA InitSession == Init => SessionInv
<1> SUFFICES ASSUME Init PROVE SessionInv
  OBVIOUS
<1>1. TypeOK
  <2>1. bad \in BOOLEAN /\ auto \in BOOLEAN /\ doubt \in BOOLEAN
    BY DEF Init
  <2>2. call \in CallType
    BY NoCallTyped DEF Init
  <2>3. /\ handles = 0 /\ orphans = 0 /\ issued = 0 /\ log = <<>> /\ ledger = <<>>
        /\ durable = {} /\ promised = {} /\ undone = {}
    BY DEF Init
  <2> QED
    BY <2>1, <2>2, <2>3, EmptyWorks DEF TypeOK
<1>2. CallTyped /\ CallIsFresh /\ OneHandle
  BY DEF Init, CallTyped, CallIsFresh, OneHandle, NoCall
<1>3. AutoHasNoTransaction /\ LedgerIsLog /\ OutcomeAsTold
  BY DEF Init, AutoHasNoTransaction, LedgerIsLog, OutcomeAsTold
<1>4. UsedIssued /\ PendingOpen
  BY EmptyWorks DEF Init, UsedIssued, Used, PendingOpen
<1> QED
  BY <1>1, <1>2, <1>3, <1>4 DEF SessionInv

\* A call's own statement: what it can add to anything known.
Own == IF call.kind = "work" THEN {call.id} ELSE {}

\* The statement of a call is well formed.
LEMMA OwnFacts ==
  ASSUME SessionInv, call.phase # "idle"
  PROVE  /\ \/ call.kind = "work" /\ call.id \in Work
            \/ call.kind \in {"save", "rollto"} /\ call.id \in Savepoints
         /\ Own \subseteq 1 .. issued
         /\ auto => Own = {call.id}
         /\ call.phase \in {"prepare", "execute"} => Own \cap Used = {}
  BY DEF SessionInv, TypeOK, CallType, CallTyped, CallIsFresh, Own, Work

\* The server runs a statement: only the statement's own work can become pending
\* or durable.
LEMMA ExecutedFacts ==
  ASSUME SessionInv, call.phase = "execute", Executed
  PROVE  /\ log' \in Seq(Item)
         /\ Works(log') \subseteq Works(log) \cup Own
         /\ durable' \subseteq durable \cup Own /\ durable \subseteq durable'
         /\ auto => log' = log /\ durable' = durable \cup {call.id}
         /\ ~auto => log' = Applied(log, call.kind, call.id) /\ durable' = durable
<1>1. log \in Seq(Item)
  BY DEF SessionInv, TypeOK
<1>2. CASE auto
  BY <1>1, <1>2, OwnFacts DEF Executed
<1>3. CASE ~auto
  BY <1>1, <1>3, OwnFacts, AppliedFacts DEF Executed, Own
<1> QED
  BY <1>2, <1>3

\* The parts of the invariant that are about what is known of statements.
Known == AutoHasNoTransaction /\ UsedIssued /\ PendingOpen /\ LedgerIsLog /\ OutcomeAsTold

\* They stay when everything they are about does.
LEMMA KnownUnchanged ==
  ASSUME SessionInv, UNCHANGED <<bad, auto, issued, log, durable, ledger, doubt, promised, undone>>
  PROVE  Known' /\ Used' = Used
  BY DEF SessionInv, Known, AutoHasNoTransaction, UsedIssued, Used, PendingOpen,
         LedgerIsLog, OutcomeAsTold

LEMMA ExecBeginInv ==
  ASSUME SessionInv, NEW kind, NEW id, ExecBegin(kind, id)
  PROVE  SessionInv'
<1> USE DEF SessionInv
<1>1. /\ call' = [phase |-> "prepare", kind |-> kind, id |-> id, ok |-> FALSE]
      /\ UNCHANGED <<bad, auto, handles, orphans, log, durable, ledger, doubt, promised, undone>>
  BY DEF ExecBegin, NoCall, serverVars
<1>2. /\ issued' \in 0 .. MaxWork /\ issued <= issued' /\ issued \in 0 .. MaxWork
      /\ \/ kind = "work" /\ id = issued + 1 /\ issued' = id
         \/ kind \in {"save", "rollto"} /\ id \in Savepoints /\ ~auto
  BY DEF ExecBegin, TypeOK, Work
<1>3. TypeOK'
  <2>1. call' \in CallType
    BY <1>1, <1>2 DEF CallType, Phases
  <2> QED
    BY <1>1, <1>2, <2>1 DEF TypeOK
<1>4. Used' = Used
  BY <1>1 DEF Used
<1>5. CallTyped' /\ OneHandle'
  BY <1>1, <1>2 DEF CallTyped, OneHandle, ExecBegin, NoCall
<1>6. UsedIssued'
  BY <1>2, <1>4 DEF UsedIssued
<1>7. CallIsFresh'
  BY <1>1, <1>2, <1>4 DEF CallIsFresh, UsedIssued
<1>8. AutoHasNoTransaction' /\ PendingOpen' /\ LedgerIsLog' /\ OutcomeAsTold'
  BY <1>1 DEF AutoHasNoTransaction, PendingOpen, LedgerIsLog, OutcomeAsTold
<1> QED
  BY <1>3, <1>5, <1>6, <1>7, <1>8

LEMMA PrepareReplyInv ==
  ASSUME SessionInv, PrepareReply
  PROVE  SessionInv'
<1> USE DEF SessionInv
<1>1. /\ call' = [call EXCEPT !.phase = "execute"] /\ call.phase = "prepare" /\ ~bad
      /\ handles' = handles + 1
      /\ UNCHANGED <<bad, auto, orphans, issued, log, durable, ledger, doubt, promised, undone>>
  BY DEF PrepareReply, appVars
<1>2. /\ call' \in CallType
      /\ call'.phase = "execute" /\ call'.kind = call.kind /\ call'.id = call.id
  BY <1>1, CallMoves DEF TypeOK, Phases
<1>3. Known' /\ Used' = Used
  BY <1>1, KnownUnchanged
<1>4. TypeOK'
  BY <1>1, <1>2 DEF TypeOK
<1>5. CallTyped' /\ CallIsFresh' /\ OneHandle'
  BY <1>1, <1>2, <1>3 DEF CallTyped, CallIsFresh, OneHandle, TypeOK
<1> QED
  BY <1>3, <1>4, <1>5 DEF Known

\* NotExecuted: the statement of a call that was not executed is undone, and may be.
LEMMA NotExecutedFacts ==
  ASSUME SessionInv, call.phase \in {"prepare", "execute"}, NotExecuted,
         UNCHANGED <<bad, auto, issued, log, durable, ledger, doubt, promised>>
  PROVE  Known' /\ undone' \subseteq Work /\ undone' = undone \cup Own
<1> USE DEF SessionInv
<1>1. undone' = undone \cup Own
  BY DEF NotExecuted, Own
<1>2. Own \subseteq 1 .. issued /\ Own \cap Used = {}
  BY OwnFacts
<1>3. Known'
  BY <1>1, <1>2 DEF Known, AutoHasNoTransaction, UsedIssued, Used, PendingOpen,
                    LedgerIsLog, OutcomeAsTold
<1> QED
  BY <1>1, <1>2, <1>3 DEF TypeOK, Work

LEMMA PrepareErrorInv ==
  ASSUME SessionInv, NEW orphan \in BOOLEAN, PrepareError(orphan)
  PROVE  SessionInv'
<1> USE DEF SessionInv
<1>1. /\ call' = NoCall /\ call.phase = "prepare" /\ ~bad /\ NotExecuted
      /\ UNCHANGED <<bad, auto, issued, log, durable, ledger, doubt, promised>>
  BY DEF PrepareError
<1>2. /\ handles' = handles + (IF orphan THEN 1 ELSE 0)
      /\ orphans' = orphans + (IF orphan THEN 1 ELSE 0)
      /\ orphan => orphans < MaxOrphans
  BY DEF PrepareError
<1>3. handles = orphans /\ handles' = orphans' /\ handles' \in Nat /\ orphans' \in 0 .. MaxOrphans
  BY <1>1, <1>2 DEF OneHandle, TypeOK
<1>4. Known' /\ undone' \subseteq Work
  BY <1>1, NotExecutedFacts
<1>5. TypeOK'
  BY <1>1, <1>3, <1>4, NoCallTyped DEF TypeOK
<1>6. CallTyped' /\ CallIsFresh'
  BY <1>1, NoCallTyped DEF CallTyped, CallIsFresh
<1>7. OneHandle'
  <2>1. call'.phase = "idle" /\ orphans' \in Int /\ handles' = orphans'
    BY <1>1, <1>3, NoCallTyped
  <2>2. (IF call'.phase \in {"execute", "close"} THEN 1 ELSE 0) = 0
    BY <2>1
  <2>3. handles' = orphans' + 0
    <3>1. \A n \in Int : n = n + 0
      OBVIOUS
    <3> QED
      BY <2>1, <3>1
  <2> QED
    BY <2>2, <2>3 DEF OneHandle
<1> QED
  BY <1>4, <1>5, <1>6, <1>7 DEF Known

LEMMA ExecuteReplyInv ==
  ASSUME SessionInv, ExecuteReply
  PROVE  SessionInv'
<1> USE DEF SessionInv
<1>1. /\ call' = [call EXCEPT !.phase = "close", !.ok = TRUE]
      /\ call.phase = "execute" /\ ~bad /\ Executed
      /\ UNCHANGED <<bad, auto, handles, orphans, issued, doubt>>
  BY DEF ExecuteReply
<1>2. /\ call' \in CallType
      /\ call'.phase = "close" /\ call'.kind = call.kind /\ call'.id = call.id
  BY <1>1, CallMoves DEF TypeOK, Phases
<1>3. CallTyped' /\ CallIsFresh' /\ OneHandle'
  BY <1>1, <1>2 DEF CallTyped, CallIsFresh, OneHandle
<1>4. /\ Own \subseteq 1 .. issued /\ Own \cap Used = {} /\ 1 .. issued \subseteq Work
      /\ auto => Own = {call.id}
  BY <1>1, OwnFacts DEF TypeOK, Work
<1>5. CASE auto
  <2>1. /\ log = <<>> /\ ledger = <<>> /\ ~doubt /\ log' = <<>> /\ ledger' = <<>> /\ ~doubt'
        /\ durable' = durable \cup Own /\ promised' = promised \cup Own /\ undone' = undone
    BY <1>1, <1>4, <1>5, ExecutedFacts DEF ExecuteReply, AutoHasNoTransaction
  <2>2. TypeOK'
    BY <1>1, <1>2, <1>4, <2>1 DEF TypeOK
  <2>3. AutoHasNoTransaction' /\ LedgerIsLog'
    BY <2>1 DEF AutoHasNoTransaction, LedgerIsLog
  <2>4. UsedIssued' /\ PendingOpen' /\ OutcomeAsTold'
    BY <1>1, <1>4, <2>1, EmptyWorks DEF UsedIssued, Used, PendingOpen, OutcomeAsTold
  <2> QED
    BY <1>3, <2>2, <2>3, <2>4
<1>6. CASE ~auto
  <2>1. /\ log' \in Seq(Item) /\ Works(log') \subseteq Works(log) \cup Own
        /\ log' = Applied(log, call.kind, call.id) /\ durable' = durable
    BY <1>1, <1>6, ExecutedFacts
  <2>2. /\ promised' = promised
        /\ ledger' = IF doubt THEN ledger ELSE Applied(ledger, call.kind, call.id)
        /\ undone' = undone \cup (Works(ledger) \ Works(ledger'))
    BY <1>6 DEF ExecuteReply
  <2>3. CASE doubt
    <3>1. ledger' = ledger /\ undone' = undone /\ doubt'
      BY <1>1, <2>2, <2>3
    <3>2. TypeOK'
      BY <1>1, <1>2, <2>1, <2>2, <3>1 DEF TypeOK
    <3>3. AutoHasNoTransaction' /\ LedgerIsLog' /\ OutcomeAsTold'
      BY <1>1, <1>6, <2>1, <2>2, <3>1 DEF AutoHasNoTransaction, LedgerIsLog, OutcomeAsTold
    <3>4. UsedIssued' /\ PendingOpen'
      BY <1>1, <1>4, <2>1, <3>1 DEF UsedIssued, Used, PendingOpen
    <3> QED
      BY <1>3, <3>2, <3>3, <3>4
  <2>4. CASE ~doubt
    <3>1. ledger = log /\ ledger' = log' /\ ~doubt'
      BY <1>1, <2>1, <2>2, <2>4 DEF LedgerIsLog
    <3>2. /\ undone' \subseteq undone \cup Works(log) /\ undone' \cap Works(log') = {}
      BY <1>4, <2>1, <2>2, <3>1 DEF PendingOpen, Used
    <3>3. Works(log) \subseteq 1 .. issued /\ Works(log) \cap durable = {}
      BY <1>1, <3>1 DEF UsedIssued, Used, PendingOpen
    <3>4. TypeOK'
      <4>1. undone' \subseteq Work /\ ledger' \in Seq(Item)
        BY <1>4, <2>1, <3>1, <3>2, <3>3 DEF TypeOK
      <4> QED
        BY <1>1, <1>2, <2>1, <2>2, <4>1 DEF TypeOK
    <3>5. AutoHasNoTransaction' /\ LedgerIsLog'
      BY <1>1, <1>6, <3>1 DEF AutoHasNoTransaction, LedgerIsLog
    <3>6. OutcomeAsTold'
      BY <2>1, <2>2, <3>2, <3>3 DEF OutcomeAsTold
    <3>7. UsedIssued' /\ PendingOpen'
      BY <1>1, <1>4, <2>1, <3>1, <3>2, <3>3 DEF UsedIssued, Used, PendingOpen
    <3> QED
      BY <1>3, <3>4, <3>5, <3>6, <3>7
  <2> QED
    BY <2>3, <2>4
<1> QED
  BY <1>5, <1>6

LEMMA ExecuteUnparsableInv ==
  ASSUME SessionInv, ExecuteUnparsable
  PROVE  SessionInv'
<1> USE DEF SessionInv
<1>1. /\ call' = [call EXCEPT !.phase = "close"]
      /\ call.phase = "execute" /\ ~bad /\ Executed /\ doubt' = ~auto
      /\ UNCHANGED <<bad, auto, handles, orphans, issued, ledger, promised, undone>>
  BY DEF ExecuteUnparsable
<1>2. /\ call' \in CallType
      /\ call'.phase = "close" /\ call'.kind = call.kind /\ call'.id = call.id
  BY <1>1, CallMoves DEF TypeOK, Phases
<1>3. CallTyped' /\ CallIsFresh' /\ OneHandle'
  BY <1>1, <1>2 DEF CallTyped, CallIsFresh, OneHandle
<1>4. Own \subseteq 1 .. issued /\ Own \cap Used = {} /\ 1 .. issued \subseteq Work
  BY <1>1, OwnFacts DEF TypeOK, Work
<1>5. /\ log' \in Seq(Item) /\ Works(log') \subseteq Works(log) \cup Own
      /\ durable' \subseteq durable \cup Own /\ durable \subseteq durable'
      /\ auto => log' = log
      /\ ~auto => durable' = durable
  BY <1>1, ExecutedFacts
<1>6. TypeOK'
  BY <1>1, <1>2, <1>4, <1>5 DEF TypeOK
<1>7. AutoHasNoTransaction' /\ LedgerIsLog'
  BY <1>1, <1>5 DEF AutoHasNoTransaction, LedgerIsLog, TypeOK
<1>8. OutcomeAsTold' /\ UsedIssued'
  BY <1>1, <1>4, <1>5 DEF OutcomeAsTold, UsedIssued, Used
<1>9. PendingOpen'
  BY <1>1, <1>4, <1>5 DEF PendingOpen, Used
<1> QED
  BY <1>3, <1>6, <1>7, <1>8, <1>9

LEMMA ExecuteErrorInv ==
  ASSUME SessionInv, ExecuteError
  PROVE  SessionInv'
<1> USE DEF SessionInv
<1>1. /\ call' = [call EXCEPT !.phase = "close"] /\ call.phase = "execute" /\ ~bad /\ NotExecuted
      /\ UNCHANGED <<bad, auto, handles, orphans, issued, log, durable, ledger, doubt, promised>>
  BY DEF ExecuteError, serverVars
<1>2. /\ call' \in CallType
      /\ call'.phase = "close" /\ call'.kind = call.kind /\ call'.id = call.id
  BY <1>1, CallMoves DEF TypeOK, Phases
<1>3. CallTyped' /\ CallIsFresh' /\ OneHandle'
  BY <1>1, <1>2 DEF CallTyped, CallIsFresh, OneHandle
<1>4. Known' /\ undone' \subseteq Work
  BY <1>1, NotExecutedFacts
<1>5. TypeOK'
  BY <1>1, <1>2, <1>4 DEF TypeOK
<1> QED
  BY <1>3, <1>4, <1>5 DEF Known

LEMMA CloseReplyInv ==
  ASSUME SessionInv, CloseReply
  PROVE  SessionInv'
<1> USE DEF SessionInv
<1>1. /\ call' = NoCall /\ call.phase = "close" /\ ~bad /\ handles' = handles - 1
      /\ UNCHANGED <<bad, auto, orphans, issued, log, durable, ledger, doubt, promised, undone>>
  BY DEF CloseReply, appVars
<1>2. handles' = orphans /\ handles' \in Nat
  BY <1>1 DEF OneHandle, TypeOK
<1>3. Known'
  BY <1>1, KnownUnchanged
<1>4. TypeOK'
  BY <1>1, <1>2, NoCallTyped DEF TypeOK
<1>5. CallTyped' /\ CallIsFresh' /\ OneHandle'
  BY <1>1, <1>2, NoCallTyped DEF CallTyped, CallIsFresh, OneHandle, TypeOK
<1> QED
  BY <1>3, <1>4, <1>5 DEF Known

LEMMA CloseErrorInv ==
  ASSUME SessionInv, CloseError
  PROVE  SessionInv'
<1> USE DEF SessionInv
<1>1. /\ call' = NoCall /\ call.phase = "close" /\ ~bad
      /\ orphans < MaxOrphans /\ orphans' = orphans + 1
      /\ UNCHANGED <<bad, auto, handles, issued, log, durable, ledger, doubt, promised, undone>>
  BY DEF CloseError, appVars
<1>2. handles' = orphans' /\ orphans' \in 0 .. MaxOrphans
  BY <1>1, SessionConstants DEF OneHandle, TypeOK
<1>3. Known'
  BY <1>1, KnownUnchanged
<1>4. TypeOK'
  BY <1>1, <1>2, NoCallTyped DEF TypeOK
<1>5. CallTyped' /\ CallIsFresh' /\ OneHandle'
  BY <1>1, <1>2, NoCallTyped DEF CallTyped, CallIsFresh, OneHandle, TypeOK
<1> QED
  BY <1>3, <1>4, <1>5 DEF Known

LEMMA ExecFailsInv ==
  ASSUME SessionInv, NEW effect \in BOOLEAN, ExecFails(effect)
  PROVE  SessionInv'
<1> USE DEF SessionInv
<1>1. /\ call' = NoCall /\ call.phase # "idle" /\ bad' = TRUE
      /\ UNCHANGED <<auto, handles, orphans, issued, ledger, doubt, promised, undone>>
  BY DEF ExecFails, appVars
<1>2. CallTyped' /\ CallIsFresh' /\ OneHandle'
  BY <1>1, NoCallTyped DEF CallTyped, CallIsFresh, OneHandle
<1>3. /\ log' \in Seq(Item) /\ Works(log') \subseteq Works(log) \cup (Own \ Used)
      /\ durable' \subseteq durable \cup (Own \ Used) /\ durable \subseteq durable'
      /\ auto => log' = log
  <2>1. CASE effect
    <3>1. call.phase = "execute" /\ Executed
      BY <2>1 DEF ExecFails
    <3> QED
      BY <3>1, ExecutedFacts, OwnFacts
  <2>2. CASE ~effect
    BY <2>2 DEF ExecFails, TypeOK
  <2> QED
    BY <2>1, <2>2
<1>4. Own \subseteq 1 .. issued /\ 1 .. issued \subseteq Work
  BY <1>1, OwnFacts DEF TypeOK, Work
<1>5. TypeOK'
  BY <1>1, <1>3, <1>4, NoCallTyped DEF TypeOK
<1>6. AutoHasNoTransaction' /\ LedgerIsLog'
  BY <1>1, <1>3 DEF AutoHasNoTransaction, LedgerIsLog
<1>7. OutcomeAsTold' /\ UsedIssued'
  BY <1>1, <1>3, <1>4 DEF OutcomeAsTold, UsedIssued, Used
<1>8. PendingOpen'
  BY <1>1, <1>3 DEF PendingOpen, Used
<1> QED
  BY <1>2, <1>5, <1>6, <1>7, <1>8

LEMMA EndTransactionInv ==
  ASSUME SessionInv, NEW commit \in BOOLEAN, EndTransaction(commit)
  PROVE  SessionInv'
<1> USE DEF SessionInv
<1>1. /\ call = NoCall /\ ~auto /\ ~bad /\ log' = <<>> /\ ledger' = <<>> /\ ~doubt'
      /\ doubt' \in BOOLEAN
      /\ UNCHANGED <<bad, auto, call, handles, orphans, issued>>
  BY DEF EndTransaction, Ended
<1>2. /\ durable' = IF commit THEN durable \cup Works(log) ELSE durable
      /\ promised' = IF commit /\ ~doubt THEN promised \cup Works(ledger) ELSE promised
      /\ undone' = IF commit THEN undone ELSE undone \cup Works(ledger)
  BY DEF EndTransaction, TranType
<1>3. Works(log) \subseteq 1 .. issued /\ Works(ledger) \subseteq 1 .. issued
  BY DEF UsedIssued, Used
<1>4. 1 .. issued \subseteq Work
  BY DEF TypeOK, Work
<1>5. TypeOK'
  BY <1>1, <1>2, <1>3, <1>4, EmptyWorks DEF TypeOK
<1>6. CallTyped' /\ CallIsFresh' /\ OneHandle'
  BY <1>1, NoCallTyped DEF CallTyped, CallIsFresh, OneHandle
<1>7. AutoHasNoTransaction' /\ LedgerIsLog'
  BY <1>1 DEF AutoHasNoTransaction, LedgerIsLog
<1>8. UsedIssued' /\ PendingOpen'
  BY <1>1, <1>2, <1>3, EmptyWorks DEF UsedIssued, Used, PendingOpen
<1>9. OutcomeAsTold'
  BY <1>1, <1>2 DEF OutcomeAsTold, PendingOpen, LedgerIsLog
<1> QED
  BY <1>5, <1>6, <1>7, <1>8, <1>9

\* The transaction ended, but the application takes nothing from it.
LEMMA EndTransactionUnparsableInv ==
  ASSUME SessionInv, NEW commit \in BOOLEAN, EndTransactionUnparsable(commit)
  PROVE  SessionInv'
<1> USE DEF SessionInv
<1>1. /\ call = NoCall /\ ~auto /\ ~bad /\ log' = <<>> /\ ledger' = <<>> /\ doubt' = TRUE
      /\ UNCHANGED <<bad, auto, call, handles, orphans, issued, promised, undone>>
  BY DEF EndTransactionUnparsable
<1>2. durable' = IF commit THEN durable \cup Works(log) ELSE durable
  BY DEF EndTransactionUnparsable, TranType
<1>3. Works(log) \subseteq 1 .. issued
  BY DEF UsedIssued, Used
<1>4. 1 .. issued \subseteq Work
  BY DEF TypeOK, Work
<1>5. TypeOK'
  BY <1>1, <1>2, <1>3, <1>4, EmptyWorks DEF TypeOK
<1>6. CallTyped' /\ CallIsFresh' /\ OneHandle'
  BY <1>1, NoCallTyped DEF CallTyped, CallIsFresh, OneHandle
<1>7. AutoHasNoTransaction' /\ LedgerIsLog'
  BY <1>1 DEF AutoHasNoTransaction, LedgerIsLog
<1>8. UsedIssued' /\ PendingOpen'
  BY <1>1, <1>2, <1>3, EmptyWorks DEF UsedIssued, Used, PendingOpen
<1>9. OutcomeAsTold'
  BY <1>1, <1>2 DEF OutcomeAsTold, PendingOpen, UsedIssued, Used
<1> QED
  BY <1>5, <1>6, <1>7, <1>8, <1>9

LEMMA EndTransactionFailsInv ==
  ASSUME SessionInv, NEW commit \in BOOLEAN, NEW effect \in BOOLEAN,
         EndTransactionFails(commit, effect)
  PROVE  SessionInv'
<1> USE DEF SessionInv
<1>1. /\ call = NoCall /\ ~auto /\ bad' = TRUE
      /\ UNCHANGED <<auto, call, handles, orphans, issued, ledger, doubt, promised, undone>>
  BY DEF EndTransactionFails, appVars
<1>2. /\ log' = log \/ log' = <<>>
      /\ durable' = durable \/ durable' = durable \cup Works(log)
  BY DEF EndTransactionFails
<1>3. /\ log' \in Seq(Item) /\ Works(log') \subseteq Works(log)
  BY <1>2, EmptyWorks DEF TypeOK
<1>4. Works(log) \subseteq 1 .. issued /\ 1 .. issued \subseteq Work
  BY DEF UsedIssued, Used, TypeOK, Work
<1>5. TypeOK'
  BY <1>1, <1>2, <1>3, <1>4 DEF TypeOK
<1>6. CallTyped' /\ CallIsFresh' /\ OneHandle'
  BY <1>1, NoCallTyped DEF CallTyped, CallIsFresh, OneHandle
<1>7. AutoHasNoTransaction' /\ LedgerIsLog'
  BY <1>1 DEF AutoHasNoTransaction, LedgerIsLog
<1>8. UsedIssued' /\ PendingOpen' /\ OutcomeAsTold'
  BY <1>1, <1>2, <1>3, <1>4 DEF UsedIssued, Used, PendingOpen, OutcomeAsTold
<1> QED
  BY <1>5, <1>6, <1>7, <1>8

LEMMA EndTransactionBadConnInv ==
  ASSUME SessionInv, EndTransactionBadConn
  PROVE  SessionInv'
<1> USE DEF SessionInv
<1>1. /\ call = NoCall /\ ~auto /\ bad /\ ledger' = <<>> /\ ~doubt' /\ doubt' \in BOOLEAN
      /\ UNCHANGED <<bad, auto, call, handles, orphans, log, durable, issued, promised, undone>>
  BY DEF EndTransactionBadConn, serverVars
<1>2. TypeOK'
  BY <1>1, EmptyWorks DEF TypeOK
<1>3. CallTyped' /\ CallIsFresh' /\ OneHandle'
  BY <1>1, NoCallTyped DEF CallTyped, CallIsFresh, OneHandle
<1>4. AutoHasNoTransaction' /\ LedgerIsLog' /\ OutcomeAsTold'
  BY <1>1 DEF AutoHasNoTransaction, LedgerIsLog, OutcomeAsTold
<1>5. UsedIssued' /\ PendingOpen'
  BY <1>1, EmptyWorks DEF UsedIssued, Used, PendingOpen
<1> QED
  BY <1>2, <1>3, <1>4, <1>5

LEMMA ServerDropsInv ==
  ASSUME SessionInv, ServerDrops
  PROVE  SessionInv'
<1> USE DEF SessionInv
<1>1. /\ bad /\ log' = <<>>
      /\ UNCHANGED <<bad, auto, call, handles, orphans, durable, issued, ledger, doubt, promised, undone>>
  BY DEF ServerDrops, appVars
<1>2. TypeOK'
  BY <1>1, EmptyWorks DEF TypeOK
<1>3. CallTyped' /\ OneHandle'
  BY <1>1 DEF CallTyped, OneHandle
<1>4. Used' \subseteq Used
  BY <1>1, EmptyWorks DEF Used
<1>5. CallIsFresh' /\ UsedIssued'
  BY <1>1, <1>4 DEF CallIsFresh, UsedIssued
<1>6. AutoHasNoTransaction' /\ LedgerIsLog' /\ OutcomeAsTold'
  BY <1>1 DEF AutoHasNoTransaction, LedgerIsLog, OutcomeAsTold
<1>7. PendingOpen'
  BY <1>1, EmptyWorks DEF PendingOpen
<1> QED
  BY <1>2, <1>3, <1>5, <1>6, <1>7

LEMMA SetAutoCommitInv ==
  ASSUME SessionInv, SetAutoCommit
  PROVE  SessionInv'
<1> USE DEF SessionInv
<1>1. /\ call = NoCall /\ log = <<>> /\ ledger = <<>> /\ ~doubt /\ auto' = ~auto
      /\ UNCHANGED <<bad, call, handles, orphans, log, durable, issued, ledger, doubt, promised, undone>>
  BY DEF SetAutoCommit, serverVars, appVars
<1>2. TypeOK'
  BY <1>1 DEF TypeOK
<1>3. CallTyped' /\ OneHandle'
  BY <1>1, NoCallTyped DEF CallTyped, OneHandle
<1>4. CallIsFresh'
  BY <1>1, NoCallTyped DEF CallIsFresh
<1>5. Used' = Used
  BY <1>1 DEF Used
<1>6. AutoHasNoTransaction' /\ LedgerIsLog' /\ OutcomeAsTold' /\ UsedIssued' /\ PendingOpen'
  BY <1>1, <1>5 DEF AutoHasNoTransaction, LedgerIsLog, OutcomeAsTold, UsedIssued, PendingOpen
<1> QED
  BY <1>2, <1>3, <1>4, <1>6

\* Every step of Exec, of a transaction's end, of the server and of the network
\* preserves the invariant.
LEMMA SessionStep == SessionInv /\ [Next]_vars => SessionInv'
<1> SUFFICES ASSUME SessionInv, [Next]_vars PROVE SessionInv'
  OBVIOUS
<1>1. CASE UNCHANGED vars
  <2>1. /\ UNCHANGED <<bad, auto, call, issued, log, durable, ledger, doubt, promised, undone>>
        /\ UNCHANGED <<handles, orphans>>
    BY <1>1 DEF vars, serverVars, appVars
  <2>2. Known' /\ Used' = Used
    BY <2>1, KnownUnchanged
  <2>3. TypeOK' /\ CallTyped' /\ CallIsFresh' /\ OneHandle'
    BY <2>1, <2>2 DEF SessionInv, TypeOK, CallTyped, CallIsFresh, OneHandle
  <2> QED
    BY <2>2, <2>3 DEF SessionInv, Known
<1> QED
  BY <1>1, ExecBeginInv, PrepareReplyInv, PrepareErrorInv, ExecuteReplyInv,
     ExecuteUnparsableInv, ExecuteErrorInv, CloseReplyInv, CloseErrorInv, ExecFailsInv,
     EndTransactionInv, EndTransactionUnparsableInv, EndTransactionFailsInv, EndTransactionBadConnInv,
     ServerDropsInv, SetAutoCommitInv
  DEF Next

-----------------------------------------------------------------------------
(* The theorems                                                            *)

\* The state stays within its types, whatever the server and the network do.
THEOREM SessionTyped == Spec => []TypeOK
<1>1. SessionInv => TypeOK
  BY DEF SessionInv
<1> QED
  BY <1>1, InitSession, SessionStep, PTL DEF Spec

\* What Exec, Commit, Rollback and RollbackToSavepoint told the application is
\* what happens: what it was told is durable is, and what it was told has no
\* effect never becomes durable, for any number of statements and savepoints and
\* wherever the connection is lost (Conn.Exec, Conn.endTransaction).
THEOREM ToldTheTruth == Spec => []OutcomeAsTold
<1>1. SessionInv => OutcomeAsTold
  BY DEF SessionInv
<1> QED
  BY <1>1, InitSession, SessionStep, PTL DEF Spec

\* On a good connection, with no unparsable reply, the calls' results determine
\* the server's open transaction, savepoints included.
THEOREM LedgerMatches == Spec => []LedgerIsLog
<1>1. SessionInv => LedgerIsLog
  BY DEF SessionInv
<1> QED
  BY <1>1, InitSession, SessionStep, PTL DEF Spec

\* A handle is open only while a call of its own is in progress.
LEMMA SessionClosed == SessionInv => StatementsClosed
  BY NoCallTyped DEF SessionInv, OneHandle, StatementsClosed, TypeOK

\* Between calls the server holds no handle of the connection but those whose
\* PREPARE reply could not be parsed and those it refused to close: the deferred
\* Stmt.Close of Conn.Exec closes the statement on every path.
THEOREM HandlesClosed == Spec => []StatementsClosed
<1> QED
  BY SessionClosed, InitSession, SessionStep, PTL DEF Spec

-----------------------------------------------------------------------------
(* The session's parameters                                                *)

\* Division with a positive divisor: the quotient is the largest whole number of
\* times the divisor goes into the dividend.
LEMMA Quotient ==
  ASSUME NEW d \in Nat, NEW n \in Nat \ {0}
  PROVE  /\ d \div n \in Nat
         /\ (d \div n) * n <= d
         /\ d < (d \div n + 1) * n
  OBVIOUS

\* The conversion to int32 keeps every number that fits.
LEMMA Int32Keeps ==
  ASSUME P!ParamsConstants, NEW v \in 0 .. MaxMs
  PROVE  P!Int32(v) = v
<1>1. /\ v + MaxMs + 1 \in 0 .. 2 * (MaxMs + 1) - 1
      /\ 2 * (MaxMs + 1) \in Nat \ {0}
  BY DEF P!ParamsConstants
<1>2. ASSUME NEW a \in Nat, NEW b \in Nat \ {0}, a < b PROVE a % b = a
  BY <1>2
<1>3. (v + MaxMs + 1) % (2 * (MaxMs + 1)) = v + MaxMs + 1
  BY <1>1, <1>2
<1> QED
  BY <1>3 DEF P!Int32, P!ParamsConstants

\* LockTimeoutMs, clamp and conversion together, is exact for every duration: the
\* whole milliseconds of it, MaxInt32 when they are more, -1 below zero.
LEMMA LockTimeoutFits ==
  ASSUME P!ParamsConstants, NEW d \in Int
  PROVE  P!Fits(d, P!LockTimeoutMs(d)) /\ P!LockTimeoutMs(d) \in Int
<1> DEFINE v == d \div NsPerMs
<1>1. CASE d < 0
  BY <1>1 DEF P!Fits, P!LockTimeoutMs
<1>2. CASE d >= 0
  <2>1. d \in Nat /\ NsPerMs \in Nat \ {0} /\ MaxMs \in Nat \ {0}
    BY <1>2 DEF P!ParamsConstants
  <2>2. v \in Nat /\ v * NsPerMs <= d /\ d < (v + 1) * NsPerMs
    BY <2>1, Quotient
  <2>3. CASE v < MaxMs
    <3>1. P!LockTimeoutMs(d) = v
      BY <1>2, <2>1, <2>2, <2>3, Int32Keeps DEF P!LockTimeoutMs
    <3> QED
      BY <1>2, <2>1, <2>2, <2>3, <3>1 DEF P!Fits
  <2>4. CASE v >= MaxMs
    <3>1. P!LockTimeoutMs(d) = MaxMs
      BY <1>2, <2>1, <2>2, <2>4 DEF P!LockTimeoutMs
    <3>2. MaxMs * NsPerMs <= v * NsPerMs
      BY <2>1, <2>2, <2>4
    <3>3. MaxMs * NsPerMs <= d
      <4>1. MaxMs * NsPerMs \in Int /\ v * NsPerMs \in Int
        BY <2>1, <2>2
      <4> QED
        BY <2>1, <2>2, <3>2, <4>1
    <3> QED
      BY <1>2, <2>1, <3>1, <3>3 DEF P!Fits
  <2> QED
    BY <2>1, <2>2, <2>3, <2>4
<1> QED
  BY <1>1, <1>2

\* A fresh session: the default level, and no lock timeout.
LEMMA InitParams == P!Init => P!TypeOK /\ P!ParamsAsAsked
<1> SUFFICES ASSUME P!Init PROVE P!TypeOK /\ P!ParamsAsAsked
  OBVIOUS
<1>1. P!TypeOK
  <2>1. v7 \in BOOLEAN /\ paramsBad \in BOOLEAN
    BY DEF P!Init
  <2>2. asked = [iso |-> 4, lock |-> -1] /\ unsure = {} /\ lock = -1 /\ iso = 4 /\ read = 4
    BY DEF P!Init, P!ReadCommitted
  <2> QED
    BY <2>1, <2>2 DEF P!TypeOK, P!Levels, P!ReadCommitted, P!Serializable
<1>2. asked.lock = -1 /\ asked.iso = iso /\ lock = -1
  BY DEF P!Init
<1>3. P!Fits(-1, -1)
  BY DEF P!Fits
<1> QED
  BY <1>1, <1>2, <1>3 DEF P!ParamsAsAsked

\* Every call, whether its reply comes, cannot be parsed or is lost, keeps the
\* parameters on the server within their types and as asked.
LEMMA ParamsStep ==
  ASSUME P!ParamsConstants, P!TypeOK, P!ParamsAsAsked, [P!Next]_(P!vars)
  PROVE  P!TypeOK' /\ P!ParamsAsAsked'
<1>1. ASSUME NEW d \in Durations, P!SetLockTimeout(d)
      PROVE  P!TypeOK' /\ P!ParamsAsAsked'
  <2>1. d \in Int /\ P!Fits(d, P!LockTimeoutMs(d)) /\ P!LockTimeoutMs(d) \in Int
    BY LockTimeoutFits DEF P!ParamsConstants
  <2>2. lock' = P!LockTimeoutMs(d) /\ UNCHANGED <<v7, iso, read>>
    BY <1>1 DEF P!SetLockTimeout
  <2>3. CASE asked' = [asked EXCEPT !["lock"] = d] /\ unsure' = unsure \ {"lock"} /\ paramsBad' = paramsBad
    BY <2>1, <2>2, <2>3 DEF P!TypeOK, P!ParamsAsAsked, P!Fits
  <2>4. CASE unsure' = unsure \cup {"lock"} /\ paramsBad' \in BOOLEAN /\ asked' = asked
    BY <2>1, <2>2, <2>4 DEF P!TypeOK, P!ParamsAsAsked, P!Fits
  <2> QED
    BY <1>1, <2>3, <2>4 DEF P!SetLockTimeout, P!Returns
<1>2. ASSUME NEW lv \in 0 .. P!Serializable + 1, P!SetIsolationLevel(lv)
      PROVE  P!TypeOK' /\ P!ParamsAsAsked'
  <2>1. lv \in P!Levels /\ (v7 => lv >= P!ReadCommitted)
    BY <1>2 DEF P!SetIsolationLevel, P!InRange, P!MinLevel, P!Levels, P!ReadCommitted, P!Serializable
  <2>2. iso' = lv /\ UNCHANGED <<v7, lock, read>>
    BY <1>2 DEF P!SetIsolationLevel
  <2>3. CASE asked' = [asked EXCEPT !["iso"] = lv] /\ unsure' = unsure \ {"iso"} /\ paramsBad' = paramsBad
    BY <2>1, <2>2, <2>3 DEF P!TypeOK, P!ParamsAsAsked, P!Fits
  <2>4. CASE unsure' = unsure \cup {"iso"} /\ paramsBad' \in BOOLEAN /\ asked' = asked
    BY <2>1, <2>2, <2>4 DEF P!TypeOK, P!ParamsAsAsked, P!Fits
  <2> QED
    BY <1>2, <2>3, <2>4 DEF P!SetIsolationLevel, P!Returns
<1>3. CASE P!IsolationLevel
  BY <1>3 DEF P!IsolationLevel, P!TypeOK, P!ParamsAsAsked, P!Fits
<1>4. CASE P!Fails
  BY <1>4 DEF P!Fails, P!TypeOK, P!ParamsAsAsked, P!Fits
<1>5. CASE UNCHANGED P!vars
  BY <1>5 DEF P!vars, P!TypeOK, P!ParamsAsAsked, P!Fits
<1> QED
  BY <1>1, <1>2, <1>3, <1>4, <1>5 DEF P!Next

-----------------------------------------------------------------------------
(* Sequences one after another                                             *)

\* Induction over a set of numbers, from b on: the numbers that are not in it
\* have no least.
LEMMA SetInduction ==
  ASSUME NEW T, NEW b \in Nat, b \in T,
         \A m \in Nat : b <= m /\ m \in T => m + 1 \in T
  PROVE  \A m \in Nat : b <= m => m \in T
<1> DEFINE U == {m \in Nat : b <= m /\ m \notin T}
<1> SUFFICES ASSUME U # {} PROVE FALSE
  OBVIOUS
<1>1. U \subseteq Nat
  OBVIOUS
<1>2. PICK x \in U : \A y \in U : ~(<<y, x>> \in OpToRel(<, Nat))
  BY <1>1, NatLessThanWellFounded, WFMin
<1>3. x \in Nat /\ b <= x /\ x \notin T
  OBVIOUS
<1>4. x # b
  BY <1>3
<1>5. x - 1 \in Nat /\ b <= x - 1 /\ (x - 1) + 1 = x /\ x - 1 < x
  BY <1>3, <1>4
<1>6. x - 1 \notin T
  BY <1>3, <1>5
<1>7. x - 1 \in U
  BY <1>5, <1>6
<1>8. <<x - 1, x>> \in OpToRel(<, Nat)
  BY <1>3, <1>5 DEF OpToRel
<1> QED
  BY <1>2, <1>7, <1>8

\* The function that FlattenSeq recurses over exists.
LEMMA FlattenDef ==
  ASSUME NEW s, Len(s) \in Nat \ {0}
  PROVE  \E f : /\ f = [i \in 1 .. Len(s) |-> IF i = 1 THEN s[i] ELSE f[i - 1] \o s[i]]
                /\ FlattenSeq(s) = f[Len(s)]
<1> DEFINE Step(f, i) == IF i = 1 THEN s[i] ELSE f[i - 1] \o s[i]
           T == {m \in Nat \ {0} : \E g : g = [i \in 1 .. m |-> Step(g, i)]}
<1>1. 1 \in T
  <2> DEFINE g == [i \in 1 .. 1 |-> s[i]]
  <2>1. g = [i \in 1 .. 1 |-> Step(g, i)]
    OBVIOUS
  <2> HIDE DEF g
  <2>2. \E x : x = [i \in 1 .. 1 |-> Step(x, i)]
    BY <2>1, Zenon
  <2>3. 1 \in Nat \ {0}
    OBVIOUS
  <2> QED
    BY <2>2, <2>3, Zenon
<1>2. ASSUME NEW m \in Nat \ {0}, m \in T PROVE m + 1 \in T
  <2>1. PICK g : g = [i \in 1 .. m |-> Step(g, i)]
    BY <1>2
  <2> DEFINE h == [i \in 1 .. m + 1 |-> IF i = m + 1 THEN g[m] \o s[m + 1] ELSE g[i]]
  <2>2. ASSUME NEW i \in 1 .. m + 1 PROVE h[i] = Step(h, i)
    <3>1. CASE i = m + 1
      <4>1. i # 1 /\ i - 1 = m /\ m \in 1 .. m + 1 /\ m # m + 1
        BY <3>1
      <4> QED
        BY <3>1, <4>1
    <3>2. CASE i # m + 1
      <4>1. i \in 1 .. m
        BY <3>2
      <4>2. h[i] = g[i] /\ g[i] = Step(g, i)
        BY <2>1, <3>2, <4>1
      <4>3. i # 1 => i - 1 \in 1 .. m /\ i - 1 \in 1 .. m + 1 /\ i - 1 # m + 1
        BY <4>1
      <4>4. i # 1 => h[i - 1] = g[i - 1]
        BY <4>3
      <4> HIDE DEF h
      <4> QED
        BY <4>2, <4>4
    <3> QED
      BY <3>1, <3>2
  <2>3. h = [i \in 1 .. m + 1 |-> h[i]]
    OBVIOUS
  <2> HIDE DEF h
  <2>4. h = [i \in 1 .. m + 1 |-> Step(h, i)]
    BY <2>2, <2>3, Zenon
  <2>5. \E x : x = [i \in 1 .. m + 1 |-> Step(x, i)]
    BY <2>4, Zenon
  <2>6. m + 1 \in Nat \ {0}
    OBVIOUS
  <2> QED
    BY <2>5, <2>6, Zenon
<1>3. Len(s) \in T
  <2> HIDE DEF T
  <2>1. 1 \in Nat /\ \A m \in Nat : 1 <= m => m \in Nat \ {0}
    OBVIOUS
  <2>2. Len(s) \in Nat /\ 1 <= Len(s)
    OBVIOUS
  <2> QED
    BY <1>1, <1>2, <2>1, <2>2, SetInduction, Zenon
<1> DEFINE f == CHOOSE f : f = [i \in 1 .. Len(s) |-> IF i = 1 THEN s[i] ELSE f[i - 1] \o s[i]]
<1>4. FlattenSeq(s) = f[Len(s)]
  BY Zenon DEF FlattenSeq
<1>5. f = [i \in 1 .. Len(s) |-> IF i = 1 THEN s[i] ELSE f[i - 1] \o s[i]]
  BY <1>3, Zenon
<1> QED
  BY <1>4, <1>5, Zenon

\* Positions in the block of p that follows x, and in one before z.
LEMMA InBlock ==
  ASSUME NEW x \in Nat, NEW p \in Nat, NEW j \in 1 .. p
  PROVE  x + j \in 1 .. x + p /\ ~(x + j <= x) /\ (x + j) - x = j
  OBVIOUS

LEMMA BeforeBlock ==
  ASSUME NEW x \in Nat, NEW p \in Nat, NEW j \in 1 .. p, NEW y \in Nat, NEW z \in Nat,
         z = x + p + y
  PROVE  x + j \in 1 .. z + p /\ x + j <= z
  OBVIOUS

\* t is the sequences of s, each of length p, one after another.
InBlocks(t, s, p, Elem) ==
  /\ t \in Seq(Elem) /\ Len(t) = Len(s) * p
  /\ \A i \in 1 .. Len(s), j \in 1 .. p : t[(i - 1) * p + j] = s[i][j]
AllLong(s, p) == \A i \in 1 .. Len(s) : Len(s[i]) = p

LEMMA FlattenUniform ==
  ASSUME NEW Elem, NEW p \in Nat, NEW s \in Seq(Seq(Elem)), s # <<>>, AllLong(s, p)
  PROVE  InBlocks(FlattenSeq(s), s, p, Elem)
<1>1. Len(s) \in Nat \ {0}
  BY EmptySeq
<1>2. PICK f : /\ f = [i \in 1 .. Len(s) |-> IF i = 1 THEN s[i] ELSE f[i - 1] \o s[i]]
               /\ FlattenSeq(s) = f[Len(s)]
  BY <1>1, FlattenDef, Zenon
<1>0. \A i \in 1 .. Len(s) : f[i] = IF i = 1 THEN s[i] ELSE f[i - 1] \o s[i]
  BY <1>2, Zenon
<1> DEFINE Good(m) == /\ f[m] \in Seq(Elem) /\ Len(f[m]) = m * p
                      /\ \A i \in 1 .. m, j \in 1 .. p : f[m][(i - 1) * p + j] = s[i][j]
           T == {m \in Nat \ {0} : m <= Len(s) => Good(m)}
<1>3. 1 \in T
  <2>1. 1 \in 1 .. Len(s)
    BY <1>1
  <2>2. f[1] = s[1] /\ s[1] \in Seq(Elem) /\ Len(s[1]) = p
    BY <1>2, <2>1 DEF AllLong
  <2>3. ASSUME NEW i \in 1 .. 1, NEW j \in 1 .. p PROVE f[1][(i - 1) * p + j] = s[i][j]
    <3>1. i = 1 /\ (i - 1) * p + j = j
      OBVIOUS
    <3> QED
      BY <2>2, <3>1
  <2>4. Good(1)
    BY <2>2, <2>3
  <2>5. 1 \in Nat \ {0}
    OBVIOUS
  <2> QED
    BY <2>4, <2>5, Zenon
<1>4. ASSUME NEW m \in Nat \ {0}, m \in T PROVE m + 1 \in T
  <2> SUFFICES ASSUME m + 1 <= Len(s) PROVE Good(m + 1)
    OBVIOUS
  <2>1. m \in 1 .. Len(s) /\ m + 1 \in 1 .. Len(s) /\ m + 1 # 1 /\ m + 1 - 1 = m
    BY <1>1
  <2>2. Good(m)
    BY <1>4, <2>1
  <2>3. f[m + 1] = f[m] \o s[m + 1] /\ s[m + 1] \in Seq(Elem) /\ Len(s[m + 1]) = p
    <3>1. f[m + 1] = f[m] \o s[m + 1]
      <4>1. PICK k \in 1 .. Len(s) : k = m + 1 /\ k # 1 /\ k - 1 = m
        BY <2>1
      <4>2. f[k] = f[k - 1] \o s[k]
        BY <1>0, <4>1, Zenon
      <4> QED
        BY <4>1, <4>2, Zenon
    <3>2. s[m + 1] \in Seq(Elem) /\ Len(s[m + 1]) = p
      BY <2>1 DEF AllLong
    <3> QED
      BY <3>1, <3>2
  <2> DEFINE a == f[m]
             b == s[m + 1]
             c == f[m + 1]
  <2>4. a \in Seq(Elem) /\ b \in Seq(Elem) /\ c = a \o b /\ Len(a) = m * p /\ Len(b) = p
    BY <2>2, <2>3
  <2> HIDE DEF a, b, c
  <2>5. /\ c \in Seq(Elem) /\ Len(c) = m * p + p
        /\ \A k \in 1 .. m * p + p : c[k] = IF k <= m * p THEN a[k] ELSE b[k - m * p]
    <3>1. /\ c \in Seq(Elem) /\ Len(c) = Len(a) + Len(b)
          /\ \A k \in 1 .. Len(a) + Len(b) :
               c[k] = IF k <= Len(a) THEN a[k] ELSE b[k - Len(a)]
      BY <2>4, ConcatProperties, Zenon
    <3> QED
      BY <2>4, <3>1, Zenon
  <2>6. (m + 1) * p = m * p + p /\ m * p \in Nat
    OBVIOUS
  <2>7. ASSUME NEW i \in 1 .. m + 1, NEW j \in 1 .. p PROVE c[(i - 1) * p + j] = s[i][j]
    <3>1. CASE i = m + 1
      <4>1. (i - 1) * p + j = m * p + j
        BY <3>1
      <4>2. m * p + j \in 1 .. m * p + p /\ ~(m * p + j <= m * p) /\ (m * p + j) - m * p = j
        BY <2>6, InBlock
      <4>3. c[m * p + j] = b[j]
        BY <2>5, <4>2
      <4> QED
        BY <3>1, <4>1, <4>3 DEF b
    <3>2. CASE i # m + 1
      <4>1. i \in 1 .. m
        BY <3>2
      <4>2. PICK q \in Nat : q = i - 1
        BY <4>1
      <4>3. PICK d \in Nat : m = q + 1 + d
        <5>1. m - i \in Nat /\ m = q + 1 + (m - i)
          BY <4>1, <4>2
        <5> QED
          BY <5>1
      <4>4. m * p = q * p + p + d * p /\ q * p \in Nat /\ d * p \in Nat
        BY <4>3
      <4>5. q * p + j \in 1 .. m * p + p /\ q * p + j <= m * p
        BY <2>6, <4>4, BeforeBlock
      <4>6. c[q * p + j] = a[q * p + j]
        BY <2>5, <4>5
      <4>7. a[q * p + j] = s[i][j]
        BY <2>2, <4>1, <4>2 DEF a
      <4> QED
        BY <4>2, <4>6, <4>7
    <3> QED
      BY <3>1, <3>2
  <2> QED
    BY <2>5, <2>6, <2>7 DEF c
<1>5. Len(s) \in T
  <2> HIDE DEF T
  <2>1. 1 \in Nat /\ \A m \in Nat : 1 <= m => m \in Nat \ {0}
    OBVIOUS
  <2>2. Len(s) \in Nat /\ 1 <= Len(s)
    BY <1>1
  <2> QED
    BY <1>3, <1>4, <2>1, <2>2, SetInduction, Zenon
<1>6. Good(Len(s))
  <2>1. Len(s) <= Len(s)
    BY <1>1
  <2> QED
    BY <1>5, <2>1, Zenon
<1>7. FlattenSeq(s) = f[Len(s)]
  BY <1>2
<1>8. /\ f[Len(s)] \in Seq(Elem) /\ Len(f[Len(s)]) = Len(s) * p
      /\ \A i \in 1 .. Len(s), j \in 1 .. p : f[Len(s)][(i - 1) * p + j] = s[i][j]
  BY <1>6
<1> QED
  BY <1>7, <1>8, Zenon DEF InBlocks

-----------------------------------------------------------------------------
(* Batches                                                                 *)

\* What the server made of the request: one execution for each row, of its values.
RanRows ==
  /\ Len(replied) = Len(rows)
  /\ \A i \in DOMAIN rows : ran[i] = [j \in 1 .. rows[i] |-> <<i, j>>]

BatchInv ==
  /\ paramCount \in Nat /\ rows \in Seq(Nat)
  /\ phase \in {"call", "server", "reply", "done"}
  /\ phase = "call" => results = <<>>
  /\ phase = "server" => rows # <<>> /\ B!EveryRowFits(rows, paramCount) /\ args = B!Args
  /\ phase = "reply" => RanRows
  /\ B!ResultsAreRows

\* The arguments of a batch whose rows all fit are found paramCount at a time.
LEMMA ArgsInBlocks ==
  ASSUME paramCount \in Nat, rows \in Seq(Nat), rows # <<>>, B!EveryRowFits(rows, paramCount)
  PROVE  /\ B!Args \in Seq(Nat \X Nat) /\ Len(B!Args) = Len(rows) * paramCount
         /\ \A i \in 1 .. Len(rows), j \in 1 .. paramCount :
              B!Args[(i - 1) * paramCount + j] = <<i, j>>
<1> DEFINE s == [i \in DOMAIN rows |-> [j \in 1 .. rows[i] |-> <<i, j>>]]
<1>1. DOMAIN rows = 1 .. Len(rows) /\ Len(rows) \in Nat /\ Len(rows) # 0
  BY EmptySeq
<1>2. ASSUME NEW i \in 1 .. Len(rows)
      PROVE  /\ s[i] \in Seq(Nat \X Nat) /\ Len(s[i]) = paramCount
             /\ \A j \in 1 .. paramCount : s[i][j] = <<i, j>>
  <2>1. rows[i] = paramCount
    BY <1>1 DEF B!EveryRowFits
  <2>2. s[i] = [j \in 1 .. paramCount |-> <<i, j>>]
    BY <1>1, <2>1
  <2>3. \A j \in 1 .. paramCount : <<i, j>> \in Nat \X Nat
    BY <1>1
  <2> HIDE DEF s
  <2> QED
    BY <2>2, <2>3
<1>3. s \in Seq(Seq(Nat \X Nat)) /\ Len(s) = Len(rows) /\ s # <<>>
  <2>1. s = [i \in 1 .. Len(rows) |-> s[i]]
    BY <1>1
  <2> HIDE DEF s
  <2>2. s \in Seq(Seq(Nat \X Nat)) /\ Len(s) = Len(rows)
    BY <1>1, <1>2, <2>1
  <2> QED
    BY <1>1, <2>2
<1>4. B!Args = FlattenSeq(s)
  BY Zenon DEF B!Args, B!FlattenSeq, FlattenSeq
<1> HIDE DEF s
<1>5. AllLong(s, paramCount)
  BY <1>2, <1>3, Zenon DEF AllLong
<1>6. InBlocks(FlattenSeq(s), s, paramCount, Nat \X Nat)
  BY <1>3, <1>5, FlattenUniform, Zenon
<1>7. \A i \in 1 .. Len(rows), j \in 1 .. paramCount :
        FlattenSeq(s)[(i - 1) * paramCount + j] = <<i, j>>
  BY <1>2, <1>3, <1>6, Zenon DEF InBlocks
<1> QED
  BY <1>3, <1>4, <1>6, <1>7, Zenon DEF InBlocks

LEMMA WholeBlocks ==
  ASSUME NEW k \in Nat, NEW p \in Nat \ {0}
  PROVE  (k * p) \div p = k
  OBVIOUS

\* The server's cut of the arguments gives back the rows.
LEMMA ServeRows ==
  ASSUME BatchInv, B!Serve
  PROVE  RanRows'
<1>1. /\ paramCount \in Nat /\ rows \in Seq(Nat) /\ rows # <<>>
      /\ B!EveryRowFits(rows, paramCount) /\ args = B!Args
  BY DEF BatchInv, B!Serve
<1>2. Len(rows) \in Nat \ {0} /\ DOMAIN rows = 1 .. Len(rows)
  BY <1>1, EmptySeq
<1>3. PICK n : /\ n = IF paramCount = 0 THEN 1 ELSE Len(args) \div paramCount
               /\ ran' = [i \in 1 .. n |->
                    SubSeq(args, (i - 1) * paramCount + 1, i * paramCount)]
               /\ replied' \in [1 .. n -> {"ok", "err"}]
  BY DEF B!Serve
<1>4. /\ args \in Seq(Nat \X Nat) /\ Len(args) = Len(rows) * paramCount
      /\ \A i \in 1 .. Len(rows), j \in 1 .. paramCount :
           args[(i - 1) * paramCount + j] = <<i, j>>
  BY <1>1, ArgsInBlocks, Zenon
<1>5. n = Len(rows)
  <2>1. CASE paramCount = 0
    BY <1>1, <1>2, <1>3, <2>1 DEF B!EveryRowFits
  <2>2. CASE paramCount # 0
    <3>1. n = (Len(rows) * paramCount) \div paramCount
      BY <1>3, <1>4, <2>2, Zenon
    <3>2. Len(rows) \in Nat /\ paramCount \in Nat \ {0}
      BY <1>1, <1>2, <2>2
    <3> QED
      BY <3>1, <3>2, WholeBlocks, Zenon
  <2> QED
    BY <2>1, <2>2
<1>6. ASSUME NEW i \in 1 .. Len(rows)
      PROVE  ran'[i] = [j \in 1 .. paramCount |-> <<i, j>>]
  <2>1. PICK x \in Nat : x = (i - 1) * paramCount
    <3>1. i - 1 \in Nat
      BY <1>2
    <3> QED
      BY <1>1, <3>1
  <2>2. i * paramCount = x + paramCount
    BY <1>1, <1>2, <2>1
  <2>3. ran'[i] = SubSeq(args, x + 1, x + paramCount)
    BY <1>3, <1>5, <2>1, <2>2
  <2>4. \A j \in 1 .. paramCount : args[x + j] = <<i, j>>
    BY <1>4, <2>1, Zenon
  <2> DEFINE t == SubSeq(args, x + 1, x + paramCount)
             u == [j \in 1 .. paramCount |-> <<i, j>>]
  <2>5. \A k \in x + 1 .. x + paramCount : args[k] \in Nat \X Nat
    <3> SUFFICES ASSUME NEW k \in x + 1 .. x + paramCount PROVE args[k] \in Nat \X Nat
      OBVIOUS
    <3>1. k - x \in 1 .. paramCount /\ x + (k - x) = k /\ k - x \in Nat /\ i \in Nat
      BY <1>1, <1>2, <2>1
    <3>2. args[k] = <<i, k - x>>
      BY <2>4, <3>1
    <3> QED
      BY <3>1, <3>2
  <2>6. PICK a \in Int, b \in Int : a = x + 1 /\ b = x + paramCount /\ b - a + 1 = paramCount
    BY <1>1, <2>1
  <2>7. /\ t \in Seq(Nat \X Nat) /\ Len(t) = IF a <= b THEN b - a + 1 ELSE 0
        /\ \A j \in 1 .. b - a + 1 : t[j] = args[a + j - 1]
    BY <2>5, <2>6, SubSeqProperties
  <2> HIDE DEF t
  <2>8. Len(t) = paramCount
    BY <1>1, <2>1, <2>6, <2>7
  <2>9. ASSUME NEW j \in 1 .. paramCount PROVE t[j] = <<i, j>>
    <3>1. a + j - 1 = x + j
      BY <1>1, <2>1, <2>6
    <3> QED
      BY <2>4, <2>6, <2>7, <3>1
  <2>10. u \in Seq(Nat \X Nat) /\ Len(u) = paramCount
    BY <1>1, <1>2
  <2>11. t = u
    <3>1. \A j \in 1 .. Len(t) : t[j] = u[j]
      BY <2>8, <2>9
    <3> HIDE DEF u
    <3> QED
      BY <2>7, <2>8, <2>10, <3>1, SeqEqual
  <2> QED
    BY <2>3, <2>11 DEF t
<1>7. Len(replied') = Len(rows)
  <2>1. PICK q, rs : q \in Nat /\ q = Len(rows) /\ rs = replied'
    BY <1>2, Zenon
  <2>2. rs \in [1 .. q -> {"ok", "err"}]
    BY <1>3, <1>5, <2>1, Zenon
  <2>3. Len(rs) = q
    BY <2>1, <2>2
  <2> QED
    BY <2>1, <2>3
<1>8. rows' = rows /\ \A i \in DOMAIN rows : rows[i] = paramCount
  BY <1>1 DEF B!Serve, B!EveryRowFits
<1>9. \A i \in DOMAIN rows' : ran'[i] = [j \in 1 .. rows'[i] |-> <<i, j>>]
  BY <1>2, <1>6, <1>8
<1> QED
  BY <1>7, <1>8, <1>9 DEF RanRows

LEMMA BatchStep ==
  ASSUME BatchInv, B!Next
  PROVE  BatchInv'
<1>0. /\ paramCount \in Nat /\ rows \in Seq(Nat)
      /\ phase \in {"call", "server", "reply", "done"}
      /\ phase = "call" => results = <<>>
      /\ phase = "server" => rows # <<>> /\ B!EveryRowFits(rows, paramCount) /\ args = B!Args
      /\ phase = "reply" => RanRows
  BY DEF BatchInv
<1>1. UNCHANGED <<paramCount, rows>>
  BY DEF B!Next, B!Call, B!Serve, B!Reply, B!Fails
<1>2. CASE B!Call
  <2>1. CASE rows = <<>> /\ phase' = "done" /\ UNCHANGED <<args, results>>
    BY <1>0, <1>1, <1>2, <2>1 DEF BatchInv, B!Call, B!ResultsAreRows
  <2>2. CASE phase' = "done" /\ results' = <<"error">>
    BY <1>0, <1>1, <2>2 DEF BatchInv, B!ResultsAreRows
  <2>3. CASE /\ rows # <<>> /\ B!EveryRowFits(rows, paramCount)
             /\ phase' = "server" /\ args' = B!Args
    <3>1. B!EveryRowFits(rows', paramCount') /\ B!Args' = B!Args
      BY <1>1, <2>3 DEF B!Args
    <3> QED
      BY <1>0, <1>1, <2>3, <3>1 DEF BatchInv, B!ResultsAreRows
  <2> QED
    BY <1>2, <2>1, <2>2, <2>3 DEF B!Call
<1>3. CASE B!Serve
  <2>1. RanRows' /\ phase' = "reply"
    BY <1>3, ServeRows DEF B!Serve
  <2> QED
    BY <1>0, <1>1, <2>1 DEF BatchInv, B!ResultsAreRows
<1>4. CASE B!Reply
  <2>1. /\ phase' = "done" /\ phase = "reply" /\ results' = replied
        /\ UNCHANGED <<ran, replied, rows>> /\ RanRows
    BY <1>0, <1>4 DEF B!Reply
  <2> QED
    BY <1>0, <1>1, <2>1 DEF BatchInv, B!ResultsAreRows, RanRows
<1>5. CASE B!Fails
  BY <1>0, <1>1, <1>5 DEF BatchInv, B!ResultsAreRows, B!Fails
<1> QED
  BY <1>2, <1>3, <1>4, <1>5 DEF B!Next

LEMMA InitBatch ==
  ASSUME B!BatchConstants, B!Init
  PROVE  BatchInv
<1>1. MaxRows \in Nat /\ MaxParams \in Nat
  BY DEF B!BatchConstants
<1>2. paramCount \in 0 .. MaxParams /\ phase = "call" /\ results = <<>>
  BY DEF B!Init
<1>3. PICK n \in 0 .. MaxRows : rows \in [1 .. n -> 0 .. MaxParams]
  BY DEF B!Init
<1>4. n \in Nat /\ rows \in [1 .. n -> Nat]
  BY <1>1, <1>3
<1>5. rows \in Seq(Nat)
  BY <1>4
<1> QED
  BY <1>1, <1>2, <1>5 DEF BatchInv, B!ResultsAreRows

-----------------------------------------------------------------------------
(* OUT parameters                                                          *)

\* One round of the loop of OutValues over the markers.
Met(f, i, M) == IF i = 0 THEN <<>> ELSE IF i \in M THEN Append(f[i - 1], i) ELSE f[i - 1]

\* The function that O!Registered recurses over exists.
LEMMA RegisteredDef ==
  ASSUME markers \in Nat
  PROVE  \E f : /\ f = [i \in 0 .. markers |-> Met(f, i, outParams)]
                /\ O!Registered = f[markers]
<1> DEFINE T == {m \in Nat : \E g : g = [i \in 0 .. m |-> Met(g, i, outParams)]}
<1>1. 0 \in T
  <2> DEFINE g == [i \in 0 .. 0 |-> <<>>]
  <2>1. g = [i \in 0 .. 0 |-> Met(g, i, outParams)]
    BY DEF Met
  <2> HIDE DEF g
  <2>2. \E x : x = [i \in 0 .. 0 |-> Met(x, i, outParams)]
    BY <2>1, Zenon
  <2>3. 0 \in Nat
    OBVIOUS
  <2> QED
    BY <2>2, <2>3, Zenon
<1>2. ASSUME NEW m \in Nat, m \in T PROVE m + 1 \in T
  <2>1. PICK g : g = [i \in 0 .. m |-> Met(g, i, outParams)]
    BY <1>2, Zenon
  <2> DEFINE h == [i \in 0 .. m + 1 |-> IF i = m + 1 THEN Met(g, i, outParams) ELSE g[i]]
  <2>2. ASSUME NEW i \in 0 .. m + 1 PROVE h[i] = Met(h, i, outParams)
    <3>1. i # 0 => i - 1 \in 0 .. m + 1 /\ i - 1 # m + 1
      OBVIOUS
    <3>2. i # 0 => h[i - 1] = g[i - 1]
      BY <3>1, Zenon
    <3>3. CASE i = m + 1
      <4>1. h[i] = Met(g, i, outParams)
        BY <3>3, Zenon
      <4> HIDE DEF h
      <4> QED
        BY <3>2, <4>1, Zenon DEF Met
    <3>4. CASE i # m + 1
      <4>1. i \in 0 .. m
        BY <3>4
      <4>2. h[i] = g[i] /\ g[i] = Met(g, i, outParams)
        BY <2>1, <3>4, <4>1, Zenon
      <4> HIDE DEF h
      <4> QED
        BY <3>2, <4>2, Zenon DEF Met
    <3> QED
      BY <3>3, <3>4
  <2>3. h = [i \in 0 .. m + 1 |-> h[i]]
    OBVIOUS
  <2> HIDE DEF h
  <2>4. h = [i \in 0 .. m + 1 |-> Met(h, i, outParams)]
    BY <2>2, <2>3, Zenon
  <2>5. \E x : x = [i \in 0 .. m + 1 |-> Met(x, i, outParams)]
    BY <2>4, Zenon
  <2>6. m + 1 \in Nat
    OBVIOUS
  <2> QED
    BY <2>5, <2>6, Zenon
<1>3. markers \in T
  <2> HIDE DEF T
  <2>1. 0 \in Nat /\ \A m \in Nat : 0 <= m
    OBVIOUS
  <2> QED
    BY <1>1, <1>2, <2>1, SetInduction, Zenon
<1> DEFINE f == CHOOSE f : f = [i \in 0 .. markers |->
                   IF i = 0 THEN <<>>
                   ELSE IF i \in outParams THEN Append(f[i - 1], i) ELSE f[i - 1]]
<1>4. O!Registered = f[markers]
  BY Zenon DEF O!Registered
<1>5. f = [i \in 0 .. markers |->
                   IF i = 0 THEN <<>>
                   ELSE IF i \in outParams THEN Append(f[i - 1], i) ELSE f[i - 1]]
  BY <1>3, Zenon DEF Met
<1>6. f = [i \in 0 .. markers |-> Met(f, i, outParams)]
  BY <1>5, Zenon DEF Met
<1> QED
  BY <1>4, <1>6, Zenon

\* O!Registered has each registered marker once.
LEMMA RegisteredFacts ==
  ASSUME markers \in Nat, outParams \subseteq 1 .. markers
  PROVE  /\ O!Registered \in Seq(outParams) /\ Len(O!Registered) = Cardinality(outParams)
<1>1. PICK f : /\ f = [i \in 0 .. markers |-> Met(f, i, outParams)]
               /\ O!Registered = f[markers]
  BY RegisteredDef, Zenon
<1>2. \A i \in 0 .. markers : f[i] = Met(f, i, outParams)
  BY <1>1, Zenon
<1> DEFINE Upto(m) == outParams \cap (1 .. m)
           Good(m) == /\ f[m] \in Seq(outParams) /\ IsFiniteSet(Upto(m))
                      /\ Len(f[m]) = Cardinality(Upto(m))
           T == {m \in Nat : m <= markers => Good(m)}
<1>3. 0 \in T
  <2>1. 0 \in 0 .. markers /\ 0 \in Nat
    OBVIOUS
  <2>2. f[0] = <<>>
    BY <1>2, <2>1, Zenon DEF Met
  <2>3. Upto(0) = {}
    OBVIOUS
  <2>4. IsFiniteSet(Upto(0)) /\ Cardinality(Upto(0)) = 0
    BY <2>3, FS_EmptySet
  <2> HIDE DEF Upto
  <2>5. <<>> \in Seq(outParams) /\ Len(<<>>) = 0
    OBVIOUS
  <2>6. Good(0)
    BY <2>2, <2>4, <2>5, Zenon
  <2> QED
    BY <2>1, <2>6, Zenon
<1>4. ASSUME NEW m \in Nat, m \in T PROVE m + 1 \in T
  <2>0. m + 1 \in Nat
    OBVIOUS
  <2> SUFFICES ASSUME m + 1 <= markers PROVE Good(m + 1)
    BY <2>0, Zenon
  <2>1. m <= markers /\ m + 1 \in 0 .. markers /\ m + 1 # 0 /\ m + 1 - 1 = m
    OBVIOUS
  <2>2. Good(m)
    BY <1>4, <2>1, Zenon
  <2>3. f[m + 1] = IF m + 1 \in outParams THEN Append(f[m], m + 1) ELSE f[m]
    <3>1. PICK k \in 0 .. markers : k = m + 1 /\ k # 0 /\ k - 1 = m
      BY <2>1
    <3>2. f[k] = IF k \in outParams THEN Append(f[k - 1], k) ELSE f[k - 1]
      BY <1>2, <3>1, Zenon DEF Met
    <3> QED
      BY <3>1, <3>2, Zenon
  <2>4. CASE m + 1 \in outParams
    <3>1. Upto(m + 1) = Upto(m) \cup {m + 1} /\ m + 1 \notin Upto(m)
      BY <2>4
    <3> HIDE DEF Upto
    <3>2. /\ IsFiniteSet(Upto(m) \cup {m + 1})
          /\ Cardinality(Upto(m) \cup {m + 1}) = Cardinality(Upto(m)) + 1
      BY <2>2, <3>1, FS_AddElement
    <3>3. Append(f[m], m + 1) \in Seq(outParams) /\ Len(Append(f[m], m + 1)) = Len(f[m]) + 1
      BY <2>2, <2>4
    <3> QED
      BY <2>2, <2>3, <2>4, <3>1, <3>2, <3>3, Zenon
  <2>5. CASE m + 1 \notin outParams
    <3>1. Upto(m + 1) = Upto(m)
      BY <2>5
    <3> HIDE DEF Upto
    <3> QED
      BY <2>2, <2>3, <2>5, <3>1, Zenon
  <2> QED
    BY <2>4, <2>5
<1>5. markers \in T
  <2> HIDE DEF T
  <2>1. 0 \in Nat /\ \A m \in Nat : 0 <= m
    OBVIOUS
  <2> QED
    BY <1>3, <1>4, <2>1, SetInduction, Zenon
<1>6. Good(markers)
  <2>1. markers <= markers
    OBVIOUS
  <2> QED
    BY <1>5, <2>1, Zenon
<1>7. Upto(markers) = outParams
  OBVIOUS
<1> HIDE DEF Upto
<1> QED
  BY <1>1, <1>6, <1>7, Zenon

\* The row r has for each marker its value from the last execution, IN just if the
\* marker was not registered then.
OwnRow(r) ==
  /\ Len(r) = markers + 1
  /\ \A i \in 1 .. markers : \E mode \in {"IN", "OUT", "INOUT"} :
       /\ r[i + 1] = <<mode, i, runs - 1>>
       /\ mode = "IN" <=> i \notin outParams \/ i \in late

OutInv ==
  /\ sp \in BOOLEAN /\ markers \in Nat /\ runs \in Nat
  /\ outParams \subseteq 1 .. markers
  /\ sp /\ fetching # <<>> => OwnRow(fetching)
  /\ sp /\ outRow # <<>> => OwnRow(outRow)

LEMMA InitOut ==
  ASSUME O!OutParamsConstants, O!Init
  PROVE  OutInv
  BY DEF O!OutParamsConstants, O!Init, OutInv

LEMMA RegisterInv ==
  ASSUME OutInv, NEW i, O!RegisterOutParam(i)
  PROVE  OutInv'
<1>1. /\ i \in 1 .. markers /\ fetching = <<>>
      /\ outParams' = outParams \cup {i} /\ late' = late \cup ({i} \ outParams)
      /\ UNCHANGED <<sp, markers, runs, fetching, outRow>>
  BY DEF O!RegisterOutParam
<1>2. \A j : (j \notin outParams \/ j \in late) <=> (j \notin outParams' \/ j \in late')
  BY <1>1
<1>3. OwnRow(outRow) => OwnRow(outRow)'
  BY <1>1, <1>2, Zenon DEF OwnRow
<1> QED
  BY <1>1, <1>3 DEF OutInv

LEMMA ExecuteInv ==
  ASSUME OutInv, NEW given \in SUBSET (1 .. markers), O!Execute(given)
  PROVE  OutInv'
<1>1. /\ outRow' = <<>> /\ late' = {} /\ runs' = runs + 1
      /\ UNCHANGED <<sp, markers, outParams>>
  BY DEF O!Execute
<1>2. markers \in Nat /\ runs \in Nat
  BY DEF OutInv
<1>3. ASSUME sp, fetching' # <<>> PROVE OwnRow(fetching)'
  <2> DEFINE v == [i \in 1 .. markers |-> O!Value(O!Mode(i, given), i)]
             Vals == {O!Value(O!Mode(i, given), i) : i \in 1 .. markers} \cup {O!Slot}
  <2>1. fetching' = <<O!Slot>> \o v
    BY <1>3 DEF O!Execute
  <2>2. v \in Seq(Vals) /\ Len(v) = markers
    BY <1>2
  <2>3. \A i \in 1 .. markers : v[i] = O!Value(O!Mode(i, given), i)
    OBVIOUS
  <2>4. O!Slot \in Vals
    OBVIOUS
  <2> HIDE DEF v, Vals
  <2>5. <<O!Slot>> \in Seq(Vals) /\ Len(<<O!Slot>>) = 1
    BY <2>4
  <2>6. /\ fetching' \in Seq(Vals) /\ Len(fetching') = markers + 1
        /\ \A i \in 1 .. markers : fetching'[i + 1] = v[i]
    <3>1. PICK one : one = <<O!Slot>>
      OBVIOUS
    <3>2. one \in Seq(Vals) /\ Len(one) = 1
      BY <2>5, <3>1
    <3>3. /\ one \o v \in Seq(Vals) /\ Len(one \o v) = Len(one) + Len(v)
          /\ \A k \in 1 .. Len(one) + Len(v) :
               (one \o v)[k] = IF k <= Len(one) THEN one[k] ELSE v[k - Len(one)]
      BY <2>2, <3>2, ConcatProperties, Zenon
    <3>4. PICK w : w = one \o v
      OBVIOUS
    <3>5. /\ w \in Seq(Vals) /\ Len(w) = 1 + markers
          /\ \A k \in 1 .. 1 + markers : w[k] = IF k <= 1 THEN one[k] ELSE v[k - 1]
      BY <2>2, <3>2, <3>3, <3>4, Zenon
    <3>6. ASSUME NEW i \in 1 .. markers PROVE w[i + 1] = v[i]
      <4>1. i + 1 \in 1 .. 1 + markers /\ ~(i + 1 <= 1) /\ (i + 1) - 1 = i
        BY <1>2
      <4> QED
        BY <3>5, <4>1
    <3>7. fetching' = w /\ 1 + markers = markers + 1
      BY <1>2, <2>1, <3>1, <3>4
    <3> QED
      BY <3>5, <3>6, <3>7
  <2>7. ASSUME NEW i \in 1 .. markers
        PROVE  \E mode \in {"IN", "OUT", "INOUT"} :
                 /\ fetching'[i + 1] = <<mode, i, runs' - 1>>
                 /\ mode = "IN" <=> i \notin outParams' \/ i \in late'
    <3>1. runs' - 1 = runs
      BY <1>1, <1>2
    <3>2. PICK mode : mode = O!Mode(i, given)
      OBVIOUS
    <3>3. mode \in {"IN", "OUT", "INOUT"} /\ (mode = "IN" <=> i \notin outParams)
      BY <3>2 DEF O!Mode
    <3>4. fetching'[i + 1] = <<mode, i, runs>>
      BY <2>3, <2>6, <3>2 DEF O!Value
    <3> QED
      BY <1>1, <3>1, <3>3, <3>4
  <2> QED
    BY <1>1, <2>6, <2>7 DEF OwnRow
<1> QED
  BY <1>1, <1>2, <1>3 DEF OutInv

LEMMA FetchRowInv ==
  ASSUME OutInv, O!FetchRow
  PROVE  OutInv'
<1>1. /\ fetching # <<>> /\ outRow' = SubSeq(fetching, 1, O!Width) /\ fetching' = <<>>
      /\ UNCHANGED <<sp, markers, outParams, late, runs>>
  BY DEF O!FetchRow
<1>2. markers \in Nat
  BY DEF OutInv
<1>3. ASSUME sp PROVE OwnRow(outRow)'
  <2>1. OwnRow(fetching) /\ O!Width = markers + 1
    BY <1>1, <1>3 DEF OutInv, O!Width
  <2>2. PICK q, fs : q \in Nat /\ q = markers + 1 /\ fs = fetching
    BY <1>2
  <2> DEFINE V == {fs[i] : i \in 1 .. q}
             t == SubSeq(fs, 1, q)
  <2>3. /\ t \in Seq(V) /\ Len(t) = IF 1 <= q THEN q - 1 + 1 ELSE 0
        /\ \A i \in 1 .. q - 1 + 1 : t[i] = fs[1 + i - 1]
    <3>1. 1 \in Int /\ q \in Int /\ \A i \in 1 .. q : fs[i] \in V
      BY <2>2
    <3> HIDE DEF V
    <3> QED
      BY <3>1, SubSeqProperties
  <2>4. outRow' = t
    BY <1>1, <2>1, <2>2
  <2> HIDE DEF V, t
  <2>5. Len(t) = q /\ \A i \in 1 .. q : t[i] = fs[i]
    <3>1. q \in Nat
      BY <2>2
    <3> QED
      BY <2>3, <3>1
  <2>6. \A i \in 1 .. markers : outRow'[i + 1] = fetching[i + 1]
    <3> SUFFICES ASSUME NEW i \in 1 .. markers PROVE outRow'[i + 1] = fetching[i + 1]
      OBVIOUS
    <3>1. i + 1 \in 1 .. q
      BY <1>2, <2>2
    <3> QED
      BY <2>2, <2>4, <2>5, <3>1, Zenon
  <2>7. Len(outRow') = markers + 1
    BY <2>2, <2>4, <2>5, Zenon
  <2> QED
    BY <1>1, <2>1, <2>6, <2>7, Zenon DEF OwnRow
<1> QED
  BY <1>1, <1>3 DEF OutInv

LEMMA OutStep ==
  ASSUME OutInv, O!Next
  PROVE  OutInv'
<1>1. CASE O!FetchFails
  BY <1>1 DEF O!FetchFails, OutInv, OwnRow
<1> QED
  BY <1>1, RegisterInv, ExecuteInv, FetchRowInv DEF O!Next

\* OutValues takes its values from where OwnRow says they are.
LEMMA OwnValues == OutInv => O!OutValuesOwn
<1> SUFFICES ASSUME OutInv, sp, outRow # <<>>
             PROVE  /\ Len(O!OutValues) = O!Cardinality(outParams)
                    /\ \A k \in DOMAIN O!OutValues :
                         /\ O!OutValues[k] \in {<<mode, O!Registered[k], runs - 1>> :
                                                   mode \in {"IN", "OUT", "INOUT"}}
                         /\ (O!OutValues[k][1] = "IN") = (O!Registered[k] \in late)
  BY Zenon DEF O!OutValuesOwn
<1>1. markers \in Nat /\ outParams \subseteq 1 .. markers /\ OwnRow(outRow)
  BY DEF OutInv
<1>2. PICK rg : rg = O!Registered
  OBVIOUS
<1>3. rg \in Seq(outParams) /\ Len(rg) = O!Cardinality(outParams)
  <2>1. Cardinality(outParams) = O!Cardinality(outParams)
    BY Zenon DEF Cardinality, O!Cardinality
  <2> QED
    BY <1>1, <1>2, <2>1, RegisteredFacts, Zenon
<1>4. O!OutValues = [k \in DOMAIN rg |->
        IF rg[k] + 1 <= Len(outRow) THEN outRow[rg[k] + 1] ELSE O!Null]
  BY <1>2 DEF O!OutValues, O!AtColumn
<1>5. PICK vs : vs = O!OutValues
  OBVIOUS
<1>6. ASSUME NEW k \in DOMAIN rg
      PROVE  /\ vs[k] \in {<<mode, rg[k], runs - 1>> : mode \in {"IN", "OUT", "INOUT"}}
             /\ vs[k][1] = "IN" <=> rg[k] \in late
  <2>1. PICK i : i = rg[k]
    OBVIOUS
  <2>2. i \in outParams
    BY <1>3, <2>1
  <2>3. i \in 1 .. markers /\ i + 1 <= markers + 1
    BY <1>1, <2>2
  <2>4. vs[k] = outRow[i + 1]
    BY <1>1, <1>4, <1>5, <2>1, <2>3, Zenon DEF OwnRow
  <2>5. PICK mode \in {"IN", "OUT", "INOUT"} :
          /\ outRow[i + 1] = <<mode, i, runs - 1>>
          /\ mode = "IN" <=> i \notin outParams \/ i \in late
    BY <1>1, <2>3, Zenon DEF OwnRow
  <2>6. vs[k] = <<mode, i, runs - 1>>
    BY <2>4, <2>5
  <2>7. vs[k][1] = mode
    BY <2>6
  <2> QED
    BY <2>1, <2>2, <2>5, <2>6, <2>7, Zenon
<1>7. Len(vs) = Len(rg) /\ DOMAIN vs = DOMAIN rg
  <2>1. PICK q \in Nat : q = Len(rg) /\ DOMAIN rg = 1 .. q
    BY <1>3
  <2>2. vs = [k \in 1 .. q |-> vs[k]]
    BY <1>4, <1>5, <2>1
  <2>3. Len(vs) = q /\ DOMAIN vs = 1 .. q
    BY <2>2
  <2> QED
    BY <2>1, <2>3
<1>8. ASSUME NEW k \in DOMAIN vs PROVE (vs[k][1] = "IN") = (rg[k] \in late)
  <2>1. vs[k][1] = "IN" <=> rg[k] \in late
    BY <1>6, <1>7, Zenon
  <2> QED
    BY <2>1
<1>9. Len(vs) = O!Cardinality(outParams)
  BY <1>3, <1>7, Zenon
<1>10. \A k \in DOMAIN vs :
         /\ vs[k] \in {<<mode, rg[k], runs - 1>> : mode \in {"IN", "OUT", "INOUT"}}
         /\ (vs[k][1] = "IN") = (rg[k] \in late)
  BY <1>6, <1>7, <1>8, Zenon
<1> QED
  BY <1>2, <1>5, <1>9, <1>10, Zenon

-----------------------------------------------------------------------------
(* Schema lookups                                                          *)

\* A lookup in progress is a record of these fields.
CallShape ==
  schemaCall \in [fn : {schemaCall.fn}, arg : {schemaCall.arg}, family : {schemaCall.family},
                  phase : {schemaCall.phase}, todo : {schemaCall.todo},
                  got : {schemaCall.got}, kept : {schemaCall.kept}]

\* A handle is open while the rows of a request are pulled, and only then.
OneSchemaHandle ==
  ~schemaBad =>
    schemaHandles = schemaOrphans + (IF schemaCall.phase = "rows" THEN 1 ELSE 0)

SchemaInv == S!TypeOK /\ CallShape /\ OneSchemaHandle

\* What a step may do to the lookup in progress: it ends, or goes on in phase p.
LookupEnded == schemaCall' = S!NoCall

LookupGoing(p) ==
  /\ p \in {"request", "rows"} /\ schemaCall'.phase = p
  /\ schemaCall'.fn \in S!Fns \cup {"none"} /\ CallShape'

LEMMA NoCallFacts ==
  /\ S!NoCall.phase = "idle" /\ S!NoCall.fn = "none"
  /\ S!NoCall \in [fn : {S!NoCall.fn}, arg : {S!NoCall.arg}, family : {S!NoCall.family},
                   phase : {S!NoCall.phase}, todo : {S!NoCall.todo},
                   got : {S!NoCall.got}, kept : {S!NoCall.kept}]
  BY DEF S!NoCall

\* The parts of SchemaInv that are about the call.
LEMMA CallKept ==
  ASSUME LookupEnded \/ \E p \in {"request", "rows"} : LookupGoing(p)
  PROVE  /\ CallShape' /\ schemaCall'.fn \in S!Fns \cup {"none"}
         /\ schemaCall'.phase \in {"idle", "request", "rows"}
         /\ (schemaCall'.phase = "idle") <=> (schemaCall' = S!NoCall)
<1>1. CASE LookupEnded
  BY <1>1, NoCallFacts DEF LookupEnded, CallShape
<1>2. CASE \E p \in {"request", "rows"} : LookupGoing(p)
  BY <1>2, NoCallFacts DEF LookupGoing
<1> QED  BY <1>1, <1>2

\* What a step must leave behind for SchemaInv to hold.
LEMMA SchemaKept ==
  ASSUME SchemaInv, LookupEnded \/ \E p \in {"request", "rows"} : LookupGoing(p),
         UNCHANGED catalog, schemaBad' \in BOOLEAN, schemaOrphans' \in Nat,
         schemaHandles' \in Nat, OneSchemaHandle',
         result'.fn \in S!Fns \cup {"none"}, result'.err \in BOOLEAN
  PROVE  SchemaInv'
<1>1. catalog' \in S!Catalogs  BY DEF SchemaInv, S!TypeOK
<1>2. /\ CallShape' /\ schemaCall'.fn \in S!Fns \cup {"none"}
      /\ schemaCall'.phase \in {"idle", "request", "rows"}
      /\ (schemaCall'.phase = "idle") <=> (schemaCall' = S!NoCall)
  BY CallKept
<1>3. (schemaCall'.phase = "idle") = (schemaCall' = S!NoCall)  BY <1>2, Zenon
<1>4. S!TypeOK'  BY <1>1, <1>2, <1>3, Zenon DEF S!TypeOK
<1> QED  BY <1>2, <1>4 DEF SchemaInv

LEMMA SchemaFacts ==
  ASSUME SchemaInv
  PROVE  /\ schemaBad \in BOOLEAN /\ schemaOrphans \in Nat /\ schemaHandles \in Nat
         /\ schemaCall.fn \in S!Fns \cup {"none"} /\ CallShape
         /\ result.fn \in S!Fns \cup {"none"} /\ result.err \in BOOLEAN
         /\ schemaCall.phase = "idle" <=> schemaCall = S!NoCall
         /\ ~schemaBad => schemaHandles =
              schemaOrphans + (IF schemaCall.phase = "rows" THEN 1 ELSE 0)
  BY Zenon DEF SchemaInv, S!TypeOK, OneSchemaHandle

LEMMA ReturnErrs ==
  ASSUME SchemaInv, S!ReturnErr
  PROVE  LookupEnded /\ result'.fn \in S!Fns \cup {"none"} /\ result'.err \in BOOLEAN
<1>1. schemaCall.fn \in S!Fns \cup {"none"}  BY SchemaFacts
<1>2. LookupEnded  BY DEF S!ReturnErr, LookupEnded
<1>3. result'.fn = schemaCall.fn /\ result'.err = TRUE  BY DEF S!ReturnErr
<1> QED  BY <1>1, <1>2, <1>3

LEMMA CallInv ==
  ASSUME SchemaInv, NEW fn \in S!Fns, NEW t \in Tables, S!Call(fn, t)
  PROVE  SchemaInv'
<1>0. /\ schemaBad \in BOOLEAN /\ schemaOrphans \in Nat /\ schemaHandles \in Nat
      /\ ~schemaBad => schemaHandles = schemaOrphans + (IF schemaCall.phase = "rows" THEN 1 ELSE 0)
  BY SchemaFacts
<1>1. /\ schemaCall = S!NoCall /\ result' = S!NoResult
      /\ schemaCall' = [S!NoCall EXCEPT !.fn = fn, !.arg = t, !.family = S!Family(fn),
                                        !.phase = "request"]
      /\ UNCHANGED <<catalog, schemaBad, schemaHandles, schemaOrphans>>
  BY DEF S!Call
<1>2. PICK f : f = S!Family(fn)  OBVIOUS
<1>3. schemaCall' = [fn |-> fn, arg |-> t, family |-> f, phase |-> "request",
                     todo |-> {}, got |-> <<>>, kept |-> <<>>]
  BY <1>1, <1>2 DEF S!NoCall
<1>4. LookupGoing("request")  BY <1>3 DEF LookupGoing, CallShape
<1>5. result'.fn = "none" /\ result'.err \in BOOLEAN  BY <1>1 DEF S!NoResult
<1>6. OneSchemaHandle'
  BY <1>0, <1>1, <1>3, NoCallFacts DEF OneSchemaHandle
<1> QED  BY <1>0, <1>1, <1>4, <1>5, <1>6, SchemaKept

LEMMA SchemaInfoInv ==
  ASSUME SchemaInv, S!SchemaInfo
  PROVE  SchemaInv'
<1>0. /\ schemaBad \in BOOLEAN /\ schemaOrphans \in Nat /\ schemaHandles \in Nat
      /\ schemaCall.fn \in S!Fns \cup {"none"} /\ CallShape
      /\ result.fn \in S!Fns \cup {"none"} /\ result.err \in BOOLEAN
      /\ ~schemaBad => schemaHandles = schemaOrphans + (IF schemaCall.phase = "rows" THEN 1 ELSE 0)
  BY SchemaFacts
<1>1. PICK todo : schemaCall' = [schemaCall EXCEPT !.phase = "rows", !.got = <<>>, !.todo = todo]
  BY DEF S!SchemaInfo
<1>2. /\ schemaCall.phase = "request" /\ ~schemaBad
      /\ schemaHandles' = schemaHandles + 1
      /\ UNCHANGED <<catalog, schemaBad, schemaOrphans, result>>
  BY DEF S!SchemaInfo
<1>3. LookupGoing("rows")  BY <1>0, <1>1 DEF LookupGoing, CallShape
<1>4. schemaHandles' \in Nat /\ OneSchemaHandle'
  BY <1>0, <1>2, <1>3 DEF OneSchemaHandle, LookupGoing
<1> QED  BY <1>0, <1>2, <1>3, <1>4, SchemaKept

LEMMA SchemaInfoErrorInv ==
  ASSUME SchemaInv, S!SchemaInfoError
  PROVE  SchemaInv'
<1>0. /\ schemaBad \in BOOLEAN /\ schemaOrphans \in Nat /\ schemaHandles \in Nat
      /\ ~schemaBad => schemaHandles = schemaOrphans + (IF schemaCall.phase = "rows" THEN 1 ELSE 0)
  BY SchemaFacts
<1>1. schemaCall.phase = "request" /\ S!ReturnErr /\ catalog' = catalog
  BY DEF S!SchemaInfoError
<1>2. LookupEnded /\ result'.fn \in S!Fns \cup {"none"} /\ result'.err \in BOOLEAN
  BY <1>1, ReturnErrs
<1>3. schemaCall'.phase = "idle"  BY <1>2, NoCallFacts DEF LookupEnded
<1>4. /\ schemaBad' \in BOOLEAN /\ schemaOrphans' \in Nat /\ schemaHandles' \in Nat
      /\ OneSchemaHandle'
  <2>1. CASE ~schemaBad /\ UNCHANGED <<schemaBad, schemaHandles, schemaOrphans>>
    BY <1>0, <1>1, <1>3, <2>1 DEF OneSchemaHandle
  <2>2. CASE /\ ~schemaBad /\ schemaHandles' = schemaHandles + 1
             /\ schemaOrphans' = schemaOrphans + 1 /\ UNCHANGED schemaBad
    BY <1>0, <1>1, <1>3, <2>2 DEF OneSchemaHandle
  <2>3. CASE schemaBad' = TRUE /\ UNCHANGED <<schemaHandles, schemaOrphans>>
    BY <1>0, <2>3 DEF OneSchemaHandle
  <2> QED  BY <2>1, <2>2, <2>3 DEF S!SchemaInfoError
<1> QED  BY <1>1, <1>2, <1>4, SchemaKept

LEMMA NextRowInv ==
  ASSUME SchemaInv, NEW r, S!NextRow(r)
  PROVE  SchemaInv'
<1>0. /\ schemaBad \in BOOLEAN /\ schemaOrphans \in Nat /\ schemaHandles \in Nat
      /\ schemaCall.fn \in S!Fns \cup {"none"} /\ CallShape
      /\ result.fn \in S!Fns \cup {"none"} /\ result.err \in BOOLEAN
      /\ ~schemaBad => schemaHandles = schemaOrphans + (IF schemaCall.phase = "rows" THEN 1 ELSE 0)
  BY SchemaFacts
<1>1. PICK todo, got : schemaCall' = [schemaCall EXCEPT !.todo = todo, !.got = got]
  BY DEF S!NextRow
<1>2. /\ schemaCall.phase = "rows"
      /\ UNCHANGED <<catalog, schemaBad, schemaHandles, schemaOrphans, result>>
  BY DEF S!NextRow
<1>3. LookupGoing("rows")  BY <1>0, <1>1, <1>2 DEF LookupGoing, CallShape
<1>4. OneSchemaHandle'  BY <1>0, <1>2, <1>3 DEF OneSchemaHandle, LookupGoing
<1> QED  BY <1>0, <1>2, <1>3, <1>4, SchemaKept

\* The deferred Close releases the handle, leaves it to the server that refuses
\* it, or poisons the connection.
LEMMA RowsCloseReleases ==
  ASSUME SchemaInv, schemaCall.phase = "rows", S!RowsClose
  PROVE  /\ schemaBad' \in BOOLEAN /\ schemaHandles' \in Nat /\ schemaOrphans' \in Nat
         /\ ~schemaBad' => schemaHandles' = schemaOrphans'
<1>0. /\ schemaBad \in BOOLEAN /\ schemaOrphans \in Nat /\ schemaHandles \in Nat
      /\ ~schemaBad => schemaHandles = schemaOrphans + 1
  BY SchemaFacts
<1>1. CASE /\ ~schemaBad /\ schemaHandles' = schemaHandles - 1
           /\ UNCHANGED <<schemaBad, schemaOrphans>>
  BY <1>0, <1>1
<1>2. CASE /\ ~schemaBad /\ schemaOrphans' = schemaOrphans + 1
           /\ UNCHANGED <<schemaBad, schemaHandles>>
  BY <1>0, <1>2
<1>3. CASE schemaBad' = TRUE /\ UNCHANGED <<schemaHandles, schemaOrphans>>
  BY <1>0, <1>3
<1> QED  BY <1>1, <1>2, <1>3 DEF S!RowsClose

\* After the close no handle is the call's own.
LEMMA NoneOpen ==
  ASSUME schemaCall'.phase # "rows", schemaOrphans' \in Nat,
         ~schemaBad' => schemaHandles' = schemaOrphans'
  PROVE  OneSchemaHandle'
<1>1. (IF schemaCall'.phase = "rows" THEN 1 ELSE 0) = 0  OBVIOUS
<1>2. schemaOrphans' + 0 = schemaOrphans'
  <2>1. \A x \in Nat : x + 0 = x  OBVIOUS
  <2> QED  BY <2>1
<1> QED  BY <1>1, <1>2, Zenon DEF OneSchemaHandle

LEMMA EndRowsInv ==
  ASSUME SchemaInv, S!EndRows
  PROVE  SchemaInv'
<1>0. /\ schemaCall.fn \in S!Fns \cup {"none"} /\ CallShape
      /\ result.fn \in S!Fns \cup {"none"} /\ result.err \in BOOLEAN
  BY SchemaFacts
<1>1. schemaCall.phase = "rows" /\ S!RowsClose /\ catalog' = catalog
  BY DEF S!EndRows
<1>2. /\ schemaBad' \in BOOLEAN /\ schemaHandles' \in Nat /\ schemaOrphans' \in Nat
      /\ ~schemaBad' => schemaHandles' = schemaOrphans'
  BY <1>1, RowsCloseReleases
<1>3. CASE schemaCall.fn = "Indexes" /\ schemaCall.family = "constraint"
  <2>1. PICK kept : schemaCall' = [schemaCall EXCEPT !.phase = "request",
                                     !.family = "primary key", !.kept = kept]
    BY <1>3 DEF S!EndRows
  <2>2. UNCHANGED result  BY <1>3 DEF S!EndRows
  <2>3. LookupGoing("request")  BY <1>0, <2>1 DEF LookupGoing, CallShape
  <2>4. OneSchemaHandle'  BY <1>2, <2>3, NoneOpen DEF LookupGoing
  <2> QED  BY <1>0, <1>1, <1>2, <2>2, <2>3, <2>4, SchemaKept
<1>4. CASE ~(schemaCall.fn = "Indexes" /\ schemaCall.family = "constraint")
  <2>1. PICK rs : result' = [fn |-> schemaCall.fn, arg |-> schemaCall.arg,
                             err |-> FALSE, rows |-> rs]
    BY <1>4 DEF S!EndRows
  <2>2. LookupEnded  BY <1>4 DEF S!EndRows, LookupEnded
  <2>3. result'.fn = schemaCall.fn /\ result'.err \in BOOLEAN  BY <2>1
  <2>4. schemaCall'.phase = "idle"  BY <2>2, NoCallFacts DEF LookupEnded
  <2>5. OneSchemaHandle'  BY <1>2, <2>4, NoneOpen
  <2> QED  BY <1>0, <1>1, <1>2, <2>2, <2>3, <2>5, SchemaKept
<1> QED  BY <1>3, <1>4

LEMMA RowFailsInv ==
  ASSUME SchemaInv, NEW transport \in BOOLEAN, S!RowFails(transport)
  PROVE  SchemaInv'
<1>0. schemaOrphans \in Nat /\ schemaHandles \in Nat  BY SchemaFacts
<1>1. /\ schemaCall.phase = "rows" /\ S!ReturnErr /\ catalog' = catalog
      /\ S!RowsClose \/ (schemaBad' = TRUE /\ UNCHANGED <<schemaHandles, schemaOrphans>>)
  BY DEF S!RowFails
<1>2. /\ schemaBad' \in BOOLEAN /\ schemaHandles' \in Nat /\ schemaOrphans' \in Nat
      /\ ~schemaBad' => schemaHandles' = schemaOrphans'
  BY <1>0, <1>1, RowsCloseReleases
<1>3. LookupEnded /\ result'.fn \in S!Fns \cup {"none"} /\ result'.err \in BOOLEAN
  BY <1>1, ReturnErrs
<1>4. schemaCall'.phase = "idle"  BY <1>3, NoCallFacts DEF LookupEnded
<1>5. OneSchemaHandle'  BY <1>2, <1>4, NoneOpen
<1> QED  BY <1>1, <1>2, <1>3, <1>5, SchemaKept

LEMMA SchemaStep ==
  ASSUME SchemaInv, S!Next
  PROVE  SchemaInv'
  BY CallInv, SchemaInfoInv, SchemaInfoErrorInv, EndRowsInv, NextRowInv, RowFailsInv
  DEF S!Next

LEMMA InitSchema ==
  ASSUME S!Init
  PROVE  SchemaInv
<1>1. catalog \in S!Catalogs /\ schemaBad \in BOOLEAN  BY DEF S!Init
<1>2. schemaHandles = 0 /\ schemaOrphans = 0 /\ schemaCall = S!NoCall /\ result = S!NoResult
  BY DEF S!Init
<1>3. result.fn = "none" /\ result.err \in BOOLEAN  BY <1>2 DEF S!NoResult
<1>4. (schemaCall.phase = "idle") = (schemaCall = S!NoCall)
  BY <1>2, NoCallFacts, Zenon
<1>5. schemaHandles \in Nat /\ schemaOrphans \in Nat  BY <1>2
<1>6. schemaCall.fn = "none" /\ schemaCall.phase = "idle"  BY <1>2, NoCallFacts
<1>7. S!TypeOK  BY <1>1, <1>3, <1>4, <1>5, <1>6, Zenon DEF S!TypeOK
<1>8. CallShape  BY <1>2, NoCallFacts DEF CallShape
<1>9. OneSchemaHandle  BY <1>2, <1>6 DEF OneSchemaHandle
<1> QED  BY <1>7, <1>8, <1>9 DEF SchemaInv

-----------------------------------------------------------------------------
(* The calls together                                                      *)

NativeInv ==
  /\ SessionInv
  /\ part = "params" => P!TypeOK /\ P!ParamsAsAsked
  /\ part = "outparams" => OutInv
  /\ part = "batch" => BatchInv
  /\ part = "schema" => SchemaInv

nativeVars == <<part, vars, paramsVars, outVars, batchVars, schemaVars>>

LEMMA InitNative == NativeInit => NativeInv
<1> SUFFICES ASSUME NativeInit PROVE NativeInv
  OBVIOUS
<1>1. SessionInv  BY InitSession DEF NativeInit
<1>2. part = "params" => P!Init  BY DEF NativeInit
<1>3. part = "schema" => S!Init  BY DEF NativeInit
<1>4. part = "batch" => B!Init  BY DEF NativeInit
<1>5. part = "outparams" => O!Init  BY DEF NativeInit
<1> QED
  BY <1>1, <1>2, <1>3, <1>4, <1>5, InitParams, InitSchema, InitBatch, InitOut,
     NativeConstants DEF NativeInv

LEMMA NativeStep == NativeInv /\ [NativeNext]_nativeVars => NativeInv'
<1> SUFFICES ASSUME NativeInv, [NativeNext]_nativeVars PROVE NativeInv'
  OBVIOUS
<1>0. part' = part  BY DEF NativeNext, nativeVars
<1>1. [Next]_vars  BY DEF NativeNext, Stop, nativeVars
<1>2. SessionInv'  BY <1>1, SessionStep DEF NativeInv
<1>3. ASSUME part = "params" PROVE P!TypeOK' /\ P!ParamsAsAsked'
  <2>1. P!TypeOK /\ P!ParamsAsAsked /\ P!ParamsConstants
    BY <1>3, NativeConstants DEF NativeInv
  <2>2. P!Next \/ UNCHANGED paramsVars  BY <1>3 DEF NativeNext, Stop, nativeVars
  <2>3. [P!Next]_(P!vars)  BY <2>2 DEF paramsVars, P!vars
  <2> QED  BY <2>1, <2>3, ParamsStep
<1>4. ASSUME part = "schema" PROVE SchemaInv'
  <2>1. SchemaInv  BY <1>4 DEF NativeInv
  <2>2. S!Next \/ UNCHANGED schemaVars  BY <1>4 DEF NativeNext, Stop, nativeVars
  <2>3. ASSUME UNCHANGED schemaVars PROVE SchemaInv'
    BY <2>1, <2>3 DEF SchemaInv, S!TypeOK, CallShape, OneSchemaHandle, schemaVars
  <2> QED  BY <2>1, <2>2, <2>3, SchemaStep
<1>5. ASSUME part = "batch" PROVE BatchInv'
  <2>1. BatchInv  BY <1>5 DEF NativeInv
  <2>2. B!Next \/ UNCHANGED batchVars  BY <1>5 DEF NativeNext, Stop, nativeVars
  <2>3. ASSUME UNCHANGED batchVars PROVE BatchInv'
    BY <2>1, <2>3 DEF BatchInv, RanRows, B!ResultsAreRows, B!Args, batchVars
  <2> QED  BY <2>1, <2>2, <2>3, BatchStep
<1>6. ASSUME part = "outparams" PROVE OutInv'
  <2>1. OutInv  BY <1>6 DEF NativeInv
  <2>2. O!Next \/ UNCHANGED outVars  BY <1>6 DEF NativeNext, Stop, nativeVars
  <2>3. ASSUME UNCHANGED outVars PROVE OutInv'
    BY <2>1, <2>3 DEF OutInv, OwnRow, outVars
  <2> QED  BY <2>1, <2>2, <2>3, OutStep
<1> QED  BY <1>0, <1>2, <1>3, <1>4, <1>5, <1>6 DEF NativeInv

\* The state of the session, of its parameters and of a schema lookup stays
\* within its types; in particular the isolation level on the server is always
\* one that its version has (Conn.SetIsolationLevel).
THEOREM NativeTyped == NativeSpec => []NativeTypeOK
<1>1. NativeInv => NativeTypeOK  BY DEF NativeInv, NativeTypeOK, SessionInv, SchemaInv
<1> QED  BY <1>1, InitNative, NativeStep, PTL DEF NativeSpec, nativeVars

\* The server waits for a lock as long as the application asked, to the
\* millisecond and up to MaxInt32 of them, and forever only when asked to, for
\* every duration and every width of the integer; the isolation level is the one
\* asked for (Conn.SetLockTimeout, Conn.SetIsolationLevel).
THEOREM ServerHasWhatWasAsked == NativeSpec => []ParamsAsAsked
<1>1. NativeInv => ParamsAsAsked  BY DEF NativeInv, ParamsAsAsked
<1> QED  BY <1>1, InitNative, NativeStep, PTL DEF NativeSpec, nativeVars

\* Between calls the server holds no handle of the connection but those of
\* replies that could not be parsed and those it refused to close: the deferred
\* Stmt.Close of Conn.Exec and the deferred Rows.Close of forEachSchemaRow release
\* it on every path, whatever the catalogue and the order of its rows.
THEOREM HandlesAllReleased == NativeSpec => []HandlesReleased
<1>1. SessionInv => StatementsClosed  BY SessionClosed
<1>2. SchemaInv => S!HandlesReleased
  BY NoCallFacts, SchemaFacts DEF S!HandlesReleased
<1>3. NativeInv => HandlesReleased  BY <1>1, <1>2 DEF NativeInv, HandlesReleased
<1> QED  BY <1>3, InitNative, NativeStep, PTL DEF NativeSpec, nativeVars

\* A batch that returns without an error has one result for each row, that of
\* executing the statement with the values of this row, for any number of rows
\* and parameters, though the request has no row boundaries (Stmt.ExecBatch).
THEOREM BatchResultsAreRows == NativeSpec => []ResultsAreRows
<1>1. NativeInv => ResultsAreRows  BY DEF NativeInv, BatchInv, ResultsAreRows
<1> QED  BY <1>1, InitNative, NativeStep, PTL DEF NativeSpec, nativeVars

\* Each entry of OutValues is the value of its own marker from the last execution,
\* for any number of markers, whenever they were registered and however few columns
\* PREPARE described (Stmt.RegisterOutParam, Stmt.paramModes, Stmt.OutValues).
THEOREM OutValuesAreOwn == NativeSpec => []OutValuesOwn
<1>1. NativeInv => OutValuesOwn  BY OwnValues DEF NativeInv, OutValuesOwn
<1> QED  BY <1>1, InitNative, NativeStep, PTL DEF NativeSpec, nativeVars
=============================================================================
