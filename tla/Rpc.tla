-------------------------------- MODULE Rpc --------------------------------
(***************************************************************************)
(* What a cubrid.Conn promises to the code above it (database/sql's pool,  *)
(* the Stmt, Rows, Lob and schema layers): an RPC session with one CAS     *)
(* process.                                                                *)
(*                                                                         *)
(* Calls are numbered 1..n in the order they are made.  A call that was    *)
(* admitted is executed by the CAS at most once; it returns a reply only   *)
(* after its own execution; when it fails the session is dead, every later *)
(* call is refused without ever being executed, and the only execution     *)
(* that can still happen is that of the failed call itself, which the CAS  *)
(* may complete late.                                                      *)
(*                                                                         *)
(* Conn.tla is the implementation: sockets, deadlines, cancellation.       *)
(***************************************************************************)
EXTENDS Naturals

CONSTANT MaxCalls \* bound on the number of calls made

VARIABLES
  n,         \* number of calls made so far
  busy,      \* call n is in progress
  alive,     \* the session admits calls
  outcome,   \* what each call returned ("none" while it has not)
  executed   \* the calls the CAS has executed

rpcVars == <<n, busy, alive, outcome, executed>>

RpcCall == 1 .. MaxCalls

RpcInit ==
  /\ n = 0
  /\ busy = FALSE
  /\ alive = TRUE
  /\ outcome = [o \in RpcCall |-> "none"]
  /\ executed = {}

\* A call is admitted only by a live session, one at a time.
Admit ==
  /\ ~busy /\ alive /\ n < MaxCalls
  /\ n' = n + 1
  /\ busy' = TRUE
  /\ UNCHANGED <<alive, outcome, executed>>

\* A dead session refuses the call.
RefuseCall ==
  /\ ~busy /\ ~alive /\ n < MaxCalls
  /\ n' = n + 1
  /\ outcome' = [outcome EXCEPT ![n + 1] = "badconn"]
  /\ UNCHANGED <<busy, alive, executed>>

\* The CAS executes a call at most once, never one that was refused, and
\* never after a later call was admitted.
ExecuteCall(o) ==
  /\ o \in 1 .. n
  /\ o \notin executed
  /\ outcome[o] # "badconn"
  /\ \A p \in (o + 1) .. n : outcome[p] = "badconn"
  /\ executed' = executed \union {o}
  /\ UNCHANGED <<n, busy, alive, outcome>>

\* The call returns the reply to its own request; a CON_CLOSE call also ends
\* the session.
ReplyCall ==
  /\ busy /\ n \in executed
  /\ outcome' = [outcome EXCEPT ![n] = "reply"]
  /\ busy' = FALSE
  /\ alive' \in BOOLEAN
  /\ UNCHANGED <<n, executed>>

\* The call fails: the session is dead from now on.
FailCall ==
  /\ busy
  /\ \E e \in {"ctx", "net"} : outcome' = [outcome EXCEPT ![n] = e]
  /\ busy' = FALSE
  /\ alive' = FALSE
  /\ UNCHANGED <<n, executed>>

RpcNext ==
  \/ Admit
  \/ RefuseCall
  \/ \E o \in RpcCall : ExecuteCall(o)
  \/ ReplyCall
  \/ FailCall

RpcSpec == RpcInit /\ [][RpcNext]_rpcVars
=============================================================================
