------------------------------ MODULE Connect ------------------------------
(***************************************************************************)
(* cubrid.Connect: the failover sweep over Host and AltHosts, and the      *)
(* attempt on one host, connectHost and handshake (cubrid/conn.go): dial,  *)
(* greeting, CAS port redirect, TLS upgrade, authentication.               *)
(*                                                                         *)
(* Every wait is under the attempt's context, the caller's bounded by the  *)
(* connect timeout: the dials and the TLS handshake take it directly, the  *)
(* other reads and writes through guard, whose AfterFunc callback runs in  *)
(* a goroutine of its own and moves the deadline of whatever socket        *)
(* Conn.nc is at that moment (a redirect replaces it meanwhile).           *)
(*                                                                         *)
(* Brokers, package context and the clock are external.  A broker may      *)
(* answer, refuse, or never answer.                                        *)
(***************************************************************************)
EXTENDS Naturals, Sequences

CONSTANT MaxHosts \* bound on Host and the AltHosts together

ASSUME MaxHostsAssumption == MaxHosts \in Nat \ {0}

VARIABLES
  cfg,      \* Config: how many hosts, tried in order; ConnectTimeout > 0; SSL
  pc,       \* where Connect is
  host,     \* the host being tried
  ctx,      \* the caller's context: "live" or "done"
  actx,     \* the attempt's context: "live", "cancelled" or "expired"
  sockets,  \* sockets that are open
  opened,   \* sockets opened so far; they are numbered
  nc,       \* Conn.nc: the socket of the attempt, 0 before the dial
  dl,       \* dl[s]: the deadline of socket s: "none", "ctx" or "past"
  cb,       \* cb[g]: the AfterFunc callback of the attempt's guard g
  errs,     \* the hosts that failed, as reported in the aggregate error
  result    \* what Connect returned: "none", "conn" or "err"

vars == <<cfg, pc, host, ctx, actx, sockets, opened, nc, dl, cb, errs, result>>

Host == 1 .. MaxHosts
Socket == 1 .. 2 * MaxHosts \* at most two per attempt
Guards == {1, 2}          \* the second one only after a redirect

Config == [hosts : Host, timeout : BOOLEAN, ssl : BOOLEAN]

TypeOK ==
  /\ cfg \in Config
  /\ pc \in {"start", "dial", "greet", "redial", "swap", "tls", "auth", "returned"}
  /\ host \in Host
  /\ ctx \in {"live", "done"}
  /\ actx \in {"live", "cancelled", "expired"}
  /\ sockets \subseteq Socket
  /\ opened \in 0 .. 2 * MaxHosts
  /\ nc \in 0 .. 2 * MaxHosts
  /\ dl \in [Socket -> {"none", "ctx", "past"}]
  /\ cb \in [Guards -> {"none", "armed", "started", "ran", "stopped"}]
  /\ errs \in Seq(Host)
  /\ result \in {"none", "conn", "err"}

Init ==
  /\ cfg \in Config
  /\ pc = "start" /\ host = 1
  /\ ctx = "live" /\ actx = "live"
  /\ sockets = {} /\ opened = 0 /\ nc = 0
  /\ dl = [s \in Socket |-> "none"]
  /\ cb = [g \in Guards |-> "none"]
  /\ errs = <<>>
  /\ result = "none"

\* Mutant of Bounded: no default timeout in a sweep.
BoundedByTimeout == cfg.timeout

\* A single host is bounded by ConnectTimeout only; in a sweep every attempt
\* is bounded (defaultFailoverTimeout).
Bounded == cfg.timeout \/ cfg.hosts > 1

Past(s) == dl[s] = "past" \/ (dl[s] = "ctx" /\ actx = "expired")

-----------------------------------------------------------------------------
(* Steps of an attempt *)

\* guard(ctx) on socket s.
Guard(g, s) ==
  /\ dl' = [dl EXCEPT ![s] = IF Bounded THEN "ctx" ELSE "none"]
  /\ cb' = [cb EXCEPT ![g] = IF actx = "live" THEN "armed" ELSE "started"]

\* The deferred guard exits: callbacks not started yet are stopped.
Stopped == [g \in Guards |-> IF cb[g] = "armed" THEN "stopped" ELSE cb[g]]

\* Connect starts: an AltHosts entry that does not parse ends it at once.
Start ==
  /\ pc = "start"
  /\ \/ pc' = "dial" /\ UNCHANGED result
     \/ cfg.hosts > 1 /\ pc' = "returned" /\ result' = "err"
  /\ UNCHANGED <<cfg, host, ctx, actx, sockets, opened, nc, dl, cb, errs>>

\* Mutant of Fails: the socket dialled first is closed, not the current one.
FailsKeepsRedirect ==
  /\ sockets' = sockets \ {IF cb[2] = "none" THEN nc ELSE nc - 1}
  /\ errs' = Append(errs, host)
  /\ cb' = [g \in Guards |-> "none"]
  /\ nc' = 0
  /\ IF host = cfg.hosts \/ ctx = "done"
     THEN /\ pc' = "returned" /\ result' = "err"
          /\ UNCHANGED <<host, actx>>
     ELSE /\ pc' = "dial" /\ host' = host + 1 /\ actx' = "live"
          /\ UNCHANGED result
  /\ UNCHANGED <<cfg, ctx, opened, dl>>

\* Mutant of Fails: the attempt's own timeout ends the sweep.
FailsOnAttempt ==
  /\ sockets' = sockets \ {nc}
  /\ errs' = Append(errs, host)
  /\ cb' = [g \in Guards |-> "none"]
  /\ nc' = 0
  /\ IF host = cfg.hosts \/ actx # "live"
     THEN /\ pc' = "returned" /\ result' = "err"
          /\ UNCHANGED <<host, actx>>
     ELSE /\ pc' = "dial" /\ host' = host + 1 /\ actx' = "live"
          /\ UNCHANGED result
  /\ UNCHANGED <<cfg, ctx, opened, dl>>

\* The attempt fails: its current socket is closed and its error kept; the
\* sweep goes on with the next host unless the caller's context is done.  (A
\* callback of the attempt that still runs finds its socket closed.)
Fails ==
  /\ sockets' = sockets \ {nc}
  /\ errs' = Append(errs, host)
  /\ cb' = [g \in Guards |-> "none"]
  /\ nc' = 0
  /\ IF host = cfg.hosts \/ ctx = "done"
     THEN /\ pc' = "returned" /\ result' = "err"
          /\ UNCHANGED <<host, actx>>
     ELSE /\ pc' = "dial" /\ host' = host + 1 /\ actx' = "live"
          /\ UNCHANGED result
  /\ UNCHANGED <<cfg, ctx, opened, dl>>

\* d.DialContext
DialOK ==
  /\ pc = "dial" /\ actx = "live"
  /\ opened' = opened + 1
  /\ sockets' = sockets \union {opened + 1}
  /\ nc' = opened + 1
  /\ Guard(1, opened + 1)
  /\ pc' = "greet"
  /\ UNCHANGED <<cfg, host, ctx, actx, errs, result>>

\* After the greeting: TLS or straight to authentication.
AfterGreeting == IF cfg.ssl THEN "tls" ELSE "auth"

\* The broker passes the socket on to a CAS (reply 0).
GreetOK ==
  /\ pc = "greet" /\ ~Past(nc)
  /\ pc' = AfterGreeting
  /\ UNCHANGED <<cfg, host, ctx, actx, sockets, opened, nc, dl, cb, errs, result>>

\* The broker replies with the port of a CAS: the socket is closed.
GreetRedirect ==
  /\ pc = "greet" /\ ~Past(nc)
  /\ sockets' = sockets \ {nc}
  /\ pc' = "redial"
  /\ UNCHANGED <<cfg, host, ctx, actx, opened, nc, dl, cb, errs, result>>

RedialOK ==
  /\ pc = "redial" /\ actx = "live"
  /\ opened' = opened + 1
  /\ sockets' = sockets \union {opened + 1}
  /\ pc' = "swap"
  /\ UNCHANGED <<cfg, host, ctx, actx, nc, dl, cb, errs, result>>

\* Mutant of Swap: the new socket is not guarded.
SwapUnguarded ==
  /\ pc = "swap"
  /\ nc' = opened
  /\ pc' = AfterGreeting
  /\ UNCHANGED <<cfg, host, ctx, actx, sockets, opened, dl, cb, errs, result>>

\* c.nc becomes the new socket, which gets a guard of its own.
Swap ==
  /\ pc = "swap"
  /\ nc' = opened
  /\ Guard(2, opened)
  /\ pc' = AfterGreeting
  /\ UNCHANGED <<cfg, host, ctx, actx, sockets, opened, errs, result>>

\* TLS, on the same socket.
TlsOK ==
  /\ pc = "tls" /\ actx = "live" /\ ~Past(nc)
  /\ pc' = "auth"
  /\ UNCHANGED <<cfg, host, ctx, actx, sockets, opened, nc, dl, cb, errs, result>>

\* dbInfo and its reply: the connection is handed to the caller.
AuthOK ==
  /\ pc = "auth" /\ ~Past(nc)
  /\ cb' = Stopped
  /\ dl' = [dl EXCEPT ![nc] = "none"]
  /\ pc' = "returned" /\ result' = "conn"
  /\ UNCHANGED <<cfg, host, ctx, actx, sockets, opened, nc, errs>>

\* The step fails because the broker refused, rejected or closed.
Refused == pc \in {"dial", "greet", "redial", "tls", "auth"} /\ Fails

\* The step fails because it waited long enough.
TimedOut ==
  /\ \/ pc \in {"dial", "redial", "tls"} /\ actx # "live"
     \/ pc \in {"greet", "tls", "auth"} /\ Past(nc)
  /\ Fails

-----------------------------------------------------------------------------
(* External: contexts and the clock *)

AttemptDone(how) ==
  /\ actx' = how
  /\ cb' = [g \in Guards |-> IF cb[g] = "armed" THEN "started" ELSE cb[g]]

\* The attempt's timeout expires.
Expire ==
  /\ Bounded /\ actx = "live" /\ pc \notin {"start", "returned"}
  /\ AttemptDone("expired")
  /\ UNCHANGED <<cfg, pc, host, ctx, sockets, opened, nc, dl, errs, result>>

\* The caller cancels, and with it the attempt.
CallerDone ==
  /\ ctx = "live" /\ pc # "returned"
  /\ ctx' = "done"
  /\ IF actx = "live" THEN AttemptDone("cancelled") ELSE UNCHANGED <<actx, cb>>
  /\ UNCHANGED <<cfg, pc, host, sockets, opened, nc, dl, errs, result>>

\* The callback's SetDeadline, on what c.nc is when it runs.
Callback(g) ==
  /\ cb[g] = "started"
  /\ cb' = [cb EXCEPT ![g] = "ran"]
  /\ dl' = IF nc \in sockets THEN [dl EXCEPT ![nc] = "past"] ELSE dl
  /\ UNCHANGED <<cfg, pc, host, ctx, actx, sockets, opened, nc, errs, result>>

Next ==
  \/ Start
  \/ DialOK
  \/ GreetOK
  \/ GreetRedirect
  \/ RedialOK
  \/ Swap
  \/ TlsOK
  \/ AuthOK
  \/ Refused
  \/ TimedOut
  \/ Expire
  \/ CallerDone
  \/ \E g \in Guards : Callback(g)

Spec == Init /\ [][Next]_vars

\* The goroutine in Connect proceeds where nothing blocks it, the timer and
\* the callback goroutines run.  Nothing is assumed of the brokers.
Fairness ==
  /\ WF_vars(Start) /\ WF_vars(Swap) /\ WF_vars(TimedOut)
  /\ WF_vars(Expire)
  /\ \A g \in Guards : WF_vars(Callback(g))

LiveSpec == Spec /\ Fairness

-----------------------------------------------------------------------------
(* Properties *)

\* No socket is lost: a failed Connect leaves none open, a successful one
\* exactly the returned connection's, and an attempt never inherits one, also
\* when a redirect replaced the socket halfway.
NoSocketLeak ==
  /\ pc = "dial" \/ result = "err" => sockets = {}
  /\ result = "conn" => sockets = {nc}
  /\ \A s, t \in sockets : s = t

\* The sweep tries the hosts in order and skips none: a connection is to the
\* first host that did not fail, and the aggregate error names every host,
\* unless the caller's context ended the sweep or an entry did not parse.
SweepInOrder ==
  /\ \A i \in 1 .. Len(errs) : errs[i] = i
  /\ result = "conn" => Len(errs) = host - 1
  /\ result = "err" => Len(errs) \in {0, cfg.hosts} \/ ctx = "done"

\* Connect with a timeout, or over several hosts, returns even if every broker
\* accepts the connection and then says nothing.
ConnectReturns == (cfg.timeout \/ cfg.hosts > 1) ~> (result # "none")

\* Connect returns once the caller's context is done, timeout or not, at
\* whatever point of a redirect that happens.
CancelledConnectReturns == (ctx = "done") ~> (result # "none")

-----------------------------------------------------------------------------
(* The inductive invariant behind NoSocketLeak and SweepInOrder *)

\* Which sockets are open at each point of an attempt, and how many were
\* opened so far.
SocketsAt ==
  /\ pc = "start" => host = 1
  /\ pc \in {"start", "dial"} => sockets = {} /\ opened <= 2 * (host - 1)
  /\ pc = "greet" => sockets = {nc} /\ opened <= 2 * (host - 1) + 1
  /\ pc = "redial" => sockets = {} /\ opened <= 2 * (host - 1) + 1
  /\ pc = "swap" => sockets = {opened} /\ opened <= 2 * host
  /\ pc \in {"tls", "auth"} => sockets = {nc} /\ opened <= 2 * host
  /\ result = "none" <=> pc # "returned"

\* While the sweep is going on exactly the hosts before the current one failed.
SweepAt ==
  /\ host <= cfg.hosts
  /\ pc # "returned" => Len(errs) = host - 1

\* The inductive invariant: the sockets and errors of a sweep in progress, and
\* what is left of them when it is over.
ConnectInv == TypeOK /\ SocketsAt /\ SweepAt /\ NoSocketLeak /\ SweepInOrder
=============================================================================
