--------------------------- MODULE Connect_proofs ---------------------------
(***************************************************************************)
(* Proofs about Connect.tla for any number of hosts: type correctness, no  *)
(* socket is leaked (NoSocketLeak), and the sweep skips no host            *)
(* (SweepInOrder).                                                         *)
(***************************************************************************)
EXTENDS Connect, TLAPS

USE MaxHostsAssumption DEF Host, Socket, Guards, Config

\* Init establishes the inductive invariant: no host tried, no socket open.
LEMMA InitInv == Init => ConnectInv
<1> SUFFICES ASSUME Init PROVE ConnectInv
  OBVIOUS
<1>1. TypeOK
  BY DEF Init, TypeOK
<1>2. SocketsAt /\ SweepAt /\ NoSocketLeak /\ SweepInOrder
  BY DEF Init, SocketsAt, SweepAt, NoSocketLeak, SweepInOrder
<1> QED
  BY <1>1, <1>2 DEF ConnectInv

\* A failed attempt, at whatever point, closes its socket, records its host and
\* ends the sweep or moves it to the next host.
LEMMA FailsInv ==
  ASSUME ConnectInv, Fails,
         pc \in {"dial", "greet", "redial", "tls", "auth"}
  PROVE  ConnectInv'
<1> USE DEF ConnectInv
<1>1. sockets' = {}
  BY DEF Fails, SocketsAt, NoSocketLeak
<1>2. /\ errs' = Append(errs, host) /\ Len(errs) = host - 1
      /\ errs \in Seq(Host) /\ host \in Host /\ host <= cfg.hosts
  BY DEF Fails, SweepAt, TypeOK
<1>3. /\ errs' \in Seq(Host) /\ Len(errs') = host
      /\ \A i \in 1 .. Len(errs') : errs'[i] = i
  BY <1>2 DEF SweepInOrder, TypeOK
<1>4. CASE host = cfg.hosts \/ ctx = "done"
  <2>1. TypeOK'
    BY <1>1, <1>3, <1>4 DEF Fails, TypeOK
  <2>2. SocketsAt' /\ NoSocketLeak'
    BY <1>1, <1>4 DEF Fails, SocketsAt, NoSocketLeak
  <2>3. SweepAt' /\ SweepInOrder'
    BY <1>2, <1>3, <1>4 DEF Fails, SweepAt, SweepInOrder, TypeOK
  <2> QED
    BY <2>1, <2>2, <2>3
<1>5. CASE ~(host = cfg.hosts \/ ctx = "done")
  <2>1. host + 1 \in Host /\ host + 1 <= cfg.hosts /\ cfg.hosts \in Host
    BY <1>2, <1>5 DEF TypeOK
  <2>2. opened <= 2 * host /\ result = "none"
    BY <1>2 DEF SocketsAt, TypeOK
  <2>3. TypeOK'
    BY <1>1, <1>3, <1>5, <2>1 DEF Fails, TypeOK
  <2>4. SocketsAt' /\ NoSocketLeak'
    BY <1>1, <1>2, <1>5, <2>2 DEF Fails, SocketsAt, NoSocketLeak
  <2>5. SweepAt' /\ SweepInOrder'
    BY <1>2, <1>3, <1>5, <2>1, <2>2 DEF Fails, SweepAt, SweepInOrder
  <2> QED
    BY <2>3, <2>4, <2>5
<1> QED
  BY <1>4, <1>5

\* Every step of Connect, of the clock and of the caller preserves the
\* inductive invariant.
LEMMA InvStep == ConnectInv /\ [Next]_vars => ConnectInv'
<1> SUFFICES ASSUME ConnectInv, [Next]_vars PROVE ConnectInv'
  OBVIOUS
<1> USE DEF ConnectInv
<1> DEFINE Parts == SocketsAt /\ SweepAt /\ NoSocketLeak /\ SweepInOrder
<1>1. CASE Start
  <2>1. TypeOK'
    BY <1>1 DEF Start, TypeOK
  <2>2. Parts'
    BY <1>1 DEF Start, TypeOK, SocketsAt, SweepAt, NoSocketLeak, SweepInOrder
  <2> QED
    BY <2>1, <2>2
<1>2. CASE DialOK
  <2>1. opened + 1 \in Socket
    BY <1>2 DEF DialOK, TypeOK, SocketsAt, SweepAt
  <2>2. TypeOK'
    BY <1>2, <2>1 DEF DialOK, Guard, TypeOK
  <2>3. sockets' = {opened + 1} /\ opened' = opened + 1
    BY <1>2 DEF DialOK, SocketsAt
  <2>4. SocketsAt' /\ NoSocketLeak'
    BY <1>2, <2>3 DEF DialOK, TypeOK, SocketsAt, NoSocketLeak
  <2>5. SweepAt' /\ SweepInOrder'
    BY <1>2 DEF DialOK, SocketsAt, SweepAt, SweepInOrder
  <2> QED
    BY <2>2, <2>4, <2>5
<1>3. CASE GreetOK \/ TlsOK
  <2>1. TypeOK'
    BY <1>3 DEF GreetOK, TlsOK, AfterGreeting, TypeOK
  <2>2. Parts'
    BY <1>3 DEF GreetOK, TlsOK, AfterGreeting, TypeOK, SocketsAt, SweepAt,
                NoSocketLeak, SweepInOrder
  <2> QED
    BY <2>1, <2>2
<1>4. CASE GreetRedirect
  <2>1. TypeOK'
    BY <1>4 DEF GreetRedirect, TypeOK
  <2>2. Parts'
    BY <1>4 DEF GreetRedirect, TypeOK, SocketsAt, SweepAt, NoSocketLeak, SweepInOrder
  <2> QED
    BY <2>1, <2>2
<1>5. CASE RedialOK
  <2>1. opened + 1 \in Socket
    BY <1>5 DEF RedialOK, TypeOK, SocketsAt, SweepAt
  <2>2. TypeOK'
    BY <1>5, <2>1 DEF RedialOK, TypeOK
  <2>3. sockets' = {opened + 1} /\ opened' = opened + 1
    BY <1>5 DEF RedialOK, SocketsAt
  <2>4. SocketsAt' /\ NoSocketLeak'
    BY <1>5, <2>3 DEF RedialOK, TypeOK, SocketsAt, NoSocketLeak
  <2>5. SweepAt' /\ SweepInOrder'
    BY <1>5 DEF RedialOK, SocketsAt, SweepAt, SweepInOrder
  <2> QED
    BY <2>2, <2>4, <2>5
<1>6. CASE Swap
  <2>1. TypeOK'
    BY <1>6 DEF Swap, Guard, AfterGreeting, TypeOK
  <2>2. Parts'
    BY <1>6 DEF Swap, Guard, AfterGreeting, TypeOK, SocketsAt, SweepAt,
                NoSocketLeak, SweepInOrder
  <2> QED
    BY <2>1, <2>2
<1>7. CASE AuthOK
  <2>1. TypeOK'
    BY <1>7 DEF AuthOK, Stopped, TypeOK
  <2>2. Parts'
    BY <1>7 DEF AuthOK, TypeOK, SocketsAt, SweepAt, NoSocketLeak, SweepInOrder
  <2> QED
    BY <2>1, <2>2
<1>8. CASE Refused
  BY <1>8, FailsInv DEF Refused
<1>9. CASE TimedOut
  BY <1>9, FailsInv DEF TimedOut
<1>10. CASE Expire \/ CallerDone
  <2>1. CASE Expire
    BY <2>1 DEF Expire, AttemptDone, TypeOK, SocketsAt, SweepAt, NoSocketLeak,
                SweepInOrder
  <2>2. CASE CallerDone
    <3>1. /\ actx' \in {"live", "cancelled", "expired"}
          /\ cb' \in [Guards -> {"none", "armed", "started", "ran", "stopped"}]
      <4>1. CASE actx = "live"
        BY <2>2, <4>1 DEF CallerDone, AttemptDone, TypeOK
      <4>2. CASE actx # "live"
        BY <2>2, <4>2 DEF CallerDone, TypeOK
      <4> QED
        BY <4>1, <4>2
    <3>2. TypeOK'
      BY <2>2, <3>1 DEF CallerDone, TypeOK
    <3>3. Parts'
      BY <2>2 DEF CallerDone, SocketsAt, SweepAt, NoSocketLeak, SweepInOrder
    <3> QED
      BY <3>2, <3>3
  <2> QED
    BY <1>10, <2>1, <2>2
<1>11. CASE \E g \in Guards : Callback(g)
  <2>1. PICK g \in Guards : Callback(g)
    BY <1>11
  <2>2. cb' \in [Guards -> {"none", "armed", "started", "ran", "stopped"}]
    BY <2>1 DEF Callback, TypeOK
  <2>3. dl' \in [Socket -> {"none", "ctx", "past"}]
    BY <2>1 DEF Callback, TypeOK
  <2>4. TypeOK'
    BY <2>1, <2>2, <2>3 DEF Callback, TypeOK
  <2>5. Parts'
    BY <2>1 DEF Callback, SocketsAt, SweepAt, NoSocketLeak, SweepInOrder
  <2> QED
    BY <2>4, <2>5
<1>12. CASE UNCHANGED vars
  BY <1>12 DEF vars, TypeOK, SocketsAt, SweepAt, NoSocketLeak, SweepInOrder
<1> QED
  BY <1>1, <1>2, <1>3, <1>4, <1>5, <1>6, <1>7, <1>8, <1>9, <1>10, <1>11,
     <1>12 DEF Next

\* The inductive invariant holds throughout, for any number of hosts.
THEOREM ConnectInvariant == Spec => []ConnectInv
<1>1. Init => ConnectInv
  BY InitInv
<1>2. ConnectInv /\ [Next]_vars => ConnectInv'
  BY InvStep
<1> QED
  BY <1>1, <1>2, PTL DEF Spec

\* connectHost and the sweep leak no socket, on any path through dial,
\* redirect, TLS and authentication, whatever fails or is cancelled.
THEOREM NoLeak == Spec => []NoSocketLeak
<1>1. ConnectInv => NoSocketLeak
  BY DEF ConnectInv
<1> QED
  BY <1>1, ConnectInvariant, PTL

\* The sweep of Connect tries every host in order and reports each failure.
THEOREM SweepComplete == Spec => []SweepInOrder
<1>1. ConnectInv => SweepInOrder
  BY DEF ConnectInv
<1> QED
  BY <1>1, ConnectInvariant, PTL
=============================================================================
