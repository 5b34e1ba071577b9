---------------------------- MODULE Conn_proofs ----------------------------
(***************************************************************************)
(* Proofs about Conn.tla for any number of calls and any contexts: type    *)
(* correctness, the pairing of requests and responses (ReplyIsOwn), the    *)
(* quiet wire of a reusable connection (QuietWhenValid), the meaning of    *)
(* ErrBadConn (BadConnNeverSent), and the refinement of Rpc.tla.           *)
(***************************************************************************)
EXTENDS Conn, SequenceTheorems, TLAPS

\* What Append, Head and Tail do to the wire's sequences, in one place.
LEMMA SeqFacts ==
  ASSUME NEW S, NEW s \in Seq(S)
  PROVE  /\ \A e \in S : /\ Append(s, e) \in Seq(S)
                         /\ Len(Append(s, e)) = Len(s) + 1
                         /\ \A i \in 1 .. Len(s) : Append(s, e)[i] = s[i]
                         /\ Append(s, e)[Len(s) + 1] = e
         /\ s # <<>> => /\ Head(s) \in S
                        /\ Tail(s) \in Seq(S)
                        /\ Len(Tail(s)) = Len(s) - 1
                        /\ \A i \in 1 .. Len(Tail(s)) : Tail(s)[i] = s[i + 1]
                        /\ Head(s) = s[1]
                        /\ Len(s) > 0
         /\ Len(s) \in Nat
<1>1. \A e \in S : /\ Append(s, e) \in Seq(S)
                   /\ Len(Append(s, e)) = Len(s) + 1
                   /\ \A i \in 1 .. Len(s) : Append(s, e)[i] = s[i]
                   /\ Append(s, e)[Len(s) + 1] = e
  BY AppendProperties
<1>2. s # <<>> => /\ Head(s) \in S
                  /\ Tail(s) \in Seq(S)
                  /\ Len(Tail(s)) = Len(s) - 1
                  /\ \A i \in 1 .. Len(Tail(s)) : Tail(s)[i] = s[i + 1]
  BY HeadTailProperties
<1>3. s # <<>> => Head(s) = s[1] /\ Len(s) > 0
  OBVIOUS
<1> QED
  BY <1>1, <1>2, <1>3

\* Two sequences of length one with the same elements are equal.
LEMMA SingletonEqual ==
  ASSUME NEW S, NEW s \in Seq(S), NEW t \in Seq(S),
         Len(s) = 1, Len(t) = 1, s[1] = t[1]
  PROVE  s = t
<1>1. \A i \in 1 .. Len(s) : s[i] = t[i]
  OBVIOUS
<1> QED
  BY <1>1, SeqEqual

\* Pairs with the same elements are equal.
LEMMA PairEqual ==
  ASSUME NEW S, NEW s \in Seq(S), NEW t \in Seq(S),
         Len(s) = 2, Len(t) = 2, s[1] = t[1], s[2] = t[2]
  PROVE  s = t
<1>1. \A i \in 1 .. Len(s) : s[i] = t[i]
  OBVIOUS
<1> QED
  BY <1>1, SeqEqual

\* What appending to a sequence of length one gives.
LEMMA AppendToOne ==
  ASSUME NEW S, NEW u \in Seq(S), Len(u) = 1, NEW b \in S
  PROVE  /\ Append(u, b) \in Seq(S) /\ Len(Append(u, b)) = 2
         /\ Append(u, b)[1] = u[1] /\ Append(u, b)[2] = b
<1>1. Append(u, b)[Len(u) + 1] = b
  BY AppendProperties, Zenon
<1>2. \A i \in 1 .. Len(u) : Append(u, b)[i] = u[i]
  BY AppendProperties
<1>3. Append(u, b) \in Seq(S) /\ Len(Append(u, b)) = 2
  OBVIOUS
<1>4. Len(u) + 1 = 2 /\ 1 \in 1 .. Len(u)
  OBVIOUS
<1>5. Append(u, b)[2] = b
  BY <1>1, <1>4, Zenon
<1>6. Append(u, b)[1] = u[1]
  BY <1>2, <1>4, Zenon
<1> QED
  BY <1>3, <1>5, <1>6

\* Sequences of one and two elements.
LEMMA ShortSeqs ==
  ASSUME NEW a, NEW b
  PROVE  /\ Head(<<a>>) = a /\ Tail(<<a>>) = <<>>
         /\ Head(<<a, b>>) = a /\ Tail(<<a, b>>) = <<b>>
         /\ Append(<<a>>, b) = <<a, b>> /\ Append(<<>>, a) = <<a>>
         /\ <<b>> # <<>>
<1> DEFINE S == {a, b}
           s == <<a, b>>
           t == <<b>>
           u == <<a>>
<1>1. Head(u) = a /\ Head(s) = a /\ Tail(u) = <<>> /\ Append(<<>>, a) = u
  OBVIOUS
<1>2. s \in Seq(S) /\ s # <<>> /\ Len(s) = 2 /\ s[1] = a /\ s[2] = b
  OBVIOUS
<1>3. t \in Seq(S) /\ Len(t) = 1 /\ t[1] = b /\ t # <<>>
  OBVIOUS
<1>4. u \in Seq(S) /\ Len(u) = 1 /\ u[1] = a /\ b \in S
  OBVIOUS
<1> HIDE DEF S, s, t, u
<1>5. Tail(s) = t
  <2>1. /\ Tail(s) \in Seq(S) /\ Len(Tail(s)) = 1
        /\ \A i \in 1 .. Len(Tail(s)) : Tail(s)[i] = s[i + 1]
    BY <1>2, HeadTailProperties
  <2>2. Tail(s)[1] = b
    BY <1>2, <2>1
  <2> QED
    BY <1>3, <2>1, <2>2, SingletonEqual
<1>6. Append(u, b) = s
  <2>1. /\ Append(u, b) \in Seq(S) /\ Len(Append(u, b)) = 2
        /\ Append(u, b)[1] = u[1] /\ Append(u, b)[2] = b
    BY <1>4, AppendToOne, Zenon
  <2>2. Append(u, b)[1] = s[1] /\ Append(u, b)[2] = s[2] /\ Len(s) = 2
    BY <1>2, <1>4, <2>1, Zenon
  <2> QED
    BY <1>2, <2>1, <2>2, PairEqual, Zenon
<1> QED
  BY <1>1, <1>3, <1>5, <1>6 DEF s, t, u

USE MaxCallsAssumption, CtxAssumption DEF Call, AnyCtx, UserCtx

\* Init establishes the inductive invariant: nothing is on the wire.
LEMMA InitInv == Init => ConnInv
<1> SUFFICES ASSUME Init PROVE ConnInv
  OBVIOUS
<1>1. TypeOK
  <2>1. <<>> \in Seq(Call) /\ <<>> \in Seq(Cell)
    OBVIOUS
  <2>2. /\ cas \in [state : {"idle", "executed", "hdrsent"}, call : 0 .. MaxCalls]
        /\ cas.state = "idle"
    BY DEF Init
  <2> QED
    BY <2>1, <2>2 DEF Init, TypeOK, Outcome
<1>2. InProgress /\ Unmade /\ ReplyIsOwn
  BY DEF Init, InProgress, Unmade, ReplyIsOwn
<1>3. LockStep
  BY DEF Init, LockStep, Quiet
<1>4. OnlyAdmittedSent
  BY DEF Init, OnlyAdmittedSent
<1> QED
  BY <1>1, <1>2, <1>3, <1>4 DEF ConnInv

\* The end of a call keeps the types: the guard exit and Close's last step.
LEMMA FinishType ==
  ASSUME TypeOK, Finish, n \in Call
  PROVE  /\ cb' \in [Call -> {"none", "armed", "started", "ran", "stopped"}]
         /\ deadline' \in {"none", "past"} \union DeadlineCtx
         /\ pc' \in {"idle", "write", "hdr", "body"}
         /\ closing' \in BOOLEAN
         /\ closed' \in BOOLEAN
BY DEF TypeOK, Finish, Unguard

\* A failed call keeps the types.
LEMMA FailType ==
  ASSUME TypeOK, Fail, n \in Call,
         UNCHANGED <<n, answer, ctxOf>>,
         UNCHANGED <<ctxVars, wireVars, casVars>>
  PROVE  TypeOK'
<1>1. outcome' \in [Call -> Outcome] /\ bad' \in BOOLEAN
  BY DEF TypeOK, Fail, Outcome
<1> QED
  BY <1>1, FinishType DEF TypeOK, Fail, ctxVars, wireVars, casVars

\* Every step of the client, the timers, the network and the CAS keeps the
\* variables in their types.
LEMMA TypeStep == TypeOK /\ InProgress /\ [Next]_vars => TypeOK'
<1> SUFFICES ASSUME TypeOK, InProgress, [Next]_vars PROVE TypeOK'
  OBVIOUS
<1>0. pc # "idle" => n \in Call
  BY DEF TypeOK, InProgress
<1>1. ASSUME NEW c \in UserCtx, RoundTrip(c) PROVE TypeOK'
  BY <1>1 DEF TypeOK, RoundTrip, BeginCall, Guard, ctxVars, wireVars, casVars
<1>2. ASSUME NEW c \in UserCtx, RoundTripBadConn(c) PROVE TypeOK'
  BY <1>2 DEF TypeOK, Outcome, RoundTripBadConn, connVars, guardVars, ctxVars,
              wireVars, casVars
<1>3. CASE CloseSend
  BY <1>3 DEF TypeOK, CloseSend, BeginCall, Guard, ctxVars, wireVars, casVars
<1>4. CASE CloseBad
  BY <1>4 DEF TypeOK, CloseBad, callVars, guardVars, ctxVars, wireVars, casVars
<1>5. CASE WriteRequest
  <2>1. toServer' \in Seq(Call)
    BY <1>0, <1>5, SeqFacts DEF TypeOK, WriteRequest
  <2> QED
    BY <1>5, <2>1 DEF TypeOK, WriteRequest, callVars, guardVars, ctxVars, casVars
<1>6. CASE WriteFail
  BY <1>0, <1>6, FailType DEF WriteFail
<1>7. ASSUME ReadHeader \/ ReadPayload
      PROVE  /\ Tail(Readable) \in Seq(Cell)
             /\ Kernel \in Seq(Cell)
             /\ Head(Readable).call \in Call
  <2>1. Readable \in Seq(Cell) /\ Kernel \in Seq(Cell) /\ Readable # <<>>
    BY <1>7 DEF TypeOK, ReadHeader, ReadPayload, Readable, Kernel
  <2>2. Tail(Readable) \in Seq(Cell) /\ Head(Readable) \in Cell
    BY <2>1, SeqFacts
  <2> QED
    BY <2>1, <2>2 DEF Cell
<1>8. CASE ReadHeader
  BY <1>7, <1>8
  DEF TypeOK, ReadHeader, callVars, guardVars, ctxVars, casVars
<1>9. CASE ReadPayload
  <2>1. answer' \in [Call -> 0 .. MaxCalls] /\ outcome' \in [Call -> Outcome]
    BY <1>0, <1>7, <1>9 DEF TypeOK, Outcome, ReadPayload
  <2>2. Finish /\ n \in Call
    BY <1>0, <1>9 DEF ReadPayload
  <2> QED
    BY <1>7, <1>9, <2>1, <2>2, FinishType DEF TypeOK, ReadPayload, ctxVars, casVars
<1>10. CASE ReadFail
  BY <1>0, <1>10, FailType DEF ReadFail
<1>11. ASSUME NEW c \in Ctx, CtxDone(c) PROVE TypeOK'
  BY <1>11 DEF TypeOK, CtxDone, callVars, connVars, wireVars, casVars
<1>12. ASSUME NEW c \in Ctx, DeadlinePasses(c) PROVE TypeOK'
  BY <1>12 DEF TypeOK, DeadlinePasses, guardVars, callVars, connVars, wireVars,
               casVars
<1>13. ASSUME NEW o \in Call, Callback(o) PROVE TypeOK'
  BY <1>13 DEF TypeOK, Callback, ctxVars, callVars, connVars, wireVars, casVars
<1>14. CASE CasExecute
  <2>0. toServer \in Seq(Call) /\ toServer # <<>> /\ executed \in Seq(Call)
    BY <1>14 DEF TypeOK, CasExecute
  <2>1. Head(toServer) \in Call /\ Tail(toServer) \in Seq(Call)
    BY <2>0, HeadTailProperties
  <2>2. executed' \in Seq(Call)
    BY <1>14, <2>0, <2>1, AppendProperties DEF CasExecute
  <2>3. /\ cas' \in [state : {"idle", "executed", "hdrsent"}, call : 0 .. MaxCalls]
        /\ cas'.call > 0
    BY <1>14, <2>1 DEF CasExecute
  <2>4. toServer' \in Seq(Call) /\ toClient' = toClient /\ br' = br /\ peer' = peer
    BY <1>14, <2>1 DEF CasExecute
  <2> QED
    BY <1>14, <2>2, <2>3, <2>4
    DEF TypeOK, CasExecute, callVars, connVars, guardVars, ctxVars
<1>15. ASSUME cas.state # "idle",
              NEW p \in {"hdr", "badhdr", "payload"},
              toClient' = Append(toClient, [call |-> cas.call, part |-> p])
       PROVE  toClient' \in Seq(Cell)
  <2>1. [call |-> cas.call, part |-> p] \in Cell
    BY <1>15 DEF TypeOK, Cell
  <2> QED
    BY <1>15, <2>1, SeqFacts DEF TypeOK
<1>16. CASE CasHeader
  BY <1>15, <1>16 DEF TypeOK, CasHeader, callVars, connVars, guardVars, ctxVars
<1>17. CASE CasPayload
  BY <1>15, <1>17 DEF TypeOK, CasPayload, callVars, connVars, guardVars, ctxVars
<1>18. CASE CasCorrupt
  BY <1>15, <1>18 DEF TypeOK, CasCorrupt, callVars, connVars, guardVars, ctxVars
<1>19. CASE PeerGone
  BY <1>19 DEF TypeOK, PeerGone, callVars, connVars, guardVars, ctxVars, wireVars
<1>20. CASE UNCHANGED vars
  BY <1>20 DEF TypeOK, vars
<1> QED
  BY <1>1, <1>2, <1>3, <1>4, <1>5, <1>6, <1>8, <1>9, <1>10, <1>11, <1>12, <1>13,
     <1>14, <1>16, <1>17, <1>18, <1>19, <1>20
  DEF Next, Cancel, Expire

-----------------------------------------------------------------------------
\* The parts of the invariant beyond the types.
Rest == InProgress /\ Unmade /\ LockStep /\ OnlyAdmittedSent /\ ReplyIsOwn

\* A step that touches neither the calls, the connection flags, the wire nor
\* the CAS keeps them (contexts, the clock, the callback).
LEMMA RestFrame ==
  ASSUME Rest, UNCHANGED <<callVars, connVars, wireVars, casVars>>
  PROVE  Rest'
BY DEF Rest, InProgress, Unmade, LockStep, Quiet, AwaitHeader, AwaitPayload, Ran,
       OnlyAdmittedSent, ReplyIsOwn, callVars, connVars, wireVars, casVars

\* What was sent or executed is a call.
LEMMA SentAreCalls ==
  ASSUME TypeOK
  PROVE  /\ \A i \in 1 .. Len(toServer) : toServer[i] \in Call
         /\ \A i \in 1 .. Len(executed) : executed[i] \in Call
<1>1. toServer \in Seq(Call) /\ executed \in Seq(Call)
  BY DEF TypeOK
<1> QED
  BY <1>1, ElementOfSeq

\* A failed call keeps them: the connection is poisoned, so lock step asks
\* nothing more, and the outcome is neither a reply nor ErrBadConn.
LEMMA RestFail ==
  ASSUME TypeOK, Rest, pc # "idle", Fail,
         UNCHANGED <<n, answer, ctxOf>>,
         UNCHANGED <<ctxVars, wireVars, casVars>>
  PROVE  Rest'
<1>1. InProgress' /\ LockStep'
  BY DEF Fail, Finish, InProgress, LockStep
<1>2. n \in Call /\ outcome' \in [Call -> Outcome]
      /\ outcome'[n] \in {"ctx", "net"}
      /\ \A o \in Call : o # n => outcome'[o] = outcome[o]
  BY DEF TypeOK, Rest, InProgress, Fail, Outcome
<1>3. OnlyAdmittedSent'
  <2>1. toServer' = toServer /\ executed' = executed /\ n' = n
    BY DEF wireVars, casVars
  <2> QED
    BY <1>2, <2>1, SentAreCalls DEF Rest, OnlyAdmittedSent
<1>4. ReplyIsOwn'
  BY <1>2 DEF Rest, ReplyIsOwn, casVars
<1>5. Unmade'
  <2>1. n' = n /\ \A o \in Call : o > n => o # n
    BY <1>2
  <2> QED
    BY <1>2, <2>1 DEF Rest, Unmade
<1> QED
  BY <1>1, <1>3, <1>4, <1>5 DEF Rest

\* The start of a call on a usable connection finds the wire quiet.
LEMMA RestBegin ==
  ASSUME TypeOK, Rest, NEW c, BeginCall(c)
  PROVE  Rest'
<1>1. /\ n' = n + 1 /\ n' \in Call /\ outcome' = outcome /\ pc' = "write"
      /\ answer' = answer /\ executed' = executed /\ toServer' = toServer
      /\ bad' = FALSE /\ closed' = FALSE
  BY DEF TypeOK, BeginCall, wireVars, casVars
<1>2. InProgress' /\ Unmade'
  <2>1. n \in Nat /\ \A o \in Call : o > n + 1 => o > n /\ o # n + 1
    BY DEF TypeOK
  <2> QED
    BY <1>1, <2>1 DEF Rest, InProgress, Unmade
<1>3. LockStep'
  BY <1>1 DEF Rest, BeginCall, LockStep, Quiet, wireVars, casVars
<1>4. OnlyAdmittedSent'
  <2>1. n \in Nat /\ \A o \in Call : o <= n => o <= n + 1 /\ o # n + 1
    BY DEF TypeOK
  <2> QED
    BY <1>1, <2>1, SentAreCalls DEF Rest, OnlyAdmittedSent
<1>5. ReplyIsOwn'
  BY <1>1 DEF Rest, ReplyIsOwn
<1> QED
  BY <1>2, <1>3, <1>4, <1>5 DEF Rest

\* A refused call was not sent, and no call made earlier was numbered so.
LEMMA RestBadConn ==
  ASSUME TypeOK, Rest, NEW c, RoundTripBadConn(c)
  PROVE  Rest'
<1>1. /\ n' = n + 1 /\ n' \in Call
      /\ outcome'[n + 1] = "badconn"
      /\ \A o \in Call : o # n + 1 => outcome'[o] = outcome[o]
      /\ answer' = answer /\ executed' = executed /\ toServer' = toServer
      /\ pc = "idle" /\ pc' = pc /\ bad' = bad
  BY DEF TypeOK, RoundTripBadConn, connVars, wireVars, casVars
<1>2. InProgress' /\ Unmade'
  <2>1. n \in Nat /\ \A o \in Call : o > n + 1 => o > n /\ o # n + 1
    BY DEF TypeOK
  <2> QED
    BY <1>1, <2>1 DEF Rest, InProgress, Unmade
<1>3. LockStep'
  BY <1>1 DEF Rest, RoundTripBadConn, LockStep, Quiet, wireVars, casVars
<1>4. OnlyAdmittedSent'
  <2>1. n \in Nat /\ \A o \in Call : o <= n => o <= n + 1 /\ o # n + 1
    BY DEF TypeOK
  <2> QED
    BY <1>1, <2>1, SentAreCalls DEF Rest, OnlyAdmittedSent
<1>5. ReplyIsOwn'
  BY <1>1 DEF Rest, ReplyIsOwn
<1> QED
  BY <1>2, <1>3, <1>4, <1>5 DEF Rest

\* The request of the current call goes on an empty wire, or is lost.
LEMMA RestWrite ==
  ASSUME TypeOK, Rest, WriteRequest
  PROVE  Rest'
<1>1. /\ n' = n /\ n \in Call /\ outcome' = outcome /\ pc' = "hdr"
      /\ answer' = answer /\ executed' = executed
      /\ bad' = FALSE /\ closed' = FALSE /\ outcome[n] = "none"
  BY DEF TypeOK, Rest, InProgress, WriteRequest, callVars, casVars
<1>2. toServer = <<>> /\ toServer' \in {<<>>, <<n>>}
  BY DEF TypeOK, Rest, InProgress, LockStep, Quiet, WriteRequest
<1>3. InProgress' /\ Unmade' /\ ReplyIsOwn'
  BY <1>1 DEF Rest, InProgress, Unmade, ReplyIsOwn
<1>4. LockStep'
  BY <1>1, <1>2
  DEF Rest, InProgress, WriteRequest, LockStep, Quiet, AwaitHeader, casVars
<1>5. OnlyAdmittedSent'
  BY <1>1, <1>2, SentAreCalls DEF TypeOK, Rest, OnlyAdmittedSent
<1> QED
  BY <1>3, <1>4, <1>5 DEF Rest

\* In lock step, the reads of a call see exactly the cells of its response.
LEMMA RestReadHeader ==
  ASSUME TypeOK, Rest, ReadHeader
  PROVE  Rest'
<1>1. /\ n' = n /\ outcome' = outcome /\ pc' = "body" /\ toServer' = toServer
      /\ answer' = answer /\ executed' = executed /\ cas' = cas
      /\ bad' = bad /\ closed' = closed
  BY DEF ReadHeader, callVars, casVars
<1>2. AwaitHeader /\ toClient # <<>> /\ br = <<>> /\ ~Past
  BY DEF Rest, InProgress, LockStep, AwaitHeader, ReadHeader, Readable
<1>3. /\ toServer = <<>> /\ Ran(n) /\ cas.call = n
      /\ \/ /\ toClient = <<[call |-> n, part |-> "hdr"]>>
            /\ cas.state = "hdrsent"
         \/ /\ toClient = <<[call |-> n, part |-> "hdr"],
                            [call |-> n, part |-> "payload"]>>
            /\ cas.state = "idle"
  BY <1>2 DEF AwaitHeader, Quiet, ReadHeader, Readable
<1>4. br' = Tail(toClient) /\ toClient' = <<>>
  BY <1>2 DEF ReadHeader, Readable, Kernel
<1>5. br' \in {<<>>, <<[call |-> n, part |-> "payload"]>>}
      /\ (br' = <<>> => cas.state = "hdrsent")
      /\ (br' # <<>> => cas.state = "idle")
  <2> DEFINE h == [call |-> n, part |-> "hdr"]
             p == [call |-> n, part |-> "payload"]
  <2>1. CASE toClient = <<h>> /\ cas.state = "hdrsent"
    <3>1. br' = <<>>
      BY <1>4, <2>1, ShortSeqs
    <3> QED
      BY <2>1, <3>1
  <2>2. CASE toClient = <<h, p>> /\ cas.state = "idle"
    <3>1. br' = <<p>> /\ <<p>> # <<>>
      <4> HIDE DEF h, p
      <4> QED
        BY <1>4, <2>2, ShortSeqs
    <3> QED
      BY <2>2, <3>1
  <2> QED
    BY <1>3, <2>1, <2>2
<1>6. AwaitPayload'
  BY <1>1, <1>3, <1>4, <1>5 DEF AwaitPayload, Ran
<1> QED
  BY <1>1, <1>6 DEF Rest, InProgress, Unmade, LockStep, OnlyAdmittedSent,
                    ReplyIsOwn, ReadHeader

\* The payload a call returns is its own, and the wire is quiet again.
LEMMA RestReadPayload ==
  ASSUME TypeOK, Rest, ReadPayload
  PROVE  Rest'
<1>1. /\ n' = n /\ pc' = "idle" /\ toServer' = toServer
      /\ executed' = executed /\ cas' = cas /\ bad' = bad /\ n \in Call
      /\ outcome' = [outcome EXCEPT ![n] = "reply"]
  BY DEF TypeOK, Rest, InProgress, ReadPayload, Finish, casVars
<1>2. AwaitPayload
  BY DEF Rest, InProgress, LockStep, ReadPayload
<1>3. /\ Readable = <<[call |-> n, part |-> "payload"]>> /\ Kernel = <<>>
      /\ cas.state = "idle"
  BY <1>2 DEF AwaitPayload, ReadPayload, Readable, Kernel
<1>4. Quiet' /\ answer' = [answer EXCEPT ![n] = n]
  <2>1. Tail(Readable) = <<>> /\ Head(Readable) = [call |-> n, part |-> "payload"]
    BY <1>3, ShortSeqs
  <2>2. Head(Readable).call = n
    BY <2>1
  <2> QED
    BY <1>1, <1>2, <1>3, <2>1, <2>2 DEF AwaitPayload, ReadPayload, Quiet
<1>5. /\ outcome'[n] = "reply" /\ answer'[n] = n
      /\ \A o \in Call : o # n => outcome'[o] = outcome[o] /\ answer'[o] = answer[o]
  BY <1>1, <1>4 DEF TypeOK
<1>6. InProgress' /\ LockStep'
  BY <1>1, <1>4 DEF InProgress, LockStep
<1>7. Unmade'
  <2>1. \A o \in Call : o > n => o # n
    BY <1>1
  <2> QED
    BY <1>1, <1>5, <2>1 DEF Rest, Unmade
<1>8. OnlyAdmittedSent'
  BY <1>1, <1>5, SentAreCalls DEF Rest, OnlyAdmittedSent
<1>9. ReplyIsOwn'
  BY <1>1, <1>2, <1>5 DEF Rest, ReplyIsOwn, AwaitPayload, Ran
<1> QED
  BY <1>6, <1>7, <1>8, <1>9 DEF Rest

\* The CAS executes the call whose request is first on the wire: the current
\* one in lock step, on a poisoned connection possibly an abandoned one.
LEMMA RestCasExecute ==
  ASSUME TypeOK, Rest, CasExecute
  PROVE  Rest'
<1>1. /\ n' = n /\ outcome' = outcome /\ answer' = answer /\ pc' = pc
      /\ bad' = bad /\ closed' = closed /\ toClient' = toClient /\ br' = br
      /\ cas' = [state |-> "executed", call |-> Head(toServer)]
  BY DEF CasExecute, callVars, connVars
<1>2. toServer \in Seq(Call) /\ toServer # <<>> /\ executed \in Seq(Call)
  BY DEF TypeOK, CasExecute
<1>3. /\ Head(toServer) = toServer[1] /\ Len(toServer) > 0
      /\ Len(toServer) \in Nat /\ Head(toServer) \in Call
      /\ Len(toServer') = Len(toServer) - 1
      /\ \A i \in 1 .. Len(toServer') : toServer'[i] = toServer[i + 1]
  BY <1>2, SeqFacts DEF CasExecute
<1>4. /\ Len(executed) \in Nat /\ Len(executed') = Len(executed) + 1
      /\ \A i \in 1 .. Len(executed) : executed'[i] = executed[i]
      /\ executed'[Len(executed) + 1] = Head(toServer)
  BY <1>2, <1>3, SeqFacts DEF CasExecute
<1>5. \A o \in Call : Ran(o) => Ran(o)'
  BY <1>4 DEF Ran
<1>6. OnlyAdmittedSent'
  <2>1. \A i \in 1 .. Len(toServer') :
          toServer'[i] <= n /\ outcome[toServer'[i]] # "badconn"
    BY <1>3 DEF Rest, OnlyAdmittedSent
  <2>2. Head(toServer) <= n /\ outcome[Head(toServer)] # "badconn"
    BY <1>3 DEF Rest, OnlyAdmittedSent
  <2>3. \A i \in 1 .. Len(executed') :
          executed'[i] <= n /\ outcome[executed'[i]] # "badconn"
    BY <1>4, <2>2 DEF Rest, OnlyAdmittedSent
  <2> QED
    BY <1>1, <2>1, <2>3 DEF OnlyAdmittedSent
<1>7. ReplyIsOwn'
  BY <1>1, <1>5 DEF Rest, ReplyIsOwn, Ran
<1>8. LockStep'
  <2> SUFFICES ASSUME ~bad PROVE LockStep'
    BY <1>1 DEF LockStep
  <2>1. pc = "hdr" /\ toServer = <<n>> /\ toClient = <<>> /\ br = <<>>
    BY <1>2 DEF TypeOK, Rest, LockStep, Quiet, AwaitHeader, AwaitPayload
  <2>2. toServer' = <<>> /\ Head(toServer) = n
    BY <2>1 DEF CasExecute
  <2>3. Ran(n)'
    BY <1>1, <1>4, <2>2 DEF Ran
  <2> QED
    BY <1>1, <2>1, <2>2, <2>3 DEF LockStep, AwaitHeader
<1> QED
  BY <1>1, <1>6, <1>7, <1>8 DEF Rest, InProgress, Unmade

\* The CAS answers, correctly or with a corrupt header, and the connection may
\* be reset.
LEMMA RestCasAnswer ==
  ASSUME TypeOK, Rest, CasHeader \/ CasPayload \/ CasCorrupt \/ PeerGone
  PROVE  Rest'
<1>1. /\ n' = n /\ outcome' = outcome /\ answer' = answer /\ pc' = pc
      /\ bad' = bad /\ closed' = closed /\ br' = br
      /\ toServer' = toServer /\ executed' = executed /\ peer = "ok"
  BY DEF CasHeader, CasPayload, CasCorrupt, PeerGone, callVars, connVars, wireVars
<1>2. LockStep'
  <2> SUFFICES ASSUME bad = FALSE PROVE LockStep'
    BY <1>1 DEF TypeOK, LockStep
  <2>1. CASE CasHeader
    <3>1. pc = "hdr" /\ AwaitHeader /\ cas.state = "executed"
      BY <2>1 DEF TypeOK, Rest, CasHeader, LockStep, Quiet, AwaitPayload
    <3>2. toClient = <<>> /\ toServer = <<>> /\ Ran(n) /\ cas.call = n
      BY <1>1, <3>1 DEF AwaitHeader, Quiet
    <3>3. toClient' = <<[call |-> n, part |-> "hdr"]>>
      BY <2>1, <3>2 DEF CasHeader
    <3>4. cas'.state = "hdrsent" /\ cas'.call = n
      BY <2>1, <3>2 DEF TypeOK, CasHeader
    <3> QED
      BY <1>1, <3>1, <3>2, <3>3, <3>4 DEF LockStep, AwaitHeader, Ran
  <2>2. CASE CasCorrupt
    <3>1. pc = "hdr" /\ AwaitHeader /\ cas.state = "executed"
      BY <2>2 DEF TypeOK, Rest, CasCorrupt, LockStep, Quiet, AwaitPayload
    <3>2. toClient = <<>> /\ toServer = <<>> /\ Ran(n) /\ cas.call = n
      BY <1>1, <3>1 DEF AwaitHeader, Quiet
    <3>3. toClient' = <<[call |-> n, part |-> "badhdr"]>>
          /\ cas' = cas /\ peer' = "corrupt"
      BY <2>2, <3>2 DEF CasCorrupt
    <3> QED
      BY <1>1, <3>1, <3>2, <3>3 DEF LockStep, AwaitHeader, Ran
  <2>3. CASE CasPayload
    <3>1. /\ cas'.state = "idle" /\ cas'.call = cas.call /\ cas.state = "hdrsent"
          /\ toClient' = Append(toClient, [call |-> cas.call, part |-> "payload"])
      BY <2>3 DEF TypeOK, CasPayload
    <3>2. CASE pc = "hdr"
      <4>1. /\ toServer = <<>> /\ Ran(n) /\ cas.call = n /\ br = <<>>
            /\ toClient = <<[call |-> n, part |-> "hdr"]>>
        BY <1>1, <3>1, <3>2 DEF Rest, LockStep, AwaitHeader, Quiet
      <4>2. toClient' = <<[call |-> n, part |-> "hdr"],
                          [call |-> n, part |-> "payload"]>>
        BY <3>1, <4>1, ShortSeqs
      <4>3. AwaitHeader'
        BY <1>1, <3>1, <4>1, <4>2 DEF AwaitHeader, Ran
      <4> QED
        BY <1>1, <3>2, <4>3 DEF LockStep
    <3>3. CASE pc = "body"
      <4>1. /\ toServer = <<>> /\ Ran(n) /\ cas.call = n /\ br = <<>>
            /\ toClient = <<>>
        BY <1>1, <3>1, <3>3 DEF Rest, LockStep, AwaitPayload
      <4> QED
        BY <1>1, <3>1, <3>3, <4>1 DEF LockStep, AwaitPayload, Ran
    <3> QED
      BY <3>1, <3>2, <3>3 DEF TypeOK, Rest, LockStep, Quiet
  <2>4. CASE PeerGone
    BY <1>1, <2>4 DEF Rest, PeerGone, LockStep, Quiet, AwaitHeader, AwaitPayload,
                      Ran, wireVars
  <2> QED
    BY <2>1, <2>2, <2>3, <2>4
<1> QED
  BY <1>1, <1>2 DEF Rest, InProgress, Unmade, OnlyAdmittedSent, ReplyIsOwn

\* Every step preserves the inductive invariant.
LEMMA InvStep == ConnInv /\ [Next]_vars => ConnInv'
<1> SUFFICES ASSUME ConnInv, [Next]_vars PROVE ConnInv'
  OBVIOUS
<1>0. TypeOK /\ Rest /\ InProgress
  BY DEF ConnInv, Rest
<1>1. TypeOK'
  BY <1>0, TypeStep
<1>2. ASSUME NEW c \in UserCtx, RoundTrip(c) PROVE Rest'
  BY <1>0, <1>2, RestBegin DEF RoundTrip
<1>3. ASSUME NEW c \in UserCtx, RoundTripBadConn(c) PROVE Rest'
  BY <1>0, <1>3, RestBadConn
<1>4. ASSUME CloseSend PROVE Rest'
  BY <1>0, <1>4, RestBegin DEF CloseSend
<1>5. ASSUME CloseBad PROVE Rest'
  BY <1>0, <1>5 DEF CloseBad, Rest, InProgress, Unmade, LockStep,
                    OnlyAdmittedSent, ReplyIsOwn, callVars, wireVars, casVars
<1>6. ASSUME WriteFail \/ ReadFail PROVE Rest'
  BY <1>0, <1>6, RestFail DEF WriteFail, ReadFail
<1>7. ASSUME NEW c \in Ctx, CtxDone(c) \/ DeadlinePasses(c) PROVE Rest'
  BY <1>0, <1>7, RestFrame DEF CtxDone, DeadlinePasses
<1>8. ASSUME NEW o \in Call, Callback(o) PROVE Rest'
  BY <1>0, <1>8, RestFrame DEF Callback
<1>9. ASSUME UNCHANGED vars PROVE Rest'
  BY <1>0, <1>9, RestFrame DEF vars, callVars, connVars, wireVars, casVars
<1>10. Rest'
  BY <1>0, <1>2, <1>3, <1>4, <1>5, <1>6, <1>7, <1>8, <1>9, RestBegin, RestWrite,
     RestReadHeader, RestReadPayload, RestCasExecute, RestCasAnswer
  DEF Next, Cancel, Expire, CloseSend
<1> QED
  BY <1>1, <1>10 DEF ConnInv, Rest

\* ConnInv holds in every reachable state, for any number of calls and any
\* contexts.
THEOREM ConnInvariant == Spec => []ConnInv
<1>1. Init => ConnInv
  BY InitInv
<1>2. ConnInv /\ [Next]_vars => ConnInv'
  BY InvStep
<1> QED
  BY <1>1, <1>2, PTL DEF Spec

\* Type correctness of the connection model.
THEOREM TypeCorrect == Spec => []TypeOK
<1>1. ConnInv => TypeOK
  BY DEF ConnInv
<1> QED
  BY <1>1, ConnInvariant, PTL

\* A reply is always the reply to the call that returns it, and that call was
\* executed: roundTrip never pairs a caller with a stale response.
THEOREM ReplyPairing == Spec => []ReplyIsOwn
<1>1. ConnInv => ReplyIsOwn
  BY DEF ConnInv
<1> QED
  BY <1>1, ConnInvariant, PTL

\* A connection that Valid() offers for reuse has a quiet wire.
THEOREM QuietReuse == Spec => []QuietWhenValid
<1>1. ConnInv => QuietWhenValid
  BY DEF ConnInv, LockStep, Quiet, QuietWhenValid
<1> QED
  BY <1>1, ConnInvariant, PTL

\* ErrBadConn from roundTrip means the request never was and never will be
\* executed, which is what makes database/sql's retry safe.
THEOREM RetrySafety == Spec => []BadConnNeverSent
<1>1. ConnInv => BadConnNeverSent
  BY DEF ConnInv, OnlyAdmittedSent, BadConnNeverSent
<1> QED
  BY <1>1, ConnInvariant, PTL

\* Once poisoned, a connection stays poisoned and sends nothing more.
THEOREM PoisonFinality == Spec => PoisonIsFinal
<1>1. ASSUME ConnInv, [Next]_vars
      PROVE  [bad => bad' /\ Len(toServer') <= Len(toServer)]_vars
  <2> SUFFICES ASSUME Next, bad PROVE bad' /\ Len(toServer') <= Len(toServer)
    BY <1>1
  <2>1. pc = "idle" /\ toServer \in Seq(Call) /\ Len(toServer) \in Nat
    BY <1>1 DEF ConnInv, TypeOK, InProgress
  <2>2. CASE CasExecute
    <3>1. bad' = bad /\ toServer # <<>> /\ toServer' = Tail(toServer)
      BY <2>2 DEF CasExecute, connVars
    <3>2. Len(Tail(toServer)) = Len(toServer) - 1
      BY <2>1, <3>1, SeqFacts
    <3> QED
      BY <2>1, <3>1, <3>2
  <2>3. CASE bad' = bad /\ toServer' = toServer
    BY <2>1, <2>3
  <2>4. CasExecute \/ (bad' = bad /\ toServer' = toServer)
    BY <2>1 DEF Next, RoundTrip, RoundTripBadConn, CloseSend, BeginCall, CloseBad,
      WriteRequest, WriteFail, ReadHeader, ReadPayload, ReadFail, Cancel, Expire,
      CtxDone, DeadlinePasses, Callback, CasHeader, CasPayload, CasCorrupt,
      PeerGone, connVars, wireVars
  <2> QED
    BY <2>2, <2>3, <2>4
<1> QED
  BY <1>1, ConnInvariant, PTL DEF Spec, PoisonIsFinal

-----------------------------------------------------------------------------
(* The connection implements the abstract RPC session (Rpc.tla)            *)

\* The inductive invariant of the refinement.
RefInv == ConnInv /\ RequestPending

\* A step that sends nothing and executes nothing keeps RequestPending, as long
\* as no refusal is taken back and the current call is not renumbered.
LEMMA PendingFrame ==
  ASSUME RequestPending, UNCHANGED <<n, toServer, executed>>,
         pc' = "write" => pc = "write",
         \A p \in Call : outcome[p] = "badconn" => outcome'[p] = "badconn"
  PROVE  RequestPending'
BY DEF RequestPending, Ran

\* The end of a call: its outcome was open, so no refusal is overwritten.
LEMMA PendingFinish ==
  ASSUME ConnInv, RequestPending, pc # "idle", NEW res,
         outcome' = [outcome EXCEPT ![n] = res], pc' = "idle",
         UNCHANGED <<n, toServer, executed>>
  PROVE  RequestPending'
<1>1. outcome[n] = "none" /\ outcome \in [Call -> Outcome]
  BY DEF ConnInv, InProgress, TypeOK
<1>2. \A p \in Call : outcome[p] = "badconn" => outcome'[p] = "badconn"
  BY <1>1
<1> QED
  BY <1>2, PendingFrame

\* Every step preserves RequestPending.
LEMMA PendingStep == RefInv /\ [Next]_vars => RequestPending'
<1> SUFFICES ASSUME ConnInv, RequestPending, [Next]_vars PROVE RequestPending'
  BY DEF RefInv
<1>1. CASE \/ \E c \in UserCtx : RoundTrip(c)
           \/ CloseSend
  <2>1. PICK c : BeginCall(c)
    BY <1>1 DEF RoundTrip, CloseSend
  <2>2. /\ n' = n + 1 /\ toServer = <<>> /\ n \in Nat
        /\ UNCHANGED <<toServer, executed>>
    BY <2>1 DEF BeginCall, ConnInv, LockStep, Quiet, TypeOK, wireVars, casVars
  <2>3. \A i \in 1 .. Len(executed) : executed[i] \in Nat /\ executed[i] <= n
    BY SentAreCalls DEF ConnInv, OnlyAdmittedSent
  <2>4. ~Ran(n)'
    BY <2>2, <2>3 DEF Ran
  <2> QED
    BY <2>2, <2>4 DEF RequestPending
<1>2. CASE \E c \in UserCtx : RoundTripBadConn(c)
  <2>1. /\ n' = n + 1 /\ n \in Nat /\ n + 1 \in Call /\ pc = "idle" /\ pc' = pc
        /\ outcome' = [outcome EXCEPT ![n + 1] = "badconn"]
        /\ outcome \in [Call -> Outcome]
        /\ UNCHANGED <<toServer, executed>>
    BY <1>2 DEF RoundTripBadConn, connVars, wireVars, casVars, ConnInv, TypeOK
  <2>2. ASSUME NEW i \in 1 .. Len(toServer)
        PROVE  /\ ~Ran(toServer[i])
               /\ \A p \in Call :
                    (toServer[i] < p /\ p <= n + 1) => outcome'[p] = "badconn"
    <3>1. ASSUME NEW p \in Call, toServer[i] < p, p <= n + 1
          PROVE  outcome'[p] = "badconn"
      <4>1. CASE p = n + 1
        BY <2>1, <4>1
      <4>2. CASE p # n + 1
        <5>1. p <= n
          BY <2>1, <3>1, <4>2
        <5> QED
          BY <2>1, <3>1, <4>2, <5>1 DEF RequestPending
      <4> QED
        BY <4>1, <4>2
    <3> QED
      BY <3>1 DEF RequestPending
  <2> QED
    BY <2>1, <2>2 DEF RequestPending, Ran
<1>3. CASE WriteRequest
  <2>1. /\ toServer = <<>> /\ ~Ran(n) /\ n \in Call /\ pc' = "hdr"
        /\ UNCHANGED <<n, outcome, executed>>
        /\ toServer' = <<n>> \/ toServer' = <<>>
    BY <1>3, ShortSeqs
       DEF WriteRequest, RequestPending, ConnInv, InProgress, LockStep, Quiet,
           TypeOK, callVars, casVars
  <2>2. Len(toServer') <= 1 /\ \A i \in 1 .. Len(toServer') : toServer'[i] = n
    <3>1. CASE toServer' = <<n>>
      <4>1. Len(<<n>>) = 1 /\ <<n>>[1] = n
        OBVIOUS
      <4> QED
        BY <3>1, <4>1
    <3>2. CASE toServer' = <<>>
      BY <3>2
    <3> QED
      BY <2>1, <3>1, <3>2
  <2>3. ~Ran(n)'
    BY <2>1 DEF Ran
  <2> QED
    BY <2>1, <2>2, <2>3 DEF RequestPending, Ran
<1>4. CASE WriteFail \/ ReadFail
  BY <1>4, PendingFinish
     DEF WriteFail, ReadFail, Fail, Finish, wireVars, casVars
<1>5. CASE ReadPayload
  BY <1>5, PendingFinish DEF ReadPayload, Finish, casVars
<1>6. CASE CasExecute
  <2>1. /\ toServer \in Seq(Call) /\ toServer # <<>> /\ Len(toServer) <= 1
    BY <1>6 DEF CasExecute, RequestPending, ConnInv, TypeOK
  <2>2. Len(Tail(toServer)) = 0
    <3>1. /\ Len(Tail(toServer)) = Len(toServer) - 1 /\ Len(toServer) > 0
          /\ Len(toServer) \in Nat
      BY <2>1, SeqFacts, Zenon
    <3> QED
      BY <2>1, <3>1
  <2>3. pc # "write"
    BY <2>1 DEF ConnInv, LockStep, InProgress, Quiet
  <2>4. toServer' = Tail(toServer) /\ pc' = pc
    BY <1>6 DEF CasExecute, connVars
  <2> QED
    BY <2>2, <2>3, <2>4 DEF RequestPending
<1>7. CASE \/ CloseBad \/ ReadHeader
           \/ \E c \in Ctx : Cancel(c) \/ DeadlinePasses(c) \/ Expire(c)
           \/ \E o \in Call : Callback(o)
           \/ CasHeader \/ CasPayload \/ CasCorrupt \/ PeerGone
           \/ UNCHANGED vars
  <2>1. /\ UNCHANGED <<n, toServer, executed, outcome>>
        /\ pc' = "write" => pc = "write"
    BY <1>7 DEF CloseBad, ReadHeader, Cancel, DeadlinePasses, Expire, CtxDone,
         Callback, CasHeader, CasPayload, CasCorrupt, PeerGone, vars, callVars,
         connVars, wireVars, casVars
  <2> QED
    BY <2>1, PendingFrame
<1> QED
  BY <1>1, <1>2, <1>3, <1>4, <1>5, <1>6, <1>7 DEF Next

-----------------------------------------------------------------------------
\* The set of executed calls the abstract session sees.
Done == {executed[i] : i \in 1 .. Len(executed)}

\* An execution adds exactly the call it executes.
LEMMA DoneGrows ==
  ASSUME executed \in Seq(Call), NEW o \in Call, executed' = Append(executed, o)
  PROVE  Done' = Done \union {o}
<1>1. /\ Len(executed) \in Nat /\ Len(executed') = Len(executed) + 1
      /\ \A i \in 1 .. Len(executed) : executed'[i] = executed[i]
      /\ executed'[Len(executed) + 1] = o
  BY SeqFacts
<1>2. 1 .. Len(executed') = (1 .. Len(executed)) \union {Len(executed) + 1}
  BY <1>1
<1> QED
  BY <1>1, <1>2 DEF Done

\* The abstract session's actions, with the mapping applied.
USE DEF R!rpcVars, R!RpcCall

\* An admitted call, of the caller or of Close.
LEMMA SimBegin ==
  ASSUME ConnInv, NEW c, BeginCall(c)
  PROVE  R!Admit
BY DEF BeginCall, R!Admit, wireVars, casVars

\* A refused call.
LEMMA SimBadConn ==
  ASSUME ConnInv, NEW c, RoundTripBadConn(c)
  PROVE  R!RefuseCall
BY DEF RoundTripBadConn, R!RefuseCall, connVars, wireVars, casVars

\* A transport failure.
LEMMA SimFail ==
  ASSUME ConnInv, WriteFail \/ ReadFail
  PROVE  R!FailCall
<1>1. /\ pc # "idle" /\ pc' = "idle" /\ bad' = TRUE
      /\ \E e \in {"ctx", "net"} : outcome' = [outcome EXCEPT ![n] = e]
      /\ UNCHANGED <<n, executed>>
  BY DEF WriteFail, ReadFail, Fail, Finish, casVars
<1> QED
  BY <1>1 DEF R!FailCall

\* A reply: the CAS executed the call, by lock step.
LEMMA SimReply ==
  ASSUME ConnInv, ReadPayload
  PROVE  R!ReplyCall
<1>1. /\ pc = "body" /\ pc' = "idle"
      /\ outcome' = [outcome EXCEPT ![n] = "reply"]
      /\ UNCHANGED <<n, executed>>
  BY DEF ReadPayload, Finish, casVars
<1>2. Ran(n)
  BY <1>1 DEF ConnInv, InProgress, LockStep, AwaitPayload
<1>3. n \in {executed[i] : i \in 1 .. Len(executed)}
  BY <1>2 DEF Ran
<1> QED
  BY <1>1, <1>3 DEF R!ReplyCall

\* An execution, in time or late.
LEMMA SimExecute ==
  ASSUME RefInv, CasExecute
  PROVE  \E o \in R!RpcCall : R!ExecuteCall(o)
<1>1. /\ toServer \in Seq(Call) /\ toServer # <<>> /\ executed \in Seq(Call)
      /\ n \in Nat
  BY DEF RefInv, ConnInv, TypeOK, CasExecute
<1>2. PICK o \in Call : /\ o = Head(toServer) /\ o = toServer[1]
                       /\ 1 \in 1 .. Len(toServer)
  BY <1>1, SeqFacts
<1>3. o <= n /\ outcome[o] # "badconn"
  BY <1>2 DEF RefInv, ConnInv, OnlyAdmittedSent
<1>4. ~Ran(o) /\ \A p \in Call : (o < p /\ p <= n) => outcome[p] = "badconn"
  BY <1>2 DEF RefInv, RequestPending
<1>5. n \in 0 .. MaxCalls
  BY DEF RefInv, ConnInv, TypeOK
<1>6. \A p \in (o + 1) .. n : outcome[p] = "badconn"
  BY <1>2, <1>4, <1>5
<1>7. o \notin Done
  BY <1>4 DEF Done, Ran
<1>8. executed' = Append(executed, o) /\ UNCHANGED <<n, pc, bad, closed, outcome>>
  BY <1>2 DEF CasExecute, callVars, connVars
<1>9. Done' = Done \union {o}
  BY <1>1, <1>2, <1>8, DoneGrows
<1>10. R!ExecuteCall(o)
  BY <1>1, <1>2, <1>3, <1>6, <1>7, <1>8, <1>9 DEF R!ExecuteCall, Done
<1> QED
  BY <1>2, <1>10

\* Every step of the connection is a step of the abstract session or leaves it
\* unchanged.
LEMMA SimStep == RefInv /\ [Next]_vars => [R!RpcNext]_R!rpcVars
<1> SUFFICES ASSUME RefInv, [Next]_vars PROVE [R!RpcNext]_R!rpcVars
  OBVIOUS
<1>0. ConnInv
  BY DEF RefInv
<1>1. CASE \/ \E c \in UserCtx : RoundTrip(c)
           \/ CloseSend
  BY <1>0, <1>1, SimBegin DEF RoundTrip, CloseSend, R!RpcNext
<1>2. CASE \E c \in UserCtx : RoundTripBadConn(c)
  BY <1>0, <1>2, SimBadConn DEF R!RpcNext
<1>3. CASE WriteFail \/ ReadFail
  BY <1>0, <1>3, SimFail DEF R!RpcNext
<1>4. CASE ReadPayload
  BY <1>0, <1>4, SimReply DEF R!RpcNext
<1>5. CASE CasExecute
  BY <1>5, SimExecute DEF R!RpcNext
<1>6. CASE \/ CloseBad \/ WriteRequest \/ ReadHeader
           \/ \E c \in Ctx : Cancel(c) \/ DeadlinePasses(c) \/ Expire(c)
           \/ \E o \in Call : Callback(o)
           \/ CasHeader \/ CasPayload \/ CasCorrupt \/ PeerGone
           \/ UNCHANGED vars
  <2>1. /\ UNCHANGED <<n, bad, outcome, executed>>
        /\ (pc # "idle") = (pc' # "idle")
        /\ closed' = closed \/ bad
    BY <1>6 DEF CloseBad, WriteRequest, ReadHeader, Cancel, DeadlinePasses,
         Expire, CtxDone, Callback, CasHeader, CasPayload, CasCorrupt, PeerGone,
         vars, callVars, connVars, casVars
  <2> QED
    BY <2>1
<1> QED
  BY <1>1, <1>2, <1>3, <1>4, <1>5, <1>6 DEF Next

\* The initial states of the connection are initial states of the session.
LEMMA RefInit == Init => RefInv /\ R!RpcInit
<1> SUFFICES ASSUME Init PROVE RefInv /\ R!RpcInit
  OBVIOUS
<1>1. ConnInv
  BY InitInv
<1>2. toServer = <<>> /\ executed = <<>> /\ pc = "idle" /\ Len(<<>>) = 0
  BY DEF Init
<1>3. RequestPending
  BY <1>2 DEF RequestPending
<1>4. {executed[i] : i \in 1 .. Len(executed)} = {}
  BY <1>2
<1> QED
  BY <1>1, <1>3, <1>4 DEF RefInv, Init, R!RpcInit

\* At most one request is under way, it was not executed yet, and every call
\* made after it was refused.
THEOREM PendingInvariant == Spec => []RequestPending
<1>1. Init => RefInv
  BY RefInit
<1>2. RefInv /\ [Next]_vars => RefInv'
  BY InvStep, PendingStep DEF RefInv
<1>3. RefInv => RequestPending
  BY DEF RefInv
<1> QED
  BY <1>1, <1>2, <1>3, PTL DEF Spec

\* The connection implements the abstract RPC session: roundTrip, Close and the
\* CAS together give at-most-once execution, replies only after execution and
\* refusal without execution after a failure.
THEOREM Refinement == Spec => RefinesRpc
<1>1. Init => R!RpcInit
  BY RefInit
<1>2. RefInv /\ [Next]_vars => [R!RpcNext]_R!rpcVars
  BY SimStep
<1>3. ConnInv /\ RequestPending => RefInv
  BY DEF RefInv
<1> QED
  BY <1>1, <1>2, <1>3, ConnInvariant, PendingInvariant, PTL
     DEF Spec, RefinesRpc, R!RpcSpec
=============================================================================
