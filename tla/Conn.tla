-------------------------------- MODULE Conn --------------------------------
(***************************************************************************)
(* cubrid.Conn: one socket to one CAS process, used by one goroutine, and  *)
(* roundTrip, the request/response exchange every operation of the driver  *)
(* goes through (cubrid/conn.go, cubrid/internal/protocol/frame.go).       *)
(*                                                                         *)
(* The client side is split where another goroutine can get in between:    *)
(* guard(ctx) and the entry checks are one step, the write, the header     *)
(* read and the payload read are one each, and the deferred guard exit     *)
(* (stop the AfterFunc, clear the deadline) happens with the step that     *)
(* ends the call.  Merging these is sound because the only other goroutine *)
(* that touches the socket is the AfterFunc callback, whose single         *)
(* SetDeadline commutes with the merged parts.                             *)
(*                                                                         *)
(* The CAS, the network, the clock and package context are external and    *)
(* modelled from how conn.go uses them.                                    *)
(***************************************************************************)
EXTENDS Naturals, Sequences

CONSTANTS
  MaxCalls,     \* bound on the number of calls made on the connection
  Ctx,          \* the contexts operations are called with
  DeadlineCtx,  \* those of them that carry a deadline
  CloseCtx,     \* the 2-second context Close makes for CON_CLOSE
  Background    \* context.Background(): never done, no deadline

ASSUME MaxCallsAssumption == MaxCalls \in Nat
ASSUME CtxAssumption ==
  /\ DeadlineCtx \subseteq Ctx
  /\ CloseCtx \in DeadlineCtx
  /\ Background \notin Ctx
  /\ "none" \notin Ctx
  /\ "past" \notin Ctx

VARIABLES
  n,         \* number of calls made; the current or last call is number n
  pc,        \* where roundTrip is: "idle", "write", "hdr" or "body"
  closing,   \* the current call is the CON_CLOSE sent by Close
  bad,       \* Conn.bad: poisoned by a transport failure
  closed,    \* Conn.closed
  outcome,   \* outcome[o]: what call o returned
  answer,    \* answer[o]: the call whose response payload call o received
  ctxOf,     \* ctxOf[o]: the context call o was made with
  ctx,       \* ctx[c]: "live" or "done" (ctx.Err() # nil)
  due,       \* due[c]: the instant of c's deadline has passed
  cb,        \* cb[o]: the AfterFunc callback registered by call o's guard
  deadline,  \* the socket's deadline: "none", "past" or that of a context
  toServer,  \* requests on their way to the CAS
  toClient,  \* response cells in the kernel's receive buffer
  br,        \* response cells already pulled into Conn.br (bufio.Reader)
  cas,       \* the CAS process: what it is doing and for which call
  executed,  \* the calls the CAS has executed, in order
  peer       \* "ok", "gone" (connection reset) or "corrupt" (bad header)

guardVars == <<cb, deadline>>
ctxVars == <<ctx, due>>
wireVars == <<toServer, toClient, br>>
casVars == <<cas, executed, peer>>
callVars == <<n, outcome, answer, ctxOf>>
connVars == <<pc, closing, bad, closed>>

vars == <<n, pc, closing, bad, closed, outcome, answer, ctxOf, ctx, due,
          cb, deadline, toServer, toClient, br, cas, executed, peer>>

Call == 1 .. MaxCalls
AnyCtx == Ctx \union {Background}
UserCtx == AnyCtx \ {CloseCtx}

\* A response frame is two cells: the 8-byte header and the payload.
Cell == [call : Call, part : {"hdr", "badhdr", "payload"}]

Outcome == {"none", "reply", "ctx", "net", "badconn"}

TypeOK ==
  /\ n \in 0 .. MaxCalls
  /\ pc \in {"idle", "write", "hdr", "body"}
  /\ closing \in BOOLEAN
  /\ bad \in BOOLEAN
  /\ closed \in BOOLEAN
  /\ outcome \in [Call -> Outcome]
  /\ answer \in [Call -> 0 .. MaxCalls]
  /\ ctxOf \in [Call -> AnyCtx]
  /\ ctx \in [Ctx -> {"live", "done"}]
  /\ due \in [Ctx -> BOOLEAN]
  /\ cb \in [Call -> {"none", "armed", "started", "ran", "stopped"}]
  /\ deadline \in {"none", "past"} \union DeadlineCtx
  /\ toServer \in Seq(Call)
  /\ toClient \in Seq(Cell)
  /\ br \in Seq(Cell)
  /\ cas \in [state : {"idle", "executed", "hdrsent"}, call : 0 .. MaxCalls]
  /\ cas.state # "idle" => cas.call > 0
  /\ executed \in Seq(Call)
  /\ peer \in {"ok", "gone", "corrupt"}

Init ==
  /\ n = 0
  /\ pc = "idle"
  /\ closing = FALSE
  /\ bad = FALSE
  /\ closed = FALSE
  /\ outcome = [o \in Call |-> "none"]
  /\ answer = [o \in Call |-> 0]
  /\ ctxOf = [o \in Call |-> Background]
  /\ ctx = [c \in Ctx |-> "live"]
  /\ due = [c \in Ctx |-> FALSE]
  /\ cb = [o \in Call |-> "none"]
  /\ deadline = "none"
  /\ toServer = <<>>
  /\ toClient = <<>>
  /\ br = <<>>
  /\ cas = [state |-> "idle", call |-> 0]
  /\ executed = <<>>
  /\ peer = "ok"

-----------------------------------------------------------------------------
(* Contexts and the socket deadline *)

CtxErr(c) == c \in Ctx /\ ctx[c] = "done"

\* The socket deadline lies in the past: reads and writes fail at once.
Past == deadline = "past" \/ (deadline \in DeadlineCtx /\ due[deadline])

\* Mutant of Guard: only the deadline is applied, cancellation is not watched.
GuardDeadlineOnly(o, c) ==
  /\ deadline' = IF c \in DeadlineCtx THEN c ELSE "none"
  /\ cb' = [cb EXCEPT ![o] = "none"]

\* Conn.guard(c), run by call o: the context's deadline becomes the socket's
\* (or clears it), and AfterFunc registers the callback, whose goroutine
\* starts at once when c is already done.
Guard(o, c) ==
  /\ deadline' = IF c \in DeadlineCtx THEN c ELSE "none"
  /\ cb' = [cb EXCEPT ![o] = IF c = Background THEN "none"
                              ELSE IF CtxErr(c) THEN "started" ELSE "armed"]

\* The function guard returns: stop() only prevents a callback that has not
\* started, and waits for none; then the deadline is cleared.
Unguard ==
  /\ cb' = [cb EXCEPT ![n] = IF @ = "armed" THEN "stopped" ELSE @]
  /\ deadline' = "none"

-----------------------------------------------------------------------------
(* roundTrip and Close, run by the goroutine that owns the connection *)

\* Mutant of BeginCall: the check of Conn.bad is missing.
BeginCallUnchecked(c) ==
  /\ pc = "idle" /\ n < MaxCalls
  /\ ~closed
  /\ n' = n + 1
  /\ ctxOf' = [ctxOf EXCEPT ![n + 1] = c]
  /\ Guard(n + 1, c)
  /\ pc' = "write"
  /\ UNCHANGED <<bad, closed, outcome, answer>>
  /\ UNCHANGED <<ctxVars, wireVars, casVars>>

\* roundTrip entry on a usable connection.
BeginCall(c) ==
  /\ pc = "idle" /\ n < MaxCalls
  /\ ~closed /\ ~bad
  /\ n' = n + 1
  /\ ctxOf' = [ctxOf EXCEPT ![n + 1] = c]
  /\ Guard(n + 1, c)
  /\ pc' = "write"
  /\ UNCHANGED <<bad, closed, outcome, answer>>
  /\ UNCHANGED <<ctxVars, wireVars, casVars>>

RoundTrip(c) == BeginCall(c) /\ UNCHANGED closing

\* roundTrip on a closed or poisoned connection: ErrBadConn, nothing is sent.
RoundTripBadConn(c) ==
  /\ pc = "idle" /\ n < MaxCalls
  /\ closed \/ bad
  /\ n' = n + 1
  /\ ctxOf' = [ctxOf EXCEPT ![n + 1] = c]
  /\ outcome' = [outcome EXCEPT ![n + 1] = "badconn"]
  /\ UNCHANGED <<answer, connVars, guardVars, ctxVars, wireVars, casVars>>

\* Mutant of CloseSend: CON_CLOSE without the 2-second bound.
CloseSendUnbounded == BeginCall(Background) /\ closing' = TRUE

\* Close on a healthy connection starts with a CON_CLOSE round trip ...
CloseSend == BeginCall(CloseCtx) /\ closing' = TRUE

\* ... and on a poisoned one only closes the socket.  A second Close returns
\* at once (a stuttering step).
CloseBad ==
  /\ pc = "idle" /\ ~closed /\ bad
  /\ closed' = TRUE
  /\ UNCHANGED <<pc, closing, bad>>
  /\ UNCHANGED <<callVars, guardVars, ctxVars, wireVars, casVars>>

\* Every way out of a call: the deferred guard exit, and, when it was Close
\* that made the call, the socket is closed whatever the call returned.
Finish ==
  /\ Unguard
  /\ pc' = "idle"
  /\ closed' = (closed \/ closing)
  /\ closing' = FALSE

\* Mutants of Fail: the connection is not poisoned; the failure is reported as
\* ErrBadConn, which database/sql takes for "not sent".
FailNoPoison ==
  /\ UNCHANGED bad
  /\ outcome' = [outcome EXCEPT ![n] = IF CtxErr(ctxOf[n]) THEN "ctx" ELSE "net"]
  /\ Finish

FailAsBadConn ==
  /\ bad' = TRUE
  /\ outcome' = [outcome EXCEPT ![n] = "badconn"]
  /\ Finish

\* A transport failure poisons the connection; the caller gets ctx.Err() if
\* the context is done and the wrapped network error otherwise.
Fail ==
  /\ bad' = TRUE
  /\ outcome' = [outcome EXCEPT ![n] = IF CtxErr(ctxOf[n]) THEN "ctx" ELSE "net"]
  /\ Finish

\* WriteRequest succeeds once the kernel took the whole frame.  If the peer
\* is gone the request goes nowhere.
WriteRequest ==
  /\ pc = "write" /\ ~Past
  /\ toServer' = IF peer = "ok" THEN Append(toServer, n) ELSE toServer
  /\ pc' = "hdr"
  /\ UNCHANGED <<closing, bad, closed, toClient, br>>
  /\ UNCHANGED <<callVars, guardVars, ctxVars, casVars>>

\* WriteRequest fails; the CAS never sees a complete request.
WriteFail ==
  /\ pc = "write"
  /\ Past \/ peer = "gone"
  /\ Fail
  /\ UNCHANGED <<n, answer, ctxOf>>
  /\ UNCHANGED <<ctxVars, wireVars, casVars>>

\* What a read of Conn.br sees: buffered cells even after the deadline,
\* otherwise all the kernel holds, unless the deadline has passed.
Readable ==
  IF br # <<>> THEN br ELSE IF Past THEN <<>> ELSE toClient

Kernel == IF br # <<>> THEN toClient ELSE <<>>

ReadHeader ==
  /\ pc = "hdr" /\ Readable # <<>>
  /\ Head(Readable).part # "badhdr"
  /\ br' = Tail(Readable)
  /\ toClient' = Kernel
  /\ pc' = "body"
  /\ UNCHANGED <<closing, bad, closed, toServer>>
  /\ UNCHANGED <<callVars, guardVars, ctxVars, casVars>>

\* The payload completes the response: the call returns it.
ReadPayload ==
  /\ pc = "body" /\ Readable # <<>>
  /\ br' = Tail(Readable)
  /\ toClient' = Kernel
  /\ answer' = [answer EXCEPT ![n] = Head(Readable).call]
  /\ outcome' = [outcome EXCEPT ![n] = "reply"]
  /\ Finish
  /\ UNCHANGED <<n, ctxOf, bad, toServer>>
  /\ UNCHANGED <<ctxVars, casVars>>

\* ReadResponse fails: deadline, connection reset, or a length beyond
\* maxPayloadSize in the header.
ReadFail ==
  /\ pc \in {"hdr", "body"}
  /\ \/ br = <<>> /\ Past
     \/ Readable = <<>> /\ peer = "gone"
     \/ pc = "hdr" /\ Readable # <<>> /\ Head(Readable).part = "badhdr"
  /\ Fail
  /\ UNCHANGED <<n, answer, ctxOf>>
  /\ UNCHANGED <<ctxVars, wireVars, casVars>>

-----------------------------------------------------------------------------
(* External: package context, the clock, the network and the CAS *)

\* Context c becomes done: AfterFunc starts the goroutine of every callback
\* still registered on it.
CtxDone(c) ==
  /\ ctx[c] = "live"
  /\ ctx' = [ctx EXCEPT ![c] = "done"]
  /\ cb' = [o \in Call |-> IF ctxOf[o] = c /\ cb[o] = "armed"
                            THEN "started" ELSE cb[o]]
  /\ UNCHANGED <<due, deadline>>
  /\ UNCHANGED <<callVars, connVars, wireVars, casVars>>

\* The caller cancels.
Cancel(c) == c # CloseCtx /\ CtxDone(c)

\* The deadline's instant passes.  The poller and the context notice on
\* their own: the socket fails from now on, ctx.Err() may lag behind.
DeadlinePasses(c) ==
  /\ c \in DeadlineCtx /\ ~due[c]
  /\ c = CloseCtx => closing
  /\ due' = [due EXCEPT ![c] = TRUE]
  /\ UNCHANGED <<ctx, guardVars, callVars, connVars, wireVars, casVars>>

Expire(c) == due[c] /\ CtxDone(c)

\* The callback's SetDeadline(time.Unix(1, 0)), in its own goroutine.
Callback(o) ==
  /\ cb[o] = "started"
  /\ cb' = [cb EXCEPT ![o] = "ran"]
  /\ deadline' = IF closed THEN deadline ELSE "past"
  /\ UNCHANGED <<ctxVars, callVars, connVars, wireVars, casVars>>

\* The CAS takes a request and executes it,
CasExecute ==
  /\ peer = "ok" /\ cas.state = "idle" /\ toServer # <<>>
  /\ cas' = [state |-> "executed", call |-> Head(toServer)]
  /\ toServer' = Tail(toServer)
  /\ executed' = Append(executed, Head(toServer))
  /\ UNCHANGED <<toClient, br, peer>>
  /\ UNCHANGED <<callVars, connVars, guardVars, ctxVars>>

\* then sends the response, which may arrive in two parts,
CasHeader ==
  /\ peer = "ok" /\ cas.state = "executed"
  /\ cas' = [cas EXCEPT !.state = "hdrsent"]
  /\ toClient' = Append(toClient, [call |-> cas.call, part |-> "hdr"])
  /\ UNCHANGED <<toServer, br, executed, peer>>
  /\ UNCHANGED <<callVars, connVars, guardVars, ctxVars>>

CasPayload ==
  /\ peer = "ok" /\ cas.state = "hdrsent"
  /\ cas' = [cas EXCEPT !.state = "idle"]
  /\ toClient' = Append(toClient, [call |-> cas.call, part |-> "payload"])
  /\ UNCHANGED <<toServer, br, executed, peer>>
  /\ UNCHANGED <<callVars, connVars, guardVars, ctxVars>>

\* or a corrupt header;
CasCorrupt ==
  /\ peer = "ok" /\ cas.state = "executed"
  /\ peer' = "corrupt"
  /\ toClient' = Append(toClient, [call |-> cas.call, part |-> "badhdr"])
  /\ UNCHANGED <<toServer, br, executed, cas>>
  /\ UNCHANGED <<callVars, connVars, guardVars, ctxVars>>

\* and the connection may be reset at any moment.
PeerGone ==
  /\ peer = "ok"
  /\ peer' = "gone"
  /\ UNCHANGED <<cas, executed>>
  /\ UNCHANGED <<callVars, connVars, guardVars, ctxVars, wireVars>>

-----------------------------------------------------------------------------
ReadStep == ReadHeader \/ ReadPayload \/ ReadFail

Next ==
  \/ \E c \in UserCtx : RoundTrip(c)
  \/ \E c \in UserCtx : RoundTripBadConn(c)
  \/ CloseSend
  \/ CloseBad
  \/ WriteRequest
  \/ WriteFail
  \/ ReadHeader
  \/ ReadPayload
  \/ ReadFail
  \/ \E c \in Ctx : Cancel(c)
  \/ \E c \in Ctx : DeadlinePasses(c)
  \/ \E c \in Ctx : Expire(c)
  \/ \E o \in Call : Callback(o)
  \/ CasExecute
  \/ CasHeader
  \/ CasPayload
  \/ CasCorrupt
  \/ PeerGone

Spec == Init /\ [][Next]_vars

\* The goroutine running a call proceeds whenever its read or a failing write
\* can return (a write that would succeed may still block on a full kernel
\* buffer); the callback goroutine and the timers run.  Nothing is assumed of
\* the CAS, of the network or of the caller.
Fairness ==
  /\ WF_vars(ReadStep)
  /\ WF_vars(WriteFail)
  /\ \A o \in Call : WF_vars(Callback(o))
  /\ \A c \in Ctx : WF_vars(Expire(c))
  /\ WF_vars(DeadlinePasses(CloseCtx))

LiveSpec == Spec /\ Fairness

-----------------------------------------------------------------------------
(* Properties *)

\* The request and response streams stay paired: a call that returns a reply
\* returns the reply to its own request, and the CAS executed that request.
\* roundTrip carries no request number on the wire, so pairing rests entirely
\* on poisoning the connection whenever a response may still be on its way.
ReplyIsOwn ==
  \A o \in Call : outcome[o] = "reply" =>
    /\ answer[o] = o
    /\ \E i \in 1 .. Len(executed) : executed[i] = o

\* Between calls a connection that Valid() offers for reuse has nothing left
\* on the wire, in the buffered reader or in the CAS: no late response of an
\* earlier, abandoned call can be waiting for the next caller.
QuietWhenValid ==
  (pc = "idle" /\ ~bad /\ ~closed) =>
    /\ toServer = <<>>
    /\ toClient = <<>>
    /\ br = <<>>
    /\ cas.state = "idle"

\* ErrBadConn from roundTrip means that the request was not and never will be
\* executed: database/sql re-runs the operation on another connection when it
\* gets it, so anything else would execute a statement twice.
BadConnNeverSent ==
  \A o \in Call : outcome[o] = "badconn" =>
    /\ \A i \in 1 .. Len(toServer) : toServer[i] # o
    /\ \A i \in 1 .. Len(executed) : executed[i] # o

\* Poison is final: once a transport failure lost the response boundary, no
\* step makes the connection valid again or puts another request on the wire
\* (Close included, which then skips CON_CLOSE).
PoisonIsFinal ==
  [][bad => bad' /\ Len(toServer') <= Len(toServer)]_vars

\* A call whose context is done returns, whatever the CAS does: the AfterFunc
\* callback moves the socket deadline into the past and the pending read or
\* write fails.
CancelledCallReturns ==
  \A o \in Call :
    (n = o /\ pc # "idle" /\ CtxErr(ctxOf[o])) ~> (outcome[o] # "none")

\* Close returns and releases the socket even if the CAS never answers
\* CON_CLOSE.
CloseReturns == closing ~> closed

\* The doc comment on guard: "guard applies ctx to the socket for the duration
\* of one operation."  So a call fails only for a reason of its own: its
\* context, or the peer.
FailureHasCause ==
  \A o \in Call : outcome[o] \in {"ctx", "net"} =>
    \/ CtxErr(ctxOf[o])
    \/ ctxOf[o] \in DeadlineCtx /\ due[ctxOf[o]]
    \/ peer # "ok"

-----------------------------------------------------------------------------
(* The inductive invariant behind ReplyIsOwn, QuietWhenValid and             *)
(* BadConnNeverSent                                                          *)

Ran(o) == \E i \in 1 .. Len(executed) : executed[i] = o

\* Nothing is on the wire, in the buffered reader or in the CAS.
Quiet ==
  /\ toServer = <<>> /\ toClient = <<>> /\ br = <<>>
  /\ cas.state = "idle"

\* While the client waits for a header, the one request is in exactly one
\* place: on its way, being executed, being answered, answered, or lost.
AwaitHeader ==
  /\ br = <<>>
  /\ \/ toServer = <<n>> /\ toClient = <<>> /\ cas.state = "idle"
     \/ /\ toServer = <<>> /\ Ran(n) /\ cas.call = n
        /\ \/ toClient = <<>> /\ cas.state = "executed"
           \/ toClient = <<[call |-> n, part |-> "badhdr"]>> /\ peer = "corrupt"
           \/ /\ toClient = <<[call |-> n, part |-> "hdr"]>>
              /\ cas.state = "hdrsent"
           \/ /\ toClient = <<[call |-> n, part |-> "hdr"],
                              [call |-> n, part |-> "payload"]>>
              /\ cas.state = "idle"
     \/ Quiet /\ peer # "ok"

\* While it waits for the payload, the CAS still has to send it, or it is in
\* the kernel or in the buffered reader.
AwaitPayload ==
  /\ toServer = <<>> /\ Ran(n) /\ cas.call = n
  /\ \/ toClient = <<>> /\ br = <<>> /\ cas.state = "hdrsent"
     \/ /\ toClient = <<[call |-> n, part |-> "payload"]>> /\ br = <<>>
        /\ cas.state = "idle"
     \/ /\ toClient = <<>> /\ br = <<[call |-> n, part |-> "payload"]>>
        /\ cas.state = "idle"

\* As long as the connection is not poisoned, client and CAS run in lock step.
LockStep ==
  ~bad =>
    /\ pc \in {"idle", "write"} => Quiet
    /\ pc = "hdr" => AwaitHeader
    /\ pc = "body" => AwaitPayload

\* A call in progress runs on a usable connection and has no outcome yet.
InProgress ==
  pc # "idle" => n > 0 /\ outcome[n] = "none" /\ ~bad /\ ~closed

\* Calls not made yet have no outcome.
Unmade == \A o \in Call : o > n => outcome[o] = "none"

\* Only calls that were made and not refused were sent or executed.
OnlyAdmittedSent ==
  /\ \A i \in 1 .. Len(toServer) :
       toServer[i] <= n /\ outcome[toServer[i]] # "badconn"
  /\ \A i \in 1 .. Len(executed) :
       executed[i] <= n /\ outcome[executed[i]] # "badconn"

\* The inductive invariant: lock step for an unpoisoned connection, whatever
\* the CAS still does for a poisoned one.
ConnInv ==
  /\ TypeOK
  /\ InProgress
  /\ Unmade
  /\ LockStep
  /\ OnlyAdmittedSent
  /\ ReplyIsOwn

-----------------------------------------------------------------------------
(* Refinement *)

\* What the refinement needs besides ConnInv: at most one request is under way,
\* it was not executed yet, and every call made after it was refused, so that
\* the CAS executes no call twice and none out of turn, also when the caller is
\* long gone.
RequestPending ==
  /\ Len(toServer) <= 1
  /\ pc = "write" => ~Ran(n)
  /\ \A i \in 1 .. Len(toServer) :
       /\ ~Ran(toServer[i])
       /\ \A p \in Call : (toServer[i] < p /\ p <= n) => outcome[p] = "badconn"

R == INSTANCE Rpc WITH
       busy <- (pc # "idle"),
       alive <- (~bad /\ ~closed),
       executed <- {executed[i] : i \in 1 .. Len(executed)}

\* The connection implements the abstract RPC session: at most one execution
\* per call, replies only after execution, refusal without execution after a
\* failure, and late execution only of the call that failed last.
RefinesRpc == R!RpcSpec
=============================================================================
