------------------------------- MODULE Params -------------------------------
(***************************************************************************)
(* The session parameters: SetLockTimeout, SetIsolationLevel and           *)
(* IsolationLevel (cubrid/tx.go, internal/protocol/dbparam.go), and the    *)
(* calls that change nothing, Ping and ServerVersion (cubrid/conn.go).     *)
(*                                                                         *)
(* A call is one round trip and one step.  Its request may take effect and *)
(* the call still fail, when the reply cannot be parsed (the connection    *)
(* stays good) or is lost (it is poisoned).                                *)
(***************************************************************************)
EXTENDS Integers

CONSTANTS
  MaxMs,     \* math.MaxInt32
  NsPerMs,   \* time.Millisecond
  Durations  \* the durations SetLockTimeout is called with

ParamsConstants ==
  /\ MaxMs \in Nat \ {0} /\ NsPerMs \in Nat \ {0} /\ Durations \subseteq Int

VARIABLES
  v7,      \* the broker speaks protocol V7 or later
  bad,     \* Conn.bad
  iso,     \* the isolation level on the server
  lock,    \* its lock timeout in milliseconds; -1: wait forever
  asked,   \* what the last Set of each that returned nil was called with
  unsure,  \* the parameters that a later, failed Set may have changed
  read     \* what the last IsolationLevel that returned nil returned

vars == <<v7, bad, iso, lock, asked, unsure, read>>

ReadCommitted == 4
Serializable == 6
Levels == 1 .. Serializable

\* An MVCC server (V7) has the levels from ReadCommitted on.
MinLevel == IF v7 THEN ReadCommitted ELSE 1

Init ==
  /\ v7 \in BOOLEAN /\ bad = FALSE
  /\ iso = ReadCommitted /\ lock = -1
  /\ asked = [iso |-> ReadCommitted, lock |-> -1] /\ unsure = {} /\ read = ReadCommitted

\* int32(v): the low bits, as a signed number.
Int32(v) == ((v + MaxMs + 1) % (2 * (MaxMs + 1))) - (MaxMs + 1)

\* Mutant of LockTimeoutMs: the conversion to int32 is not clamped.
Unclamped(d) == IF d < 0 THEN -1 ELSE Int32(d \div NsPerMs)

LockTimeoutMs(d) ==
  IF d < 0 THEN -1
  ELSE LET v == d \div NsPerMs IN IF v < MaxMs THEN Int32(v) ELSE MaxMs

\* Mutant of InRange: every level is passed on.
AnyLevel(lv) == TRUE

InRange(lv) == lv \in MinLevel .. Serializable

\* How a call that set p to want on the server ends: nil, or an error as the
\* reply was unparsable or lost.  (An error status is no change at all.)
Returns(p, want) ==
  \/ /\ asked' = [asked EXCEPT ![p] = want] /\ unsure' = unsure \ {p} /\ bad' = bad
  \/ /\ unsure' = unsure \cup {p} /\ bad' \in BOOLEAN /\ asked' = asked

SetLockTimeout(d) ==
  /\ ~bad
  /\ lock' = LockTimeoutMs(d)
  /\ Returns("lock", d)
  /\ UNCHANGED <<v7, iso, read>>

\* Out-of-range levels are refused before anything is sent.
SetIsolationLevel(lv) ==
  /\ ~bad
  /\ InRange(lv)
  /\ iso' = lv
  /\ Returns("iso", lv)
  /\ UNCHANGED <<v7, lock, read>>

IsolationLevel ==
  /\ ~bad
  /\ read' = iso
  /\ UNCHANGED <<v7, bad, iso, lock, asked, unsure>>

\* A round trip of any call, Ping and ServerVersion included, fails without
\* effect.
Fails ==
  /\ bad' = TRUE
  /\ UNCHANGED <<v7, iso, lock, asked, unsure, read>>

Next ==
  \/ \E d \in Durations : SetLockTimeout(d)
  \/ \E lv \in 0 .. Serializable + 1 : SetIsolationLevel(lv)
  \/ IsolationLevel \/ Fails

Spec == Init /\ [][Next]_vars

-----------------------------------------------------------------------------
(* Properties                                                              *)

\* TypeOK: the types of the state; the level on the server is one it has, since
\* SetIsolationLevel refuses the others.
TypeOK ==
  /\ v7 \in BOOLEAN /\ bad \in BOOLEAN /\ unsure \subseteq {"iso", "lock"}
  /\ asked \in [iso : Levels, lock : Int]
  /\ lock \in Int /\ read \in Levels
  /\ iso \in Levels /\ (v7 => iso >= ReadCommitted)

\* Fits: ms milliseconds are the longest whole number of them, up to MaxInt32,
\* that d nanoseconds last; forever, -1, is for negative durations alone.
Fits(d, ms) ==
  IF d < 0 THEN ms = -1
  ELSE /\ ms \in 0 .. MaxMs /\ ms * NsPerMs <= d
       /\ ms < MaxMs => d < (ms + 1) * NsPerMs

\* ParamsAsAsked: the server waits for a lock as long as the application asked:
\* never longer, shorter by less than a millisecond or by the clamp, and forever
\* only when asked to - not because a long wait wrapped to a negative int32
\* (Conn.SetLockTimeout).  The isolation level is the one asked for, too.
ParamsAsAsked ==
  /\ "lock" \notin unsure => Fits(asked.lock, lock)
  /\ "iso" \notin unsure => iso = asked.iso
=============================================================================
