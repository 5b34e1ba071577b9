------------------------------ MODULE MC_Data -------------------------------
(***************************************************************************)
(* What is parsed and moved, checked together.  A behaviour is one of a    *)
(* LOB (Lob.tla), of a reply (Replies.tla), of a value (Values.tla) or of  *)
(* a DSN (Dsn.tla); the variables of the others are off, and those of the  *)
(* LOB stay as they began.                                                 *)
(***************************************************************************)
EXTENDS Lob

CONSTANTS
  MaxItems, SqlLen,              \* Replies
  MaxDepth,                      \* Values
  MaxLen, MaxPort, DefaultPort   \* Dsn

VARIABLES
  part,
  reply, payload, off, plan, vals, alloc, outcome,
  given, col, data, seen, got, out, phase,
  query, todo, cfg, targets, dsnPhase

replyVars == <<reply, payload, off, plan, vals, alloc, outcome>>
valueVars == <<given, col, data, seen, got, out, phase>>
dsnVars == <<query, todo, cfg, targets, dsnPhase>>

R == INSTANCE Replies
V == INSTANCE Values
D == INSTANCE Dsn WITH phase <- dsnPhase

ASSUME DataConstants == R!RepliesConstants /\ V!ValuesConstants /\ D!DsnConstants

Off == "off"
RepliesOff ==
  /\ reply = Off /\ payload = Off /\ off = Off /\ plan = Off
  /\ vals = Off /\ alloc = Off /\ outcome = Off
ValuesOff ==
  /\ given = Off /\ col = Off /\ data = Off /\ seen = Off
  /\ got = Off /\ out = Off /\ phase = Off
DsnOff == query = Off /\ todo = Off /\ cfg = Off /\ targets = Off /\ dsnPhase = Off

DataInit ==
  /\ Init
  /\ \/ part = "lob" /\ RepliesOff /\ ValuesOff /\ DsnOff
     \/ part = "reply" /\ R!Init /\ ValuesOff /\ DsnOff
     \/ part = "value" /\ V!Init /\ RepliesOff /\ DsnOff
     \/ part = "dsn" /\ D!Init /\ RepliesOff /\ ValuesOff

\* A reply, a value and a DSN are done with when they have been read.
Stop == part # "lob" /\ UNCHANGED <<vars, replyVars, valueVars, dsnVars>>

DataNext ==
  /\ UNCHANGED part
  /\ \/ part = "lob" /\ Next /\ UNCHANGED <<replyVars, valueVars, dsnVars>>
     \/ part = "reply" /\ R!Next /\ UNCHANGED <<vars, valueVars, dsnVars>>
     \/ part = "value" /\ V!Next /\ UNCHANGED <<vars, replyVars, dsnVars>>
     \/ part = "dsn" /\ D!Next /\ UNCHANGED <<vars, replyVars, valueVars>>
     \/ Stop

\* The fairness is that of the LOB: its requests are answered or fail.
DataSpec ==
  /\ DataInit /\ [][DataNext]_<<part, vars, replyVars, valueVars, dsnVars>>
  /\ WF_vars(Reply) /\ WF_vars(BadConn)

-----------------------------------------------------------------------------
\* A reply that arrives as it was sent is read to its last byte into the values the
\* server sent, in every protocol version; one that was cut short is an error, or
\* lacks only what may be absent (Replies.tla).
ReadAsSent == part = "reply" => R!CompleteParses /\ R!CutIsNoticed

\* No count in a reply makes a slice of negative length or of more items than the
\* reply has bytes, or the statement characters and one (Replies.tla).
AllocBounded == part = "reply" => R!AllocBounded

\* A value that was accepted for binding comes back through a column of its type as
\* the same value, and collections are decoded up to maxCollectionDepth deep and no
\* deeper (Values.tla).
RoundTrip == part = "value" => V!RoundTrip /\ V!DepthCapped

\* A delivered value has the Go type its column announced, and each form of the type
\* field is read as the server meant it (Values.tla).
ScanTypeAgrees == part = "value" => V!ScanTypeAgrees

\* An alternative host is accepted by both parses and dialed as it was meant; a DSN
\* is refused exactly for a bad entry or parameter, and the Config has the last value
\* given for each, in whatever order they are looked at (Dsn.tla).
DsnAsMeant == part = "dsn" => D!AltHostsFixed /\ D!DsnAsGiven
=============================================================================
