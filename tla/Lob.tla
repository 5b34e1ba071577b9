-------------------------------- MODULE Lob ---------------------------------
(***************************************************************************)
(* cubrid.Lob: a large object written and read through a locator, in       *)
(* chunks (cubrid/lob.go, internal/protocol/lob.go), and its materialising *)
(* by the database/sql adapter (value.go, toDriverValue).                  *)
(*                                                                         *)
(* One LOB.  The application appends the bytes of one stream, 1, 2, 3, ... *)
(* and takes up after a failed Append where the count it got back says; so *)
(* byte i of the LOB should be i.  The writable locator "new" is the one   *)
(* NewBlob returned; "row" is the read-only one made from a column the     *)
(* first was bound to.  Nothing stops the application from appending after *)
(* the bind: the column's locator then carries an old size.                *)
(*                                                                         *)
(* A round trip is one step (Rpc.tla): its request takes effect and the    *)
(* reply comes, or the connection is poisoned and the effect is uncertain. *)
(***************************************************************************)
EXTENDS Integers, Sequences

CONSTANTS
  MaxChunk,  \* LobMaxChunk, in bytes
  MaxLob,    \* bound on the bytes of the LOB
  MaxArg,    \* bound on the length and the offset an application asks for
  MatCap     \* maxLobBytes, the adapter's materialization cap

ASSUME LobConstants ==
  /\ MaxChunk \in Nat \ {0}
  /\ MaxLob \in Nat
  /\ MaxArg \in Nat
  /\ MatCap \in Nat

VARIABLES
  content,  \* the bytes of the LOB on the server
  bound,    \* the size in the packed handle stored in a column; -1: none stored
  lobs,     \* the Lob values of the application
  bad,      \* Conn.bad
  garbled,  \* a write was stored whose reply the driver could not use
  op,       \* the call in progress
  acked,    \* bytes of the stream that finished Appends returned as written
  ret       \* what the last call returned

vars == <<content, bound, lobs, bad, garbled, op, acked, ret>>

Least(a, b) == IF a < b THEN a ELSE b

Locators == {"new", "row"}
NoLob == [open |-> FALSE, writable |-> FALSE, size |-> 0, packed |-> 0]
Handle(size, writable) ==
  [open |-> TRUE, writable |-> writable, size |-> size, packed |-> size]

\* A call: kind, its locator, the length and offset of the buffer being moved,
\* how much of it has been (n, and buf for a read), and what ReadAll has gathered
\* from the buffers before.
Idle == [kind |-> "idle", h |-> "new", p |-> 0, off |-> 0, n |-> 0,
         buf |-> <<>>, all |-> <<>>]
NoRet == [kind |-> "idle", h |-> "new", p |-> 0, off |-> 0, n |-> 0,
          out |-> <<>>, err |-> "nil"]
Kinds == {"idle", "append", "readat", "readall", "materialize"}

Init ==
  /\ content = <<>> /\ bound = -1 /\ lobs = [h \in Locators |-> NoLob]
  /\ bad = FALSE /\ garbled = FALSE /\ op = Idle /\ acked = 0 /\ ret = NoRet

Returns(o, n, out, err) ==
  /\ op' = Idle
  /\ ret' = [kind |-> o.kind, h |-> o.h, p |-> o.p, off |-> o.off, n |-> n,
             out |-> out, err |-> err]
  /\ acked' = IF o.kind = "append" THEN acked + n ELSE acked

\* ReadAll drops what it has gathered when it fails; ReadAt keeps it.
FailsWith(o) ==
  Returns(o, o.n, IF o.kind = "readat" THEN o.buf ELSE <<>>, "err")

-----------------------------------------------------------------------------
(* Creating, binding and fetching a locator                                *)

NewLob ==
  /\ op = Idle /\ ~bad /\ ~lobs["new"].open
  /\ lobs' = [lobs EXCEPT !["new"] = Handle(0, TRUE)]
  /\ UNCHANGED <<content, bound, bad, garbled, op, acked, ret>>

NewLobFails ==
  /\ op = Idle /\ ~lobs["new"].open
  /\ bad' = TRUE
  /\ UNCHANGED <<content, bound, lobs, garbled, op, acked, ret>>

\* INSERT ... VALUES (?) with the Lob as argument, whatever has been appended.
EncodeParam(h) ==
  /\ op = Idle /\ ~bad /\ lobs[h].open
  /\ bound' = lobs[h].packed
  /\ ret' = NoRet
  /\ UNCHANGED <<content, lobs, bad, garbled, op, acked>>

ResultLob ==
  /\ op = Idle /\ ~bad /\ bound >= 0
  /\ lobs' = [lobs EXCEPT !["row"] = Handle(bound, FALSE)]
  /\ ret' = NoRet
  /\ UNCHANGED <<content, bound, bad, garbled, op, acked>>

-----------------------------------------------------------------------------
(* Append                                                                  *)

\* Mutant of SetSize: the packed handle keeps the old size.
SetSizeOfStruct(l, n) == [l EXCEPT !.size = n]

SetSize(l, n) == [l EXCEPT !.size = n, !.packed = n]

\* Mutant of Moved: the loop advances by what it asked for.
MovedAll(n, rc, chunk) == n + chunk

Moved(n, rc, chunk) == n + rc

Chunk == Least(op.p - op.n, MaxChunk)
Data(k) == [i \in 1 .. k |-> acked + op.n + i]

AppendBegin(h, p) ==
  /\ op = Idle /\ lobs[h].open
  /\ Len(content) + p <= MaxLob
  /\ LET o == [Idle EXCEPT !.kind = "append", !.h = h, !.p = p] IN
       IF ~lobs[h].writable THEN FailsWith(o)
       ELSE IF p = 0 THEN Returns(o, 0, <<>>, "nil")
       ELSE op' = o /\ ret' = NoRet /\ acked' = acked
  /\ UNCHANGED <<content, bound, lobs, bad, garbled>>

\* The server accepts a write only at the end of the LOB.
AppendReply(rc) ==
  /\ op.kind = "append" /\ ~bad
  /\ lobs[op.h].size = Len(content) /\ rc \in 1 .. Chunk
  /\ content' = content \o Data(rc)
  /\ lobs' = [lobs EXCEPT ![op.h] = SetSize(@, @.size + rc)]
  /\ LET o == [op EXCEPT !.n = Moved(@, rc, Chunk)] IN
       IF o.n < o.p THEN op' = o /\ UNCHANGED <<ret, acked>>
       ELSE Returns(o, o.n, <<>>, "nil")
  /\ UNCHANGED <<bound, bad, garbled>>

AppendRefused ==
  /\ op.kind = "append" /\ ~bad
  /\ lobs[op.h].size # Len(content)
  /\ FailsWith(op)
  /\ UNCHANGED <<content, bound, lobs, bad, garbled>>

\* What a write may have left on the server when its reply does not tell.
MayStore ==
  0 .. (IF op.kind = "append" /\ lobs[op.h].size = Len(content) THEN Chunk ELSE 0)

\* A reply too short for its status, or a count no write can have.  The call
\* fails but the connection stays good, whatever the server stored.
AppendBadReply(stored) ==
  /\ op.kind = "append" /\ ~bad
  /\ stored \in MayStore
  /\ content' = content \o Data(stored)
  /\ garbled' = (garbled \/ stored > 0)
  /\ FailsWith(op)
  /\ UNCHANGED <<bound, lobs, bad>>

-----------------------------------------------------------------------------
(* ReadAt, ReadAll and the adapter's materialising                         *)

\* Mutant of AtEnd: a short reply is taken for the end.
ShortIsEnd(rc, chunk) == rc < chunk

\* Mutant of AtEnd: an empty reply is not taken for the end.
NeverEnd(rc, chunk) == FALSE

AtEnd(rc, chunk) == rc = 0

More(all, l) == Len(all) < l.size

\* Mutant of ReadAtBegin: the offset is not checked.
ReadAtUnchecked(h, p, off) ==
  /\ op = Idle /\ lobs[h].open /\ p > 0
  /\ op' = [Idle EXCEPT !.kind = "readat", !.h = h, !.p = p, !.off = off]
  /\ ret' = NoRet
  /\ UNCHANGED <<content, bound, lobs, bad, garbled, acked>>

ReadAtBegin(h, p, off) ==
  /\ op = Idle /\ lobs[h].open
  /\ LET o == [Idle EXCEPT !.kind = "readat", !.h = h, !.p = p, !.off = off] IN
       IF off < 0 THEN FailsWith(o)
       ELSE IF p = 0 THEN Returns(o, 0, <<>>, "nil")
       ELSE op' = o /\ ret' = NoRet /\ acked' = acked
  /\ UNCHANGED <<content, bound, lobs, bad, garbled>>

\* The next buffer of ReadAll, or its return.
ReadAllNext(o, all) ==
  IF More(all, lobs[o.h])
  THEN /\ op' = [o EXCEPT !.all = all, !.off = Len(all), !.n = 0, !.buf = <<>>,
                          !.p = Least(lobs[o.h].size - Len(all), MaxChunk)]
       /\ UNCHANGED <<ret, acked>>
  ELSE Returns(o, Len(all), all, "nil")

ReadAllBegin(h) ==
  /\ op = Idle /\ lobs[h].open
  /\ ReadAllNext([Idle EXCEPT !.kind = "readall", !.h = h], <<>>)
  /\ UNCHANGED <<content, bound, lobs, bad, garbled>>

MaterializeBegin(h) ==
  /\ op = Idle /\ lobs[h].open
  /\ LET o == [Idle EXCEPT !.kind = "materialize", !.h = h] IN
       IF lobs[h].size > MatCap THEN FailsWith(o) ELSE ReadAllNext(o, <<>>)
  /\ UNCHANGED <<content, bound, lobs, bad, garbled>>

Reading == op.kind \in {"readat", "readall", "materialize"}

\* What is left of the LOB at the offset of the next READ_LOB.
Left == Len(content) - (op.off + op.n)

\* The server may send less than is asked for and left, but then something.
ReadReply(rc) ==
  /\ Reading /\ ~bad
  /\ rc \in 0 .. Least(Chunk, Left) \cup {0} /\ (rc = 0 => Left <= 0)
  /\ LET o == [op EXCEPT !.n = Moved(@, rc, Chunk),
                         !.buf = @ \o SubSeq(content, op.off + op.n + 1,
                                                      op.off + op.n + rc)]
         all == o.all \o o.buf
     IN CASE AtEnd(rc, Chunk) /\ o.kind = "readat" -> Returns(o, o.n, o.buf, "eof")
          [] AtEnd(rc, Chunk) /\ o.kind # "readat" -> Returns(o, Len(all), all, "nil")
          [] ~AtEnd(rc, Chunk) /\ o.n < o.p -> op' = o /\ UNCHANGED <<ret, acked>>
          [] OTHER -> IF o.kind = "readat" THEN Returns(o, o.n, o.buf, "nil")
                      ELSE ReadAllNext(o, all)
  /\ UNCHANGED <<content, bound, lobs, bad, garbled>>

-----------------------------------------------------------------------------
(* Failures of a round trip                                                *)

\* An error status, READ_LOB's count above the chunk, or a payload cut short.
ReplyIsError ==
  /\ op # Idle /\ ~bad
  /\ FailsWith(op)
  /\ UNCHANGED <<content, bound, lobs, bad, garbled>>

\* The context ends or the transport fails; a write may have taken effect.
RoundTripFails(stored) ==
  /\ op # Idle /\ ~bad
  /\ stored \in MayStore
  /\ content' = content \o Data(stored)
  /\ bad' = TRUE
  /\ FailsWith(op)
  /\ UNCHANGED <<bound, lobs, garbled>>

\* A poisoned connection refuses every request with ErrBadConn.
BadConn ==
  /\ op # Idle /\ bad
  /\ FailsWith(op)
  /\ UNCHANGED <<content, bound, lobs, bad, garbled>>

Reply ==
  \/ AppendRefused
  \/ \E rc \in 1 .. MaxChunk : AppendReply(rc)
  \/ \E rc \in 0 .. MaxChunk : ReadReply(rc)

Next ==
  \/ NewLob \/ NewLobFails \/ ResultLob
  \/ \E h \in Locators : EncodeParam(h)
  \/ \E h \in Locators, p \in 0 .. MaxArg : AppendBegin(h, p)
  \/ \E h \in Locators, p \in 0 .. MaxArg, off \in -1 .. MaxArg : ReadAtBegin(h, p, off)
  \/ \E h \in Locators : ReadAllBegin(h)
  \/ \E h \in Locators : MaterializeBegin(h)
  \/ Reply
  \/ ReplyIsError \/ BadConn
  \/ \E stored \in 0 .. MaxChunk : AppendBadReply(stored) \/ RoundTripFails(stored)

Spec == Init /\ [][Next]_vars

\* The server answers every request; roundTrip on a bad connection returns.
LiveSpec == Spec /\ WF_vars(Reply) /\ WF_vars(BadConn)

-----------------------------------------------------------------------------
(* Properties                                                              *)

LobType == [open : BOOLEAN, writable : BOOLEAN, size : Nat, packed : Nat]

\* TypeOK: the types of the state; bound is -1 until a locator is stored.
TypeOK ==
  /\ content \in Seq(Nat) /\ bound \in Nat \cup {-1}
  /\ lobs \in [Locators -> LobType]
  /\ bad \in BOOLEAN /\ garbled \in BOOLEAN /\ acked \in Nat
  /\ op \in [kind : Kinds, h : Locators, p : Nat, off : Nat, n : Nat,
             buf : Seq(Nat), all : Seq(Nat)]
  /\ ret \in [kind : Kinds, h : Locators, p : Nat, off : Int, n : Nat,
              out : Seq(Nat), err : {"nil", "eof", "err"}]

\* WholeStream: whatever the server moved at a time, and whichever Appends failed
\* part-way, the LOB holds the application's bytes without a gap or a repetition,
\* and among them all those that the counts returned by Append add up to; the
\* locator's size is their number.  Unless the reply to a stored write was lost or
\* could not be used (the connection is bad, or garbled), there are no others, so
\* that the next write is at the end (Lob.Append, LobHandle.SetSize).
WholeStream ==
  /\ \A i \in 1 .. Len(content) : content[i] = i
  /\ lobs["new"].open =>
       /\ lobs["new"].size = acked + (IF op.kind = "append" THEN op.n ELSE 0)
       /\ lobs["new"].size <= Len(content)
       /\ ~bad /\ ~garbled => lobs["new"].size = Len(content)

\* BoundWhole: a column never gets a locator whose packed size misses bytes that
\* were appended before the bind, or counts bytes that are not there: the server
\* reads the size from the packed handle (LobHandle.SetSize, Lob.encodeParam).
BoundWhole ==
  [][\A h \in Locators : EncodeParam(h) /\ ~garbled /\ lobs[h].writable
        => bound' = Len(content)]_vars

ReadAtContract ==
  ret.kind = "readat" /\ ret.off >= 0 =>
    /\ ret.n = Len(ret.out) /\ ret.n <= ret.p
    /\ ret.out = SubSeq(content, ret.off + 1, ret.off + ret.n)
    /\ ret.err = "nil" => ret.n = ret.p
    /\ ret.err = "eof" => ret.n < ret.p /\ ret.off + ret.n >= Len(content)

ReadAllExact ==
  ret.kind \in {"readall", "materialize"} /\ ret.err = "nil" =>
    ret.out = SubSeq(content, 1, Least(lobs[ret.h].size, Len(content)))

WithinCap == ret.kind = "materialize" => Len(ret.out) <= MatCap

\* ReadsExact: ReadAt keeps io.ReaderAt's contract across short replies: the bytes
\* returned are those at the offset, fewer than asked for only with an error, and
\* io.EOF only when the LOB really ends there.  ReadAll without an error returns
\* the LOB from the first byte up to the size its locator carries, which for one
\* from a column can be older than the last Append, never more; and the adapter
\* delivers no more than maxLobBytes, however long the LOB has become since the
\* row was read (Lob.ReadAt, Lob.ReadAll, toDriverValue).
ReadsExact == ReadAtContract /\ ReadAllExact /\ WithinCap

\* CallsEnd: every call comes to its end, however little each reply moves: a
\* reply moves at least a byte, ends the LOB, or ends the call.
CallsEnd == op # Idle ~> op = Idle
=============================================================================
