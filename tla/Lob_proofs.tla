----------------------------- MODULE Lob_proofs -----------------------------
(***************************************************************************)
(* Proofs about Lob.tla for every chunk size, every length of the LOB, of  *)
(* the buffers and of the offsets, and every materialization cap: type     *)
(* correctness; Append leaves the application's stream, gap-free           *)
(* (WholeStream); ReadAt, ReadAll and the adapter return exact bytes       *)
(* (ReadsExact); and a bind stores the true size (BoundWhole).             *)
(***************************************************************************)
EXTENDS Lob, TLAPS, SequenceTheorems

USE LobConstants

-----------------------------------------------------------------------------
(* The inductive invariant                                                 *)

\* s is the part of c after offset off, n bytes long.
Part(c, s, off, n) ==
  /\ s \in Seq(Nat) /\ Len(s) = n
  /\ \A i \in 1 .. n : off + i <= Len(c) /\ s[i] = c[off + i]

\* Only the locator of NewBlob is writable, it comes first, and the two copies of
\* a locator's size, LobHandle.Size and the one packed in its bytes, agree.
LocatorsOK ==
  /\ ~lobs["row"].writable
  /\ bound # -1 \/ lobs["row"].open => lobs["new"].open
  /\ \A h \in Locators : lobs[h].size = lobs[h].packed
  /\ ~lobs["new"].open => content = <<>> /\ acked = 0

\* The call in progress has something left to move, through an open locator; one
\* that appends uses the writable locator.
CallOK ==
  /\ op.kind = "idle" <=> op = Idle
  /\ op.kind # "idle" => lobs[op.h].open /\ op.n < op.p
  /\ op.kind = "append" => op.h = "new" /\ ret.kind = "idle"

\* What a read has gathered so far is what the LOB has there; ReadAll's next
\* buffer ends within the locator's size.
GatheredOK ==
  /\ op.kind \in {"readat", "readall", "materialize"} => Part(content, op.buf, op.off, op.n)
  /\ op.kind \in {"readall", "materialize"} =>
       Part(content, op.all, 0, op.off) /\ op.off + op.p <= lobs[op.h].size
  /\ op.kind = "materialize" => lobs[op.h].size <= MatCap

\* What was returned stays true of the LOB until the next call that may change it.
ReturnedOK ==
  /\ ReadsExact
  /\ ret.kind \in {"readall", "materialize"} => lobs[ret.h].open

LobInv ==
  TypeOK /\ LocatorsOK /\ CallOK /\ GatheredOK /\ ReturnedOK /\ WholeStream

-----------------------------------------------------------------------------
(* Parts of the LOB                                                        *)

\* Concatenation, half by half.
LEMMA Halves ==
  ASSUME NEW s \in Seq(Nat), NEW t \in Seq(Nat)
  PROVE  /\ s \o t \in Seq(Nat) /\ Len(s \o t) = Len(s) + Len(t)
         /\ \A i \in 1 .. Len(s) : (s \o t)[i] = s[i]
         /\ \A i \in 1 .. Len(t) : (s \o t)[Len(s) + i] = t[i]
<1> DEFINE m == Len(s)
           n == Len(t)
<1>0. m \in Nat /\ n \in Nat
  OBVIOUS
<1> DEFINE r == s \o t
<1>1. /\ r \in Seq(Nat) /\ Len(r) = Len(s) + Len(t)
      /\ \A i \in 1 .. Len(s) + Len(t) : r[i] = IF i <= Len(s) THEN s[i] ELSE t[i - Len(s)]
  BY ConcatProperties, Zenon
<1> HIDE DEF r, m, n
<1>2. \A i \in 1 .. m + n : r[i] = IF i <= m THEN s[i] ELSE t[i - m]
  BY <1>1 DEF m, n
<1>3. ASSUME NEW i \in 1 .. m PROVE r[i] = s[i]
  <2>1. i \in 1 .. m + n /\ i <= m
    BY <1>0
  <2> QED
    BY <1>2, <2>1
<1>4. ASSUME NEW i \in 1 .. n PROVE r[m + i] = t[i]
  <2>1. m + i \in 1 .. m + n /\ ~(m + i <= m) /\ (m + i) - m = i
    BY <1>0
  <2> QED
    BY <1>2, <2>1
<1> QED
  BY <1>1, <1>3, <1>4 DEF r, m, n

LEMMA SubSeqIsPart ==
  ASSUME NEW c \in Seq(Nat), NEW off \in Nat, NEW n \in Nat, n = 0 \/ off + n <= Len(c)
  PROVE  Part(c, SubSeq(c, off + 1, off + n), off, n)
<1> DEFINE a == off + 1
           b == off + n
           t == SubSeq(c, a, b)
<1>1. a \in Int /\ b \in Int /\ \A i \in a .. b : c[i] \in Nat
  OBVIOUS
<1>2. b - a + 1 = n /\ (a <= b <=> n # 0) /\ \A i \in 1 .. n : a + i - 1 = off + i
  OBVIOUS
<1> HIDE DEF a, b
<1>3. /\ t \in Seq(Nat) /\ Len(t) = IF a <= b THEN b - a + 1 ELSE 0
      /\ \A i \in 1 .. b - a + 1 : t[i] = c[a + i - 1]
  BY <1>1, SubSeqProperties
<1> HIDE DEF t
<1>4. Len(t) = n /\ \A i \in 1 .. n : t[i] = c[off + i]
  BY <1>2, <1>3
<1>5. \A i \in 1 .. n : off + i <= Len(c)
  OBVIOUS
<1> QED
  BY <1>3, <1>4, <1>5 DEF Part, t, a, b

LEMMA PartFacts ==
  ASSUME NEW c \in Seq(Nat), NEW s, NEW off \in Nat, NEW n \in Nat, Part(c, s, off, n)
  PROVE  /\ n = 0 \/ off + n <= Len(c)
         /\ s = SubSeq(c, off + 1, off + n)
<1>1. n # 0 => n \in 1 .. n
  OBVIOUS
<1>2. n = 0 \/ off + n <= Len(c)
  BY <1>1 DEF Part
<1> DEFINE t == SubSeq(c, off + 1, off + n)
<1>3. Part(c, t, off, n)
  BY <1>2, SubSeqIsPart
<1> HIDE DEF t
<1>4. s = t
  BY <1>3, SeqEqual DEF Part
<1> QED
  BY <1>2, <1>4 DEF t

\* An empty part.
LEMMA PartEmpty ==
  ASSUME NEW c, NEW off \in Nat
  PROVE  Part(c, <<>>, off, 0)
  BY DEF Part

\* A part and the one behind it are one.
LEMMA PartJoin ==
  ASSUME NEW c, NEW s, NEW t, NEW off \in Nat, NEW m \in Nat, NEW n \in Nat,
         Part(c, s, off, m), Part(c, t, off + m, n)
  PROVE  Part(c, s \o t, off, m + n)
<1> DEFINE r == s \o t
<1>1. /\ r \in Seq(Nat) /\ Len(r) = m + n
      /\ \A i \in 1 .. m : r[i] = s[i]
      /\ \A i \in 1 .. n : r[m + i] = t[i]
  <2>1. s \in Seq(Nat) /\ t \in Seq(Nat) /\ Len(s) = m /\ Len(t) = n
    BY DEF Part
  <2>2. /\ s \o t \in Seq(Nat) /\ Len(s \o t) = Len(s) + Len(t)
        /\ \A i \in 1 .. Len(s) : (s \o t)[i] = s[i]
        /\ \A i \in 1 .. Len(t) : (s \o t)[Len(s) + i] = t[i]
    BY <2>1, Halves, Zenon
  <2> HIDE DEF r
  <2> QED
    BY <2>1, <2>2 DEF r
<1> HIDE DEF r
<1>2. ASSUME NEW i \in 1 .. m + n
      PROVE  off + i <= Len(c) /\ r[i] = c[off + i]
  <2>1. CASE i <= m
    <3>1. i \in 1 .. m
      BY <2>1
    <3> QED
      BY <1>1, <3>1, Zenon DEF Part
  <2>2. CASE ~(i <= m)
    <3> DEFINE j == i - m
    <3>1. j \in 1 .. n /\ off + m + j = off + i /\ i = m + j
      BY <2>2
    <3> HIDE DEF j
    <3>2. off + m + j <= Len(c) /\ t[j] = c[off + m + j]
      BY <3>1 DEF Part
    <3> QED
      BY <1>1, <3>1, <3>2
  <2> QED
    BY <2>1, <2>2
<1> QED
  BY <1>1, <1>2 DEF Part, r

\* The bytes that follow a part make it longer.
LEMMA PartExtends ==
  ASSUME NEW c \in Seq(Nat), NEW s, NEW off \in Nat, NEW n \in Nat, Part(c, s, off, n),
         NEW k \in Nat, k = 0 \/ off + n + k <= Len(c)
  PROVE  Part(c, s \o SubSeq(c, off + n + 1, off + n + k), off, n + k)
<1>1. off + n \in Nat
  OBVIOUS
<1>2. Part(c, SubSeq(c, off + n + 1, off + n + k), off + n, k)
  BY <1>1, SubSeqIsPart
<1> QED
  BY <1>2, PartJoin, Zenon

\* Appended bytes: the stream goes on where it was.
LEMMA DataFacts ==
  ASSUME TypeOK, NEW k \in Nat
  PROVE  /\ content \o Data(k) \in Seq(Nat) /\ Len(content \o Data(k)) = Len(content) + k
         /\ k = 0 => content \o Data(k) = content
         /\ (\A i \in 1 .. Len(content) : content[i] = i) /\ Len(content) = acked + op.n =>
              \A i \in 1 .. Len(content) + k : (content \o Data(k))[i] = i
<1>1. content \in Seq(Nat) /\ acked \in Nat /\ op.n \in Nat
  BY DEF TypeOK
<1>2. Data(k) \in Seq(Nat) /\ Len(Data(k)) = k /\ \A i \in 1 .. k : Data(k)[i] = acked + op.n + i
  BY <1>1 DEF Data
<1> DEFINE d == Data(k)
<1> HIDE DEF d
<1>3. /\ content \o d \in Seq(Nat) /\ Len(content \o d) = Len(content) + k
      /\ \A i \in 1 .. Len(content) : (content \o d)[i] = content[i]
      /\ \A i \in 1 .. k : (content \o d)[Len(content) + i] = d[i]
  <2>1. d \in Seq(Nat) /\ Len(d) = k
    BY <1>2 DEF d
  <2>2. /\ content \o d \in Seq(Nat) /\ Len(content \o d) = Len(content) + Len(d)
        /\ \A i \in 1 .. Len(content) : (content \o d)[i] = content[i]
        /\ \A i \in 1 .. Len(d) : (content \o d)[Len(content) + i] = d[i]
    BY <1>1, <2>1, Halves, Zenon
  <2> QED
    BY <2>1, <2>2, Zenon
<1>4. k = 0 => content \o d = content
  <2>1. k = 0 => d = <<>>
    BY <1>2 DEF d
  <2> QED
    BY <1>1, <2>1, ConcatEmptySeq
<1>5. ASSUME \A i \in 1 .. Len(content) : content[i] = i, Len(content) = acked + op.n,
             NEW i \in 1 .. Len(content) + k
      PROVE  (content \o d)[i] = i
  <2> DEFINE r == content \o d
             l == Len(content)
             j == i - l
  <2>0. l \in Nat
    BY <1>1
  <2>1. /\ \A x \in 1 .. l : r[x] = x
        /\ \A x \in 1 .. k : r[l + x] = l + x
    BY <1>2, <1>3, <1>5 DEF d
  <2> HIDE DEF r, l
  <2>2. i \in 1 .. l \/ (j \in 1 .. k /\ i = l + j)
    BY <2>0 DEF l
  <2> HIDE DEF j
  <2> QED
    BY <2>1, <2>2 DEF r
<1> QED
  BY <1>3, <1>4, <1>5 DEF d
-----------------------------------------------------------------------------
(* The ends of a call                                                      *)

OpType == [kind : Kinds, h : Locators, p : Nat, off : Nat, n : Nat,
           buf : Seq(Nat), all : Seq(Nat)]
RetType == [kind : Kinds, h : Locators, p : Nat, off : Int, n : Nat,
            out : Seq(Nat), err : {"nil", "eof", "err"}]

LEMMA IdleFacts ==
  /\ Idle \in OpType /\ Idle.kind = "idle" /\ NoRet \in RetType /\ NoRet.kind = "idle"
  /\ "idle" \in Kinds
<1>1. <<>> \in Seq(Nat) /\ "new" \in Locators /\ "idle" \in Kinds
  BY DEF Locators, Kinds
<1> QED
  BY <1>1 DEF Idle, NoRet, OpType, RetType

LEMMA TypeFacts ==
  ASSUME TypeOK
  PROVE  /\ content \in Seq(Nat) /\ Len(content) \in Nat /\ acked \in Nat /\ bad \in BOOLEAN
         /\ garbled \in BOOLEAN /\ op \in OpType /\ ret \in RetType
         /\ lobs \in [Locators -> LobType] /\ bound \in Nat \cup {-1}
         /\ lobs["new"] \in LobType /\ lobs["row"] \in LobType
  BY DEF TypeOK, OpType, RetType, Locators

\* The bytes of a record that a call returns.
LEMMA ReturnsFacts ==
  ASSUME NEW o, NEW n, NEW out, NEW err, Returns(o, n, out, err)
  PROVE  /\ op' = Idle /\ op'.kind = "idle"
         /\ ret'.kind = o.kind /\ ret'.h = o.h /\ ret'.p = o.p /\ ret'.off = o.off
         /\ ret'.n = n /\ ret'.out = out /\ ret'.err = err
         /\ o.kind = "append" => acked' = acked + n
         /\ o.kind # "append" => acked' = acked
         /\ (o.kind \in Kinds /\ o.h \in Locators /\ o.p \in Nat /\ o.off \in Int /\ n \in Nat
             /\ out \in Seq(Nat) /\ err \in {"nil", "eof", "err"}) => ret' \in RetType
  BY IdleFacts DEF Returns, RetType

\* An open locator implies the writable one, and what is known of a call's.
LEMMA CallFacts ==
  ASSUME LobInv, op.kind # "idle"
  PROVE  /\ op \in OpType /\ op.n \in Nat /\ op.p \in Nat /\ op.off \in Nat /\ op.n < op.p
         /\ op.kind \in Kinds /\ op.h \in Locators /\ op.buf \in Seq(Nat) /\ op.all \in Seq(Nat)
         /\ lobs[op.h].open /\ lobs["new"].open
         /\ op.kind = "append" => op.h = "new" /\ ret.kind = "idle"
<1>1. op \in OpType
  BY TypeFacts DEF LobInv
<1>2. lobs[op.h].open /\ op.n < op.p
  BY DEF LobInv, CallOK
<1>3. op.h \in {"new", "row"}
  BY <1>1 DEF OpType, Locators
<1>4. lobs["new"].open
  BY <1>2, <1>3 DEF LobInv, LocatorsOK
<1> QED
  BY <1>1, <1>2, <1>4 DEF OpType, LobInv, CallOK

\* A call fails: ReadAt keeps what it has, ReadAll drops it, and the bytes an Append
\* wrote count as written.  Of an Append, k more bytes may be on the server, but
\* then the connection is bad or the reply was garbled.
LEMMA CallFails ==
  ASSUME LobInv, op.kind # "idle", FailsWith(op), NEW k \in Nat,
         content' = content \o Data(k), k # 0 => op.kind = "append" /\ ~bad,
         UNCHANGED <<bound, lobs>>, bad' \in BOOLEAN, garbled' \in BOOLEAN, bad => bad', garbled => garbled',
         k # 0 => bad' \/ garbled', k # 0 => lobs["new"].size = Len(content)
  PROVE  LobInv'
<1>0. /\ op \in OpType /\ op.n \in Nat /\ op.p \in Nat /\ op.off \in Nat /\ op.n < op.p
      /\ op.kind \in Kinds /\ op.h \in Locators /\ op.buf \in Seq(Nat)
      /\ lobs[op.h].open /\ lobs["new"].open
  BY CallFacts
<1> USE DEF LobInv
<1>1. /\ content \in Seq(Nat) /\ Len(content) \in Nat /\ acked \in Nat
      /\ bound \in Nat \cup {-1} /\ lobs \in [Locators -> LobType]
  BY TypeFacts
<1>2. /\ content' \in Seq(Nat) /\ Len(content') = Len(content) + k
      /\ k = 0 => content' = content
      /\ (\A i \in 1 .. Len(content) : content[i] = i) /\ Len(content) = acked + op.n =>
              \A i \in 1 .. Len(content) + k : content'[i] = i
  BY DataFacts
<1> DEFINE out == IF op.kind = "readat" THEN op.buf ELSE <<>>
<1>3. out \in Seq(Nat) /\ Returns(op, op.n, out, "err")
  BY <1>0 DEF FailsWith
<1> HIDE DEF out
<1>4. /\ op' = Idle /\ op'.kind = "idle"
      /\ ret'.kind = op.kind /\ ret'.h = op.h /\ ret'.p = op.p /\ ret'.off = op.off
      /\ ret'.n = op.n /\ ret'.out = out /\ ret'.err = "err"
      /\ op.kind = "append" => acked' = acked + op.n
      /\ op.kind # "append" => acked' = acked
      /\ ret' \in RetType
  BY <1>3, <1>0, ReturnsFacts
<1>5. acked' \in Nat
  BY <1>1, <1>4, <1>0
<1>6. TypeOK'
  BY <1>1, <1>2, <1>4, <1>5, IdleFacts DEF TypeOK, RetType, OpType
<1>7. LocatorsOK'
  BY <1>0 DEF LocatorsOK
<1>8. CallOK' /\ GatheredOK'
  BY <1>4 DEF CallOK, GatheredOK
<1>9. ReturnedOK'
  <2>1. CASE op.kind = "readat"
    <3>1. Part(content, op.buf, op.off, op.n) /\ k = 0 /\ out = op.buf
      BY <2>1 DEF GatheredOK, out
    <3>2. out = SubSeq(content, op.off + 1, op.off + op.n) /\ Len(out) = op.n
      <4>1. Len(out) = op.n
        BY <3>1 DEF Part
      <4>2. out = SubSeq(content, op.off + 1, op.off + op.n)
        <5> DEFINE off == op.off
                   n == op.n
        <5>1. off \in Nat /\ n \in Nat /\ Part(content, out, off, n)
          BY <1>0, <3>1
        <5> HIDE DEF off, n
        <5>2. out = SubSeq(content, off + 1, off + n)
          BY <1>1, <5>1, PartFacts
        <5> QED
          BY <5>2 DEF off, n
      <4> QED
        BY <4>1, <4>2
    <3>3. content' = content /\ op.n <= op.p
      <4>1. content' = content
        BY <1>2, <3>1, Zenon
      <4>2. op.n <= op.p
        BY <1>0
      <4> QED
        BY <4>1, <4>2
    <3>4. ReadAtContract'
      BY <1>4, <3>2, <3>3 DEF ReadAtContract
    <3> QED
      BY <1>4, <2>1, <3>4
      DEF ReturnedOK, ReadsExact, ReadAllExact, WithinCap
  <2>2. CASE op.kind # "readat"
    <3>1. out = <<>> /\ Len(out) <= MatCap
      BY <2>2 DEF out
    <3> QED
      BY <1>4, <2>2, <3>1, <1>0
      DEF ReturnedOK, ReadsExact, ReadAtContract, ReadAllExact, WithinCap
  <2> QED
    BY <2>1, <2>2
<1>10. WholeStream'
  <2> DEFINE size == lobs["new"].size
  <2>1. /\ \A i \in 1 .. Len(content) : content[i] = i
        /\ size = acked + (IF op.kind = "append" THEN op.n ELSE 0)
        /\ size <= Len(content) /\ (~bad /\ ~garbled => size = Len(content))
    BY <1>0 DEF WholeStream
  <2>2. size \in Nat
    BY <1>1 DEF Locators, LobType
  <2>3. \A i \in 1 .. Len(content') : content'[i] = i
    <3>1. CASE k = 0
      BY <1>2, <2>1, <3>1
    <3>2. CASE k # 0
      <4>1. Len(content) = acked + op.n
        BY <2>1, <3>2
      <4> QED
        BY <1>2, <2>1, <4>1
    <3> QED
      BY <3>1, <3>2
  <2> HIDE DEF size
  <2>4. size = acked'
    BY <1>0, <1>1, <1>4, <2>1
  <2>5. size <= Len(content')
    BY <1>1, <1>2, <2>1, <2>2
  <2>6. ~bad' /\ ~garbled' => size = Len(content')
    <3>1. SUFFICES ASSUME ~bad', ~garbled' PROVE size = Len(content')
      OBVIOUS
    <3>2. k = 0 /\ ~bad /\ ~garbled
      BY <3>1
    <3> QED
      BY <1>2, <2>1, <3>2
  <2>7. acked' + 0 = acked'
    <3>1. \A x \in Nat : x + 0 = x
      OBVIOUS
    <3> QED
      BY <1>5, <3>1
  <2>8. (IF op'.kind = "append" THEN op'.n ELSE 0) = 0
    BY <1>4
  <2>9. lobs'["new"].size = size
    BY DEF size
  <2> QED
    BY <2>3, <2>4, <2>5, <2>6, <2>7, <2>8, <2>9, Zenon DEF WholeStream
<1> QED
  BY <1>6, <1>7, <1>8, <1>9, <1>10

Reads == {"readat", "readall", "materialize"}

\* The account of the stream does not depend on a read.
LEMMA StreamKept ==
  ASSUME LobInv, UNCHANGED <<content, lobs, acked>>, op.kind # "append", op'.kind # "append",
         bad => bad', garbled' = garbled
  PROVE  WholeStream'
  BY DEF LobInv, WholeStream

\* A read returns: it is what ReadsExact says it has to be.
LEMMA ReadReturns ==
  ASSUME LobInv, op.kind # "append", NEW o, NEW n \in Nat, NEW out \in Seq(Nat),
         NEW err \in {"nil", "eof", "err"}, Returns(o, n, out, err),
         UNCHANGED <<content, bound, lobs, bad, garbled>>,
         o.kind \in Reads, o.h \in Locators, o.p \in Nat, o.off \in Int, lobs[o.h].open,
         o.kind = "readat" /\ o.off >= 0 =>
           /\ Part(content, out, o.off, n) /\ n <= o.p /\ (err = "nil" => n = o.p)
           /\ err = "eof" => n < o.p /\ o.off + n >= Len(content),
         o.kind # "readat" /\ err = "nil" =>
           out = SubSeq(content, 1, Least(lobs[o.h].size, Len(content))),
         o.kind = "materialize" => Len(out) <= MatCap
  PROVE  LobInv'
<1>1. o.kind \in Kinds /\ o.kind # "append" /\ o.kind # "idle"
  BY DEF Kinds, Reads
<1>2. /\ op' = Idle /\ op'.kind = "idle"
      /\ ret'.kind = o.kind /\ ret'.h = o.h /\ ret'.p = o.p /\ ret'.off = o.off
      /\ ret'.n = n /\ ret'.out = out /\ ret'.err = err
      /\ acked' = acked
  BY <1>1, ReturnsFacts
<1>2a. ret' \in RetType
  BY <1>1 DEF Returns, RetType
<1>3. TypeOK'
  BY <1>2, <1>2a, TypeFacts, IdleFacts DEF LobInv, TypeOK, OpType, RetType
<1>4. LocatorsOK' /\ CallOK' /\ GatheredOK'
  BY <1>2 DEF LobInv, LocatorsOK, CallOK, GatheredOK
<1>5. WholeStream'
  BY <1>2, StreamKept
<1>6. ReadAtContract'
  <2> SUFFICES ASSUME o.kind = "readat", o.off >= 0
               PROVE  /\ n = Len(out) /\ out = SubSeq(content, o.off + 1, o.off + n)
    BY <1>2 DEF ReadAtContract
  <2> DEFINE off == o.off
  <2>1. off \in Nat /\ Part(content, out, off, n) /\ content \in Seq(Nat)
    BY TypeFacts DEF LobInv
  <2> HIDE DEF off
  <2>2. out = SubSeq(content, off + 1, off + n)
    BY <2>1, PartFacts, SMTT(20)
  <2> QED
    BY <2>1, <2>2 DEF Part, off
<1>7. ReadAllExact' /\ WithinCap'
  BY <1>2 DEF ReadAllExact, WithinCap
<1>8. ReturnedOK'
  BY <1>2, <1>6, <1>7 DEF ReturnedOK, ReadsExact
<1> QED
  BY <1>3, <1>4, <1>5, <1>8 DEF LobInv

\* A read goes on, with the next READ_LOB.
LEMMA ReadGoesOn ==
  ASSUME LobInv, op.kind # "append", UNCHANGED <<content, bound, lobs, bad, garbled, acked>>,
         ret' \in {ret, NoRet}, NEW o \in OpType, op' = o, o.kind \in Reads,
         lobs[o.h].open, o.n < o.p, Part(content, o.buf, o.off, o.n),
         o.kind # "readat" => /\ Part(content, o.all, 0, o.off)
                              /\ o.off + o.p <= lobs[o.h].size,
         o.kind = "materialize" => lobs[o.h].size <= MatCap
  PROVE  LobInv'
<1>1. o.kind # "append" /\ o.kind # "idle"
  BY DEF Reads
<1>2. TypeOK'
  BY TypeFacts, IdleFacts DEF LobInv, TypeOK, OpType, RetType
<1>3. LocatorsOK' /\ CallOK' /\ GatheredOK'
  BY <1>1, IdleFacts DEF LobInv, LocatorsOK, CallOK, GatheredOK
<1>4. WholeStream'
  BY <1>1, StreamKept
<1>5. ReturnedOK'
  <2>1. CASE ret' = ret
    BY <2>1 DEF LobInv, ReturnedOK, ReadsExact, ReadAtContract, ReadAllExact, WithinCap
  <2>2. CASE ret' = NoRet
    BY <2>2, IdleFacts DEF LobInv, ReturnedOK, ReadsExact, ReadAtContract, ReadAllExact, WithinCap
  <2> QED
    BY <2>1, <2>2
<1> QED
  BY <1>2, <1>3, <1>4, <1>5 DEF LobInv

\* ReadAll with what it has gathered: the next buffer, or the whole.
LEMMA ReadAllGoesOn ==
  ASSUME LobInv, op.kind # "append", UNCHANGED <<content, bound, lobs, bad, garbled>>,
         NEW o \in OpType, o.kind \in {"readall", "materialize"}, lobs[o.h].open,
         NEW m \in Nat, NEW all, Part(content, all, 0, m), m <= lobs[o.h].size,
         o.kind = "materialize" => lobs[o.h].size <= MatCap, ReadAllNext(o, all)
  PROVE  LobInv'
<1>1. /\ content \in Seq(Nat) /\ all \in Seq(Nat) /\ Len(all) = m /\ o.h \in Locators
      /\ lobs[o.h].size \in Nat
  BY TypeFacts DEF LobInv, Part, OpType, LobType
<1>2. 0 \in Nat /\ (m = 0 \/ 0 + m <= Len(content)) /\ all = SubSeq(content, 0 + 1, 0 + m)
  BY <1>1, PartFacts
<1>3. CASE More(all, lobs[o.h])
  <2> DEFINE q == Least(lobs[o.h].size - m, MaxChunk)
             c == [o EXCEPT !.all = all, !.off = m, !.n = 0, !.buf = <<>>, !.p = q]
  <2>1. q \in Nat /\ 0 < q /\ m + q <= lobs[o.h].size
    BY <1>1, <1>3 DEF More, Least
  <2> HIDE DEF q
  <2>2. /\ c \in OpType /\ c.kind = o.kind /\ c.h = o.h /\ c.off = m /\ c.p = q /\ c.n = 0
        /\ c.all = all /\ c.buf = <<>>
    <3>1. c.kind = o.kind /\ c.h = o.h /\ c.off = m /\ c.p = q /\ c.n = 0
      BY DEF OpType
    <3>4. c.all = all /\ c.buf = <<>>
      BY DEF OpType
    <3>2. <<>> \in Seq(Nat) /\ 0 \in Nat
      OBVIOUS
    <3>3. c \in OpType
      BY <1>1, <2>1, <3>2 DEF OpType
    <3> QED
      BY <3>1, <3>3, <3>4
  <2>3. op' = c /\ UNCHANGED <<ret, acked>>
    BY <1>1, <1>3 DEF ReadAllNext, q
  <2> HIDE DEF c
  <2>4. Part(content, <<>>, m, 0)
    BY PartEmpty
  <2> QED
    BY <2>1, <2>2, <2>3, <2>4, ReadGoesOn DEF Reads
<1>4. CASE ~More(all, lobs[o.h])
  <2>1. m = lobs[o.h].size
    BY <1>1, <1>4 DEF More
  <2>2. Least(lobs[o.h].size, Len(content)) = m
    BY <1>1, <1>2, <2>1 DEF Least
  <2>3. all = SubSeq(content, 1, Least(lobs[o.h].size, Len(content)))
    BY <1>1, <1>2, <2>2
  <2>4. Returns(o, m, all, "nil")
    BY <1>1, <1>4 DEF ReadAllNext
  <2>5. /\ o.kind \in Reads /\ o.kind # "readat" /\ o.h \in Locators /\ o.p \in Nat
        /\ o.off \in Int
    BY DEF Reads, OpType
  <2>6. o.kind = "materialize" => Len(all) <= MatCap
    BY <1>1, <2>1
  <2> QED
    BY <1>1, <2>3, <2>4, <2>5, <2>6, ReadReturns
<1> QED
  BY <1>3, <1>4
-----------------------------------------------------------------------------
(* LobInv is inductive                                                     *)

\* A reply to READ_LOB: more of the buffer, a full one, or the end of the LOB.
LEMMA ReadReplyInv ==
  ASSUME LobInv, NEW rc \in 0 .. MaxChunk, ReadReply(rc)
  PROVE  LobInv'
<1> DEFINE t == SubSeq(content, op.off + op.n + 1, op.off + op.n + rc)
           n == op.n + rc
           buf == op.buf \o t
           o == [op EXCEPT !.n = n, !.buf = buf]
           all == op.all \o buf
<1>1. /\ op.kind \in Reads /\ op.kind # "idle" /\ op.kind # "append"
      /\ rc \in 0 .. Least(Chunk, Left) \cup {0} /\ (rc = 0 => Left <= 0)
      /\ UNCHANGED <<content, bound, lobs, bad, garbled>>
  BY DEF ReadReply, Reading, Reads
<1>2. /\ op \in OpType /\ op.n \in Nat /\ op.p \in Nat /\ op.off \in Nat /\ op.n < op.p
      /\ op.h \in Locators /\ op.buf \in Seq(Nat) /\ op.all \in Seq(Nat) /\ lobs[op.h].open
  BY <1>1, CallFacts
<1>3. /\ content \in Seq(Nat) /\ Len(content) \in Nat /\ lobs[op.h].size \in Nat
  BY <1>2, TypeFacts DEF LobInv, LobType
<1>4. /\ rc \in Nat /\ n <= op.p /\ (rc = 0 \/ op.off + op.n + rc <= Len(content))
      /\ rc = 0 => op.off + op.n >= Len(content) /\ n = op.n
  <2>1. rc = 0 \/ (rc <= Chunk /\ rc <= Left)
    BY <1>1, <1>2, <1>3, SMTT(20) DEF Chunk, Left, Least
  <2>2. rc <= Chunk => op.n + rc <= op.p
    BY <1>2 DEF Chunk, Least
  <2>3. rc <= Left => op.off + op.n + rc <= Len(content)
    BY <1>2, <1>3 DEF Left
  <2>4. rc = 0 => op.off + op.n >= Len(content)
    BY <1>1, <1>2, <1>3 DEF Left
  <2> QED
    BY <1>2, <2>1, <2>2, <2>3, <2>4
<1>5. Part(content, op.buf, op.off, op.n)
  BY <1>1 DEF LobInv, GatheredOK, Reads
<1>6. Part(content, buf, op.off, n)
  <2> DEFINE off == op.off
             k == op.n
             b == op.buf
  <2>1. off \in Nat /\ k \in Nat /\ Part(content, b, off, k) /\ (rc = 0 \/ off + k + rc <= Len(content))
    BY <1>2, <1>4, <1>5
  <2> HIDE DEF off, k, b
  <2>2. Part(content, b \o SubSeq(content, off + k + 1, off + k + rc), off, k + rc)
    BY <1>3, <1>4, <2>1, PartExtends
  <2> QED
    BY <2>2 DEF off, k, b
<1> HIDE DEF t
<1>7. n \in Nat /\ buf \in Seq(Nat)
  BY <1>2, <1>4, <1>6 DEF Part
<1>8. \/ AtEnd(rc, Chunk) /\ op.kind = "readat" /\ Returns(o, o.n, o.buf, "eof")
      \/ /\ AtEnd(rc, Chunk) /\ op.kind # "readat"
         /\ Returns(o, Len(o.all \o o.buf), o.all \o o.buf, "nil")
      \/ ~AtEnd(rc, Chunk) /\ o.n < o.p /\ op' = o /\ UNCHANGED <<ret, acked>>
      \/ /\ ~AtEnd(rc, Chunk) /\ ~(o.n < o.p) /\ op.kind = "readat"
         /\ Returns(o, o.n, o.buf, "nil")
      \/ /\ ~AtEnd(rc, Chunk) /\ ~(o.n < o.p) /\ op.kind # "readat"
         /\ ReadAllNext(o, o.all \o o.buf)
  <2>1. o.kind = op.kind
    BY <1>2 DEF OpType
  <2> QED
    BY <2>1 DEF ReadReply, Moved, t
<1> HIDE DEF n, buf
<1>9. /\ o \in OpType /\ o.kind = op.kind /\ o.h = op.h /\ o.p = op.p /\ o.off = op.off
      /\ o.n = n /\ o.buf = buf /\ o.all = op.all
  BY <1>2, <1>7 DEF OpType
<1> HIDE DEF o
<1>10. op.kind # "readat" =>
         /\ Part(content, all, 0, op.off + n) /\ Len(all) = op.off + n /\ all \in Seq(Nat)
         /\ Part(content, op.all, 0, op.off) /\ op.off + op.p <= lobs[op.h].size
         /\ op.kind = "materialize" => lobs[op.h].size <= MatCap
  <2> SUFFICES ASSUME op.kind # "readat"
               PROVE  /\ Part(content, all, 0, op.off + n) /\ Len(all) = op.off + n
                      /\ all \in Seq(Nat)
                      /\ Part(content, op.all, 0, op.off) /\ op.off + op.p <= lobs[op.h].size
                      /\ op.kind = "materialize" => lobs[op.h].size <= MatCap
    OBVIOUS
  <2>1. /\ Part(content, op.all, 0, op.off) /\ op.off + op.p <= lobs[op.h].size
        /\ op.kind = "materialize" => lobs[op.h].size <= MatCap
    BY <1>1 DEF LobInv, GatheredOK, Reads
  <2> DEFINE a == op.all
             off == op.off
  <2>2. off \in Nat /\ 0 \in Nat /\ 0 + off = off /\ Part(content, a, 0, off)
        /\ Part(content, buf, 0 + off, n)
    BY <1>2, <1>6, <2>1
  <2> HIDE DEF a, off
  <2>3. Part(content, a \o buf, 0, off + n)
    BY <1>7, <2>2, PartJoin
  <2> QED
    BY <2>1, <2>3 DEF a, off, Part
<1> HIDE DEF all
<1>11. CASE AtEnd(rc, Chunk) /\ op.kind = "readat" /\ Returns(o, o.n, o.buf, "eof")
  <2>1. n < op.p /\ op.off + n >= Len(content)
    BY <1>2, <1>4, <1>11 DEF AtEnd
  <2>2. Returns(o, n, buf, "eof") /\ n <= op.p /\ op.off \in Int
    BY <1>2, <1>4, <1>9, <1>11
  <2> QED
    BY <1>1, <1>2, <1>6, <1>7, <1>9, <1>11, <2>1, <2>2, ReadReturns
<1>12. CASE /\ AtEnd(rc, Chunk) /\ op.kind # "readat"
            /\ Returns(o, Len(o.all \o o.buf), o.all \o o.buf, "nil")
  <2> DEFINE m == op.off + n
  <2>0. m \in Nat
    BY <1>2, <1>7
  <2>1. Returns(o, m, all, "nil")
    BY <1>9, <1>10, <1>12 DEF all
  <2>2. m >= Len(content) /\ m <= lobs[op.h].size
    BY <1>2, <1>3, <1>4, <1>7, <1>10, <1>12, SMTT(20) DEF AtEnd
  <2>3. (m = 0 \/ 0 + m <= Len(content)) /\ all = SubSeq(content, 0 + 1, 0 + m)
    <3> HIDE DEF m
    <3>1. Part(content, all, 0, m) /\ 0 \in Nat
      BY <1>10, <1>12 DEF m
    <3> QED
      BY <1>3, <2>0, <3>1, PartFacts
  <2>4. Least(lobs[op.h].size, Len(content)) = m
    BY <1>3, <2>0, <2>2, <2>3 DEF Least
  <2> HIDE DEF m
  <2>5. all = SubSeq(content, 1, Least(lobs[op.h].size, Len(content)))
    BY <2>0, <2>3, <2>4
  <2>6. op.kind = "materialize" => Len(all) <= MatCap
    BY <1>3, <1>10, <1>12, <2>0, <2>2 DEF m
  <2>7. all \in Seq(Nat) /\ op.off \in Int
    BY <1>2, <1>10, <1>12
  <2> QED
    BY <1>1, <1>2, <1>9, <1>12, <2>0, <2>1, <2>5, <2>6, <2>7, ReadReturns
<1>13. CASE ~AtEnd(rc, Chunk) /\ o.n < o.p /\ op' = o /\ UNCHANGED <<ret, acked>>
  BY <1>1, <1>2, <1>6, <1>9, <1>10, <1>13, ReadGoesOn
<1>14. CASE /\ ~AtEnd(rc, Chunk) /\ ~(o.n < o.p) /\ op.kind = "readat"
            /\ Returns(o, o.n, o.buf, "nil")
  <2>1. n = op.p
    BY <1>2, <1>4, <1>7, <1>9, <1>14
  <2>2. Returns(o, n, buf, "nil") /\ n <= op.p /\ op.off \in Int
    BY <1>2, <1>4, <1>9, <1>14
  <2> QED
    BY <1>1, <1>2, <1>6, <1>7, <1>9, <1>14, <2>1, <2>2, ReadReturns
<1>15. CASE /\ ~AtEnd(rc, Chunk) /\ ~(o.n < o.p) /\ op.kind # "readat"
            /\ ReadAllNext(o, o.all \o o.buf)
  <2> DEFINE m == op.off + n
  <2>1. m \in Nat /\ m <= lobs[op.h].size
    <3>1. op.off + op.p <= lobs[op.h].size
      BY <1>10, <1>15
    <3>2. n \in Nat /\ n <= op.p /\ op.off \in Nat /\ op.p \in Nat
      BY <1>2, <1>4, <1>7
    <3> QED
      BY <1>3, <3>1, <3>2
  <2>2. Part(content, all, 0, m) /\ ReadAllNext(o, all)
    BY <1>9, <1>10, <1>15 DEF all
  <2> HIDE DEF m
  <2>3. o.kind \in {"readall", "materialize"}
    BY <1>1, <1>9, <1>15 DEF Reads
  <2>4. /\ lobs[o.h].open /\ m <= lobs[o.h].size
        /\ o.kind = "materialize" => lobs[o.h].size <= MatCap
    BY <1>2, <1>9, <1>10, <1>15, <2>1
  <2> QED
    BY <1>1, <1>9, <2>1, <2>2, <2>3, <2>4, ReadAllGoesOn
<1> QED
  BY <1>8, <1>11, <1>12, <1>13, <1>14, <1>15

LEMMA ReadAtBeginInv ==
  ASSUME LobInv, NEW h \in Locators, NEW p \in 0 .. MaxArg, NEW off \in -1 .. MaxArg,
         ReadAtBegin(h, p, off)
  PROVE  LobInv'
<1> DEFINE o == [Idle EXCEPT !.kind = "readat", !.h = h, !.p = p, !.off = off]
<1>1. /\ op = Idle /\ lobs[h].open /\ UNCHANGED <<content, bound, lobs, bad, garbled>>
      /\ \/ off < 0 /\ FailsWith(o)
         \/ off >= 0 /\ p = 0 /\ Returns(o, 0, <<>>, "nil")
         \/ off >= 0 /\ p # 0 /\ op' = o /\ ret' = NoRet /\ acked' = acked
  BY DEF ReadAtBegin
<1>2. /\ op.kind = "idle" /\ "readat" \in Kinds /\ p \in Nat /\ off \in Int /\ <<>> \in Seq(Nat)
      /\ 0 \in Nat
  BY <1>1, IdleFacts DEF Kinds
<1>3. /\ o.kind = "readat" /\ o.h = h /\ o.p = p /\ o.off = off /\ o.n = 0
      /\ o.buf = <<>> /\ o.all = <<>> /\ (off \in Nat => o \in OpType)
  <2>1. o.kind = "readat" /\ o.h = h /\ o.p = p /\ o.off = off /\ o.n = 0
    BY DEF Idle
  <2>2. o.buf = <<>> /\ o.all = <<>>
    BY DEF Idle
  <2>3. off \in Nat => o \in OpType
    BY <1>2, IdleFacts DEF OpType
  <2> QED
    BY <2>1, <2>2, <2>3
<1> HIDE DEF o
<1>4. off >= 0 => off \in Nat /\ Part(content, <<>>, off, 0)
  BY PartEmpty
<1>5. CASE off < 0 /\ FailsWith(o)
  <2>1. Returns(o, 0, <<>>, "err") /\ ~(off >= 0)
    BY <1>3, <1>5 DEF FailsWith
  <2> QED
    BY <1>1, <1>2, <1>3, <2>1, ReadReturns DEF Reads
<1>6. CASE off >= 0 /\ p = 0 /\ Returns(o, 0, <<>>, "nil")
  <2>1. 0 <= o.p /\ 0 = o.p /\ o.kind \in Reads /\ "nil" # "eof"
    BY <1>3, <1>6 DEF Reads
  <2> QED
    BY <1>1, <1>2, <1>3, <1>4, <1>6, <2>1, ReadReturns
<1>7. CASE off >= 0 /\ p # 0 /\ op' = o /\ ret' = NoRet /\ acked' = acked
  <2>1. 0 < p
    BY <1>2, <1>7
  <2> QED
    BY <1>1, <1>2, <1>3, <1>4, <1>7, <2>1, ReadGoesOn DEF Reads
<1> QED
  BY <1>1, <1>5, <1>6, <1>7

LEMMA ReadAllBeginInv ==
  ASSUME LobInv, NEW h \in Locators, ReadAllBegin(h) \/ MaterializeBegin(h)
  PROVE  LobInv'
<1>1. op = Idle /\ op.kind = "idle" /\ lobs[h].open /\ UNCHANGED <<content, bound, lobs, bad, garbled>>
  BY IdleFacts DEF ReadAllBegin, MaterializeBegin
<1>2. /\ "readall" \in Kinds /\ "materialize" \in Kinds /\ 0 \in Nat /\ <<>> \in Seq(Nat)
      /\ lobs[h].size \in Nat
  BY TypeFacts DEF Kinds, LobInv, LobType
<1>3. Part(content, <<>>, 0, 0)
  BY PartEmpty
<1>4. ASSUME NEW o, ReadAllNext(o, <<>>),
             \/ o = [Idle EXCEPT !.kind = "readall", !.h = h]
             \/ o = [Idle EXCEPT !.kind = "materialize", !.h = h] /\ lobs[h].size <= MatCap
      PROVE  LobInv'
  <2>1. /\ o \in OpType /\ o.h = h
        /\ o.kind = "readall" \/ (o.kind = "materialize" /\ lobs[h].size <= MatCap)
    <3>1. CASE o = [Idle EXCEPT !.kind = "readall", !.h = h]
      <4>1. o.kind = "readall" /\ o.h = h
        BY <3>1 DEF Idle
      <4>2. o \in OpType
        BY <1>2, <3>1, IdleFacts DEF OpType
      <4> QED
        BY <4>1, <4>2
    <3>2. CASE o = [Idle EXCEPT !.kind = "materialize", !.h = h] /\ lobs[h].size <= MatCap
      <4>1. o.kind = "materialize" /\ o.h = h
        BY <3>2 DEF Idle
      <4>2. o \in OpType
        BY <1>2, <3>2, IdleFacts DEF OpType
      <4> QED
        BY <3>2, <4>1, <4>2
    <3> QED
      BY <1>4, <3>1, <3>2
  <2>2. 0 <= lobs[o.h].size
    BY <1>2, <2>1
  <2> QED
    BY <1>1, <1>2, <1>3, <1>4, <2>1, <2>2, ReadAllGoesOn
<1>5. CASE ReadAllBegin(h)
  BY <1>4, <1>5 DEF ReadAllBegin
<1>6. CASE MaterializeBegin(h)
  <2> DEFINE o == [Idle EXCEPT !.kind = "materialize", !.h = h]
  <2>1. \/ lobs[h].size > MatCap /\ FailsWith(o)
        \/ ~(lobs[h].size > MatCap) /\ ReadAllNext(o, <<>>)
    BY <1>6 DEF MaterializeBegin
  <2>2. CASE ~(lobs[h].size > MatCap) /\ ReadAllNext(o, <<>>)
    <3>1. lobs[h].size <= MatCap
      BY <1>2, <2>2
    <3> QED
      BY <1>4, <2>2, <3>1
  <2>3. CASE lobs[h].size > MatCap /\ FailsWith(o)
    <3>1. o.kind = "materialize" /\ o.h = h /\ o.n = 0 /\ o.p = 0 /\ o.off = 0
      BY DEF Idle
    <3>2. Returns(o, 0, <<>>, "err")
      BY <2>3, <3>1 DEF FailsWith
    <3>3. Len(<<>>) <= MatCap /\ o.off \in Int /\ o.p \in Nat /\ o.kind \in Reads /\ o.h \in Locators
      BY <3>1 DEF Reads
    <3> HIDE DEF o
    <3> QED
      BY <1>1, <1>2, <3>1, <3>2, <3>3, ReadReturns
  <2> QED
    BY <2>1, <2>2, <2>3
<1> QED
  BY <1>5, <1>6

LEMMA AppendBeginInv ==
  ASSUME LobInv, NEW h \in Locators, NEW p \in 0 .. MaxArg, AppendBegin(h, p)
  PROVE  LobInv'
<1> DEFINE o == [Idle EXCEPT !.kind = "append", !.h = h, !.p = p]
<1>1. /\ op = Idle /\ op.kind = "idle" /\ lobs[h].open /\ UNCHANGED <<content, bound, lobs, bad, garbled>>
      /\ \/ FailsWith(o)
         \/ Returns(o, 0, <<>>, "nil")
         \/ lobs[h].writable /\ p # 0 /\ op' = o /\ ret' = NoRet /\ acked' = acked
  BY IdleFacts DEF AppendBegin
<1>2. "append" \in Kinds /\ p \in Nat /\ <<>> \in Seq(Nat) /\ 0 \in Nat
  BY DEF Kinds
<1>3. /\ o.kind = "append" /\ o.h = h /\ o.p = p /\ o.off = 0 /\ o.n = 0 /\ o \in OpType
  <2>1. o.kind = "append" /\ o.h = h /\ o.p = p /\ o.off = 0 /\ o.n = 0
    BY DEF Idle
  <2>2. o \in OpType
    BY <1>2, IdleFacts DEF OpType
  <2> QED
    BY <2>1, <2>2
<1> HIDE DEF o
<1>4. LocatorsOK /\ acked \in Nat /\ acked + 0 = acked
  <2>1. \A x \in Nat : x + 0 = x
    OBVIOUS
  <2> QED
    BY <2>1, TypeFacts DEF LobInv
<1>5. CASE lobs[h].writable /\ p # 0 /\ op' = o /\ ret' = NoRet /\ acked' = acked
  <2>1. h = "new"
    BY <1>4, <1>5 DEF LocatorsOK, Locators
  <2>2. TypeOK'
    BY <1>1, <1>3, <1>5, TypeFacts, IdleFacts DEF LobInv, TypeOK, OpType, RetType
  <2>3. LocatorsOK'
    BY <1>1, <1>4, <1>5 DEF LocatorsOK
  <2>4. CallOK'
    <3>1. 0 < p
      BY <1>2, <1>5
    <3> QED
      BY <1>1, <1>3, <1>5, <2>1, <3>1, IdleFacts DEF CallOK
  <2>5. GatheredOK' /\ ReturnedOK'
    BY <1>3, <1>5, IdleFacts
    DEF GatheredOK, ReturnedOK, ReadsExact, ReadAtContract, ReadAllExact, WithinCap
  <2>6. WholeStream'
    BY <1>1, <1>3, <1>4, <1>5 DEF LobInv, WholeStream
  <2> QED
    BY <2>2, <2>3, <2>4, <2>5, <2>6 DEF LobInv
<1>6. CASE FailsWith(o) \/ Returns(o, 0, <<>>, "nil")
  <2>1. PICK err \in {"nil", "err"} : Returns(o, 0, <<>>, err)
    BY <1>3, <1>6 DEF FailsWith
  <2>2. /\ op' = Idle /\ op'.kind = "idle" /\ ret'.kind = "append" /\ acked' = acked
    BY <1>3, <1>4, <2>1, ReturnsFacts
  <2>3. ret' \in RetType
    BY <1>2, <1>3, <2>1 DEF Returns, RetType, OpType
  <2>4. TypeOK'
    BY <1>1, <2>2, <2>3, TypeFacts, IdleFacts DEF LobInv, TypeOK, OpType, RetType
  <2>5. LocatorsOK' /\ CallOK' /\ GatheredOK'
    BY <1>1, <1>4, <2>2 DEF LocatorsOK, CallOK, GatheredOK
  <2>6. ReturnedOK'
    BY <2>2 DEF ReturnedOK, ReadsExact, ReadAtContract, ReadAllExact, WithinCap
  <2>7. WholeStream'
    BY <1>1, <2>2, StreamKept
  <2> QED
    BY <2>4, <2>5, <2>6, <2>7 DEF LobInv
<1> QED
  BY <1>1, <1>5, <1>6

\* A reply to WRITE_LOB: rc bytes more at the end, and the locator's size with them.
LEMMA AppendReplyInv ==
  ASSUME LobInv, NEW rc \in 1 .. MaxChunk, AppendReply(rc)
  PROVE  LobInv'
<1> DEFINE n == op.n + rc
           o == [op EXCEPT !.n = n]
           l == SetSize(lobs["new"], lobs["new"].size + rc)
<1>1. /\ op.kind = "append" /\ op.kind # "idle" /\ ~bad /\ lobs[op.h].size = Len(content)
      /\ rc \in 1 .. Chunk /\ content' = content \o Data(rc)
      /\ UNCHANGED <<bound, bad, garbled>>
  BY DEF AppendReply
<1>2. /\ op \in OpType /\ op.n \in Nat /\ op.p \in Nat /\ op.n < op.p /\ op.h = "new"
      /\ op.off \in Nat /\ ret.kind = "idle" /\ lobs["new"].open
  BY <1>1, CallFacts
<1>3. /\ content \in Seq(Nat) /\ Len(content) \in Nat /\ acked \in Nat /\ ret \in RetType
      /\ lobs \in [Locators -> LobType] /\ lobs["new"] \in LobType
      /\ lobs["new"].size = Len(content) /\ rc \in Nat
  BY <1>1, <1>2, TypeFacts DEF LobInv
<1>4. /\ content' \in Seq(Nat) /\ Len(content') = Len(content) + rc
      /\ (\A i \in 1 .. Len(content) : content[i] = i) /\ Len(content) = acked + op.n =>
              \A i \in 1 .. Len(content) + rc : content'[i] = i
  BY <1>1, <1>3, DataFacts DEF LobInv
<1>5. n \in Nat /\ n <= op.p
  BY <1>1, <1>2, <1>3 DEF Chunk, Least
<1>6. lobs' = [lobs EXCEPT !["new"] = l]
  BY <1>1, <1>2, <1>3 DEF AppendReply
<1>7. \/ n < op.p /\ op' = o /\ UNCHANGED <<ret, acked>>
      \/ ~(n < op.p) /\ Returns(o, n, <<>>, "nil")
  BY <1>1, <1>2 DEF AppendReply, Moved, OpType
<1> HIDE DEF n
<1>8. /\ o \in OpType /\ o.kind = "append" /\ o.h = "new" /\ o.p = op.p /\ o.n = n
      /\ o.off = op.off
  BY <1>1, <1>2, <1>5 DEF OpType
<1> HIDE DEF o
<1>9. l \in LobType /\ l.open = lobs["new"].open /\ l.size = Len(content') /\ l.packed = l.size
  <2> DEFINE z == lobs["new"].size + rc
             b == lobs["new"]
  <2>1. z \in Nat /\ z = Len(content') /\ b \in LobType /\ l = SetSize(b, z)
    BY <1>3, <1>4
  <2> HIDE DEF z, b, l
  <2>2. l \in LobType /\ l.open = b.open /\ l.size = z /\ l.packed = z
    BY <2>1 DEF SetSize, LobType
  <2> QED
    BY <2>1, <2>2 DEF b
<1> HIDE DEF l
<1>10. /\ lobs' \in [Locators -> LobType] /\ lobs'["new"] = l /\ lobs'["row"] = lobs["row"]
       /\ \A h \in Locators : h = "new" \/ lobs'[h] = lobs[h]
  BY <1>3, <1>6, <1>9 DEF Locators
<1>11. LocatorsOK'
  BY <1>1, <1>2, <1>9, <1>10 DEF LobInv, LocatorsOK
<1>12. \A i \in 1 .. Len(content') : content'[i] = i
  <2>1. Len(content) = acked + op.n
    BY <1>1, <1>2 DEF LobInv, WholeStream
  <2>2. \A i \in 1 .. Len(content) : content[i] = i
    BY DEF LobInv, WholeStream
  <2> QED
    BY <1>4, <2>1, <2>2
<1>13. Len(content') = acked + n /\ Len(content') \in Nat /\ Len(content') <= Len(content')
  <2>1. Len(content) = acked + op.n
    BY <1>1, <1>2 DEF LobInv, WholeStream
  <2>2. Len(content) = acked + op.n => Len(content) + rc = acked + (op.n + rc)
    BY <1>2, <1>3
  <2> QED
    BY <1>3, <1>4, <2>1, <2>2 DEF n
<1>14. CASE n < op.p /\ op' = o /\ UNCHANGED <<ret, acked>>
  <2>1. TypeOK'
    BY <1>1, <1>3, <1>4, <1>8, <1>10, <1>14, TypeFacts DEF LobInv, TypeOK, OpType, RetType
  <2>2. CallOK' /\ GatheredOK'
    BY <1>2, <1>8, <1>9, <1>10, <1>14, IdleFacts DEF CallOK, GatheredOK
  <2>3. ReturnedOK'
    BY <1>2, <1>14 DEF ReturnedOK, ReadsExact, ReadAtContract, ReadAllExact, WithinCap
  <2>4. WholeStream'
    <3>1. (IF op'.kind = "append" THEN op'.n ELSE 0) = n
      BY <1>8, <1>14
    <3> QED
      BY <1>1, <1>9, <1>10, <1>12, <1>13, <1>14, <3>1 DEF WholeStream
  <2> QED
    BY <1>11, <2>1, <2>2, <2>3, <2>4 DEF LobInv
<1>15. CASE ~(n < op.p) /\ Returns(o, n, <<>>, "nil")
  <2>1. /\ op' = Idle /\ op'.kind = "idle" /\ ret'.kind = "append" /\ acked' = acked + n
    BY <1>8, <1>15, ReturnsFacts
  <2>2. ret' \in RetType
    <3>1. "append" \in Kinds /\ "new" \in Locators /\ <<>> \in Seq(Nat) /\ o.off \in Int
      BY <1>2, <1>8 DEF Kinds, Locators
    <3> QED
      BY <1>2, <1>5, <1>8, <1>15, <3>1 DEF Returns, RetType
  <2>3. acked' \in Nat /\ acked' + 0 = acked'
    <3>1. \A x \in Nat : x + 0 = x
      OBVIOUS
    <3>2. acked' \in Nat
      BY <1>3, <1>5, <2>1
    <3> QED
      BY <3>1, <3>2
  <2>4. TypeOK'
    BY <1>1, <1>4, <1>10, <2>1, <2>2, <2>3, TypeFacts, IdleFacts DEF LobInv, TypeOK, OpType, RetType
  <2>5. CallOK' /\ GatheredOK'
    BY <2>1 DEF CallOK, GatheredOK
  <2>6. ReturnedOK'
    BY <2>1 DEF ReturnedOK, ReadsExact, ReadAtContract, ReadAllExact, WithinCap
  <2>7. WholeStream'
    <3>1. (IF op'.kind = "append" THEN op'.n ELSE 0) = 0
      BY <2>1
    <3> QED
      BY <1>1, <1>9, <1>10, <1>12, <1>13, <2>1, <2>3, <3>1 DEF WholeStream
  <2> QED
    BY <1>11, <2>4, <2>5, <2>6, <2>7 DEF LobInv
<1> QED
  BY <1>7, <1>14, <1>15

\* The failures of a round trip.
LEMMA FailureInv ==
  ASSUME LobInv,
         \/ AppendRefused \/ ReplyIsError \/ BadConn
         \/ \E stored \in 0 .. MaxChunk : AppendBadReply(stored) \/ RoundTripFails(stored)
  PROVE  LobInv'
<1>1. /\ op # Idle => op.kind # "idle"
      /\ bad \in BOOLEAN /\ garbled \in BOOLEAN /\ 0 \in Nat
  BY TypeFacts DEF LobInv, CallOK
<1>2. content = content \o Data(0)
  BY <1>1, DataFacts DEF LobInv
<1>3. CASE AppendRefused \/ ReplyIsError \/ BadConn
  <2>1. op.kind # "idle" /\ FailsWith(op) /\ UNCHANGED <<content, bound, lobs, bad, garbled>>
    BY <1>1, <1>3 DEF AppendRefused, ReplyIsError, BadConn
  <2>2. content' = content \o Data(0)
    BY <1>2, <2>1
  <2> QED
    BY <1>1, <2>1, <2>2, CallFails
<1>4. ASSUME NEW stored \in MayStore, op.kind # "idle", stored # 0
      PROVE  op.kind = "append" /\ lobs["new"].size = Len(content)
  BY <1>4, CallFacts DEF MayStore
<1>5. ASSUME NEW stored \in 0 .. MaxChunk, AppendBadReply(stored) PROVE LobInv'
  <2>1. /\ op.kind = "append" /\ op.kind # "idle" /\ ~bad /\ FailsWith(op)
        /\ content' = content \o Data(stored) /\ UNCHANGED <<bound, lobs, bad>>
        /\ garbled' = (garbled \/ stored > 0) /\ stored \in Nat /\ stored \in MayStore
    BY <1>5 DEF AppendBadReply
  <2>2. stored # 0 => lobs["new"].size = Len(content)
    BY <1>4, <2>1
  <2>3. /\ garbled' \in BOOLEAN /\ bad' \in BOOLEAN /\ (bad => bad')
        /\ (garbled => garbled') /\ (stored # 0 => garbled')
    <3>1. stored # 0 <=> stored > 0
      BY <2>1
    <3> QED
      BY <1>1, <2>1, <3>1, Zenon
  <2> QED
    BY <2>1, <2>2, <2>3, CallFails
<1>6. ASSUME NEW stored \in 0 .. MaxChunk, RoundTripFails(stored) PROVE LobInv'
  <2>1. /\ op.kind # "idle" /\ ~bad /\ FailsWith(op) /\ content' = content \o Data(stored)
        /\ bad' = TRUE /\ UNCHANGED <<bound, lobs, garbled>> /\ stored \in Nat
        /\ stored \in MayStore
    BY <1>1, <1>6 DEF RoundTripFails
  <2>2. stored # 0 => op.kind = "append" /\ lobs["new"].size = Len(content)
    BY <1>4, <2>1
  <2>3. bad' \in BOOLEAN /\ garbled' \in BOOLEAN /\ (bad => bad') /\ (garbled => garbled') /\ bad'
    BY <1>1, <2>1
  <2> QED
    BY <2>1, <2>2, <2>3, CallFails
<1> QED
  BY <1>3, <1>5, <1>6

\* Creating, binding and fetching a locator, and a step that changes nothing.
LEMMA LocatorInv ==
  ASSUME LobInv,
         \/ NewLob \/ NewLobFails \/ ResultLob \/ (\E h \in Locators : EncodeParam(h))
         \/ UNCHANGED vars
  PROVE  LobInv'
<1> USE DEF LobInv
<1>0. /\ lobs \in [Locators -> LobType] /\ bound \in Nat \cup {-1} /\ acked \in Nat
      /\ Len(content) \in Nat /\ content \in Seq(Nat)
  BY TypeFacts
<1>1. CASE NewLob
  <2>1. /\ op = Idle /\ op.kind = "idle" /\ ~lobs["new"].open
        /\ lobs' = [lobs EXCEPT !["new"] = Handle(0, TRUE)]
        /\ UNCHANGED <<content, bound, bad, garbled, op, acked, ret>>
    BY <1>1, IdleFacts DEF NewLob
  <2>2. /\ Handle(0, TRUE) \in LobType /\ Handle(0, TRUE).open /\ Handle(0, TRUE).size = 0
        /\ Handle(0, TRUE).packed = 0
    BY DEF Handle, LobType
  <2>3. lobs' \in [Locators -> LobType] /\ lobs'["new"] = Handle(0, TRUE) /\ lobs'["row"] = lobs["row"]
    BY <1>0, <2>1, <2>2 DEF Locators
  <2>4. content = <<>> /\ acked = 0
    BY <2>1 DEF LocatorsOK
  <2>5. TypeOK'
    BY <2>1, <2>3 DEF TypeOK
  <2>6. LocatorsOK'
    BY <2>1, <2>2, <2>3 DEF LocatorsOK, Locators
  <2>7. CallOK' /\ GatheredOK'
    BY <2>1 DEF CallOK, GatheredOK
  <2>8. WholeStream'
    <3>1. Len(content) = 0 /\ 0 + 0 = 0
      BY <2>4
    <3>2. (IF op.kind = "append" THEN op.n ELSE 0) = 0
      BY <2>1
    <3>3. \A i \in 1 .. Len(content) : content[i] = i
      BY <3>1
    <3>4. /\ \A i \in 1 .. Len(content') : content'[i] = i
          /\ (IF op'.kind = "append" THEN op'.n ELSE 0) = 0
      BY <2>1, <3>2, <3>3
    <3>5. lobs'["new"].size = 0 /\ acked' = 0 /\ Len(content') = 0
      BY <2>1, <2>2, <2>3, <2>4, <3>1
    <3>6. 0 <= 0
      OBVIOUS
    <3> QED
      BY <3>1, <3>4, <3>5, <3>6, Zenon DEF WholeStream
  <2>9. ReturnedOK'
    <3>1. ret.kind \in {"readall", "materialize"} => ret.h # "new" /\ ret.h \in Locators
      BY <2>1, TypeFacts DEF ReturnedOK, RetType
    <3>2. ret.kind \in {"readall", "materialize"} => lobs'[ret.h] = lobs[ret.h]
      BY <2>3, <3>1 DEF Locators
    <3> QED
      BY <2>1, <3>2 DEF ReturnedOK, ReadsExact, ReadAtContract, ReadAllExact, WithinCap
  <2> QED
    BY <2>5, <2>6, <2>7, <2>8, <2>9
<1>2. CASE NewLobFails
  <2>1. UNCHANGED <<content, bound, lobs, garbled, op, acked, ret>> /\ bad' = TRUE
    BY <1>2 DEF NewLobFails
  <2>2. TypeOK'
    <3>1. bad' \in BOOLEAN
      BY <2>1
    <3> QED
      BY <2>1, <3>1 DEF TypeOK
  <2>3. LocatorsOK' /\ CallOK' /\ GatheredOK'
    BY <2>1 DEF LocatorsOK, CallOK, GatheredOK
  <2>4. ReturnedOK'
    BY <2>1 DEF ReturnedOK, ReadsExact, ReadAtContract, ReadAllExact, WithinCap
  <2>5. WholeStream'
    BY <2>1 DEF WholeStream
  <2> QED
    BY <2>2, <2>3, <2>4, <2>5
<1>3. CASE ResultLob
  <2>1. /\ op = Idle /\ op.kind = "idle" /\ bound >= 0 /\ ret' = NoRet
        /\ lobs' = [lobs EXCEPT !["row"] = Handle(bound, FALSE)]
        /\ UNCHANGED <<content, bound, bad, garbled, op, acked>>
    BY <1>3, IdleFacts DEF ResultLob
  <2>2. /\ Handle(bound, FALSE) \in LobType /\ ~Handle(bound, FALSE).writable
        /\ Handle(bound, FALSE).size = Handle(bound, FALSE).packed
    BY <1>0, <2>1 DEF Handle, LobType
  <2>3. /\ lobs' \in [Locators -> LobType] /\ lobs'["row"] = Handle(bound, FALSE)
        /\ lobs'["new"] = lobs["new"]
    BY <1>0, <2>1, <2>2 DEF Locators
  <2>4. TypeOK'
    BY <2>1, <2>3, IdleFacts DEF TypeOK, RetType
  <2>5. LocatorsOK'
    <3>1. lobs["new"].open
      BY <1>0, <2>1 DEF LocatorsOK
    <3>2. \A h \in Locators : lobs'[h].size = lobs'[h].packed
      BY <2>2, <2>3 DEF LocatorsOK, Locators
    <3> QED
      BY <2>2, <2>3, <3>1, <3>2 DEF LocatorsOK
  <2>6. CallOK' /\ GatheredOK'
    BY <2>1 DEF CallOK, GatheredOK
  <2>7. ReturnedOK'
    BY <2>1, IdleFacts DEF ReturnedOK, ReadsExact, ReadAtContract, ReadAllExact, WithinCap
  <2>8. WholeStream'
    BY <2>1, <2>3 DEF WholeStream
  <2> QED
    BY <2>4, <2>5, <2>6, <2>7, <2>8
<1>4. ASSUME NEW h \in Locators, EncodeParam(h) PROVE LobInv'
  <2>1. /\ op = Idle /\ op.kind = "idle" /\ lobs[h].open /\ ret' = NoRet /\ bound' = lobs[h].packed
        /\ UNCHANGED <<content, lobs, bad, garbled, op, acked>>
    BY <1>4, IdleFacts DEF EncodeParam
  <2>2. bound' \in Nat
    BY <1>0, <2>1 DEF LobType
  <2>3. TypeOK'
    BY <2>1, <2>2, IdleFacts DEF TypeOK, RetType
  <2>4. LocatorsOK'
    BY <2>1 DEF LocatorsOK, Locators
  <2>5. CallOK' /\ GatheredOK'
    BY <2>1 DEF CallOK, GatheredOK
  <2>6. ReturnedOK'
    BY <2>1, IdleFacts DEF ReturnedOK, ReadsExact, ReadAtContract, ReadAllExact, WithinCap
  <2>7. WholeStream'
    BY <2>1 DEF WholeStream
  <2> QED
    BY <2>3, <2>4, <2>5, <2>6, <2>7
<1>5. CASE UNCHANGED vars
  <2>1. TypeOK' /\ LocatorsOK' /\ CallOK' /\ GatheredOK'
    BY <1>5 DEF vars, TypeOK, LocatorsOK, CallOK, GatheredOK
  <2>2. ReturnedOK'
    BY <1>5 DEF vars, ReturnedOK, ReadsExact, ReadAtContract, ReadAllExact, WithinCap
  <2>3. WholeStream'
    BY <1>5 DEF vars, WholeStream
  <2> QED
    BY <2>1, <2>2, <2>3
<1> QED
  BY <1>1, <1>2, <1>3, <1>4, <1>5

LEMMA InitInv == Init => LobInv
<1> SUFFICES ASSUME Init PROVE LobInv
  OBVIOUS
<1>1. /\ content = <<>> /\ bound = -1 /\ op = Idle /\ acked = 0 /\ ret = NoRet
      /\ lobs = [h \in Locators |-> NoLob]
  BY DEF Init
<1>2. bad \in BOOLEAN /\ garbled \in BOOLEAN
  BY DEF Init
<1>3. NoLob \in LobType /\ ~NoLob.open /\ ~NoLob.writable /\ NoLob.size = 0 /\ NoLob.packed = 0
  BY DEF NoLob, LobType
<1>4. /\ lobs \in [Locators -> LobType] /\ lobs["new"] = NoLob /\ lobs["row"] = NoLob
      /\ \A h \in Locators : lobs[h] = NoLob
  BY <1>1, <1>3 DEF Locators
<1>5. TypeOK
  BY <1>1, <1>2, <1>4, IdleFacts DEF TypeOK, OpType, RetType
<1>6. LocatorsOK /\ CallOK /\ GatheredOK
  BY <1>1, <1>3, <1>4, IdleFacts DEF LocatorsOK, CallOK, GatheredOK
<1>7. ReturnedOK
  BY <1>1, IdleFacts DEF ReturnedOK, ReadsExact, ReadAtContract, ReadAllExact, WithinCap
<1>8. WholeStream
  BY <1>1, <1>3, <1>4 DEF WholeStream
<1> QED
  BY <1>5, <1>6, <1>7, <1>8 DEF LobInv

\* Every step of the application, of the server and of the network keeps LobInv.
LEMMA InvStep == LobInv /\ [Next]_vars => LobInv'
<1> SUFFICES ASSUME LobInv, [Next]_vars PROVE LobInv'
  OBVIOUS
<1>1. ASSUME NEW h \in Locators, NEW p \in 0 .. MaxArg, AppendBegin(h, p) PROVE LobInv'
  BY <1>1, AppendBeginInv
<1>2. ASSUME NEW h \in Locators, NEW p \in 0 .. MaxArg, NEW off \in -1 .. MaxArg,
             ReadAtBegin(h, p, off)
      PROVE  LobInv'
  BY <1>2, ReadAtBeginInv
<1>3. ASSUME NEW h \in Locators, ReadAllBegin(h) \/ MaterializeBegin(h) PROVE LobInv'
  BY <1>3, ReadAllBeginInv
<1>4. CASE Reply
  BY <1>4, FailureInv, AppendReplyInv, ReadReplyInv DEF Reply
<1> QED
  BY <1>1, <1>2, <1>3, <1>4, FailureInv, LocatorInv DEF Next

-----------------------------------------------------------------------------
(* The theorems                                                            *)

\* The state of a LOB, its locators and the call on it stays within its types, for
\* every chunk size; in particular no loop of Append or ReadAt runs past its buffer.
THEOREM LobTyped == Spec => []TypeOK
<1>1. LobInv => TypeOK
  BY DEF LobInv
<1> QED
  BY <1>1, InitInv, InvStep, PTL DEF Spec

\* Append writes the stream of the application: however little the server takes at a
\* time, and after every failure it can recover from, nothing is missing, nothing is
\* there twice, and the locator's size is the LOB's (Lob.Append, LobHandle.SetSize).
THEOREM StreamWhole == Spec => []WholeStream
<1>1. LobInv => WholeStream
  BY DEF LobInv
<1> QED
  BY <1>1, InitInv, InvStep, PTL DEF Spec

\* ReadAt keeps io.ReaderAt's contract, ReadAll returns the LOB up to its locator's
\* size, and the adapter no more than its cap (Lob.ReadAt, Lob.ReadAll,
\* toDriverValue).
THEOREM ReadsAreExact == Spec => []ReadsExact
<1>1. LobInv => ReadsExact
  BY DEF LobInv, ReturnedOK
<1> QED
  BY <1>1, InitInv, InvStep, PTL DEF Spec

\* A bound locator has the true size of what was appended before the bind
\* (LobHandle.SetSize, Lob.encodeParam).
THEOREM BindsTrueSize == Spec => BoundWhole
<1>1. ASSUME LobInv, NEW h \in Locators, EncodeParam(h), ~garbled, lobs[h].writable
      PROVE  bound' = Len(content)
  <2>1. bound' = lobs[h].packed /\ ~bad /\ lobs[h].open
    BY <1>1 DEF EncodeParam
  <2>2. h = "new" /\ lobs[h].packed = lobs[h].size
    BY <1>1 DEF LobInv, LocatorsOK, Locators
  <2> QED
    BY <1>1, <2>1, <2>2 DEF LobInv, WholeStream
<1>2. LobInv => [\A h \in Locators : EncodeParam(h) /\ ~garbled /\ lobs[h].writable
                   => bound' = Len(content)]_vars
  BY <1>1
<1> QED
  BY <1>2, InitInv, InvStep, PTL DEF Spec, BoundWhole

=============================================================================
