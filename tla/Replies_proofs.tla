-------------------------- MODULE Replies_proofs --------------------------
(***************************************************************************)
(* A reply is read into what the server sent, or its loss is noticed, for  *)
(* every value of the constants.                                           *)
(*                                                                         *)
(* Parses relates a plan of Replies to the fields it reads: there is a     *)
(* relation that every step of the plan stays in. It is composed the way   *)
(* the replies are, from fields, counts with their items and parts that    *)
(* may be absent, up to one lemma per kind of reply (PrepareStarts,        *)
(* ExecuteStarts and so on). ParserInv then says where a parser stands     *)
(* between the fields it has read and those that its plan is for.          *)
(***************************************************************************)
EXTENDS Data_proofs

-----------------------------------------------------------------------------
(* A plan that reads the fields it meets                                   *)

\* The entries of a plan.
Entry ==
  {"status", "byte", "int16", "int32", "string", "value", "bytes8", "bytes20", "type", "result",
   "paramCount", "columnInfo", "nCols", "nSchemaCols", "nResults", "nTuples", "nBatch",
   "completed", "legacy", "inline", "broker"}
Plans == Seq(Entry)

Int16Of(b) == R!Signed(b[1]) * 256 + b[2]
Int32Of(b) == R!Signed(b[1]) * 16777216 + b[2] * 65536 + b[3] * 256 + b[4]

\* A length and that many bytes.
SizedOf(f, b) ==
  IF Int32Of(b) < 0 THEN (IF f = "value" THEN R!Null ELSE <<>>)
  ELSE IF f = "string" THEN R!TrimNul(SubSeq(b, 5, 4 + Int32Of(b)))
  ELSE SubSeq(b, 5, 4 + Int32Of(b))

FixedOf(f, b) ==
  CASE R!Size(f) = 1 -> b[1]
    [] R!Size(f) = 2 -> Int16Of(b)
    [] R!Size(f) = 4 -> Int32Of(b)
    [] OTHER -> b

\* The field x has the bytes that f reads, and the value.
Reads(f, x) ==
  IF f \in {"string", "value"}
  THEN /\ Len(x.b) = (IF Int32Of(x.b) > 0 THEN 4 + Int32Of(x.b) ELSE 4) /\ Int32Of(x.b) \in Int
       /\ x.v = SizedOf(f, x.b)
  ELSE /\ Len(x.b) = R!Size(f) /\ x.v = FixedOf(f, x.b)
       /\ f = "status" => x.v >= 0

\* The fields that may be absent, and the one whose plan ends in such a field.
Loose == {"completed", "legacy", "inline", "broker"}

\* Q relates plans to the fields they read, whatever else there is behind them.
Follows(k, Q) ==
  \A p \in Plans, fs \in Fields : <<p, fs>> \in Q =>
    /\ p = <<>> => fs = <<>>
    /\ p # <<>> =>
         /\ fs # <<>> /\ Head(p) \notin Loose /\ Reads(Head(p), Head(fs))
         /\ \A more \in Nat :
              /\ ~R!Refuses(Head(p), Head(fs).v, Len(BytesOf(Tail(fs))) + more)
              /\ R!Items(k, Head(p), Head(fs).v, Len(BytesOf(Tail(fs))) + more) \in Plans
              /\ <<R!Items(k, Head(p), Head(fs).v, Len(BytesOf(Tail(fs))) + more) \o Tail(p),
                   Tail(fs)>> \in Q

Parses(k, p, fs) ==
  /\ p \in Plans /\ fs \in Fields
  /\ \E Q : Follows(k, Q) /\ <<p, fs>> \in Q

LEMMA ParsesEmpty == \A k : Parses(k, <<>>, <<>>)
<1> SUFFICES ASSUME NEW k PROVE Parses(k, <<>>, <<>>)
  OBVIOUS
<1> DEFINE Q == {<<<<>>, <<>>>>}
<1>1. <<>> \in Plans /\ <<>> \in Fields
  BY DEF Plans, Fields
<1>2. \A p, fs : <<p, fs>> \in Q => p = <<>> /\ fs = <<>>
  OBVIOUS
<1>3. <<<<>>, <<>>>> \in Q
  OBVIOUS
<1> HIDE DEF Q
<1>4. Follows(k, Q)
  BY <1>2, Zenon DEF Follows
<1> QED
  BY <1>1, <1>3, <1>4, Zenon DEF Parses

\* What a plan that reads its fields does first.
LEMMA ParsesStep ==
  ASSUME NEW k, NEW p, NEW fs, Parses(k, p, fs)
  PROVE  /\ p = <<>> => fs = <<>>
         /\ p # <<>> =>
              /\ fs # <<>> /\ Head(p) \notin Loose /\ Reads(Head(p), Head(fs))
              /\ \A more \in Nat :
                   /\ ~R!Refuses(Head(p), Head(fs).v, Len(BytesOf(Tail(fs))) + more)
                   /\ R!Items(k, Head(p), Head(fs).v, Len(BytesOf(Tail(fs))) + more) \in Plans
                   /\ Parses(k, R!Items(k, Head(p), Head(fs).v, Len(BytesOf(Tail(fs))) + more) \o Tail(p),
                             Tail(fs))
<1>1. p \in Plans /\ fs \in Fields
  BY DEF Parses
<1>2. PICK Q : Follows(k, Q) /\ <<p, fs>> \in Q
  BY DEF Parses
<1>3. p = <<>> => fs = <<>>
  BY <1>1, <1>2, Zenon DEF Follows
<1>4. ASSUME p # <<>>
      PROVE  /\ fs # <<>> /\ Head(p) \notin Loose /\ Reads(Head(p), Head(fs))
             /\ \A more \in Nat :
                  /\ ~R!Refuses(Head(p), Head(fs).v, Len(BytesOf(Tail(fs))) + more)
                  /\ R!Items(k, Head(p), Head(fs).v, Len(BytesOf(Tail(fs))) + more) \in Plans
                  /\ <<R!Items(k, Head(p), Head(fs).v, Len(BytesOf(Tail(fs))) + more) \o Tail(p),
                       Tail(fs)>> \in Q
  BY <1>1, <1>2, <1>4, Zenon DEF Follows
<1>5. ASSUME p # <<>>, NEW more \in Nat
      PROVE  Parses(k, R!Items(k, Head(p), Head(fs).v, Len(BytesOf(Tail(fs))) + more) \o Tail(p), Tail(fs))
  <2>1. PICK its \in Plans : its = R!Items(k, Head(p), Head(fs).v, Len(BytesOf(Tail(fs))) + more)
    BY <1>4, <1>5
  <2>2. <<its \o Tail(p), Tail(fs)>> \in Q
    BY <1>4, <1>5, <2>1
  <2>3. fs # <<>> /\ p # <<>>
    BY <1>4, <1>5
  <2>4. its \o Tail(p) \in Plans /\ Tail(fs) \in Fields
    BY <1>1, <2>3 DEF Plans, Fields
  <2>5. Parses(k, its \o Tail(p), Tail(fs))
    BY <1>2, <2>2, <2>4, Zenon DEF Parses
  <2> QED
    BY <2>1, <2>5
<1> QED
  BY <1>3, <1>4, <1>5, Zenon

LEMMA ConsParts ==
  ASSUME NEW S, NEW x \in S, NEW s \in Seq(S)
  PROVE  /\ <<x>> \o s \in Seq(S) /\ <<x>> \o s # <<>>
         /\ Head(<<x>> \o s) = x /\ Tail(<<x>> \o s) = s
<1>1. /\ <<x>> \o s \in Seq(S) /\ Len(<<x>> \o s) = Len(s) + 1
      /\ \A i \in 1 .. Len(s) + 1 : (<<x>> \o s)[i] = IF i = 1 THEN x ELSE s[i - 1]
  OBVIOUS
<1>2. PICK t \in Seq(S) : t = <<x>> \o s
  BY <1>1
<1>3. /\ t # <<>> /\ Head(t) = x /\ Len(Tail(t)) = Len(s) /\ Tail(t) \in Seq(S)
      /\ \A i \in 1 .. Len(s) : Tail(t)[i] = s[i]
  BY <1>1, <1>2
<1>4. Tail(t) = s
  BY <1>3, SeqEqual
<1> QED
  BY <1>1, <1>2, <1>3, <1>4

\* A field in front of what a plan reads, for an entry that has the items its.
LEMMA ParsesCons ==
  ASSUME NEW k, NEW f \in Entry \ Loose, NEW x \in FieldSet, Reads(f, x),
         NEW p \in Plans, NEW fs \in Fields, NEW its \in Plans,
         \A more \in Nat : /\ ~R!Refuses(f, x.v, Len(BytesOf(fs)) + more)
                           /\ R!Items(k, f, x.v, Len(BytesOf(fs)) + more) = its,
         Parses(k, its \o p, fs)
  PROVE  Parses(k, <<f>> \o p, <<x>> \o fs)
<1>1. PICK P, FS : P = <<f>> \o p /\ FS = <<x>> \o fs
  OBVIOUS
<1>2. P \in Plans /\ P # <<>> /\ Head(P) = f /\ Tail(P) = p
  BY <1>1, ConsParts DEF Plans
<1>3. FS \in Fields /\ FS # <<>> /\ Head(FS) = x /\ Tail(FS) = fs
  BY <1>1, ConsParts DEF Fields
<1>4. PICK Q : Follows(k, Q) /\ <<its \o p, fs>> \in Q
  BY DEF Parses
<1> DEFINE U == Q \cup {<<P, FS>>}
<1>5. Follows(k, U)
  <2> SUFFICES ASSUME NEW a \in Plans, NEW as \in Fields, <<a, as>> \in U
               PROVE  /\ a = <<>> => as = <<>>
                      /\ a # <<>> =>
                           /\ as # <<>> /\ Head(a) \notin Loose /\ Reads(Head(a), Head(as))
                           /\ \A more \in Nat :
                              /\ ~R!Refuses(Head(a), Head(as).v, Len(BytesOf(Tail(as))) + more)
                              /\ R!Items(k, Head(a), Head(as).v, Len(BytesOf(Tail(as))) + more) \in Plans
                              /\ <<R!Items(k, Head(a), Head(as).v, Len(BytesOf(Tail(as))) + more) \o Tail(a),
                                   Tail(as)>> \in U
    BY DEF Follows
  <2>1. CASE <<a, as>> \in Q
    <3>1. \A z \in Q : z \in U
      OBVIOUS
    <3> HIDE DEF U
    <3> QED
      BY <1>4, <2>1, <3>1, Zenon DEF Follows
  <2>2. CASE a = P /\ as = FS
    <3>1. <<its \o p, fs>> \in U
      BY <1>4
    <3> HIDE DEF U
    <3>2. /\ a # <<>> /\ as # <<>> /\ Head(a) = f /\ Head(as) = x /\ Tail(a) = p /\ Tail(as) = fs
          /\ f \notin Loose
      BY <1>2, <1>3, <2>2
    <3>3. \A more \in Nat :
            /\ ~R!Refuses(Head(a), Head(as).v, Len(BytesOf(Tail(as))) + more)
            /\ R!Items(k, Head(a), Head(as).v, Len(BytesOf(Tail(as))) + more) = its
      BY <3>2, Zenon
    <3>4. its \o Tail(a) = its \o p
      BY <3>2
    <3>5. <<its \o Tail(a), Tail(as)>> \in U
      BY <3>1, <3>2, <3>4
    <3> QED
      BY <3>2, <3>3, <3>5, Zenon
  <2> QED
    BY <2>1, <2>2
<1>6. <<P, FS>> \in U
  OBVIOUS
<1> HIDE DEF U
<1>7. Parses(k, P, FS)
  BY <1>2, <1>3, <1>5, <1>6, Zenon DEF Parses
<1> QED
  BY <1>1, <1>7

\* Concatenation, at the front.
LEMMA ConcatFront ==
  ASSUME NEW S, NEW s \in Seq(S), NEW t \in Seq(S), s # <<>>
  PROVE  /\ s \o t \in Seq(S) /\ s \o t # <<>>
         /\ Head(s \o t) = Head(s) /\ Tail(s \o t) = Tail(s) \o t
         /\ Tail(s) \in Seq(S)
<1>1. /\ Len(s) \in Nat \ {0} /\ Len(t) \in Nat /\ Tail(s) \in Seq(S) /\ Len(Tail(s)) = Len(s) - 1
      /\ \A i \in 1 .. Len(s) - 1 : Tail(s)[i] = s[i + 1]
  BY HeadTailProperties, EmptySeq
<1>2. PICK u, w : u = s \o t /\ w = Tail(s)
  OBVIOUS
<1>3. /\ u \in Seq(S) /\ Len(u) = Len(s) + Len(t)
      /\ \A i \in 1 .. Len(s) + Len(t) : u[i] = IF i <= Len(s) THEN s[i] ELSE t[i - Len(s)]
  BY <1>2, ConcatProperties
<1>4. u # <<>>
  BY <1>1, <1>3
<1>5. /\ Tail(u) \in Seq(S) /\ Len(Tail(u)) = Len(u) - 1
      /\ \A i \in 1 .. Len(u) - 1 : Tail(u)[i] = u[i + 1]
  BY <1>3, <1>4, HeadTailProperties
<1>6. Head(u) = u[1] /\ Head(s) = s[1] /\ u[1] = s[1]
  BY <1>1, <1>3, <1>4
<1>7. /\ w \o t \in Seq(S) /\ Len(w \o t) = Len(w) + Len(t)
      /\ \A i \in 1 .. Len(w) + Len(t) : (w \o t)[i] = IF i <= Len(w) THEN w[i] ELSE t[i - Len(w)]
  BY <1>1, <1>2, ConcatProperties
<1>8. ASSUME NEW i \in 1 .. Len(u) - 1 PROVE Tail(u)[i] = (w \o t)[i]
  <2>1. Tail(u)[i] = u[i + 1] /\ i + 1 \in 1 .. Len(s) + Len(t)
    BY <1>1, <1>3, <1>5
  <2>2. Len(w) = Len(s) - 1 /\ i \in 1 .. Len(w) + Len(t)
    BY <1>1, <1>2, <1>3
  <2>3. CASE i <= Len(w)
    <3>1. i + 1 <= Len(s) /\ i \in 1 .. Len(s) - 1
      BY <1>1, <2>2, <2>3
    <3> QED
      BY <1>1, <1>2, <1>3, <1>7, <2>1, <2>2, <2>3, <3>1
  <2>4. CASE ~(i <= Len(w))
    <3>1. ~(i + 1 <= Len(s)) /\ (i + 1) - Len(s) = i - Len(w)
      BY <1>1, <2>2, <2>4
    <3> QED
      BY <1>3, <1>7, <2>1, <2>2, <2>4, <3>1
  <2> QED
    BY <2>3, <2>4
<1>9. Len(Tail(u)) = Len(w \o t) /\ Len(Tail(u)) = Len(u) - 1
  BY <1>1, <1>2, <1>3, <1>5, <1>7
<1>10. Tail(u) = w \o t
  <2>1. PICK y, z : y = Tail(u) /\ z = w \o t
    BY Zenon
  <2>2. y \in Seq(S) /\ z \in Seq(S) /\ Len(y) = Len(z) /\ \A i \in 1 .. Len(y) : y[i] = z[i]
    BY <1>5, <1>7, <1>8, <1>9, <2>1, Zenon
  <2> QED
    BY <2>1, <2>2, SeqEqual
<1> QED
  BY <1>1, <1>2, <1>3, <1>4, <1>6, <1>10

LEMMA PlansConcat ==
  \A p \in Plans, q \in Plans : p \o q \in Plans
  BY DEF Plans

LEMMA PlanAssoc ==
  ASSUME NEW a \in Plans, NEW b \in Plans, NEW c \in Plans
  PROVE  (a \o b) \o c = a \o (b \o c)
  BY ConcatAssociative DEF Plans

\* Plans one behind the other read their fields one behind the other.
LEMMA ParsesConcat ==
  ASSUME NEW k, NEW p, NEW fs, NEW q, NEW gs, Parses(k, p, fs), Parses(k, q, gs)
  PROVE  Parses(k, p \o q, fs \o gs)
<1>1. p \in Plans /\ fs \in Fields /\ q \in Plans /\ gs \in Fields
  BY DEF Parses
<1>2. PICK Q1 : Follows(k, Q1) /\ <<p, fs>> \in Q1
  BY DEF Parses
<1>3. PICK Q2 : Follows(k, Q2) /\ <<q, gs>> \in Q2
  BY DEF Parses
<1> DEFINE Q == {z \in Plans \X Fields : \E a \in Plans, as \in Fields :
                   <<a, as>> \in Q1 /\ z = <<a \o q, as \o gs>>} \cup Q2
<1>4. \A a \in Plans, as \in Fields : <<a, as>> \in Q1 => <<a \o q, as \o gs>> \in Q
  <2> SUFFICES ASSUME NEW a \in Plans, NEW as \in Fields, <<a, as>> \in Q1
               PROVE  <<a \o q, as \o gs>> \in Q
    OBVIOUS
  <2>1. a \o q \in Plans /\ as \o gs \in Fields
    BY <1>1, PlansConcat, FieldsConcat, Zenon
  <2> QED
    BY <2>1
<1>5. \A z \in Q2 : z \in Q
  OBVIOUS
<1> HIDE DEF Q
<1>7. Follows(k, Q)
  <2> SUFFICES ASSUME NEW a \in Plans, NEW as \in Fields, <<a, as>> \in Q
               PROVE  /\ a = <<>> => as = <<>>
                      /\ a # <<>> =>
                           /\ as # <<>> /\ Head(a) \notin Loose /\ Reads(Head(a), Head(as))
                           /\ \A more \in Nat :
                              /\ ~R!Refuses(Head(a), Head(as).v, Len(BytesOf(Tail(as))) + more)
                              /\ R!Items(k, Head(a), Head(as).v, Len(BytesOf(Tail(as))) + more) \in Plans
                              /\ <<R!Items(k, Head(a), Head(as).v, Len(BytesOf(Tail(as))) + more) \o Tail(a),
                                   Tail(as)>> \in Q
    BY DEF Follows
  <2>1. ASSUME <<a, as>> \in Q2
        PROVE  /\ a = <<>> => as = <<>>
               /\ a # <<>> =>
                    /\ as # <<>> /\ Head(a) \notin Loose /\ Reads(Head(a), Head(as))
                    /\ \A more \in Nat :
                       /\ ~R!Refuses(Head(a), Head(as).v, Len(BytesOf(Tail(as))) + more)
                       /\ R!Items(k, Head(a), Head(as).v, Len(BytesOf(Tail(as))) + more) \in Plans
                       /\ <<R!Items(k, Head(a), Head(as).v, Len(BytesOf(Tail(as))) + more) \o Tail(a),
                            Tail(as)>> \in Q
    BY <1>3, <1>5, <2>1, Zenon DEF Follows
  <2>2. CASE <<a, as>> \in Q2
    BY <2>1, <2>2
  <2>3. CASE <<a, as>> \notin Q2
    <3>0. \/ <<a, as>> \in Q2
          \/ \E b \in Plans, bs \in Fields : <<b, bs>> \in Q1 /\ a = b \o q /\ as = bs \o gs
      BY DEF Q
    <3>1. PICK b \in Plans, bs \in Fields : <<b, bs>> \in Q1 /\ a = b \o q /\ as = bs \o gs
      BY <2>3, <3>0
    <3>2. CASE b = <<>>
      <4>1. bs = <<>>
        BY <1>2, <3>1, <3>2, Zenon DEF Follows
      <4>2. a = q /\ as = gs
        BY <1>1, <3>1, <3>2, <4>1, ConcatEmptySeq DEF Plans, Fields
      <4> QED
        BY <1>3, <2>3, <4>2
    <3>3. CASE b # <<>>
      <4>1. /\ bs # <<>> /\ Head(b) \notin Loose /\ Reads(Head(b), Head(bs))
            /\ \A more \in Nat :
                 /\ ~R!Refuses(Head(b), Head(bs).v, Len(BytesOf(Tail(bs))) + more)
                 /\ R!Items(k, Head(b), Head(bs).v, Len(BytesOf(Tail(bs))) + more) \in Plans
                 /\ <<R!Items(k, Head(b), Head(bs).v, Len(BytesOf(Tail(bs))) + more) \o Tail(b),
                      Tail(bs)>> \in Q1
        BY <1>2, <3>1, <3>3, Zenon DEF Follows
      <4>2. a # <<>> /\ Head(a) = Head(b) /\ Tail(a) = Tail(b) \o q /\ Tail(b) \in Plans
        BY <1>1, <3>1, <3>3, ConcatFront DEF Plans
      <4>3. as # <<>> /\ Head(as) = Head(bs) /\ Tail(as) = Tail(bs) \o gs /\ Tail(bs) \in Fields
        BY <1>1, <3>1, <4>1, ConcatFront DEF Fields
      <4>4. PICK m \in Nat, n \in Nat : m = Len(BytesOf(Tail(bs))) /\ n = Len(BytesOf(gs))
        BY <1>1, <4>3, BytesOfType
      <4>5. Len(BytesOf(Tail(as))) = m + n
        <5>1. BytesOf(Tail(as)) = BytesOf(Tail(bs)) \o BytesOf(gs)
          BY <1>1, <4>3, BytesOfConcat
        <5>2. BytesOf(Tail(bs)) \in Seq(Byte) /\ BytesOf(gs) \in Seq(Byte)
          BY <1>1, <4>3, BytesOfType
        <5> QED
          BY <4>4, <5>1, <5>2, ConcatProperties
      <4>6. ASSUME NEW more \in Nat
            PROVE  /\ ~R!Refuses(Head(a), Head(as).v, Len(BytesOf(Tail(as))) + more)
                   /\ R!Items(k, Head(a), Head(as).v, Len(BytesOf(Tail(as))) + more) \in Plans
                   /\ <<R!Items(k, Head(a), Head(as).v, Len(BytesOf(Tail(as))) + more) \o Tail(a),
                        Tail(as)>> \in Q
        <5>1. n + more \in Nat /\ m + (n + more) = (m + n) + more
          OBVIOUS
        <5>2. Len(BytesOf(Tail(as))) + more = Len(BytesOf(Tail(bs))) + (n + more)
          BY <4>4, <4>5, <5>1
        <5>3. PICK left : left = Len(BytesOf(Tail(bs))) + (n + more)
          OBVIOUS
        <5>4. /\ ~R!Refuses(Head(b), Head(bs).v, left)
              /\ R!Items(k, Head(b), Head(bs).v, left) \in Plans
              /\ <<R!Items(k, Head(b), Head(bs).v, left) \o Tail(b), Tail(bs)>> \in Q1
          BY <4>1, <5>1, <5>3, Zenon
        <5>5. PICK its \in Plans : its = R!Items(k, Head(b), Head(bs).v, left)
          BY <5>4
        <5>6. its \o Tail(b) \in Plans
          BY <4>2 DEF Plans
        <5>7. <<its \o Tail(b), Tail(bs)>> \in Q1
          BY <5>4, <5>5
        <5>8. <<(its \o Tail(b)) \o q, Tail(bs) \o gs>> \in Q
          BY <1>4, <4>3, <5>6, <5>7
        <5>9. (its \o Tail(b)) \o q = its \o (Tail(b) \o q)
          BY <1>1, <4>2, PlanAssoc
        <5>10. <<its \o Tail(a), Tail(as)>> \in Q
          BY <4>2, <4>3, <5>8, <5>9
        <5>11. R!Items(k, Head(a), Head(as).v, Len(BytesOf(Tail(as))) + more) = its
          BY <4>2, <4>3, <5>2, <5>3, <5>5
        <5>12. ~R!Refuses(Head(a), Head(as).v, Len(BytesOf(Tail(as))) + more)
          BY <4>2, <4>3, <5>2, <5>3, <5>4
        <5> QED
          BY <5>10, <5>11, <5>12
      <4>7. Head(a) \notin Loose /\ Reads(Head(a), Head(as))
        BY <4>1, <4>2, <4>3
      <4> QED
        BY <4>2, <4>3, <4>6, <4>7, Zenon
    <3> QED
      BY <3>2, <3>3
  <2> QED
    BY <2>2, <2>3
<1>8. <<p \o q, fs \o gs>> \in Q
  BY <1>1, <1>2, <1>4
<1>9. p \o q \in Plans /\ fs \o gs \in Fields
  BY <1>1 DEF Plans, Fields
<1> QED
  BY <1>7, <1>8, <1>9, Zenon DEF Parses

\* The numbers that fit in four bytes.
Int32 == {v \in Int : -2147483648 <= v /\ v <= 2147483647}

LEMMA Int32Members == \A v \in -1000 .. 1000 : v \in Int32
  BY SMT DEF Int32

LEMMA Int32Integers == \A v \in Int32 : v \in Int
  BY SMT DEF Int32

LEMMA CountsFit ==
  ASSUME R!RepliesConstants
  PROVE  SqlLen \in Int32 /\ \A n \in 0 .. MaxItems : n \in Int32
<1>1. PICK m \in Int : m = R!MaxInt32
  BY SMT DEF R!MaxInt32
<1>2. MaxItems \in 0 .. m /\ SqlLen \in 0 .. m
  BY <1>1, SMT DEF R!RepliesConstants
<1>3. m <= 2147483647
  BY <1>1, SMT DEF R!MaxInt32
<1>4. \A n \in 0 .. m : n \in Int32
  BY <1>3, SMT DEF Int32
<1>5. \A n \in 0 .. MaxItems : n \in 0 .. m
  BY <1>2, SMT
<1> QED
  BY <1>2, <1>4, <1>5, Zenon

LEMMA Int32Back ==
  ASSUME NEW v \in Int32
  PROVE  Int32Of(R!Bytes4(v)) = v
<1>1. v \in Int /\ -2147483648 <= v /\ v <= 2147483647
  BY SMT DEF Int32
<1>2. PICK a \in Int : a = v \div 256
  BY <1>1, SMT
<1>3. PICK b \in Int : b = a \div 256
  BY SMT
<1>4. PICK c \in Int : c = b \div 256
  BY SMT
<1>5. v \div 65536 = b /\ v \div 16777216 = c
  <2>1. v \div 65536 = b
    BY <1>1, <1>2, <1>3, SMT
  <2>2. v \div 16777216 = (v \div 65536) \div 256
    BY <1>1, SMT
  <2> QED
    BY <1>4, <2>1, <2>2, SMT
<1>6. PICK w, x, y, z \in Int : w = c % 256 /\ x = b % 256 /\ y = a % 256 /\ z = v % 256
  BY <1>1, SMT
<1>7. c \in -128 .. 127
  BY <1>1, <1>5, SMT
<1>8. R!Signed(c % 256) = c
  BY <1>7, SMT DEF R!Signed
<1>9. v = a * 256 + z /\ a = b * 256 + y /\ b = c * 256 + x
  <2>1. v = a * 256 + z
    BY <1>1, <1>2, <1>6, SMT
  <2>2. a = b * 256 + y
    BY <1>3, <1>6, SMT
  <2>3. b = c * 256 + x
    BY <1>4, <1>6, SMT
  <2> QED
    BY <2>1, <2>2, <2>3
<1>10. R!Bytes4(v) = <<w, x>> \o <<y, z>>
  BY <1>2, <1>5, <1>6, SMT DEF R!Bytes4, R!Bytes2
<1>11. PICK s : s = <<w, x>> \o <<y, z>>
  OBVIOUS
<1>12. s[1] = w /\ s[2] = x /\ s[3] = y /\ s[4] = z
  BY <1>11, SMT
<1>13. Int32Of(s) = R!Signed(w) * 16777216 + x * 65536 + y * 256 + z
  BY <1>12, SMT DEF Int32Of
<1>14. Int32Of(s) = c * 16777216 + x * 65536 + y * 256 + z
  BY <1>6, <1>8, <1>13, SMT
<1>15. v = c * 16777216 + x * 65536 + y * 256 + z
  <2>1. v \in Int
    BY <1>1
  <2> QED
    BY <1>9, <2>1, SMT
<1> QED
  BY <1>10, <1>11, <1>14, <1>15, SMT

LEMMA SubSeqParts ==
  ASSUME NEW S, NEW s \in Seq(S), NEW m \in Nat \ {0}, NEW n \in Int, n <= Len(s)
  PROVE  /\ SubSeq(s, m, n) \in Seq(S)
         /\ Len(SubSeq(s, m, n)) = IF m <= n THEN n - m + 1 ELSE 0
         /\ \A i \in 1 .. n - m + 1 : SubSeq(s, m, n)[i] = s[m + i - 1]
<1>1. SubSeq(s, m, n) \in Seq(S)
  BY SubSeqProperties
<1>2. Len(SubSeq(s, m, n)) = IF m <= n THEN n - m + 1 ELSE 0
  BY SubSeqProperties
<1>3. \A i \in 1 .. n - m + 1 : SubSeq(s, m, n)[i] = s[m + i - 1]
  BY SubSeqProperties
<1> QED
  BY <1>1, <1>2, <1>3

LEMMA FrontOfTwo ==
  ASSUME NEW a \in Int, NEW b \in Int
  PROVE  R!Front(<<a, b>>) = <<a>>
<1>1. PICK u : u = <<a, b>>
  OBVIOUS
<1>2. u \in Seq(Int) /\ Len(u) = 2 /\ u[1] = a
  BY <1>1
<1>3. PICK w : w = SubSeq(u, 1, 1)
  OBVIOUS
<1>4. 1 \in Nat \ {0} /\ 1 \in Int /\ 1 <= Len(u)
  BY <1>2
<1>5. w \in Seq(Int) /\ Len(w) = 1 /\ w[1] = a
  <2>1. /\ w \in Seq(Int) /\ Len(w) = (IF 1 <= 1 THEN 1 - 1 + 1 ELSE 0)
        /\ \A i \in 1 .. 1 - 1 + 1 : w[i] = u[1 + i - 1]
    BY <1>2, <1>3, <1>4, SubSeqParts
  <2> QED
    BY <1>2, <2>1
<1>6. w = <<a>>
  BY <1>5
<1>7. Len(u) - 1 = 1
  BY <1>2
<1> QED
  BY <1>1, <1>3, <1>6, <1>7 DEF R!Front

\* The field x is the field g, or g in a part that may be absent.
Same(x, g) == x.b = g.b /\ x.v = g.v

FourBytes ==
  {"status", "int32", "paramCount", "nCols", "nSchemaCols", "nResults", "nTuples", "nBatch",
   "result", "legacy"}

LEMMA ReadsByte ==
  ASSUME NEW f \in {"byte", "type", "columnInfo", "completed"}, NEW v \in Byte, NEW x \in FieldSet,
         Same(x, R!F8(v))
  PROVE  Reads(f, x) /\ x.v = v
<1>1. x.b = <<v>> /\ x.v = v
  BY DEF Same, R!F8, R!F
<1>2. R!Size(f) = 1 /\ f \notin {"string", "value"} /\ f # "status"
  BY DEF R!Size
<1>3. FixedOf(f, x.b) = v
  BY <1>1, <1>2 DEF FixedOf
<1> QED
  BY <1>1, <1>2, <1>3 DEF Reads

LEMMA ReadsInt16 ==
  ASSUME NEW x \in FieldSet, Same(x, R!F16(0))
  PROVE  Reads("int16", x)
<1>1. x.b = R!Bytes2(0) /\ x.v = 0
  BY DEF Same, R!F16, R!F
<1>2. R!Bytes2(0) = <<0, 0>>
  BY DEF R!Bytes2
<1>3. R!Size("int16") = 2 /\ R!Size("int16") # 1
  BY DEF R!Size
<1>4. Int16Of(<<0, 0>>) = 0
  BY DEF Int16Of, R!Signed
<1>5. FixedOf("int16", x.b) = 0
  BY <1>1, <1>2, <1>3, <1>4 DEF FixedOf
<1>6. Len(x.b) = 2
  BY <1>1, <1>2
<1> QED
  BY <1>1, <1>3, <1>5, <1>6 DEF Reads

LEMMA ReadsInt32 ==
  ASSUME NEW f \in FourBytes, NEW v \in Int32, NEW x \in FieldSet, Same(x, R!F32(v)),
         f = "status" => v >= 0
  PROVE  Reads(f, x) /\ x.v = v
<1>1. x.b = R!Bytes4(v) /\ x.v = v
  BY DEF Same, R!F32, R!F
<1>2. v \in Int
  BY Int32Integers
<1>3. Len(x.b) = 4
  BY <1>1, <1>2, NumberBytes
<1>4. R!Size(f) = 4 /\ f \notin {"string", "value"}
  BY DEF R!Size, FourBytes
<1>5. Int32Of(x.b) = v
  BY <1>1, Int32Back
<1>6. FixedOf(f, x.b) = v
  BY <1>4, <1>5 DEF FixedOf
<1> QED
  BY <1>1, <1>3, <1>4, <1>6 DEF Reads

LEMMA ReadsRaw ==
  ASSUME NEW x \in FieldSet
  PROVE  /\ Same(x, R!Raw(8)) => Reads("bytes8", x)
         /\ Same(x, R!Raw(20)) => Reads("bytes20", x)
<1>1. R!Size("bytes8") = 8 /\ R!Size("bytes20") = 20
  BY DEF R!Size
<1>2. ASSUME Same(x, R!Raw(8)) PROVE Reads("bytes8", x)
  <2>1. x.b = [i \in 1 .. 8 |-> 7] /\ x.v = [i \in 1 .. 8 |-> 7]
    BY <1>2 DEF Same, R!Raw, R!F
  <2>2. Len(x.b) = 8 /\ x.v = x.b
    BY <2>1
  <2>3. FixedOf("bytes8", x.b) = x.b
    BY <1>1 DEF FixedOf
  <2> QED
    BY <1>1, <2>2, <2>3 DEF Reads
<1>3. ASSUME Same(x, R!Raw(20)) PROVE Reads("bytes20", x)
  <2>1. x.b = [i \in 1 .. 20 |-> 7] /\ x.v = [i \in 1 .. 20 |-> 7]
    BY <1>3 DEF Same, R!Raw, R!F
  <2>2. Len(x.b) = 20 /\ x.v = x.b
    BY <2>1
  <2>3. FixedOf("bytes20", x.b) = x.b
    BY <1>1 DEF FixedOf
  <2> QED
    BY <1>1, <2>2, <2>3 DEF Reads
<1> QED
  BY <1>2, <1>3

\* Four bytes of a length, and what follows them.
LEMMA LengthThenBody ==
  ASSUME NEW n \in Int32, NEW c \in Seq(Byte), NEW b, b = R!Bytes4(n) \o c
  PROVE  /\ Int32Of(b) = n /\ Len(b) = 4 + Len(c)
         /\ n = Len(c) => SubSeq(b, 5, 4 + n) = c
<1>1. PICK a \in Seq(Byte) : a = R!Bytes4(n) /\ Len(a) = 4
  <2>1. n \in Int
    BY Int32Integers
  <2> QED
    BY <2>1, NumberBytes
<1>2. /\ b \in Seq(Byte) /\ Len(b) = Len(a) + Len(c)
      /\ \A i \in 1 .. Len(a) + Len(c) : b[i] = IF i <= Len(a) THEN a[i] ELSE c[i - Len(a)]
  BY <1>1, ConcatProperties
<1>3. b[1] = a[1] /\ b[2] = a[2] /\ b[3] = a[3] /\ b[4] = a[4]
  BY <1>1, <1>2
<1>4. Int32Of(b) = Int32Of(a)
  BY <1>3 DEF Int32Of
<1>5. Int32Of(a) = n
  BY <1>1, Int32Back
<1>6. ASSUME n = Len(c) PROVE SubSeq(b, 5, 4 + n) = c
  <2>1. Len(c) \in Nat /\ Len(b) = 4 + n
    BY <1>1, <1>2, <1>6
  <2>2. PICK e \in Int : e = 4 + n
    BY <2>1, <1>6
  <2>3. /\ SubSeq(b, 5, e) \in Seq(Byte)
        /\ Len(SubSeq(b, 5, e)) = IF 5 <= e THEN e - 5 + 1 ELSE 0
        /\ \A i \in 1 .. e - 5 + 1 : SubSeq(b, 5, e)[i] = b[5 + i - 1]
    <3>1. 5 \in Nat \ {0} /\ e <= Len(b)
      BY <2>1, <2>2
    <3> QED
      BY <1>2, <3>1, SubSeqParts
  <2>4. Len(SubSeq(b, 5, e)) = Len(c)
    BY <1>6, <2>1, <2>2, <2>3
  <2>5. ASSUME NEW i \in 1 .. Len(c) PROVE SubSeq(b, 5, e)[i] = c[i]
    <3>1. i \in 1 .. e - 5 + 1 /\ 5 + i - 1 = 4 + i
      BY <1>6, <2>1, <2>2
    <3>2. b[4 + i] = c[i]
      BY <1>1, <1>2, <2>1
    <3> QED
      BY <2>3, <3>1, <3>2
  <2>6. PICK s \in Seq(Byte) : s = SubSeq(b, 5, e)
    BY <2>3
  <2>7. s = c
    BY <2>4, <2>5, <2>6, SeqEqual
  <2> QED
    BY <2>2, <2>6, <2>7
<1> QED
  BY <1>1, <1>2, <1>4, <1>5, <1>6

LEMMA SizedForms ==
  /\ \A s \in R!Strings : \E n \in {0, 1, 2} : \E c \in Seq(Byte) :
       /\ s.b = R!Bytes4(n) \o c /\ n = Len(c) /\ s.v = R!TrimNul(c)
  /\ \A s \in R!Values :
       \/ s.b = R!Bytes4(-1) /\ s.v = R!Null
       \/ \E n \in {0, 1} : \E c \in Seq(Byte) : s.b = R!Bytes4(n) \o c /\ n = Len(c) /\ s.v = c
<1>1. /\ <<>> \in Seq(Byte) /\ Len(<<>>) = 0
      /\ <<0>> \in Seq(Byte) /\ Len(<<0>>) = 1
      /\ <<65, 0>> \in Seq(Byte) /\ Len(<<65, 0>>) = 2
  BY DEF Byte
<1>2. R!Bytes4(0) \o <<>> = R!Bytes4(0)
  BY NumberBytes, ConcatEmptySeq
<1>3. R!TrimNul(<<>>) = <<>>
  BY DEF R!TrimNul
<1>4. R!TrimNul(<<0>>) = <<>>
  BY DEF R!TrimNul, R!Last, R!Front
<1>5. R!TrimNul(<<65, 0>>) = <<65>>
  <2>1. <<65, 0>> # <<>> /\ R!Last(<<65, 0>>) = 0
    BY DEF R!Last
  <2>2. R!Front(<<65, 0>>) = <<65>>
    BY FrontOfTwo
  <2> QED
    BY <2>1, <2>2 DEF R!TrimNul
<1>6. ASSUME NEW s \in R!Strings
      PROVE  \E n \in {0, 1, 2} : \E c \in Seq(Byte) :
               /\ s.b = R!Bytes4(n) \o c /\ n = Len(c) /\ s.v = R!TrimNul(c)
  <2>1. CASE s = R!F(R!Bytes4(0), <<>>)
    <3>1. s.b = R!Bytes4(0) \o <<>> /\ 0 = Len(<<>>) /\ s.v = R!TrimNul(<<>>)
      BY <1>2, <1>3, <2>1 DEF R!F
    <3> QED
      BY <1>1, <3>1, Zenon
  <2>2. CASE s = R!F(R!Bytes4(1) \o <<0>>, <<>>)
    <3>1. s.b = R!Bytes4(1) \o <<0>> /\ 1 = Len(<<0>>) /\ s.v = R!TrimNul(<<0>>)
      BY <1>4, <2>2 DEF R!F
    <3> QED
      BY <1>1, <3>1, Zenon
  <2>3. CASE s = R!F(R!Bytes4(2) \o <<65, 0>>, <<65>>)
    <3>1. s.b = R!Bytes4(2) \o <<65, 0>> /\ 2 = Len(<<65, 0>>) /\ s.v = R!TrimNul(<<65, 0>>)
      BY <1>5, <2>3 DEF R!F
    <3> QED
      BY <1>1, <3>1, Zenon
  <2> QED
    BY <2>1, <2>2, <2>3 DEF R!Strings
<1>7. ASSUME NEW s \in R!Values
      PROVE  \/ s.b = R!Bytes4(-1) /\ s.v = R!Null
             \/ \E n \in {0, 1} : \E c \in Seq(Byte) : s.b = R!Bytes4(n) \o c /\ n = Len(c) /\ s.v = c
  <2>1. CASE s = R!F(R!Bytes4(-1), R!Null)
    BY <2>1 DEF R!F
  <2>2. CASE s = R!F(R!Bytes4(0), <<>>)
    <3>1. s.b = R!Bytes4(0) \o <<>> /\ 0 = Len(<<>>) /\ s.v = <<>>
      BY <1>2, <2>2 DEF R!F
    <3> QED
      BY <1>1, <3>1, Zenon
  <2>3. CASE s = R!F(R!Bytes4(1) \o <<0>>, <<0>>)
    <3>1. s.b = R!Bytes4(1) \o <<0>> /\ 1 = Len(<<0>>) /\ s.v = <<0>>
      BY <2>3 DEF R!F
    <3> QED
      BY <1>1, <3>1, Zenon
  <2> QED
    BY <2>1, <2>2, <2>3 DEF R!Values
<1> QED
  BY <1>6, <1>7

LEMMA ReadsSized ==
  ASSUME NEW x \in FieldSet, NEW s, Same(x, s)
  PROVE  /\ s \in R!Strings => Reads("string", x)
         /\ s \in R!Values => Reads("value", x)
<1>1. x.b = s.b /\ x.v = s.v
  BY DEF Same
<1>2. 0 \in Int32 /\ 1 \in Int32 /\ 2 \in Int32 /\ -1 \in Int32 /\ Int32 \subseteq Int
  BY Int32Members, Int32Integers
<1>3. ASSUME NEW n \in {0, 1, 2}, NEW c \in Seq(Byte), x.b = R!Bytes4(n) \o c, n = Len(c)
      PROVE  /\ Int32Of(x.b) = n /\ Len(x.b) = (IF Int32Of(x.b) > 0 THEN 4 + Int32Of(x.b) ELSE 4)
             /\ Int32Of(x.b) \in Int /\ ~(Int32Of(x.b) < 0)
             /\ SubSeq(x.b, 5, 4 + Int32Of(x.b)) = c
  <2>1. n \in Int32
    BY <1>2
  <2>2. /\ Int32Of(x.b) = n /\ Len(x.b) = 4 + Len(c) /\ SubSeq(x.b, 5, 4 + n) = c
    BY <1>3, <2>1, LengthThenBody
  <2>3. 4 + n = (IF n > 0 THEN 4 + n ELSE 4) /\ n \in Int /\ ~(n < 0)
    OBVIOUS
  <2> QED
    BY <1>3, <2>2, <2>3
<1>4. ASSUME s \in R!Strings PROVE Reads("string", x)
  <2>1. PICK n \in {0, 1, 2} : \E c \in Seq(Byte) :
          s.b = R!Bytes4(n) \o c /\ n = Len(c) /\ s.v = R!TrimNul(c)
    BY <1>4, SizedForms
  <2>2. PICK c \in Seq(Byte) : s.b = R!Bytes4(n) \o c /\ n = Len(c) /\ s.v = R!TrimNul(c)
    BY <2>1
  <2>3. SizedOf("string", x.b) = R!TrimNul(c)
    BY <1>1, <1>3, <2>2 DEF SizedOf
  <2> QED
    BY <1>1, <1>3, <2>2, <2>3 DEF Reads
<1>5. ASSUME s \in R!Values PROVE Reads("value", x)
  <2>1. CASE s.b = R!Bytes4(-1) /\ s.v = R!Null
    <3>1. Int32Of(x.b) = -1 /\ Len(x.b) = 4
      BY <1>1, <1>2, <2>1, Int32Back, NumberBytes
    <3>2. SizedOf("value", x.b) = R!Null
      BY <3>1 DEF SizedOf
    <3> QED
      BY <1>1, <2>1, <3>1, <3>2 DEF Reads
  <2>2. CASE \E n \in {0, 1} : \E c \in Seq(Byte) : s.b = R!Bytes4(n) \o c /\ n = Len(c) /\ s.v = c
    <3>1. PICK n \in {0, 1} : \E c \in Seq(Byte) : s.b = R!Bytes4(n) \o c /\ n = Len(c) /\ s.v = c
      BY <2>2
    <3>2. PICK c \in Seq(Byte) : s.b = R!Bytes4(n) \o c /\ n = Len(c) /\ s.v = c
      BY <3>1
    <3>3. SizedOf("value", x.b) = c
      BY <1>1, <1>3, <3>2 DEF SizedOf
    <3> QED
      BY <1>1, <1>3, <3>2, <3>3 DEF Reads
  <2> QED
    BY <1>5, <2>1, <2>2, SizedForms
<1> QED
  BY <1>4, <1>5

\* The entries whose value changes nothing in the plan.
PlainEntry == {"status", "byte", "int16", "int32", "string", "value", "bytes8", "bytes20"}

LEMMA PlainItems ==
  ASSUME NEW k, NEW f \in PlainEntry, NEW v, NEW left
  PROVE  ~R!Refuses(f, v, left) /\ R!Items(k, f, v, left) = <<>> /\ f \in Entry \ Loose
<1>1. /\ f \notin {"nCols", "nSchemaCols", "nBatch"} /\ f # "paramCount" /\ f # "columnInfo"
      /\ f # "type" /\ f # "nCols" /\ f # "nSchemaCols" /\ f # "nResults" /\ f # "nTuples"
      /\ f # "nBatch" /\ f # "result" /\ f # "broker"
  BY DEF PlainEntry
<1>2. ~R!Refuses(f, v, left)
  BY <1>1 DEF R!Refuses
<1>3. R!Items(k, f, v, left) = <<>>
  BY <1>1 DEF R!Items
<1> QED
  BY <1>2, <1>3 DEF PlainEntry, Loose, Entry

LEMMA ParsesPlain ==
  ASSUME NEW k, NEW f \in PlainEntry, NEW x \in FieldSet, Reads(f, x),
         NEW p, NEW fs, Parses(k, p, fs)
  PROVE  Parses(k, <<f>> \o p, <<x>> \o fs)
<1>1. p \in Plans /\ fs \in Fields /\ <<>> \in Plans
  BY DEF Parses, Plans
<1>2. \A more \in Nat : /\ ~R!Refuses(f, x.v, Len(BytesOf(fs)) + more)
                        /\ R!Items(k, f, x.v, Len(BytesOf(fs)) + more) = <<>>
  BY PlainItems
<1>3. <<>> \o p = p
  BY <1>1, ConcatEmptySeq DEF Plans
<1>4. f \in Entry \ Loose
  BY PlainItems
<1>5. Parses(k, <<>> \o p, fs)
  BY <1>3
<1> QED
  BY <1>1, <1>2, <1>4, <1>5, ParsesCons

LEMMA ParsesOne ==
  ASSUME NEW k, NEW f \in PlainEntry, NEW x \in FieldSet, Reads(f, x)
  PROVE  Parses(k, <<f>>, <<x>>)
<1>1. Parses(k, <<f>> \o <<>>, <<x>> \o <<>>)
  BY ParsesEmpty, ParsesPlain
<1>2. <<f>> \o <<>> = <<f>> /\ <<x>> \o <<>> = <<x>>
  OBVIOUS
<1> QED
  BY <1>1, <1>2

LEMMA TupleConcat2 ==
  ASSUME NEW S, NEW x \in S, NEW y \in S
  PROVE  <<x>> \o <<y>> = <<x, y>>
<1>1. PICK s, t : s = <<x>> \o <<y>> /\ t = <<x, y>>
  OBVIOUS
<1>2. s \in Seq(S) /\ Len(s) = 2 /\ s[1] = x /\ s[2] = y
  BY <1>1
<1>3. t \in Seq(S) /\ Len(t) = 2 /\ t[1] = x /\ t[2] = y
  BY <1>1
<1>4. \A i \in 1 .. Len(s) : s[i] = t[i]
  BY <1>2, <1>3
<1>5. s = t
  BY <1>2, <1>3, <1>4, SeqEqual
<1> QED
  BY <1>1, <1>5

LEMMA TupleConcat3 ==
  ASSUME NEW S, NEW x \in S, NEW y \in S, NEW z \in S
  PROVE  <<x, y>> \o <<z>> = <<x, y, z>>
<1>1. PICK s, t : s = <<x, y>> \o <<z>> /\ t = <<x, y, z>>
  OBVIOUS
<1>2. s \in Seq(S) /\ Len(s) = 3 /\ s[1] = x /\ s[2] = y /\ s[3] = z
  BY <1>1
<1>3. t \in Seq(S) /\ Len(t) = 3 /\ t[1] = x /\ t[2] = y /\ t[3] = z
  BY <1>1
<1>4. \A i \in 1 .. Len(s) : s[i] = t[i]
  BY <1>2, <1>3
<1>5. s = t
  BY <1>2, <1>3, <1>4, SeqEqual
<1> QED
  BY <1>1, <1>5

LEMMA TupleConcat4 ==
  ASSUME NEW S, NEW x \in S, NEW y \in S, NEW z \in S, NEW w \in S
  PROVE  <<x, y, z>> \o <<w>> = <<x, y, z, w>>
<1>1. PICK s, t : s = <<x, y, z>> \o <<w>> /\ t = <<x, y, z, w>>
  OBVIOUS
<1>2. s \in Seq(S) /\ Len(s) = 4 /\ s[1] = x /\ s[2] = y /\ s[3] = z /\ s[4] = w
  BY <1>1
<1>3. t \in Seq(S) /\ Len(t) = 4 /\ t[1] = x /\ t[2] = y /\ t[3] = z /\ t[4] = w
  BY <1>1
<1>4. \A i \in 1 .. Len(s) : s[i] = t[i]
  BY <1>2, <1>3
<1>5. s = t
  BY <1>2, <1>3, <1>4, SeqEqual
<1> QED
  BY <1>1, <1>5

LEMMA ParsesTwo ==
  ASSUME NEW k, NEW f \in PlainEntry, NEW x \in FieldSet, Reads(f, x),
         NEW g \in PlainEntry, NEW y \in FieldSet, Reads(g, y)
  PROVE  Parses(k, <<f, g>>, <<x, y>>)
<1>1. Parses(k, <<f>> \o <<g>>, <<x>> \o <<y>>)
  BY ParsesOne, ParsesConcat
<1>2. <<f>> \o <<g>> = <<f, g>>
  BY TupleConcat2
<1>3. <<x>> \o <<y>> = <<x, y>>
  BY TupleConcat2
<1> QED
  BY <1>1, <1>2, <1>3

LEMMA ParsesThree ==
  ASSUME NEW k, NEW f \in PlainEntry, NEW x \in FieldSet, Reads(f, x),
         NEW g \in PlainEntry, NEW y \in FieldSet, Reads(g, y),
         NEW h \in PlainEntry, NEW z \in FieldSet, Reads(h, z)
  PROVE  Parses(k, <<f, g, h>>, <<x, y, z>>)
<1>1. Parses(k, <<f, g>> \o <<h>>, <<x, y>> \o <<z>>)
  BY ParsesOne, ParsesTwo, ParsesConcat
<1>2. <<f, g>> \o <<h>> = <<f, g, h>>
  BY TupleConcat3
<1>3. <<x, y>> \o <<z>> = <<x, y, z>>
  BY TupleConcat3
<1> QED
  BY <1>1, <1>2, <1>3

LEMMA ParsesFour ==
  ASSUME NEW k, NEW f \in PlainEntry, NEW x \in FieldSet, Reads(f, x),
         NEW g \in PlainEntry, NEW y \in FieldSet, Reads(g, y),
         NEW h \in PlainEntry, NEW z \in FieldSet, Reads(h, z),
         NEW e \in PlainEntry, NEW w \in FieldSet, Reads(e, w)
  PROVE  Parses(k, <<f, g, h, e>>, <<x, y, z, w>>)
<1>1. Parses(k, <<f, g, h>> \o <<e>>, <<x, y, z>> \o <<w>>)
  BY ParsesOne, ParsesThree, ParsesConcat
<1>2. <<f, g, h>> \o <<e>> = <<f, g, h, e>>
  <2>1. \A a, b, c, d \in PlainEntry : <<a, b, c>> \o <<d>> = <<a, b, c, d>>
    BY TupleConcat4, Zenon
  <2> QED
    BY <2>1, Zenon
<1>3. <<x, y, z>> \o <<w>> = <<x, y, z, w>>
  <2>1. \A a, b, c, d \in FieldSet : <<a, b, c>> \o <<d>> = <<a, b, c, d>>
    BY TupleConcat4, Zenon
  <2> QED
    BY <2>1, Zenon
<1> QED
  BY <1>1, <1>2, <1>3

\* The fields that are read, by their form.
LEMMA ReadForms ==
  /\ \A v \in Byte : Reads("byte", R!F8(v))
  /\ Reads("int16", R!F16(0))
  /\ \A v \in Int32 : Reads("int32", R!F32(v)) /\ (v >= 0 => Reads("status", R!F32(v)))
  /\ Reads("bytes8", R!Raw(8)) /\ Reads("bytes20", R!Raw(20))
  /\ \A s \in R!Strings : Reads("string", s)
  /\ \A s \in R!Values : Reads("value", s)
<1>0. \A x : Same(x, x)
  BY DEF Same
<1>1. \A v \in Byte : Reads("byte", R!F8(v))
  BY <1>0, FieldTypes, ReadsByte
<1>2. Reads("int16", R!F16(0))
  BY <1>0, FieldTypes, ReadsInt16
<1>3. ASSUME NEW v \in Int32 PROVE Reads("int32", R!F32(v)) /\ (v >= 0 => Reads("status", R!F32(v)))
  <2>1. R!F32(v) \in FieldSet
    BY Int32Integers, FieldTypes
  <2>2. "int32" \in FourBytes /\ "status" \in FourBytes /\ "int32" # "status"
    BY DEF FourBytes
  <2> QED
    BY <1>0, <2>1, <2>2, ReadsInt32
<1>4. Reads("bytes8", R!Raw(8)) /\ Reads("bytes20", R!Raw(20))
  BY <1>0, FieldTypes, ReadsRaw
<1>5. \A s \in R!Strings : Reads("string", s)
  BY <1>0, FieldTypes, ReadsSized
<1>6. \A s \in R!Values : Reads("value", s)
  BY <1>0, FieldTypes, ReadsSized
<1> QED
  BY <1>1, <1>2, <1>3, <1>4, <1>5, <1>6

LEMMA ParsesType ==
  ASSUME NEW k, NEW t \in R!Types
  PROVE  Parses(k, <<"type">>, t)
<1>1. 2 \in Byte /\ 132 \in Byte
  BY DEF Byte
<1>2. R!F8(2) \in FieldSet /\ R!F8(132) \in FieldSet
  BY <1>1, FieldTypes
<1>3. Reads("type", R!F8(2)) /\ Reads("type", R!F8(132)) /\ R!F8(2).v = 2 /\ R!F8(132).v = 132
  <2>1. \A x : Same(x, x)
    BY DEF Same
  <2> QED
    BY <1>1, <1>2, <2>1, ReadsByte
<1>4. "type" \in Entry \ Loose /\ <<>> \in Plans /\ <<"byte">> \in Plans /\ <<>> \in Fields
  BY DEF Loose, Plans, Fields, Entry
<1>5. \A v, left : ~R!Refuses("type", v, left)
  BY DEF R!Refuses
<1>6. \A left : R!Items(k, "type", 2, left) = <<>> /\ R!Items(k, "type", 132, left) = <<"byte">>
  BY DEF R!Items
<1>7. CASE t = <<R!F8(2)>>
  <2>1. Parses(k, <<>> \o <<>>, <<>>)
    <3>1. <<>> \o <<>> = <<>>
      OBVIOUS
    <3> QED
      BY <3>1, ParsesEmpty
  <2>2. \A more \in Nat : /\ ~R!Refuses("type", R!F8(2).v, Len(BytesOf(<<>>)) + more)
                          /\ R!Items(k, "type", R!F8(2).v, Len(BytesOf(<<>>)) + more) = <<>>
    BY <1>3, <1>5, <1>6
  <2>3. Parses(k, <<"type">> \o <<>>, <<R!F8(2)>> \o <<>>)
    BY <1>2, <1>3, <1>4, <2>1, <2>2, ParsesCons
  <2>4. <<"type">> \o <<>> = <<"type">> /\ <<R!F8(2)>> \o <<>> = <<R!F8(2)>>
    OBVIOUS
  <2> QED
    BY <1>7, <2>3, <2>4
<1>8. CASE t = <<R!F8(132), R!F8(2)>>
  <2>1. Parses(k, <<"byte">> \o <<>>, <<R!F8(2)>>)
    <3>1. "byte" \in PlainEntry /\ Reads("byte", R!F8(2)) /\ <<"byte">> \o <<>> = <<"byte">>
      BY <1>1, ReadForms DEF PlainEntry
    <3> QED
      BY <1>2, <3>1, ParsesOne
  <2>2. PICK fs \in Fields : fs = <<R!F8(2)>>
    BY <1>2, SomeFields
  <2>3. \A more \in Nat : /\ ~R!Refuses("type", R!F8(132).v, Len(BytesOf(fs)) + more)
                          /\ R!Items(k, "type", R!F8(132).v, Len(BytesOf(fs)) + more) = <<"byte">>
    BY <1>3, <1>5, <1>6
  <2>4. Parses(k, <<"byte">> \o <<>>, fs)
    BY <2>1, <2>2
  <2>5. Parses(k, <<"type">> \o <<>>, <<R!F8(132)>> \o fs)
    BY <1>2, <1>3, <1>4, <2>3, <2>4, ParsesCons
  <2>6. <<"type">> \o <<>> = <<"type">>
    OBVIOUS
  <2>7. <<R!F8(132)>> \o fs = <<R!F8(132), R!F8(2)>>
    BY <1>2, <2>2, TupleConcat2
  <2> QED
    BY <1>8, <2>5, <2>6, <2>7
<1> QED
  BY <1>7, <1>8 DEF R!Types

LEMMA SmallInts ==
  /\ 0 \in Int32 /\ 1 \in Int32 /\ 2 \in Int32 /\ 3 \in Int32 /\ 5 \in Int32 /\ 9 \in Int32
  /\ 77 \in Int32 /\ -1 \in Int32 /\ -493 \in Int32 /\ -670 \in Int32
  /\ 0 \in Byte /\ 1 \in Byte /\ 2 \in Byte /\ 20 \in Byte /\ 21 \in Byte /\ 132 \in Byte
<1>1. \A v \in {0, 1, 2, 3, 5, 9, 77, -1, -493, -670} : v \in -1000 .. 1000
  OBVIOUS
<1>2. \A v \in -1000 .. 1000 : v \in Int32
  BY Int32Members
<1>3. \A v \in {0, 1, 2, 3, 5, 9, 77, -1, -493, -670} : v \in Int32
  BY <1>1, <1>2
<1>4. 0 \in Byte /\ 1 \in Byte /\ 2 \in Byte /\ 20 \in Byte /\ 21 \in Byte /\ 132 \in Byte
  BY DEF Byte
<1> QED
  BY <1>3, <1>4

\* The fields of the replies, and the entries that read them.
LEMMA SentFields ==
  /\ R!F8(0) \in FieldSet /\ Reads("byte", R!F8(0))
  /\ R!F8(20) \in FieldSet /\ Reads("byte", R!F8(20))
  /\ R!F8(21) \in FieldSet /\ Reads("byte", R!F8(21))
  /\ R!F16(0) \in FieldSet /\ Reads("int16", R!F16(0))
  /\ R!F32(0) \in FieldSet /\ Reads("int32", R!F32(0)) /\ Reads("status", R!F32(0))
  /\ R!F32(1) \in FieldSet /\ Reads("int32", R!F32(1))
  /\ R!F32(2) \in FieldSet /\ Reads("int32", R!F32(2))
  /\ R!F32(-670) \in FieldSet /\ Reads("int32", R!F32(-670))
  /\ R!Raw(8) \in FieldSet /\ Reads("bytes8", R!Raw(8))
  /\ R!Raw(20) \in FieldSet /\ Reads("bytes20", R!Raw(20))
  /\ R!NoString \in FieldSet /\ R!NoString \in R!Strings /\ Reads("string", R!NoString)
<1>1. \A v \in Byte : R!F8(v) \in FieldSet /\ Reads("byte", R!F8(v))
  BY FieldTypes, ReadForms
<1>2. ASSUME NEW v \in Int32
      PROVE  R!F32(v) \in FieldSet /\ Reads("int32", R!F32(v)) /\ (v >= 0 => Reads("status", R!F32(v)))
  <2>1. v \in Int
    BY Int32Integers
  <2> QED
    BY <2>1, FieldTypes, ReadForms
<1>3. R!NoString \in R!Strings
  BY DEF R!NoString, R!Strings
<1>4. R!F8(0) \in FieldSet /\ Reads("byte", R!F8(0)) /\ R!F8(20) \in FieldSet
      /\ Reads("byte", R!F8(20)) /\ R!F8(21) \in FieldSet /\ Reads("byte", R!F8(21))
  BY <1>1, SmallInts
<1>5. 0 >= 0
  OBVIOUS
<1>6. /\ R!F32(0) \in FieldSet /\ Reads("int32", R!F32(0)) /\ Reads("status", R!F32(0))
      /\ R!F32(1) \in FieldSet /\ Reads("int32", R!F32(1))
      /\ R!F32(2) \in FieldSet /\ Reads("int32", R!F32(2))
      /\ R!F32(-670) \in FieldSet /\ Reads("int32", R!F32(-670))
  BY <1>2, <1>5, SmallInts
<1> QED
  BY <1>3, <1>4, <1>6, FieldTypes, ReadForms

PlainNames ==
  /\ "status" \in PlainEntry /\ "byte" \in PlainEntry /\ "int16" \in PlainEntry
  /\ "int32" \in PlainEntry /\ "string" \in PlainEntry /\ "value" \in PlainEntry
  /\ "bytes8" \in PlainEntry /\ "bytes20" \in PlainEntry

LEMMA PlainNamesAre == PlainNames
  BY DEF PlainNames, PlainEntry

LEMMA ParsesSchemaColumn ==
  ASSUME NEW k, NEW t \in R!Types, NEW s \in R!Strings
  PROVE  Parses(k, R!SchemaColumnPlan, R!SchemaColumn(t, s))
<1>1. Parses(k, <<"type">>, t)
  BY ParsesType
<1>2. s \in FieldSet /\ Reads("string", s)
  BY FieldTypes, ReadForms
<1>3. Parses(k, <<"int16", "int32", "string">>, <<R!F16(0), R!F32(1), s>>)
  BY <1>2, SentFields, PlainNamesAre, ParsesThree DEF PlainNames
<1>4. Parses(k, <<"type">> \o <<"int16", "int32", "string">>, t \o <<R!F16(0), R!F32(1), s>>)
  BY <1>1, <1>3, ParsesConcat
<1>5. R!SchemaColumnPlan = <<"type">> \o <<"int16", "int32", "string">>
  BY DEF R!SchemaColumnPlan
<1> QED
  BY <1>4, <1>5 DEF R!SchemaColumn

LEMMA TupleCons3 ==
  ASSUME NEW S, NEW x \in S, NEW y \in S, NEW z \in S
  PROVE  <<x>> \o <<y, z>> = <<x, y, z>>
<1>1. PICK s, t : s = <<x>> \o <<y, z>> /\ t = <<x, y, z>>
  OBVIOUS
<1>2. s \in Seq(S) /\ Len(s) = 3 /\ s[1] = x /\ s[2] = y /\ s[3] = z
  BY <1>1
<1>3. t \in Seq(S) /\ Len(t) = 3 /\ t[1] = x /\ t[2] = y /\ t[3] = z
  BY <1>1
<1>4. \A i \in 1 .. Len(s) : s[i] = t[i]
  BY <1>2, <1>3
<1>5. s = t
  BY <1>2, <1>3, <1>4, SeqEqual
<1> QED
  BY <1>1, <1>5

LEMMA TupleCons4 ==
  ASSUME NEW S, NEW x \in S, NEW y \in S, NEW z \in S, NEW w \in S
  PROVE  <<x>> \o <<y, z, w>> = <<x, y, z, w>>
<1>1. PICK s, t : s = <<x>> \o <<y, z, w>> /\ t = <<x, y, z, w>>
  OBVIOUS
<1>2. s \in Seq(S) /\ Len(s) = 4 /\ s[1] = x /\ s[2] = y /\ s[3] = z /\ s[4] = w
  BY <1>1
<1>3. t \in Seq(S) /\ Len(t) = 4 /\ t[1] = x /\ t[2] = y /\ t[3] = z /\ t[4] = w
  BY <1>1
<1>4. \A i \in 1 .. Len(s) : s[i] = t[i]
  BY <1>2, <1>3
<1>5. s = t
  BY <1>2, <1>3, <1>4, SeqEqual
<1> QED
  BY <1>1, <1>5

\* The length of what is sent.
Width(fs) == Len(BytesOf(fs))

LEMMA WidthConcat ==
  ASSUME NEW fs \in Fields, NEW gs \in Fields
  PROVE  fs \o gs \in Fields /\ Width(fs \o gs) = Width(fs) + Width(gs) /\ Width(fs) \in Nat
<1>1. PICK a \in Seq(Byte), b \in Seq(Byte) : a = BytesOf(fs) /\ b = BytesOf(gs)
  BY BytesOfType
<1>2. Len(a \o b) = Len(a) + Len(b) /\ Len(a) \in Nat
  BY ConcatProperties
<1>3. BytesOf(fs \o gs) = a \o b /\ fs \o gs \in Fields
  BY <1>1, BytesOfConcat
<1> QED
  BY <1>1, <1>2, <1>3, Zenon DEF Width

LEMMA WidthOne ==
  ASSUME NEW x \in FieldSet
  PROVE  Width(<<x>>) = Len(x.b)
  BY BytesOfOne DEF Width

LEMMA SizedWidth ==
  ASSUME NEW s \in R!Strings \cup R!Values
  PROVE  Len(s.b) \in Nat /\ 4 <= Len(s.b)
<1>1. CASE \E n \in {0, 1, 2} : \E c \in Seq(Byte) : s.b = R!Bytes4(n) \o c
  <2>1. PICK n \in {0, 1, 2} : \E c \in Seq(Byte) : s.b = R!Bytes4(n) \o c
    BY <1>1
  <2>2. PICK c \in Seq(Byte) : s.b = R!Bytes4(n) \o c
    BY <2>1
  <2>3. n \in Int
    BY <2>1
  <2>4. PICK a \in Seq(Byte) : a = R!Bytes4(n) /\ Len(a) = 4
    BY <2>3, NumberBytes
  <2>5. Len(a \o c) = Len(a) + Len(c) /\ Len(c) \in Nat
    BY ConcatProperties
  <2> QED
    BY <2>2, <2>4, <2>5
<1>2. CASE s.b = R!Bytes4(-1)
  <2>1. -1 \in Int
    OBVIOUS
  <2>2. Len(s.b) = 4
    BY <1>2, <2>1, NumberBytes, Zenon
  <2>3. 4 \in Nat /\ 4 <= 4
    OBVIOUS
  <2> QED
    BY <2>2, <2>3, Zenon
<1>3. s \in R!Strings => \E n \in {0, 1, 2} : \E c \in Seq(Byte) : s.b = R!Bytes4(n) \o c
  BY SizedForms
<1>4. s \in R!Values =>
        s.b = R!Bytes4(-1) \/ \E n \in {0, 1, 2} : \E c \in Seq(Byte) : s.b = R!Bytes4(n) \o c
  BY SizedForms
<1> QED
  BY <1>1, <1>2, <1>3, <1>4

LEMMA RawWidth == Len(R!Raw(8).b) = 8
<1>1. PICK b : b = [i \in 1 .. 8 |-> 7]
  OBVIOUS
<1>2. R!Raw(8).b = b
  BY <1>1 DEF R!Raw, R!F
<1>3. Len(b) = 8
  BY <1>1
<1> QED
  BY <1>2, <1>3

LEMMA FieldWidths ==
  /\ \A v \in Byte : Len(R!F8(v).b) = 1
  /\ \A v \in Int : Len(R!F16(v).b) = 2 /\ Len(R!F32(v).b) = 4
  /\ Len(R!Raw(8).b) = 8
<1>1. ASSUME NEW v \in Byte PROVE Len(R!F8(v).b) = 1
  <2>1. R!F8(v).b = <<v>>
    BY DEF R!F8, R!F
  <2>2. Len(<<v>>) = 1
    OBVIOUS
  <2> QED
    BY <2>1, <2>2, Zenon
<1>2. ASSUME NEW v \in Int PROVE Len(R!F16(v).b) = 2 /\ Len(R!F32(v).b) = 4
  BY NumberBytes DEF R!F16, R!F32, R!F
<1> QED
  BY <1>1, <1>2, RawWidth

LEMMA ParsesBytes ==
  ASSUME NEW k, NEW n \in Nat
  PROVE  /\ Parses(k, [i \in 1 .. n |-> "byte"], [i \in 1 .. n |-> R!F8(0)])
         /\ Len(BytesOf([i \in 1 .. n |-> R!F8(0)])) = n
<1> DEFINE T == {m \in Nat : /\ Parses(k, [i \in 1 .. m |-> "byte"], [i \in 1 .. m |-> R!F8(0)])
                             /\ Len(BytesOf([i \in 1 .. m |-> R!F8(0)])) = m}
<1>1. 0 \in T
  <2>1. [i \in 1 .. 0 |-> "byte"] = <<>> /\ [i \in 1 .. 0 |-> R!F8(0)] = <<>>
    OBVIOUS
  <2>2. Len(BytesOf(<<>>)) = 0
    BY BytesOfEmpty
  <2> QED
    BY <2>1, <2>2, ParsesEmpty
<1>2. ASSUME NEW m \in Nat, 0 <= m, m \in T PROVE m + 1 \in T
  <2>1. Parses(k, <<"byte">>, <<R!F8(0)>>)
    BY SentFields, PlainNamesAre, ParsesOne DEF PlainNames
  <2>2. PICK p \in Plans, fs \in Fields : p = [i \in 1 .. m |-> "byte"] /\ fs = [i \in 1 .. m |-> R!F8(0)]
    BY <1>2 DEF Parses
  <2>3. Parses(k, p \o <<"byte">>, fs \o <<R!F8(0)>>)
    BY <1>2, <2>1, <2>2, ParsesConcat
  <2>4. p \o <<"byte">> = [i \in 1 .. m + 1 |-> "byte"]
    BY <2>2 DEF Plans
  <2>5. fs \o <<R!F8(0)>> = [i \in 1 .. m + 1 |-> R!F8(0)]
    BY <2>2 DEF Fields
  <2>6. m + 1 \in Nat
    OBVIOUS
  <2>7. Parses(k, [i \in 1 .. m + 1 |-> "byte"], [i \in 1 .. m + 1 |-> R!F8(0)])
    BY <2>3, <2>4, <2>5, Zenon
  <2>8. R!F8(0) \in FieldSet /\ <<R!F8(0)>> \in Fields /\ Len(R!F8(0).b) = 1
    BY SentFields, SomeFields DEF R!F8, R!F
  <2>9. Len(BytesOf(fs \o <<R!F8(0)>>)) = m + 1
    <3>1. Width(fs) = m /\ Width(<<R!F8(0)>>) = 1
      BY <1>2, <2>2, <2>8, WidthOne DEF Width
    <3>2. Width(fs \o <<R!F8(0)>>) = Width(fs) + Width(<<R!F8(0)>>)
      BY <2>8, WidthConcat
    <3> QED
      BY <3>1, <3>2 DEF Width
  <2>10. Len(BytesOf([i \in 1 .. m + 1 |-> R!F8(0)])) = m + 1
    BY <2>5, <2>9, Zenon
  <2> QED
    BY <2>6, <2>7, <2>10, Zenon
<1>3. \A m \in Nat : 0 <= m => m \in T
  <2> HIDE DEF T
  <2>1. 0 \in Nat
    OBVIOUS
  <2> QED
    BY <1>1, <1>2, <2>1, SetInduction, Zenon
<1>4. 0 <= n
  OBVIOUS
<1> QED
  BY <1>3, <1>4

LEMMA ParsesPrepareColumn ==
  ASSUME NEW k, NEW t \in R!Types, NEW s \in R!Strings
  PROVE  Parses(k, R!ColumnPlan, R!PrepareColumn(t, s))
<1>1. s \in FieldSet /\ Reads("string", s)
  BY FieldTypes, ReadForms
<1>2. Parses(k, <<"string", "string", "byte", "string">>, <<R!NoString, s, R!F8(0), R!NoString>>)
  BY <1>1, SentFields, PlainNamesAre, ParsesFour DEF PlainNames
<1>3. Parses(k, R!SchemaColumnPlan \o <<"string", "string", "byte", "string">>,
             R!SchemaColumn(t, s) \o <<R!NoString, s, R!F8(0), R!NoString>>)
  BY <1>2, ParsesSchemaColumn, ParsesConcat
<1>4. 7 \in Nat
  OBVIOUS
<1>5. Parses(k, [i \in 1 .. 7 |-> "byte"], [i \in 1 .. 7 |-> R!F8(0)])
  BY <1>4, ParsesBytes
<1> QED
  BY <1>3, <1>5, ParsesConcat DEF R!ColumnPlan, R!PrepareColumn

LEMMA ParsesTuple ==
  ASSUME NEW k, NEW i \in Int32, NEW s \in R!Values
  PROVE  Parses(k, R!TuplePlan, R!Tuple(i, s))
<1>1. s \in FieldSet /\ Reads("value", s) /\ R!F32(i) \in FieldSet /\ Reads("int32", R!F32(i))
  BY FieldTypes, ReadForms, Int32Integers
<1> QED
  BY <1>1, SentFields, PlainNamesAre, ParsesThree DEF PlainNames, R!TuplePlan, R!Tuple

LEMMA TupleConcat5 ==
  ASSUME NEW S, NEW x \in S, NEW y \in S, NEW z \in S, NEW w \in S, NEW u \in S
  PROVE  <<x, y, z, w>> \o <<u>> = <<x, y, z, w, u>>
<1>1. PICK s, t : s = <<x, y, z, w>> \o <<u>> /\ t = <<x, y, z, w, u>>
  OBVIOUS
<1>2. s \in Seq(S) /\ Len(s) = 5 /\ s[1] = x /\ s[2] = y /\ s[3] = z /\ s[4] = w /\ s[5] = u
  BY <1>1
<1>3. t \in Seq(S) /\ Len(t) = 5 /\ t[1] = x /\ t[2] = y /\ t[3] = z /\ t[4] = w /\ t[5] = u
  BY <1>1
<1>4. \A i \in 1 .. Len(s) : s[i] = t[i]
  BY <1>2, <1>3
<1>5. s = t
  BY <1>2, <1>3, <1>4, SeqEqual
<1> QED
  BY <1>1, <1>5

LEMMA ParsesFive ==
  ASSUME NEW k, NEW f \in PlainEntry, NEW x \in FieldSet, Reads(f, x),
         NEW g \in PlainEntry, NEW y \in FieldSet, Reads(g, y),
         NEW h \in PlainEntry, NEW z \in FieldSet, Reads(h, z),
         NEW e \in PlainEntry, NEW w \in FieldSet, Reads(e, w),
         NEW d \in PlainEntry, NEW u \in FieldSet, Reads(d, u)
  PROVE  Parses(k, <<f, g, h, e, d>>, <<x, y, z, w, u>>)
<1>1. Parses(k, <<f, g, h, e>>, <<x, y, z, w>>)
  BY ParsesFour
<1>2. Parses(k, <<d>>, <<u>>)
  BY ParsesOne
<1>3. Parses(k, <<f, g, h, e>> \o <<d>>, <<x, y, z, w>> \o <<u>>)
  BY <1>1, <1>2, ParsesConcat
<1>4. <<f, g, h, e>> \o <<d>> = <<f, g, h, e, d>>
  BY TupleConcat5
<1>5. <<x, y, z, w>> \o <<u>> = <<x, y, z, w, u>>
  BY TupleConcat5
<1> QED
  BY <1>3, <1>4, <1>5

ResultPlan == <<"byte", "int32", "bytes8", "int32", "int32">>

LEMMA ParsesResultInfo ==
  ASSUME NEW k
  PROVE  Parses(k, ResultPlan, R!ResultInfo)
<1>1. "byte" \in PlainEntry /\ "int32" \in PlainEntry /\ "bytes8" \in PlainEntry
  BY PlainNamesAre DEF PlainNames
<1> QED
  BY <1>1, SentFields, ParsesFive DEF ResultPlan, R!ResultInfo

\* An entry and the items that its value has.
LEMMA ParsesEntry ==
  ASSUME NEW k, NEW f \in Entry \ Loose, NEW x \in FieldSet, Reads(f, x),
         NEW its, NEW fs,
         \A more \in Nat : /\ ~R!Refuses(f, x.v, Len(BytesOf(fs)) + more)
                           /\ R!Items(k, f, x.v, Len(BytesOf(fs)) + more) = its,
         Parses(k, its, fs)
  PROVE  Parses(k, <<f>>, <<x>> \o fs)
<1>1. its \in Plans /\ fs \in Fields /\ <<>> \in Plans
  BY DEF Parses, Plans
<1>2. its \o <<>> = its
  BY <1>1, ConcatEmptySeq DEF Plans
<1>3. Parses(k, its \o <<>>, fs)
  BY <1>2
<1>4. Parses(k, <<f>> \o <<>>, <<x>> \o fs)
  BY <1>1, <1>3, ParsesCons
<1>5. <<f>> \o <<>> = <<f>>
  OBVIOUS
<1> QED
  BY <1>4, <1>5

LEMMA ParsesResult ==
  ASSUME NEW k, NEW item \in BatchItems
  PROVE  Parses(k, <<"result">>, item)
<1>1. "result" \in FourBytes /\ "result" # "status" /\ "result" \in Entry \ Loose
  BY DEF FourBytes, Entry, Loose
<1>2. ASSUME NEW v \in Int32
      PROVE  R!F32(v) \in FieldSet /\ Reads("result", R!F32(v)) /\ R!F32(v).v = v
  <2>1. R!F32(v) \in FieldSet /\ Same(R!F32(v), R!F32(v))
    BY FieldTypes, Int32Integers DEF Same
  <2> QED
    BY <1>1, <2>1, ReadsInt32
<1>3. \A v, left : ~R!Refuses("result", v, left)
  BY DEF R!Refuses
<1>4. \A v, left : R!Items(k, "result", v, left)
                     = IF v < 0 THEN <<"int32", "string">> ELSE <<"int32", "int16", "int16">>
  BY DEF R!Items
<1>5. CASE \E n \in {0, 2} : item = R!BatchOk(n)
  <2>1. PICK n \in {0, 2} : item = R!BatchOk(n)
    BY <1>5
  <2>2. n \in Int32 /\ n >= 0
    BY <2>1, SmallInts
  <2>3. PICK fs : fs = <<R!F32(0), R!F16(0), R!F16(0)>>
    OBVIOUS
  <2>4. Parses(k, <<"int32", "int16", "int16">>, fs)
    BY <2>3, SentFields, PlainNamesAre, ParsesThree DEF PlainNames
  <2>5. \A more \in Nat :
          /\ ~R!Refuses("result", R!F32(n).v, Len(BytesOf(fs)) + more)
          /\ R!Items(k, "result", R!F32(n).v, Len(BytesOf(fs)) + more) = <<"int32", "int16", "int16">>
    <3>1. R!F32(n).v = n
      BY <1>2, <2>2
    <3>2. ~(n < 0)
      BY <2>2
    <3> QED
      BY <1>3, <1>4, <3>1, <3>2, Zenon
  <2>6. Parses(k, <<"result">>, <<R!F32(n)>> \o fs)
    BY <1>1, <1>2, <2>2, <2>4, <2>5, ParsesEntry
  <2>7. <<R!F32(n)>> \o fs = item
    <3>1. R!F32(n) \in FieldSet /\ R!F32(0) \in FieldSet /\ R!F16(0) \in FieldSet
      BY <1>2, <2>2, SentFields
    <3>2. \A x, y, z, w \in FieldSet : <<x>> \o <<y, z, w>> = <<x, y, z, w>>
      BY TupleCons4, Zenon
    <3> QED
      BY <2>1, <2>3, <3>1, <3>2, Zenon DEF R!BatchOk
  <2> QED
    BY <2>6, <2>7
<1>6. CASE \E s \in R!Strings : item = R!BatchErr(s)
  <2>1. PICK s \in R!Strings : item = R!BatchErr(s)
    BY <1>6
  <2>2. s \in FieldSet /\ Reads("string", s) /\ -1 \in Int32 /\ -1 < 0
    BY FieldTypes, ReadForms, SmallInts
  <2>3. PICK fs : fs = <<R!F32(-670), s>>
    OBVIOUS
  <2>4. Parses(k, <<"int32", "string">>, fs)
    BY <2>2, <2>3, SentFields, PlainNamesAre, ParsesTwo DEF PlainNames
  <2>5. \A more \in Nat :
          /\ ~R!Refuses("result", R!F32(-1).v, Len(BytesOf(fs)) + more)
          /\ R!Items(k, "result", R!F32(-1).v, Len(BytesOf(fs)) + more) = <<"int32", "string">>
    <3>1. R!F32(-1).v = -1
      BY <1>2, <2>2
    <3> QED
      BY <1>3, <1>4, <2>2, <3>1, Zenon
  <2>6. Parses(k, <<"result">>, <<R!F32(-1)>> \o fs)
    BY <1>1, <1>2, <2>2, <2>4, <2>5, ParsesEntry
  <2>7. <<R!F32(-1)>> \o fs = item
    <3>1. PICK a \in FieldSet, b \in FieldSet : a = R!F32(-1) /\ b = R!F32(-670)
      BY <1>2, <2>2, SentFields
    <3>2. \A x, y, z \in FieldSet : <<x>> \o <<y, z>> = <<x, y, z>>
      BY TupleCons3, Zenon
    <3>3. fs = <<b, s>> /\ item = <<a, b, s>>
      BY <2>1, <2>3, <3>1 DEF R!BatchErr
    <3>4. <<a>> \o <<b, s>> = <<a, b, s>>
      BY <2>2, <3>2, Zenon
    <3> QED
      BY <3>1, <3>3, <3>4
  <2> QED
    BY <2>6, <2>7
<1> QED
  BY <1>5, <1>6 DEF BatchItems

Copies(n, p) == [i \in 1 .. n |-> p]

LEMMA CopiesFacts ==
  ASSUME NEW S, NEW p \in Seq(S), NEW n \in Nat
  PROVE  /\ Copies(n, p) \in Seq(Seq(S)) /\ Len(Copies(n, p)) = n
         /\ Copies(n + 1, p) = Append(Copies(n, p), p)
         /\ Copies(0, p) = <<>>
<1>1. Copies(n, p) \in Seq(Seq(S)) /\ Len(Copies(n, p)) = n
  BY DEF Copies
<1>2. Copies(n + 1, p) = Append(Copies(n, p), p)
  BY DEF Copies
<1>3. Copies(0, p) = <<>>
  BY DEF Copies
<1> QED
  BY <1>1, <1>2, <1>3

\* Items of one plan, each of at least c bytes.
LEMMA ParsesCopies ==
  ASSUME NEW k, NEW p \in Plans, NEW c \in Nat, NEW items \in Seq(Fields),
         \A i \in 1 .. Len(items) : Parses(k, p, items[i]) /\ Width(items[i]) >= c
  PROVE  /\ Parses(k, R!FlattenSeq(Copies(Len(items), p)), R!FlattenSeq(items))
         /\ Width(R!FlattenSeq(items)) >= c * Len(items)
         /\ R!FlattenSeq(items) \in Fields
<1> DEFINE OK(s) == /\ Parses(k, R!FlattenSeq(Copies(Len(s), p)), R!FlattenSeq(s))
                    /\ Width(R!FlattenSeq(s)) >= c * Len(s)
           Each(s) == \A i \in 1 .. Len(s) : Parses(k, p, s[i]) /\ Width(s[i]) >= c
           T == {m \in Nat : \A s \in Seq(Fields) : Len(s) = m /\ Each(s) => OK(s)}
<1>1. 0 \in T
  <2>1. ASSUME NEW s \in Seq(Fields), Len(s) = 0 PROVE OK(s)
    <3>1. s = <<>>
      BY <2>1, EmptySeq
    <3>2. Copies(Len(s), p) = <<>>
      BY <2>1 DEF Copies
    <3>3. Parses(k, R!FlattenSeq(Copies(Len(s), p)), R!FlattenSeq(s))
      BY <3>1, <3>2, FlattenEmpty, ParsesEmpty
    <3>4. Width(R!FlattenSeq(s)) = 0
      BY <3>1, FlattenEmpty, BytesOfEmpty DEF Width
    <3>5. c * Len(s) = 0
      BY <2>1
    <3> QED
      BY <3>3, <3>4, <3>5
  <2> HIDE DEF OK, Each
  <2> QED
    BY <2>1
<1>2. ASSUME NEW m \in Nat, 0 <= m, m \in T PROVE m + 1 \in T
  <2>1. ASSUME NEW s \in Seq(Fields), Len(s) = m + 1, Each(s) PROVE OK(s)
    <3>1. PICK a \in Seq(Fields), x \in Fields :
            /\ s = Append(a, x) /\ Len(a) = m /\ x = s[m + 1]
            /\ \A i \in 1 .. m : a[i] = s[i]
      <4> DEFINE a == [i \in 1 .. m |-> s[i]]
      <4>1. a \in Seq(Fields) /\ Len(a) = m /\ \A i \in 1 .. m : a[i] = s[i]
        BY <2>1
      <4>2. s[m + 1] \in Fields
        BY <2>1
      <4>3. s = Append(a, s[m + 1])
        BY <2>1
      <4> HIDE DEF a
      <4> QED
        BY <4>1, <4>2, <4>3
    <3>2. Each(a) /\ Parses(k, p, x) /\ Width(x) >= c
      <4>1. m + 1 \in 1 .. Len(s) /\ \A i \in 1 .. m : i \in 1 .. Len(s)
        BY <2>1
      <4>2. \A i \in 1 .. m : Parses(k, p, a[i]) /\ Width(a[i]) >= c
        BY <2>1, <3>1, <4>1
      <4> QED
        BY <2>1, <3>1, <4>1, <4>2
    <3>3. OK(a)
      <4> HIDE DEF OK, Each
      <4> QED
        BY <1>2, <3>1, <3>2
    <3>4. R!FlattenSeq(s) = R!FlattenSeq(a) \o x
      BY <3>1, FlattenAppend DEF Fields
    <3>5. R!FlattenSeq(Copies(Len(s), p)) = R!FlattenSeq(Copies(m, p)) \o p
      <4>1. Copies(m, p) \in Seq(Plans) /\ Copies(m + 1, p) = Append(Copies(m, p), p)
        BY CopiesFacts DEF Plans
      <4> QED
        BY <2>1, <4>1, FlattenAppend DEF Plans
    <3>6. PICK q, fs : q = R!FlattenSeq(Copies(m, p)) /\ fs = R!FlattenSeq(a)
      OBVIOUS
    <3>7. Parses(k, q, fs) /\ Width(fs) >= c * m
      BY <3>1, <3>3, <3>6
    <3>8. Parses(k, q \o p, fs \o x)
      BY <3>2, <3>7, ParsesConcat
    <3>9. fs \in Fields
      BY <3>7 DEF Parses
    <3>10. Width(fs \o x) = Width(fs) + Width(x) /\ Width(fs) \in Nat /\ Width(x) \in Nat
      BY <3>9, WidthConcat
    <3>11. Width(fs \o x) >= c * (m + 1)
      <4>1. c * (m + 1) = c * m + c /\ c * m \in Nat
        OBVIOUS
      <4> QED
        BY <3>2, <3>7, <3>10, <4>1
    <3> QED
      BY <2>1, <3>4, <3>5, <3>6, <3>8, <3>11
  <2>2. m + 1 \in Nat
    OBVIOUS
  <2> HIDE DEF OK, Each
  <2> QED
    BY <2>1, <2>2
<1>3. \A m \in Nat : 0 <= m => m \in T
  <2> HIDE DEF T
  <2>1. 0 \in Nat
    OBVIOUS
  <2> QED
    BY <1>1, <1>2, <2>1, SetInduction, Zenon
<1>4. Len(items) \in Nat /\ 0 <= Len(items)
  OBVIOUS
<1>5. Len(items) \in T
  BY <1>3, <1>4
<1>6. Each(items)
  OBVIOUS
<1>7. OK(items)
  <2> HIDE DEF OK, Each
  <2> QED
    BY <1>5, <1>6
<1>8. R!FlattenSeq(items) \in Fields
  BY FlattenType DEF Fields
<1> QED
  BY <1>7, <1>8

LEMMA WidthTuples ==
  /\ \A x, y \in FieldSet : Width(<<x, y>>) = Len(x.b) + Len(y.b)
  /\ \A x, y, z \in FieldSet : Width(<<x, y, z>>) = Len(x.b) + Len(y.b) + Len(z.b)
<1>0. \A x \in FieldSet : Len(x.b) \in Nat
  BY DEF FieldSet
<1>1. ASSUME NEW x \in FieldSet, NEW y \in FieldSet PROVE Width(<<x, y>>) = Len(x.b) + Len(y.b)
  <2>1. PICK a \in Fields, b \in Fields : a = <<x>> /\ b = <<y>>
    BY SomeFields
  <2>2. Width(a \o b) = Width(a) + Width(b)
    BY WidthConcat
  <2>3. a \o b = <<x, y>>
    BY <2>1, TupleConcat2
  <2>4. Width(a) = Len(x.b) /\ Width(b) = Len(y.b)
    BY <2>1, WidthOne
  <2> QED
    BY <2>2, <2>3, <2>4
<1>2. ASSUME NEW x \in FieldSet, NEW y \in FieldSet, NEW z \in FieldSet
      PROVE  Width(<<x, y, z>>) = Len(x.b) + Len(y.b) + Len(z.b)
  <2>1. PICK a \in Fields, b \in Fields : a = <<x, y>> /\ b = <<z>>
    BY SomeFields
  <2>2. Width(a \o b) = Width(a) + Width(b)
    BY WidthConcat
  <2>3. a \o b = <<x, y, z>>
    BY <2>1, TupleConcat3
  <2>4. Width(a) = Len(x.b) + Len(y.b) /\ Width(b) = Len(z.b)
    BY <1>1, <2>1, WidthOne
  <2> QED
    BY <2>2, <2>3, <2>4
<1> QED
  BY <1>1, <1>2

WidthOfFour(x, y, z, w) == Width(<<x, y, z, w>>) = Len(x.b) + Len(y.b) + Len(z.b) + Len(w.b)

LEMMA WidthFour ==
  ASSUME NEW x \in FieldSet, NEW y \in FieldSet, NEW z \in FieldSet, NEW w \in FieldSet
  PROVE  WidthOfFour(x, y, z, w)
<1>1. PICK a \in Fields, b \in Fields : a = <<x, y, z>> /\ b = <<w>>
  BY SomeFields
<1>2. Width(a \o b) = Width(a) + Width(b)
  BY WidthConcat
<1>3. a \o b = <<x, y, z, w>>
  <2>1. \A e, f, g, h \in FieldSet : <<e, f, g>> \o <<h>> = <<e, f, g, h>>
    BY TupleConcat4, Zenon
  <2> QED
    BY <1>1, <2>1, Zenon
<1>4. Width(a) = Len(x.b) + Len(y.b) + Len(z.b) /\ Width(b) = Len(w.b)
  BY <1>1, WidthOne, WidthTuples
<1> QED
  BY <1>2, <1>3, <1>4 DEF WidthOfFour

\* The smallest items (minSchemaColumnWireBytes, minColumnWireBytes and
\* minBatchResultBytes).
LEMMA SchemaColumnWidth ==
  ASSUME NEW t \in R!Types, NEW s \in R!Strings
  PROVE  R!SchemaColumn(t, s) \in Fields /\ Width(R!SchemaColumn(t, s)) >= 11
<1>0. \A x \in FieldSet : Len(x.b) \in Nat
  BY DEF FieldSet
<1>1. 2 \in Byte /\ 132 \in Byte /\ 0 \in Int /\ 1 \in Int
  BY DEF Byte
<1>2. R!F8(2) \in FieldSet /\ R!F8(132) \in FieldSet /\ Len(R!F8(2).b) = 1 /\ Len(R!F8(132).b) = 1
  BY <1>1, FieldTypes, FieldWidths
<1>3. t \in Fields /\ Width(t) >= 1 /\ Width(t) \in Nat
  <2>1. CASE t = <<R!F8(2)>>
    <3>1. t \in Fields /\ Width(t) = 1
      <4>1. Width(<<R!F8(2)>>) = Len(R!F8(2).b) /\ <<R!F8(2)>> \in Fields
        BY <1>2, WidthOne, SomeFields
      <4> QED
        BY <1>2, <2>1, <4>1
    <3> QED
      BY <3>1
  <2>2. CASE t = <<R!F8(132), R!F8(2)>>
    <3>1. Width(t) = 1 + 1 /\ t \in Fields
      <4>1. /\ Width(<<R!F8(132), R!F8(2)>>) = Len(R!F8(132).b) + Len(R!F8(2).b)
            /\ <<R!F8(132), R!F8(2)>> \in Fields
        BY <1>2, SomeFields, WidthTuples
      <4> QED
        BY <1>2, <2>2, <4>1
    <3> QED
      BY <3>1
  <2> QED
    BY <2>1, <2>2 DEF R!Types
<1>4. PICK f \in FieldSet, g \in FieldSet : /\ f = R!F16(0) /\ g = R!F32(1)
                                            /\ Len(f.b) = 2 /\ Len(g.b) = 4
  BY <1>1, FieldTypes, FieldWidths
<1>5. s \in FieldSet /\ Len(s.b) \in Nat /\ Len(s.b) >= 4
  BY FieldTypes, SizedWidth
<1>6. PICK b \in Fields : b = <<f, g, s>>
  BY <1>5, SomeFields
<1>7. Width(b) = Len(f.b) + Len(g.b) + Len(s.b)
  BY <1>5, <1>6, WidthTuples
<1>8. t \o b \in Fields /\ Width(t \o b) = Width(t) + Width(b)
  BY <1>3, WidthConcat
<1>9. R!SchemaColumn(t, s) = t \o b
  BY <1>4, <1>6 DEF R!SchemaColumn
<1>10. Width(b) >= 10 /\ Width(b) \in Nat
  BY <1>4, <1>5, <1>7
<1> QED
  BY <1>3, <1>8, <1>9, <1>10

LEMMA PrepareColumnWidth ==
  ASSUME NEW t \in R!Types, NEW s \in R!Strings
  PROVE  R!PrepareColumn(t, s) \in Fields /\ Width(R!PrepareColumn(t, s)) >= 28
<1>1. PICK a \in Fields : a = R!SchemaColumn(t, s) /\ Width(a) >= 11
  BY SchemaColumnWidth
<1>2. s \in FieldSet /\ Len(s.b) \in Nat /\ Len(s.b) >= 4
  BY FieldTypes, SizedWidth
<1>3. PICK e \in FieldSet : e = R!NoString /\ Len(e.b) \in Nat /\ Len(e.b) >= 4
  BY SentFields, SizedWidth
<1>4. PICK z \in FieldSet : z = R!F8(0) /\ Len(z.b) = 1
  BY SentFields, SmallInts, FieldWidths
<1>5. PICK b \in Fields : b = <<e, s, z, e>>
  <2>1. <<e, s, z, e>> \in Fields
    BY <1>2, SomeFields, Zenon
  <2> QED
    BY <2>1
<1>6. Width(b) = Len(e.b) + Len(s.b) + Len(z.b) + Len(e.b)
  <2>1. WidthOfFour(e, s, z, e)
    BY <1>2, WidthFour
  <2> QED
    BY <1>5, <2>1 DEF WidthOfFour
<1>7. PICK c \in Fields : c = [i \in 1 .. 7 |-> R!F8(0)] /\ Width(c) = 7
  <2>1. 7 \in Nat
    OBVIOUS
  <2> QED
    BY <2>1, ParsesBytes DEF Parses, Width
<1>8. Width(b) >= 13 /\ Width(b) \in Nat /\ Width(a) \in Nat
  <2>1. Width(b) >= 13 /\ Width(b) \in Nat
    <3>1. PICK m \in Nat, n \in Nat : m = Len(e.b) /\ n = Len(s.b) /\ m >= 4 /\ n >= 4
      BY <1>2, <1>3
    <3>2. Width(b) = m + n + 1 + m
      BY <1>4, <1>6, <3>1
    <3>3. \A i, j \in Nat : i >= 4 /\ j >= 4 => i + j + 1 + i >= 13 /\ i + j + 1 + i \in Nat
      OBVIOUS
    <3> QED
      BY <3>1, <3>2, <3>3
  <2> QED
    BY <2>1, WidthConcat
<1>9. PICK d \in Fields : d = a \o b /\ Width(d) = Width(a) + Width(b)
  BY WidthConcat
<1>10. d \o c \in Fields /\ Width(d \o c) = Width(d) + Width(c)
  BY WidthConcat
<1>11. R!PrepareColumn(t, s) = d \o c
  BY <1>1, <1>3, <1>4, <1>5, <1>7, <1>9 DEF R!PrepareColumn
<1>12. Width(d) + Width(c) >= 28
  BY <1>1, <1>7, <1>8, <1>9
<1> QED
  BY <1>10, <1>11, <1>12

LEMMA BatchItemWidth ==
  ASSUME NEW item \in BatchItems
  PROVE  item \in Fields /\ Width(item) >= 12
<1>0. item \in Fields
  BY BatchItemsType
<1>1. CASE \E n \in {0, 2} : item = R!BatchOk(n)
  <2>1. PICK n \in {0, 2} : item = R!BatchOk(n)
    BY <1>1
  <2>2. n \in Int /\ 0 \in Int
    BY <2>1
  <2>3. PICK f \in FieldSet, g \in FieldSet, h \in FieldSet :
          /\ f = R!F32(n) /\ g = R!F32(0) /\ h = R!F16(0)
          /\ Len(f.b) = 4 /\ Len(g.b) = 4 /\ Len(h.b) = 2
    BY <2>2, FieldTypes, FieldWidths
  <2>4. item = <<f, g, h, h>>
    BY <2>1, <2>3 DEF R!BatchOk
  <2>5. Width(<<f, g, h, h>>) = Len(f.b) + Len(g.b) + Len(h.b) + Len(h.b)
    <3>1. WidthOfFour(f, g, h, h)
      BY WidthFour
    <3> QED
      BY <3>1 DEF WidthOfFour
  <2> QED
    <3>1. Width(item) = 4 + 4 + 2 + 2
      BY <2>3, <2>4, <2>5, Zenon
    <3> QED
      BY <1>0, <3>1
<1>2. CASE \E s \in R!Strings : item = R!BatchErr(s)
  <2>1. PICK s \in R!Strings : item = R!BatchErr(s)
    BY <1>2
  <2>2. s \in FieldSet /\ Len(s.b) \in Nat /\ Len(s.b) >= 4
    BY FieldTypes, SizedWidth
  <2>3. PICK f \in FieldSet, g \in FieldSet :
          f = R!F32(-1) /\ g = R!F32(-670) /\ Len(f.b) = 4 /\ Len(g.b) = 4
    <3>1. -1 \in Int /\ -670 \in Int
      OBVIOUS
    <3> QED
      BY <3>1, FieldTypes, FieldWidths
  <2>4. item = <<f, g, s>>
    BY <2>1, <2>3 DEF R!BatchErr
  <2>5. Width(<<f, g, s>>) = Len(f.b) + Len(g.b) + Len(s.b)
    BY <2>2, WidthTuples, Zenon
  <2> QED
    <3>1. PICK m \in Nat : m = Len(s.b) /\ m >= 4
      BY <2>2
    <3>2. Width(item) = 4 + 4 + m
      <4>1. Width(item) = Len(f.b) + Len(g.b) + Len(s.b)
        BY <2>4, <2>5, Zenon
      <4> QED
        BY <2>3, <3>1, <4>1, Zenon
    <3> QED
      BY <1>0, <3>1, <3>2
<1> QED
  BY <1>1, <1>2 DEF BatchItems

\* The entries whose value is a count, the plan of an item and its smallest size.
Counts == {"nCols", "nSchemaCols", "nResults", "nTuples", "nBatch"}
ItemPlan(k, f) ==
  CASE f = "nCols" -> R!ColumnPlan
    [] f = "nSchemaCols" -> R!SchemaColumnPlan
    [] f = "nResults" -> ResultPlan
    [] f = "nTuples" -> R!TuplePlan
    [] f = "nBatch" -> IF k = "sqlbatch" THEN <<"byte", "result">> ELSE <<"result">>
SmallestItem(f) == CASE f = "nCols" -> 28 [] f = "nSchemaCols" -> 11 [] f = "nBatch" -> 12 [] OTHER -> 1

\* The entries of an item, each of which takes a byte at least.
Tame == {"type", "int16", "int32", "string", "byte", "bytes8", "value", "result"}

LEMMA ItemPlanTame ==
  ASSUME NEW k, NEW f \in Counts
  PROVE  /\ ItemPlan(k, f) \in Seq(Tame) /\ ItemPlan(k, f) \in Plans /\ ItemPlan(k, f) # <<>>
         /\ Len(ItemPlan(k, f)) >= 1
<1>1. Tame \subseteq Entry
  BY DEF Tame, Entry
<1>2. R!SchemaColumnPlan \in Seq(Tame) /\ Len(R!SchemaColumnPlan) = 4
  BY DEF R!SchemaColumnPlan, Tame
<1>3. R!ColumnPlan \in Seq(Tame) /\ Len(R!ColumnPlan) >= 1
  <2>1. PICK a \in Seq(Tame) : a = R!SchemaColumnPlan /\ Len(a) = 4
    BY <1>2
  <2>2. "string" \in Tame /\ "byte" \in Tame
    BY DEF Tame
  <2>3. PICK b \in Seq(Tame) : b = <<"string", "string", "byte", "string">> /\ Len(b) = 4
    <3>1. /\ <<"string", "string", "byte", "string">> \in Seq(Tame)
          /\ Len(<<"string", "string", "byte", "string">>) = 4
      BY <2>2
    <3> QED
      BY <3>1
  <2>4. PICK c \in Seq(Tame) : c = [i \in 1 .. 7 |-> "byte"] /\ Len(c) = 7
    <3>1. [i \in 1 .. 7 |-> "byte"] \in Seq(Tame) /\ Len([i \in 1 .. 7 |-> "byte"]) = 7
      BY <2>2
    <3> QED
      BY <3>1
  <2>5. PICK d \in Seq(Tame) : d = a \o b /\ Len(d) = Len(a) + Len(b)
    BY ConcatProperties
  <2>6. d \o c \in Seq(Tame) /\ Len(d \o c) = Len(d) + Len(c)
    BY ConcatProperties
  <2>7. Len(d) + Len(c) >= 1
    BY <2>1, <2>3, <2>4, <2>5
  <2> QED
    BY <2>1, <2>3, <2>4, <2>5, <2>6, <2>7 DEF R!ColumnPlan
<1>4. ResultPlan \in Seq(Tame) /\ Len(ResultPlan) = 5
  BY DEF ResultPlan, Tame
<1>5. R!TuplePlan \in Seq(Tame) /\ Len(R!TuplePlan) = 3
  BY DEF R!TuplePlan, Tame
<1>6. <<"byte", "result">> \in Seq(Tame) /\ <<"result">> \in Seq(Tame)
  BY DEF Tame
<1>7. ItemPlan(k, f) \in Seq(Tame) /\ Len(ItemPlan(k, f)) >= 1
  <2>1. CASE f = "nCols"
    <3>1. ItemPlan(k, f) = R!ColumnPlan
      BY <2>1 DEF ItemPlan
    <3> QED
      BY <1>3, <3>1
  <2>2. CASE f = "nSchemaCols"
    BY <1>2, <2>2 DEF ItemPlan
  <2>3. CASE f = "nResults"
    <3>1. ItemPlan(k, f) = ResultPlan
      BY <2>3 DEF ItemPlan
    <3> QED
      BY <1>4, <3>1
  <2>4. CASE f = "nTuples"
    <3>1. ItemPlan(k, f) = R!TuplePlan
      BY <2>4 DEF ItemPlan
    <3> QED
      BY <1>5, <3>1
  <2>5. CASE f = "nBatch"
    BY <1>6, <2>5 DEF ItemPlan
  <2> QED
    BY <2>1, <2>2, <2>3, <2>4, <2>5 DEF Counts
<1>8. PICK p \in Seq(Tame) : p = ItemPlan(k, f) /\ Len(p) >= 1
  BY <1>7
<1>9. p \in Plans /\ p # <<>>
  BY <1>1, <1>8 DEF Plans
<1> QED
  BY <1>7, <1>8, <1>9

LEMMA CountItems ==
  ASSUME NEW k, NEW f \in Counts, NEW v, NEW left
  PROVE  /\ R!Items(k, f, v, left) = R!Repeat(v, ItemPlan(k, f), left)
         /\ R!Refuses(f, v, left) => ~(v >= 0 /\ v * SmallestItem(f) <= left)
         /\ f \in Entry \ Loose /\ f \in FourBytes /\ f # "status"
<1>1. CASE f = "nCols"
  BY <1>1 DEF R!Items, ItemPlan, R!Refuses, R!CountFits, R!MinItem, SmallestItem, Entry, Loose, FourBytes
<1>2. CASE f = "nSchemaCols"
  BY <1>2 DEF R!Items, ItemPlan, R!Refuses, R!CountFits, R!MinItem, SmallestItem, Entry, Loose, FourBytes
<1>3. CASE f = "nResults"
  BY <1>3 DEF R!Items, ItemPlan, R!Refuses, ResultPlan, Entry, Loose, FourBytes
<1>4. CASE f = "nTuples"
  BY <1>4 DEF R!Items, ItemPlan, R!Refuses, Entry, Loose, FourBytes
<1>5. CASE f = "nBatch"
  BY <1>5 DEF R!Items, ItemPlan, R!Refuses, R!CountFits, R!MinItem, SmallestItem, Entry, Loose, FourBytes
<1> QED
  BY <1>1, <1>2, <1>3, <1>4, <1>5 DEF Counts

\* A count and as many items.
LEMMA ParsesCount ==
  ASSUME NEW k, NEW f \in Counts, NEW items \in Seq(Fields), Len(items) \in Int32,
         \A i \in 1 .. Len(items) : /\ Parses(k, ItemPlan(k, f), items[i])
                                    /\ Width(items[i]) >= SmallestItem(f)
  PROVE  Parses(k, <<f>>, <<R!F32(Len(items))>> \o R!FlattenSeq(items))
<1>1. PICK n \in Nat : n = Len(items) /\ n \in Int32
  OBVIOUS
<1>2. PICK x \in FieldSet : x = R!F32(n) /\ Reads(f, x) /\ x.v = n
  <2>1. R!F32(n) \in FieldSet /\ Same(R!F32(n), R!F32(n))
    BY FieldTypes DEF Same
  <2>2. f \in FourBytes /\ f # "status"
    BY CountItems
  <2> QED
    BY <1>1, <2>1, <2>2, ReadsInt32
<1>3. PICK p \in Plans : p = ItemPlan(k, f)
  BY ItemPlanTame
<1>4. PICK c \in Nat : c = SmallestItem(f) /\ c >= 1
  BY DEF SmallestItem
<1>5. PICK fs \in Fields : /\ fs = R!FlattenSeq(items) /\ Width(fs) >= c * n
                           /\ Parses(k, R!FlattenSeq(Copies(n, p)), fs)
  BY <1>1, <1>3, <1>4, ParsesCopies
<1>6. ASSUME NEW more \in Nat
      PROVE  /\ ~R!Refuses(f, x.v, Len(BytesOf(fs)) + more)
             /\ R!Items(k, f, x.v, Len(BytesOf(fs)) + more) = R!FlattenSeq(Copies(n, p))
  <2>1. PICK left \in Nat : left = Len(BytesOf(fs)) + more /\ left >= c * n
    <3>1. Width(fs) \in Nat
      BY WidthConcat
    <3> QED
      BY <1>5, <3>1 DEF Width
  <2>2. n * c = c * n /\ n >= 0 /\ n * c <= left /\ n <= c * n
    <3>1. n * c = c * n /\ n <= c * n
      BY <1>4
    <3> QED
      BY <2>1, <3>1
  <2>3. ~R!Refuses(f, n, left)
    BY <1>4, <2>2, CountItems
  <2>4. R!Items(k, f, n, left) = R!Repeat(n, p, left)
    BY <1>3, CountItems
  <2>5. ~(n > left)
    BY <2>1, <2>2
  <2>6. R!Repeat(n, p, left) = R!FlattenSeq(Copies(n, p))
    BY <2>5 DEF R!Repeat, Copies
  <2> QED
    BY <1>2, <2>1, <2>3, <2>4, <2>6
<1>7. f \in Entry \ Loose
  BY CountItems
<1>8. Parses(k, <<f>>, <<x>> \o fs)
  BY <1>2, <1>5, <1>6, <1>7, ParsesEntry
<1> QED
  BY <1>1, <1>2, <1>5, <1>8

\* Fields that are the same but for being optional.
Alike(fs, gs) == Len(fs) = Len(gs) /\ \A i \in 1 .. Len(fs) : Same(fs[i], gs[i])

LEMMA AlikeBytes ==
  ASSUME NEW fs \in Fields, NEW gs \in Fields, Alike(fs, gs)
  PROVE  BytesOf(fs) = BytesOf(gs)
<1>1. DOMAIN fs = 1 .. Len(fs) /\ DOMAIN gs = 1 .. Len(gs)
  BY DEF Fields
<1>2. \A i \in DOMAIN fs : fs[i].b = gs[i].b
  BY <1>1 DEF Alike, Same
<1>3. DOMAIN fs = DOMAIN gs
  BY <1>1 DEF Alike
<1>4. BytesIn(fs) = BytesIn(gs)
  BY <1>2, <1>3 DEF BytesIn
<1> QED
  BY <1>4 DEF BytesOf

LEMMA AlikeParts ==
  ASSUME NEW fs \in Fields, NEW gs \in Fields, Alike(fs, gs)
  PROVE  /\ fs = <<>> <=> gs = <<>>
         /\ fs # <<>> => /\ Same(Head(fs), Head(gs)) /\ Tail(fs) \in Fields /\ Tail(gs) \in Fields
                         /\ Alike(Tail(fs), Tail(gs))
<1>1. fs = <<>> <=> gs = <<>>
  BY EmptySeq DEF Alike, Fields
<1>2. ASSUME fs # <<>>
      PROVE  /\ Same(Head(fs), Head(gs)) /\ Tail(fs) \in Fields /\ Tail(gs) \in Fields
             /\ Alike(Tail(fs), Tail(gs))
  <2>1. gs # <<>>
    BY <1>1, <1>2
  <2>2. /\ Head(fs) = fs[1] /\ Tail(fs) \in Fields /\ Len(Tail(fs)) = Len(fs) - 1
        /\ \A i \in 1 .. Len(Tail(fs)) : Tail(fs)[i] = fs[i + 1]
    BY <1>2, HeadTailProperties DEF Fields
  <2>3. /\ Head(gs) = gs[1] /\ Tail(gs) \in Fields /\ Len(Tail(gs)) = Len(gs) - 1
        /\ \A i \in 1 .. Len(Tail(gs)) : Tail(gs)[i] = gs[i + 1]
    BY <2>1, HeadTailProperties DEF Fields
  <2>4. Len(fs) \in Nat /\ Len(fs) >= 1 /\ Len(fs) = Len(gs)
    BY <1>2, EmptySeq DEF Alike, Fields
  <2>5. Same(Head(fs), Head(gs))
    BY <2>2, <2>3, <2>4 DEF Alike
  <2>6. \A i \in 1 .. Len(Tail(fs)) : i + 1 \in 1 .. Len(fs)
    BY <2>2, <2>4
  <2>7. \A i \in 1 .. Len(Tail(fs)) : Same(Tail(fs)[i], Tail(gs)[i])
    BY <2>2, <2>3, <2>4, <2>6 DEF Alike
  <2> QED
    BY <2>2, <2>3, <2>4, <2>5, <2>7 DEF Alike
<1> QED
  BY <1>1, <1>2

LEMMA ParsesAlike ==
  ASSUME NEW k, NEW p, NEW fs, Parses(k, p, fs), NEW gs \in Fields, Alike(fs, gs)
  PROVE  Parses(k, p, gs)
<1>1. p \in Plans /\ fs \in Fields
  BY DEF Parses
<1>2. PICK Q : Follows(k, Q) /\ <<p, fs>> \in Q
  BY DEF Parses
<1> DEFINE U == {z \in Plans \X Fields : \E hs \in Fields : Alike(hs, z[2]) /\ <<z[1], hs>> \in Q}
<1>3. \A a \in Plans, as \in Fields : <<a, as>> \in U <=> \E hs \in Fields : Alike(hs, as) /\ <<a, hs>> \in Q
  OBVIOUS
<1> HIDE DEF U
<1>4. Follows(k, U)
  <2> SUFFICES ASSUME NEW a \in Plans, NEW as \in Fields, <<a, as>> \in U
               PROVE  /\ a = <<>> => as = <<>>
                      /\ a # <<>> =>
                           /\ as # <<>> /\ Head(a) \notin Loose /\ Reads(Head(a), Head(as))
                           /\ \A more \in Nat :
                              /\ ~R!Refuses(Head(a), Head(as).v, Len(BytesOf(Tail(as))) + more)
                              /\ R!Items(k, Head(a), Head(as).v, Len(BytesOf(Tail(as))) + more) \in Plans
                              /\ <<R!Items(k, Head(a), Head(as).v, Len(BytesOf(Tail(as))) + more) \o Tail(a),
                                   Tail(as)>> \in U
    BY DEF Follows
  <2>1. PICK hs \in Fields : Alike(hs, as) /\ <<a, hs>> \in Q
    BY <1>3
  <2>2. a = <<>> => as = <<>>
    <3>1. a = <<>> => hs = <<>>
      BY <1>2, <2>1, Zenon DEF Follows
    <3> QED
      BY <2>1, <3>1, AlikeParts
  <2>3. ASSUME a # <<>>
        PROVE  /\ as # <<>> /\ Head(a) \notin Loose /\ Reads(Head(a), Head(as))
               /\ \A more \in Nat :
                  /\ ~R!Refuses(Head(a), Head(as).v, Len(BytesOf(Tail(as))) + more)
                  /\ R!Items(k, Head(a), Head(as).v, Len(BytesOf(Tail(as))) + more) \in Plans
                  /\ <<R!Items(k, Head(a), Head(as).v, Len(BytesOf(Tail(as))) + more) \o Tail(a),
                       Tail(as)>> \in U
    <3>1. /\ hs # <<>> /\ Head(a) \notin Loose /\ Reads(Head(a), Head(hs))
          /\ \A more \in Nat :
             /\ ~R!Refuses(Head(a), Head(hs).v, Len(BytesOf(Tail(hs))) + more)
             /\ R!Items(k, Head(a), Head(hs).v, Len(BytesOf(Tail(hs))) + more) \in Plans
             /\ <<R!Items(k, Head(a), Head(hs).v, Len(BytesOf(Tail(hs))) + more) \o Tail(a),
                  Tail(hs)>> \in Q
      BY <1>2, <2>1, <2>3, Zenon DEF Follows
    <3>2. /\ as # <<>> /\ Same(Head(hs), Head(as)) /\ Tail(hs) \in Fields /\ Tail(as) \in Fields
          /\ Alike(Tail(hs), Tail(as))
      BY <2>1, <3>1, AlikeParts
    <3>3. BytesOf(Tail(hs)) = BytesOf(Tail(as)) /\ Head(hs).b = Head(as).b /\ Head(hs).v = Head(as).v
      BY <3>2, AlikeBytes DEF Same
    <3>4. Reads(Head(a), Head(as))
      BY <3>1, <3>3 DEF Reads
    <3>5. ASSUME NEW more \in Nat
          PROVE  /\ ~R!Refuses(Head(a), Head(as).v, Len(BytesOf(Tail(as))) + more)
                 /\ R!Items(k, Head(a), Head(as).v, Len(BytesOf(Tail(as))) + more) \in Plans
                 /\ <<R!Items(k, Head(a), Head(as).v, Len(BytesOf(Tail(as))) + more) \o Tail(a),
                      Tail(as)>> \in U
      <4>1. PICK its : its = R!Items(k, Head(a), Head(as).v, Len(BytesOf(Tail(as))) + more)
        OBVIOUS
      <4>2. its = R!Items(k, Head(a), Head(hs).v, Len(BytesOf(Tail(hs))) + more)
        BY <3>3, <4>1
      <4>3. its \in Plans /\ <<its \o Tail(a), Tail(hs)>> \in Q
        BY <3>1, <4>2
      <4>4. its \o Tail(a) \in Plans
        BY <2>3, <4>3 DEF Plans
      <4>5. <<its \o Tail(a), Tail(as)>> \in U
        BY <1>3, <3>2, <4>3, <4>4
      <4>6. ~R!Refuses(Head(a), Head(as).v, Len(BytesOf(Tail(as))) + more)
        BY <3>1, <3>3
      <4> QED
        BY <4>1, <4>3, <4>5, <4>6
    <3> QED
      BY <3>1, <3>2, <3>4, <3>5
  <2> QED
    BY <2>2, <2>3
<1>5. <<p, gs>> \in U
  BY <1>1, <1>2, <1>3
<1> QED
  BY <1>1, <1>4, <1>5, Zenon DEF Parses

LEMMA ParsesOptional ==
  ASSUME NEW k, NEW p, NEW fs, Parses(k, p, fs)
  PROVE  Parses(k, p, R!Optional(fs))
<1>1. fs \in Fields
  BY DEF Parses
<1>2. R!Optional(fs) \in Fields /\ Alike(fs, R!Optional(fs))
  BY <1>1, OptionalType DEF Alike, Same
<1> QED
  BY <1>2, ParsesAlike

-----------------------------------------------------------------------------
(* Plans that end in fields that may be absent                             *)

AllOpt(fs) == \A i \in 1 .. Len(fs) : fs[i].opt

\* The end of a reply: nothing, or one field that may be absent.
Last1(p, fs) ==
  \/ p = <<>> /\ fs = <<>>
  \/ \E f \in {"completed", "legacy"}, x \in FieldSet :
       p = <<f>> /\ fs = <<x>> /\ x.opt /\ Reads(f, x)

Rest1(k, p, fs) ==
  \E q \in Plans, p2 \in Plans, gs \in Fields, f2 \in Fields :
    p = q \o p2 /\ fs = gs \o f2 /\ Parses(k, q, gs) /\ Last1(p2, f2)

\* The plan of the rows that come with the reply to EXECUTE.
RowsPlan(ver) == <<"int32", "nTuples">> \o (IF ver >= 5 THEN <<"completed">> ELSE <<>>)

\* The broker's information, which says what comes behind it, and the rows of a
\* reply to EXECUTE with the status rc.
Ending(k, ver, rc, p, fs) ==
  \/ Last1(p, fs)
  \/ /\ p = <<"broker">>
     /\ \E x \in FieldSet, gs \in Fields :
          /\ fs = <<x>> \o gs /\ Reads("broker", x)
          /\ \A left : Rest1(k, R!Items(k, "broker", x.v, left), gs)
  \/ /\ p = <<"inline">>
     /\ \/ fs = <<>>
        \/ rc > 0 /\ AllOpt(fs) /\ Width(fs) > 4 /\ Rest1(k, RowsPlan(ver), fs)

Rest(k, ver, rc, p, fs) ==
  \E q \in Plans, p2 \in Plans, gs \in Fields, f2 \in Fields :
    p = q \o p2 /\ fs = gs \o f2 /\ Parses(k, q, gs) /\ Ending(k, ver, rc, p2, f2)

LEMMA RestFromRest1 ==
  ASSUME NEW k, NEW ver, NEW rc, NEW p, NEW fs, Rest1(k, p, fs)
  PROVE  Rest(k, ver, rc, p, fs)
  BY Zenon DEF Rest1, Rest, Ending

LEMMA EmptyConcat ==
  /\ \A p \in Plans : <<>> \o p = p /\ p \o <<>> = p
  /\ \A fs \in Fields : <<>> \o fs = fs /\ fs \o <<>> = fs
  /\ <<>> \in Plans /\ <<>> \in Fields
  BY ConcatEmptySeq DEF Plans, Fields

LEMMA RestEnding ==
  ASSUME NEW k, NEW ver, NEW rc, NEW p \in Plans, NEW fs \in Fields, Ending(k, ver, rc, p, fs)
  PROVE  Rest(k, ver, rc, p, fs)
<1>1. p = <<>> \o p /\ fs = <<>> \o fs /\ <<>> \in Plans /\ <<>> \in Fields
  BY EmptyConcat
<1> QED
  BY <1>1, ParsesEmpty, Zenon DEF Rest

LEMMA RestType ==
  ASSUME NEW k, NEW ver, NEW rc, NEW p, NEW fs, Rest(k, ver, rc, p, fs)
  PROVE  p \in Plans /\ fs \in Fields
<1>1. PICK q \in Plans, p2 \in Plans, gs \in Fields, f2 \in Fields : p = q \o p2 /\ fs = gs \o f2
  BY DEF Rest
<1> QED
  BY <1>1, PlansConcat, FieldsConcat

\* A plan that is empty has read everything.
LEMMA RestEnd ==
  ASSUME NEW k, NEW ver, NEW rc, NEW fs, Rest(k, ver, rc, <<>>, fs)
  PROVE  fs = <<>>
<1>1. PICK q \in Plans, p2 \in Plans, gs \in Fields, f2 \in Fields :
        <<>> = q \o p2 /\ fs = gs \o f2 /\ Parses(k, q, gs) /\ Ending(k, ver, rc, p2, f2)
  BY DEF Rest
<1>2. q = <<>> /\ p2 = <<>>
  <2>1. Len(q \o p2) = Len(q) + Len(p2) /\ Len(q) \in Nat /\ Len(p2) \in Nat
    BY ConcatProperties DEF Plans
  <2>2. Len(q \o p2) = 0
    <3>1. Len(<<>>) = 0
      OBVIOUS
    <3> QED
      BY <1>1, <3>1, Zenon
  <2>3. Len(q) = 0 /\ Len(p2) = 0
    BY <2>1, <2>2
  <2> QED
    BY <2>3, EmptySeq DEF Plans
<1>3. gs = <<>>
  BY <1>1, <1>2, ParsesStep
<1>4. \A f : <<>> # <<f>>
  OBVIOUS
<1>5. f2 = <<>>
  BY <1>1, <1>2, <1>4 DEF Ending, Last1
<1> QED
  BY <1>1, <1>3, <1>5, EmptyConcat

LEMMA ConcatSplit ==
  ASSUME NEW S, NEW s \in Seq(S), NEW t \in Seq(S), s = <<>>
  PROVE  s \o t = t
  BY ConcatEmptySeq

\* Entries of the plan come before those of its end.
BeforeEnding(k, ver, rc, p, fs) ==
  \E q \in Plans, p2 \in Plans, gs \in Fields, f2 \in Fields :
    /\ p = q \o p2 /\ fs = gs \o f2 /\ Parses(k, q, gs) /\ Ending(k, ver, rc, p2, f2)
    /\ q # <<>> /\ gs # <<>>

\* What a plan does first: its own entries, or those of the end.
LEMMA RestCases ==
  ASSUME NEW k, NEW ver, NEW rc, NEW p, NEW fs, Rest(k, ver, rc, p, fs)
  PROVE  Ending(k, ver, rc, p, fs) \/ BeforeEnding(k, ver, rc, p, fs)
<1>1. PICK q \in Plans, p2 \in Plans, gs \in Fields, f2 \in Fields :
        p = q \o p2 /\ fs = gs \o f2 /\ Parses(k, q, gs) /\ Ending(k, ver, rc, p2, f2)
  BY DEF Rest
<1>2. CASE q = <<>>
  <2>1. gs = <<>>
    BY <1>1, <1>2, ParsesStep
  <2>2. p = p2 /\ fs = f2
    BY <1>1, <1>2, <2>1, EmptyConcat
  <2> QED
    BY <1>1, <2>2
<1>3. CASE q # <<>>
  <2>1. gs # <<>>
    BY <1>1, <1>3, ParsesStep
  <2> QED
    BY <1>1, <1>3, <2>1 DEF BeforeEnding
<1> QED
  BY <1>2, <1>3

LEMMA LooseAre ==
  ASSUME NEW k, NEW f \in Loose \ {"broker"}, NEW v, NEW left
  PROVE  ~R!Refuses(f, v, left) /\ R!Items(k, f, v, left) = <<>>
<1>1. /\ f \notin {"nCols", "nSchemaCols", "nBatch"} /\ f # "paramCount" /\ f # "columnInfo"
      /\ f # "type" /\ f # "nCols" /\ f # "nSchemaCols" /\ f # "nResults" /\ f # "nTuples"
      /\ f # "nBatch" /\ f # "result" /\ f # "broker"
  BY DEF Loose
<1>2. ~R!Refuses(f, v, left)
  BY <1>1 DEF R!Refuses
<1>3. R!Items(k, f, v, left) = <<>>
  BY <1>1 DEF R!Items
<1> QED
  BY <1>2, <1>3

EntryReads(k, ver, rc, p, fs) ==
  /\ fs # <<>> /\ Reads(Head(p), Head(fs))
  /\ ~R!Refuses(Head(p), Head(fs).v, Width(Tail(fs)))
  /\ Rest(k, ver, rc, R!Items(k, Head(p), Head(fs).v, Width(Tail(fs))) \o Tail(p), Tail(fs))

\* An entry of the plan finds its field.
LEMMA RestRead ==
  ASSUME NEW k, NEW ver, NEW rc, NEW p, NEW fs, Rest(k, ver, rc, p, fs),
         p # <<>>, Head(p) # "inline"
  PROVE  EntryReads(k, ver, rc, p, fs)
<1>1. p \in Plans /\ fs \in Fields
  BY RestType
<1>2. CASE BeforeEnding(k, ver, rc, p, fs)
  <2>1. PICK q \in Plans, p2 \in Plans, gs \in Fields, f2 \in Fields :
             /\ p = q \o p2 /\ fs = gs \o f2 /\ Parses(k, q, gs) /\ Ending(k, ver, rc, p2, f2)
             /\ q # <<>> /\ gs # <<>>
    BY <1>2 DEF BeforeEnding
  <2>2. Head(p) = Head(q) /\ Tail(p) = Tail(q) \o p2 /\ Tail(q) \in Plans
    BY <2>1, ConcatFront DEF Plans
  <2>3. fs # <<>> /\ Head(fs) = Head(gs) /\ Tail(fs) = Tail(gs) \o f2 /\ Tail(gs) \in Fields
    BY <2>1, ConcatFront DEF Fields
  <2>4. /\ Width(Tail(fs)) = Len(BytesOf(Tail(gs))) + Width(f2) /\ Width(f2) \in Nat
    BY <2>3, WidthConcat DEF Width
  <2>5. PICK its : its = R!Items(k, Head(q), Head(gs).v, Len(BytesOf(Tail(gs))) + Width(f2))
    OBVIOUS
  <2>6. /\ Reads(Head(q), Head(gs))
        /\ ~R!Refuses(Head(q), Head(gs).v, Len(BytesOf(Tail(gs))) + Width(f2))
        /\ its \in Plans /\ Parses(k, its \o Tail(q), Tail(gs))
    BY <2>1, <2>4, <2>5, ParsesStep
  <2>7. its \o Tail(p) = (its \o Tail(q)) \o p2
    <3>1. PICK tq \in Plans : tq = Tail(q)
      BY <2>2
    <3>2. (its \o tq) \o p2 = its \o (tq \o p2)
      BY <2>6, PlanAssoc
    <3> QED
      BY <2>2, <3>1, <3>2
  <2>8. its \o Tail(q) \in Plans
    BY <2>2, <2>6, PlansConcat
  <2>9. Rest(k, ver, rc, its \o Tail(p), Tail(fs))
    BY <2>1, <2>3, <2>6, <2>7, <2>8, Zenon DEF Rest
  <2> QED
    BY <2>2, <2>3, <2>4, <2>5, <2>6, <2>9 DEF EntryReads
<1>3. CASE Ending(k, ver, rc, p, fs)
  <2>1. \A f : Head(<<f>>) = f /\ Tail(<<f>>) = <<>> /\ <<f>> # <<>>
    OBVIOUS
  <2>2. CASE Last1(p, fs)
    <3>1. PICK f \in {"completed", "legacy"}, x \in FieldSet :
             p = <<f>> /\ fs = <<x>> /\ x.opt /\ Reads(f, x)
      BY <2>2 DEF Last1
    <3>2. f \in Loose \ {"broker"}
      BY <3>1 DEF Loose
    <3>3. /\ Head(p) = f /\ Tail(p) = <<>> /\ Head(fs) = x /\ Tail(fs) = <<>> /\ fs # <<>>
      BY <2>1, <3>1, Zenon
    <3>4. /\ ~R!Refuses(Head(p), Head(fs).v, Width(Tail(fs)))
          /\ R!Items(k, Head(p), Head(fs).v, Width(Tail(fs))) = <<>>
      BY <3>2, <3>3, LooseAre
    <3>5. Last1(<<>>, <<>>)
      BY DEF Last1
    <3>6. Rest(k, ver, rc, <<>>, <<>>)
      BY <3>5, RestEnding, EmptyConcat DEF Ending
    <3>7. <<>> \o <<>> = <<>>
      OBVIOUS
    <3> QED
      BY <3>1, <3>3, <3>4, <3>6, <3>7 DEF EntryReads
  <2>3. CASE p = <<"broker">>
    <3>1. PICK x \in FieldSet, gs \in Fields :
             /\ fs = <<x>> \o gs /\ Reads("broker", x)
             /\ \A left : Rest1(k, R!Items(k, "broker", x.v, left), gs)
      <4>1. ~Last1(p, fs)
        BY <2>3, <2>1 DEF Last1
      <4>2. p # <<"inline">>
        BY <2>1, <2>3
      <4> QED
        BY <1>3, <4>1, <4>2, Zenon DEF Ending
    <3>2. fs # <<>> /\ Head(fs) = x /\ Tail(fs) = gs
      BY <3>1, ConsParts DEF Fields
    <3>3. Head(p) = "broker" /\ Tail(p) = <<>>
      BY <2>1, <2>3
    <3>4. PICK its : its = R!Items(k, "broker", x.v, Width(gs))
      OBVIOUS
    <3>5. Rest(k, ver, rc, its, gs)
      BY <3>1, <3>4, RestFromRest1
    <3>6. its \o <<>> = its
      BY <3>5, RestType, EmptyConcat
    <3>7. ~R!Refuses("broker", x.v, Width(gs))
      BY DEF R!Refuses
    <3> QED
      BY <3>1, <3>2, <3>3, <3>4, <3>5, <3>6, <3>7 DEF EntryReads
  <2>4. p # <<"inline">>
    BY <2>1
  <2> QED
    BY <1>3, <2>2, <2>3, <2>4 DEF Ending
<1> QED
  BY <1>2, <1>3, RestCases, Zenon

LEMMA OwnHead ==
  ASSUME NEW k, NEW ver, NEW rc, NEW p, NEW fs, p # <<>>, Head(p) \in Loose, Rest(k, ver, rc, p, fs)
  PROVE  Ending(k, ver, rc, p, fs)
<1>1. CASE BeforeEnding(k, ver, rc, p, fs)
  <2>1. PICK q \in Plans, p2 \in Plans, gs \in Fields, f2 \in Fields :
             /\ p = q \o p2 /\ fs = gs \o f2 /\ Parses(k, q, gs) /\ Ending(k, ver, rc, p2, f2)
             /\ q # <<>> /\ gs # <<>>
    BY <1>1 DEF BeforeEnding
  <2>2. Head(p) = Head(q)
    BY <2>1, ConcatFront DEF Plans
  <2>3. Head(q) \notin Loose
    BY <2>1, ParsesStep
  <2> QED
    BY <2>2, <2>3
<1> QED
  BY <1>1, RestCases, Zenon

\* A field that may be absent is the last.
LEMMA RestSkip ==
  ASSUME NEW k, NEW ver, NEW rc, NEW p, NEW fs, Rest(k, ver, rc, p, fs),
         p # <<>>, Head(p) \in {"completed", "legacy"}
  PROVE  Tail(p) = <<>> /\ AllOpt(fs) /\ Width(fs) = R!Size(Head(p))
<1>1. \A f : Head(<<f>>) = f /\ Tail(<<f>>) = <<>> /\ <<f>> # <<>>
  OBVIOUS
<1>2. Ending(k, ver, rc, p, fs)
  BY OwnHead DEF Loose
<1>3. p # <<"broker">> /\ p # <<"inline">>
  BY <1>1
<1>4. Last1(p, fs)
  BY <1>2, <1>3 DEF Ending
<1>5. PICK f \in {"completed", "legacy"}, x \in FieldSet :
         p = <<f>> /\ fs = <<x>> /\ x.opt /\ Reads(f, x)
  BY <1>4 DEF Last1
<1>6. AllOpt(fs)
  <2>1. Len(<<x>>) = 1 /\ <<x>>[1] = x
    OBVIOUS
  <2> QED
    BY <1>5, <2>1 DEF AllOpt
<1>7. f \notin {"string", "value"}
  BY <1>5
<1>8. Width(fs) = R!Size(f)
  BY <1>5, <1>7, WidthOne DEF Reads
<1> QED
  BY <1>1, <1>5, <1>6, <1>8

LEMMA RestInline ==
  ASSUME NEW k, NEW ver, NEW rc, NEW p, NEW fs, Rest(k, ver, rc, p, fs),
         p # <<>>, Head(p) = "inline"
  PROVE  /\ Tail(p) = <<>>
         /\ \/ fs = <<>>
            \/ rc > 0 /\ AllOpt(fs) /\ Width(fs) > 4 /\ Rest(k, ver, rc, RowsPlan(ver), fs)
<1>1. \A f : Head(<<f>>) = f /\ Tail(<<f>>) = <<>> /\ <<f>> # <<>>
  OBVIOUS
<1>2. Ending(k, ver, rc, p, fs)
  BY OwnHead DEF Loose
<1>3. p # <<"broker">> /\ ~Last1(p, fs)
  <2>1. "inline" # "broker" /\ "inline" \notin {"completed", "legacy"}
    OBVIOUS
  <2>2. p # <<"broker">> /\ p # <<>>
    BY <1>1, <2>1
  <2>3. \A f \in {"completed", "legacy"} : p # <<f>>
    BY <1>1, <2>1
  <2> QED
    BY <2>2, <2>3 DEF Last1
<1>4. /\ p = <<"inline">>
      /\ \/ fs = <<>>
         \/ rc > 0 /\ AllOpt(fs) /\ Width(fs) > 4 /\ Rest1(k, RowsPlan(ver), fs)
  BY <1>2, <1>3, Zenon DEF Ending
<1>5. Rest1(k, RowsPlan(ver), fs) => Rest(k, ver, rc, RowsPlan(ver), fs)
  BY RestFromRest1
<1> QED
  BY <1>1, <1>4, <1>5

-----------------------------------------------------------------------------
(* A count that more items follow than there are bytes                     *)

LEMMA CopiesLength ==
  ASSUME NEW S, NEW p \in Seq(S), Len(p) >= 1, NEW n \in Nat
  PROVE  R!FlattenSeq(Copies(n, p)) \in Seq(S) /\ Len(R!FlattenSeq(Copies(n, p))) >= n
<1> DEFINE T == {m \in Nat : /\ R!FlattenSeq(Copies(m, p)) \in Seq(S)
                             /\ Len(R!FlattenSeq(Copies(m, p))) >= m}
<1>1. 0 \in T
  <2>1. R!FlattenSeq(Copies(0, p)) = <<>>
    BY CopiesFacts, FlattenEmpty
  <2>2. <<>> \in Seq(S) /\ Len(<<>>) >= 0 /\ 0 \in Nat
    OBVIOUS
  <2> QED
    BY <2>1, <2>2
<1>2. ASSUME NEW m \in Nat, 0 <= m, m \in T PROVE m + 1 \in T
  <2>1. Copies(m, p) \in Seq(Seq(S)) /\ Copies(m + 1, p) = Append(Copies(m, p), p)
    BY CopiesFacts
  <2>2. R!FlattenSeq(Copies(m + 1, p)) = R!FlattenSeq(Copies(m, p)) \o p
    BY <2>1, FlattenAppend
  <2>3. PICK a \in Seq(S) : a = R!FlattenSeq(Copies(m, p)) /\ Len(a) >= m
    BY <1>2
  <2>4. a \o p \in Seq(S) /\ Len(a \o p) = Len(a) + Len(p) /\ Len(a) \in Nat /\ Len(p) \in Nat
    BY ConcatProperties
  <2>5. Len(a) + Len(p) >= m + 1
    BY <2>3, <2>4
  <2>6. m + 1 \in Nat
    OBVIOUS
  <2> QED
    BY <2>2, <2>3, <2>4, <2>5, <2>6
<1>3. \A m \in Nat : 0 <= m => m \in T
  <2> HIDE DEF T
  <2>1. 0 \in Nat
    OBVIOUS
  <2> QED
    BY <1>1, <1>2, <2>1, SetInduction, Zenon
<1>4. 0 <= n
  OBVIOUS
<1> QED
  BY <1>3, <1>4

\* With fewer bytes left, an entry has the same items, or more of them than bytes.
LEMMA CutItems ==
  ASSUME NEW k, NEW f, NEW v, f \in Counts => v \in Int, NEW left \in Nat, NEW whole \in Nat,
         left <= whole
  PROVE  \/ R!Items(k, f, v, left) = R!Items(k, f, v, whole)
         \/ /\ R!Items(k, f, v, left) \in Seq(Tame)
            /\ Len(R!Items(k, f, v, left)) >= left + 1
<1>1. CASE f \notin Counts
  <2>1. f # "nCols" /\ f # "nSchemaCols" /\ f # "nResults" /\ f # "nTuples" /\ f # "nBatch"
    BY <1>1 DEF Counts
  <2>2. R!Items(k, f, v, left) = R!Items(k, f, v, whole)
    BY <2>1 DEF R!Items
  <2> QED
    BY <2>2
<1>2. CASE f \in Counts
  <2>1. PICK p \in Seq(Tame) : p = ItemPlan(k, f) /\ Len(p) >= 1
    BY <1>2, ItemPlanTame
  <2>2. /\ R!Items(k, f, v, left) = R!Repeat(v, p, left)
        /\ R!Items(k, f, v, whole) = R!Repeat(v, p, whole)
    BY <1>2, <2>1, CountItems
  <2>3. v \in Int
    BY <1>2
  <2>4. CASE v <= left
    <3>1. ~(v > left) /\ ~(v > whole)
      BY <2>3, <2>4
    <3>2. R!Repeat(v, p, left) = R!Repeat(v, p, whole)
      BY <3>1 DEF R!Repeat
    <3> QED
      BY <2>2, <3>2
  <2>5. CASE v > left
    <3>1. R!Repeat(v, p, left) = R!FlattenSeq(Copies(left + 1, p))
      BY <2>5 DEF R!Repeat, Copies
    <3>2. left + 1 \in Nat
      OBVIOUS
    <3> QED
      BY <2>1, <2>2, <3>1, <3>2, CopiesLength
  <2> QED
    BY <2>3, <2>4, <2>5
<1> QED
  BY <1>1, <1>2

\* A plan whose entries are more than the bytes left ends in no success.
Doomed(p, left) == \A i \in 1 .. left + 1 : i \in 1 .. Len(p) /\ p[i] \in Tame

LEMMA TameEntries == Tame \subseteq Entry
  BY DEF Tame, Entry

LEMMA DoomedStart ==
  ASSUME NEW its \in Seq(Tame), NEW p \in Plans, NEW left \in Nat, Len(its) >= left + 1
  PROVE  its \o p \in Plans /\ Doomed(its \o p, left)
<1>1. its \in Plans
  BY TameEntries DEF Plans
<1>2. /\ its \o p \in Plans /\ Len(its \o p) = Len(its) + Len(p) /\ Len(p) \in Nat
      /\ \A i \in 1 .. Len(its) : (its \o p)[i] = its[i]
  BY <1>1 DEF Plans
<1>3. ASSUME NEW i \in 1 .. left + 1 PROVE i \in 1 .. Len(its \o p) /\ (its \o p)[i] \in Tame
  <2>1. i \in 1 .. Len(its)
    OBVIOUS
  <2> QED
    BY <1>2, <2>1
<1> QED
  BY <1>2, <1>3 DEF Doomed

LEMMA DoomedStep ==
  ASSUME NEW its \in Seq(Tame), NEW p \in Plans, NEW left \in Nat, Doomed(p, left),
         NEW n \in Nat, 1 <= n, n <= left
  PROVE  its \o Tail(p) \in Plans /\ Doomed(its \o Tail(p), left - n)
<1>1. its \in Plans
  BY TameEntries DEF Plans
<1>2. Len(p) \in Nat /\ left + 1 <= Len(p) /\ p # <<>>
  <2>1. left + 1 \in 1 .. left + 1
    OBVIOUS
  <2> QED
    BY <2>1, EmptySeq DEF Doomed, Plans
<1>3. PICK t \in Plans : /\ t = Tail(p) /\ Len(t) = Len(p) - 1
                         /\ \A i \in 1 .. Len(t) : t[i] = p[i + 1]
  BY <1>2, HeadTailProperties DEF Plans
<1>4. /\ its \o t \in Plans /\ Len(its \o t) = Len(its) + Len(t) /\ Len(its) \in Nat
      /\ \A i \in 1 .. Len(its) + Len(t) : (its \o t)[i] = IF i <= Len(its) THEN its[i] ELSE t[i - Len(its)]
  BY <1>1 DEF Plans
<1>5. ASSUME NEW i \in 1 .. (left - n) + 1 PROVE i \in 1 .. Len(its \o t) /\ (its \o t)[i] \in Tame
  <2>1. i \in 1 .. Len(its) + Len(t)
    BY <1>2, <1>3, <1>4
  <2>2. CASE i <= Len(its)
    BY <1>4, <2>1, <2>2
  <2>3. CASE i > Len(its)
    <3>1. PICK j \in 1 .. Len(t) : j = i - Len(its)
      BY <1>4, <2>1, <2>3
    <3>2. j + 1 \in 1 .. left + 1
      BY <1>4, <3>1
    <3>3. p[j + 1] \in Tame
      BY <3>2 DEF Doomed
    <3>4. (its \o t)[i] = t[j]
      BY <1>4, <2>1, <2>3, <3>1
    <3> QED
      BY <1>3, <1>4, <2>1, <3>1, <3>3, <3>4
  <2> QED
    BY <1>4, <2>2, <2>3
<1> QED
  BY <1>3, <1>4, <1>5 DEF Doomed

LEMMA TameItems ==
  ASSUME NEW k, NEW f \in Tame, NEW v, NEW left
  PROVE  /\ R!Items(k, f, v, left) \in Seq(Tame) /\ ~R!Refuses(f, v, left)
         /\ f \notin {"status", "inline", "completed", "legacy", "broker"}
<1>1. /\ f \notin {"nCols", "nSchemaCols", "nBatch"} /\ f # "paramCount" /\ f # "columnInfo"
      /\ f # "nCols" /\ f # "nSchemaCols" /\ f # "nResults" /\ f # "nTuples"
      /\ f # "nBatch" /\ f # "broker"
      /\ f \notin {"status", "inline", "completed", "legacy", "broker"}
  BY DEF Tame
<1>2. ~R!Refuses(f, v, left)
  BY <1>1 DEF R!Refuses
<1>3. /\ <<>> \in Seq(Tame) /\ <<"byte">> \in Seq(Tame) /\ <<"int32", "string">> \in Seq(Tame)
      /\ <<"int32", "int16", "int16">> \in Seq(Tame)
  BY DEF Tame
<1>4. R!Items(k, f, v, left) \in {<<>>, <<"byte">>, <<"int32", "string">>, <<"int32", "int16", "int16">>}
  BY <1>1 DEF R!Items
<1> QED
  BY <1>1, <1>2, <1>3, <1>4

-----------------------------------------------------------------------------
(* The bytes of a field, at the reader's offset                            *)

\* What has arrived of the field x is at the offset.
Agrees(x) == \A i \in 1 .. Len(x.b) : off + i <= Len(payload) => payload[off + i] = x.b[i]

LEMMA Arrived ==
  ASSUME NEW rd \in Fields, NEW left \in Fields, left # <<>>,
         payload \in Seq(Byte), NEW lost \in Seq(Byte),
         payload \o lost = BytesOf(rd \o left), off = Width(rd)
  PROVE  Agrees(Head(left))
<1>1. PICK a \in Seq(Byte), b \in Seq(Byte), c \in Seq(Byte) :
        a = BytesOf(rd) /\ b = Head(left).b /\ c = BytesOf(Tail(left))
  BY BytesOfType, BytesOfHead
<1>2. BytesOf(rd \o left) = a \o (b \o c)
  <2>1. BytesOf(left) = b \o c
    BY <1>1, BytesOfHead
  <2>2. BytesOf(rd \o left) = BytesOf(rd) \o BytesOf(left)
    BY BytesOfConcat
  <2> QED
    BY <1>1, <2>1, <2>2
<1>3. PICK d \in Seq(Byte) : /\ d = b \o c /\ Len(d) = Len(b) + Len(c) /\ Len(b) \in Nat /\ Len(c) \in Nat
                             /\ \A i \in 1 .. Len(b) : d[i] = b[i]
  <2>1. /\ b \o c \in Seq(Byte) /\ Len(b \o c) = Len(b) + Len(c) /\ Len(b) \in Nat /\ Len(c) \in Nat
        /\ \A i \in 1 .. Len(b) + Len(c) : (b \o c)[i] = IF i <= Len(b) THEN b[i] ELSE c[i - Len(b)]
    BY ConcatProperties
  <2>2. \A i \in 1 .. Len(b) : (b \o c)[i] = b[i]
    BY <2>1
  <2> QED
    BY <2>1, <2>2
<1>4. PICK e \in Seq(Byte) : /\ e = a \o d /\ Len(e) = Len(a) + Len(d) /\ Len(a) \in Nat
                             /\ \A i \in 1 .. Len(a) + Len(d) :
                                  e[i] = IF i <= Len(a) THEN a[i] ELSE d[i - Len(a)]
  <2>1. /\ a \o d \in Seq(Byte) /\ Len(a \o d) = Len(a) + Len(d) /\ Len(a) \in Nat
        /\ \A i \in 1 .. Len(a) + Len(d) : (a \o d)[i] = IF i <= Len(a) THEN a[i] ELSE d[i - Len(a)]
    BY ConcatProperties
  <2> QED
    BY <2>1
<1>5. payload \o lost = e
  BY <1>2, <1>3, <1>4
<1>6. /\ Len(payload) \in Nat /\ Len(lost) \in Nat /\ Len(e) = Len(payload) + Len(lost)
      /\ \A i \in 1 .. Len(payload) : e[i] = payload[i]
  <2>1. /\ Len(payload \o lost) = Len(payload) + Len(lost) /\ Len(payload) \in Nat /\ Len(lost) \in Nat
        /\ \A i \in 1 .. Len(payload) + Len(lost) :
             (payload \o lost)[i] = IF i <= Len(payload) THEN payload[i] ELSE lost[i - Len(payload)]
    BY ConcatProperties
  <2> QED
    BY <1>5, <2>1
<1>7. off = Len(a)
  BY <1>1 DEF Width
<1>8. ASSUME NEW i \in 1 .. Len(b), off + i <= Len(payload) PROVE payload[off + i] = b[i]
  <2>1. PICK j \in Nat : j = off + i /\ j \in 1 .. Len(payload) /\ j \in 1 .. Len(a) + Len(d) /\ ~(j <= Len(a))
    BY <1>3, <1>4, <1>6, <1>7, <1>8
  <2>2. e[j] = payload[j]
    BY <1>6, <2>1
  <2>3. e[j] = d[j - Len(a)]
    BY <1>4, <2>1
  <2>4. j - Len(a) = i
    BY <1>4, <1>7, <2>1
  <2> QED
    BY <1>3, <2>1, <2>2, <2>3, <2>4
<1> QED
  BY <1>1, <1>8 DEF Agrees

LEMMA Int32Agrees ==
  ASSUME NEW x \in FieldSet, Agrees(x), Len(x.b) >= 4, off \in Nat, payload \in Seq(Byte),
         off + 4 <= Len(payload)
  PROVE  R!Int32At(off) = Int32Of(x.b)
<1>1. x.b \in Seq(Byte)
  BY DEF FieldSet
<1>2. PICK n \in Nat, m \in Nat : n = Len(x.b) /\ m = Len(payload) /\ n >= 4 /\ off + 4 <= m
  BY <1>1
<1>3. /\ 1 \in 1 .. n /\ 2 \in 1 .. n /\ 3 \in 1 .. n /\ 4 \in 1 .. n
      /\ off + 1 <= m /\ off + 2 <= m /\ off + 3 <= m /\ off + 4 <= m
  BY <1>2
<1>4. /\ payload[off + 1] = x.b[1] /\ payload[off + 2] = x.b[2]
      /\ payload[off + 3] = x.b[3] /\ payload[off + 4] = x.b[4]
  BY <1>2, <1>3 DEF Agrees
<1> QED
  BY <1>4, SMT DEF R!Int32At, Int32Of

\* A stretch of n elements.
LEMMA Stretch ==
  ASSUME NEW S, NEW s \in Seq(S), NEW d \in Nat, NEW n \in Nat, d + n <= Len(s)
  PROVE  /\ SubSeq(s, d + 1, d + n) \in Seq(S) /\ Len(SubSeq(s, d + 1, d + n)) = n
         /\ \A i \in 1 .. n : SubSeq(s, d + 1, d + n)[i] = s[d + i]
<1>1. d + 1 \in Nat \ {0} /\ d + n \in Int
  OBVIOUS
<1>2. /\ SubSeq(s, d + 1, d + n) \in Seq(S)
      /\ Len(SubSeq(s, d + 1, d + n)) = IF d + 1 <= d + n THEN (d + n) - (d + 1) + 1 ELSE 0
      /\ \A i \in 1 .. (d + n) - (d + 1) + 1 : SubSeq(s, d + 1, d + n)[i] = s[(d + 1) + i - 1]
  BY <1>1, SubSeqParts
<1>3. (IF d + 1 <= d + n THEN (d + n) - (d + 1) + 1 ELSE 0) = n /\ (d + n) - (d + 1) + 1 = n
  OBVIOUS
<1>4. ASSUME NEW i \in 1 .. n PROVE SubSeq(s, d + 1, d + n)[i] = s[d + i]
  <2>1. (d + 1) + i - 1 = d + i
    OBVIOUS
  <2>2. i \in 1 .. (d + n) - (d + 1) + 1
    BY <1>3, Zenon
  <2> QED
    BY <1>2, <2>1, <2>2, Zenon
<1> QED
  BY <1>2, <1>3, <1>4, Zenon

\* The bytes from the offset on.
LEMMA TakenAgrees ==
  ASSUME NEW x \in FieldSet, Agrees(x), off \in Nat, payload \in Seq(Byte),
         NEW d \in Nat, NEW n \in Nat, d + n <= Len(x.b), off + d + n <= Len(payload)
  PROVE  R!Taken(off + d, n) = SubSeq(x.b, d + 1, d + n)
<1>1. PICK b \in Seq(Byte) : b = x.b
  BY DEF FieldSet
<1>2. PICK s \in Seq(Byte) : /\ s = SubSeq(b, d + 1, d + n) /\ Len(s) = n
                             /\ \A i \in 1 .. n : s[i] = b[d + i]
  <2>1. d + n <= Len(b)
    BY <1>1
  <2>2. /\ SubSeq(b, d + 1, d + n) \in Seq(Byte) /\ Len(SubSeq(b, d + 1, d + n)) = n
        /\ \A i \in 1 .. n : SubSeq(b, d + 1, d + n)[i] = b[d + i]
    BY <2>1, Stretch
  <2> QED
    BY <2>2, Zenon
<1>3. PICK e \in Nat : e = off + d
  OBVIOUS
<1>4. PICK t \in Seq(Byte) : /\ t = SubSeq(payload, e + 1, e + n) /\ Len(t) = n
                             /\ \A i \in 1 .. n : t[i] = payload[e + i]
  <2>1. PICK w \in Seq(Byte) : w = payload
    OBVIOUS
  <2>2. e + n <= Len(w)
    BY <1>3, <2>1
  <2>3. /\ SubSeq(w, e + 1, e + n) \in Seq(Byte) /\ Len(SubSeq(w, e + 1, e + n)) = n
        /\ \A i \in 1 .. n : SubSeq(w, e + 1, e + n)[i] = w[e + i]
    BY <2>2, Stretch
  <2> QED
    BY <2>1, <2>3, Zenon
<1>5. ASSUME NEW i \in 1 .. n PROVE s[i] = t[i]
  <2>1. PICK j \in Nat : j = d + i /\ j \in 1 .. Len(b) /\ off + j = e + i /\ off + j <= Len(payload)
    BY <1>1, <1>3
  <2>2. payload[off + j] = b[j]
    BY <1>1, <2>1 DEF Agrees
  <2> QED
    BY <1>2, <1>4, <2>1, <2>2
<1>6. s = t
  BY <1>2, <1>4, <1>5, SeqEqual
<1> QED
  BY <1>1, <1>2, <1>3, <1>4, <1>6 DEF R!Taken

LEMMA Sizes ==
  ASSUME NEW f
  PROVE  R!Size(f) \in {1, 2, 4, 8, 20} /\ R!Size(f) \in Nat /\ (f \in FourBytes => R!Size(f) = 4)
  BY DEF R!Size, FourBytes

LEMMA FixedAt ==
  ASSUME NEW f, f \notin {"string", "value"}, NEW x \in FieldSet, Reads(f, x), Agrees(x),
         off \in Nat, payload \in Seq(Byte), off + R!Size(f) <= Len(payload)
  PROVE  R!ValueAt(f) = x.v
<1>1. PICK n \in {1, 2, 4, 8, 20} : n = R!Size(f)
  BY Sizes
<1>2. n = Len(x.b) /\ x.v = FixedOf(f, x.b) /\ off + n <= Len(payload)
  BY <1>1 DEF Reads
<1>3. x.b \in Seq(Byte)
  BY DEF FieldSet
<1>4. CASE n = 1
  <2>1. 1 \in 1 .. Len(x.b) /\ off + 1 <= Len(payload)
    BY <1>2, <1>4
  <2>2. payload[off + 1] = x.b[1]
    BY <2>1 DEF Agrees
  <2>3. R!Size(f) = 1
    BY <1>1, <1>4
  <2>4. R!ValueAt(f) = payload[off + 1] /\ FixedOf(f, x.b) = x.b[1]
    BY <2>3, SMT DEF R!ValueAt, FixedOf
  <2> QED
    BY <1>2, <2>2, <2>4
<1>5. CASE n = 2
  <2>1. 1 \in 1 .. Len(x.b) /\ 2 \in 1 .. Len(x.b) /\ off + 1 <= Len(payload) /\ off + 2 <= Len(payload)
    BY <1>2, <1>5
  <2>2. payload[off + 1] = x.b[1] /\ payload[off + 2] = x.b[2]
    BY <2>1 DEF Agrees
  <2>3. R!Int16At(off) = Int16Of(x.b)
    BY <2>2, Zenon DEF R!Int16At, Int16Of
  <2>4. R!Size(f) = 2 /\ R!Size(f) # 1
    BY <1>1, <1>5
  <2> QED
    BY <1>2, <2>3, <2>4 DEF R!ValueAt, FixedOf
<1>6. CASE n = 4
  <2>1. R!Int32At(off) = Int32Of(x.b)
    <3>1. Len(x.b) >= 4 /\ off + 4 <= Len(payload)
      BY <1>2, <1>6
    <3> QED
      BY <3>1, Int32Agrees
  <2>2. R!Size(f) = 4 /\ R!Size(f) # 1 /\ R!Size(f) # 2
    BY <1>1, <1>6
  <2> QED
    BY <1>2, <2>1, <2>2 DEF R!ValueAt, FixedOf
<1>7. CASE n = 8 \/ n = 20
  <2>1. n \in Nat /\ 0 \in Nat /\ 0 + n <= Len(x.b) /\ off + 0 + n <= Len(payload) /\ off + 0 = off
        /\ 0 + 1 = 1 /\ 0 + n = n
    BY <1>1, <1>2, <1>3
  <2>2. R!Taken(off + 0, n) = SubSeq(x.b, 0 + 1, 0 + n)
    BY <2>1, TakenAgrees
  <2>3. SubSeq(x.b, 1, n) = x.b
    <3>1. PICK b \in Seq(Byte) : b = x.b /\ Len(b) = n
      BY <1>2, <1>3
    <3>2. /\ SubSeq(b, 1, n) \in Seq(Byte) /\ Len(SubSeq(b, 1, n)) = n
          /\ \A i \in 1 .. n : SubSeq(b, 1, n)[i] = b[i]
      <4>1. 1 \in Nat \ {0} /\ n \in Int /\ n <= Len(b) /\ n - 1 + 1 = n /\ (IF 1 <= n THEN n - 1 + 1 ELSE 0) = n
            /\ \A i \in 1 .. n : 1 + i - 1 = i
        BY <1>7, <3>1
      <4>2. /\ SubSeq(b, 1, n) \in Seq(Byte)
            /\ Len(SubSeq(b, 1, n)) = IF 1 <= n THEN n - 1 + 1 ELSE 0
            /\ \A i \in 1 .. n - 1 + 1 : SubSeq(b, 1, n)[i] = b[1 + i - 1]
        BY <4>1, SubSeqParts
      <4> QED
        BY <4>1, <4>2
    <3> QED
      BY <3>1, <3>2, SeqEqual
  <2>4. R!Size(f) # 1 /\ R!Size(f) # 2 /\ R!Size(f) # 4
    BY <1>1, <1>7
  <2>5. R!ValueAt(f) = R!Taken(off, n) /\ FixedOf(f, x.b) = x.b
    BY <1>1, <2>4 DEF R!ValueAt, FixedOf
  <2> QED
    BY <1>2, <2>1, <2>2, <2>3, <2>5
<1> QED
  BY <1>4, <1>5, <1>6, <1>7

\* The step that reads the field x for the entry f: all of x, or an error.
Took(f, x) ==
  \/ R!Ends("short") /\ off + Len(x.b) > Len(payload)
  \/ R!Accept(f, Len(x.b), x.v) /\ off + Len(x.b) <= Len(payload)

LEMMA Int32OfInt ==
  ASSUME NEW x \in FieldSet, Len(x.b) >= 4
  PROVE  Int32Of(x.b) \in Int
<1>1. x.b \in Seq(Byte)
  BY DEF FieldSet
<1>2. PICK n \in Nat : n = Len(x.b) /\ n >= 4
  BY <1>1
<1>3. 1 \in 1 .. n /\ 2 \in 1 .. n /\ 3 \in 1 .. n /\ 4 \in 1 .. n
  BY <1>2
<1>4. x.b[1] \in Byte /\ x.b[2] \in Byte /\ x.b[3] \in Byte /\ x.b[4] \in Byte
  BY <1>1, <1>2, <1>3
<1>5. \A c \in Byte : c \in Int /\ R!Signed(c) \in Int
  BY SMT DEF R!Signed, Byte
<1>6. PICK b1 \in Int, b2 \in Int, b3 \in Int, b4 \in Int :
        b1 = R!Signed(x.b[1]) /\ b2 = x.b[2] /\ b3 = x.b[3] /\ b4 = x.b[4]
  BY <1>4, <1>5
<1>7. Int32Of(x.b) = b1 * 16777216 + b2 * 65536 + b3 * 256 + b4
  BY <1>6, SMT DEF Int32Of
<1>8. b1 * 16777216 + b2 * 65536 + b3 * 256 + b4 \in Int
  BY SMT
<1> QED
  BY <1>7, <1>8, SMT

LEMMA TookStatus ==
  ASSUME R!ReadStatus, NEW x \in FieldSet, Reads("status", x), Agrees(x),
         off \in Nat, payload \in Seq(Byte)
  PROVE  Took("status", x)
<1>1. R!Size("status") = 4 /\ "status" \notin {"string", "value"}
  BY DEF R!Size
<1>2. Len(x.b) = 4 /\ x.v = FixedOf("status", x.b) /\ x.v >= 0
  BY <1>1 DEF Reads
<1>3. FixedOf("status", x.b) = Int32Of(x.b)
  BY <1>1 DEF FixedOf
<1>4. CASE ~R!CanTake(4)
  <2>1. R!Ends("short")
    BY <1>4 DEF R!ReadStatus
  <2>2. off + 4 > Len(payload)
    BY <1>4 DEF R!CanTake
  <2> QED
    BY <1>2, <2>1, <2>2 DEF Took
<1>5. CASE R!CanTake(4)
  <2>1. off + 4 <= Len(payload)
    BY <1>5 DEF R!CanTake
  <2>2. Len(x.b) >= 4
    BY <1>2
  <2>3. R!Int32At(off) = Int32Of(x.b)
    BY <2>1, <2>2, Int32Agrees
  <2>4. R!Int32At(off) = x.v
    BY <1>2, <1>3, <2>3
  <2>5. IF ~R!CanTake(4) THEN R!Ends("short")
        ELSE IF R!Int32At(off) < 0 THEN R!ReadError(R!Int32At(off))
        ELSE R!Accept("status", 4, R!Int32At(off))
    BY Zenon DEF R!ReadStatus
  <2>6. ~(x.v < 0)
    <3>1. x.v \in Int
      BY <1>2, <1>3, <2>2, Int32OfInt
    <3> QED
      BY <1>2, <3>1
  <2>7. R!Accept("status", 4, x.v)
    BY <1>5, <2>4, <2>5, <2>6, Zenon
  <2> QED
    BY <1>2, <2>1, <2>7 DEF Took
<1> QED
  BY <1>4, <1>5

LEMMA TookField ==
  ASSUME R!ReadField, NEW f, f = Head(plan), NEW x \in FieldSet, Reads(f, x), Agrees(x),
         off \in Nat, payload \in Seq(Byte)
  PROVE  Took(f, x)
<1>1. f \notin {"string", "value"}
  BY DEF R!ReadField
<1>2. PICK n \in Nat : n = R!Size(f) /\ n = Len(x.b)
  BY <1>1, Sizes DEF Reads
<1>3. CASE ~R!CanTake(n)
  <2>1. R!Ends("short")
    BY <1>2, <1>3 DEF R!ReadField
  <2>2. off + n > Len(payload)
    BY <1>3 DEF R!CanTake
  <2> QED
    BY <1>2, <2>1, <2>2 DEF Took
<1>4. CASE R!CanTake(n)
  <2>1. off + n <= Len(payload)
    BY <1>4 DEF R!CanTake
  <2>2. R!ValueAt(f) = x.v
    BY <1>1, <1>2, <2>1, FixedAt
  <2>3. R!Accept(f, n, x.v)
    BY <1>2, <1>4, <2>2 DEF R!ReadField
  <2> QED
    BY <1>2, <2>1, <2>3 DEF Took
<1> QED
  BY <1>3, <1>4

LEMMA TookSized ==
  ASSUME R!ReadSized, NEW f, f = Head(plan), NEW x \in FieldSet, Reads(f, x), Agrees(x),
         off \in Nat, payload \in Seq(Byte)
  PROVE  Took(f, x)
<1>1. f \in {"string", "value"}
  BY DEF R!ReadSized, R!Parsing
<1>2. /\ Len(x.b) = (IF Int32Of(x.b) > 0 THEN 4 + Int32Of(x.b) ELSE 4) /\ Int32Of(x.b) \in Int
      /\ x.v = SizedOf(f, x.b)
  BY <1>1 DEF Reads
<1>3. PICK n \in Int : n = Int32Of(x.b) /\ Len(x.b) = (IF n > 0 THEN 4 + n ELSE 4)
  BY <1>2
<1>4. IF ~R!CanTake(4) \/ (R!Int32At(off) > 0 /\ ~R!CanTake(4 + R!Int32At(off))) THEN R!Ends("short")
      ELSE IF R!Int32At(off) < 0 THEN R!Accept(f, 4, IF f = "value" THEN R!Null ELSE <<>>)
      ELSE R!Accept(f, 4 + R!Int32At(off),
                    IF f = "string" THEN R!TrimNul(R!Taken(off + 4, R!Int32At(off)))
                    ELSE R!Taken(off + 4, R!Int32At(off)))
  BY Zenon DEF R!ReadSized
<1>5. CASE ~R!CanTake(4)
  <2>1. R!Ends("short")
    BY <1>4, <1>5
  <2>2. off + 4 > Len(payload)
    BY <1>5 DEF R!CanTake
  <2>3. off + Len(x.b) > Len(payload)
    BY <1>3, <2>2
  <2> QED
    BY <2>1, <2>3 DEF Took
<1>6. CASE R!CanTake(4)
  <2>1. off + 4 <= Len(payload)
    BY <1>6 DEF R!CanTake
  <2>2. Len(x.b) >= 4
    BY <1>3
  <2>3. R!Int32At(off) = n
    BY <1>3, <2>1, <2>2, Int32Agrees
  <2>4. CASE n > 0 /\ ~R!CanTake(4 + n)
    <3>1. R!Ends("short")
      BY <1>4, <2>3, <2>4
    <3>2. off + Len(x.b) > Len(payload)
      BY <1>3, <2>4 DEF R!CanTake
    <3> QED
      BY <3>1, <3>2 DEF Took
  <2>5. CASE n < 0
    <3>1. ~(n > 0)
      BY <2>5
    <3>2. R!Accept(f, 4, IF f = "value" THEN R!Null ELSE <<>>)
      BY <1>4, <1>6, <2>3, <2>5, <3>1
    <3>3. x.v = IF f = "value" THEN R!Null ELSE <<>>
      BY <1>2, <1>3, <2>5 DEF SizedOf
    <3>4. Len(x.b) = 4
      BY <1>3, <3>1
    <3> QED
      BY <2>1, <3>2, <3>3, <3>4 DEF Took
  <2>6. CASE n >= 0 /\ (n > 0 => R!CanTake(4 + n))
    <3>1. ~(n < 0) /\ n \in Nat /\ 4 \in Nat
      BY <2>6
    <3>2. Len(x.b) = 4 + n
      BY <1>3, <2>6
    <3>3. off + (4 + n) <= Len(payload)
      <4>1. CASE n > 0
        BY <2>6, <4>1 DEF R!CanTake
      <4>2. CASE n = 0
        BY <2>1, <4>2
      <4> QED
        BY <2>6, <4>1, <4>2
    <3>4. R!Taken(off + 4, n) = SubSeq(x.b, 5, 4 + n)
      <4>1. off + 4 + n <= Len(payload) /\ 4 + n <= Len(x.b) /\ 4 + 1 = 5
        BY <3>1, <3>2, <3>3
      <4>2. R!Taken(off + 4, n) = SubSeq(x.b, 4 + 1, 4 + n)
        BY <3>1, <4>1, TakenAgrees
      <4> QED
        BY <4>1, <4>2
    <3>5. x.v = IF f = "string" THEN R!TrimNul(R!Taken(off + 4, n)) ELSE R!Taken(off + 4, n)
      BY <1>2, <1>3, <3>1, <3>4 DEF SizedOf
    <3>6. ~(n > 0 /\ ~R!CanTake(4 + n))
      BY <2>6
    <3>7. R!Accept(f, 4 + n, IF f = "string" THEN R!TrimNul(R!Taken(off + 4, n)) ELSE R!Taken(off + 4, n))
      BY <1>4, <1>6, <2>3, <3>1, <3>6, Zenon
    <3>8. R!Accept(f, Len(x.b), x.v)
      BY <3>2, <3>5, <3>7, Zenon
    <3> QED
      BY <3>2, <3>3, <3>8 DEF Took
  <2> QED
    BY <1>3, <2>4, <2>5, <2>6
<1> QED
  BY <1>5, <1>6

-----------------------------------------------------------------------------
(* Where the parser of a reply stands                                      *)

ValuesOf(rd) == [i \in 1 .. Len(rd) |-> rd[i].v]

\* What was received is what was sent, or the first bytes of it.
Received ==
  \E lost \in Seq(Byte) :
    payload \o lost = BytesOf(reply.fields) /\ (reply.fault = "none" => lost = <<>>)

\* The fields rd have been read, those of left have not.
At(rd, left) ==
  /\ rd \in Fields /\ left \in Fields /\ reply.fields = rd \o left /\ reply.fields[1].v \in Int
  /\ vals = ValuesOf(rd) /\ off = Width(rd)
  /\ rd = <<>> => plan # <<>> /\ Head(plan) = "status"

\* The plan is for what is left, or it is done and only what may be absent is left.
OnPlan(rd, left) ==
  /\ At(rd, left)
  /\ \/ Rest(reply.kind, reply.ver, reply.fields[1].v, plan, left)
     \/ reply.fault = "cut" /\ plan = <<>> /\ AllOpt(left)

ParserInv ==
  /\ reply.fault \in {"none", "cut"} /\ Received
  /\ \/ /\ outcome \in {"parsing", "ok"} /\ (outcome = "ok" => plan = <<>>)
        /\ \E rd \in Fields, left \in Fields : OnPlan(rd, left)
     \/ reply.fault = "cut" /\ outcome \in {"short", "refused"}
     \/ /\ reply.fault = "cut" /\ outcome = "parsing" /\ plan \in Plans
        /\ Doomed(plan, Len(payload) - off)

\* The bytes that are left to read.
LEMMA LeftBytes ==
  ASSUME Received, payload \in Seq(Byte), NEW rd \in Fields, NEW left \in Fields,
         reply.fields = rd \o left, off = Width(rd)
  PROVE  /\ Len(payload) - off <= Width(left) /\ Width(left) \in Nat /\ off \in Nat /\ Len(payload) \in Nat
         /\ reply.fault = "none" => Len(payload) - off = Width(left)
<1>1. PICK lost \in Seq(Byte) :
        payload \o lost = BytesOf(reply.fields) /\ (reply.fault = "none" => lost = <<>>)
  BY DEF Received
<1>2. Len(payload \o lost) = Len(payload) + Len(lost) /\ Len(payload) \in Nat /\ Len(lost) \in Nat
  BY ConcatProperties
<1>3. Width(reply.fields) = Width(rd) + Width(left) /\ Width(rd) \in Nat /\ Width(left) \in Nat
  BY WidthConcat
<1>4. Width(reply.fields) = Len(payload) + Len(lost)
  BY <1>1, <1>2 DEF Width
<1>5. reply.fault = "none" => Len(lost) = 0
  BY <1>1
<1> QED
  BY <1>2, <1>3, <1>4, <1>5

LEMMA NextField ==
  ASSUME NEW rd \in Fields, NEW left \in Fields, left # <<>>
  PROVE  /\ rd \o <<Head(left)>> \in Fields /\ rd \o left = (rd \o <<Head(left)>>) \o Tail(left)
         /\ Width(rd \o <<Head(left)>>) = Width(rd) + Len(Head(left).b)
         /\ ValuesOf(rd \o <<Head(left)>>) = Append(ValuesOf(rd), Head(left).v)
         /\ rd \o <<Head(left)>> # <<>> /\ Width(left) = Len(Head(left).b) + Width(Tail(left))
         /\ Width(Tail(left)) \in Nat /\ Len(Head(left).b) \in Nat
<1>1. PICK x \in FieldSet, t \in Fields : x = Head(left) /\ t = Tail(left) /\ left = <<x>> \o t /\ x.b \in Seq(Byte)
  BY BytesOfHead
<1>2. <<x>> \in Fields
  BY DEF Fields
<1>3. rd \o (<<x>> \o t) = (rd \o <<x>>) \o t
  BY <1>2, ConcatAssociative DEF Fields
<1>4. PICK s \in Fields : /\ s = rd \o <<x>> /\ Len(s) = Len(rd) + 1 /\ Len(rd) \in Nat
                          /\ \A i \in 1 .. Len(rd) : s[i] = rd[i]
                          /\ s[Len(rd) + 1] = x
  <2>1. /\ rd \o <<x>> \in Fields /\ Len(rd \o <<x>>) = Len(rd) + 1 /\ Len(rd) \in Nat
        /\ \A i \in 1 .. Len(rd) : (rd \o <<x>>)[i] = rd[i]
        /\ (rd \o <<x>>)[Len(rd) + 1] = x
    BY DEF Fields
  <2> QED
    BY <2>1
<1>5. Width(s) = Width(rd) + Len(x.b)
  BY <1>2, <1>4, WidthConcat, WidthOne
<1>6. s # <<>>
  BY <1>4
<1>7. ValuesOf(s) = Append(ValuesOf(rd), x.v)
  <2>1. PICK n \in Nat : n = Len(rd) /\ Len(s) = n + 1
    BY <1>4
  <2>2. PICK a : a = [i \in 1 .. n |-> rd[i].v]
    OBVIOUS
  <2>3. Len(a) = n /\ DOMAIN a = 1 .. n /\ \A i \in 1 .. n : a[i] = rd[i].v
    BY <2>2
  <2>4. \A i \in 1 .. n + 1 : s[i].v = IF i <= n THEN a[i] ELSE x.v
    BY <1>4, <2>1, <2>3
  <2>5. Append(a, x.v) = [i \in 1 .. n + 1 |-> IF i <= n THEN a[i] ELSE x.v]
    BY <2>2, <2>3
  <2>6. [i \in 1 .. n + 1 |-> s[i].v] = [i \in 1 .. n + 1 |-> IF i <= n THEN a[i] ELSE x.v]
    BY <2>4
  <2> QED
    BY <2>1, <2>2, <2>5, <2>6 DEF ValuesOf
<1>8. Width(left) = Len(x.b) + Width(t) /\ Width(t) \in Nat /\ Len(x.b) \in Nat
  BY <1>1, <1>2, WidthConcat, WidthOne
<1> QED
  BY <1>1, <1>3, <1>4, <1>5, <1>6, <1>7, <1>8

LEMMA CountIsInt ==
  ASSUME NEW f, NEW x \in FieldSet, Reads(f, x), f \in Counts
  PROVE  x.v \in Int
<1>1. f \notin {"string", "value"} /\ R!Size(f) = 4
  BY DEF Counts, R!Size
<1>2. x.v = Int32Of(x.b) /\ Len(x.b) = 4
  BY <1>1 DEF Reads, FixedOf
<1>3. Len(x.b) >= 4
  BY <1>2
<1> QED
  BY <1>2, <1>3, Int32OfInt

\* What a step that changes nothing but the outcome keeps.
LEMMA ReceivedStays ==
  ASSUME Received, UNCHANGED <<reply, payload>>
  PROVE  Received'
<1>1. reply' = reply /\ payload' = payload
  OBVIOUS
<1> QED
  BY <1>1 DEF Received

\* Reading the next field of a plan.
LEMMA Advance ==
  ASSUME ReaderInv, ParserInv, outcome = "parsing", plan # <<>>, Head(plan) # "inline",
         NEW rd \in Fields, NEW left \in Fields, At(rd, left),
         Rest(reply.kind, reply.ver, reply.fields[1].v, plan, left),
         left # <<>> => Took(Head(plan), Head(left))
  PROVE  ParserInv'
<1>1. Received /\ reply.fault \in {"none", "cut"} /\ payload \in Seq(Byte)
  BY DEF ParserInv, ReaderInv
<1>2. PICK k, ver, rc : k = reply.kind /\ ver = reply.ver /\ rc = reply.fields[1].v
  OBVIOUS
<1>3. Rest(k, ver, rc, plan, left)
  BY <1>2
<1>4. PICK x \in FieldSet, t \in Fields, f \in {Head(plan)} : x = Head(left) /\ t = Tail(left) /\ f = Head(plan)
  BY <1>3, RestRead, BytesOfHead DEF EntryReads
<1>5. left # <<>> /\ Reads(f, x) /\ ~R!Refuses(f, x.v, Width(t))
      /\ Rest(k, ver, rc, R!Items(k, f, x.v, Width(t)) \o Tail(plan), t)
  BY <1>3, <1>4, RestRead DEF EntryReads
<1>6. PICK r2 \in Fields : /\ r2 = rd \o <<x>> /\ rd \o left = r2 \o t /\ Width(r2) = Width(rd) + Len(x.b)
                           /\ ValuesOf(r2) = Append(ValuesOf(rd), x.v) /\ r2 # <<>>
                           /\ Width(left) = Len(x.b) + Width(t) /\ Width(t) \in Nat /\ Len(x.b) \in Nat
  BY <1>4, <1>5, NextField
<1>7. reply.fields = rd \o left /\ vals = ValuesOf(rd) /\ off = Width(rd)
  BY DEF At
<1>8. /\ Len(payload) - off <= Width(left) /\ off \in Nat /\ Len(payload) \in Nat
      /\ reply.fault = "none" => Len(payload) - off = Width(left)
  BY <1>1, <1>7, LeftBytes
<1>9. CASE R!Ends("short") /\ off + Len(x.b) > Len(payload)
  <2>1. reply.fault = "cut"
    BY <1>1, <1>6, <1>8, <1>9
  <2>2. outcome' = "short" /\ reply' = reply /\ payload' = payload
    BY <1>9 DEF R!Ends
  <2>3. Received'
    BY <1>1, <2>2, ReceivedStays
  <2> QED
    BY <2>1, <2>2, <2>3 DEF ParserInv
<1>10. CASE R!Accept(f, Len(x.b), x.v) /\ off + Len(x.b) <= Len(payload)
  <2>1. PICK m \in Nat : /\ m = Len(payload) - (off + Len(x.b)) /\ m <= Width(t)
                         /\ reply.fault = "none" => m = Width(t)
    <3>1. PICK lp \in Nat, n \in Nat, w \in Nat, o \in Nat :
            lp = Len(payload) /\ n = Len(x.b) /\ w = Width(t) /\ o = off
      BY <1>6, <1>8
    <3>2. lp - o <= n + w /\ o + n <= lp /\ (reply.fault = "none" => lp - o = n + w)
      BY <1>6, <1>8, <1>10, <3>1
    <3>3. lp - (o + n) \in Nat /\ lp - (o + n) <= w /\ (reply.fault = "none" => lp - (o + n) = w)
      BY <3>2
    <3> QED
      BY <3>1, <3>3
  <2>2. R!Remaining - Len(x.b) = m
    BY <1>6, <1>8, <2>1 DEF R!Remaining
  <2>3. /\ off' = off + Len(x.b) /\ vals' = Append(vals, x.v) /\ reply' = reply /\ payload' = payload
        /\ outcome' = IF R!Refuses(f, x.v, m) THEN "refused" ELSE "parsing"
        /\ ~R!Refuses(f, x.v, m) => plan' = R!Items(k, f, x.v, m) \o Tail(plan)
    BY <1>2, <1>10, <2>2 DEF R!Accept
  <2>4. Received' /\ reply'.fault \in {"none", "cut"}
    BY <1>1, <2>3, ReceivedStays
  <2>5. CASE R!Refuses(f, x.v, m)
    <3>1. reply.fault = "cut"
      BY <1>1, <1>5, <2>1, <2>5
    <3>2. outcome' = "refused" /\ reply'.fault = "cut"
      BY <2>3, <2>5, <3>1
    <3> QED
      BY <2>4, <3>2 DEF ParserInv
  <2>6. CASE ~R!Refuses(f, x.v, m) /\ R!Items(k, f, x.v, m) = R!Items(k, f, x.v, Width(t))
    <3>1. outcome' = "parsing"
      BY <2>3, <2>6
    <3>2. Rest(k, ver, rc, plan', t)
      BY <1>5, <2>3, <2>6
    <3>3. k = reply'.kind /\ ver = reply'.ver /\ rc = reply'.fields[1].v
      BY <1>2, <2>3
    <3>4. reply'.fields = r2 \o t /\ vals' = ValuesOf(r2) /\ off' = Width(r2)
      BY <1>6, <1>7, <2>3
    <3>5. At(r2, t)'
      <4>1. reply'.fields[1].v \in Int
        BY <2>3 DEF At
      <4> QED
        BY <1>6, <3>4, <4>1 DEF At
    <3>6. Rest(reply'.kind, reply'.ver, reply'.fields[1].v, plan', t)
      BY <3>2, <3>3
    <3>7. OnPlan(r2, t)'
      BY <3>5, <3>6 DEF OnPlan
    <3>8. \E a \in Fields, b \in Fields : OnPlan(a, b)'
      BY <3>7
    <3> QED
      BY <2>4, <3>1, <3>8 DEF ParserInv
  <2>7. CASE ~R!Refuses(f, x.v, m) /\ R!Items(k, f, x.v, m) # R!Items(k, f, x.v, Width(t))
    <3>1. outcome' = "parsing" /\ plan' = R!Items(k, f, x.v, m) \o Tail(plan)
      BY <2>3, <2>7
    <3>2. m # Width(t)
      BY <2>7
    <3>3. reply.fault = "cut"
      BY <1>1, <2>1, <3>2
    <3>4. f \in Counts => x.v \in Int
      BY <1>5, CountIsInt
    <3>5. PICK its \in Seq(Tame) : its = R!Items(k, f, x.v, m) /\ Len(its) >= m + 1
      BY <1>6, <2>1, <2>7, <3>4, CutItems
    <3>6. Tail(plan) \in Plans
      BY <1>3, RestType DEF Plans
    <3>7. plan' \in Plans /\ Doomed(plan', m)
      BY <3>1, <3>5, <3>6, DoomedStart
    <3>8. Len(payload') - off' = m
      BY <2>1, <2>3
    <3>9. Doomed(plan', Len(payload') - off')
      BY <3>7, <3>8
    <3>10. reply'.fault = "cut"
      BY <2>3, <3>3
    <3> QED
      BY <2>4, <3>1, <3>7, <3>9, <3>10 DEF ParserInv
  <2> QED
    BY <2>5, <2>6, <2>7
<1> QED
  BY <1>4, <1>5, <1>9, <1>10 DEF Took

\* The next field, and what has arrived of it.
LEMMA Meets ==
  ASSUME ReaderInv, ParserInv, plan # <<>>, Head(plan) # "inline",
         NEW rd \in Fields, NEW left \in Fields, At(rd, left),
         Rest(reply.kind, reply.ver, reply.fields[1].v, plan, left)
  PROVE  /\ left # <<>> /\ Head(left) \in FieldSet /\ Reads(Head(plan), Head(left)) /\ Agrees(Head(left))
         /\ off \in Nat /\ payload \in Seq(Byte)
<1>1. left # <<>> /\ Reads(Head(plan), Head(left))
  BY RestRead DEF EntryReads
<1>2. payload \in Seq(Byte) /\ off = Width(rd) /\ reply.fields = rd \o left
  BY DEF ReaderInv, At
<1>3. PICK lost \in Seq(Byte) : payload \o lost = BytesOf(reply.fields)
  BY DEF ParserInv, Received
<1>4. payload \o lost = BytesOf(rd \o left)
  BY <1>2, <1>3
<1>5. Agrees(Head(left))
  BY <1>1, <1>2, <1>4, Arrived
<1>6. off \in Nat
  BY <1>2, WidthConcat
<1> QED
  BY <1>1, <1>2, <1>5, <1>6, BytesOfHead

LEMMA RestDone == \A k, ver, rc : Rest(k, ver, rc, <<>>, <<>>)
<1> SUFFICES ASSUME NEW k, NEW ver, NEW rc PROVE Rest(k, ver, rc, <<>>, <<>>)
  OBVIOUS
<1>1. Last1(<<>>, <<>>)
  BY DEF Last1
<1> QED
  BY <1>1, RestEnding, EmptyConcat DEF Ending

\* The first value that was read.
LEMMA FirstValue ==
  ASSUME NEW rd \in Fields, NEW left \in Fields, rd # <<>>
  PROVE  ValuesOf(rd)[1] = (rd \o left)[1].v
<1>1. 1 \in 1 .. Len(rd) /\ (rd \o left)[1] = rd[1]
  BY DEF Fields
<1> QED
  BY <1>1 DEF ValuesOf

\* A step that changes only the plan, or the outcome.
LEMMA Settle ==
  ASSUME ParserInv, NEW rd \in Fields, NEW left \in Fields, At(rd, left), rd # <<>>,
         UNCHANGED <<reply, payload, off, vals>>, outcome' = "parsing",
         \/ Rest(reply.kind, reply.ver, reply.fields[1].v, plan', left)
         \/ reply.fault = "cut" /\ plan' = <<>> /\ AllOpt(left)
  PROVE  ParserInv'
<1>1. reply' = reply /\ payload' = payload /\ off' = off /\ vals' = vals
  OBVIOUS
<1>2. Received' /\ reply'.fault \in {"none", "cut"}
  BY <1>1, ReceivedStays DEF ParserInv
<1>3. At(rd, left)'
  BY <1>1 DEF At
<1>4. OnPlan(rd, left)'
  <2>1. CASE Rest(reply.kind, reply.ver, reply.fields[1].v, plan', left)
    <3>1. Rest(reply'.kind, reply'.ver, reply'.fields[1].v, plan', left)
      BY <1>1, <2>1
    <3> QED
      BY <1>3, <3>1 DEF OnPlan
  <2>2. CASE reply.fault = "cut" /\ plan' = <<>> /\ AllOpt(left)
    <3>1. reply'.fault = "cut" /\ plan' = <<>> /\ AllOpt(left)
      BY <1>1, <2>2
    <3> QED
      BY <1>3, <3>1 DEF OnPlan
  <2> QED
    BY <2>1, <2>2
<1>5. \E a \in Fields, b \in Fields : OnPlan(a, b)'
  BY <1>4
<1> QED
  BY <1>2, <1>5 DEF ParserInv

LEMMA Skips ==
  ASSUME ReaderInv, ParserInv, R!Skip,
         NEW rd \in Fields, NEW left \in Fields, At(rd, left),
         Rest(reply.kind, reply.ver, reply.fields[1].v, plan, left)
  PROVE  ParserInv'
<1>1. /\ outcome = "parsing" /\ plan # <<>> /\ R!Skipped(Head(plan)) /\ plan' = Tail(plan)
      /\ UNCHANGED <<reply, payload, off, vals>> /\ outcome' = "parsing"
  BY DEF R!Skip
<1>2. Head(plan) \in {"completed", "legacy", "inline"} /\ Head(plan) # "status"
  BY <1>1 DEF R!Skipped
<1>3. rd # <<>>
  BY <1>2 DEF At
<1>4. payload \in Seq(Byte) /\ Received /\ reply.fault \in {"none", "cut"} /\ off = Width(rd)
      /\ reply.fields = rd \o left /\ vals = ValuesOf(rd) /\ reply.fields[1].v \in Int
  BY DEF ReaderInv, ParserInv, At
<1>5. PICK m \in Int : /\ m = R!Remaining /\ m <= Width(left) /\ Width(left) \in Nat
                       /\ reply.fault = "none" => m = Width(left)
  <2>1. /\ Len(payload) - off <= Width(left) /\ Width(left) \in Nat /\ off \in Nat /\ Len(payload) \in Nat
        /\ reply.fault = "none" => Len(payload) - off = Width(left)
    BY <1>4, LeftBytes
  <2> QED
    BY <2>1 DEF R!Remaining
<1>6. CASE Head(plan) \in {"completed", "legacy"}
  <2>1. Tail(plan) = <<>> /\ AllOpt(left) /\ Width(left) = R!Size(Head(plan))
    BY <1>1, <1>6, RestSkip
  <2>2. m < R!Size(Head(plan))
    BY <1>1, <1>5, <1>6 DEF R!Skipped, R!Size
  <2>3. reply.fault = "cut"
    BY <1>4, <1>5, <2>1, <2>2
  <2> QED
    BY <1>1, <1>3, <2>1, <2>3, Settle
<1>7. CASE Head(plan) = "inline"
  <2>1. /\ Tail(plan) = <<>>
        /\ \/ left = <<>>
           \/ reply.fields[1].v > 0 /\ AllOpt(left) /\ Width(left) > 4
    BY <1>1, <1>7, RestInline
  <2>2. CASE left = <<>>
    <3>1. Rest(reply.kind, reply.ver, reply.fields[1].v, plan', left)
      BY <1>1, <2>1, <2>2, RestDone
    <3> QED
      BY <1>1, <1>3, <3>1, Settle
  <2>3. CASE reply.fields[1].v > 0 /\ AllOpt(left) /\ Width(left) > 4
    <3>1. vals[1] = reply.fields[1].v
      BY <1>3, <1>4, FirstValue
    <3>2. vals[1] <= 0 \/ m <= 4
      BY <1>1, <1>5, <1>7 DEF R!Skipped
    <3>3. m <= 4
      <4>1. PICK c \in Int : c = reply.fields[1].v /\ c > 0
        BY <1>4, <2>3
      <4>2. c <= 0 \/ m <= 4
        BY <3>1, <3>2, <4>1
      <4> QED
        BY <4>1, <4>2
    <3>4. reply.fault = "cut"
      BY <1>4, <1>5, <2>3, <3>3
    <3> QED
      BY <1>1, <1>3, <2>1, <2>3, <3>4, Settle
  <2> QED
    BY <2>1, <2>2, <2>3
<1> QED
  BY <1>2, <1>6, <1>7

LEMMA Inlines ==
  ASSUME ReaderInv, ParserInv, R!Inline,
         NEW rd \in Fields, NEW left \in Fields, At(rd, left),
         Rest(reply.kind, reply.ver, reply.fields[1].v, plan, left)
  PROVE  ParserInv'
<1>1. /\ outcome = "parsing" /\ plan # <<>> /\ Head(plan) = "inline" /\ ~R!Skipped("inline")
      /\ plan' = RowsPlan(reply.ver)
      /\ UNCHANGED <<reply, payload, off, vals>> /\ outcome' = "parsing"
  BY DEF R!Inline, R!Parsing, RowsPlan
<1>2. rd # <<>>
  BY <1>1 DEF At
<1>3. payload \in Seq(Byte) /\ Received /\ off = Width(rd) /\ reply.fields = rd \o left
  BY DEF ReaderInv, ParserInv, At
<1>4. PICK m \in Int : m = R!Remaining /\ m <= Width(left) /\ Width(left) \in Nat
  BY <1>3, LeftBytes DEF R!Remaining
<1>5. ~(m <= 4)
  BY <1>1, <1>4 DEF R!Skipped
<1>6. left # <<>>
  <2>1. Width(<<>>) = 0
    BY BytesOfEmpty DEF Width
  <2> QED
    BY <1>4, <1>5, <2>1
<1>7. Rest(reply.kind, reply.ver, reply.fields[1].v, RowsPlan(reply.ver), left)
  BY <1>1, <1>6, RestInline
<1>8. Rest(reply.kind, reply.ver, reply.fields[1].v, plan', left)
  BY <1>1, <1>7
<1> QED
  BY <1>1, <1>2, <1>8, Settle

\* Of a doomed plan, the next entry takes some of what is left.
LEMMA DoomedRead ==
  ASSUME ReaderInv, ParserInv, reply.fault = "cut", plan \in Plans, Doomed(plan, Len(payload) - off),
         NEW f, f \in Tame, NEW n \in Nat, 1 <= n, off + n <= Len(payload), NEW v, R!Accept(f, n, v)
  PROVE  ParserInv'
<1>1. PICK lp \in Nat, o \in Nat, m \in Nat : lp = Len(payload) /\ o = off /\ m = lp - o /\ o + n <= lp
  BY DEF ReaderInv, InBounds
<1>2. m - n \in Nat /\ n <= m /\ lp - (o + n) = m - n
  BY <1>1
<1>3. PICK its \in Seq(Tame) : its = R!Items(reply.kind, f, v, R!Remaining - n)
  BY TameItems
<1>4. ~R!Refuses(f, v, R!Remaining - n)
  BY TameItems
<1>5. /\ off' = o + n /\ reply' = reply /\ payload' = payload /\ outcome' = "parsing"
      /\ plan' = its \o Tail(plan)
  BY <1>1, <1>3, <1>4 DEF R!Accept
<1>6. Doomed(plan, m)
  BY <1>1
<1>7. plan' \in Plans /\ Doomed(plan', m - n)
  BY <1>2, <1>5, <1>6, DoomedStep
<1>8. Len(payload') - off' = m - n
  BY <1>1, <1>2, <1>5
<1>9. Received' /\ reply'.fault \in {"none", "cut"} /\ reply'.fault = "cut"
  BY <1>5, ReceivedStays DEF ParserInv
<1>10. Doomed(plan', Len(payload') - off')
  BY <1>7, <1>8
<1> QED
  BY <1>5, <1>7, <1>9, <1>10 DEF ParserInv

\* An error ends the parse of what was cut.
LEMMA ShortEnds ==
  ASSUME ParserInv, reply.fault = "cut", R!Ends("short")
  PROVE  ParserInv'
<1>1. outcome' = "short" /\ reply' = reply /\ payload' = payload
  BY DEF R!Ends
<1>2. Received' /\ reply'.fault \in {"none", "cut"} /\ reply'.fault = "cut"
  BY <1>1, ReceivedStays DEF ParserInv
<1> QED
  BY <1>1, <1>2 DEF ParserInv

LEMMA DoomedNext ==
  ASSUME ReaderInv, ParserInv, reply.fault = "cut", plan \in Plans, Doomed(plan, Len(payload) - off), R!Next
  PROVE  ParserInv'
<1>1. PICK m \in Nat : m = Len(payload) - off
  BY DEF ReaderInv, InBounds
<1>2. plan # <<>> /\ Head(plan) \in Tame
  <2>1. 1 \in 1 .. m + 1
    OBVIOUS
  <2>2. 1 \in 1 .. Len(plan) /\ plan[1] \in Tame
    BY <1>1, <2>1 DEF Doomed
  <2> QED
    BY <2>2 DEF Plans
<1>3. PICK f \in Tame : f = Head(plan) /\ f \notin {"status", "inline", "completed", "legacy", "broker"}
  BY <1>2, TameItems
<1>4. off \in Nat /\ Len(payload) \in Nat
  BY DEF ReaderInv, InBounds
<1>5. ~R!ReadStatus
  BY <1>3 DEF R!ReadStatus, R!Parsing
<1>6. ~R!Skip
  BY <1>3 DEF R!Skip, R!Skipped
<1>7. ~R!Inline
  BY <1>3 DEF R!Inline, R!Parsing
<1>8. ~R!Done
  BY <1>2 DEF R!Done
<1>9. CASE R!ReadField
  <2>1. PICK n \in {1, 2, 4, 8, 20} : n = R!Size(f)
    BY Sizes
  <2>2. IF ~R!CanTake(n) THEN R!Ends("short") ELSE R!Accept(f, n, R!ValueAt(f))
    BY <1>3, <1>9, <2>1 DEF R!ReadField
  <2>3. CASE R!CanTake(n)
    <3>1. n \in Nat /\ 1 <= n /\ off + n <= Len(payload)
      BY <2>3 DEF R!CanTake
    <3>2. R!Accept(f, n, R!ValueAt(f))
      BY <2>2, <2>3
    <3> QED
      BY <3>1, <3>2, DoomedRead
  <2>4. CASE ~R!CanTake(n)
    BY <2>2, <2>4, ShortEnds
  <2> QED
    BY <2>3, <2>4
<1>10. CASE R!ReadSized
  <2>1. IF ~R!CanTake(4) \/ (R!Int32At(off) > 0 /\ ~R!CanTake(4 + R!Int32At(off))) THEN R!Ends("short")
        ELSE IF R!Int32At(off) < 0
        THEN R!Accept(Head(plan), 4, IF Head(plan) = "value" THEN R!Null ELSE <<>>)
        ELSE R!Accept(Head(plan), 4 + R!Int32At(off),
                      IF Head(plan) = "string" THEN R!TrimNul(R!Taken(off + 4, R!Int32At(off)))
                      ELSE R!Taken(off + 4, R!Int32At(off)))
    BY <1>10, Zenon DEF R!ReadSized
  <2>2. CASE R!CanTake(4)
    <3>1. PICK n \in Int : n = R!Int32At(off)
      BY <2>2, Int32IsInt
    <3>2. off + 4 <= Len(payload) /\ 4 \in Nat /\ 1 <= 4
      BY <2>2 DEF R!CanTake
    <3>3. CASE n > 0 /\ ~R!CanTake(4 + n)
      <4>1. R!Ends("short")
        BY <2>1, <3>1, <3>3
      <4> QED
        BY <4>1, ShortEnds
    <3>4. CASE n < 0
      <4>1. ~(n > 0)
        BY <3>4
      <4>2. \E v : R!Accept(f, 4, v)
        BY <1>3, <2>1, <2>2, <3>1, <3>4, <4>1
      <4> QED
        BY <3>2, <4>2, DoomedRead
    <3>5. CASE n >= 0 /\ (n > 0 => R!CanTake(4 + n))
      <4>1. ~(n < 0) /\ ~(n > 0 /\ ~R!CanTake(4 + n)) /\ 4 + n \in Nat /\ 1 <= 4 + n
        BY <3>5
      <4>2. R!Accept(f, 4 + n, IF f = "string" THEN R!TrimNul(R!Taken(off + 4, n)) ELSE R!Taken(off + 4, n))
        BY <1>3, <2>1, <2>2, <3>1, <4>1, Zenon
      <4>3. off + (4 + n) <= Len(payload)
        <5>1. CASE n > 0
          BY <3>5, <5>1 DEF R!CanTake
        <5>2. CASE n = 0
          BY <3>2, <5>2
        <5> QED
          BY <3>5, <5>1, <5>2
      <4> QED
        BY <4>1, <4>2, <4>3, DoomedRead
    <3> QED
      BY <3>3, <3>4, <3>5
  <2>3. CASE ~R!CanTake(4)
    <3>1. R!Ends("short")
      BY <2>1, <2>3
    <3> QED
      BY <3>1, ShortEnds
  <2> QED
    BY <2>2, <2>3
<1> QED
  BY <1>5, <1>6, <1>7, <1>8, <1>9, <1>10 DEF R!Next

\* Every step of the parser.
LEMMA ParserStep ==
  ASSUME ReaderInv, ParserInv, R!Next
  PROVE  ParserInv'
<1>1. outcome = "parsing"
  BY DEF R!Next, R!ReadStatus, R!ReadField, R!ReadSized, R!Skip, R!Inline, R!Done, R!Parsing
<1>2. CASE reply.fault = "cut" /\ plan \in Plans /\ Doomed(plan, Len(payload) - off)
  BY <1>2, DoomedNext
<1>3. CASE \E rd \in Fields, left \in Fields : OnPlan(rd, left)
  <2>1. PICK rd \in Fields, left \in Fields : OnPlan(rd, left)
    BY <1>3
  <2>2. At(rd, left)
    BY <2>1 DEF OnPlan
  <2>3. CASE R!Done
    <3>1. plan = <<>> /\ outcome' = "ok" /\ UNCHANGED <<reply, payload, off, plan, vals>>
      BY <2>3 DEF R!Done, R!Ends
    <3>2. reply' = reply /\ payload' = payload /\ off' = off /\ plan' = plan /\ vals' = vals
      BY <3>1
    <3>3. Received' /\ reply'.fault \in {"none", "cut"}
      BY <3>2, ReceivedStays DEF ParserInv
    <3>4. OnPlan(rd, left)'
      BY <2>1, <3>2 DEF OnPlan, At
    <3>5. \E a \in Fields, b \in Fields : OnPlan(a, b)'
      BY <3>4
    <3>6. outcome' = "ok" /\ plan' = <<>>
      BY <3>1, <3>2
    <3> QED
      BY <3>3, <3>5, <3>6 DEF ParserInv
  <2>4. CASE plan = <<>>
    <3>1. ~R!ReadStatus /\ ~R!ReadField /\ ~R!ReadSized /\ ~R!Skip /\ ~R!Inline
      BY <2>4 DEF R!ReadStatus, R!ReadField, R!ReadSized, R!Skip, R!Inline, R!Parsing
    <3> QED
      BY <2>3, <3>1 DEF R!Next
  <2>5. CASE plan # <<>> /\ ~R!Done
    <3>1. Rest(reply.kind, reply.ver, reply.fields[1].v, plan, left)
      BY <2>1, <2>5 DEF OnPlan
    <3>2. CASE R!Skip
      BY <2>2, <3>1, <3>2, Skips
    <3>3. CASE R!Inline
      BY <2>2, <3>1, <3>3, Inlines
    <3>4. CASE R!ReadStatus \/ R!ReadField \/ R!ReadSized
      <4>1. Head(plan) # "inline"
        BY <3>4 DEF R!ReadStatus, R!ReadField, R!ReadSized, R!Parsing
      <4>2. /\ left # <<>> /\ Head(left) \in FieldSet /\ Reads(Head(plan), Head(left)) /\ Agrees(Head(left))
            /\ off \in Nat /\ payload \in Seq(Byte)
        BY <2>2, <2>5, <3>1, <4>1, Meets
      <4>3. Took(Head(plan), Head(left))
        <5>1. CASE R!ReadStatus
          <6>1. Head(plan) = "status"
            BY <5>1 DEF R!ReadStatus, R!Parsing
          <6>2. Took("status", Head(left))
            BY <4>2, <5>1, <6>1, TookStatus
          <6> QED
            BY <6>1, <6>2
        <5>2. CASE R!ReadField
          BY <4>2, <5>2, TookField
        <5>3. CASE R!ReadSized
          BY <4>2, <5>3, TookSized
        <5> QED
          BY <3>4, <5>1, <5>2, <5>3
      <4> QED
        BY <1>1, <2>2, <2>5, <3>1, <4>1, <4>3, Advance
    <3> QED
      BY <2>5, <3>2, <3>3, <3>4 DEF R!Next
  <2> QED
    BY <2>3, <2>4, <2>5
<1> QED
  BY <1>1, <1>2, <1>3 DEF ParserInv

LEMMA SentValues ==
  ASSUME NEW rd \in Fields, NEW left \in Fields, reply.fields = rd \o left
  PROVE  /\ R!Sent = ValuesOf(rd \o left)
         /\ Len(ValuesOf(rd)) = Len(rd) /\ Len(R!Sent) = Len(rd) + Len(left)
         /\ \A i \in 1 .. Len(rd) : R!Sent[i] = ValuesOf(rd)[i]
         /\ ValuesOf(rd) \in Seq(Int \cup Seq(Int)) /\ R!Sent \in Seq(Int \cup Seq(Int))
         /\ Len(rd) \in Nat /\ Len(left) \in Nat
<1>1. PICK s \in Fields : /\ s = rd \o left /\ Len(s) = Len(rd) + Len(left) /\ Len(rd) \in Nat /\ Len(left) \in Nat
                          /\ \A i \in 1 .. Len(rd) : s[i] = rd[i]
  <2>1. /\ rd \o left \in Fields /\ Len(rd \o left) = Len(rd) + Len(left) /\ Len(rd) \in Nat /\ Len(left) \in Nat
        /\ \A i \in 1 .. Len(rd) : (rd \o left)[i] = rd[i]
    BY DEF Fields
  <2> QED
    BY <2>1
<1>2. ASSUME NEW a \in Fields
      PROVE  /\ DOMAIN a = 1 .. Len(a) /\ Len(a) \in Nat /\ Len(ValuesOf(a)) = Len(a)
             /\ ValuesOf(a) \in Seq(Int \cup Seq(Int))
             /\ \A i \in 1 .. Len(a) : ValuesOf(a)[i] = a[i].v
  <2>1. DOMAIN a = 1 .. Len(a) /\ Len(a) \in Nat
    BY DEF Fields
  <2>2. \A i \in 1 .. Len(a) : a[i].v \in Int \cup Seq(Int)
    <3>1. \A i \in 1 .. Len(a) : a[i] \in FieldSet
      BY DEF Fields
    <3>2. \A x \in FieldSet : x.v \in Int \cup Seq(Int)
      BY DEF FieldSet
    <3> QED
      BY <3>1, <3>2
  <2>3. PICK n \in Nat : n = Len(a)
    BY <2>1, Zenon
  <2>4. PICK w : w = [i \in 1 .. n |-> a[i].v]
    OBVIOUS
  <2>5. w \in [1 .. n -> Int \cup Seq(Int)] /\ \A i \in 1 .. n : w[i] = a[i].v
    BY <2>2, <2>3, <2>4
  <2>6. w \in Seq(Int \cup Seq(Int)) /\ Len(w) = n
    BY <2>5
  <2> QED
    BY <2>1, <2>3, <2>4, <2>5, <2>6 DEF ValuesOf
<1>3. R!Sent = ValuesOf(s)
  <2>1. DOMAIN s = 1 .. Len(s) /\ reply.fields = s
    BY <1>1, <1>2
  <2> QED
    BY <2>1 DEF R!Sent, ValuesOf
<1>4. \A i \in 1 .. Len(rd) : R!Sent[i] = ValuesOf(rd)[i]
  <2> SUFFICES ASSUME NEW i \in 1 .. Len(rd) PROVE R!Sent[i] = ValuesOf(rd)[i]
    OBVIOUS
  <2>1. i \in 1 .. Len(s)
    BY <1>1
  <2>2. ValuesOf(s)[i] = s[i].v /\ ValuesOf(rd)[i] = rd[i].v
    BY <1>2, <2>1
  <2> QED
    BY <1>1, <1>3, <2>2
<1> QED
  BY <1>1, <1>2, <1>3, <1>4

LEMMA ParserComplete ==
  ASSUME ReaderInv, ParserInv, reply.kind # "error"
  PROVE  R!CompleteParses
<1> SUFFICES ASSUME reply.fault = "none", outcome # "parsing"
             PROVE  outcome = "ok" /\ off = Len(payload) /\ vals = R!Sent
  BY DEF R!CompleteParses
<1>1. reply.fault # "cut"
  OBVIOUS
<1>2. outcome = "ok" /\ plan = <<>>
  BY <1>1 DEF ParserInv
<1>3. PICK rd \in Fields, left \in Fields : OnPlan(rd, left)
  BY <1>1 DEF ParserInv
<1>4. Rest(reply.kind, reply.ver, reply.fields[1].v, <<>>, left)
  BY <1>1, <1>2, <1>3 DEF OnPlan
<1>5. left = <<>>
  BY <1>4, RestEnd
<1>6. reply.fields = rd \o left /\ vals = ValuesOf(rd) /\ off = Width(rd)
  BY <1>3 DEF OnPlan, At
<1>7. rd \o left = rd
  BY <1>5, EmptyConcat
<1>8. vals = R!Sent
  BY <1>6, <1>7, SentValues
<1>9. payload \in Seq(Byte) /\ Received
  BY DEF ReaderInv, ParserInv
<1>10. Width(left) = 0
  BY <1>5, BytesOfEmpty DEF Width
<1>11. off \in Nat /\ Len(payload) \in Nat /\ Len(payload) - off = 0
  BY <1>6, <1>9, <1>10, LeftBytes
<1>12. off = Len(payload)
  BY <1>11
<1> QED
  BY <1>2, <1>8, <1>12

LEMMA ParserCut ==
  ASSUME ReaderInv, ParserInv
  PROVE  R!CutIsNoticed
<1> SUFFICES ASSUME reply.fault = "cut", outcome = "ok"
             PROVE  /\ R!IsPrefix(vals, R!Sent)
                    /\ \A i \in Len(vals) + 1 .. Len(R!Sent) : reply.fields[i].opt
  BY DEF R!CutIsNoticed
<1>1. plan = <<>>
  BY DEF ParserInv
<1>2. PICK rd \in Fields, left \in Fields : OnPlan(rd, left)
  BY DEF ParserInv
<1>3. reply.fields = rd \o left /\ vals = ValuesOf(rd)
  BY <1>2 DEF OnPlan, At
<1>4. AllOpt(left)
  <2>1. CASE Rest(reply.kind, reply.ver, reply.fields[1].v, plan, left)
    <3>1. left = <<>>
      BY <1>1, <2>1, RestEnd
    <3> QED
      BY <3>1 DEF AllOpt
  <2> QED
    BY <1>2, <2>1 DEF OnPlan
<1>5. PICK n \in Nat, m \in Nat : n = Len(rd) /\ m = Len(left)
  BY SentValues, <1>3
<1>6. PICK a \in Seq(Int \cup Seq(Int)), b \in Seq(Int \cup Seq(Int)) :
        a = vals /\ b = R!Sent /\ Len(a) = n /\ Len(b) = n + m /\ \A i \in 1 .. n : b[i] = a[i]
  BY <1>3, <1>5, SentValues
<1>7. R!IsPrefix(a, b)
  <2>1. SubSeq(a, 1, n) = SubSeq(b, 1, n)
    BY <1>6
  <2>2. n <= n + m
    OBVIOUS
  <2> QED
    BY <1>6, <2>1, <2>2 DEF R!IsPrefix
<1>8. ASSUME NEW i \in n + 1 .. n + m PROVE reply.fields[i].opt
  <2>1. PICK j \in 1 .. m : j = i - n
    OBVIOUS
  <2>2. (rd \o left)[i] = left[i - n]
    BY <1>5 DEF Fields
  <2>3. left[j].opt
    BY <1>4, <1>5 DEF AllOpt
  <2> QED
    BY <1>3, <2>1, <2>2, <2>3
<1> QED
  BY <1>6, <1>7, <1>8

-----------------------------------------------------------------------------
(* The replies, and the plans of their parsers                             *)

LEMMA RestOf ==
  ASSUME NEW k, NEW ver, NEW rc, NEW q, NEW gs, Parses(k, q, gs),
         NEW p \in Plans, NEW fs \in Fields, Ending(k, ver, rc, p, fs)
  PROVE  Rest(k, ver, rc, q \o p, gs \o fs)
<1>1. q \in Plans /\ gs \in Fields
  BY DEF Parses
<1> QED
  BY <1>1, Zenon DEF Rest

LEMMA RestParses ==
  ASSUME NEW k, NEW ver, NEW rc, NEW q, NEW gs, Parses(k, q, gs)
  PROVE  Rest(k, ver, rc, q, gs)
<1>1. q \in Plans /\ gs \in Fields
  BY DEF Parses
<1>2. Ending(k, ver, rc, <<>>, <<>>)
  BY DEF Ending, Last1
<1>3. Rest(k, ver, rc, q \o <<>>, gs \o <<>>)
  BY <1>2, EmptyConcat, RestOf
<1> QED
  BY <1>1, <1>3, EmptyConcat

LEMMA FieldsAssoc ==
  ASSUME NEW a \in Fields, NEW b \in Fields, NEW c \in Fields
  PROVE  (a \o b) \o c = a \o (b \o c)
  BY ConcatAssociative DEF Fields

\* Fields in front of those that may be absent.
LEMMA Rest1Before ==
  ASSUME NEW k, NEW q, NEW gs, Parses(k, q, gs), NEW p, NEW fs, Rest1(k, p, fs)
  PROVE  Rest1(k, q \o p, gs \o fs) /\ p \in Plans /\ fs \in Fields
<1>1. q \in Plans /\ gs \in Fields
  BY DEF Parses
<1>2. PICK a \in Plans, b \in Plans, as \in Fields, bs \in Fields :
        p = a \o b /\ fs = as \o bs /\ Parses(k, a, as) /\ Last1(b, bs)
  BY DEF Rest1
<1>3. Parses(k, q \o a, gs \o as)
  BY <1>2, ParsesConcat
<1>4. (q \o a) \o b = q \o p /\ q \o a \in Plans
  <2>1. (q \o a) \o b = q \o (a \o b)
    BY <1>1, <1>2, PlanAssoc
  <2>2. q \o a \in Plans
    BY <1>1, <1>2, PlansConcat
  <2> QED
    BY <1>2, <2>1, <2>2, Zenon
<1>5. (gs \o as) \o bs = gs \o fs /\ gs \o as \in Fields
  <2>1. (gs \o as) \o bs = gs \o (as \o bs)
    BY <1>1, FieldsAssoc
  <2> QED
    BY <1>1, <1>2, <2>1, FieldsConcat
<1>6. p \in Plans /\ fs \in Fields
  BY <1>2, PlansConcat, FieldsConcat
<1> QED
  BY <1>2, <1>3, <1>4, <1>5, <1>6, Zenon DEF Rest1

LEMMA Rest1Last ==
  ASSUME NEW k, NEW q, NEW gs, Parses(k, q, gs), NEW p \in Plans, NEW fs \in Fields, Last1(p, fs)
  PROVE  Rest1(k, q \o p, gs \o fs)
<1>1. q \in Plans /\ gs \in Fields
  BY DEF Parses
<1> QED
  BY <1>1, Zenon DEF Rest1

LEMMA Rest1Only ==
  ASSUME NEW k, NEW p \in Plans, NEW fs \in Fields, Last1(p, fs)
  PROVE  Rest1(k, p, fs)
<1>1. Rest1(k, <<>> \o p, <<>> \o fs)
  BY ParsesEmpty, Rest1Last
<1> QED
  BY <1>1, EmptyConcat

LEMMA OptionalConcat ==
  ASSUME NEW fs \in Fields, NEW gs \in Fields
  PROVE  R!Optional(fs \o gs) = R!Optional(fs) \o R!Optional(gs)
<1>1. PICK a \in Fields, b \in Fields, c \in Fields, d \in Fields :
        a = R!Optional(fs) /\ b = R!Optional(gs) /\ c = fs \o gs /\ d = R!Optional(c)
  BY OptionalType, FieldsConcat, Zenon
<1>2. PICK n \in Nat, m \in Nat :
        /\ n = Len(fs) /\ m = Len(gs) /\ Len(a) = n /\ Len(b) = m /\ Len(c) = n + m /\ Len(d) = n + m
        /\ DOMAIN fs = 1 .. n /\ DOMAIN gs = 1 .. m /\ DOMAIN c = 1 .. n + m
        /\ \A i \in 1 .. n + m : c[i] = IF i <= n THEN fs[i] ELSE gs[i - n]
  <2>1. /\ Len(fs) \in Nat /\ Len(gs) \in Nat /\ Len(fs \o gs) = Len(fs) + Len(gs)
        /\ DOMAIN fs = 1 .. Len(fs) /\ DOMAIN gs = 1 .. Len(gs) /\ DOMAIN c = 1 .. Len(c)
        /\ \A i \in 1 .. Len(fs) + Len(gs) : (fs \o gs)[i] = IF i <= Len(fs) THEN fs[i] ELSE gs[i - Len(fs)]
    BY ConcatProperties DEF Fields
  <2>2. Len(a) = Len(fs) /\ Len(b) = Len(gs) /\ Len(d) = Len(c)
    BY <1>1, OptionalType
  <2> QED
    BY <1>1, <2>1, <2>2, Zenon
<1>3. /\ \A i \in 1 .. n : a[i] = [fs[i] EXCEPT !.opt = TRUE]
      /\ \A i \in 1 .. m : b[i] = [gs[i] EXCEPT !.opt = TRUE]
      /\ \A i \in 1 .. n + m : d[i] = [c[i] EXCEPT !.opt = TRUE]
  BY <1>1, <1>2, Zenon DEF R!Optional
<1>4. PICK e \in Fields : /\ e = a \o b /\ Len(e) = n + m
                          /\ \A i \in 1 .. n + m : e[i] = IF i <= n THEN a[i] ELSE b[i - n]
  <2>1. /\ a \o b \in Fields /\ Len(a \o b) = Len(a) + Len(b)
        /\ \A i \in 1 .. Len(a) + Len(b) : (a \o b)[i] = IF i <= Len(a) THEN a[i] ELSE b[i - Len(a)]
    BY ConcatProperties DEF Fields
  <2> QED
    BY <1>2, <2>1
<1>5. ASSUME NEW i \in 1 .. n + m PROVE d[i] = e[i]
  <2>1. CASE i <= n
    <3>1. i \in 1 .. n
      BY <2>1
    <3> QED
      <4>1. c[i] = fs[i] /\ e[i] = a[i]
        BY <1>2, <1>4, <2>1
      <4>2. d[i] = [c[i] EXCEPT !.opt = TRUE] /\ a[i] = [fs[i] EXCEPT !.opt = TRUE]
        BY <1>3, <3>1
      <4> QED
        BY <4>1, <4>2, Zenon
  <2>2. CASE ~(i <= n)
    <3>1. PICK j \in 1 .. m : j = i - n
      BY <2>2
    <3> QED
      BY <1>2, <1>3, <1>4, <2>2, <3>1
  <2> QED
    BY <2>1, <2>2
<1>6. d = e
  BY <1>2, <1>4, <1>5, SeqEqual DEF Fields
<1> QED
  BY <1>1, <1>4, <1>6

LEMMA OptionalOne ==
  ASSUME NEW x \in FieldSet
  PROVE  \E y \in FieldSet : R!Optional(<<x>>) = <<y>> /\ y.opt /\ y.b = x.b /\ y.v = x.v
<1>1. PICK a \in Fields : a = R!Optional(<<x>>) /\ Len(a) = 1 /\ a[1].opt /\ a[1].b = x.b /\ a[1].v = x.v
  <2>1. <<x>> \in Fields /\ Len(<<x>>) = 1 /\ <<x>>[1] = x /\ 1 \in 1 .. 1
    BY DEF Fields
  <2> QED
    BY <2>1, OptionalType
<1>2. a[1] \in FieldSet /\ a = <<a[1]>>
  BY <1>1 DEF Fields
<1> QED
  BY <1>1, <1>2

LEMMA OptionalEmpty == R!Optional(<<>>) = <<>>
  BY DEF R!Optional

LEMMA Rest1Optional ==
  ASSUME NEW k, NEW p, NEW fs, Rest1(k, p, fs)
  PROVE  Rest1(k, p, R!Optional(fs))
<1>1. PICK a \in Plans, b \in Plans, as \in Fields, bs \in Fields :
        p = a \o b /\ fs = as \o bs /\ Parses(k, a, as) /\ Last1(b, bs)
  BY DEF Rest1
<1>2. Parses(k, a, R!Optional(as))
  BY <1>1, ParsesOptional
<1>3. R!Optional(bs) \in Fields /\ R!Optional(fs) = R!Optional(as) \o R!Optional(bs)
  BY <1>1, OptionalType, OptionalConcat
<1>4. Last1(b, R!Optional(bs))
  <2>1. CASE b = <<>> /\ bs = <<>>
    BY <2>1, OptionalEmpty DEF Last1
  <2>2. CASE \E f \in {"completed", "legacy"}, x \in FieldSet : b = <<f>> /\ bs = <<x>> /\ x.opt /\ Reads(f, x)
    <3>1. PICK f \in {"completed", "legacy"}, x \in FieldSet : b = <<f>> /\ bs = <<x>> /\ Reads(f, x)
      BY <2>2
    <3>2. PICK y \in FieldSet : R!Optional(<<x>>) = <<y>> /\ y.opt /\ y.b = x.b /\ y.v = x.v
      BY OptionalOne
    <3>3. Reads(f, y)
      BY <3>1, <3>2, Zenon DEF Reads
    <3> QED
      BY <3>1, <3>2, <3>3, Zenon DEF Last1
  <2> QED
    BY <1>1, <2>1, <2>2 DEF Last1
<1> QED
  BY <1>1, <1>2, <1>3, <1>4, Rest1Last

\* The fields of a reply, a plan that reads them, and its first field.
Starts(k, ver, fs) ==
  /\ fs \in Fields /\ fs[1].v \in Int
  /\ R!Plan(k, ver) # <<>> /\ Head(R!Plan(k, ver)) = "status"
  /\ Rest(k, ver, fs[1].v, R!Plan(k, ver), fs)

\* Items that a count can be sent of.
Countable(k, f, items) ==
  /\ f \in Counts /\ items \in Seq(Fields) /\ Len(items) \in Int32
  /\ \A i \in 1 .. Len(items) : /\ Parses(k, ItemPlan(k, f), items[i])
                                 /\ Width(items[i]) >= SmallestItem(f)

\* The plan p reads the fields hs and a count with its items.
CountedBy(k, p, hs, items, tail) ==
  \E gs \in Fields : /\ R!Counted(hs, items, tail).fields = gs \o tail
                     /\ Parses(k, p, gs)
                     /\ hs # <<>> => gs # <<>> /\ gs[1] = hs[1]

\* A count, and fields before and behind it.
LEMMA ParsesCounted ==
  ASSUME NEW k, NEW f, NEW items, Countable(k, f, items),
         NEW hp, NEW hs, Parses(k, hp, hs), NEW tail \in Fields
  PROVE  CountedBy(k, hp \o <<f>>, hs, items, tail)
<1>1. hs \in Fields
  BY DEF Parses
<1>2. PICK c \in FieldSet : c = R!F32(Len(items))
  <2>1. Len(items) \in Int
    BY Int32Integers DEF Countable
  <2> QED
    BY <2>1, FieldTypes
<1>3. PICK its \in Fields : its = R!FlattenSeq(items)
  BY FlattenType DEF Fields, Countable
<1>4. Parses(k, <<f>>, <<c>> \o its)
  BY <1>2, <1>3, ParsesCount DEF Countable
<1>5. <<c>> \in Fields /\ <<c>> \o its \in Fields
  BY SomeFields, FieldsConcat
<1>6. PICK gs \in Fields : gs = hs \o (<<c>> \o its)
  BY <1>1, <1>5, FieldsConcat
<1>7. Parses(k, hp \o <<f>>, gs)
  BY <1>4, <1>6, ParsesConcat
<1>8. R!Counted(hs, items, tail).fields = ((hs \o <<c>>) \o its) \o tail
  BY <1>2, <1>3 DEF R!Counted
<1>9. (hs \o <<c>>) \o its = gs
  BY <1>1, <1>5, <1>6, FieldsAssoc
<1>10. hs # <<>> => gs # <<>> /\ gs[1] = hs[1]
  <2>1. PICK t \in Fields : t = <<c>> \o its
    BY <1>5
  <2>2. hs # <<>> => hs \o t # <<>> /\ (hs \o t)[1] = hs[1]
    BY <1>1 DEF Fields
  <2> QED
    BY <1>6, <2>1, <2>2
<1> QED
  BY <1>7, <1>8, <1>9, <1>10 DEF CountedBy

LEMMA FirstOfConcat ==
  ASSUME NEW fs \in Fields, NEW gs \in Fields, fs # <<>>
  PROVE  (fs \o gs)[1] = fs[1]
  BY DEF Fields

LEMMA StatusFields ==
  /\ \A v \in {0, 3, 9, 77} : /\ R!F32(v) \in FieldSet /\ Reads("status", R!F32(v)) /\ R!F32(v).v = v
                              /\ v \in Int
  /\ "status" \in PlainEntry
<1>1. ASSUME NEW v \in {0, 3, 9, 77}
      PROVE  R!F32(v) \in FieldSet /\ Reads("status", R!F32(v)) /\ R!F32(v).v = v /\ v \in Int
  <2>1. v \in Int32 /\ v >= 0 /\ v \in Int
    BY SmallInts
  <2>2. R!F32(v).v = v
    BY DEF R!F32, R!F
  <2> QED
    BY <2>1, <2>2, FieldTypes, ReadForms
<1> QED
  BY <1>1 DEF PlainEntry

LEMMA ItemsCount ==
  ASSUME R!RepliesConstants
  PROVE  \A n \in 0 .. MaxItems : n \in Int32
  BY CountsFit

LEMMA SchemaStarts ==
  ASSUME R!RepliesConstants, NEW r \in R!SchemaReplies
  PROVE  Starts("schema", 5, r.fields)
<1>1. PICK cols \in R!UpTo(R!SchemaColumns) :
        r = R!Counted(<<R!F32(9), R!F32(2)>>, cols, <<>>)
  BY DEF R!SchemaReplies
<1>2. /\ cols \in Seq(R!SchemaColumns) /\ Len(cols) \in 0 .. MaxItems /\ cols \in Seq(Fields)
  BY ColumnTypes, ItemsType
<1>3. Len(cols) \in Int32
  BY <1>2, ItemsCount
<1>4. ASSUME NEW i \in 1 .. Len(cols)
      PROVE  Parses("schema", ItemPlan("schema", "nSchemaCols"), cols[i]) /\ Width(cols[i]) >= SmallestItem("nSchemaCols")
  <2>1. cols[i] \in R!SchemaColumns
    BY <1>2
  <2>2. PICK t \in R!Types, s \in R!Strings : cols[i] = R!SchemaColumn(t, s)
    BY <2>1 DEF R!SchemaColumns
  <2>3. ItemPlan("schema", "nSchemaCols") = R!SchemaColumnPlan /\ SmallestItem("nSchemaCols") = 11
    BY DEF ItemPlan, SmallestItem
  <2> QED
    BY <2>2, <2>3, ParsesSchemaColumn, SchemaColumnWidth
<1>5. Countable("schema", "nSchemaCols", cols)
  BY <1>2, <1>3, <1>4 DEF Countable, Counts
<1>6. PICK x \in FieldSet, y \in FieldSet : x = R!F32(9) /\ y = R!F32(2) /\ x.v = 9 /\ Reads("status", x) /\ Reads("int32", y)
  <2>1. 9 \in {0, 3, 9, 77}
    OBVIOUS
  <2> QED
    BY <2>1, StatusFields, SentFields
<1>7. PICK hs \in Fields : hs = <<x, y>> /\ hs # <<>> /\ hs[1] = x /\ Parses("schema", <<"status", "int32">>, hs)
  <2>1. Parses("schema", <<"status", "int32">>, <<x, y>>)
    BY <1>6, PlainNamesAre, ParsesTwo DEF PlainNames
  <2>2. <<x, y>> # <<>> /\ <<x, y>>[1] = x /\ <<x, y>> \in Fields
    BY SomeFields
  <2> QED
    BY <2>1, <2>2
<1>8. r = R!Counted(hs, cols, <<>>) /\ <<>> \in Fields
  BY <1>1, <1>6, <1>7, EmptyConcat
<1>9. PICK gs \in Fields : /\ r.fields = gs \o <<>> /\ gs[1] = x
                           /\ Parses("schema", <<"status", "int32">> \o <<"nSchemaCols">>, gs)
  <2>1. CountedBy("schema", <<"status", "int32">> \o <<"nSchemaCols">>, hs, cols, <<>>)
    BY <1>5, <1>7, <1>8, ParsesCounted
  <2> QED
    BY <1>7, <1>8, <2>1 DEF CountedBy
<1>10. r.fields = gs
  BY <1>9, EmptyConcat
<1>11. /\ R!Plan("schema", 5) = <<"status", "int32">> \o <<"nSchemaCols">>
       /\ R!Plan("schema", 5) # <<>> /\ Head(R!Plan("schema", 5)) = "status"
  BY DEF R!Plan
<1>12. Rest("schema", 5, gs[1].v, R!Plan("schema", 5), gs)
  BY <1>9, <1>11, RestParses
<1>13. gs[1].v \in Int
  BY <1>6, <1>9
<1> QED
  BY <1>10, <1>11, <1>12, <1>13 DEF Starts

LEMMA ParsesParamCount ==
  ASSUME R!RepliesConstants, NEW k, NEW p \in {0, SqlLen}
  PROVE  R!F32(p) \in FieldSet /\ Parses(k, <<"paramCount">>, <<R!F32(p)>>)
<1>1. p \in Int32 /\ p \in Int
  <2>1. SqlLen \in Int32
    BY CountsFit
  <2>2. p \in Int32
    <3>1. 0 \in Int32
      BY SmallInts
    <3> QED
      BY <2>1, <3>1
  <2> QED
    BY <2>2, Int32Integers
<1>2. PICK x \in FieldSet : x = R!F32(p) /\ Reads("paramCount", x) /\ x.v = p
  <2>1. R!F32(p) \in FieldSet /\ Same(R!F32(p), R!F32(p))
    BY <1>1, FieldTypes DEF Same
  <2>2. "paramCount" \in FourBytes /\ "paramCount" # "status"
    BY DEF FourBytes
  <2> QED
    BY <1>1, <2>1, <2>2, ReadsInt32
<1>3. "paramCount" \in Entry \ Loose
  BY DEF Entry, Loose
<1>4. p >= 0 /\ p <= SqlLen /\ SqlLen \in Int
  BY RepliesBounds
<1>5. \A left : ~R!Refuses("paramCount", p, left) /\ R!Items(k, "paramCount", p, left) = <<>>
  <2>1. \A left : ~R!Refuses("paramCount", p, left)
    BY <1>1, <1>4 DEF R!Refuses
  <2>2. \A left : R!Items(k, "paramCount", p, left) = <<>>
    BY DEF R!Items
  <2> QED
    BY <2>1, <2>2
<1>6. PICK nil \in Fields : nil = <<>>
  BY EmptyConcat
<1>7. \A more \in Nat : /\ ~R!Refuses("paramCount", x.v, Len(BytesOf(nil)) + more)
                        /\ R!Items(k, "paramCount", x.v, Len(BytesOf(nil)) + more) = <<>>
  BY <1>2, <1>5
<1>8. Parses(k, <<>>, nil)
  BY <1>6, ParsesEmpty
<1>9. Parses(k, <<"paramCount">>, <<x>> \o nil)
  BY <1>2, <1>3, <1>7, <1>8, ParsesEntry
<1>10. <<x>> \o nil = <<x>>
  BY <1>6
<1> QED
  BY <1>2, <1>9, <1>10

LEMMA ParsesPrepareHead ==
  ASSUME R!RepliesConstants, NEW k, NEW p \in {0, SqlLen}
  PROVE  Parses(k, <<"status", "int32", "byte", "paramCount", "byte">>,
                <<R!F32(9), R!F32(0), R!F8(21), R!F32(p), R!F8(0)>>)
<1>1. 9 \in {0, 3, 9, 77}
  OBVIOUS
<1>2. PICK x \in FieldSet, y \in FieldSet, z \in FieldSet, w \in FieldSet, u \in FieldSet :
        /\ x = R!F32(9) /\ y = R!F32(0) /\ z = R!F8(21) /\ w = R!F32(p) /\ u = R!F8(0)
        /\ Reads("status", x) /\ Reads("int32", y) /\ Reads("byte", z) /\ Reads("byte", u)
        /\ Parses(k, <<"paramCount">>, <<w>>)
  <2>1. R!F32(9) \in FieldSet /\ Reads("status", R!F32(9))
    BY <1>1, StatusFields
  <2>2. /\ R!F32(0) \in FieldSet /\ Reads("int32", R!F32(0)) /\ R!F8(21) \in FieldSet /\ Reads("byte", R!F8(21))
        /\ R!F8(0) \in FieldSet /\ Reads("byte", R!F8(0))
    BY SentFields
  <2>3. R!F32(p) \in FieldSet /\ Parses(k, <<"paramCount">>, <<R!F32(p)>>)
    BY ParsesParamCount
  <2> QED
    BY <2>1, <2>2, <2>3, Zenon
<1>3. Parses(k, <<"status", "int32", "byte">>, <<x, y, z>>)
  BY <1>2, PlainNamesAre, ParsesThree DEF PlainNames
<1>4. Parses(k, <<"byte">>, <<u>>)
  BY <1>2, PlainNamesAre, ParsesOne DEF PlainNames
<1>5. /\ <<x, y, z>> \o <<w>> = <<x, y, z, w>>
      /\ <<x, y, z, w>> \o <<u>> = <<x, y, z, w, u>>
  <2>1. <<x, y, z>> \o <<w>> = <<x, y, z, w>>
    BY TupleConcat4
  <2>2. <<x, y, z, w>> \o <<u>> = <<x, y, z, w, u>>
    BY TupleConcat5
  <2> QED
    BY <2>1, <2>2
<1>6. /\ <<"status", "int32", "byte">> \o <<"paramCount">> = <<"status", "int32", "byte", "paramCount">>
      /\ <<"status", "int32", "byte", "paramCount">> \o <<"byte">>
         = <<"status", "int32", "byte", "paramCount", "byte">>
  <2>1. PICK a \in Entry, b \in Entry, c \in Entry, d \in Entry :
          a = "status" /\ b = "int32" /\ c = "byte" /\ d = "paramCount"
    BY DEF Entry
  <2>2. <<a, b, c>> \o <<d>> = <<a, b, c, d>>
    BY TupleConcat4
  <2>3. <<a, b, c, d>> \o <<c>> = <<a, b, c, d, c>>
    BY TupleConcat5
  <2> QED
    BY <2>1, <2>2, <2>3
<1>7. Parses(k, <<"status", "int32", "byte", "paramCount">>, <<x, y, z, w>>)
  <2>1. Parses(k, <<"status", "int32", "byte">> \o <<"paramCount">>, <<x, y, z>> \o <<w>>)
    BY <1>2, <1>3, ParsesConcat
  <2> QED
    BY <1>5, <1>6, <2>1
<1>8. Parses(k, <<"status", "int32", "byte", "paramCount", "byte">>, <<x, y, z, w, u>>)
  <2>1. Parses(k, <<"status", "int32", "byte", "paramCount">> \o <<"byte">>, <<x, y, z, w>> \o <<u>>)
    BY <1>4, <1>7, ParsesConcat
  <2> QED
    BY <1>5, <1>6, <2>1
<1> QED
  BY <1>2, <1>8

LEMMA TupleCons5 ==
  ASSUME NEW S, NEW x \in S, NEW y \in S, NEW z \in S, NEW w \in S, NEW u \in S
  PROVE  <<x>> \o <<y, z, w, u>> = <<x, y, z, w, u>>
<1>1. PICK s, t : s = <<x>> \o <<y, z, w, u>> /\ t = <<x, y, z, w, u>>
  OBVIOUS
<1>2. s \in Seq(S) /\ Len(s) = 5 /\ s[1] = x /\ s[2] = y /\ s[3] = z /\ s[4] = w /\ s[5] = u
  BY <1>1
<1>3. t \in Seq(S) /\ Len(t) = 5 /\ t[1] = x /\ t[2] = y /\ t[3] = z /\ t[4] = w /\ t[5] = u
  BY <1>1
<1>4. \A i \in 1 .. Len(s) : s[i] = t[i]
  BY <1>2, <1>3
<1>5. s = t
  BY <1>2, <1>3, <1>4, SeqEqual
<1> QED
  BY <1>1, <1>5

LEMMA PreparePlan ==
  /\ R!Plan("prepare", 5) = <<"status", "int32", "byte", "paramCount", "byte">> \o <<"nCols">>
  /\ R!Plan("prepare", 5) # <<>> /\ Head(R!Plan("prepare", 5)) = "status"
<1>1. R!Plan("prepare", 5) = <<"status">> \o <<"int32", "byte", "paramCount", "byte", "nCols">>
  BY DEF R!Plan
<1>2. PICK a \in Entry, b \in Entry, c \in Entry, d \in Entry, e \in Entry :
        a = "status" /\ b = "int32" /\ c = "byte" /\ d = "paramCount" /\ e = "nCols"
  BY DEF Entry
<1>3. <<b, c, d, c>> \o <<e>> = <<b, c, d, c, e>>
  BY TupleConcat5
<1>4. <<a>> \o <<b, c, d, c>> = <<a, b, c, d, c>>
  BY TupleCons5
<1>5. PICK m \in Plans, s \in Plans, l \in Plans : m = <<b, c, d, c>> /\ s = <<a>> /\ l = <<e>>
  <2>1. <<b, c, d, c>> \in Plans /\ <<a>> \in Plans /\ <<e>> \in Plans
    BY DEF Plans
  <2> QED
    BY <2>1, Zenon
<1>6. (s \o m) \o l = s \o (m \o l) /\ m \o l \in Plans
  BY PlanAssoc, PlansConcat
<1>7. s \o (m \o l) # <<>> /\ Head(s \o (m \o l)) = a
  BY <1>5, <1>6, ConsParts DEF Plans
<1> QED
  BY <1>1, <1>2, <1>3, <1>4, <1>5, <1>6, <1>7

LEMMA PrepareStarts ==
  ASSUME R!RepliesConstants, NEW r \in R!PrepareReplies
  PROVE  Starts("prepare", 5, r.fields)
<1>1. PICK p \in {0, SqlLen}, cols \in R!UpTo(R!PrepareColumns) :
        r = R!Counted(<<R!F32(9), R!F32(0), R!F8(21), R!F32(p), R!F8(0)>>, cols, <<>>)
  BY DEF R!PrepareReplies
<1>2. /\ cols \in Seq(R!PrepareColumns) /\ Len(cols) \in 0 .. MaxItems /\ cols \in Seq(Fields)
  BY ColumnTypes, ItemsType
<1>3. Len(cols) \in Int32
  BY <1>2, ItemsCount
<1>4. ASSUME NEW i \in 1 .. Len(cols)
      PROVE  Parses("prepare", ItemPlan("prepare", "nCols"), cols[i]) /\ Width(cols[i]) >= SmallestItem("nCols")
  <2>1. cols[i] \in R!PrepareColumns
    BY <1>2
  <2>2. PICK t \in R!Types, s \in R!Strings : cols[i] = R!PrepareColumn(t, s)
    BY <2>1 DEF R!PrepareColumns
  <2>3. ItemPlan("prepare", "nCols") = R!ColumnPlan /\ SmallestItem("nCols") = 28
    BY DEF ItemPlan, SmallestItem
  <2> QED
    BY <2>2, <2>3, ParsesPrepareColumn, PrepareColumnWidth
<1>5. Countable("prepare", "nCols", cols)
  BY <1>2, <1>3, <1>4 DEF Countable, Counts
<1>6. PICK hs \in Fields : /\ hs = <<R!F32(9), R!F32(0), R!F8(21), R!F32(p), R!F8(0)>>
                           /\ Parses("prepare", <<"status", "int32", "byte", "paramCount", "byte">>, hs)
  BY ParsesPrepareHead DEF Parses
<1>7. hs # <<>> /\ hs[1] = R!F32(9) /\ R!F32(9).v \in Int
  <2>1. \A a, b, c, d, e : <<a, b, c, d, e>> # <<>> /\ <<a, b, c, d, e>>[1] = a
    OBVIOUS
  <2>2. R!F32(9).v = 9
    BY DEF R!F32, R!F
  <2> QED
    BY <1>6, <2>1, <2>2
<1>8. r = R!Counted(hs, cols, <<>>) /\ <<>> \in Fields
  BY <1>1, <1>6, EmptyConcat
<1>9. PICK gs \in Fields : /\ r.fields = gs \o <<>> /\ gs[1] = R!F32(9)
                           /\ Parses("prepare", R!Plan("prepare", 5), gs)
  <2>1. CountedBy("prepare", <<"status", "int32", "byte", "paramCount", "byte">> \o <<"nCols">>, hs, cols, <<>>)
    BY <1>5, <1>6, <1>8, ParsesCounted
  <2>2. CountedBy("prepare", R!Plan("prepare", 5), hs, cols, <<>>)
    BY <2>1, PreparePlan
  <2> QED
    BY <1>7, <1>8, <2>2 DEF CountedBy
<1>10. r.fields = gs
  BY <1>9, EmptyConcat
<1>11. Rest("prepare", 5, gs[1].v, R!Plan("prepare", 5), gs)
  BY <1>9, RestParses
<1> QED
  BY <1>7, <1>9, <1>10, <1>11, PreparePlan DEF Starts

\* The byte that may follow the rows, and the entry that reads it.
EndPlan(ver) == IF ver >= 5 THEN <<"completed">> ELSE <<>>
EndFields(ver) == IF ver >= 5 THEN R!Optional(<<R!F8(1)>>) ELSE <<>>

LEMMA EndLast ==
  ASSUME NEW ver
  PROVE  EndPlan(ver) \in Plans /\ EndFields(ver) \in Fields /\ Last1(EndPlan(ver), EndFields(ver))
<1>1. CASE ver >= 5
  <2>1. R!F8(1) \in FieldSet
    BY SmallInts, FieldTypes
  <2>2. PICK y \in FieldSet : /\ R!Optional(<<R!F8(1)>>) = <<y>> /\ y.opt /\ y.b = R!F8(1).b /\ y.v = R!F8(1).v
    BY <2>1, OptionalOne
  <2>3. Reads("completed", y)
    <3>1. Same(y, R!F8(1))
      BY <2>2 DEF Same
    <3> QED
      BY <3>1, SmallInts, ReadsByte
  <2>4. EndPlan(ver) = <<"completed">> /\ EndFields(ver) = <<y>>
    BY <1>1, <2>2 DEF EndPlan, EndFields
  <2>5. Last1(<<"completed">>, <<y>>)
    BY <2>2, <2>3, Zenon DEF Last1
  <2>6. <<"completed">> \in Plans /\ <<y>> \in Fields
    BY SomeFields DEF Plans, Entry
  <2> QED
    BY <2>4, <2>5, <2>6
<1>2. CASE ~(ver >= 5)
  <2>1. EndPlan(ver) = <<>> /\ EndFields(ver) = <<>>
    BY <1>2 DEF EndPlan, EndFields
  <2>2. Last1(<<>>, <<>>)
    BY DEF Last1
  <2> QED
    BY <2>1, <2>2, EmptyConcat
<1> QED
  BY <1>1, <1>2

\* The rows of a reply.
Tuples(tuples) == [i \in DOMAIN tuples |-> R!Tuple(i, tuples[i])]

LEMMA TuplesCountable ==
  ASSUME R!RepliesConstants, NEW k, NEW tuples \in R!UpTo(R!Values)
  PROVE  Countable(k, "nTuples", Tuples(tuples)) /\ Len(Tuples(tuples)) = Len(tuples)
<1>1. PICK n \in Nat : /\ n = Len(tuples) /\ n \in 0 .. MaxItems /\ tuples \in Seq(R!Values)
                       /\ Tuples(tuples) \in Seq(Fields)
  BY TuplesType DEF Tuples
<1>2. DOMAIN tuples = 1 .. n
  BY <1>1
<1>3. Tuples(tuples) = [i \in 1 .. n |-> R!Tuple(i, tuples[i])]
  BY <1>2 DEF Tuples
<1>4. PICK ts \in Seq(Fields) : ts = Tuples(tuples) /\ Len(ts) = n /\ \A i \in 1 .. n : ts[i] = R!Tuple(i, tuples[i])
  BY <1>1, <1>3
<1>5. n \in Int32
  BY <1>1, ItemsCount
<1>6. ASSUME NEW i \in 1 .. n PROVE i \in Int32
  <2>1. i \in 0 .. MaxItems
    BY <1>1, RepliesBounds
  <2> QED
    BY <2>1, ItemsCount
<1>7. ItemPlan(k, "nTuples") = R!TuplePlan /\ SmallestItem("nTuples") = 1
  BY DEF ItemPlan, SmallestItem
<1>8. ASSUME NEW i \in 1 .. n
      PROVE  Parses(k, R!TuplePlan, ts[i]) /\ Width(ts[i]) >= 1
  <2>1. tuples[i] \in R!Values /\ i \in Int32 /\ i \in Int
    BY <1>1, <1>6
  <2>2. Parses(k, R!TuplePlan, R!Tuple(i, tuples[i]))
    BY <2>1, ParsesTuple
  <2>3. PICK a \in FieldSet, b \in FieldSet, c \in FieldSet : a = R!F32(i) /\ b = R!Raw(8) /\ c = tuples[i]
    BY <2>1, FieldTypes
  <2>4. Len(a.b) \in Nat /\ Len(c.b) \in Nat /\ Len(b.b) = 8
    BY <2>3, RawWidth DEF FieldSet
  <2>5. Width(<<a, b, c>>) = Len(a.b) + Len(b.b) + Len(c.b)
    BY WidthTuples
  <2>6. Width(<<a, b, c>>) >= 1
    <3>1. PICK m \in Nat, n2 \in Nat : m = Len(a.b) /\ n2 = Len(c.b)
      BY <2>4
    <3>2. Width(<<a, b, c>>) = m + 8 + n2
      BY <2>4, <2>5, <3>1
    <3> QED
      BY <3>2
  <2>7. R!Tuple(i, tuples[i]) = <<a, b, c>>
    BY <2>3 DEF R!Tuple
  <2> QED
    BY <1>4, <2>2, <2>6, <2>7
<1>9. "nTuples" \in Counts
  BY DEF Counts
<1> QED
  BY <1>1, <1>4, <1>5, <1>7, <1>8, <1>9 DEF Countable

LEMMA RowsRest ==
  ASSUME R!RepliesConstants, NEW k, NEW ver, NEW tuples \in R!UpTo(R!Values)
  PROVE  Rest1(k, <<"nTuples">> \o EndPlan(ver), R!FetchBlock(ver, tuples))
<1>1. PICK ts \in Seq(Fields) : ts = Tuples(tuples) /\ Countable(k, "nTuples", ts) /\ Len(ts) = Len(tuples)
  BY TuplesCountable DEF Countable
<1>2. Parses(k, <<"nTuples">>, <<R!F32(Len(ts))>> \o R!FlattenSeq(ts))
  BY <1>1, ParsesCount DEF Countable
<1>3. R!FetchBlock(ver, tuples) = (<<R!F32(Len(ts))>> \o R!FlattenSeq(ts)) \o EndFields(ver)
  BY <1>1 DEF R!FetchBlock, EndFields, Tuples
<1>4. Rest1(k, <<"nTuples">> \o EndPlan(ver), (<<R!F32(Len(ts))>> \o R!FlattenSeq(ts)) \o EndFields(ver))
  BY <1>2, EndLast, Rest1Last
<1> QED
  BY <1>3, <1>4

LEMMA FetchStarts ==
  ASSUME R!RepliesConstants, NEW ver, NEW r \in R!FetchReplies(ver)
  PROVE  Starts("fetch", ver, r.fields)
<1>1. PICK tuples \in R!UpTo(R!Values) :
        r = [at |-> 2, fields |-> <<R!F32(0)>> \o R!FetchBlock(ver, tuples)]
  BY DEF R!FetchReplies
<1>2. PICK fb : fb = R!FetchBlock(ver, tuples) /\ Rest1("fetch", <<"nTuples">> \o EndPlan(ver), fb)
  BY RowsRest
<1>3. PICK z \in FieldSet : z = R!F32(0) /\ Reads("status", z) /\ z.v = 0
  <2>1. 0 \in {0, 3, 9, 77}
    OBVIOUS
  <2> QED
    BY <2>1, StatusFields
<1>4. Parses("fetch", <<"status">>, <<z>>)
  BY <1>3, PlainNamesAre, ParsesOne DEF PlainNames
<1>5. PICK rp \in Plans, fs \in Fields : /\ rp = <<"nTuples">> \o EndPlan(ver) /\ fs = fb
                                         /\ Rest1("fetch", <<"status">> \o rp, <<z>> \o fs)
  BY <1>2, <1>4, Rest1Before
<1>6. r.fields = <<z>> \o fs
  BY <1>1, <1>2, <1>3, <1>5
<1>7. R!Plan("fetch", ver) = <<"status">> \o rp
  BY <1>5 DEF R!Plan, EndPlan
<1>8. <<"status">> \o rp # <<>> /\ Head(<<"status">> \o rp) = "status"
  <2>1. "status" \in Entry
    BY DEF Entry
  <2> QED
    BY <2>1, ConsParts DEF Plans
<1>9. <<z>> \o fs \in Fields /\ (<<z>> \o fs)[1] = z
  BY DEF Fields
<1>10. Rest("fetch", ver, 0, <<"status">> \o rp, <<z>> \o fs)
  BY <1>5, RestFromRest1
<1>11. 0 \in Int
  OBVIOUS
<1> QED
  BY <1>3, <1>6, <1>7, <1>8, <1>9, <1>10, <1>11 DEF Starts

\* An entry of a batch, behind its type in the reply to a batch of statements.
LEMMA BatchItemParses ==
  ASSUME NEW k \in {"batch", "sqlbatch"}, NEW item \in BatchItems,
         NEW pre, pre = IF k = "sqlbatch" THEN <<R!F8(20)>> ELSE <<>>
  PROVE  Parses(k, ItemPlan(k, "nBatch"), pre \o item) /\ Width(pre \o item) >= SmallestItem("nBatch")
<1>1. Parses(k, <<"result">>, item) /\ item \in Fields /\ Width(item) >= 12 /\ Width(item) \in Nat
  BY ParsesResult, BatchItemWidth, WidthConcat
<1>2. SmallestItem("nBatch") = 12
  BY DEF SmallestItem
<1>3. CASE k = "sqlbatch"
  <2>1. PICK x \in FieldSet : x = R!F8(20) /\ Reads("byte", x)
    BY SentFields
  <2>2. Parses(k, <<"byte">>, <<x>>)
    BY <2>1, PlainNamesAre, ParsesOne DEF PlainNames
  <2>3. Parses(k, <<"byte">> \o <<"result">>, <<x>> \o item)
    BY <1>1, <2>2, ParsesConcat
  <2>4. <<"byte">> \o <<"result">> = <<"byte", "result">>
    <3>1. "byte" \in Entry /\ "result" \in Entry
      BY DEF Entry
    <3> QED
      BY <3>1, TupleConcat2
  <2>5. ItemPlan(k, "nBatch") = <<"byte", "result">>
    BY <1>3 DEF ItemPlan
  <2>6. <<x>> \in Fields
    BY SomeFields
  <2>7. Width(<<x>> \o item) = Width(<<x>>) + Width(item) /\ Width(<<x>>) \in Nat
    BY <1>1, <2>6, WidthConcat
  <2>8. Width(<<x>> \o item) >= 12
    BY <1>1, <2>7
  <2>9. pre = <<x>>
    BY <1>3, <2>1
  <2> QED
    BY <1>2, <2>3, <2>4, <2>5, <2>8, <2>9
<1>4. CASE k = "batch"
  <2>1. k # "sqlbatch"
    BY <1>4
  <2>2. ItemPlan(k, "nBatch") = <<"result">>
    BY <2>1 DEF ItemPlan
  <2>3. pre \o item = item
    BY <1>1, <2>1, EmptyConcat
  <2> QED
    BY <1>1, <1>2, <2>2, <2>3
<1> QED
  BY <1>3, <1>4

LEMMA BatchCountable ==
  ASSUME R!RepliesConstants, NEW k \in {"batch", "sqlbatch"}, NEW items \in R!UpTo(BatchItems)
  PROVE  Countable(k, "nBatch", TypedItems(items, k = "sqlbatch"))
<1>1. PICK n \in 0 .. MaxItems : items \in [1 .. n -> BatchItems]
  BY DEF R!UpTo
<1>2. n \in Nat /\ n \in Int32
  BY RepliesBounds, ItemsCount
<1>3. PICK pre : pre = IF k = "sqlbatch" THEN <<R!F8(20)>> ELSE <<>>
  OBVIOUS
<1>4. DOMAIN items = 1 .. n
  BY <1>1
<1>5. PICK ts : ts = TypedItems(items, k = "sqlbatch") /\ ts \in Seq(Fields)
  BY TypedItemsType
<1>6. ts = [i \in 1 .. n |-> pre \o items[i]]
  BY <1>3, <1>4, <1>5 DEF TypedItems
<1>7. Len(ts) = n /\ \A i \in 1 .. n : ts[i] = pre \o items[i]
  BY <1>2, <1>6
<1>8. ASSUME NEW i \in 1 .. n
      PROVE  Parses(k, ItemPlan(k, "nBatch"), ts[i]) /\ Width(ts[i]) >= SmallestItem("nBatch")
  <2>1. items[i] \in BatchItems
    BY <1>1
  <2>2. Parses(k, ItemPlan(k, "nBatch"), pre \o items[i]) /\ Width(pre \o items[i]) >= SmallestItem("nBatch")
    BY <1>3, <2>1, BatchItemParses
  <2> QED
    BY <1>7, <2>2
<1>9. "nBatch" \in Counts
  BY DEF Counts
<1> QED
  BY <1>2, <1>5, <1>7, <1>8, <1>9 DEF Countable

\* A number that the later versions append.
LEMMA TailParses ==
  ASSUME NEW k, NEW tp, NEW tail, NEW ver,
         tp = (IF ver >= 5 THEN <<"int32">> ELSE <<>>),
         tail = (IF ver >= 5 THEN <<R!F32(0)>> ELSE <<>>)
  PROVE  Parses(k, tp, tail) /\ tp \in Plans /\ tail \in Fields
<1>1. CASE ver >= 5
  BY <1>1, SentFields, PlainNamesAre, ParsesOne DEF PlainNames, Parses
<1>2. CASE ~(ver >= 5)
  BY <1>2, ParsesEmpty DEF Parses
<1> QED
  BY <1>1, <1>2

LEMMA SinglePlans == \A e \in Entry : <<e>> \in Plans
  BY DEF Plans

LEMMA BatchStarts ==
  ASSUME R!RepliesConstants, NEW ver, NEW k \in {"batch", "sqlbatch"},
         NEW r \in R!BatchReplies(ver, k = "sqlbatch")
  PROVE  Starts(k, ver, r.fields)
<1>1. PICK items \in R!UpTo(BatchItems) :
        r = R!Counted(<<R!F32(0)>>, TypedItems(items, k = "sqlbatch"), IF ver >= 5 THEN <<R!F32(0)>> ELSE <<>>)
  BY DEF R!BatchReplies, BatchItems, TypedItems
<1>2. PICK ts : ts = TypedItems(items, k = "sqlbatch") /\ Countable(k, "nBatch", ts)
  BY BatchCountable
<1>3. PICK z \in FieldSet : z = R!F32(0) /\ Reads("status", z) /\ z.v = 0
  <2>1. 0 \in {0, 3, 9, 77}
    OBVIOUS
  <2> QED
    BY <2>1, StatusFields
<1>4. PICK hs \in Fields : hs = <<z>> /\ hs # <<>> /\ hs[1] = z /\ Parses(k, <<"status">>, hs)
  <2>1. Parses(k, <<"status">>, <<z>>)
    BY <1>3, PlainNamesAre, ParsesOne DEF PlainNames
  <2>2. <<z>> # <<>> /\ <<z>>[1] = z /\ <<z>> \in Fields
    BY SomeFields
  <2> QED
    BY <2>1, <2>2
<1>5. PICK tp \in Plans, tail \in Fields :
        /\ tp = (IF ver >= 5 THEN <<"int32">> ELSE <<>>)
        /\ tail = (IF ver >= 5 THEN <<R!F32(0)>> ELSE <<>>)
        /\ Parses(k, tp, tail)
  BY TailParses
<1>6. r = R!Counted(hs, ts, tail)
  BY <1>1, <1>2, <1>3, <1>4, <1>5
<1>7. CountedBy(k, <<"status">> \o <<"nBatch">>, hs, ts, tail)
  BY <1>2, <1>4, <1>5, ParsesCounted
<1>8. PICK gs \in Fields : /\ r.fields = gs \o tail /\ gs # <<>> /\ gs[1] = z
                           /\ Parses(k, <<"status">> \o <<"nBatch">>, gs)
  BY <1>4, <1>6, <1>7 DEF CountedBy
<1>9. PICK a \in Plans, b \in Plans : a = <<"status">> /\ b = <<"nBatch">>
  <2>1. "status" \in Entry /\ "nBatch" \in Entry
    BY DEF Entry
  <2> QED
    BY <2>1, SinglePlans
<1>10. Parses(k, (a \o b) \o tp, gs \o tail)
  BY <1>5, <1>8, <1>9, ParsesConcat
<1>11. (a \o b) \o tp = a \o (b \o tp) /\ b \o tp \in Plans
  BY PlanAssoc, PlansConcat
<1>12. R!Plan(k, ver) = a \o (b \o tp)
  <2>1. k \notin {"fetch", "error"} /\ k # "prepare" /\ k # "schema" /\ k # "execute"
    OBVIOUS
  <2> QED
    BY <1>5, <1>9, <2>1 DEF R!Plan
<1>13. a \o (b \o tp) # <<>> /\ Head(a \o (b \o tp)) = "status"
  <2>1. "status" \in Entry
    BY DEF Entry
  <2> QED
    BY <1>9, <1>11, <2>1, ConsParts DEF Plans
<1>14. gs \o tail \in Fields /\ (gs \o tail)[1] = z
  BY <1>8, FieldsConcat, FirstOfConcat
<1>15. Rest(k, ver, 0, a \o (b \o tp), gs \o tail) /\ 0 \in Int
  BY <1>10, <1>11, RestParses
<1> QED
  BY <1>3, <1>8, <1>12, <1>13, <1>14, <1>15 DEF Starts

\* The broker's information, and what its version says comes behind it.
LEMMA BrokerReads ==
  ASSUME NEW ver \in R!Versions
  PROVE  /\ R!Broker(ver) \in FieldSet /\ Reads("broker", R!Broker(ver))
         /\ R!Version(R!Broker(ver).v) = ver
<1>1. PICK w \in Nat : w = 64 + ver /\ (w \div 64) % 2 = 1 /\ w % 64 = ver
  BY DEF R!Versions
<1>2. PICK c : c = <<1, 1, 1, 1, w, 0, 0, 0>>
  OBVIOUS
<1>3. Len(c) = 8 /\ c[5] = w
  BY <1>2
<1>4. R!Broker(ver) = R!F(c, c)
  BY <1>1, <1>2 DEF R!Broker
<1>5. R!Broker(ver).b = c /\ R!Broker(ver).v = c
  BY <1>4 DEF R!F
<1>6. R!Size("broker") = 8
  BY DEF R!Size
<1>7. FixedOf("broker", c) = c
  BY <1>6 DEF FixedOf
<1>8. Reads("broker", R!Broker(ver))
  BY <1>3, <1>5, <1>6, <1>7 DEF Reads
<1>9. R!Version(c) = ver
  BY <1>1, <1>3 DEF R!Version
<1> QED
  BY <1>5, <1>8, <1>9, BrokerType

LEMMA BrokerRest ==
  ASSUME NEW ver \in R!Versions, NEW k, NEW a, NEW b,
         a = (IF ver >= 4 THEN <<R!F32(1)>> ELSE <<>>),
         b = (IF ver >= 3 THEN <<R!Raw(20)>> ELSE R!Optional(<<R!F32(5)>>)),
         NEW v, R!Version(v) = ver, NEW left
  PROVE  a \in Fields /\ b \in Fields /\ Rest1(k, R!Items(k, "broker", v, left), a \o b)
<1>1. PICK p, q : /\ p = (IF ver >= 4 THEN <<"int32">> ELSE <<>>)
                  /\ q = (IF ver >= 3 THEN <<"bytes20">> ELSE <<"legacy">>)
  OBVIOUS
<1>2. R!Items(k, "broker", v, left) = p \o q
  BY <1>1 DEF R!Items
<1>3. Parses(k, p, a) /\ p \in Plans /\ a \in Fields
  <2>1. CASE ver >= 4
    BY <1>1, <2>1, SentFields, PlainNamesAre, ParsesOne DEF PlainNames, Parses
  <2>2. CASE ~(ver >= 4)
    BY <1>1, <2>2, ParsesEmpty DEF Parses
  <2> QED
    BY <2>1, <2>2
<1>4. Rest1(k, q, b) /\ q \in Plans /\ b \in Fields
  <2>1. CASE ver >= 3
    <3>1. PICK x \in FieldSet : x = R!Raw(20) /\ Reads("bytes20", x)
      BY SentFields
    <3>2. Parses(k, <<"bytes20">>, <<x>>)
      BY <3>1, PlainNamesAre, ParsesOne DEF PlainNames
    <3>3. Last1(<<>>, <<>>)
      BY DEF Last1
    <3>4. Rest1(k, <<"bytes20">> \o <<>>, <<x>> \o <<>>)
      BY <3>2, <3>3, EmptyConcat, Rest1Last
    <3>5. <<"bytes20">> \o <<>> = <<"bytes20">> /\ <<x>> \o <<>> = <<x>>
      BY <3>2, EmptyConcat DEF Parses
    <3>6. q = <<"bytes20">> /\ b = <<x>>
      BY <1>1, <2>1, <3>1
    <3> QED
      BY <3>2, <3>4, <3>5, <3>6 DEF Parses
  <2>2. CASE ~(ver >= 3)
    <3>1. 5 \in Int /\ 5 \in Int32
      BY SmallInts
    <3>2. R!F32(5) \in FieldSet
      BY <3>1, FieldTypes
    <3>3. PICK y \in FieldSet : /\ R!Optional(<<R!F32(5)>>) = <<y>> /\ y.opt
                                /\ y.b = R!F32(5).b /\ y.v = R!F32(5).v
      BY <3>2, OptionalOne
    <3>4. Reads("legacy", y)
      <4>1. Same(y, R!F32(5))
        BY <3>3 DEF Same
      <4>2. "legacy" \in FourBytes /\ "legacy" # "status"
        BY DEF FourBytes
      <4> QED
        BY <3>1, <4>1, <4>2, ReadsInt32
    <3>5. Last1(<<"legacy">>, <<y>>)
      BY <3>3, <3>4, Zenon DEF Last1
    <3>6. <<"legacy">> \in Plans /\ <<y>> \in Fields
      BY SomeFields, SinglePlans DEF Entry
    <3>7. Rest1(k, <<"legacy">>, <<y>>)
      BY <3>5, <3>6, Rest1Only
    <3>8. q = <<"legacy">> /\ b = <<y>>
      BY <1>1, <2>2, <3>3
    <3> QED
      BY <3>6, <3>7, <3>8
  <2> QED
    BY <2>1, <2>2
<1>5. Rest1(k, p \o q, a \o b)
  BY <1>3, <1>4, Rest1Before
<1> QED
  BY <1>2, <1>3, <1>4, <1>5

LEMMA ConnectStarts ==
  ASSUME NEW ver \in R!Versions, NEW r \in R!ConnectReplies(ver)
  PROVE  Starts("connect", ver, r.fields)
<1>1. r = [at |-> 0, fields |-> <<R!F32(77), R!Broker(ver)>>
             \o (IF ver >= 4 THEN <<R!F32(1)>> ELSE <<>>)
             \o (IF ver >= 3 THEN <<R!Raw(20)>> ELSE R!Optional(<<R!F32(5)>>))]
  BY DEF R!ConnectReplies
<1>2. PICK z \in FieldSet : z = R!F32(77) /\ Reads("status", z) /\ z.v = 77
  <2>1. 77 \in {0, 3, 9, 77}
    OBVIOUS
  <2> QED
    BY <2>1, StatusFields
<1>3. PICK x \in FieldSet : x = R!Broker(ver) /\ Reads("broker", x) /\ R!Version(x.v) = ver
  BY BrokerReads
<1>4. PICK a, b : /\ a = (IF ver >= 4 THEN <<R!F32(1)>> ELSE <<>>)
                  /\ b = (IF ver >= 3 THEN <<R!Raw(20)>> ELSE R!Optional(<<R!F32(5)>>))
  OBVIOUS
<1>5. a \in Fields /\ b \in Fields /\ \A left : Rest1("connect", R!Items("connect", "broker", x.v, left), a \o b)
  BY <1>3, <1>4, BrokerRest
<1>6. PICK gs \in Fields : gs = a \o b
  BY <1>5, FieldsConcat
<1>7. PICK f2 \in Fields, zs \in Fields, xs \in Fields : f2 = <<x>> \o gs /\ zs = <<z>> /\ xs = <<x>>
  BY SomeFields, FieldsConcat
<1>8. Ending("connect", ver, 77, <<"broker">>, f2)
  BY <1>3, <1>5, <1>6, <1>7, Zenon DEF Ending
<1>9. Parses("connect", <<"status">>, <<z>>)
  BY <1>2, PlainNamesAre, ParsesOne DEF PlainNames
<1>10. "broker" \in Entry /\ "status" \in Entry
  BY DEF Entry
<1>11. <<"broker">> \in Plans
  BY <1>10, SinglePlans
<1>12. Rest("connect", ver, 77, <<"status">> \o <<"broker">>, <<z>> \o f2)
  BY <1>8, <1>9, <1>11, RestOf
<1>13. R!Plan("connect", ver) = <<"status">> \o <<"broker">>
  BY DEF R!Plan
<1>14. <<"status">> \o <<"broker">> # <<>> /\ Head(<<"status">> \o <<"broker">>) = "status"
  OBVIOUS
<1>15. r.fields = <<z>> \o f2
  <2>1. r.fields = (<<z, x>> \o a) \o b
    BY <1>1, <1>2, <1>3, <1>4
  <2>2. <<z, x>> = zs \o xs
    BY <1>7, TupleConcat2
  <2>3. ((zs \o xs) \o a) \o b = (zs \o xs) \o (a \o b)
    <3>1. PICK zx \in Fields : zx = zs \o xs
      BY FieldsConcat
    <3>2. (zx \o a) \o b = zx \o (a \o b)
      BY <1>5, FieldsAssoc
    <3> QED
      BY <3>1, <3>2
  <2>4. (zs \o xs) \o gs = zs \o (xs \o gs)
    BY FieldsAssoc
  <2> QED
    BY <1>6, <1>7, <2>1, <2>2, <2>3, <2>4
<1>16. <<z>> \o f2 \in Fields /\ (<<z>> \o f2)[1] = z
  BY DEF Fields
<1>17. 77 \in Int
  OBVIOUS
<1> QED
  BY <1>2, <1>12, <1>13, <1>14, <1>15, <1>16, <1>17 DEF Starts

LEMMA OptionalWidth ==
  ASSUME NEW fs \in Fields
  PROVE  AllOpt(R!Optional(fs)) /\ Width(R!Optional(fs)) = Width(fs)
<1>1. PICK gs \in Fields : /\ gs = R!Optional(fs) /\ Len(gs) = Len(fs)
                           /\ \A i \in 1 .. Len(fs) : gs[i].b = fs[i].b /\ gs[i].v = fs[i].v /\ gs[i].opt
  BY OptionalType
<1>2. AllOpt(gs)
  BY <1>1 DEF AllOpt
<1>3. Alike(gs, fs)
  BY <1>1 DEF Alike, Same
<1> QED
  BY <1>1, <1>2, <1>3, AlikeBytes DEF Width

\* The rows that come with the reply to EXECUTE.
LEMMA InlineRows ==
  ASSUME R!RepliesConstants, NEW ver, NEW tuples \in R!UpTo(R!Values), NEW ys,
         ys = R!Optional(<<R!F32(0)>> \o R!FetchBlock(ver, tuples))
  PROVE  ys \in Fields /\ AllOpt(ys) /\ Width(ys) > 4 /\ Rest1("execute", RowsPlan(ver), ys)
<1>1. PICK z \in FieldSet : z = R!F32(0) /\ Reads("int32", z) /\ Len(z.b) = 4
  <2>1. 0 \in Int
    OBVIOUS
  <2> QED
    BY <2>1, SentFields, FieldWidths
<1>2. PICK fb \in Fields : fb = R!FetchBlock(ver, tuples) /\ Rest1("execute", <<"nTuples">> \o EndPlan(ver), fb)
  BY RowsRest, FetchBlockType
<1>3. Parses("execute", <<"int32">>, <<z>>)
  BY <1>1, PlainNamesAre, ParsesOne DEF PlainNames
<1>4. Rest1("execute", <<"int32">> \o (<<"nTuples">> \o EndPlan(ver)), <<z>> \o fb)
  BY <1>2, <1>3, Rest1Before
<1>5. PICK zf \in Fields : zf = <<z>> \o fb
  BY SomeFields, FieldsConcat
<1>6. ys = R!Optional(zf)
  BY <1>1, <1>2, <1>5
<1>7. RowsPlan(ver) = <<"int32">> \o (<<"nTuples">> \o EndPlan(ver))
  <2>1. PICK a \in Entry, b \in Entry : a = "int32" /\ b = "nTuples"
    BY DEF Entry
  <2>2. PICK pa \in Plans, pb \in Plans, e \in Plans : pa = <<a>> /\ pb = <<b>> /\ e = EndPlan(ver)
    BY EndLast, SinglePlans
  <2>3. RowsPlan(ver) = <<a, b>> \o e
    BY <2>1, <2>2 DEF RowsPlan, EndPlan
  <2>4. <<a>> \o <<b>> = <<a, b>>
    BY TupleConcat2
  <2>5. (pa \o pb) \o e = pa \o (pb \o e)
    BY PlanAssoc
  <2> QED
    BY <2>1, <2>2, <2>3, <2>4, <2>5
<1>8. Rest1("execute", RowsPlan(ver), ys)
  BY <1>4, <1>5, <1>6, <1>7, Rest1Optional
<1>9. Width(zf) > 4
  <2>1. PICK n \in Int, its \in Fields : fb = (<<R!F32(n)>> \o its) \o EndFields(ver)
    <3>1. PICK ts \in Seq(Fields) : ts = Tuples(tuples) /\ Len(ts) = Len(tuples)
      BY TuplesCountable DEF Countable
    <3>2. R!FetchBlock(ver, tuples) = (<<R!F32(Len(ts))>> \o R!FlattenSeq(ts)) \o EndFields(ver)
      BY <3>1 DEF R!FetchBlock, EndFields, Tuples
    <3>3. R!FlattenSeq(ts) \in Fields /\ Len(ts) \in Int
      BY FlattenType DEF Fields
    <3> QED
      BY <1>2, <3>2, <3>3
  <2>2. PICK c \in FieldSet : c = R!F32(n) /\ Len(c.b) = 4
    BY FieldTypes, FieldWidths
  <2>3. PICK cs \in Fields, e \in Fields, zs \in Fields : cs = <<c>> /\ e = EndFields(ver) /\ zs = <<z>>
    BY EndLast, SomeFields
  <2>4. Width(cs) = 4 /\ Width(zs) = 4
    BY <1>1, <2>2, <2>3, WidthOne
  <2>5. PICK ci \in Fields : ci = cs \o its
    BY <2>1, FieldsConcat
  <2>6. fb = ci \o e
    BY <2>1, <2>2, <2>3, <2>5
  <2>7. PICK m \in Nat, m2 \in Nat : Width(ci) = 4 + m /\ Width(fb) = Width(ci) + m2
    <3>1. Width(ci) = Width(cs) + Width(its)
      BY <2>1, <2>5, WidthConcat
    <3>2. Width(its) \in Nat /\ Width(e) \in Nat
      BY <2>1, WidthConcat
    <3>3. Width(fb) = Width(ci) + Width(e)
      BY <2>6, WidthConcat
    <3> QED
      BY <2>4, <3>1, <3>2, <3>3
  <2>8. Width(zf) = 4 + Width(fb)
    BY <1>5, <2>3, <2>4, WidthConcat
  <2> QED
    BY <2>7, <2>8
<1> QED
  BY <1>6, <1>8, <1>9, OptionalType, OptionalWidth

\* The result infos of a reply to EXECUTE.
LEMMA ResultsCountable ==
  ASSUME R!RepliesConstants, NEW n \in 0 .. MaxItems
  PROVE  Countable("execute", "nResults", [i \in 1 .. n |-> R!ResultInfo])
<1>1. n \in Nat /\ n \in Int32
  BY RepliesBounds, ItemsCount
<1>2. PICK ri \in Fields : ri = R!ResultInfo
  BY ResultInfoType
<1>3. PICK ts \in Seq(Fields) : /\ ts = [i \in 1 .. n |-> R!ResultInfo] /\ Len(ts) = n
                                /\ \A i \in 1 .. n : ts[i] = ri
  <2>1. Copies(n, ri) \in Seq(Fields) /\ Len(Copies(n, ri)) = n
    BY <1>1, CopiesFacts DEF Fields
  <2>2. Copies(n, ri) = [i \in 1 .. n |-> R!ResultInfo]
    BY <1>2 DEF Copies
  <2>3. \A i \in 1 .. n : Copies(n, ri)[i] = ri
    BY DEF Copies
  <2> QED
    BY <2>1, <2>2, <2>3
<1>4. Parses("execute", ResultPlan, ri)
  BY <1>2, ParsesResultInfo
<1>5. Width(ri) >= 1
  <2>1. 21 \in Byte /\ 1 \in Int /\ 0 \in Int
    BY DEF Byte
  <2>2. PICK a \in FieldSet, b \in FieldSet, c \in FieldSet, d \in FieldSet :
          a = R!F8(21) /\ b = R!F32(1) /\ c = R!Raw(8) /\ d = R!F32(0) /\ Len(a.b) = 1
    BY <2>1, FieldTypes, FieldWidths
  <2>3. ri = <<a, b, c, d, d>>
    BY <1>2, <2>2 DEF R!ResultInfo
  <2>4. Head(ri) = a /\ ri # <<>>
    BY <2>3
  <2>5. BytesOf(ri) = a.b \o BytesOf(Tail(ri)) /\ Tail(ri) \in Fields /\ a.b \in Seq(Byte)
    BY <2>4, BytesOfHead
  <2>6. PICK u \in Seq(Byte) : u = BytesOf(Tail(ri))
    BY <2>5, BytesOfType
  <2>7. Len(a.b \o u) = 1 + Len(u) /\ Len(u) \in Nat
    <3>1. PICK ab \in Seq(Byte) : ab = a.b /\ Len(ab) = 1
      BY <2>2, <2>5
    <3>2. Len(ab \o u) = Len(ab) + Len(u) /\ Len(u) \in Nat
      BY ConcatProperties
    <3> QED
      BY <3>1, <3>2
  <2> QED
    BY <2>5, <2>6, <2>7 DEF Width
<1>6. ItemPlan("execute", "nResults") = ResultPlan /\ SmallestItem("nResults") = 1 /\ "nResults" \in Counts
  BY DEF ItemPlan, SmallestItem, Counts
<1>7. Countable("execute", "nResults", ts)
  BY <1>1, <1>3, <1>4, <1>5, <1>6 DEF Countable
<1> QED
  BY <1>3, <1>7

\* The column information that version 2 added, when it is absent.
LEMMA ColumnInfoParses ==
  ASSUME NEW k, NEW cp, NEW cf, NEW ver,
         cp = (IF ver >= 2 THEN <<"columnInfo">> ELSE <<>>),
         cf = (IF ver >= 2 THEN <<R!F8(0)>> ELSE <<>>)
  PROVE  Parses(k, cp, cf) /\ cp \in Plans /\ cf \in Fields
<1>1. CASE ver >= 2
  <2>1. PICK x \in FieldSet : x = R!F8(0) /\ Same(x, R!F8(0))
    BY SentFields DEF Same
  <2>2. Reads("columnInfo", x) /\ x.v = 0
    BY <2>1, SmallInts, ReadsByte
  <2>3. ASSUME NEW left
        PROVE  ~R!Refuses("columnInfo", x.v, left) /\ R!Items(k, "columnInfo", x.v, left) = <<>>
    BY <2>2 DEF R!Refuses, R!Items
  <2>4. "columnInfo" \in Entry \ Loose
    BY DEF Entry, Loose
  <2>5. Parses(k, <<"columnInfo">>, <<x>> \o <<>>)
    BY <2>2, <2>3, <2>4, ParsesEmpty, ParsesEntry
  <2>6. <<x>> \in Fields
    BY SomeFields
  <2>7. Parses(k, <<"columnInfo">>, <<x>>)
    BY <2>5, <2>6, EmptyConcat
  <2> QED
    BY <1>1, <2>1, <2>7 DEF Parses
<1>2. CASE ~(ver >= 2)
  BY <1>2, ParsesEmpty DEF Parses
<1> QED
  BY <1>1, <1>2

\* The plan of EXECUTE, in its parts.
SixParts(a, b, c, d, e, f) ==
  (((a \o b) \o c) \o (d \o e)) \o f = a \o ((((b \o c) \o d) \o e) \o f)

LEMMA PlanSix ==
  ASSUME NEW a \in Plans, NEW b \in Plans, NEW c \in Plans, NEW d \in Plans, NEW e \in Plans,
         NEW f \in Plans
  PROVE  SixParts(a, b, c, d, e, f)
<1>1. \A x \in Plans, y \in Plans : Cat(x, y) \in Plans
  BY PlansConcat DEF Cat
<1>2. PICK bc \in Plans, de \in Plans, ab \in Plans, g \in Plans :
        bc = Cat(b, c) /\ de = Cat(d, e) /\ ab = Cat(a, b) /\ g = Cat(bc, de)
  BY <1>1
<1>3. Cat(ab, c) = Cat(a, bc)
  BY <1>2, CatAssoc DEF Plans
<1>4. Cat(Cat(a, bc), de) = Cat(a, g)
  BY <1>2, CatAssoc DEF Plans
<1>5. g = Cat(Cat(bc, d), e)
  BY <1>2, CatAssoc DEF Plans
<1>6. Cat(Cat(a, g), f) = Cat(a, Cat(g, f))
  BY CatAssoc DEF Plans
<1>7. Cat(Cat(Cat(Cat(a, b), c), Cat(d, e)), f) = Cat(a, Cat(Cat(Cat(Cat(b, c), d), e), f))
  BY <1>2, <1>3, <1>4, <1>5, <1>6
<1> QED
  BY <1>7 DEF Cat, SixParts

LEMMA ExecuteRest ==
  ASSUME NEW k, NEW ver, NEW rc, NEW p \in Plans, NEW gs \in Fields, Parses(k, p, gs),
         NEW cp \in Plans, NEW cf \in Fields, Parses(k, cp, cf),
         NEW tp \in Plans, NEW tf \in Fields, Parses(k, tp, tf),
         NEW ip \in Plans, NEW ys \in Fields, Ending(k, ver, rc, ip, ys)
  PROVE  Rest(k, ver, rc, (p \o (cp \o tp)) \o ip, gs \o ((cf \o tf) \o ys))
<1>1. PICK ct \in Fields : ct = cf \o tf
  BY FieldsConcat
<1>2. Parses(k, p \o (cp \o tp), gs \o ct)
  <2>1. Parses(k, cp \o tp, ct)
    BY <1>1, ParsesConcat
  <2> QED
    BY <2>1, ParsesConcat
<1>3. Rest(k, ver, rc, (p \o (cp \o tp)) \o ip, (gs \o ct) \o ys)
  BY <1>2, RestOf
<1>4. (gs \o ct) \o ys = gs \o (ct \o ys)
  BY FieldsAssoc
<1> QED
  BY <1>1, <1>3, <1>4

LEMMA ExecuteStarts ==
  ASSUME R!RepliesConstants, NEW ver, NEW r \in R!ExecuteReplies(ver)
  PROVE  Starts("execute", ver, r.fields)
<1>1. PICK rc \in {0, 3}, n \in 0 .. MaxItems, inline \in BOOLEAN, tuples \in R!UpTo(R!Values) :
        r = ExecuteReply(ver, rc, n, inline, tuples)
  BY ExecuteForm
<1>2. PICK ts : ts = [i \in 1 .. n |-> R!ResultInfo] /\ Countable("execute", "nResults", ts)
  BY ResultsCountable
<1>3. PICK z \in FieldSet, y \in FieldSet :
        z = R!F32(rc) /\ Reads("status", z) /\ z.v = rc /\ y = R!F8(0) /\ Reads("byte", y)
  <2>1. rc \in {0, 3, 9, 77}
    OBVIOUS
  <2> QED
    BY <2>1, StatusFields, SentFields
<1>4. PICK hs \in Fields : hs = <<z, y>> /\ hs # <<>> /\ hs[1] = z /\ Parses("execute", <<"status", "byte">>, hs)
  <2>1. Parses("execute", <<"status", "byte">>, <<z, y>>)
    BY <1>3, PlainNamesAre, ParsesTwo DEF PlainNames
  <2>2. <<z, y>> # <<>> /\ <<z, y>>[1] = z /\ <<z, y>> \in Fields
    BY SomeFields
  <2> QED
    BY <2>1, <2>2
<1>5. PICK cp \in Plans, cf \in Fields :
        /\ cp = (IF ver >= 2 THEN <<"columnInfo">> ELSE <<>>)
        /\ cf = (IF ver >= 2 THEN <<R!F8(0)>> ELSE <<>>)
        /\ Parses("execute", cp, cf)
  BY ColumnInfoParses
<1>6. PICK tp \in Plans, tf \in Fields :
        /\ tp = (IF ver >= 5 THEN <<"int32">> ELSE <<>>)
        /\ tf = (IF ver >= 5 THEN <<R!F32(0)>> ELSE <<>>)
        /\ Parses("execute", tp, tf)
  BY TailParses
<1>7. PICK ys \in Fields :
        /\ ys = IF rc > 0 /\ inline
                THEN R!Optional(<<R!F32(0)>> \o R!FetchBlock(ver, tuples)) ELSE <<>>
        /\ Ending("execute", ver, rc, <<"inline">>, ys)
  <2>1. CASE rc > 0 /\ inline
    <3>1. PICK ws : ws = R!Optional(<<R!F32(0)>> \o R!FetchBlock(ver, tuples))
      OBVIOUS
    <3>2. ws \in Fields /\ AllOpt(ws) /\ Width(ws) > 4 /\ Rest1("execute", RowsPlan(ver), ws)
      BY <3>1, InlineRows
    <3>3. Ending("execute", ver, rc, <<"inline">>, ws)
      BY <2>1, <3>2 DEF Ending
    <3> QED
      BY <2>1, <3>1, <3>2, <3>3
  <2>2. CASE ~(rc > 0 /\ inline)
    <3>1. Ending("execute", ver, rc, <<"inline">>, <<>>)
      BY DEF Ending
    <3> QED
      BY <2>2, <3>1, EmptyConcat
  <2> QED
    BY <2>1, <2>2
<1>8. PICK ct \in Fields, tail \in Fields : ct = cf \o tf /\ tail = ct \o ys
  BY FieldsConcat
<1>9. r = R!Counted(hs, ts, tail)
  <2>1. r = R!Counted(<<R!F32(rc), R!F8(0)>>, ts, (cf \o tf) \o ys)
    BY <1>1, <1>2, <1>5, <1>6, <1>7, Zenon DEF ExecuteReply
  <2> QED
    BY <1>3, <1>4, <1>8, <2>1
<1>10. PICK hp \in Plans, np \in Plans, ip \in Plans : hp = <<"status", "byte">> /\ np = <<"nResults">> /\ ip = <<"inline">>
  <2>1. "nResults" \in Entry /\ "inline" \in Entry
    BY DEF Entry
  <2>2. <<"status", "byte">> \in Plans
    BY <1>4 DEF Parses
  <2> QED
    BY <2>1, <2>2, SinglePlans
<1>11. CountedBy("execute", hp \o np, hs, ts, tail)
  BY <1>2, <1>4, <1>10, ParsesCounted
<1>12. PICK gs \in Fields : /\ r.fields = gs \o tail /\ gs # <<>> /\ gs[1] = z
                            /\ Parses("execute", hp \o np, gs)
  BY <1>4, <1>9, <1>11 DEF CountedBy
<1>13. PICK hn \in Plans : hn = hp \o np
  BY PlansConcat
<1>14. Rest("execute", ver, rc, (hn \o (cp \o tp)) \o ip, gs \o ((cf \o tf) \o ys))
  BY <1>5, <1>6, <1>7, <1>10, <1>12, <1>13, ExecuteRest
<1>15. r.fields = gs \o ((cf \o tf) \o ys)
  BY <1>8, <1>12
<1>16. /\ R!Plan("execute", ver) = (hn \o (cp \o tp)) \o ip
       /\ R!Plan("execute", ver) # <<>> /\ Head(R!Plan("execute", ver)) = "status"
  <2>1. PICK s \in Entry, b \in Entry, c \in Entry : s = "status" /\ b = "byte" /\ c = "nResults"
    BY DEF Entry
  <2>2. PICK s1 \in Plans, b1 \in Plans : s1 = <<s>> /\ b1 = <<b>> /\ np = <<c>>
    BY <1>10, <2>1, SinglePlans
  <2>3. <<b>> \o <<c>> = <<b, c>> /\ <<s>> \o <<b>> = <<s, b>>
    BY TupleConcat2
  <2>4. b1 \o np = <<b, c>> /\ hp = s1 \o b1
    BY <1>10, <2>1, <2>2, <2>3
  <2>5. R!Plan("execute", ver) = <<s>> \o (((<<b, c>> \o cp) \o tp) \o ip)
    BY <1>5, <1>6, <1>10, <2>1 DEF R!Plan
  <2>6. R!Plan("execute", ver) = s1 \o ((((b1 \o np) \o cp) \o tp) \o ip)
    BY <2>2, <2>4, <2>5
  <2>7. (((s1 \o b1) \o np) \o (cp \o tp)) \o ip = s1 \o ((((b1 \o np) \o cp) \o tp) \o ip)
    <3>1. SixParts(s1, b1, np, cp, tp, ip)
      BY PlanSix
    <3> QED
      BY <3>1 DEF SixParts
  <2>8. PICK w \in Plans : w = (((b1 \o np) \o cp) \o tp) \o ip
    BY PlansConcat
  <2>9. <<s>> \o w # <<>> /\ Head(<<s>> \o w) = s
    BY ConsParts DEF Plans
  <2> QED
    BY <1>13, <2>1, <2>2, <2>4, <2>6, <2>7, <2>8, <2>9
<1>18. r.fields \in Fields /\ r.fields[1] = z /\ rc \in Int
  <2>1. (gs \o tail)[1] = gs[1] /\ gs \o tail \in Fields
    BY <1>12, FieldsConcat, FirstOfConcat
  <2> QED
    BY <1>12, <2>1
<1> QED
  BY <1>3, <1>14, <1>15, <1>16, <1>18 DEF Starts

\* Every reply but an error has a plan that reads it.
LEMMA RepliesStart ==
  ASSUME R!RepliesConstants, NEW kind \in R!Kinds, kind # "error", NEW ver \in R!Versions,
         kind \in {"prepare", "schema", "error"} => ver = 5, NEW r \in R!RepliesOf(kind, ver)
  PROVE  Starts(kind, ver, r.fields)
<1>1. CASE kind = "prepare"
  <2>1. ver = 5 /\ r \in R!PrepareReplies
    BY <1>1 DEF R!RepliesOf
  <2> QED
    BY <1>1, <2>1, PrepareStarts
<1>2. CASE kind = "schema"
  <2>1. ver = 5 /\ r \in R!SchemaReplies
    BY <1>2 DEF R!RepliesOf
  <2> QED
    BY <1>2, <2>1, SchemaStarts
<1>3. CASE kind = "execute"
  <2>1. r \in R!ExecuteReplies(ver)
    BY <1>3 DEF R!RepliesOf
  <2> QED
    BY <1>3, <2>1, ExecuteStarts
<1>4. CASE kind = "fetch"
  <2>1. r \in R!FetchReplies(ver)
    BY <1>4 DEF R!RepliesOf
  <2> QED
    BY <1>4, <2>1, FetchStarts
<1>5. CASE kind \in {"batch", "sqlbatch"}
  <2>1. r \in R!BatchReplies(ver, kind = "sqlbatch")
    <3>1. CASE kind = "batch"
      <4>1. r \in R!BatchReplies(ver, FALSE)
        BY <3>1 DEF R!RepliesOf
      <4>2. (kind = "sqlbatch") = FALSE
        BY <3>1
      <4> QED
        BY <4>1, <4>2, Zenon
    <3>2. CASE kind = "sqlbatch"
      <4>1. r \in R!BatchReplies(ver, TRUE)
        BY <3>2 DEF R!RepliesOf
      <4>2. (kind = "sqlbatch") = TRUE
        BY <3>2
      <4> QED
        BY <4>1, <4>2, Zenon
    <3> QED
      BY <1>5, <3>1, <3>2
  <2> QED
    BY <1>5, <2>1, BatchStarts
<1>6. CASE kind = "connect"
  <2>1. r \in R!ConnectReplies(ver)
    BY <1>6 DEF R!RepliesOf
  <2> QED
    BY <1>6, <2>1, ConnectStarts
<1> QED
  BY <1>1, <1>2, <1>3, <1>4, <1>5, <1>6 DEF R!Kinds

\* The rest of a sequence.
LEMMA PrefixRest ==
  ASSUME NEW S, NEW s \in Seq(S), NEW k \in 0 .. Len(s)
  PROVE  \E t \in Seq(S) : SubSeq(s, 1, k) \o t = s
<1>1. PICK n \in Nat : n = Len(s) /\ k \in 0 .. n /\ k \in Nat
  OBVIOUS
<1>2. SubSeq(s, k + 1, n) \in Seq(S)
  BY <1>1, SubSeqParts
<1>3. SubSeq(s, 1, k) \o SubSeq(s, k + 1, n) = SubSeq(s, 1, n)
  <2>1. 1 \in 1 .. Len(s) + 1 /\ k \in 1 - 1 .. Len(s) /\ n \in k .. Len(s)
    BY <1>1
  <2> QED
    BY <2>1, ConcatAdjacentSubSeq
<1>4. SubSeq(s, 1, n) = s
  BY <1>1, SubSeqFull
<1> QED
  BY <1>2, <1>3, <1>4

\* What arrives of a reply whose counts are as they were sent.
LEMMA ArrivesReceived ==
  ASSUME NEW r, WellFormed(r), Arrives(r), reply.fields = r.fields, reply.fault \in {"none", "cut"}
  PROVE  Received
<1>1. PICK bs \in Seq(Byte) : bs = BytesOf(reply.fields) /\ bs = BytesOf(r.fields)
  BY BytesOfType DEF WellFormed
<1>2. CASE reply.fault = "none"
  <2>1. payload = bs
    BY <1>1, <1>2 DEF Arrives
  <2>2. bs \o <<>> = bs /\ <<>> \in Seq(Byte)
    BY ConcatEmptySeq
  <2> QED
    BY <1>1, <2>1, <2>2 DEF Received
<1>3. CASE reply.fault = "cut"
  <2>1. PICK k \in 0 .. Len(bs) - 1 : payload = SubSeq(bs, 1, k)
    BY <1>1, <1>3 DEF Arrives
  <2>2. k \in 0 .. Len(bs)
    OBVIOUS
  <2>3. PICK t \in Seq(Byte) : payload \o t = bs
    BY <2>1, <2>2, PrefixRest
  <2>4. reply.fault # "none"
    BY <1>3
  <2> QED
    BY <1>1, <2>3, <2>4 DEF Received
<1> QED
  BY <1>2, <1>3

LEMMA ParserInit ==
  ASSUME R!RepliesConstants, NEW kind \in R!Kinds, kind # "error", NEW ver \in R!Versions,
         NEW r \in R!RepliesOf(kind, ver), Sends(kind, ver, r), reply.fault \in {"none", "cut"}
  PROVE  ParserInv
<1>1. WellFormed(r) /\ Received
  BY RepliesType, ArrivesReceived DEF Sends
<1>2. PICK fs \in Fields : fs = r.fields /\ Starts(kind, ver, fs)
  BY RepliesStart DEF Sends, Starts
<1>3. /\ reply.fields = fs /\ reply.kind = kind /\ reply.ver = ver /\ plan = R!Plan(kind, ver)
      /\ vals = <<>> /\ off = 0 /\ outcome = "parsing"
  BY <1>2 DEF Sends
<1>4. ValuesOf(<<>>) = <<>> /\ Width(<<>>) = 0
  BY BytesOfEmpty DEF ValuesOf, Width
<1>5. <<>> \o fs = fs /\ <<>> \in Fields
  BY EmptyConcat
<1>6. At(<<>>, fs)
  BY <1>2, <1>3, <1>4, <1>5 DEF At, Starts
<1>7. Rest(reply.kind, reply.ver, reply.fields[1].v, plan, fs)
  BY <1>2, <1>3 DEF Starts
<1>8. OnPlan(<<>>, fs)
  BY <1>6, <1>7 DEF OnPlan
<1>9. \E rd \in Fields, left \in Fields : OnPlan(rd, left)
  BY <1>5, <1>8
<1> QED
  BY <1>1, <1>3, <1>9 DEF ParserInv

-----------------------------------------------------------------------------
(* An error of the server                                                  *)

\* The bytes c are at the offset d of bs.
Holds(bs, d, c) == d + Len(c) <= Len(bs) /\ \A i \in 1 .. Len(c) : bs[d + i] = c[i]

LEMMA HoldsConcat ==
  ASSUME NEW a \in Seq(Byte), NEW b \in Seq(Byte)
  PROVE  /\ a \o b \in Seq(Byte) /\ Len(a \o b) = Len(a) + Len(b)
         /\ Holds(a \o b, 0, a) /\ Holds(a \o b, Len(a), b)
<1>1. PICK c \in Seq(Byte), n \in Nat, m \in Nat : c = a \o b /\ n = Len(a) /\ m = Len(b)
  <2>1. a \o b \in Seq(Byte) /\ Len(a) \in Nat /\ Len(b) \in Nat
    BY ConcatProperties
  <2> QED
    BY <2>1
<1>2. Len(c) = n + m
  BY <1>1, ConcatProperties
<1>3. \A i \in 1 .. n : c[i] = a[i]
  BY <1>1, ConcatProperties
<1>4. \A i \in 1 .. m : c[n + i] = b[i]
  BY <1>1, ConcatProperties
<1>5. Holds(c, 0, a) /\ Holds(c, n, b)
  BY <1>1, <1>2, <1>3, <1>4 DEF Holds
<1> QED
  BY <1>1, <1>2, <1>5

LEMMA HoldsBefore ==
  ASSUME NEW a \in Seq(Byte), NEW b \in Seq(Byte), NEW d \in Nat, NEW c \in Seq(Byte), Holds(a, d, c)
  PROVE  Holds(a \o b, d, c)
<1>1. PICK ab \in Seq(Byte), n \in Nat, m \in Nat, l \in Nat : ab = a \o b /\ n = Len(a) /\ m = Len(b) /\ l = Len(c)
  <2>1. a \o b \in Seq(Byte) /\ Len(a) \in Nat /\ Len(b) \in Nat /\ Len(c) \in Nat
    BY ConcatProperties
  <2> QED
    BY <2>1
<1>2. Len(ab) = n + m /\ \A i \in 1 .. n : ab[i] = a[i]
  BY <1>1, ConcatProperties
<1>3. d + l <= n /\ \A i \in 1 .. l : a[d + i] = c[i]
  BY <1>1 DEF Holds
<1>4. ASSUME NEW i \in 1 .. l PROVE ab[d + i] = c[i]
  <2>1. d + i \in 1 .. n
    BY <1>3
  <2> QED
    BY <1>2, <1>3, <2>1
<1>5. d + l <= Len(ab)
  BY <1>2, <1>3
<1> QED
  BY <1>1, <1>4, <1>5 DEF Holds

\* A number at an offset.
LEMMA Int32Holds ==
  ASSUME payload \in Seq(Byte), NEW d \in Nat, NEW v \in Int32, Holds(payload, d, R!Bytes4(v))
  PROVE  R!Int32At(d) = v
<1>1. PICK c \in Seq(Byte) : c = R!Bytes4(v) /\ Len(c) = 4
  <2>1. v \in Int
    BY Int32Integers
  <2> QED
    BY <2>1, NumberBytes
<1>2. \A i \in 1 .. 4 : payload[d + i] = c[i]
  BY <1>1 DEF Holds
<1>3. payload[d + 1] = c[1] /\ payload[d + 2] = c[2] /\ payload[d + 3] = c[3] /\ payload[d + 4] = c[4]
  BY <1>2, SMT
<1>4. R!Int32At(d) = Int32Of(c)
  BY <1>3, SMT DEF R!Int32At, Int32Of
<1> QED
  BY <1>1, <1>4, Int32Back

\* The indicator and the code in the first eight bytes, or the code in the first
\* four, with nothing or a text behind it.
IndicatorAndCode(bs) == Holds(bs, 0, R!Bytes4(-1)) /\ Holds(bs, 4, R!Bytes4(-493))

CodeAlone(bs) ==
  Holds(bs, 0, R!Bytes4(-493)) /\ (Len(bs) = 4 \/ (Len(bs) = 10 /\ bs[5] = 65))

LEMMA ErrorBytes ==
  ASSUME NEW r \in R!ErrorReplies
  PROVE  IndicatorAndCode(BytesOf(r.fields)) \/ CodeAlone(BytesOf(r.fields))
<1>1. PICK c \in {<<R!F32(-1), R!F32(-493)>>, <<R!F32(-493)>>}, m \in {<<>>, <<ErrorText>>} :
        r = [at |-> 0, fields |-> c \o m]
  BY ErrorForm
<1>2. r.fields = c \o m
  BY <1>1
<1>3. PICK x \in FieldSet, y \in FieldSet, t \in FieldSet :
        x = R!F32(-1) /\ y = R!F32(-493) /\ t = ErrorText
  <2>1. -1 \in Int /\ -493 \in Int
    OBVIOUS
  <2> QED
    BY <2>1, FieldTypes, ErrorTextType
<1>4. PICK xb \in Seq(Byte), yb \in Seq(Byte) :
        /\ xb = x.b /\ yb = y.b /\ Len(xb) = 4 /\ Len(yb) = 4
        /\ xb = R!Bytes4(-1) /\ yb = R!Bytes4(-493)
  <2>1. x.b = R!Bytes4(-1) /\ y.b = R!Bytes4(-493)
    BY <1>3 DEF R!F32, R!F
  <2>2. -1 \in Int /\ -493 \in Int
    OBVIOUS
  <2> QED
    BY <2>1, <2>2, NumberBytes
<1>5. PICK mb \in Seq(Byte) : mb = BytesOf(m) /\ (Len(mb) = 0 \/ (Len(mb) = 6 /\ mb[1] = 65)) /\ m \in Fields
  <2>1. CASE m = <<>>
    <3>1. BytesOf(m) = <<>> /\ m \in Fields
      BY <2>1, BytesOfEmpty, SomeFields
    <3>2. <<>> \in Seq(Byte) /\ Len(<<>>) = 0
      OBVIOUS
    <3> QED
      BY <3>1, <3>2
  <2>2. CASE m = <<ErrorText>>
    <3>1. m \in Fields /\ BytesOf(m) = t.b /\ t.b \in Seq(Byte)
      BY <1>3, <2>2, BytesOfOne, SomeFields DEF FieldSet
    <3>2. t.b = <<65, 66, 67, 68, 69, 0>>
      BY <1>3 DEF ErrorText, R!F
    <3>3. Len(t.b) = 6 /\ t.b[1] = 65
      BY <3>2
    <3> QED
      BY <3>1, <3>3
  <2> QED
    BY <2>1, <2>2
<1>6. CASE c = <<R!F32(-493)>>
  <2>1. c \in Fields /\ BytesOf(c) = yb
    BY <1>3, <1>4, <1>6, BytesOfOne, SomeFields
  <2>2. BytesOf(r.fields) = yb \o mb
    BY <1>2, <1>5, <2>1, BytesOfConcat
  <2>3. /\ yb \o mb \in Seq(Byte) /\ Len(yb \o mb) = Len(yb) + Len(mb)
        /\ Holds(yb \o mb, 0, yb) /\ Holds(yb \o mb, Len(yb), mb)
    BY HoldsConcat
  <2>4. PICK bs \in Seq(Byte) : /\ bs = BytesOf(r.fields) /\ Len(bs) = 4 + Len(mb)
                                /\ Holds(bs, 0, yb) /\ Holds(bs, 4, mb)
    <3>1. Holds(yb \o mb, 4, mb) /\ Len(yb \o mb) = 4 + Len(mb)
      BY <1>4, <2>3, Zenon
    <3> QED
      BY <2>2, <2>3, <3>1, Zenon
  <2>5. Len(mb) = 6 => bs[5] = 65
    BY <1>5, <2>4 DEF Holds
  <2>6. CodeAlone(bs)
    <3>1. Len(bs) = 4 \/ (Len(bs) = 10 /\ bs[5] = 65)
      <4>1. CASE Len(mb) = 0
        <5>1. 4 + 0 = 4
          OBVIOUS
        <5> QED
          BY <2>4, <4>1, <5>1
      <4>2. CASE Len(mb) = 6
        <5>1. 4 + 6 = 10
          OBVIOUS
        <5> QED
          BY <2>4, <2>5, <4>2, <5>1
      <4> QED
        BY <1>5, <4>1, <4>2
    <3>2. Holds(bs, 0, R!Bytes4(-493))
      BY <1>4, <2>4
    <3> QED
      BY <3>1, <3>2 DEF CodeAlone
  <2> QED
    BY <2>4, <2>6
<1>7. CASE c = <<R!F32(-1), R!F32(-493)>>
  <2>1. PICK xs \in Fields, ys \in Fields : xs = <<x>> /\ ys = <<y>>
    <3>1. <<x>> \in Fields
      BY SomeFields
    <3>2. <<y>> \in Fields
      BY SomeFields
    <3> QED
      BY <3>1, <3>2, Zenon
  <2>2. c = xs \o ys
    BY <1>3, <1>7, <2>1, TupleConcat2
  <2>3. c \in Fields /\ BytesOf(c) = BytesOf(xs) \o BytesOf(ys)
    <3>1. xs \o ys \in Fields /\ BytesOf(xs \o ys) = BytesOf(xs) \o BytesOf(ys)
      BY BytesOfConcat
    <3> QED
      BY <2>2, <3>1, Zenon
  <2>4. BytesOf(xs) = xb /\ BytesOf(ys) = yb
    BY <1>4, <2>1, BytesOfOne
  <2>5. PICK cb \in Seq(Byte) : cb = BytesOf(c) /\ Holds(cb, 0, xb) /\ Holds(cb, 4, yb)
    <3>1. /\ xb \o yb \in Seq(Byte) /\ Holds(xb \o yb, 0, xb) /\ Holds(xb \o yb, Len(xb), yb)
      BY HoldsConcat
    <3> QED
      <4>1. xb \o yb = BytesOf(c)
        BY <2>3, <2>4, Zenon
      <4>2. Holds(xb \o yb, 4, yb)
        BY <1>4, <3>1, Zenon
      <4> QED
        BY <3>1, <4>1, <4>2, Zenon
  <2>6. BytesOf(r.fields) = cb \o mb
    BY <1>2, <1>5, <2>3, <2>5, BytesOfConcat
  <2>7. 0 \in Nat /\ 4 \in Nat
    OBVIOUS
  <2>8. Holds(cb \o mb, 0, xb) /\ Holds(cb \o mb, 4, yb)
    BY <2>5, <2>7, HoldsBefore
  <2> QED
    BY <1>4, <2>6, <2>8 DEF IndicatorAndCode
<1> QED
  BY <1>6, <1>7

\* What ReadStatus finds in the bytes of an error.
Errored ==
  /\ reply.kind = "error" /\ reply.fault \in {"none", "cut"}
  /\ Len(payload) >= 4 => R!Int32At(0) \in Int /\ R!Int32At(0) < 0
  /\ reply.fault = "none" =>
       /\ Len(payload) >= 4
       /\ Len(payload) >= 8 => /\ R!Int32At(4) \in Int
                               /\ \/ R!Int32At(4) = -493
                                  \/ R!Int32At(4) >= 0 /\ R!Int32At(0) = -493
       /\ Len(payload) < 8 => R!Int32At(0) = -493

ErrorInv ==
  /\ Errored
  /\ \/ outcome = "parsing" /\ off = 0 /\ plan # <<>> /\ Head(plan) = "status"
     \/ outcome = "server" /\ (reply.fault = "none" => vals = <<-493>>)
     \/ outcome = "short" /\ reply.fault = "cut"

LEMMA ErroredInit ==
  ASSUME NEW r \in R!ErrorReplies, Arrives(r), reply.kind = "error", reply.fault \in {"none", "cut"}
  PROVE  Errored
<1>1. PICK bs \in Seq(Byte) : bs = BytesOf(r.fields) /\ (IndicatorAndCode(bs) \/ CodeAlone(bs))
  BY ErrorType, ErrorBytes, BytesOfType DEF WellFormed
<1>2. PICK n \in Nat, l \in Nat :
        /\ n = Len(payload) /\ l = Len(bs) /\ n <= l /\ (\A i \in 1 .. n : payload[i] = bs[i])
        /\ payload \in Seq(Byte) /\ (reply.fault = "none" => n = l)
  <2>1. CASE reply.fault = "none"
    <3>1. payload = bs
      BY <1>1, <2>1 DEF Arrives
    <3> QED
      BY <2>1, <3>1
  <2>2. CASE reply.fault = "cut"
    <3>1. PICK k \in 0 .. Len(bs) - 1 : payload = SubSeq(bs, 1, k)
      BY <1>1, <2>2 DEF Arrives
    <3>2. PICK l \in Nat : l = Len(bs) /\ k \in Nat /\ k <= l
      BY <3>1
    <3>3. 1 \in Nat \ {0} /\ k \in Int /\ k <= Len(bs)
      BY <3>2
    <3>4. /\ SubSeq(bs, 1, k) \in Seq(Byte) /\ Len(SubSeq(bs, 1, k)) = (IF 1 <= k THEN k - 1 + 1 ELSE 0)
          /\ \A i \in 1 .. k - 1 + 1 : SubSeq(bs, 1, k)[i] = bs[1 + i - 1]
      BY <3>3, SubSeqParts
    <3>5. Len(SubSeq(bs, 1, k)) = k
      BY <3>2, <3>4
    <3>6. ASSUME NEW i \in 1 .. k PROVE SubSeq(bs, 1, k)[i] = bs[i]
      <4>1. i \in 1 .. k - 1 + 1 /\ 1 + i - 1 = i
        BY <3>2
      <4> QED
        BY <3>4, <4>1
    <3>7. payload \in Seq(Byte) /\ Len(payload) = k /\ \A i \in 1 .. k : payload[i] = bs[i]
      BY <3>1, <3>4, <3>5, <3>6
    <3>8. reply.fault # "none"
      BY <2>2
    <3> QED
      BY <3>2, <3>7, <3>8
  <2> QED
    BY <2>1, <2>2
<1>3. ASSUME NEW d \in Nat, NEW c \in Seq(Byte), Len(c) = 4, d + 4 <= n, Holds(bs, d, c)
      PROVE  Holds(payload, d, c)
  <2>1. ASSUME NEW i \in 1 .. 4 PROVE payload[d + i] = c[i]
    <3>1. d + i \in 1 .. n /\ bs[d + i] = c[i]
      BY <1>3 DEF Holds
    <3> QED
      BY <1>2, <3>1
  <2> QED
    BY <1>2, <1>3, <2>1 DEF Holds
<1>4. PICK e \in Seq(Byte), f \in Seq(Byte) :
        e = R!Bytes4(-1) /\ f = R!Bytes4(-493) /\ Len(e) = 4 /\ Len(f) = 4
  <2>1. -1 \in Int /\ -493 \in Int
    OBVIOUS
  <2> QED
    BY <2>1, NumberBytes
<1>5. -1 \in Int32 /\ -493 \in Int32 /\ 0 \in Nat /\ 4 \in Nat
  BY SmallInts
<1>6. CASE IndicatorAndCode(bs)
  <2>1. Holds(bs, 0, e) /\ Holds(bs, 4, f)
    BY <1>4, <1>6 DEF IndicatorAndCode
  <2>2. n >= 4 => R!Int32At(0) = -1
    <3>1. n >= 4 => Holds(payload, 0, e)
      BY <1>3, <1>4, <2>1
    <3> QED
      BY <1>2, <1>4, <1>5, <3>1, Int32Holds
  <2>3. n >= 8 => R!Int32At(4) = -493
    <3>1. n >= 8 => Holds(payload, 4, f)
      BY <1>3, <1>4, <2>1
    <3> QED
      BY <1>2, <1>4, <1>5, <3>1, Int32Holds
  <2>4. l >= 8
    <3>1. 4 + Len(f) <= Len(bs)
      BY <2>1 DEF Holds
    <3>2. 4 + 4 <= l
      BY <1>2, <1>4, <3>1, Zenon
    <3> QED
      BY <3>2
  <2>5. reply.fault = "none" => n >= 8
    BY <1>2, <2>4
  <2> QED
    BY <1>2, <2>2, <2>3, <2>5 DEF Errored
<1>7. CASE CodeAlone(bs)
  <2>1. Holds(bs, 0, f) /\ (l = 4 \/ (l = 10 /\ bs[5] = 65))
    BY <1>2, <1>4, <1>7 DEF CodeAlone
  <2>2. n >= 4 => R!Int32At(0) = -493
    <3>1. n >= 4 => Holds(payload, 0, f)
      BY <1>3, <1>4, <2>1
    <3> QED
      BY <1>2, <1>4, <1>5, <3>1, Int32Holds
  <2>3. n >= 8 => R!Int32At(4) \in Int /\ R!Int32At(4) >= 0
    <3>1. SUFFICES ASSUME n >= 8 PROVE R!Int32At(4) \in Int /\ R!Int32At(4) >= 0
      OBVIOUS
    <3>2. 5 \in 1 .. n /\ 6 \in 1 .. n /\ 7 \in 1 .. n /\ 8 \in 1 .. n
      BY <3>1
    <3>3. payload[5] = 65
      <4>1. l = 10
        <5>1. l # 4
          <6>1. n <= l /\ n >= 8
            BY <1>2, <3>1, Zenon
          <6> QED
            BY <6>1
        <5> QED
          BY <2>1, <5>1, Zenon
      <4>2. bs[5] = 65
        BY <2>1, <4>1
      <4> QED
        BY <1>2, <3>2, <4>2
    <3>4. payload[6] \in Byte /\ payload[7] \in Byte /\ payload[8] \in Byte
      BY <1>2, <3>2
    <3>5. PICK a \in Nat, b \in Nat, g \in Nat : a = payload[6] /\ b = payload[7] /\ g = payload[8]
      <4>1. payload[6] \in Nat /\ payload[7] \in Nat /\ payload[8] \in Nat
        <5>1. \A i \in Byte : i \in Nat
          BY DEF Byte
        <5> QED
          BY <3>4, <5>1, Zenon
      <4> QED
        BY <4>1
    <3>6. 4 + 1 = 5 /\ 4 + 2 = 6 /\ 4 + 3 = 7 /\ 4 + 4 = 8
      OBVIOUS
    <3>7. R!Int32At(4) = R!Signed(65) * 16777216 + a * 65536 + b * 256 + g
      <4>1. payload[4 + 1] = 65 /\ payload[4 + 2] = a /\ payload[4 + 3] = b /\ payload[4 + 4] = g
        BY <3>3, <3>5, <3>6
      <4> QED
        BY <4>1, SMT DEF R!Int32At
    <3>8. R!Signed(65) = 65
      BY DEF R!Signed
    <3> QED
      BY <3>7, <3>8, SMT
  <2>4. reply.fault = "none" => n >= 4
    BY <1>2, <2>1
  <2> QED
    BY <1>2, <2>2, <2>3, <2>4 DEF Errored
<1> QED
  BY <1>1, <1>6, <1>7

LEMMA ErroredStays ==
  ASSUME Errored, reply' = reply, payload' = payload
  PROVE  Errored'
<1>1. R!Int32At(0)' = R!Int32At(0) /\ R!Int32At(4)' = R!Int32At(4)
  BY SMT DEF R!Int32At
<1>2. Len(payload)' = Len(payload) /\ reply'.kind = reply.kind /\ reply'.fault = reply.fault
  OBVIOUS
<1> QED
  BY <1>1, <1>2, SMT DEF Errored

LEMMA ErrorStep ==
  ASSUME ErrorInv, R!Next
  PROVE  ErrorInv'
<1>1. outcome = "parsing"
  BY DEF R!Next, R!ReadStatus, R!ReadField, R!ReadSized, R!Skip, R!Inline, R!Done, R!Parsing
<1>2. off = 0 /\ plan # <<>> /\ Head(plan) = "status"
  BY <1>1 DEF ErrorInv
<1>3. R!ReadStatus
  <2>1. ~R!ReadField /\ ~R!ReadSized /\ ~R!Inline
    BY <1>2, Zenon DEF R!ReadField, R!ReadSized, R!Inline, R!Parsing
  <2>2. ~R!Skip /\ ~R!Done
    BY <1>2 DEF R!Skip, R!Skipped, R!Done
  <2> QED
    BY <2>1, <2>2, Zenon DEF R!Next
<1>4. reply' = reply /\ payload' = payload
  BY <1>3 DEF R!ReadStatus, R!Ends, R!ReadError, R!Accept
<1>5. Errored'
  BY <1>4, ErroredStays DEF ErrorInv
<1>6. R!CanTake(4) <=> 4 <= Len(payload)
  BY <1>2 DEF R!CanTake
<1>7. CASE ~(4 <= Len(payload))
  <2>1. reply.fault = "cut"
    BY <1>7 DEF ErrorInv, Errored
  <2>2. R!Ends("short")
    BY <1>3, <1>6, <1>7, Zenon DEF R!ReadStatus
  <2>3. outcome' = "short" /\ reply'.fault = "cut"
    BY <1>4, <2>1, <2>2 DEF R!Ends
  <2> QED
    BY <1>5, <2>3 DEF ErrorInv
<1>8. CASE 4 <= Len(payload)
  <2>1. R!Int32At(off) < 0
    BY <1>2, <1>8 DEF ErrorInv, Errored
  <2>2. R!ReadError(R!Int32At(off))
    BY <1>3, <1>6, <1>8, <2>1, Zenon DEF R!ReadStatus
  <2>3. outcome' = "server"
    BY <2>2 DEF R!ReadError
  <2>4. ASSUME reply.fault = "none" PROVE vals' = <<-493>>
    <3>1. R!Remaining = Len(payload) /\ off + 4 = 4
      BY <1>2, <1>8 DEF R!Remaining
    <3>2. vals' = <<IF (IF Len(payload) >= 8 THEN R!Int32At(4) ELSE 0) < 0
                    THEN (IF Len(payload) >= 8 THEN R!Int32At(4) ELSE 0) ELSE R!Int32At(0)>>
      BY <1>2, <2>2, <3>1 DEF R!ReadError
    <3> QED
      BY <2>4, <3>2 DEF ErrorInv, Errored
  <2>5. reply'.fault = "none" => vals' = <<-493>>
    BY <1>4, <2>4
  <2> QED
    BY <1>5, <2>3, <2>5 DEF ErrorInv
<1> QED
  BY <1>7, <1>8

LEMMA ErrorProps ==
  ASSUME ErrorInv
  PROVE  R!CompleteParses /\ R!CutIsNoticed
<1>1. reply.kind = "error" /\ outcome # "ok"
  BY DEF ErrorInv, Errored
<1> QED
  BY <1>1, Zenon DEF ErrorInv, R!CompleteParses, R!CutIsNoticed

-----------------------------------------------------------------------------
\* A reply whose counts are as they were sent is on its way to what was sent.
ReadInv ==
  reply.fault \in {"none", "cut"} =>
    IF reply.kind = "error" THEN ErrorInv ELSE ParserInv

LEMMA ReadInit ==
  ASSUME R!RepliesConstants, R!Init
  PROVE  ReadInv
<1>1. PICK kind \in R!Kinds, ver \in R!Versions :
           \E r \in R!RepliesOf(kind, ver) : Sends(kind, ver, r)
  BY InitForm
<1>2. PICK r \in R!RepliesOf(kind, ver) : Sends(kind, ver, r)
  BY <1>1
<1>3. reply.kind = kind /\ Arrives(r) /\ off = 0 /\ outcome = "parsing" /\ plan = R!Plan(kind, ver)
  BY <1>2 DEF Sends
<1>4. SUFFICES ASSUME reply.fault \in {"none", "cut"}
               PROVE  IF kind = "error" THEN ErrorInv ELSE ParserInv
  BY <1>3 DEF ReadInv
<1>5. CASE kind = "error"
  <2>1. r \in R!ErrorReplies
    BY <1>5 DEF R!RepliesOf
  <2>2. Errored
    BY <1>3, <1>4, <1>5, <2>1, ErroredInit
  <2>3. plan # <<>> /\ Head(plan) = "status"
    BY <1>3, <1>5 DEF R!Plan
  <2> QED
    BY <1>3, <1>5, <2>2, <2>3 DEF ErrorInv
<1>6. CASE kind # "error"
  BY <1>2, <1>4, <1>6, ParserInit
<1> QED
  BY <1>5, <1>6

LEMMA ReplyKept ==
  ASSUME R!Next
  PROVE  reply' = reply
<1>1. CASE R!ReadStatus
  BY <1>1 DEF R!ReadStatus, R!Ends, R!ReadError, R!Accept
<1>2. CASE R!ReadField
  BY <1>2 DEF R!ReadField, R!Ends, R!Accept
<1>3. CASE R!ReadSized
  BY <1>3 DEF R!ReadSized, R!Ends, R!Accept
<1>4. CASE R!Skip
  BY <1>4 DEF R!Skip
<1>5. CASE R!Inline
  BY <1>5 DEF R!Inline
<1>6. CASE R!Done
  BY <1>6 DEF R!Done, R!Ends
<1> QED
  BY <1>1, <1>2, <1>3, <1>4, <1>5, <1>6 DEF R!Next

LEMMA ReadStays ==
  ASSUME ReadInv, UNCHANGED replyVars
  PROVE  ReadInv'
<1>1. /\ reply' = reply /\ payload' = payload /\ off' = off /\ plan' = plan /\ vals' = vals
      /\ alloc' = alloc /\ outcome' = outcome
  BY DEF replyVars
<1>2. ErrorInv => ErrorInv'
  BY <1>1, ErroredStays DEF ErrorInv
<1>3. ParserInv => ParserInv'
  BY <1>1, Zenon DEF ParserInv, Received, OnPlan, At
<1> QED
  BY <1>1, <1>2, <1>3 DEF ReadInv

LEMMA ReadStep ==
  ASSUME ReaderInv, ReadInv, R!Next \/ UNCHANGED replyVars
  PROVE  ReadInv'
<1>1. CASE R!Next
  <2>1. reply' = reply
    BY <1>1, ReplyKept
  <2>2. ErrorInv => ErrorInv'
    BY <1>1, ErrorStep
  <2>3. ParserInv => ParserInv'
    BY <1>1, ParserStep
  <2> QED
    BY <2>1, <2>2, <2>3 DEF ReadInv
<1>2. CASE UNCHANGED replyVars
  BY <1>2, ReadStays
<1> QED
  BY <1>1, <1>2

LEMMA ReadProps ==
  ASSUME ReaderInv, ReadInv
  PROVE  R!CompleteParses /\ R!CutIsNoticed
<1>1. CASE reply.fault \notin {"none", "cut"}
  BY <1>1 DEF R!CompleteParses, R!CutIsNoticed
<1>2. CASE reply.fault \in {"none", "cut"} /\ reply.kind = "error"
  BY <1>2, ErrorProps DEF ReadInv
<1>3. CASE reply.fault \in {"none", "cut"} /\ reply.kind # "error"
  BY <1>3, ParserComplete, ParserCut DEF ReadInv
<1> QED
  BY <1>1, <1>2, <1>3

\* A reply that arrives whole is read, in every protocol version, to its last byte
\* and into the values that the server sent, and a server error keeps its code
\* (prepare, execute, consumeFetch, SchemaInfo, ParseBatchResponse,
\* ParseConnectReply, ReadStatus); of one that was cut short at any byte, the loss
\* is an error, or no more than a part that may be absent.
THEOREM ReadAsSentTheorem == DataSpec => []ReadAsSent
<1> DEFINE Inv == part = "reply" => ReaderInv /\ ReadInv
<1>1. DataInit => Inv
  BY DataConstants, ReplyInit, ReaderInit, ReadInit DEF DataInit
<1>2. Inv /\ [DataNext]_<<part, vars, replyVars, valueVars, dsnVars>> => Inv'
  BY DataStepParts, ReaderStep, ReadStep
<1>3. Inv => ReadAsSent
  BY ReadProps DEF ReadAsSent
<1> QED
  BY <1>1, <1>2, <1>3, PTL DEF DataSpec
=============================================================================
