---------------------------- MODULE Data_proofs ----------------------------
(***************************************************************************)
(* Proofs about the data paths of MC_Data, for every value of the          *)
(* constants: a value bound to a statement comes back as it was given,     *)
(* what a column announces is what its values are, and no reply makes its  *)
(* parser read or allocate beyond what it holds.                           *)
(*                                                                         *)
(* The recursions of the models are recursive functions, over the depth of *)
(* a value or the positions of a sequence. That such a function exists is  *)
(* a lemma of its own (PartsDef, DecodeDef and their like); what it computes*)
(* is then shown by induction over a set of numbers (SetInduction).        *)
(***************************************************************************)
EXTENDS MC_Data, FiniteSetTheorems, SequenceTheorems, WellFoundedInduction, TLAPS

-----------------------------------------------------------------------------
(* Induction, and recursive functions                                      *)

\* Induction over a set of numbers, from b on: the numbers that are not in it
\* have no least.
LEMMA SetInduction ==
  ASSUME NEW T, NEW b \in Nat, b \in T,
         \A m \in Nat : b <= m /\ m \in T => m + 1 \in T
  PROVE  \A m \in Nat : b <= m => m \in T
<1> DEFINE U == {m \in Nat : b <= m /\ m \notin T}
<1> SUFFICES ASSUME U # {} PROVE FALSE
  OBVIOUS
<1>1. U \subseteq Nat
  OBVIOUS
<1>2. PICK x \in U : \A y \in U : ~(<<y, x>> \in OpToRel(<, Nat))
  BY <1>1, NatLessThanWellFounded, WFMin
<1>3. x \in Nat /\ b <= x /\ x \notin T
  OBVIOUS
<1>4. x # b
  BY <1>3
<1>5. x - 1 \in Nat /\ b <= x - 1 /\ (x - 1) + 1 = x /\ x - 1 < x
  BY <1>3, <1>4
<1>6. x - 1 \notin T
  BY <1>3, <1>5
<1>7. x - 1 \in U
  BY <1>5, <1>6
<1>8. <<x - 1, x>> \in OpToRel(<, Nat)
  BY <1>3, <1>5 DEF OpToRel
<1> QED
  BY <1>2, <1>7, <1>8

\* What lies d deep, for the two kinds of nesting.
PartsAt(f, d, x) == IF d = 0 THEN {x} ELSE UNION {V!Elements(y) : y \in f[d - 1]}
MembersAt(f, d, x) == IF d = 0 THEN {x} ELSE UNION {V!Members(y) : y \in f[d - 1]}

LEMMA PartsDef ==
  ASSUME MaxDepth \in Nat, NEW x
  PROVE  LET f == V!Levels(x, V!Elements)
         IN f = [d \in 0 .. MaxDepth + 1 |-> PartsAt(f, d, x)]
<1> DEFINE Fun(f, n) == f = [d \in 0 .. n |-> PartsAt(f, d, x)]
           T == {n \in Nat : \E f : Fun(f, n)}
<1>1. 0 \in T
  <2>1. Fun([d \in 0 .. 0 |-> {x}], 0)
    BY DEF PartsAt
  <2> QED
    BY <2>1
<1>2. ASSUME NEW n \in Nat, n \in T PROVE n + 1 \in T
  <2>1. PICK f : Fun(f, n)
    BY <1>2
  <2> DEFINE g == [d \in 0 .. n + 1 |-> IF d = n + 1 THEN UNION {V!Elements(y) : y \in f[n]} ELSE f[d]]
  <2>2. ASSUME NEW d \in 0 .. n + 1 PROVE g[d] = PartsAt(g, d, x)
    <3>1. CASE d = n + 1
      <4>1. d - 1 = n /\ n \in 0 .. n + 1 /\ n # n + 1 /\ d # 0
        BY <3>1
      <4>2. g[n] = f[n]
        BY <4>1
      <4> QED
        BY <3>1, <4>1, <4>2 DEF PartsAt
    <3>2. CASE d # n + 1
      <4>1. d \in 0 .. n
        BY <3>2
      <4>2. g[d] = PartsAt(f, d, x)
        BY <2>1, <3>2, <4>1
      <4>3. d # 0 => d - 1 \in 0 .. n + 1 /\ d - 1 # n + 1
        BY <4>1
      <4>4. d # 0 => g[d - 1] = f[d - 1]
        BY <4>3
      <4> QED
        BY <4>2, <4>4, Zenon DEF PartsAt
    <3> QED
      BY <3>1, <3>2
  <2>3. Fun(g, n + 1)
    BY <2>2
  <2>4. n + 1 \in Nat
    OBVIOUS
  <2> HIDE DEF g, Fun
  <2> QED
    BY <2>3, <2>4
<1>3. \E f : Fun(f, MaxDepth + 1)
  <2>1. 0 \in Nat /\ \A m \in Nat : 0 <= m
    OBVIOUS
  <2>2. \A m \in Nat : m \in T
    BY <1>1, <1>2, <2>1, SetInduction, Zenon
  <2>3. MaxDepth + 1 \in Nat
    OBVIOUS
  <2> QED
    BY <2>2, <2>3
<1> DEFINE f == CHOOSE f : f = [d \in 0 .. MaxDepth + 1 |->
                   IF d = 0 THEN {x} ELSE UNION {V!Elements(y) : y \in f[d - 1]}]
<1>4. V!Levels(x, V!Elements) = f
  BY Zenon DEF V!Levels
<1>5. f = [d \in 0 .. MaxDepth + 1 |-> PartsAt(f, d, x)]
  BY <1>3, Zenon DEF PartsAt
<1> QED
  BY <1>4, <1>5, Zenon

LEMMA MembersDef ==
  ASSUME MaxDepth \in Nat, NEW x
  PROVE  LET f == V!Levels(x, V!Members)
         IN f = [d \in 0 .. MaxDepth + 1 |-> MembersAt(f, d, x)]
<1> DEFINE Fun(f, n) == f = [d \in 0 .. n |-> MembersAt(f, d, x)]
           T == {n \in Nat : \E f : Fun(f, n)}
<1>1. 0 \in T
  <2>1. Fun([d \in 0 .. 0 |-> {x}], 0)
    BY DEF MembersAt
  <2> QED
    BY <2>1
<1>2. ASSUME NEW n \in Nat, n \in T PROVE n + 1 \in T
  <2>1. PICK f : Fun(f, n)
    BY <1>2
  <2> DEFINE g == [d \in 0 .. n + 1 |-> IF d = n + 1 THEN UNION {V!Members(y) : y \in f[n]} ELSE f[d]]
  <2>2. ASSUME NEW d \in 0 .. n + 1 PROVE g[d] = MembersAt(g, d, x)
    <3>1. CASE d = n + 1
      <4>1. d - 1 = n /\ n \in 0 .. n + 1 /\ n # n + 1 /\ d # 0
        BY <3>1
      <4>2. g[n] = f[n]
        BY <4>1
      <4> QED
        BY <3>1, <4>1, <4>2 DEF MembersAt
    <3>2. CASE d # n + 1
      <4>1. d \in 0 .. n
        BY <3>2
      <4>2. g[d] = MembersAt(f, d, x)
        BY <2>1, <3>2, <4>1
      <4>3. d # 0 => d - 1 \in 0 .. n + 1 /\ d - 1 # n + 1
        BY <4>1
      <4>4. d # 0 => g[d - 1] = f[d - 1]
        BY <4>3
      <4> QED
        BY <4>2, <4>4, Zenon DEF MembersAt
    <3> QED
      BY <3>1, <3>2
  <2>3. Fun(g, n + 1)
    BY <2>2
  <2>4. n + 1 \in Nat
    OBVIOUS
  <2> HIDE DEF g, Fun
  <2> QED
    BY <2>3, <2>4
<1>3. \E f : Fun(f, MaxDepth + 1)
  <2>1. 0 \in Nat /\ \A m \in Nat : 0 <= m
    OBVIOUS
  <2>2. \A m \in Nat : m \in T
    BY <1>1, <1>2, <2>1, SetInduction, Zenon
  <2>3. MaxDepth + 1 \in Nat
    OBVIOUS
  <2> QED
    BY <2>2, <2>3
<1> DEFINE f == CHOOSE f : f = [d \in 0 .. MaxDepth + 1 |->
                   IF d = 0 THEN {x} ELSE UNION {V!Members(y) : y \in f[d - 1]}]
<1>4. V!Levels(x, V!Members) = f
  BY Zenon DEF V!Levels
<1>5. f = [d \in 0 .. MaxDepth + 1 |-> MembersAt(f, d, x)]
  BY <1>3, Zenon DEF MembersAt
<1> QED
  BY <1>4, <1>5, Zenon

\* The parts of a value one level deeper are decoded first.
DecodedAt(f, d, p) ==
  IF p[1] \in V!Collections THEN V!DecodeCollection(p[2], d, f[d + 1])
  ELSE V!DecodeScalar(p[1], p[2])

LEMMA DecodeDef ==
  ASSUME MaxDepth \in Nat, NEW code, NEW b, NEW P, P = V!Levels(V!Part(code, b), V!Elements)
  PROVE  \E f : /\ f = [d \in 0 .. MaxDepth + 1 |-> [p \in P[d] |-> DecodedAt(f, d, p)]]
               /\ V!Decode(code, b) = f[0][V!Part(code, b)]
<1> DEFINE N == MaxDepth + 1
           Fun(f, n) == f = [d \in N - n .. N |-> [p \in P[d] |-> DecodedAt(f, d, p)]]
           T == {n \in Nat : n > N \/ \E f : Fun(f, n)}
<1>0. N \in Nat /\ N >= MaxDepth
  OBVIOUS
<1> HIDE DEF N
<1>1. 0 \in T
  <2> DEFINE f == [d \in N - 0 .. N |-> [p \in P[d] |->
                IF p[1] \in V!Collections THEN V!Refused ELSE V!DecodeScalar(p[1], p[2])]]
  <2>1. \A d \in N - 0 .. N : d = N
    BY <1>0
  <2>2. \A p, g : p[1] \in V!Collections => V!DecodeCollection(p[2], N, g) = V!Refused
    BY <1>0 DEF V!DecodeCollection, V!TooDeep
  <2>3. \A d \in N - 0 .. N : \A p \in P[d] : f[d][p] = DecodedAt(f, d, p)
    BY <2>1, <2>2 DEF DecodedAt
  <2>4. \A d \in N - 0 .. N : f[d] = [p \in P[d] |-> DecodedAt(f, d, p)]
    BY <2>3
  <2>5. Fun(f, 0)
    BY <2>4
  <2> HIDE DEF f, Fun
  <2> QED
    BY <2>5
<1>2. ASSUME NEW n \in Nat, n \in T PROVE n + 1 \in T
  <2>0. n + 1 \in Nat
    OBVIOUS
  <2>1. CASE n > N
    <3>1. n + 1 > N
      BY <1>0, <2>1
    <3> HIDE DEF Fun
    <3> QED
      BY <2>0, <3>1
  <2>2. CASE ~(n > N)
    <3>1. PICK f : Fun(f, n)
      BY <1>2, <2>2
    <3> DEFINE e == N - (n + 1)
               g == [d \in e .. N |-> IF d = e THEN [p \in P[e] |-> DecodedAt(f, e, p)] ELSE f[d]]
    <3>2. e \in Int /\ e + 1 = N - n /\ e + 1 \in e .. N /\ e + 1 # e /\ e \in e .. N
      BY <1>0, <2>2
    <3>3. ASSUME NEW d \in e .. N PROVE g[d] = [p \in P[d] |-> DecodedAt(g, d, p)]
      <4>1. CASE d = e
        <5>1. g[e + 1] = f[e + 1]
          BY <3>2
        <5>2. \A p : DecodedAt(f, e, p) = DecodedAt(g, e, p)
          BY <5>1, Zenon DEF DecodedAt
        <5>3. g[e] = [p \in P[e] |-> DecodedAt(f, e, p)]
          BY <3>2, Zenon
        <5> QED
          BY <4>1, <5>2, <5>3, Zenon
      <4>2. CASE d # e
        <5>1. d \in N - n .. N /\ ((d + 1 \in e .. N /\ d + 1 # e) \/ d + 1 = N + 1)
          BY <1>0, <3>2, <4>2
        <5>2. g[d] = f[d]
          BY <4>2, Zenon
        <5>3. f[d] = [p \in P[d] |-> DecodedAt(f, d, p)]
          BY <3>1, <5>1, Zenon
        <5>4. \A p \in P[d] : DecodedAt(f, d, p) = DecodedAt(g, d, p)
          <6>1. CASE d + 1 = N + 1
            <7>1. d = N
              BY <1>0, <6>1
            <7>2. \A p, h : p[1] \in V!Collections => V!DecodeCollection(p[2], N, h) = V!Refused
              BY <1>0 DEF V!DecodeCollection, V!TooDeep
            <7> QED
              BY <7>1, <7>2 DEF DecodedAt
          <6>2. CASE d + 1 \in e .. N /\ d + 1 # e
            <7>1. g[d + 1] = f[d + 1]
              BY <6>2, Zenon
            <7> QED
              BY <7>1, Zenon DEF DecodedAt
          <6> QED
            BY <5>1, <6>1, <6>2
        <5> QED
          BY <5>2, <5>3, <5>4, Zenon
      <4> QED
        BY <4>1, <4>2
    <3>4. Fun(g, n + 1)
      BY <3>3
    <3> HIDE DEF g, Fun
    <3> QED
      BY <2>0, <3>4
  <2> QED
    BY <2>1, <2>2
<1>3. \E f : Fun(f, N)
  <2>1. 0 \in Nat /\ \A m \in Nat : 0 <= m
    OBVIOUS
  <2>2. \A m \in Nat : m \in T
    BY <1>1, <1>2, <2>1, SetInduction, Zenon
  <2>3. ~(N > N)
    BY <1>0
  <2> QED
    BY <1>0, <2>2, <2>3
<1>4. N - N = 0
  BY <1>0
<1>5. \E f : f = [d \in 0 .. MaxDepth + 1 |-> [p \in P[d] |-> DecodedAt(f, d, p)]]
  BY <1>3, <1>4 DEF N
<1> DEFINE h == CHOOSE h : h = [d \in 0 .. MaxDepth + 1 |-> [p \in P[d] |->
                   IF p[1] \in V!Collections THEN V!DecodeCollection(p[2], d, h[d + 1])
                   ELSE V!DecodeScalar(p[1], p[2])]]
<1>6. V!Decode(code, b) = h[0][V!Part(code, b)]
  BY Zenon DEF V!Decode
<1>7. h = [d \in 0 .. MaxDepth + 1 |-> [p \in P[d] |-> DecodedAt(h, d, p)]]
  BY <1>5, Zenon DEF DecodedAt
<1> QED
  BY <1>6, <1>7, Zenon

\* The values in a collection are widened first.
WidenedAt(f, d, x) ==
  IF x[1] = "slice" /\ d < MaxDepth
  THEN <<"slice", [i \in DOMAIN x[2] |-> f[d + 1][x[2][i]]]>>
  ELSE V!Widen(x)

LEMMA WidenDef ==
  ASSUME MaxDepth \in Nat, NEW v, NEW P, P = V!Levels(v, V!Members)
  PROVE  \E f : /\ f = [d \in 0 .. MaxDepth |-> [x \in P[d] |-> WidenedAt(f, d, x)]]
               /\ V!ToDriverValue(v) = f[0][v]
<1> DEFINE N == MaxDepth
           Fun(f, n) == f = [d \in N - n .. N |-> [x \in P[d] |-> WidenedAt(f, d, x)]]
           T == {n \in Nat : n > N \/ \E f : Fun(f, n)}
<1>0. N \in Nat /\ N >= MaxDepth
  OBVIOUS
<1> HIDE DEF N
<1>1. 0 \in T
  <2> DEFINE f == [d \in N - 0 .. N |-> [x \in P[d] |->
                V!Widen(x)]]
  <2>1. \A d \in N - 0 .. N : d = N
    BY <1>0
  <2>2. ~(N < MaxDepth)
    BY <1>0
  <2>3. \A d \in N - 0 .. N : \A x \in P[d] : f[d][x] = WidenedAt(f, d, x)
    BY <2>1, <2>2 DEF WidenedAt
  <2>4. \A d \in N - 0 .. N : f[d] = [x \in P[d] |-> WidenedAt(f, d, x)]
    BY <2>3
  <2>5. Fun(f, 0)
    BY <2>4
  <2> HIDE DEF f, Fun
  <2> QED
    BY <2>5
<1>2. ASSUME NEW n \in Nat, n \in T PROVE n + 1 \in T
  <2>0. n + 1 \in Nat
    OBVIOUS
  <2>1. CASE n > N
    <3>1. n + 1 > N
      BY <1>0, <2>1
    <3> HIDE DEF Fun
    <3> QED
      BY <2>0, <3>1
  <2>2. CASE ~(n > N)
    <3>1. PICK f : Fun(f, n)
      BY <1>2, <2>2
    <3> DEFINE e == N - (n + 1)
               g == [d \in e .. N |-> IF d = e THEN [x \in P[e] |-> WidenedAt(f, e, x)] ELSE f[d]]
    <3>2. e \in Int /\ e + 1 = N - n /\ e + 1 \in e .. N /\ e + 1 # e /\ e \in e .. N
      BY <1>0, <2>2
    <3>3. ASSUME NEW d \in e .. N PROVE g[d] = [x \in P[d] |-> WidenedAt(g, d, x)]
      <4>1. CASE d = e
        <5>1. g[e + 1] = f[e + 1]
          BY <3>2
        <5>2. \A x : WidenedAt(f, e, x) = WidenedAt(g, e, x)
          BY <5>1, Zenon DEF WidenedAt
        <5>3. g[e] = [x \in P[e] |-> WidenedAt(f, e, x)]
          BY <3>2, Zenon
        <5> QED
          BY <4>1, <5>2, <5>3, Zenon
      <4>2. CASE d # e
        <5>1. d \in N - n .. N /\ ((d + 1 \in e .. N /\ d + 1 # e) \/ d + 1 = N + 1)
          BY <1>0, <3>2, <4>2
        <5>2. g[d] = f[d]
          BY <4>2, Zenon
        <5>3. f[d] = [x \in P[d] |-> WidenedAt(f, d, x)]
          BY <3>1, <5>1, Zenon
        <5>4. \A x \in P[d] : WidenedAt(f, d, x) = WidenedAt(g, d, x)
          <6>1. CASE d + 1 = N + 1
            <7>1. d = N
              BY <1>0, <6>1
            <7>2. ~(d < MaxDepth)
              BY <1>0, <7>1
            <7> QED
              BY <7>1, <7>2 DEF WidenedAt
          <6>2. CASE d + 1 \in e .. N /\ d + 1 # e
            <7>1. g[d + 1] = f[d + 1]
              BY <6>2, Zenon
            <7> QED
              BY <7>1, Zenon DEF WidenedAt
          <6> QED
            BY <5>1, <6>1, <6>2
        <5> QED
          BY <5>2, <5>3, <5>4, Zenon
      <4> QED
        BY <4>1, <4>2
    <3>4. Fun(g, n + 1)
      BY <3>3
    <3> HIDE DEF g, Fun
    <3> QED
      BY <2>0, <3>4
  <2> QED
    BY <2>1, <2>2
<1>3. \E f : Fun(f, N)
  <2>1. 0 \in Nat /\ \A m \in Nat : 0 <= m
    OBVIOUS
  <2>2. \A m \in Nat : m \in T
    BY <1>1, <1>2, <2>1, SetInduction, Zenon
  <2>3. ~(N > N)
    BY <1>0
  <2> QED
    BY <1>0, <2>2, <2>3
<1>4. N - N = 0
  BY <1>0
<1>5. \E f : f = [d \in 0 .. MaxDepth |-> [x \in P[d] |-> WidenedAt(f, d, x)]]
  BY <1>3, <1>4 DEF N
<1> DEFINE h == CHOOSE h : h = [d \in 0 .. MaxDepth |-> [x \in P[d] |->
                   IF x[1] = "slice" /\ d < MaxDepth
                   THEN <<"slice", [i \in DOMAIN x[2] |-> h[d + 1][x[2][i]]]>> ELSE V!Widen(x)]]
<1>6. V!ToDriverValue(v) = h[0][v]
  BY Zenon DEF V!ToDriverValue
<1>7. h = [d \in 0 .. MaxDepth |-> [x \in P[d] |-> WidenedAt(h, d, x)]]
  BY <1>5, Zenon DEF WidenedAt
<1> QED
  BY <1>6, <1>7, Zenon

\* The number that the first i bits are.
FirstBits(f, i, b) == IF i = 0 THEN 0 ELSE 2 * f[i - 1] + (IF i = 1 THEN -b[1] ELSE b[i])

LEMMA SignedDef ==
  ASSUME NEW b \in Seq(Int)
  PROVE  \E f : /\ f = [i \in 0 .. Len(b) |-> FirstBits(f, i, b)]
               /\ V!Signed(b) = f[Len(b)]
<1> DEFINE Fun(f, n) == f = [i \in 0 .. n |-> FirstBits(f, i, b)]
           T == {n \in Nat : \E f : Fun(f, n)}
<1>1. 0 \in T
  <2>1. Fun([i \in 0 .. 0 |-> 0], 0)
    BY DEF FirstBits
  <2> HIDE DEF Fun
  <2> QED
    BY <2>1
<1>2. ASSUME NEW n \in Nat, n \in T PROVE n + 1 \in T
  <2>1. PICK f : Fun(f, n)
    BY <1>2
  <2> DEFINE g == [i \in 0 .. n + 1 |-> IF i = n + 1 THEN FirstBits(f, n + 1, b) ELSE f[i]]
  <2>2. ASSUME NEW i \in 0 .. n + 1 PROVE g[i] = FirstBits(g, i, b)
    <3>0. i # 0 => i - 1 \in 0 .. n + 1 /\ i - 1 # n + 1
      OBVIOUS
    <3>1. i # 0 => g[i - 1] = f[i - 1]
      BY <3>0
    <3>2. FirstBits(g, i, b) = FirstBits(f, i, b)
      <4> HIDE DEF g
      <4> QED
        BY <3>1 DEF FirstBits
    <3>3. CASE i = n + 1
      BY <3>2, <3>3
    <3>4. CASE i # n + 1
      <4>1. i \in 0 .. n
        BY <3>4
      <4>2. f[i] = FirstBits(f, i, b)
        BY <2>1, <4>1, Zenon
      <4> QED
        BY <3>2, <3>4, <4>2, Zenon
    <3> QED
      BY <3>3, <3>4
  <2>3. Fun(g, n + 1)
    BY <2>2
  <2>4. n + 1 \in Nat
    OBVIOUS
  <2> HIDE DEF g, Fun
  <2> QED
    BY <2>3, <2>4
<1>3. \E f : Fun(f, Len(b))
  <2>1. 0 \in Nat /\ \A m \in Nat : 0 <= m
    OBVIOUS
  <2>2. \A m \in Nat : m \in T
    BY <1>1, <1>2, <2>1, SetInduction, Zenon
  <2> QED
    BY <2>2
<1> DEFINE h == CHOOSE h : h = [i \in 0 .. Len(b) |->
                   IF i = 0 THEN 0 ELSE 2 * h[i - 1] + (IF i = 1 THEN -b[1] ELSE b[i])]
<1>4. V!Signed(b) = h[Len(b)]
  BY Zenon DEF V!Signed
<1>5. h = [i \in 0 .. Len(b) |-> FirstBits(h, i, b)]
  BY <1>3, Zenon DEF FirstBits
<1> QED
  BY <1>4, <1>5, Zenon

\* Collections n deep.
NestedAt(f, n) ==
  IF n = 1 THEN V!Collection(V!TInt, <<V!Elem(V!Digits(1, 4), 4)>>)
  ELSE V!Collection(V!TSequence, <<V!Elem(f[n - 1], 5)>>)

LEMMA NestedDef ==
  ASSUME MaxDepth \in Nat
  PROVE  V!Nested = [n \in 1 .. MaxDepth + 1 |-> NestedAt(V!Nested, n)]
<1> DEFINE Fun(f, n) == f = [i \in 1 .. n |-> NestedAt(f, i)]
           T == {n \in Nat : \E f : Fun(f, n)}
<1>1. 0 \in T
  <2>1. Fun([i \in 1 .. 0 |-> 0], 0)
    OBVIOUS
  <2> HIDE DEF Fun
  <2> QED
    BY <2>1
<1>2. ASSUME NEW n \in Nat, n \in T PROVE n + 1 \in T
  <2>1. PICK f : Fun(f, n)
    BY <1>2
  <2> DEFINE g == [i \in 1 .. n + 1 |-> IF i = n + 1 THEN NestedAt(f, n + 1) ELSE f[i]]
  <2>2. ASSUME NEW i \in 1 .. n + 1 PROVE g[i] = NestedAt(g, i)
    <3>0. i # 1 => i - 1 \in 1 .. n + 1 /\ i - 1 # n + 1
      OBVIOUS
    <3>1. i # 1 => g[i - 1] = f[i - 1]
      BY <3>0
    <3>2. NestedAt(g, i) = NestedAt(f, i)
      <4> HIDE DEF g
      <4> QED
        BY <3>1 DEF NestedAt
    <3>3. CASE i = n + 1
      BY <3>2, <3>3
    <3>4. CASE i # n + 1
      <4>1. i \in 1 .. n
        BY <3>4
      <4>2. f[i] = NestedAt(f, i)
        BY <2>1, <4>1, Zenon
      <4> QED
        BY <3>2, <3>4, <4>2, Zenon
    <3> QED
      BY <3>3, <3>4
  <2>3. Fun(g, n + 1)
    BY <2>2
  <2>4. n + 1 \in Nat
    OBVIOUS
  <2> HIDE DEF g, Fun
  <2> QED
    BY <2>3, <2>4
<1>3. \E f : Fun(f, MaxDepth + 1)
  <2>1. 0 \in Nat /\ \A m \in Nat : 0 <= m
    OBVIOUS
  <2>2. \A m \in Nat : m \in T
    BY <1>1, <1>2, <2>1, SetInduction, Zenon
  <2>3. MaxDepth + 1 \in Nat
    OBVIOUS
  <2> QED
    BY <2>2, <2>3
<1> DEFINE h == CHOOSE h : h = [n \in 1 .. MaxDepth + 1 |->
                   IF n = 1 THEN V!Collection(V!TInt, <<V!Elem(V!Digits(1, 4), 4)>>)
                   ELSE V!Collection(V!TSequence, <<V!Elem(h[n - 1], 5)>>)]
<1>4. V!Nested = h
  BY Zenon DEF V!Nested
<1>5. h = [n \in 1 .. MaxDepth + 1 |-> NestedAt(h, n)]
  BY <1>3, Zenon DEF NestedAt
<1> QED
  BY <1>4, <1>5, Zenon

-----------------------------------------------------------------------------
(* Decoding                                                                *)

\* A value that is no collection is decoded for itself.
LEMMA DecodePlain ==
  ASSUME MaxDepth \in Nat, NEW code, NEW b, code \notin V!Collections
  PROVE  V!Decode(code, b) = V!DecodeScalar(code, b)
<1> DEFINE P == V!Levels(V!Part(code, b), V!Elements)
<1>1. PICK f : /\ f = [d \in 0 .. MaxDepth + 1 |-> [p \in P[d] |-> DecodedAt(f, d, p)]]
               /\ V!Decode(code, b) = f[0][V!Part(code, b)]
  BY DecodeDef, Zenon
<1>2. 0 \in 0 .. MaxDepth + 1
  OBVIOUS
<1>3. P[0] = {V!Part(code, b)}
  BY <1>2, PartsDef DEF PartsAt
<1> HIDE DEF P
<1>4. f[0] = [p \in P[0] |-> DecodedAt(f, 0, p)]
  BY <1>1, <1>2, Zenon
<1>5. f[0][V!Part(code, b)] = DecodedAt(f, 0, V!Part(code, b))
  BY <1>3, <1>4, Zenon
<1>6. V!Part(code, b)[1] = code /\ V!Part(code, b)[2] = b
  BY DEF V!Part
<1> QED
  BY <1>1, <1>5, <1>6, Zenon DEF DecodedAt

\* The i-th element of a collection of values that are no collections.
FlatValue(c, i) ==
  IF c.elems[i].size <= 0 THEN V!Nil ELSE V!DecodeScalar(c.et, c.elems[i].body)

\* A collection is an error or a slice.
LEMMA DecodeKind ==
  ASSUME MaxDepth \in Nat, NEW code, NEW c, code \in V!Collections
  PROVE  V!Decode(code, c) = V!Refused \/ V!Decode(code, c)[1] = "slice"
<1> DEFINE P == V!Levels(V!Part(code, c), V!Elements)
<1>1. PICK f : /\ f = [d \in 0 .. MaxDepth + 1 |-> [p \in P[d] |-> DecodedAt(f, d, p)]]
               /\ V!Decode(code, c) = f[0][V!Part(code, c)]
  BY DecodeDef, Zenon
<1>2. 0 \in 0 .. MaxDepth + 1
  OBVIOUS
<1>3. P[0] = {V!Part(code, c)}
  BY <1>2, PartsDef DEF PartsAt
<1> HIDE DEF P
<1>4. f[0] = [p \in P[0] |-> DecodedAt(f, 0, p)]
  BY <1>1, <1>2, Zenon
<1>5. f[0][V!Part(code, c)] = DecodedAt(f, 0, V!Part(code, c))
  BY <1>3, <1>4, Zenon
<1>6. V!Part(code, c)[1] = code /\ V!Part(code, c)[2] = c
  BY DEF V!Part
<1>7. V!Decode(code, c) = V!DecodeCollection(c, 0, f[0 + 1])
  BY <1>1, <1>5, <1>6, Zenon DEF DecodedAt
<1>8. \A g : V!DecodeCollection(c, 0, g) = V!Refused \/ V!DecodeCollection(c, 0, g)[1] = "slice"
  BY DEF V!DecodeCollection
<1> QED
  BY <1>7, <1>8, Zenon

\* A collection of values that are no collections.
LEMMA DecodeFlat ==
  ASSUME MaxDepth \in Nat \ {0}, NEW code, NEW c, code \in V!Collections,
         c.et \notin V!Collections, \A i \in DOMAIN c.elems : c.elems[i].size \in Int
  PROVE  V!Decode(code, c) = IF \E i \in DOMAIN c.elems : FlatValue(c, i)[1] = "error"
                             THEN V!Refused
                             ELSE <<"slice", [i \in DOMAIN c.elems |-> FlatValue(c, i)]>>
<1> DEFINE P == V!Levels(V!Part(code, c), V!Elements)
<1>0. MaxDepth \in Nat
  OBVIOUS
<1>1. PICK f : /\ f = [d \in 0 .. MaxDepth + 1 |-> [p \in P[d] |-> DecodedAt(f, d, p)]]
               /\ V!Decode(code, c) = f[0][V!Part(code, c)]
  BY <1>0, DecodeDef, Zenon
<1>2. 0 \in 0 .. MaxDepth + 1 /\ 1 \in 0 .. MaxDepth + 1 /\ 1 # 0 /\ 0 + 1 = 1 /\ 1 - 1 = 0
  OBVIOUS
<1>3. P[0] = {V!Part(code, c)}
  BY <1>2, PartsDef DEF PartsAt
<1>4. P[1] = V!Elements(V!Part(code, c))
  <2>1. P[1] = PartsAt(P, 1, V!Part(code, c))
    BY <1>0, <1>2, PartsDef
  <2> HIDE DEF P
  <2>2. P[1] = UNION {V!Elements(y) : y \in P[0]}
    BY <1>2, <2>1 DEF PartsAt
  <2> QED
    BY <1>3, <2>2
<1> HIDE DEF P
<1>5. f[0] = [p \in P[0] |-> DecodedAt(f, 0, p)] /\ f[1] = [p \in P[1] |-> DecodedAt(f, 1, p)]
  BY <1>1, <1>2, Zenon
<1>6. f[0][V!Part(code, c)] = DecodedAt(f, 0, V!Part(code, c))
  BY <1>3, <1>5, Zenon
<1>7. V!Part(code, c)[1] = code /\ V!Part(code, c)[2] = c
  BY DEF V!Part
<1>8. V!Decode(code, c) = V!DecodeCollection(c, 0, f[1])
  BY <1>1, <1>2, <1>6, <1>7, Zenon DEF DecodedAt
<1>9. ASSUME NEW i \in DOMAIN c.elems, ~(c.elems[i].size <= 0)
      PROVE  f[1][V!Part(c.et, c.elems[i].body)] = V!DecodeScalar(c.et, c.elems[i].body)
  <2>1. V!Part(c.et, c.elems[i].body) \in P[1]
    BY <1>4, <1>7, <1>9 DEF V!Elements
  <2>2. f[1][V!Part(c.et, c.elems[i].body)] = DecodedAt(f, 1, V!Part(c.et, c.elems[i].body))
    BY <1>5, <2>1, Zenon
  <2>3. V!Part(c.et, c.elems[i].body)[1] = c.et /\ V!Part(c.et, c.elems[i].body)[2] = c.elems[i].body
    BY DEF V!Part
  <2> QED
    BY <2>2, <2>3, Zenon DEF DecodedAt
<1> DEFINE v(i) == IF c.elems[i].size <= 0 THEN V!Nil ELSE f[1][V!Part(c.et, c.elems[i].body)]
<1>10. \A i \in DOMAIN c.elems : v(i) = FlatValue(c, i)
  BY <1>9 DEF FlatValue
<1>11. ~V!TooDeep(0)
  BY DEF V!TooDeep
<1>12. V!DecodeCollection(c, 0, f[1]) =
         IF \E i \in DOMAIN c.elems : v(i)[1] = "error" THEN V!Refused
         ELSE <<"slice", [i \in DOMAIN c.elems |-> v(i)]>>
  BY <1>11, Zenon DEF V!DecodeCollection
<1> HIDE DEF v
<1>13. [i \in DOMAIN c.elems |-> v(i)] = [i \in DOMAIN c.elems |-> FlatValue(c, i)]
  BY <1>10, Zenon
<1>14. (\E i \in DOMAIN c.elems : v(i)[1] = "error") <=> (\E i \in DOMAIN c.elems : FlatValue(c, i)[1] = "error")
  BY <1>10, Zenon
<1> QED
  BY <1>8, <1>12, <1>13, <1>14, Zenon

LEMMA ScalarOfType ==
  ASSUME NEW b
  PROVE  /\ \A code \in V!Chars : V!DecodeScalar(code, b) = <<"string", V!TrimNul(b)>>
         /\ V!DecodeScalar(V!TJSON, b) = <<"bytes", V!TrimNul(b)>>
         /\ \A code \in V!Ints : V!DecodeScalar(code, b) = <<"int32", V!Signed(b)>>
         /\ \A code \in V!Shorts : V!DecodeScalar(code, b) = <<"int16", V!Signed(b)>>
         /\ \A code \in V!Bigints : V!DecodeScalar(code, b) = <<"int64", V!Signed(b)>>
         /\ V!DecodeScalar(V!TFloat, b) = <<"float32", V!Signed(b)>>
         /\ V!DecodeScalar(V!TDouble, b) = <<"float64", V!Signed(b)>>
         /\ V!DecodeScalar(V!TMonetary, b) = <<"float64", V!Signed(b)>>
         /\ \A code \in V!Bits : V!DecodeScalar(code, b) = <<"bytes", b>>
         /\ \A code \in V!Times : V!DecodeScalar(code, b) = V!Time(V!WallOf(code, b), "UTC")
         /\ \A code \in V!Zoned :
              V!DecodeScalar(code, b) = V!Time(V!WallOf(code, b.wall), V!LookupZone(b.zone))
         /\ \A code \in {V!TNull, V!TObject} \cup V!Lobs : V!DecodeScalar(code, b) = V!Refused
<1> USE DEF V!Chars, V!TNumeric, V!TJSON, V!Ints, V!TInt, V!Shorts, V!TShort, V!Bigints, V!TBigint,
            V!TFloat, V!TDouble, V!TMonetary, V!Bits, V!Times, V!TDate, V!TTime, V!TTimestamp, V!TDatetime,
            V!Zoned, V!TNull, V!TObject, V!Lobs
<1>1. \A code \in V!Chars : V!DecodeScalar(code, b) = <<"string", V!TrimNul(b)>>
  BY DEF V!DecodeScalar
<1>2. V!DecodeScalar(V!TJSON, b) = <<"bytes", V!TrimNul(b)>>
  BY DEF V!DecodeScalar
<1>3. \A code \in V!Ints : V!DecodeScalar(code, b) = <<"int32", V!Signed(b)>>
  BY DEF V!DecodeScalar
<1>4. \A code \in V!Shorts : V!DecodeScalar(code, b) = <<"int16", V!Signed(b)>>
  BY DEF V!DecodeScalar
<1>5. \A code \in V!Bigints : V!DecodeScalar(code, b) = <<"int64", V!Signed(b)>>
  BY DEF V!DecodeScalar
<1>6. V!DecodeScalar(V!TFloat, b) = <<"float32", V!Signed(b)>>
  BY DEF V!DecodeScalar
<1>7. /\ V!DecodeScalar(V!TDouble, b) = <<"float64", V!Signed(b)>>
      /\ V!DecodeScalar(V!TMonetary, b) = <<"float64", V!Signed(b)>>
  BY DEF V!DecodeScalar
<1>8. \A code \in V!Bits : V!DecodeScalar(code, b) = <<"bytes", b>>
  BY DEF V!DecodeScalar
<1>9. \A code \in V!Times : V!DecodeScalar(code, b) = V!Time(V!WallOf(code, b), "UTC")
  BY DEF V!DecodeScalar
<1>10. \A code \in V!Zoned :
              V!DecodeScalar(code, b) = V!Time(V!WallOf(code, b.wall), V!LookupZone(b.zone))
  BY DEF V!DecodeScalar
<1>11. \A code \in {V!TNull, V!TObject} \cup V!Lobs : V!DecodeScalar(code, b) = V!Refused
  BY DEF V!DecodeScalar
<1> QED
  BY <1>1, <1>2, <1>3, <1>4, <1>5, <1>6, <1>7, <1>8, <1>9, <1>10, <1>11, Zenon

\* The first level of collections n deep holds the collections n - 1 deep, and so on.
LEMMA NestedParts ==
  ASSUME MaxDepth \in Nat \ {0}, NEW n \in 1 .. MaxDepth + 1, NEW P,
         P = V!Levels(V!Part(V!TSequence, V!Nested[n]), V!Elements)
  PROVE  \A d \in 0 .. n - 1 : P[d] = {V!Part(V!TSequence, V!Nested[n - d])}
<1> DEFINE x == V!Part(V!TSequence, V!Nested[n])
           T == {d \in Nat : d < n => P[d] = {V!Part(V!TSequence, V!Nested[n - d])}}
<1>1. \A d \in 0 .. MaxDepth + 1 : P[d] = PartsAt(P, d, x)
  BY PartsDef
<1>2. 0 \in T
  <2>1. 0 \in 0 .. MaxDepth + 1 /\ n - 0 = n
    OBVIOUS
  <2>2. P[0] = PartsAt(P, 0, x)
    BY <1>1, <2>1
  <2>3. P[0] = {x}
    BY <2>2, Zenon DEF PartsAt
  <2> QED
    BY <2>1, <2>3
<1>3. ASSUME NEW d \in Nat, d \in T PROVE d + 1 \in T
  <2> SUFFICES ASSUME d + 1 < n PROVE P[d + 1] = {V!Part(V!TSequence, V!Nested[n - (d + 1)])}
    OBVIOUS
  <2>1. d < n /\ d + 1 \in 0 .. MaxDepth + 1 /\ d + 1 # 0 /\ (d + 1) - 1 = d
        /\ n - d \in 1 .. MaxDepth + 1 /\ n - d # 1 /\ (n - d) - 1 = n - (d + 1)
    OBVIOUS
  <2>2. P[d] = {V!Part(V!TSequence, V!Nested[n - d])}
    BY <1>3, <2>1
  <2>3. P[d + 1] = UNION {V!Elements(y) : y \in P[d]}
    BY <1>1, <2>1 DEF PartsAt
  <2>4. P[d + 1] = V!Elements(V!Part(V!TSequence, V!Nested[n - d]))
    BY <2>2, <2>3
  <2>5. V!Nested[n - d] = V!Collection(V!TSequence, <<V!Elem(V!Nested[n - (d + 1)], 5)>>)
    <3>1. V!Nested[n - d] = NestedAt(V!Nested, n - d)
      BY <2>1, NestedDef
    <3> QED
      BY <2>1, <3>1 DEF NestedAt
  <2>6. V!Nested[n - d].et = V!TSequence /\ V!Nested[n - d].elems = <<V!Elem(V!Nested[n - (d + 1)], 5)>>
    BY <2>5 DEF V!Collection
  <2>7. PICK m : m = V!Nested[n - (d + 1)]
    OBVIOUS
  <2>8. PICK c : c = V!Nested[n - d]
    OBVIOUS
  <2>9. c.et = V!TSequence /\ c.elems = <<V!Elem(m, 5)>>
    BY <2>6, <2>7, <2>8
  <2>10. DOMAIN c.elems = {1} /\ c.elems[1].size = 5 /\ c.elems[1].body = m
    BY <2>9 DEF V!Elem
  <2>11. V!Elements(V!Part(V!TSequence, c)) = {V!Part(V!TSequence, m)}
    <3>1. PICK p : p = V!Part(V!TSequence, c)
      OBVIOUS
    <3>2. p[1] \in V!Collections /\ p[2] = c
      BY <3>1 DEF V!Part, V!TSequence, V!Collections
    <3>3. {i \in DOMAIN c.elems : c.elems[i].size > 0} = {1}
      BY <2>10
    <3>4. V!Elements(p) = {V!Part(p[2].et, p[2].elems[i].body) :
                             i \in {i \in DOMAIN p[2].elems : p[2].elems[i].size > 0}}
      BY <3>2 DEF V!Elements
    <3>5. V!Elements(p) = {V!Part(c.et, c.elems[i].body) :
                             i \in {i \in DOMAIN c.elems : c.elems[i].size > 0}}
      BY <3>2, <3>4
    <3>6. V!Elements(p) = {V!Part(c.et, c.elems[i].body) : i \in {1}}
      BY <3>3, <3>5
    <3> QED
      BY <2>9, <2>10, <3>1, <3>6
  <2> QED
    BY <2>4, <2>7, <2>8, <2>11
<1> HIDE DEF T
<1>4. \A d \in Nat : d \in T
  <2>1. 0 \in Nat /\ \A m \in Nat : 0 <= m
    OBVIOUS
  <2> QED
    BY <1>2, <1>3, <2>1, SetInduction, Zenon
<1> QED
  BY <1>4 DEF T

\* Collections nested up to MaxDepth deep are decoded, deeper ones are refused.
LEMMA DecodeNested ==
  ASSUME MaxDepth \in Nat \ {0}, NEW n \in 1 .. MaxDepth + 1
  PROVE  V!Decode(V!TSequence, V!Nested[n])[1] = IF n <= MaxDepth THEN "slice" ELSE "error"
<1> DEFINE P == V!Levels(V!Part(V!TSequence, V!Nested[n]), V!Elements)
           Q(d) == V!Part(V!TSequence, V!Nested[n - d])
<1>0. MaxDepth \in Nat /\ n \in Nat
  OBVIOUS
<1>1. PICK f : /\ f = [d \in 0 .. MaxDepth + 1 |-> [p \in P[d] |-> DecodedAt(f, d, p)]]
               /\ V!Decode(V!TSequence, V!Nested[n]) = f[0][V!Part(V!TSequence, V!Nested[n])]
  BY <1>0, DecodeDef, Zenon
<1>2. \A d \in 0 .. n - 1 : P[d] = {Q(d)}
  BY NestedParts
<1> HIDE DEF P
<1>3. ASSUME NEW d \in 0 .. n - 1
      PROVE  f[d][Q(d)] = V!DecodeCollection(V!Nested[n - d], d, f[d + 1])
  <2>1. d \in 0 .. MaxDepth + 1
    OBVIOUS
  <2>2. f[d] = [p \in P[d] |-> DecodedAt(f, d, p)]
    BY <1>1, <2>1, Zenon
  <2>3. Q(d) \in P[d]
    BY <1>2
  <2>4. f[d][Q(d)] = DecodedAt(f, d, Q(d))
    BY <2>2, <2>3, Zenon
  <2>5. Q(d)[1] \in V!Collections /\ Q(d)[2] = V!Nested[n - d]
    BY DEF V!Part, V!TSequence, V!Collections
  <2> QED
    BY <2>4, <2>5, Zenon DEF DecodedAt
<1> DEFINE Kind == IF n <= MaxDepth THEN "slice" ELSE "error"
           T == {k \in Nat : k < n => f[(n - 1) - k][Q((n - 1) - k)][1] = Kind}
<1>4. 0 \in T
  <2>1. n - 1 \in 0 .. n - 1 /\ (n - 1) - 0 = n - 1 /\ n - (n - 1) = 1 /\ 1 \in 1 .. MaxDepth + 1
    OBVIOUS
  <2>2. V!Nested[1] = V!Collection(V!TInt, <<V!Elem(V!Digits(1, 4), 4)>>)
    BY <1>0, <2>1, NestedDef DEF NestedAt
  <2>3. PICK c : c = V!Nested[1]
    OBVIOUS
  <2>4. c.et = V!TInt /\ c.elems = <<V!Elem(V!Digits(1, 4), 4)>>
    BY <2>2, <2>3 DEF V!Collection
  <2>5. DOMAIN c.elems = {1} /\ c.elems[1].size = 4 /\ c.elems[1].body = V!Digits(1, 4)
    BY <2>4 DEF V!Elem
  <2>6. f[n - 1][Q(n - 1)] = V!DecodeCollection(c, n - 1, f[(n - 1) + 1])
    BY <1>3, <2>1, <2>3
  <2>7. CASE n <= MaxDepth
    <3>1. n \in 0 .. MaxDepth + 1 /\ n # 0 /\ n - 1 \in 0 .. n - 1
      OBVIOUS
    <3>2. P[n] = UNION {V!Elements(y) : y \in P[n - 1]}
      BY <1>0, <3>1, PartsDef DEF P, PartsAt
    <3>3. P[n - 1] = {V!Part(V!TSequence, c)}
      BY <1>2, <2>1, <2>3
    <3>4. PICK p : p = V!Part(V!TSequence, c)
      OBVIOUS
    <3>5. p[1] \in V!Collections /\ p[2] = c
      BY <3>4 DEF V!Part, V!TSequence, V!Collections
    <3>6. V!Part(c.et, c.elems[1].body) \in V!Elements(p)
      BY <2>5, <3>5 DEF V!Elements
    <3>7. V!Part(c.et, c.elems[1].body) \in P[n]
      BY <3>2, <3>3, <3>4, <3>6
    <3>8. f[n] = [q \in P[n] |-> DecodedAt(f, n, q)]
      BY <1>1, <3>1, Zenon
    <3>9. PICK q : q = V!Part(c.et, c.elems[1].body)
      OBVIOUS
    <3>10. f[n][q] = DecodedAt(f, n, q)
      BY <3>7, <3>8, <3>9, Zenon
    <3>11. q[1] = 8 /\ 8 \notin V!Collections
      BY <2>4, <3>9 DEF V!Part, V!TInt, V!TSequence, V!Collections
    <3>12. f[n][q] = V!DecodeScalar(8, q[2])
      BY <3>10, <3>11, Zenon DEF DecodedAt
    <3>13. V!DecodeScalar(8, q[2])[1] = "int32"
      <4>1. 8 \in V!Ints
        BY DEF V!Ints, V!TInt
      <4>2. V!DecodeScalar(8, q[2]) = <<"int32", V!Signed(q[2])>>
        BY <4>1, ScalarOfType, Zenon
      <4> QED
        BY <4>2
    <3>14. ~V!TooDeep(n - 1)
      BY <2>7 DEF V!TooDeep
    <3>15. PICK g : g = f[n]
      OBVIOUS
    <3>16. V!DecodeCollection(c, n - 1, g)[1] = "slice"
      BY <2>5, <3>9, <3>12, <3>13, <3>14, <3>15 DEF V!DecodeCollection
    <3>17. (n - 1) + 1 = n
      OBVIOUS
    <3> QED
      BY <2>1, <2>6, <2>7, <3>15, <3>16, <3>17
  <2>8. CASE ~(n <= MaxDepth)
    <3>1. V!TooDeep(n - 1)
      BY <2>8 DEF V!TooDeep
    <3>2. V!DecodeCollection(c, n - 1, f[(n - 1) + 1]) = V!Refused
      BY <3>1 DEF V!DecodeCollection
    <3> QED
      BY <2>1, <2>6, <2>8, <3>2 DEF V!Refused
  <2> QED
    BY <2>7, <2>8
<1>5. ASSUME NEW k \in Nat, k \in T PROVE k + 1 \in T
  <2> SUFFICES ASSUME k + 1 < n
               PROVE  f[(n - 1) - (k + 1)][Q((n - 1) - (k + 1))][1] = Kind
    OBVIOUS
  <2>1. PICK d \in 0 .. n - 1 : d = (n - 1) - (k + 1)
    OBVIOUS
  <2>2. d + 1 = (n - 1) - k /\ d + 1 \in 0 .. n - 1 /\ n - d \in 1 .. MaxDepth + 1 /\ n - d # 1
        /\ (n - d) - 1 = n - (d + 1) /\ k < n
    BY <2>1
  <2>3. f[d + 1][Q(d + 1)][1] = Kind
    BY <1>5, <2>2
  <2>4. V!Nested[n - d] = V!Collection(V!TSequence, <<V!Elem(V!Nested[n - (d + 1)], 5)>>)
    <3>1. V!Nested[n - d] = NestedAt(V!Nested, n - d)
      BY <2>2, NestedDef
    <3> QED
      BY <2>2, <3>1 DEF NestedAt
  <2>5. PICK c, m : c = V!Nested[n - d] /\ m = V!Nested[n - (d + 1)]
    OBVIOUS
  <2>6. c.et = V!TSequence /\ c.elems = <<V!Elem(m, 5)>>
    BY <2>4, <2>5 DEF V!Collection
  <2>7. DOMAIN c.elems = {1} /\ c.elems[1].size = 5 /\ c.elems[1].body = m
    BY <2>6 DEF V!Elem
  <2>8. f[d][Q(d)] = V!DecodeCollection(c, d, f[d + 1])
    BY <1>3, <2>1, <2>5
  <2>9. PICK g : g = f[d + 1]
    OBVIOUS
  <2>10. g[V!Part(c.et, m)][1] = Kind
    BY <2>3, <2>5, <2>6, <2>9
  <2>11. CASE n <= MaxDepth
    <3>1. ~V!TooDeep(d)
      BY <2>1, <2>11 DEF V!TooDeep
    <3>2. g[V!Part(c.et, m)][1] # "error"
      BY <2>10, <2>11
    <3>3. V!DecodeCollection(c, d, g)[1] = "slice"
      BY <3>1, <3>2, <2>7 DEF V!DecodeCollection
    <3> QED
      BY <2>1, <2>8, <2>9, <2>11, <3>3
  <2>12. CASE ~(n <= MaxDepth)
    <3>1. g[V!Part(c.et, m)][1] = "error"
      BY <2>10, <2>12
    <3>2. V!DecodeCollection(c, d, g) = V!Refused
      BY <3>1, <2>7 DEF V!DecodeCollection
    <3> QED
      BY <2>1, <2>8, <2>9, <2>12, <3>2 DEF V!Refused
  <2> QED
    BY <2>11, <2>12
<1>6. \A k \in Nat : k \in T
  <2>1. 0 \in Nat /\ \A m \in Nat : 0 <= m
    OBVIOUS
  <2> HIDE DEF T
  <2> QED
    BY <1>4, <1>5, <2>1, SetInduction, Zenon
<1>7. n - 1 \in Nat /\ n - 1 < n /\ (n - 1) - (n - 1) = 0 /\ n - 0 = n
  OBVIOUS
<1>8. f[0][Q(0)][1] = Kind
  BY <1>6, <1>7
<1> QED
  BY <1>1, <1>7, <1>8

-----------------------------------------------------------------------------
(* Bytes                                                                   *)

\* Two's complement, in each of the widths.
LEMMA DigitsType ==
  ASSUME NEW v \in Int, NEW n \in {2, 4, 8}
  PROVE  V!Digits(v, n) \in Seq(Int) /\ Len(V!Digits(v, n)) = n
<1>1. \A i \in 1 .. n : V!Weight[n - i + 1] \in Nat \ {0}
  BY DEF V!Weight
<1>2. \A i \in 1 .. n : (v \div V!Weight[n - i + 1]) % 2 \in Int
  BY <1>1
<1> QED
  BY <1>2 DEF V!Digits

\* The number so far is doubled with each bit.
LEMMA BitByBit ==
  ASSUME NEW b \in Seq(Int), Len(b) \in Nat \ {0}
  PROVE  \E f : /\ f[1] = -b[1] /\ \A i \in 2 .. Len(b) : f[i] = 2 * f[i - 1] + b[i]
               /\ V!Signed(b) = f[Len(b)]
<1>1. PICK f : f = [i \in 0 .. Len(b) |-> FirstBits(f, i, b)] /\ V!Signed(b) = f[Len(b)]
  BY SignedDef
<1>2. \A i \in 0 .. Len(b) : f[i] = FirstBits(f, i, b)
  BY <1>1, Zenon
<1>3. f[0] = 0
  BY <1>2 DEF FirstBits
<1>4. f[1] = -b[1]
  <2>1. 1 \in 0 .. Len(b) /\ 1 # 0 /\ 1 - 1 = 0 /\ b[1] \in Int
    OBVIOUS
  <2>2. f[1] = 2 * f[0] + (-b[1])
    BY <1>2, <2>1 DEF FirstBits
  <2> QED
    BY <1>3, <2>1, <2>2
<1>5. ASSUME NEW i \in 2 .. Len(b) PROVE f[i] = 2 * f[i - 1] + b[i]
  <2>1. i \in 0 .. Len(b) /\ i # 0 /\ i # 1
    OBVIOUS
  <2> QED
    BY <1>2, <2>1 DEF FirstBits
<1> QED
  BY <1>1, <1>4, <1>5

LEMMA Halved ==
  ASSUME NEW v \in Int
  PROVE  /\ v \div 1 = v
         /\ 2 * (v \div 2) + ((v \div 1) % 2) = v \div 1
         /\ 2 * (v \div 4) + ((v \div 2) % 2) = v \div 2
         /\ 2 * (v \div 8) + ((v \div 4) % 2) = v \div 4
         /\ 2 * (v \div 16) + ((v \div 8) % 2) = v \div 8
         /\ 2 * (v \div 32) + ((v \div 16) % 2) = v \div 16
         /\ 2 * (v \div 64) + ((v \div 32) % 2) = v \div 32
         /\ 2 * (v \div 128) + ((v \div 64) % 2) = v \div 64
<1>1. v \div 1 = v
  OBVIOUS
<1>2. 2 * (v \div 2) + ((v \div 1) % 2) = v \div 1
  OBVIOUS
<1>3. 2 * (v \div 4) + ((v \div 2) % 2) = v \div 2
  OBVIOUS
<1>4. 2 * (v \div 8) + ((v \div 4) % 2) = v \div 4
  OBVIOUS
<1>5. 2 * (v \div 16) + ((v \div 8) % 2) = v \div 8
  OBVIOUS
<1>6. 2 * (v \div 32) + ((v \div 16) % 2) = v \div 16
  OBVIOUS
<1>7. 2 * (v \div 64) + ((v \div 32) % 2) = v \div 32
  OBVIOUS
<1>8. 2 * (v \div 128) + ((v \div 64) % 2) = v \div 64
  OBVIOUS
<1> QED
  BY <1>1, <1>2, <1>3, <1>4, <1>5, <1>6, <1>7, <1>8, Zenon

LEMMA SignedDigits2 ==
  ASSUME NEW v \in -2 .. 1
  PROVE  V!Signed(V!Digits(v, 2)) = v
<1>1. PICK b \in Seq(Int) : b = V!Digits(v, 2) /\ Len(b) = 2
  BY DigitsType
<1>2. \A i \in 1 .. 2 : b[i] = (v \div V!Weight[2 - i + 1]) % 2
  BY <1>1 DEF V!Digits
<1>3. PICK f : /\ f[1] = -b[1] /\ \A i \in 2 .. 2 : f[i] = 2 * f[i - 1] + b[i]
               /\ V!Signed(b) = f[2]
  <2>1. 2 \in Nat \ {0}
    OBVIOUS
  <2> QED
    BY <1>1, <2>1, BitByBit, Zenon
<1>4. v \in Int
  OBVIOUS
<1>5. f[1] = v \div 2
  <2>1. b[1] = (v \div 2) % 2
    BY <1>2 DEF V!Weight
  <2>2. -((v \div 2) % 2) = v \div 2
    OBVIOUS
  <2> QED
    BY <1>3, <2>1, <2>2
<1>6. f[2] = v \div 1
  <2>1. b[2] = (v \div 1) % 2
    BY <1>2 DEF V!Weight
  <2>2. f[2] = 2 * f[1] + b[2]
    BY <1>3
  <2> QED
    BY <1>4, <1>5, <2>1, <2>2, Halved
<1> QED
  BY <1>1, <1>3, <1>4, <1>6, Halved

LEMMA SignedDigits4 ==
  ASSUME NEW v \in -8 .. 7
  PROVE  V!Signed(V!Digits(v, 4)) = v
<1>1. PICK b \in Seq(Int) : b = V!Digits(v, 4) /\ Len(b) = 4
  BY DigitsType
<1>2. \A i \in 1 .. 4 : b[i] = (v \div V!Weight[4 - i + 1]) % 2
  BY <1>1 DEF V!Digits
<1>3. PICK f : /\ f[1] = -b[1] /\ \A i \in 2 .. 4 : f[i] = 2 * f[i - 1] + b[i]
               /\ V!Signed(b) = f[4]
  <2>1. 4 \in Nat \ {0}
    OBVIOUS
  <2> QED
    BY <1>1, <2>1, BitByBit, Zenon
<1>4. v \in Int
  OBVIOUS
<1>5. f[1] = v \div 8
  <2>1. b[1] = (v \div 8) % 2
    BY <1>2 DEF V!Weight
  <2>2. -((v \div 8) % 2) = v \div 8
    OBVIOUS
  <2> QED
    BY <1>3, <2>1, <2>2
<1>6. f[2] = v \div 4
  <2>1. b[2] = (v \div 4) % 2
    BY <1>2 DEF V!Weight
  <2>2. f[2] = 2 * f[1] + b[2]
    BY <1>3
  <2> QED
    BY <1>4, <1>5, <2>1, <2>2, Halved
<1>7. f[3] = v \div 2
  <2>1. b[3] = (v \div 2) % 2
    BY <1>2 DEF V!Weight
  <2>2. f[3] = 2 * f[2] + b[3]
    BY <1>3
  <2> QED
    BY <1>4, <1>6, <2>1, <2>2, Halved
<1>8. f[4] = v \div 1
  <2>1. b[4] = (v \div 1) % 2
    BY <1>2 DEF V!Weight
  <2>2. f[4] = 2 * f[3] + b[4]
    BY <1>3
  <2> QED
    BY <1>4, <1>7, <2>1, <2>2, Halved
<1> QED
  BY <1>1, <1>3, <1>4, <1>8, Halved

LEMMA SignedDigits8 ==
  ASSUME NEW v \in -128 .. 127
  PROVE  V!Signed(V!Digits(v, 8)) = v
<1>1. PICK b \in Seq(Int) : b = V!Digits(v, 8) /\ Len(b) = 8
  BY DigitsType
<1>2. \A i \in 1 .. 8 : b[i] = (v \div V!Weight[8 - i + 1]) % 2
  BY <1>1 DEF V!Digits
<1>3. PICK f : /\ f[1] = -b[1] /\ \A i \in 2 .. 8 : f[i] = 2 * f[i - 1] + b[i]
               /\ V!Signed(b) = f[8]
  <2>1. 8 \in Nat \ {0}
    OBVIOUS
  <2> QED
    BY <1>1, <2>1, BitByBit, Zenon
<1>4. v \in Int
  OBVIOUS
<1>5. f[1] = v \div 128
  <2>1. b[1] = (v \div 128) % 2
    BY <1>2 DEF V!Weight
  <2>2. -((v \div 128) % 2) = v \div 128
    OBVIOUS
  <2> QED
    BY <1>3, <2>1, <2>2
<1>6. f[2] = v \div 64
  <2>1. b[2] = (v \div 64) % 2
    BY <1>2 DEF V!Weight
  <2>2. f[2] = 2 * f[1] + b[2]
    BY <1>3
  <2> QED
    BY <1>4, <1>5, <2>1, <2>2, Halved
<1>7. f[3] = v \div 32
  <2>1. b[3] = (v \div 32) % 2
    BY <1>2 DEF V!Weight
  <2>2. f[3] = 2 * f[2] + b[3]
    BY <1>3
  <2> QED
    BY <1>4, <1>6, <2>1, <2>2, Halved
<1>8. f[4] = v \div 16
  <2>1. b[4] = (v \div 16) % 2
    BY <1>2 DEF V!Weight
  <2>2. f[4] = 2 * f[3] + b[4]
    BY <1>3
  <2> QED
    BY <1>4, <1>7, <2>1, <2>2, Halved
<1>9. f[5] = v \div 8
  <2>1. b[5] = (v \div 8) % 2
    BY <1>2 DEF V!Weight
  <2>2. f[5] = 2 * f[4] + b[5]
    BY <1>3
  <2> QED
    BY <1>4, <1>8, <2>1, <2>2, Halved
<1>10. f[6] = v \div 4
  <2>1. b[6] = (v \div 4) % 2
    BY <1>2 DEF V!Weight
  <2>2. f[6] = 2 * f[5] + b[6]
    BY <1>3
  <2> QED
    BY <1>4, <1>9, <2>1, <2>2, Halved
<1>11. f[7] = v \div 2
  <2>1. b[7] = (v \div 2) % 2
    BY <1>2 DEF V!Weight
  <2>2. f[7] = 2 * f[6] + b[7]
    BY <1>3
  <2> QED
    BY <1>4, <1>10, <2>1, <2>2, Halved
<1>12. f[8] = v \div 1
  <2>1. b[8] = (v \div 1) % 2
    BY <1>2 DEF V!Weight
  <2>2. f[8] = 2 * f[7] + b[8]
    BY <1>3
  <2> QED
    BY <1>4, <1>11, <2>1, <2>2, Halved
<1> QED
  BY <1>1, <1>3, <1>4, <1>12, Halved

\* A set of positions has a last and a first.
LEMMA LastExists ==
  ASSUME NEW m \in Nat, NEW I \in SUBSET (1 .. m), I # {}
  PROVE  \E x \in I : \A y \in I : x >= y
<1> DEFINE U == {m - i : i \in I}
<1>0. PICK z \in I : TRUE
  OBVIOUS
<1>1. U \subseteq Nat /\ U # {}
  <2>1. m - z \in U
    OBVIOUS
  <2>2. \A i \in I : m - i \in Nat
    OBVIOUS
  <2> QED
    BY <2>1, <2>2
<1>2. PICK u \in U : \A w \in U : ~(<<w, u>> \in OpToRel(<, Nat))
  BY <1>1, NatLessThanWellFounded, WFMin
<1>3. PICK x \in I : u = m - x
  OBVIOUS
<1>4. ASSUME NEW y \in I PROVE x >= y
  <2>1. m - y \in U /\ m - y \in Nat /\ m - x \in Nat
    OBVIOUS
  <2>2. ~(m - y < m - x)
    BY <1>2, <1>3, <2>1 DEF OpToRel
  <2> QED
    BY <2>1, <2>2
<1> QED
  BY <1>4

LEMMA FirstExists ==
  ASSUME NEW m \in Nat, NEW I \in SUBSET (1 .. m), I # {}
  PROVE  \E x \in I : \A y \in I : x <= y
<1>1. I \subseteq Nat
  OBVIOUS
<1>2. PICK x \in I : \A y \in I : ~(<<y, x>> \in OpToRel(<, Nat))
  BY <1>1, NatLessThanWellFounded, WFMin
<1>3. \A y \in I : ~(y < x)
  BY <1>1, <1>2 DEF OpToRel
<1> QED
  BY <1>3

\* A NUL more at the end is one more to trim.
LEMMA TrimNulAppended ==
  ASSUME NEW s \in Seq(Int)
  PROVE  V!TrimNul(s \o <<0>>) = V!TrimNul(s)
<1> DEFINE t == s \o <<0>>
           I == {i \in 1 .. Len(s) : s[i] # 0}
           J == {i \in 1 .. Len(t) : t[i] # 0}
<1>0. <<0>> \in Seq(Int) /\ Len(<<0>>) = 1 /\ <<0>>[1] = 0
  OBVIOUS
<1>1. t \in Seq(Int) /\ Len(t) = Len(s) + 1 /\ t[Len(s) + 1] = 0 /\ \A i \in 1 .. Len(s) : t[i] = s[i]
  BY <1>0
<1>2. I = J
  BY <1>1
<1> HIDE DEF t
<1>3. PICK n : n = IF I # {} THEN V!Max(I) ELSE 0
  OBVIOUS
<1>4. n \in 0 .. Len(s)
  <2>1. CASE I = {}
    BY <1>3, <2>1
  <2>2. CASE I # {}
    <3>1. I \subseteq 1 .. Len(s) /\ Len(s) \in Nat
      OBVIOUS
    <3> HIDE DEF I
    <3>2. n = CHOOSE x \in I : \A y \in I : x >= y
      BY <1>3, <2>2 DEF V!Max
    <3>3. \E x \in I : \A y \in I : x >= y
      BY <2>2, <3>1, LastExists
    <3>4. n \in I
      BY <3>2, <3>3
    <3> QED
      BY <3>1, <3>4
  <2> QED
    BY <2>1, <2>2
<1>5. V!SelectLastInSeq(s, LAMBDA c : c # 0) = n
  BY <1>3 DEF V!SelectLastInSeq
<1>6. V!SelectLastInSeq(t, LAMBDA c : c # 0) = n
  BY <1>2, <1>3 DEF V!SelectLastInSeq
<1>7. SubSeq(s, 1, n) = SubSeq(t, 1, n)
  BY <1>1, <1>4
<1> QED
  BY <1>5, <1>6, <1>7 DEF V!TrimNul, t

-----------------------------------------------------------------------------
(* Widening                                                                *)

LEMMA WidenPlain ==
  ASSUME MaxDepth \in Nat, NEW v, v[1] # "slice"
  PROVE  V!ToDriverValue(v) = V!Widen(v)
<1> DEFINE P == V!Levels(v, V!Members)
<1>1. PICK f : /\ f = [d \in 0 .. MaxDepth |-> [x \in P[d] |-> WidenedAt(f, d, x)]]
               /\ V!ToDriverValue(v) = f[0][v]
  BY WidenDef, Zenon
<1>2. 0 \in 0 .. MaxDepth + 1 /\ 0 \in 0 .. MaxDepth
  OBVIOUS
<1>3. P[0] = {v}
  BY <1>2, MembersDef DEF MembersAt
<1> HIDE DEF P
<1>4. f[0] = [x \in P[0] |-> WidenedAt(f, 0, x)]
  BY <1>1, <1>2, Zenon
<1>5. f[0][v] = WidenedAt(f, 0, v)
  BY <1>3, <1>4, Zenon
<1> QED
  BY <1>1, <1>5, Zenon DEF WidenedAt

\* A collection stays one, and its elements are widened each for itself.
LEMMA WidenSlice ==
  ASSUME MaxDepth \in Nat \ {0}, NEW v, v[1] = "slice"
  PROVE  /\ V!ToDriverValue(v)[1] = "slice"
         /\ (\A i \in DOMAIN v[2] : v[2][i][1] # "slice") =>
              V!ToDriverValue(v) = <<"slice", [i \in DOMAIN v[2] |-> V!Widen(v[2][i])]>>
<1> DEFINE P == V!Levels(v, V!Members)
<1>0. MaxDepth \in Nat
  OBVIOUS
<1>1. PICK f : /\ f = [d \in 0 .. MaxDepth |-> [x \in P[d] |-> WidenedAt(f, d, x)]]
               /\ V!ToDriverValue(v) = f[0][v]
  BY <1>0, WidenDef, Zenon
<1>2. /\ 0 \in 0 .. MaxDepth + 1 /\ 0 \in 0 .. MaxDepth /\ 0 < MaxDepth
      /\ 1 \in 0 .. MaxDepth + 1 /\ 1 \in 0 .. MaxDepth /\ 0 + 1 = 1 /\ 1 - 1 = 0 /\ 1 # 0
  OBVIOUS
<1>3. P[0] = {v}
  BY <1>2, MembersDef DEF MembersAt
<1>4. P[1] = V!Members(v)
  <2>1. P[1] = MembersAt(P, 1, v)
    BY <1>0, <1>2, MembersDef
  <2> HIDE DEF P
  <2>2. P[1] = UNION {V!Members(y) : y \in P[0]}
    BY <1>2, <2>1 DEF MembersAt
  <2> QED
    BY <1>3, <2>2
<1> HIDE DEF P
<1>5. f[0] = [x \in P[0] |-> WidenedAt(f, 0, x)] /\ f[1] = [x \in P[1] |-> WidenedAt(f, 1, x)]
  BY <1>1, <1>2, Zenon
<1>6. f[0][v] = WidenedAt(f, 0, v)
  BY <1>3, <1>5, Zenon
<1>7. V!ToDriverValue(v) = <<"slice", [i \in DOMAIN v[2] |-> f[1][v[2][i]]]>>
  BY <1>1, <1>2, <1>6, Zenon DEF WidenedAt
<1>8. V!ToDriverValue(v)[1] = "slice"
  BY <1>7
<1>9. ASSUME \A i \in DOMAIN v[2] : v[2][i][1] # "slice"
      PROVE  V!ToDriverValue(v) = <<"slice", [i \in DOMAIN v[2] |-> V!Widen(v[2][i])]>>
  <2>1. ASSUME NEW i \in DOMAIN v[2] PROVE f[1][v[2][i]] = V!Widen(v[2][i])
    <3>1. v[2][i] \in P[1]
      BY <1>4 DEF V!Members, V!ToSet
    <3>2. f[1][v[2][i]] = WidenedAt(f, 1, v[2][i])
      BY <1>5, <3>1, Zenon
    <3> QED
      BY <1>9, <3>2, Zenon DEF WidenedAt
  <2>2. [i \in DOMAIN v[2] |-> f[1][v[2][i]]] = [i \in DOMAIN v[2] |-> V!Widen(v[2][i])]
    BY <2>1, Zenon
  <2> QED
    BY <1>7, <2>2, Zenon
<1> QED
  BY <1>8, <1>9, Zenon

-----------------------------------------------------------------------------
(* There and back                                                          *)

\* The values that can be bound and are neither NULL nor a collection.
Bindables ==
  ({"bool"} \X {0, 1}) \cup ({"int16"} \X (-2 .. 1)) \cup ({"int32", "float32"} \X (-8 .. 7))
  \cup ({"int", "int64", "float64"} \X (-128 .. 127)) \cup ({"string", "bytes"} \X Seq(Int))
  \cup ({"time"} \X [wall : {V!Wall}, frac : {0, 1}, zone : {"UTC", "Asia/Seoul"}])

\* The wire types that a value is bound with.
Announced == {V!TShort, V!TInt, V!TBigint, V!TFloat, V!TDouble, V!TVarchar, V!TVarbit, V!TDatetime}

\* y comes back as its encoding is decoded and widened.
ComesBack(y) ==
  LET b == V!Scalar(y)
      v == V!DecodeScalar(V!WireType(y[1]), b)
  IN /\ V!WireType(y[1]) \in Announced
     /\ v[1] \notin {"error", "slice"}
     /\ Len(b) \in Nat /\ (b = <<>> <=> Len(b) = 0)
     /\ b = <<>> => V!ExpectedScalar(y) = V!Nil
     /\ b # <<>> => V!Widen(v) = V!ExpectedScalar(y)

LEMMA NumberReturns ==
  ASSUME NEW k \in {"bool", "int16", "int32", "int", "int64", "float32", "float64"}, NEW c \in Int,
         NEW t, t = V!WireType(k), t \in Announced, NEW y, y = <<k, c>>,
         NEW n \in {2, 4, 8}, n = V!Width(t), V!Signed(V!Digits(c, n)) = c,
         NEW kind \in {"int16", "int32", "int64", "float32", "float64"},
         V!DecodeScalar(t, V!Digits(c, n)) = <<kind, V!Signed(V!Digits(c, n))>>,
         kind \in {"float32", "float64"} <=> k \in {"float32", "float64"}
  PROVE  ComesBack(y)
<1>1. y[1] = k /\ y[2] = c
  OBVIOUS
<1>2. V!Scalar(y) = V!Digits(c, n)
  BY <1>1 DEF V!Scalar
<1>3. PICK b \in Seq(Int) : b = V!Digits(c, n) /\ Len(b) = n
  BY DigitsType
<1>4. Len(b) \in Nat /\ (b = <<>> <=> Len(b) = 0) /\ b # <<>>
  BY <1>3
<1>5. PICK v : v = V!DecodeScalar(t, b)
  OBVIOUS
<1>6. v = <<kind, c>>
  BY <1>3, <1>5
<1>7. v[1] = kind /\ v[2] = c
  BY <1>6
<1>8. V!ExpectedScalar(y) = IF k \in {"float32", "float64"} THEN <<"float64", c>> ELSE <<"int64", c>>
  BY <1>1 DEF V!ExpectedScalar
<1>9. V!Widen(v) = IF kind \in {"float32", "float64"} THEN <<"float64", c>> ELSE <<"int64", c>>
  <2>1. CASE kind = "int16" \/ kind = "int32"
    BY <1>7, <2>1 DEF V!Widen
  <2>2. CASE kind = "float32"
    BY <1>7, <2>2 DEF V!Widen
  <2>3. CASE kind = "int64" \/ kind = "float64"
    BY <1>6, <1>7, <2>3 DEF V!Widen
  <2> QED
    BY <2>1, <2>2, <2>3
<1>10. V!Widen(v) = V!ExpectedScalar(y)
  BY <1>8, <1>9
<1>11. v[1] \notin {"error", "slice"}
  BY <1>7
<1> QED
  BY <1>1, <1>2, <1>3, <1>4, <1>5, <1>10, <1>11 DEF ComesBack

LEMMA WireTypes ==
  /\ V!WireType("nil") = V!TNull /\ V!WireType("bool") = V!TShort /\ V!WireType("int16") = V!TShort
  /\ V!WireType("int32") = V!TInt /\ V!WireType("int") = V!TBigint /\ V!WireType("int64") = V!TBigint
  /\ V!WireType("float32") = V!TFloat /\ V!WireType("float64") = V!TDouble
  /\ V!WireType("string") = V!TVarchar /\ V!WireType("bytes") = V!TVarbit
  /\ V!WireType("time") = V!TDatetime
  /\ \A k : k \in {"Numeric", "slice", "unsupported", "nested"} => V!WireType(k) = -1
  BY DEF V!WireType

LEMMA Widths ==
  /\ V!Width(V!TShort) = 2 /\ V!Width(V!TInt) = 4 /\ V!Width(V!TFloat) = 4
  /\ V!Width(V!TBigint) = 8 /\ V!Width(V!TDouble) = 8
  BY DEF V!Width, V!TShort, V!TInt, V!TFloat, V!TBigint, V!TDouble, V!Shorts, V!Ints

LEMMA ScalarReturns ==
  ASSUME NEW y \in Bindables
  PROVE  ComesBack(y)
<1>0. /\ V!TShort \in V!Shorts /\ V!TInt \in V!Ints /\ V!TBigint \in V!Bigints /\ V!TVarchar \in V!Chars
      /\ V!TVarbit \in V!Bits /\ V!TDatetime \in V!Times
  BY DEF V!TShort, V!Shorts, V!TInt, V!Ints, V!TBigint, V!Bigints, V!TVarchar, V!Chars, V!TVarbit,
         V!Bits, V!TDatetime, V!Times
<1>00. 2 \in {2, 4, 8} /\ 4 \in {2, 4, 8} /\ 8 \in {2, 4, 8}
  OBVIOUS
<1>1. CASE y \in ({"bool"} \X {0, 1}) \cup ({"int16"} \X (-2 .. 1))
  <2>1. PICK k \in {"bool", "int16"}, c \in -2 .. 1 : y = <<k, c>>
    BY <1>1
  <2>2. V!WireType(k) = V!TShort /\ V!Width(V!TShort) = 2 /\ V!TShort \in Announced
    BY WireTypes, Widths DEF Announced
  <2>3. V!Signed(V!Digits(c, 2)) = c /\ c \in Int
    BY SignedDigits2
  <2>4. V!DecodeScalar(V!TShort, V!Digits(c, 2)) = <<"int16", V!Signed(V!Digits(c, 2))>>
    BY <1>0, ScalarOfType, Zenon
  <2> QED
    BY <1>00, <2>1, <2>2, <2>3, <2>4, NumberReturns
<1>2. CASE y \in {"int32", "float32"} \X (-8 .. 7)
  <2>1. PICK k \in {"int32", "float32"}, c \in -8 .. 7 : y = <<k, c>>
    BY <1>2
  <2>3. V!Signed(V!Digits(c, 4)) = c /\ c \in Int
    BY SignedDigits4
  <2>4. CASE k = "int32"
    <3>1. V!WireType(k) = V!TInt /\ V!Width(V!TInt) = 4 /\ V!TInt \in Announced
      BY <2>4, WireTypes, Widths DEF Announced
    <3>2. V!DecodeScalar(V!TInt, V!Digits(c, 4)) = <<"int32", V!Signed(V!Digits(c, 4))>>
      BY <1>0, ScalarOfType, Zenon
    <3> QED
      BY <1>00, <2>1, <2>3, <2>4, <3>1, <3>2, NumberReturns
  <2>5. CASE k = "float32"
    <3>1. V!WireType(k) = V!TFloat /\ V!Width(V!TFloat) = 4 /\ V!TFloat \in Announced
      BY <2>5, WireTypes, Widths DEF Announced
    <3>2. V!DecodeScalar(V!TFloat, V!Digits(c, 4)) = <<"float32", V!Signed(V!Digits(c, 4))>>
      BY <1>0, ScalarOfType, Zenon
    <3> QED
      BY <1>00, <2>1, <2>3, <2>5, <3>1, <3>2, NumberReturns
  <2> QED
    BY <2>4, <2>5
<1>3. CASE y \in {"int", "int64", "float64"} \X (-128 .. 127)
  <2>1. PICK k \in {"int", "int64", "float64"}, c \in -128 .. 127 : y = <<k, c>>
    BY <1>3
  <2>3. V!Signed(V!Digits(c, 8)) = c /\ c \in Int
    BY SignedDigits8
  <2>4. CASE k \in {"int", "int64"}
    <3>1. V!WireType(k) = V!TBigint /\ V!Width(V!TBigint) = 8 /\ V!TBigint \in Announced
      BY <2>4, WireTypes, Widths DEF Announced
    <3>2. V!DecodeScalar(V!TBigint, V!Digits(c, 8)) = <<"int64", V!Signed(V!Digits(c, 8))>>
      BY <1>0, ScalarOfType, Zenon
    <3> QED
      BY <1>00, <2>1, <2>3, <2>4, <3>1, <3>2, NumberReturns
  <2>5. CASE k = "float64"
    <3>1. V!WireType(k) = V!TDouble /\ V!Width(V!TDouble) = 8 /\ V!TDouble \in Announced
      BY <2>5, WireTypes, Widths DEF Announced
    <3>2. V!DecodeScalar(V!TDouble, V!Digits(c, 8)) = <<"float64", V!Signed(V!Digits(c, 8))>>
      BY <1>0, ScalarOfType, Zenon
    <3> QED
      BY <1>00, <2>1, <2>3, <2>5, <3>1, <3>2, NumberReturns
  <2> QED
    BY <2>1, <2>4, <2>5
<1>4. CASE y \in {"string"} \X Seq(Int)
  <2>1. PICK c \in Seq(Int) : y = <<"string", c>>
    BY <1>4
  <2>2. y[1] = "string" /\ y[2] = c
    BY <2>1
  <2>3. PICK b : b = c \o <<0>>
    OBVIOUS
  <2>4. V!Scalar(y) = b
    BY <2>2, <2>3 DEF V!Scalar
  <2>5. <<0>> \in Seq(Int) /\ Len(<<0>>) = 1
    OBVIOUS
  <2>6. b \in Seq(Int) /\ Len(b) = Len(c) + 1
    BY <2>3, <2>5
  <2>7. Len(b) \in Nat /\ (b = <<>> <=> Len(b) = 0) /\ b # <<>>
    BY <2>6
  <2>8. V!WireType("string") = V!TVarchar /\ V!TVarchar \in Announced
    BY WireTypes DEF Announced
  <2>9. V!DecodeScalar(V!TVarchar, b) = <<"string", V!TrimNul(c)>>
    <3>1. V!DecodeScalar(V!TVarchar, b) = <<"string", V!TrimNul(b)>>
      BY <1>0, ScalarOfType, Zenon
    <3> QED
      BY <2>3, <3>1, TrimNulAppended
  <2>10. V!ExpectedScalar(y) = <<"string", V!TrimNul(c)>>
    BY <2>2 DEF V!ExpectedScalar
  <2>11. PICK v : v = V!DecodeScalar(V!TVarchar, b)
    OBVIOUS
  <2>12. v[1] = "string" /\ V!Widen(v) = v
    BY <2>9, <2>11 DEF V!Widen
  <2> QED
    BY <2>2, <2>4, <2>7, <2>8, <2>9, <2>10, <2>11, <2>12 DEF ComesBack
<1>5. CASE y \in {"bytes"} \X Seq(Int)
  <2>1. PICK c \in Seq(Int) : y = <<"bytes", c>>
    BY <1>5
  <2>2. y[1] = "bytes" /\ y[2] = c
    BY <2>1
  <2>4. V!Scalar(y) = c
    BY <2>2 DEF V!Scalar
  <2>7. Len(c) \in Nat /\ (c = <<>> <=> Len(c) = 0)
    OBVIOUS
  <2>8. V!WireType("bytes") = V!TVarbit /\ V!TVarbit \in Announced
    BY WireTypes DEF Announced
  <2>9. V!DecodeScalar(V!TVarbit, c) = <<"bytes", c>>
    BY <1>0, ScalarOfType, Zenon
  <2>10. V!ExpectedScalar(y) = IF c = <<>> THEN V!Nil ELSE y
    BY <2>2 DEF V!ExpectedScalar
  <2>11. PICK v : v = V!DecodeScalar(V!TVarbit, c)
    OBVIOUS
  <2>12. v = y /\ v[1] = "bytes" /\ V!Widen(v) = v
    BY <2>1, <2>9, <2>11 DEF V!Widen
  <2> QED
    BY <2>2, <2>4, <2>7, <2>8, <2>9, <2>10, <2>11, <2>12 DEF ComesBack
<1>6. CASE y \in {"time"} \X [wall : {V!Wall}, frac : {0, 1}, zone : {"UTC", "Asia/Seoul"}]
  <2>1. PICK c \in [wall : {V!Wall}, frac : {0, 1}, zone : {"UTC", "Asia/Seoul"}] : y = <<"time", c>>
    BY <1>6
  <2>2. y[1] = "time" /\ y[2] = c /\ c.wall = V!Wall
    BY <2>1
  <2>4. V!Scalar(y) = V!Wall
    BY <2>2 DEF V!Scalar
  <2>7. Len(V!Wall) \in Nat /\ (V!Wall = <<>> <=> Len(V!Wall) = 0) /\ V!Wall # <<>>
    BY DEF V!Wall
  <2>8. V!WireType("time") = V!TDatetime /\ V!TDatetime \in Announced
    BY WireTypes DEF Announced
  <2>9. V!DecodeScalar(V!TDatetime, V!Wall) = V!Time(V!WallOf(V!TDatetime, V!Wall), "UTC")
    BY <1>0, ScalarOfType, Zenon
  <2>10. V!WallOf(V!TDatetime, V!Wall) = V!Wall
    BY DEF V!WallOf, V!Fields, V!TDatetime, V!TDate, V!TTime, V!TTimestamp
  <2>11. V!ExpectedScalar(y) = V!Time(V!Wall, "UTC")
    BY <2>2 DEF V!ExpectedScalar
  <2>12. PICK v : v = V!DecodeScalar(V!TDatetime, V!Wall)
    OBVIOUS
  <2>13. v = V!Time(V!Wall, "UTC") /\ v[1] = "time"
    BY <2>9, <2>10, <2>12 DEF V!Time
  <2>14. V!Widen(v) = v
    BY <2>13 DEF V!Widen
  <2>15. v[1] \notin {"error", "slice"} /\ V!Widen(v) = V!ExpectedScalar(y)
    BY <2>11, <2>13, <2>14
  <2> QED
    BY <2>2, <2>4, <2>7, <2>8, <2>12, <2>15 DEF ComesBack
<1> QED
  BY <1>1, <1>2, <1>3, <1>4, <1>5, <1>6 DEF Bindables

LEMMA WireTypeRange ==
  ASSUME NEW k
  PROVE  V!WireType(k) = -1 \/ V!WireType(k) = V!TNull \/ V!WireType(k) \in Announced
  BY DEF V!WireType, Announced

\* The element types of a collection that can be bound are one, or none.
LEMMA OneElemType ==
  ASSUME NEW xs, V!Bindable(xs), NEW i \in DOMAIN xs, xs[i] # V!Nil
  PROVE  V!ElemTypes(xs) = {V!WireType(xs[i][1])}
<1> DEFINE S == V!ElemTypes(xs)
           t == V!WireType(xs[i][1])
<1>1. t \in S
  BY DEF V!ElemTypes
<1>2. \A u \in S : \E k : u = V!WireType(k)
  BY DEF V!ElemTypes
<1>3. \A u \in S : u \in Nat /\ u <= 22
  <2>1. -1 \notin S
    BY DEF V!Bindable
  <2> HIDE DEF S
  <2>2. \A u \in S : u = V!TNull \/ u \in Announced
    BY <1>2, <2>1, WireTypeRange
  <2> QED
    BY <2>2 DEF Announced, V!TNull, V!TShort, V!TInt, V!TBigint, V!TFloat, V!TDouble, V!TVarchar,
                V!TVarbit, V!TDatetime
<1>4. Cardinality(S) <= 1
  <2>1. Cardinality(S) = V!Cardinality(S)
    BY Zenon DEF Cardinality, V!Cardinality
  <2>2. V!Cardinality(S) <= 1
    BY DEF V!Bindable
  <2> HIDE DEF S
  <2> QED
    BY <2>1, <2>2
<1> HIDE DEF S, t
<1>5. IsFiniteSet(S)
  <2>1. S \in SUBSET Nat /\ 22 \in Nat /\ \A u \in S : u <= 22
    BY <1>3
  <2> QED
    BY <2>1, FS_BoundedSetOfNaturals, Zenon
<1>6. Cardinality(S) \in Nat /\ Cardinality(S) # 0
  BY <1>1, <1>5, FS_CardinalityType, FS_EmptySet
<1>7. Cardinality(S) = 1
  BY <1>4, <1>6
<1>8. PICK u : S = {u}
  BY <1>5, <1>7, FS_Singleton, Zenon
<1> QED
  BY <1>1, <1>8 DEF S, t

LEMMA ElementKinds ==
  ASSUME NEW e \in V!ElementValues
  PROVE  e = V!Nil \/ e \in Bindables \/ V!WireType(e[1]) = -1
<1>1. CASE e = V!Nil
  BY <1>1
<1>2. CASE e = <<"bool", 1>> \/ e = <<"int16", -2>> \/ e = <<"int32", -8>>
  BY <1>2 DEF Bindables
<1>3. CASE e = <<"string", <<>>>> \/ e = <<"string", <<1>>>> \/ e = <<"bytes", <<>>>> \/ e = <<"bytes", <<1>>>>
  <2>1. <<>> \in Seq(Int) /\ <<1>> \in Seq(Int)
    OBVIOUS
  <2>2. PICK k \in {"string", "bytes"}, s \in Seq(Int) : e = <<k, s>>
    BY <1>3, <2>1, Zenon
  <2>3. e \in {"string", "bytes"} \X Seq(Int)
    BY <2>2
  <2> QED
    BY <2>3 DEF Bindables
<1>4. CASE e = <<"Numeric", <<1>>>> \/ e = <<"slice", <<>>>>
  <2>1. e[1] \in {"Numeric", "slice"}
    BY <1>4
  <2> QED
    BY <2>1, WireTypes
<1> QED
  BY <1>1, <1>2, <1>3, <1>4 DEF V!ElementValues

\* A collection comes back, element by element.
LEMMA SliceReturns ==
  ASSUME MaxDepth \in Nat \ {0}, NEW n \in 0 .. 3, NEW xs \in [1 .. n -> V!ElementValues],
         V!Bindable(xs), NEW c, c = V!EncodeCollection(xs)
  PROVE  /\ c.et \in Announced \cup {V!TObject}
         /\ V!ToDriverValue(V!Decode(V!TSequence, c)) =
              <<"slice", [i \in DOMAIN xs |-> V!ExpectedScalar(xs[i])]>>
<1> DEFINE E(i) == IF xs[i] = V!Nil THEN V!NullElem ELSE V!Elem(V!Scalar(xs[i]), Len(V!Scalar(xs[i])))
<1>1. /\ c.et = IF V!ElemTypes(xs) = {} THEN V!TObject ELSE CHOOSE t \in V!ElemTypes(xs) : TRUE
      /\ c.elems = [i \in DOMAIN xs |-> E(i)]
  BY DEF V!EncodeCollection, V!Collection
<1>2. DOMAIN xs = 1 .. n /\ DOMAIN c.elems = 1 .. n
  BY <1>1
<1>3. \A i \in 1 .. n : c.elems[i] = E(i)
  BY <1>1, <1>2
<1>4. \A i \in 1 .. n : xs[i] # V!Nil => V!ElemTypes(xs) = {V!WireType(xs[i][1])}
  BY <1>2, OneElemType
<1>5. \A i \in 1 .. n : xs[i] # V!Nil => xs[i] \in Bindables /\ c.et = V!WireType(xs[i][1])
  <2> TAKE i \in 1 .. n
  <2> HAVE xs[i] # V!Nil
  <2>1. V!WireType(xs[i][1]) \in V!ElemTypes(xs)
    BY <1>4
  <2>2. V!WireType(xs[i][1]) # -1
    BY <2>1 DEF V!Bindable
  <2>3. xs[i] \in Bindables
    BY <2>2, ElementKinds
  <2> QED
    BY <1>1, <1>4, <2>3
<1>6. \A i \in 1 .. n : xs[i] # V!Nil => ComesBack(xs[i])
  BY <1>5, ScalarReturns
<1>7. c.et \in Announced \cup {V!TObject}
  <2>1. CASE \E i \in 1 .. n : xs[i] # V!Nil
    BY <1>5, <1>6, <2>1 DEF ComesBack
  <2>2. CASE \A i \in 1 .. n : xs[i] = V!Nil
    <3>1. V!ElemTypes(xs) = {}
      BY <1>2, <2>2 DEF V!ElemTypes
    <3> QED
      BY <1>1, <3>1
  <2> QED
    BY <2>1, <2>2
<1>8. c.et \notin V!Collections /\ V!TSequence \in V!Collections
  BY <1>7 DEF Announced, V!TObject, V!TShort, V!TInt, V!TBigint, V!TFloat, V!TDouble, V!TVarchar,
              V!TVarbit, V!TDatetime, V!Collections, V!TSequence
<1>9. ASSUME NEW i \in 1 .. n
      PROVE  /\ c.elems[i].size \in Int
             /\ FlatValue(c, i)[1] \notin {"error", "slice"}
             /\ V!Widen(FlatValue(c, i)) = V!ExpectedScalar(xs[i])
  <2>0. V!Nil[1] = "nil" /\ V!Widen(V!Nil) = V!Nil /\ V!ExpectedScalar(V!Nil) = V!Nil
    BY DEF V!Nil, V!Widen, V!ExpectedScalar
  <2>1. CASE xs[i] = V!Nil
    <3>1. c.elems[i] = V!Elem(<<>>, 0)
      BY <1>3, <2>1 DEF V!NullElem
    <3>2. c.elems[i].size = 0
      BY <3>1 DEF V!Elem
    <3>3. FlatValue(c, i) = V!Nil
      BY <3>2 DEF FlatValue
    <3> QED
      BY <2>0, <2>1, <3>2, <3>3
  <2>2. CASE xs[i] # V!Nil
    <3>1. c.elems[i] = V!Elem(V!Scalar(xs[i]), Len(V!Scalar(xs[i])))
      BY <1>3, <2>2
    <3>2. PICK b : b = V!Scalar(xs[i])
      OBVIOUS
    <3>3. c.elems[i].size = Len(b) /\ c.elems[i].body = b
      BY <3>1, <3>2 DEF V!Elem
    <3>4. PICK v : v = V!DecodeScalar(c.et, b)
      OBVIOUS
    <3>5. /\ v[1] \notin {"error", "slice"}
          /\ Len(b) \in Nat /\ (b = <<>> <=> Len(b) = 0)
          /\ b = <<>> => V!ExpectedScalar(xs[i]) = V!Nil
          /\ b # <<>> => V!Widen(v) = V!ExpectedScalar(xs[i])
      <4>1. ComesBack(xs[i]) /\ c.et = V!WireType(xs[i][1])
        BY <1>5, <1>6, <2>2
      <4> QED
        BY <3>2, <3>4, <4>1 DEF ComesBack
    <3>6. CASE b = <<>>
      <4>1. c.elems[i].size = 0
        BY <3>3, <3>5, <3>6
      <4>2. FlatValue(c, i) = V!Nil
        BY <4>1 DEF FlatValue
      <4> QED
        BY <2>0, <3>5, <3>6, <4>1, <4>2
    <3>7. CASE b # <<>>
      <4>1. c.elems[i].size \in Int /\ ~(c.elems[i].size <= 0)
        BY <3>3, <3>5, <3>7
      <4>2. FlatValue(c, i) = v
        BY <3>3, <3>4, <4>1 DEF FlatValue
      <4> QED
        BY <3>5, <3>7, <4>1, <4>2
    <3> QED
      BY <3>6, <3>7
  <2> QED
    BY <2>1, <2>2
<1>10. V!Decode(V!TSequence, c) = <<"slice", [i \in 1 .. n |-> FlatValue(c, i)]>>
  <2>1. \A i \in DOMAIN c.elems : c.elems[i].size \in Int
    BY <1>2, <1>9
  <2>2. V!Decode(V!TSequence, c) = IF \E i \in DOMAIN c.elems : FlatValue(c, i)[1] = "error"
                             THEN V!Refused
                             ELSE <<"slice", [i \in DOMAIN c.elems |-> FlatValue(c, i)]>>
    BY <1>8, <2>1, DecodeFlat, Zenon
  <2>3. ~\E i \in DOMAIN c.elems : FlatValue(c, i)[1] = "error"
    BY <1>2, <1>9
  <2> QED
    BY <1>2, <2>2, <2>3, Zenon
<1>11. PICK v : v = V!Decode(V!TSequence, c)
  OBVIOUS
<1>12. v[1] = "slice" /\ v[2] = [i \in 1 .. n |-> FlatValue(c, i)]
  BY <1>10, <1>11
<1>13. DOMAIN v[2] = 1 .. n /\ \A i \in 1 .. n : v[2][i] = FlatValue(c, i)
  BY <1>12
<1>14. \A i \in DOMAIN v[2] : v[2][i][1] # "slice"
  BY <1>9, <1>13
<1>15. V!ToDriverValue(v) = <<"slice", [i \in DOMAIN v[2] |-> V!Widen(v[2][i])]>>
  BY <1>12, <1>14, WidenSlice, Zenon
<1>16. [i \in DOMAIN v[2] |-> V!Widen(v[2][i])] = [i \in DOMAIN xs |-> V!ExpectedScalar(xs[i])]
  BY <1>2, <1>9, <1>13
<1> QED
  BY <1>7, <1>11, <1>15, <1>16, Zenon

-----------------------------------------------------------------------------
(* The inductive invariant of Values                                       *)

Phases == {"given", "stored", "prepared", "fetched", "delivered", "refused"}

\* A column of the server.
ColumnOK(c) ==
  /\ c \in [code : V!Codes, coll : 0 .. 3, form : {"extended", "legacy"}]
  /\ c.form = "legacy" => c.code < 32

\* given is a value that was bound.
IsBound == given # V!Nil /\ given[1] # "nested"

\* The value that was bound is in a column of its type.
StoredOK ==
  LET x == V!Bound(given)
  IN IF x[1] = "slice"
     THEN /\ V!Bindable(x[2])
          /\ data = V!Elem(V!EncodeCollection(x[2]), 5)
          /\ col.code = V!EncodeCollection(x[2]).et /\ col.coll = 3
     ELSE /\ V!WireType(x[1]) # -1
          /\ data = IF V!Scalar(x) = <<>> THEN V!NullColumn ELSE V!Elem(V!Scalar(x), Len(V!Scalar(x)))
          /\ col.code = V!WireType(x[1]) /\ col.coll = 0

\* v is of the type that the column announced, and the value that was bound.
DeliveredOK(v) ==
  /\ v = V!Nil \/ V!ScanType(seen) = "any" \/ v[1] = V!ScanType(seen)
  /\ IsBound => v = V!Expected(given)

\* given is collections that are nested n deep.
NestedOK ==
  \E n \in 1 .. MaxDepth + 1 :
    /\ given = <<"nested", n>>
    /\ phase \in {"stored", "prepared"} =>
         /\ col = [code |-> V!TSequence, coll |-> 3, form |-> "extended"]
         /\ data = V!Elem(V!Nested[n], 5)
    /\ phase \in {"fetched", "delivered"} => n <= MaxDepth
    /\ phase = "refused" => n > MaxDepth

ValueInv ==
  /\ V!ValuesConstants
  /\ phase \in Phases
  /\ IsBound \/ phase = "given" => given \in V!Scalars \cup V!Slices
  /\ given[1] = "nested" => NestedOK
  /\ phase \in {"stored", "prepared"} => ColumnOK(col) /\ (IsBound => StoredOK)
  /\ phase \in {"prepared", "fetched", "delivered"} => seen = col /\ ColumnOK(col)
  /\ phase = "fetched" => DeliveredOK(V!ToDriverValue(got))
  /\ phase = "delivered" => DeliveredOK(out)

LEMMA StrsType ==
  ASSUME NEW s \in V!Strs
  PROVE  s \in Seq(Int)
<1>1. PICK n \in 0 .. 2 : s \in [1 .. n -> {0, 1}]
  BY DEF V!Strs
<1>2. n \in Nat /\ s \in [1 .. n -> Int]
  BY <1>1
<1> QED
  BY <1>2

\* The kinds of the values that are given.
LEMMA GivenKinds ==
  ASSUME NEW x \in V!Scalars \cup V!Slices
  PROVE  /\ x[1] # "nested"
         /\ x[1] = "slice" => \E n \in 0 .. 3 : x[2] \in [1 .. n -> V!ElementValues]
         /\ x # V!Nil /\ V!Bound(x)[1] # "slice" /\ V!WireType(V!Bound(x)[1]) # -1 =>
              /\ V!Bound(x) \in Bindables /\ V!ExpectedScalar(V!Bound(x)) = V!ExpectedScalar(x)
         /\ V!Bound(x)[1] = "slice" <=> x[1] = "slice"
         /\ x[1] = "slice" => V!Bound(x) = x
<1>1. CASE x = V!Nil
  BY <1>1 DEF V!Nil, V!Bound
<1>2. CASE x = <<"unsupported", 0>>
  <2>1. x[1] = "unsupported" /\ V!Bound(x) = x /\ x # V!Nil
    BY <1>2 DEF V!Bound, V!Nil
  <2> QED
    BY <2>1, WireTypes
<1>3. CASE x \in V!Slices
  <2>1. x[1] = "slice" /\ \E n \in 0 .. 3 : x[2] \in [1 .. n -> V!ElementValues]
    BY <1>3 DEF V!Slices
  <2>2. V!Bound(x) = x
    BY <2>1 DEF V!Bound
  <2> QED
    BY <2>1, <2>2
<1>4. CASE x \in {"Numeric"} \X V!Strs
  <2>1. PICK s \in V!Strs : x = <<"Numeric", s>>
    BY <1>4
  <2>2. x[1] = "Numeric" /\ x[2] = s
    BY <2>1
  <2>3. PICK y : y = <<"string", s>>
    OBVIOUS
  <2>4. V!Bound(x) = y /\ y[1] = "string" /\ y[2] = s
    BY <2>2, <2>3 DEF V!Bound
  <2>5. s \in Seq(Int)
    BY StrsType
  <2>6. y \in Bindables
    BY <2>3, <2>5 DEF Bindables
  <2>7. V!ExpectedScalar(x) = <<"string", V!TrimNul(s)>> /\ V!ExpectedScalar(y) = <<"string", V!TrimNul(s)>>
    BY <2>2, <2>4 DEF V!ExpectedScalar
  <2> QED
    BY <2>2, <2>4, <2>6, <2>7
<1>5. CASE x \in {"string", "bytes"} \X V!Strs
  <2>1. PICK k \in {"string", "bytes"}, s \in V!Strs : x = <<k, s>>
    BY <1>5
  <2>2. x[1] = k /\ V!Bound(x) = x
    BY <2>1 DEF V!Bound
  <2>3. s \in Seq(Int)
    BY StrsType
  <2>4. x \in {"string", "bytes"} \X Seq(Int)
    BY <2>1, <2>3
  <2>5. x \in Bindables
    BY <2>4 DEF Bindables
  <2> QED
    BY <2>2, <2>5
<1>6. CASE x \in ({"bool"} \X {0, 1}) \cup ({"int16"} \X (-2 .. 1)) \cup ({"int32", "float32"} \X (-8 .. 7))
                  \cup ({"int", "int64", "float64"} \X (-128 .. 127))
                  \cup ({"time"} \X [wall : {V!Wall}, frac : {0, 1}, zone : {"UTC", "Asia/Seoul"}])
  <2>1. x \in Bindables
    BY <1>6 DEF Bindables
  <2>2. x[1] \in {"bool", "int16", "int32", "float32", "int", "int64", "float64", "time"}
    BY <1>6
  <2>3. V!Bound(x) = x
    BY <2>2 DEF V!Bound
  <2> QED
    BY <2>1, <2>2, <2>3
<1> QED
  BY <1>1, <1>2, <1>3, <1>4, <1>5, <1>6 DEF V!Scalars

LEMMA CodesRange ==
  /\ \A t \in Announced \cup {V!TObject, V!TNull} : t \in V!Codes /\ t < 32
  /\ V!Codes \subseteq Nat /\ \A t \in V!Codes : t < 256
  BY DEF Announced, V!TObject, V!TNull, V!TShort, V!TInt, V!TBigint, V!TFloat, V!TDouble, V!TVarchar,
         V!TVarbit, V!TDatetime, V!Codes, V!TJSON

LEMMA ValueInit == V!ValuesConstants /\ V!Init => ValueInv
<1> SUFFICES ASSUME V!ValuesConstants, V!Init PROVE ValueInv
  OBVIOUS
<1>1. CASE given \in V!Scalars \cup V!Slices /\ phase = "given"
  BY <1>1, GivenKinds DEF ValueInv, Phases
<1>2. CASE /\ given = V!Nil /\ phase = "stored"
           /\ \E code \in V!Codes, coll \in 0 .. 3, form \in {"extended", "legacy"} :
                 /\ form = "legacy" => code < 32
                 /\ col = [code |-> code, coll |-> coll, form |-> form]
  <2>1. given[1] # "nested" /\ ~IsBound
    BY <1>2 DEF V!Nil, IsBound
  <2>2. ColumnOK(col)
    BY <1>2 DEF ColumnOK
  <2> QED
    BY <1>2, <2>1, <2>2 DEF ValueInv, Phases
<1>3. CASE \E n \in 1 .. MaxDepth + 1 :
          /\ given = <<"nested", n>> /\ phase = "stored"
          /\ col = [code |-> V!TSequence, coll |-> 3, form |-> "extended"]
          /\ data = V!Elem(V!Nested[n], 5)
  <2>1. given[1] = "nested" /\ ~IsBound /\ phase = "stored"
    BY <1>3 DEF IsBound
  <2>2. NestedOK
    BY <1>3 DEF NestedOK
  <2>3. ColumnOK(col)
    BY <1>3 DEF ColumnOK, V!TSequence, V!Codes
  <2> QED
    BY <2>1, <2>2, <2>3 DEF ValueInv, Phases
<1> QED
  BY <1>1, <1>2, <1>3 DEF V!Init

LEMMA EncodeInv == ASSUME ValueInv, V!Encode PROVE ValueInv'
<1>0. /\ V!ValuesConstants /\ phase = "given" /\ given' = given
      /\ given \in V!Scalars \cup V!Slices
  BY DEF ValueInv, V!Encode
<1>1. PICK x : x = V!Bound(given)
  OBVIOUS
<1>2. given[1] # "nested"
  BY <1>0, GivenKinds
<1>3. CASE phase' = "refused"
  BY <1>0, <1>2, <1>3 DEF ValueInv, Phases, IsBound
<1>4. CASE phase' # "refused"
  <2>1. /\ IF x[1] = "slice" THEN V!Bindable(x[2]) ELSE V!WireType(x[1]) # -1
        /\ phase' = "stored"
        /\ data' = IF x[1] = "slice" THEN V!Elem(V!EncodeCollection(x[2]), 5)
                   ELSE IF x = V!Nil \/ V!Scalar(x) = <<>> THEN V!NullColumn
                   ELSE V!Elem(V!Scalar(x), Len(V!Scalar(x)))
        /\ \E form \in {"extended", "legacy"} :
             col' = IF x[1] = "slice"
                    THEN [code |-> data'.body.et, coll |-> 3, form |-> form]
                    ELSE [code |-> V!WireType(x[1]), coll |-> 0, form |-> form]
    BY <1>1, <1>4 DEF V!Encode
  <2>2. PICK form \in {"extended", "legacy"} :
             col' = IF x[1] = "slice"
                    THEN [code |-> data'.body.et, coll |-> 3, form |-> form]
                    ELSE [code |-> V!WireType(x[1]), coll |-> 0, form |-> form]
    BY <2>1
  <2>3. CASE x[1] = "slice"
    <3>1. PICK n \in 0 .. 3 : x[2] \in [1 .. n -> V!ElementValues]
      BY <1>0, <1>1, <2>3, GivenKinds
    <3>2. PICK c : c = V!EncodeCollection(x[2])
      OBVIOUS
    <3>3. data' = V!Elem(c, 5)
      BY <2>1, <2>3, <3>2
    <3>4. data'.body = c
      BY <3>3 DEF V!Elem
    <3>5. c.et \in Announced \cup {V!TObject}
      <4>1. MaxDepth \in Nat \ {0} /\ V!Bindable(x[2])
        BY <1>0, <2>1, <2>3 DEF V!ValuesConstants
      <4> QED
        BY <3>1, <3>2, <4>1, SliceReturns, Zenon
    <3>6. col' = [code |-> c.et, coll |-> 3, form |-> form]
      BY <2>2, <2>3, <3>4
    <3>7. col'.code = c.et /\ col'.coll = 3 /\ col'.form = form
      BY <3>6
    <3>8. c.et \in V!Codes /\ c.et < 32
      BY <3>5, CodesRange
    <3>9. ColumnOK(col')
      BY <3>6, <3>7, <3>8 DEF ColumnOK
    <3>10. StoredOK'
      BY <1>0, <1>1, <2>1, <2>3, <3>2, <3>3, <3>7 DEF StoredOK
    <3> QED
      BY <1>0, <1>2, <2>1, <3>9, <3>10 DEF ValueInv, Phases
  <2>4. CASE x[1] # "slice"
    <3>1. PICK t : t = V!WireType(x[1])
      OBVIOUS
    <3>2. t # -1
      BY <2>1, <2>4, <3>1
    <3>3. t \in Announced \cup {V!TNull}
      BY <3>1, <3>2, WireTypeRange
    <3>4. t \in V!Codes /\ t < 32
      BY <3>3, CodesRange
    <3>6. col' = [code |-> t, coll |-> 0, form |-> form]
      BY <2>2, <2>4, <3>1
    <3>7. col'.code = t /\ col'.coll = 0 /\ col'.form = form
      BY <3>6
    <3>9. ColumnOK(col')
      BY <3>4, <3>6, <3>7 DEF ColumnOK
    <3>10. IsBound' => StoredOK'
      <4> SUFFICES ASSUME IsBound' PROVE StoredOK'
        OBVIOUS
      <4>1. given # V!Nil
        BY <1>0 DEF IsBound
      <4>2. x # V!Nil
        <5>1. x \in Bindables
          BY <1>0, <1>1, <2>4, <3>1, <3>2, <4>1, GivenKinds
        <5>2. ComesBack(x)
          BY <5>1, ScalarReturns
        <5>3. t # V!TNull
          BY <3>1, <5>2 DEF ComesBack, Announced, V!TNull, V!TShort, V!TInt, V!TBigint, V!TFloat,
                 V!TDouble, V!TVarchar, V!TVarbit, V!TDatetime
        <5> QED
          BY <3>1, <5>3, WireTypes DEF V!Nil
      <4>3. data' = IF V!Scalar(x) = <<>> THEN V!NullColumn ELSE V!Elem(V!Scalar(x), Len(V!Scalar(x)))
        BY <2>1, <2>4, <4>2
      <4> QED
        BY <1>0, <1>1, <2>4, <3>1, <3>2, <3>7, <4>3 DEF StoredOK
    <3> QED
      BY <1>0, <1>2, <2>1, <3>9, <3>10 DEF ValueInv, Phases
  <2> QED
    BY <2>3, <2>4
<1> QED
  BY <1>3, <1>4

\* Both forms of the type field are read as they were meant.
LEMMA TypeFieldRead ==
  ASSUME NEW c, ColumnOK(c)
  PROVE  /\ V!ReadColumnType(V!TypeField(c)).code = c.code
         /\ V!ReadColumnType(V!TypeField(c)).coll = c.coll
         /\ V!SchemaTypeCode(V!AsNumber(V!TypeField(c))) = c.code
<1>1. PICK k \in 0 .. 255, l \in 0 .. 3 : k = c.code /\ l = c.coll /\ (c.form = "legacy" => k < 32)
  <2>1. c.code \in V!Codes /\ c.coll \in 0 .. 3 /\ (c.form = "legacy" => c.code < 32)
    BY DEF ColumnOK
  <2>2. c.code \in 0 .. 255
    <3>1. c.code \in Nat /\ c.code < 256
      BY <2>1, CodesRange, Zenon
    <3> QED
      BY <3>1
  <2> QED
    BY <2>1, <2>2
<1>2. CASE c.form = "legacy"
  <2>1. V!TypeField(c) = <<l * 32 + k>>
    BY <1>1, <1>2 DEF V!TypeField
  <2>2. PICK b : b = V!TypeField(c)
    OBVIOUS
  <2>3. b[1] = l * 32 + k /\ Len(b) = 1
    BY <2>1, <2>2
  <2>4. k < 32
    BY <1>1, <1>2
  <2>5. ~(l * 32 + k >= 128) /\ (l * 32 + k) % 32 = k /\ (l * 32 + k) \div 32 = l
    BY <2>4
  <2>6. V!ReadColumnType(b) = [code |-> k, coll |-> l]
    BY <2>3, <2>5 DEF V!ReadColumnType
  <2>7. V!AsNumber(b) = l * 32 + k
    BY <2>3 DEF V!AsNumber
  <2>8. ((l * 32 + k) \div 32768) % 2 # 1 /\ ((l * 32 + k) % 256) % 32 = k
    BY <2>4
  <2>9. V!SchemaTypeCode(V!AsNumber(b)) = k
    BY <2>7, <2>8 DEF V!SchemaTypeCode
  <2> QED
    BY <1>1, <2>2, <2>6, <2>9
<1>3. CASE c.form # "legacy"
  <2>1. V!TypeField(c) = <<128 + l * 32 + 5, k>>
    BY <1>1, <1>3 DEF V!TypeField
  <2>2. PICK b : b = V!TypeField(c)
    OBVIOUS
  <2>3. b[1] = 128 + l * 32 + 5 /\ b[2] = k /\ Len(b) = 2
    BY <2>1, <2>2
  <2>5. 128 + l * 32 + 5 >= 128 /\ ((128 + l * 32 + 5) \div 32) % 4 = l
    OBVIOUS
  <2>6. V!ReadColumnType(b) = [code |-> k, coll |-> l]
    BY <2>3, <2>5 DEF V!ReadColumnType
  <2>7. V!AsNumber(b) = (128 + l * 32 + 5) * 256 + k
    BY <2>3 DEF V!AsNumber
  <2>8. (((128 + l * 32 + 5) * 256 + k) \div 32768) % 2 = 1 /\ ((128 + l * 32 + 5) * 256 + k) % 256 = k
    OBVIOUS
  <2>9. V!SchemaTypeCode(V!AsNumber(b)) = k
    BY <2>7, <2>8 DEF V!SchemaTypeCode
  <2> QED
    BY <1>1, <2>2, <2>6, <2>9
<1> QED
  BY <1>2, <1>3

LEMMA PrepareInv == ASSUME ValueInv, V!Prepare PROVE ValueInv'
<1>1. /\ phase = "stored" /\ phase' = "prepared" /\ given' = given /\ col' = col /\ data' = data
      /\ ColumnOK(col)
  BY DEF ValueInv, V!Prepare
<1>2. seen' = [code |-> col.code, coll |-> col.coll, form |-> col.form]
  BY <1>1, TypeFieldRead DEF V!Prepare
<1>3. seen' = col
  BY <1>1, <1>2 DEF ColumnOK
<1>4. IsBound' = IsBound /\ StoredOK' = StoredOK /\ (NestedOK => NestedOK')
  BY <1>1 DEF IsBound, StoredOK, NestedOK
<1> QED
  BY <1>1, <1>3, <1>4 DEF ValueInv, Phases

\* What a column of type c announces, by the type its values are decoded as.
LEMMA ScanTypes ==
  ASSUME NEW c, ColumnOK(c), NEW t, t = V!DecodeType(c)
  PROVE  /\ c.coll = 0 => t = c.code
         /\ c.coll # 0 => t \in V!Collections
         /\ t \in V!Collections => V!ScanType(c) = "slice"
         /\ t = V!TNull => V!ScanType(c) = "any"
         /\ t \in V!Lobs \cup V!Bits \cup {V!TJSON} => V!ScanType(c) = "bytes"
         /\ t \in V!Chars => V!ScanType(c) = "string"
         /\ t \in V!Ints \cup V!Shorts \cup V!Bigints => V!ScanType(c) = "int64"
         /\ t \in {V!TFloat, V!TDouble, V!TMonetary} => V!ScanType(c) = "float64"
         /\ t \in V!Times \cup V!Zoned => V!ScanType(c) = "time"
         /\ t \in V!Collections \cup {V!TNull, V!TJSON, V!TFloat, V!TDouble, V!TMonetary, V!TObject}
                  \cup V!Lobs \cup V!Bits \cup V!Chars \cup V!Ints \cup V!Shorts \cup V!Bigints
                  \cup V!Times \cup V!Zoned \cup {20}
<1> USE DEF V!Chars, V!TNumeric, V!TJSON, V!Ints, V!TInt, V!Shorts, V!TShort, V!Bigints, V!TBigint,
            V!TFloat, V!TDouble, V!TMonetary, V!Bits, V!Times, V!TDate, V!TTime, V!TTimestamp, V!TDatetime,
            V!Zoned, V!TNull, V!TObject, V!Lobs, V!Collections, V!TSequence
<1>1. c.code \in V!Codes /\ c.coll \in 0 .. 3
  BY DEF ColumnOK
<1>2. CASE c.coll = 0
  <2>1. t = c.code
    BY <1>2 DEF V!DecodeType
  <2>2. PICK n : n = V!Name(c.code)
    OBVIOUS
  <2>3. V!ScanType(c) = CASE n = "text" -> "string" [] n \in {"bits", "json", "lob"} -> "bytes"
       [] n = "integer" -> "int64" [] n = "floating" -> "float64"
       [] n = "time" -> "time" [] n = "collection" -> "slice" [] OTHER -> "any"
    BY <1>2, <2>2 DEF V!ScanType
  <2>4. t \in V!Collections => V!ScanType(c) = "slice"
    <3> SUFFICES ASSUME t \in V!Collections PROVE V!ScanType(c) = "slice"
      OBVIOUS
    <3>1. n = "collection"
      BY <2>1, <2>2 DEF V!Name
    <3> QED
      BY <2>3, <3>1
  <2>5. t = V!TNull => V!ScanType(c) = "any"
    <3> SUFFICES ASSUME t = V!TNull PROVE V!ScanType(c) = "any"
      OBVIOUS
    <3>1. n = "other"
      BY <2>1, <2>2 DEF V!Name
    <3> QED
      BY <2>3, <3>1
  <2>6. t \in V!Lobs \cup V!Bits \cup {V!TJSON} => V!ScanType(c) = "bytes"
    <3> SUFFICES ASSUME t \in V!Lobs \cup V!Bits \cup {V!TJSON} PROVE V!ScanType(c) = "bytes"
      OBVIOUS
    <3>1. n \in {"bits", "json", "lob"}
      BY <2>1, <2>2 DEF V!Name
    <3> QED
      BY <2>3, <3>1
  <2>7. t \in V!Chars => V!ScanType(c) = "string"
    <3> SUFFICES ASSUME t \in V!Chars PROVE V!ScanType(c) = "string"
      OBVIOUS
    <3>1. n = "text"
      BY <2>1, <2>2 DEF V!Name
    <3> QED
      BY <2>3, <3>1
  <2>8. t \in V!Ints \cup V!Shorts \cup V!Bigints => V!ScanType(c) = "int64"
    <3> SUFFICES ASSUME t \in V!Ints \cup V!Shorts \cup V!Bigints PROVE V!ScanType(c) = "int64"
      OBVIOUS
    <3>1. n = "integer"
      BY <2>1, <2>2 DEF V!Name
    <3> QED
      BY <2>3, <3>1
  <2>9. t \in {V!TFloat, V!TDouble, V!TMonetary} => V!ScanType(c) = "float64"
    <3> SUFFICES ASSUME t \in {V!TFloat, V!TDouble, V!TMonetary} PROVE V!ScanType(c) = "float64"
      OBVIOUS
    <3>1. n = "floating"
      BY <2>1, <2>2 DEF V!Name
    <3> QED
      BY <2>3, <3>1
  <2>10. t \in V!Times \cup V!Zoned => V!ScanType(c) = "time"
    <3> SUFFICES ASSUME t \in V!Times \cup V!Zoned PROVE V!ScanType(c) = "time"
      OBVIOUS
    <3>1. n = "time"
      BY <2>1, <2>2 DEF V!Name
    <3> QED
      BY <2>3, <3>1
  <2>11. t \in V!Collections \cup {V!TNull, V!TJSON, V!TFloat, V!TDouble, V!TMonetary, V!TObject}
                  \cup V!Lobs \cup V!Bits \cup V!Chars \cup V!Ints \cup V!Shorts \cup V!Bigints
                  \cup V!Times \cup V!Zoned \cup {20}
    <3>1. t \in (0 .. 32) \cup {34}
      BY <1>1, <2>1 DEF V!Codes
    <3> QED
      BY <3>1
  <2> HIDE DEF V!Chars, V!TNumeric, V!TJSON, V!Ints, V!TInt, V!Shorts, V!TShort, V!Bigints, V!TBigint,
            V!TFloat, V!TDouble, V!TMonetary, V!Bits, V!Times, V!TDate, V!TTime, V!TTimestamp, V!TDatetime,
            V!Zoned, V!TNull, V!TObject, V!Lobs, V!Collections, V!TSequence
  <2> QED
    BY <1>2, <2>1, <2>4, <2>5, <2>6, <2>7, <2>8, <2>9, <2>10, <2>11, Zenon
<1>3. CASE c.coll # 0
  <2>1. t \in {16, 17, 18}
    BY <1>1, <1>3 DEF V!DecodeType
  <2>2. V!ScanType(c) = "slice"
    BY <1>3 DEF V!ScanType
  <2> QED
    BY <1>3, <2>1, <2>2
<1> QED
  BY <1>2, <1>3

\* The value that consumeFetch makes of a column.
FetchedValue(c) ==
  LET t == V!DecodeType(c)
  IN IF data.size < 0 THEN V!Nil
     ELSE IF t = V!TNull THEN V!SelfDescribed(data.body[1], data.body[2])
     ELSE IF t \in V!Lobs THEN <<"Lob", data.body>>
     ELSE V!Decode(t, data.body)

LEMMA NilIsNil ==
  ASSUME MaxDepth \in Nat
  PROVE  V!Nil[1] = "nil" /\ V!ToDriverValue(V!Nil) = V!Nil
<1>1. V!Nil[1] = "nil" /\ V!Widen(V!Nil) = V!Nil
  BY DEF V!Nil, V!Widen
<1> QED
  BY <1>1, WidenPlain

\* A value that is no error has the type that the column announced.
LEMMA FetchedKind ==
  ASSUME V!ValuesConstants, NEW c, ColumnOK(c), NEW v, v = FetchedValue(c), v[1] # "error",
         NEW w, w = V!ToDriverValue(v)
  PROVE  w = V!Nil \/ V!ScanType(c) = "any" \/ w[1] = V!ScanType(c)
<1>0. MaxDepth \in Nat /\ MaxDepth \in Nat \ {0}
  BY DEF V!ValuesConstants
<1>00. PICK t : t = V!DecodeType(c)
  OBVIOUS
<1>1. CASE data.size < 0
  BY <1>0, <1>1, NilIsNil DEF FetchedValue
<1>2. CASE ~(data.size < 0) /\ t = V!TNull
  BY <1>00, <1>2, ScanTypes
<1>3. CASE ~(data.size < 0) /\ t # V!TNull /\ t \in V!Lobs
  <2>1. v = <<"Lob", data.body>>
    BY <1>00, <1>3 DEF FetchedValue
  <2>2. v[1] = "Lob"
    BY <2>1
  <2>3. w = V!Widen(v)
    BY <1>0, <2>2, WidenPlain
  <2>4. w[1] = "bytes"
    BY <2>2, <2>3 DEF V!Widen
  <2>5. t \in V!Lobs \cup V!Bits \cup {V!TJSON}
    BY <1>3
  <2> QED
    BY <1>00, <2>4, <2>5, ScanTypes, Zenon
<1>4. CASE ~(data.size < 0) /\ t # V!TNull /\ t \notin V!Lobs
  <2>1. PICK b : b = data.body
    OBVIOUS
  <2>2. v = V!Decode(t, b)
    BY <1>00, <1>4, <2>1 DEF FetchedValue
  <2>3. CASE t \in V!Collections
    <3>1. v = V!Refused \/ v[1] = "slice"
      BY <1>0, <2>2, <2>3, DecodeKind
    <3>2. v[1] = "slice"
      BY <3>1 DEF V!Refused
    <3>3. w[1] = "slice"
      BY <1>0, <3>2, WidenSlice
    <3> QED
      BY <1>00, <2>3, <3>3, ScanTypes
  <2>4. CASE t \notin V!Collections
    <3>1. v = V!DecodeScalar(t, b)
      BY <1>0, <2>2, <2>4, DecodePlain
    <3>2. t \in {V!TObject, 20} => v[1] = "error"
      <4>1. t = 20 => v = V!Refused
        BY <3>1 DEF V!DecodeScalar, V!Chars, V!TNumeric, V!TJSON, V!Ints, V!TInt, V!Shorts, V!TShort,
            V!Bigints, V!TBigint, V!TFloat, V!TDouble, V!TMonetary, V!Bits, V!Times, V!TDate, V!TTime,
            V!TTimestamp, V!TDatetime, V!Zoned
      <4>2. t = V!TObject => v = V!Refused
        BY <3>1, ScalarOfType
      <4> QED
        BY <4>1, <4>2 DEF V!Refused
    <3>3. CASE t \in V!Bits \cup {V!TJSON}
      <4>1. v[1] = "bytes"
        <5>1. v = <<"bytes", b>> \/ v = <<"bytes", V!TrimNul(b)>>
          BY <3>1, <3>3, ScalarOfType, Zenon
        <5> QED
          BY <5>1
      <4>2. w = v
        BY <1>0, <4>1, WidenPlain DEF V!Widen
      <4>3. V!ScanType(c) = "bytes"
        BY <1>00, <3>3, ScanTypes
      <4> QED
        BY <4>1, <4>2, <4>3
    <3>4. CASE t \in V!Chars
      <4>1. v[1] = "string"
        <5>1. v = <<"string", V!TrimNul(b)>>
          BY <3>1, <3>4, ScalarOfType, Zenon
        <5> QED
          BY <5>1
      <4>2. w = v
        BY <1>0, <4>1, WidenPlain DEF V!Widen
      <4>3. V!ScanType(c) = "string"
        BY <1>00, <3>4, ScanTypes
      <4> QED
        BY <4>1, <4>2, <4>3
    <3>5. CASE t \in V!Ints \cup V!Shorts \cup V!Bigints
      <4>1. v[1] \in {"int16", "int32", "int64"}
        <5>1. \/ v = <<"int16", V!Signed(b)>> \/ v = <<"int32", V!Signed(b)>>
             \/ v = <<"int64", V!Signed(b)>>
          BY <3>1, <3>5, ScalarOfType, Zenon
        <5> QED
          BY <5>1
      <4>2. w = V!Widen(v)
        BY <1>0, <4>1, WidenPlain
      <4>3. w[1] = "int64"
        <5>1. CASE v[1] \in {"int16", "int32"}
          BY <4>2, <5>1 DEF V!Widen
        <5>2. CASE v[1] = "int64"
          BY <4>2, <5>2 DEF V!Widen
        <5> QED
          BY <4>1, <5>1, <5>2
      <4>4. V!ScanType(c) = "int64"
        BY <1>00, <3>5, ScanTypes
      <4> QED
        BY <4>3, <4>4
    <3>6. CASE t \in {V!TFloat, V!TDouble, V!TMonetary}
      <4>1. v[1] \in {"float32", "float64"}
        <5>1. v = <<"float32", V!Signed(b)>> \/ v = <<"float64", V!Signed(b)>>
          BY <3>1, <3>6, ScalarOfType, Zenon
        <5> QED
          BY <5>1
      <4>2. w = V!Widen(v)
        BY <1>0, <4>1, WidenPlain
      <4>3. w[1] = "float64"
        <5>1. CASE v[1] = "float32"
          BY <4>2, <5>1 DEF V!Widen
        <5>2. CASE v[1] = "float64"
          BY <4>2, <5>2 DEF V!Widen
        <5> QED
          BY <4>1, <5>1, <5>2
      <4>4. V!ScanType(c) = "float64"
        BY <1>00, <3>6, ScanTypes
      <4> QED
        BY <4>3, <4>4
    <3>7. CASE t \in V!Times \cup V!Zoned
      <4>1. v[1] = "time"
        <5>1. \/ v = V!Time(V!WallOf(t, b), "UTC")
              \/ v = V!Time(V!WallOf(t, b.wall), V!LookupZone(b.zone))
          BY <3>1, <3>7, ScalarOfType, Zenon
        <5> QED
          BY <5>1 DEF V!Time
      <4>2. w = v
        BY <1>0, <4>1, WidenPlain DEF V!Widen
      <4>3. V!ScanType(c) = "time"
        BY <1>00, <3>7, ScanTypes
      <4> QED
        BY <4>1, <4>2, <4>3
    <3>8. t \in V!Collections \cup {V!TNull, V!TJSON, V!TFloat, V!TDouble, V!TMonetary, V!TObject}
                  \cup V!Lobs \cup V!Bits \cup V!Chars \cup V!Ints \cup V!Shorts \cup V!Bigints
                  \cup V!Times \cup V!Zoned \cup {20}
      BY <1>00, ScanTypes, Zenon
    <3> QED
      BY <1>4, <2>4, <3>2, <3>3, <3>4, <3>5, <3>6, <3>7, <3>8
  <2> QED
    BY <2>3, <2>4
<1> QED
  BY <1>1, <1>2, <1>3, <1>4

\* The value that was bound comes back, and never as an error.
LEMMA FetchedBound ==
  ASSUME ValueInv, phase = "prepared", IsBound
  PROVE  /\ FetchedValue(seen)[1] # "error"
         /\ V!ToDriverValue(FetchedValue(seen)) = V!Expected(given)
<1>0. /\ MaxDepth \in Nat /\ MaxDepth \in Nat \ {0} /\ seen = col /\ ColumnOK(col) /\ StoredOK
      /\ given \in V!Scalars \cup V!Slices /\ given # V!Nil
  BY DEF ValueInv, V!ValuesConstants, IsBound
<1>1. PICK x : x = V!Bound(given)
  OBVIOUS
<1>2. PICK t : t = V!DecodeType(seen)
  OBVIOUS
<1>3. CASE x[1] = "slice"
  <2>1. given = x /\ V!Bindable(x[2]) /\ data = V!Elem(V!EncodeCollection(x[2]), 5) /\ col.coll = 3
    BY <1>0, <1>1, <1>3, GivenKinds DEF StoredOK
  <2>2. PICK n \in 0 .. 3 : x[2] \in [1 .. n -> V!ElementValues]
    BY <1>0, <1>1, <1>3, GivenKinds
  <2>3. PICK c : c = V!EncodeCollection(x[2])
    OBVIOUS
  <2>4. data.size = 5 /\ data.body = c
    BY <2>1, <2>3 DEF V!Elem
  <2>5. t = V!TSequence /\ t # V!TNull /\ t \notin V!Lobs
    BY <1>0, <1>2, <2>1 DEF V!DecodeType, V!TSequence, V!TNull, V!Lobs
  <2>6. FetchedValue(seen) = V!Decode(V!TSequence, c)
    BY <1>2, <2>4, <2>5 DEF FetchedValue
  <2>7. V!ToDriverValue(V!Decode(V!TSequence, c)) =
              <<"slice", [i \in DOMAIN x[2] |-> V!ExpectedScalar(x[2][i])]>>
    BY <1>0, <2>1, <2>2, <2>3, SliceReturns, Zenon
  <2>8. V!Expected(given) = <<"slice", [i \in DOMAIN x[2] |-> V!ExpectedScalar(x[2][i])]>>
    BY <1>3, <2>1, Zenon DEF V!Expected
  <2>9. FetchedValue(seen)[1] # "error"
    <3> SUFFICES ASSUME FetchedValue(seen)[1] = "error" PROVE FALSE
      OBVIOUS
    <3>1. PICK v : v = FetchedValue(seen)
      OBVIOUS
    <3>2. V!ToDriverValue(v) = V!Widen(v)
      BY <1>0, <3>1, WidenPlain
    <3>3. V!Widen(v) = v
      BY <3>1 DEF V!Widen
    <3>4. v = <<"slice", [i \in DOMAIN x[2] |-> V!ExpectedScalar(x[2][i])]>>
      BY <2>6, <2>7, <3>1, <3>2, <3>3
    <3>5. v[1] = "slice"
      BY <3>4
    <3> QED
      BY <3>1, <3>5
  <2> QED
    BY <2>6, <2>7, <2>8, <2>9
<1>4. CASE x[1] # "slice"
  <2>1. /\ V!WireType(x[1]) # -1
        /\ data = IF V!Scalar(x) = <<>> THEN V!NullColumn ELSE V!Elem(V!Scalar(x), Len(V!Scalar(x)))
        /\ col.code = V!WireType(x[1]) /\ col.coll = 0
    BY <1>0, <1>1, <1>4 DEF StoredOK
  <2>2. x \in Bindables /\ V!ExpectedScalar(x) = V!ExpectedScalar(given) /\ given[1] # "slice"
    BY <1>0, <1>1, <1>4, <2>1, GivenKinds
  <2>3. V!Expected(given) = V!ExpectedScalar(x)
    BY <2>2 DEF V!Expected
  <2>4. PICK b : b = V!Scalar(x)
    OBVIOUS
  <2>5. t = V!WireType(x[1])
    BY <1>0, <1>2, <2>1 DEF V!DecodeType
  <2>6. PICK v : v = V!DecodeScalar(t, b)
    OBVIOUS
  <2>7. /\ t \in Announced
        /\ v[1] \notin {"error", "slice"}
        /\ Len(b) \in Nat /\ (b = <<>> <=> Len(b) = 0)
        /\ b = <<>> => V!ExpectedScalar(x) = V!Nil
        /\ b # <<>> => V!Widen(v) = V!ExpectedScalar(x)
    BY <2>2, <2>4, <2>5, <2>6, ScalarReturns DEF ComesBack
  <2>8. t # V!TNull /\ t \notin V!Lobs /\ t \notin V!Collections
    BY <2>7 DEF Announced, V!TNull, V!Lobs, V!TShort, V!TInt, V!TBigint, V!TFloat, V!TDouble, V!TVarchar,
              V!TVarbit, V!TDatetime, V!Collections, V!TSequence
  <2>9. CASE b = <<>>
    <3>1. data.size = -1
      BY <2>1, <2>4, <2>9 DEF V!NullColumn, V!Elem
    <3>2. FetchedValue(seen) = V!Nil
      BY <3>1 DEF FetchedValue
    <3> QED
      BY <1>0, <2>3, <2>7, <2>9, <3>2, NilIsNil
  <2>10. CASE b # <<>>
    <3>1. data = V!Elem(b, Len(b))
      BY <2>1, <2>4, <2>10
    <3>2. data.size = Len(b) /\ data.body = b
      BY <3>1 DEF V!Elem
    <3>3. ~(data.size < 0)
      BY <2>7, <3>2
    <3>4. FetchedValue(seen) = V!Decode(t, b)
      BY <1>2, <2>8, <3>2, <3>3 DEF FetchedValue
    <3>5. FetchedValue(seen) = v
      BY <1>0, <2>6, <2>8, <3>4, DecodePlain
    <3>6. V!ToDriverValue(v) = V!Widen(v)
      BY <1>0, <2>7, WidenPlain
    <3> QED
      BY <2>3, <2>7, <2>10, <3>5, <3>6
  <2> QED
    BY <2>9, <2>10
<1> QED
  BY <1>3, <1>4

\* The depth of the collections decides between a value and an error.
LEMMA FetchedNested ==
  ASSUME ValueInv, phase = "prepared", NEW n \in 1 .. MaxDepth + 1,
         col = [code |-> V!TSequence, coll |-> 3, form |-> "extended"],
         data = V!Elem(V!Nested[n], 5)
  PROVE  FetchedValue(seen)[1] = IF n <= MaxDepth THEN "slice" ELSE "error"
<1>0. MaxDepth \in Nat \ {0} /\ seen = col
  BY DEF ValueInv, V!ValuesConstants
<1>1. seen.coll = 3
  BY <1>0
<1>2. V!DecodeType(seen) = V!TSequence /\ V!TSequence # V!TNull /\ V!TSequence \notin V!Lobs
  BY <1>1 DEF V!DecodeType, V!TSequence, V!TNull, V!Lobs
<1>3. data.size = 5 /\ data.body = V!Nested[n]
  BY DEF V!Elem
<1>4. FetchedValue(seen) = V!Decode(V!TSequence, V!Nested[n])
  BY <1>2, <1>3 DEF FetchedValue
<1> QED
  BY <1>0, <1>4, DecodeNested

LEMMA FetchInv == ASSUME ValueInv, V!Fetch PROVE ValueInv'
<1>1. PICK v : v = FetchedValue(seen)
  OBVIOUS
<1>2. /\ phase = "prepared" /\ given' = given /\ col' = col /\ data' = data /\ seen' = seen
      /\ got' = v /\ phase' = IF v[1] = "error" THEN "refused" ELSE "fetched"
  BY <1>1 DEF V!Fetch, FetchedValue
<1>3. /\ V!ValuesConstants /\ ColumnOK(col) /\ seen = col
      /\ IsBound => given \in V!Scalars \cup V!Slices
  BY <1>2 DEF ValueInv
<1>4. IsBound' <=> IsBound
  BY <1>2 DEF IsBound
<1>5. given[1] = "nested" => NestedOK'
  <2> SUFFICES ASSUME given[1] = "nested" PROVE NestedOK'
    OBVIOUS
  <2>1. PICK n \in 1 .. MaxDepth + 1 :
          /\ given = <<"nested", n>>
          /\ col = [code |-> V!TSequence, coll |-> 3, form |-> "extended"]
          /\ data = V!Elem(V!Nested[n], 5)
    BY <1>2 DEF ValueInv, NestedOK
  <2>2. v[1] = IF n <= MaxDepth THEN "slice" ELSE "error"
    BY <1>1, <1>2, <2>1, FetchedNested
  <2>3. CASE n <= MaxDepth
    <3>1. phase' = "fetched"
      BY <1>2, <2>2, <2>3
    <3> QED
      BY <1>2, <2>1, <2>3, <3>1 DEF NestedOK
  <2>4. CASE ~(n <= MaxDepth)
    <3>1. phase' = "refused" /\ n > MaxDepth
      BY <1>2, <1>3, <2>2, <2>4 DEF V!ValuesConstants
    <3> QED
      BY <1>2, <2>1, <3>1 DEF NestedOK
  <2> QED
    BY <2>3, <2>4
<1>6. CASE phase' = "fetched"
  <2>1. v[1] # "error"
    BY <1>2, <1>6
  <2>2. PICK w : w = V!ToDriverValue(v)
    OBVIOUS
  <2>3. w = V!Nil \/ V!ScanType(seen) = "any" \/ w[1] = V!ScanType(seen)
    BY <1>1, <1>3, <2>1, <2>2, FetchedKind
  <2>4. IsBound => w = V!Expected(given)
    BY <1>1, <1>2, <2>2, FetchedBound
  <2>5. DeliveredOK(V!ToDriverValue(got))'
    BY <1>2, <1>4, <2>2, <2>3, <2>4 DEF DeliveredOK
  <2> QED
    BY <1>2, <1>3, <1>4, <1>5, <1>6, <2>5 DEF ValueInv, Phases
<1>7. CASE phase' = "refused"
  BY <1>2, <1>3, <1>4, <1>5, <1>7 DEF ValueInv, Phases
<1> QED
  BY <1>2, <1>6, <1>7

LEMMA DeliverInv == ASSUME ValueInv, V!Deliver PROVE ValueInv'
<1>1. /\ phase = "fetched" /\ phase' = "delivered" /\ given' = given /\ col' = col /\ data' = data
      /\ seen' = seen /\ out' = V!ToDriverValue(got)
  BY DEF V!Deliver
<1>2. IsBound' <=> IsBound
  BY <1>1 DEF IsBound
<1>3. DeliveredOK(out)'
  BY <1>1, <1>2 DEF ValueInv, DeliveredOK
<1>4. NestedOK => NestedOK'
  BY <1>1 DEF NestedOK
<1> QED
  BY <1>1, <1>2, <1>3, <1>4 DEF ValueInv, Phases

LEMMA ValueStep ==
  ASSUME ValueInv, V!Next \/ UNCHANGED valueVars
  PROVE  ValueInv'
<1>1. CASE UNCHANGED valueVars
  <2>1. /\ given' = given /\ col' = col /\ data' = data /\ seen' = seen /\ got' = got /\ out' = out
        /\ phase' = phase
    BY <1>1 DEF valueVars
  <2>2. (IsBound' <=> IsBound) /\ (NestedOK' <=> NestedOK) /\ (StoredOK' <=> StoredOK)
    BY <2>1 DEF IsBound, NestedOK, StoredOK
  <2>3. /\ DeliveredOK(V!ToDriverValue(got)) => DeliveredOK(V!ToDriverValue(got))'
        /\ DeliveredOK(out) => DeliveredOK(out)'
    BY <2>1, <2>2 DEF DeliveredOK
  <2> QED
    BY <2>1, <2>2, <2>3 DEF ValueInv
<1> QED
  BY <1>1, EncodeInv, PrepareInv, FetchInv, DeliverInv DEF V!Next

LEMMA ValueProps == ValueInv => V!RoundTrip /\ V!DepthCapped /\ V!ScanTypeAgrees
<1> SUFFICES ASSUME ValueInv PROVE V!RoundTrip /\ V!DepthCapped /\ V!ScanTypeAgrees
  OBVIOUS
<1>1. V!RoundTrip
  BY DEF ValueInv, V!RoundTrip, DeliveredOK, IsBound
<1>2. V!DepthCapped
  <2> SUFFICES ASSUME given[1] = "nested"
               PROVE  /\ phase = "delivered" => given[2] <= MaxDepth
                      /\ phase = "refused" => given[2] > MaxDepth
    BY DEF V!DepthCapped
  <2>1. PICK n \in 1 .. MaxDepth + 1 :
          /\ given = <<"nested", n>>
          /\ phase \in {"fetched", "delivered"} => n <= MaxDepth
          /\ phase = "refused" => n > MaxDepth
    BY DEF ValueInv, NestedOK
  <2>2. given[2] = n
    BY <2>1
  <2> QED
    BY <2>1, <2>2
<1>3. V!ScanTypeAgrees
  <2>1. phase = "delivered" => out = V!Nil \/ V!ScanType(seen) = "any" \/ out[1] = V!ScanType(seen)
    BY DEF ValueInv, DeliveredOK
  <2>2. phase = "prepared" => seen = col /\ V!SchemaTypeCode(V!AsNumber(V!TypeField(col))) = col.code
    BY TypeFieldRead DEF ValueInv
  <2> QED
    BY <2>1, <2>2 DEF V!ScanTypeAgrees
<1> QED
  BY <1>1, <1>2, <1>3

-----------------------------------------------------------------------------
(* What is parsed and moved                                                *)

LEMMA DataStepParts ==
  ASSUME [DataNext]_<<part, vars, replyVars, valueVars, dsnVars>>
  PROVE  /\ part' = part
         /\ part = "value" => V!Next \/ UNCHANGED valueVars
         /\ part = "reply" => R!Next \/ UNCHANGED replyVars
         /\ part = "dsn" => D!Next \/ UNCHANGED dsnVars
  BY DEF DataNext, Stop

\* A value bound to a statement, stored in a column and fetched comes back as
\* the value that was given: what the parameter encoding writes, the column
\* decoding and driverValue read, at every depth of a collection.
THEOREM RoundTripTheorem == DataSpec => []RoundTrip
<1> DEFINE Inv == part = "value" => ValueInv
<1>1. DataInit => Inv
  BY DataConstants, ValueInit DEF DataInit
<1>2. Inv /\ [DataNext]_<<part, vars, replyVars, valueVars, dsnVars>> => Inv'
  BY DataStepParts, ValueStep
<1>3. Inv => RoundTrip
  BY ValueProps DEF RoundTrip
<1> QED
  BY <1>1, <1>2, <1>3, PTL DEF DataSpec

\* What ColumnTypeScanType announces of a column, from the type byte or bytes of
\* its metadata, is the type of every value that Next delivers for the column.
THEOREM ScanTypeTheorem == DataSpec => []ScanTypeAgrees
<1> DEFINE Inv == part = "value" => ValueInv
<1>1. DataInit => Inv
  BY DataConstants, ValueInit DEF DataInit
<1>2. Inv /\ [DataNext]_<<part, vars, replyVars, valueVars, dsnVars>> => Inv'
  BY DataStepParts, ValueStep
<1>3. Inv => ScanTypeAgrees
  BY ValueProps DEF ScanTypeAgrees
<1> QED
  BY <1>1, <1>2, <1>3, PTL DEF DataSpec

Byte == 0 .. 255

\* A parse that begins, of any bytes.
AnyReply == R!RepliesConstants /\ payload \in Seq(Byte) /\ off = 0 /\ alloc = 0

AnySpec == AnyReply /\ [][R!Next]_replyVars

\* The reader's offset is in the payload or at its end.
InBounds == off \in 0 .. Len(payload)

ReaderInv ==
  R!RepliesConstants /\ payload \in Seq(Byte) /\ InBounds /\ alloc \in Nat /\ R!AllocBounded

\* The fields whose value is the length of a slice.
CountFields == {"nCols", "nSchemaCols", "nBatch", "paramCount"}

-----------------------------------------------------------------------------
\* Four bytes of the payload are a number.
LEMMA Int32IsInt ==
  ASSUME ReaderInv, R!CanTake(4)
  PROVE  R!Int32At(off) \in Int
<1>1. payload \in Seq(Byte) /\ off \in Nat /\ off + 4 <= Len(payload) /\ Len(payload) \in Nat
  BY DEF ReaderInv, InBounds, R!CanTake
<1>2. \A i \in 1 .. 4 : off + i \in 1 .. Len(payload)
  BY <1>1
<1>3. \A i \in 1 .. 4 : payload[off + i] \in Byte
  BY <1>1, <1>2
<1>4. PICK a \in Byte, b \in Byte, c \in Byte, d \in Byte :
        /\ a = payload[off + 1] /\ b = payload[off + 2]
        /\ c = payload[off + 3] /\ d = payload[off + 4]
  BY <1>3
<1>5. R!Int32At(off) = R!Signed(a) * 16777216 + b * 65536 + c * 256 + d
  BY <1>4 DEF R!Int32At
<1>6. R!Signed(a) \in Int
  BY DEF R!Signed, Byte
<1> QED
  BY <1>5, <1>6 DEF Byte

\* A count that is not refused is no more than the bytes left, or than the length
\* of the statement.
LEMMA CountBounded ==
  ASSUME R!RepliesConstants, NEW f \in CountFields, NEW v \in Int, NEW left \in Nat,
         ~R!Refuses(f, v, left)
  PROVE  v \in Nat /\ (IF f = "paramCount" THEN v <= SqlLen ELSE v <= left)
<1>1. CASE f = "paramCount"
  BY <1>1 DEF R!Refuses, R!RepliesConstants
<1>2. CASE f # "paramCount"
  <2>1. f \in {"nCols", "nSchemaCols", "nBatch"} /\ R!CountFits(f, v, left)
    BY <1>2 DEF CountFields, R!Refuses
  <2>2. PICK m \in Nat \ {0} : m = R!MinItem(f)
    BY <2>1 DEF R!MinItem
  <2>3. v >= 0 /\ v * m <= left
    BY <2>1, <2>2 DEF R!CountFits
  <2>4. v <= v * m
    BY <2>3
  <2>5. v * m \in Int
    OBVIOUS
  <2> QED
    BY <1>2, <2>3, <2>4, <2>5
<1> QED
  BY <1>1, <1>2

\* Taking a field that is there keeps the reader in bounds, and its count, if it
\* is one, within AllocBounded.
LEMMA AcceptInv ==
  ASSUME ReaderInv, NEW f, NEW n \in Nat, off + n <= Len(payload), NEW v,
         f \in CountFields => v \in Int, R!Accept(f, n, v)
  PROVE  ReaderInv'
<1>1. /\ payload \in Seq(Byte) /\ off \in Nat /\ alloc \in Nat /\ R!AllocBounded
      /\ Len(payload) \in Nat /\ R!RepliesConstants
  BY DEF ReaderInv, InBounds
<1>2. payload' = payload /\ off' = off + n
  BY DEF R!Accept
<1>3. InBounds'
  BY <1>1, <1>2 DEF InBounds
<1>4. CASE alloc' = alloc
  BY <1>1, <1>2, <1>3, <1>4 DEF ReaderInv, R!AllocBounded
<1>5. CASE f \in CountFields /\ alloc' = R!SliceLen(f, v) /\ ~R!Refuses(f, v, R!Remaining - n)
  <2>1. R!Remaining - n \in Nat /\ R!Remaining - n <= Len(payload)
    BY <1>1 DEF R!Remaining
  <2>2. PICK left \in Nat : left = R!Remaining - n
    BY <2>1
  <2>3. v \in Nat /\ (IF f = "paramCount" THEN v <= SqlLen ELSE v <= left)
    BY <1>1, <1>5, <2>2, CountBounded
  <2>4. SqlLen \in Nat
    BY <1>1 DEF R!RepliesConstants
  <2>5. alloc' \in Nat /\ R!AllocBounded'
    <3>1. CASE f = "paramCount"
      BY <1>2, <1>5, <2>3, <2>4, <3>1 DEF R!AllocBounded, R!SliceLen
    <3>2. CASE f # "paramCount"
      BY <1>1, <1>2, <1>5, <2>1, <2>2, <2>3, <3>2 DEF R!AllocBounded, R!SliceLen
    <3> QED
      BY <3>1, <3>2
  <2> QED
    BY <1>1, <1>2, <1>3, <2>5 DEF ReaderInv
<1> QED
  BY <1>4, <1>5 DEF R!Accept, CountFields

\* A parse that ends leaves the reader where it is.
LEMMA EndsInv ==
  ASSUME ReaderInv, UNCHANGED <<payload, off, alloc>>
  PROVE  ReaderInv'
  BY DEF ReaderInv, InBounds, R!AllocBounded

LEMMA ReadStatusInv ==
  ASSUME ReaderInv, R!ReadStatus
  PROVE  ReaderInv'
<1>1. CASE ~R!CanTake(4)
  BY <1>1, EndsInv DEF R!ReadStatus, R!Ends
<1>2. CASE R!CanTake(4) /\ R!Int32At(off) < 0
  <2>1. R!ReadError(R!Int32At(off))
    BY <1>2 DEF R!ReadStatus
  <2>2. off' = Len(payload) /\ payload' = payload /\ alloc' = alloc
    BY <2>1 DEF R!ReadError
  <2> QED
    BY <2>2 DEF ReaderInv, InBounds, R!AllocBounded
<1>3. CASE R!CanTake(4) /\ ~(R!Int32At(off) < 0)
  <2>1. R!Accept("status", 4, R!Int32At(off)) /\ off + 4 <= Len(payload)
    BY <1>3 DEF R!ReadStatus, R!CanTake
  <2>2. "status" \notin CountFields /\ 4 \in Nat
    BY DEF CountFields
  <2> QED
    BY <2>1, <2>2, AcceptInv
<1> QED
  BY <1>1, <1>2, <1>3

LEMMA ReadFieldInv ==
  ASSUME ReaderInv, R!ReadField
  PROVE  ReaderInv'
<1>1. PICK f : f = Head(plan)
  OBVIOUS
<1>2. CASE ~R!CanTake(R!Size(f))
  BY <1>1, <1>2, EndsInv DEF R!ReadField, R!Ends
<1>3. CASE R!CanTake(R!Size(f))
  <2>1. R!Accept(f, R!Size(f), R!ValueAt(f))
    BY <1>1, <1>3 DEF R!ReadField
  <2>2. R!Size(f) \in Nat
    BY DEF R!Size
  <2>3. off + R!Size(f) <= Len(payload)
    BY <1>3 DEF R!CanTake
  <2>4. ASSUME f \in CountFields PROVE R!ValueAt(f) \in Int
    <3>1. R!Size(f) = 4
      BY <2>4 DEF CountFields, R!Size
    <3>2. R!ValueAt(f) = R!Int32At(off)
      BY <3>1 DEF R!ValueAt
    <3> QED
      BY <1>3, <3>1, <3>2, Int32IsInt
  <2> QED
    BY <2>1, <2>2, <2>3, <2>4, AcceptInv
<1> QED
  BY <1>2, <1>3

LEMMA ReadSizedInv ==
  ASSUME ReaderInv, R!ReadSized
  PROVE  ReaderInv'
<1> DEFINE f == Head(plan)
           n == R!Int32At(off)
           body == R!Taken(off + 4, n)
<1>1. f \in {"string", "value"}
  BY DEF R!ReadSized, R!Parsing
<1>2. f \notin CountFields
  BY <1>1 DEF CountFields
<1>3. IF ~R!CanTake(4) \/ (n > 0 /\ ~R!CanTake(4 + n)) THEN R!Ends("short")
      ELSE IF n < 0 THEN R!Accept(f, 4, IF f = "value" THEN R!Null ELSE <<>>)
      ELSE R!Accept(f, 4 + n, IF f = "string" THEN R!TrimNul(body) ELSE body)
  BY DEF R!ReadSized
<1> HIDE DEF f, n, body
<1>4. CASE ~R!CanTake(4) \/ (n > 0 /\ ~R!CanTake(4 + n))
  BY <1>3, <1>4, EndsInv DEF R!Ends
<1>5. CASE ~(~R!CanTake(4) \/ (n > 0 /\ ~R!CanTake(4 + n)))
  <2>1. R!CanTake(4) /\ (n > 0 => R!CanTake(4 + n))
    BY <1>5
  <2>2. n \in Int
    BY <2>1, Int32IsInt DEF n
  <2>3. off + 4 <= Len(payload) /\ (n > 0 => off + (4 + n) <= Len(payload))
    BY <2>1 DEF R!CanTake
  <2>4. CASE n < 0
    <3>1. PICK v : R!Accept(f, 4, v)
      BY <1>3, <1>5, <2>4
    <3> QED
      BY <1>2, <2>3, <3>1, AcceptInv
  <2>5. CASE ~(n < 0)
    <3>1. PICK v : R!Accept(f, 4 + n, v)
      BY <1>3, <1>5, <2>5
    <3>2. 4 + n \in Nat /\ off + (4 + n) <= Len(payload)
      BY <2>2, <2>3, <2>5 DEF ReaderInv, InBounds
    <3> QED
      BY <1>2, <3>1, <3>2, AcceptInv
  <2> QED
    BY <2>4, <2>5
<1> QED
  BY <1>4, <1>5

LEMMA ReaderStep == ReaderInv /\ [R!Next]_replyVars => ReaderInv'
<1> SUFFICES ASSUME ReaderInv, [R!Next]_replyVars PROVE ReaderInv'
  OBVIOUS
<1>1. CASE R!Skip \/ R!Inline \/ R!Done \/ UNCHANGED replyVars
  BY <1>1, EndsInv DEF R!Skip, R!Inline, R!Done, R!Ends, replyVars
<1> QED
  BY <1>1, ReadStatusInv, ReadFieldInv, ReadSizedInv DEF R!Next

LEMMA ReaderInit == AnyReply => ReaderInv
  BY DEF AnyReply, ReaderInv, InBounds, R!AllocBounded

\* Whatever bytes arrive, the reader never passes the end of the payload
\* (Reader.take, ReadString and the column values check before they take).
THEOREM ReaderInBounds == AnySpec => []InBounds
<1>1. ReaderInv => InBounds
  BY DEF ReaderInv
<1> QED
  BY <1>1, ReaderInit, ReaderStep, PTL DEF AnySpec

\* Whatever bytes arrive, no count makes a slice of negative length, or one with
\* more items than the reply has bytes, or the statement characters and one (the
\* limits on column, batch and parameter counts).
THEOREM NoOversizedSlice == AnySpec => []R!AllocBounded
<1>1. ReaderInv => R!AllocBounded
  BY DEF ReaderInv
<1> QED
  BY <1>1, ReaderInit, ReaderStep, PTL DEF AnySpec

-----------------------------------------------------------------------------
(* Sequences of sequences                                                  *)

\* The function that FlattenSeq recurses over exists.
LEMMA FlattenDef ==
  ASSUME NEW s, Len(s) \in Nat \ {0}
  PROVE  \E f : /\ f = [i \in 1 .. Len(s) |-> IF i = 1 THEN s[i] ELSE f[i - 1] \o s[i]]
                /\ R!FlattenSeq(s) = f[Len(s)]
<1> DEFINE Step(f, i) == IF i = 1 THEN s[i] ELSE f[i - 1] \o s[i]
           T == {m \in Nat \ {0} : \E g : g = [i \in 1 .. m |-> Step(g, i)]}
<1>1. 1 \in T
  <2> DEFINE g == [i \in 1 .. 1 |-> s[i]]
  <2>1. g = [i \in 1 .. 1 |-> Step(g, i)]
    OBVIOUS
  <2> HIDE DEF g
  <2>2. \E x : x = [i \in 1 .. 1 |-> Step(x, i)]
    BY <2>1, Zenon
  <2>3. 1 \in Nat \ {0}
    OBVIOUS
  <2> QED
    BY <2>2, <2>3, Zenon
<1>2. ASSUME NEW m \in Nat \ {0}, m \in T PROVE m + 1 \in T
  <2>1. PICK g : g = [i \in 1 .. m |-> Step(g, i)]
    BY <1>2
  <2> DEFINE h == [i \in 1 .. m + 1 |-> IF i = m + 1 THEN g[m] \o s[m + 1] ELSE g[i]]
  <2>2. ASSUME NEW i \in 1 .. m + 1 PROVE h[i] = Step(h, i)
    <3>1. CASE i = m + 1
      <4>1. i # 1 /\ i - 1 = m /\ m \in 1 .. m + 1 /\ m # m + 1
        BY <3>1
      <4> QED
        BY <3>1, <4>1
    <3>2. CASE i # m + 1
      <4>1. i \in 1 .. m
        BY <3>2
      <4>2. h[i] = g[i] /\ g[i] = Step(g, i)
        BY <2>1, <3>2, <4>1
      <4>3. i # 1 => i - 1 \in 1 .. m /\ i - 1 \in 1 .. m + 1 /\ i - 1 # m + 1
        BY <4>1
      <4>4. i # 1 => h[i - 1] = g[i - 1]
        BY <4>3
      <4> HIDE DEF h
      <4> QED
        BY <4>2, <4>4
    <3> QED
      BY <3>1, <3>2
  <2>3. h = [i \in 1 .. m + 1 |-> h[i]]
    OBVIOUS
  <2> HIDE DEF h
  <2>4. h = [i \in 1 .. m + 1 |-> Step(h, i)]
    BY <2>2, <2>3, Zenon
  <2>5. \E x : x = [i \in 1 .. m + 1 |-> Step(x, i)]
    BY <2>4, Zenon
  <2>6. m + 1 \in Nat \ {0}
    OBVIOUS
  <2> QED
    BY <2>5, <2>6, Zenon
<1>3. Len(s) \in T
  <2> HIDE DEF T
  <2>1. 1 \in Nat /\ \A m \in Nat : 1 <= m => m \in Nat \ {0}
    OBVIOUS
  <2>2. Len(s) \in Nat /\ 1 <= Len(s)
    OBVIOUS
  <2> QED
    BY <1>1, <1>2, <2>1, <2>2, SetInduction, Zenon
<1> DEFINE f == CHOOSE f : f = [i \in 1 .. Len(s) |-> IF i = 1 THEN s[i] ELSE f[i - 1] \o s[i]]
<1>4. R!FlattenSeq(s) = f[Len(s)]
  BY Zenon DEF R!FlattenSeq
<1>5. f = [i \in 1 .. Len(s) |-> IF i = 1 THEN s[i] ELSE f[i - 1] \o s[i]]
  BY <1>3, Zenon
<1> QED
  BY <1>4, <1>5, Zenon

LEMMA FlattenEmpty == R!FlattenSeq(<<>>) = <<>>
  BY DEF R!FlattenSeq

LEMMA FlattenOne ==
  ASSUME NEW S, NEW x \in Seq(S)
  PROVE  R!FlattenSeq(<<x>>) = x
<1>1. Len(<<x>>) = 1 /\ 1 \in Nat \ {0} /\ <<x>>[1] = x
  OBVIOUS
<1>2. PICK f : /\ f = [i \in 1 .. Len(<<x>>) |-> IF i = 1 THEN <<x>>[i] ELSE f[i - 1] \o <<x>>[i]]
               /\ R!FlattenSeq(<<x>>) = f[Len(<<x>>)]
  BY <1>1, FlattenDef
<1> QED
  BY <1>1, <1>2

\* The part of the flattening that the first m sequences make up is their own.
LEMMA FlattenBegin ==
  ASSUME NEW S, NEW s \in Seq(Seq(S)), s # <<>>,
         NEW f, f = [i \in 1 .. Len(s) |-> IF i = 1 THEN s[i] ELSE f[i - 1] \o s[i]]
  PROVE  \A m \in 1 .. Len(s) : f[m] \in Seq(S) /\ f[m] = R!FlattenSeq(SubSeq(s, 1, m))
<1> DEFINE P(m) == f[m] \in Seq(S)
           T == {m \in Nat : m \in 1 .. Len(s) => P(m)}
<1>1. Len(s) \in Nat \ {0} /\ \A i \in 1 .. Len(s) : s[i] \in Seq(S)
  OBVIOUS
<1>2. 1 \in T
  BY <1>1
<1>3. ASSUME NEW m \in Nat, 1 <= m, m \in T PROVE m + 1 \in T
  <2> SUFFICES ASSUME m + 1 \in 1 .. Len(s) PROVE P(m + 1)
    OBVIOUS
  <2>1. m \in 1 .. Len(s) /\ m + 1 # 1 /\ (m + 1) - 1 = m
    BY <1>1, <1>3
  <2>2. f[m + 1] = f[m] \o s[m + 1]
    BY <2>1
  <2>3. f[m] \in Seq(S) /\ s[m + 1] \in Seq(S)
    BY <1>1, <1>3, <2>1
  <2>4. f[m] \o s[m + 1] \in Seq(S)
    BY <2>3, ConcatProperties, Zenon
  <2> QED
    BY <2>2, <2>4, Zenon
<1>4. \A m \in Nat : 1 <= m => m \in T
  <2> HIDE DEF T
  <2>1. 1 \in Nat
    OBVIOUS
  <2> QED
    BY <1>2, <1>3, <2>1, SetInduction, Zenon
<1>5. ASSUME NEW m \in 1 .. Len(s) PROVE f[m] \in Seq(S)
  <2>1. m \in Nat /\ 1 <= m
    BY <1>1
  <2> QED
    BY <1>4, <2>1, Zenon
<1>6. ASSUME NEW m \in 1 .. Len(s) PROVE f[m] = R!FlattenSeq(SubSeq(s, 1, m))
  <2> DEFINE t == SubSeq(s, 1, m)
  <2>1. Len(t) = m /\ m \in Nat \ {0} /\ \A i \in 1 .. m : t[i] = s[i]
    BY <1>1
  <2> HIDE DEF t
  <2>2. PICK h : /\ h = [i \in 1 .. Len(t) |-> IF i = 1 THEN t[i] ELSE h[i - 1] \o t[i]]
                 /\ R!FlattenSeq(t) = h[Len(t)]
    BY <2>1, FlattenDef
  <2> DEFINE W == {k \in Nat : k \in 1 .. m => h[k] = f[k]}
  <2>3. 1 \in W
    BY <1>1, <2>1, <2>2
  <2>4. ASSUME NEW k \in Nat, 1 <= k, k \in W PROVE k + 1 \in W
    <3> SUFFICES ASSUME k + 1 \in 1 .. m PROVE h[k + 1] = f[k + 1]
      OBVIOUS
    <3>1. k \in 1 .. m /\ k + 1 # 1 /\ (k + 1) - 1 = k /\ k + 1 \in 1 .. Len(s) /\ k + 1 \in 1 .. Len(t)
      BY <1>1, <2>1, <2>4
    <3>2. h[k] = f[k]
      BY <2>4, <3>1
    <3>3. h[k + 1] = h[k] \o t[k + 1]
      BY <2>2, <3>1
    <3>4. f[k + 1] = f[k] \o s[k + 1]
      BY <3>1
    <3> QED
      BY <2>1, <3>2, <3>3, <3>4
  <2>5. \A k \in Nat : 1 <= k => k \in W
    <3> HIDE DEF W
    <3>1. 1 \in Nat
      OBVIOUS
    <3> QED
      BY <2>3, <2>4, <3>1, SetInduction, Zenon
  <2>6. m \in Nat /\ 1 <= m /\ m \in 1 .. m
    BY <2>1
  <2>7. h[m] = f[m]
    BY <2>5, <2>6, Zenon
  <2> QED
    BY <2>1, <2>2, <2>7 DEF t
<1> QED
  BY <1>5, <1>6

LEMMA FlattenType ==
  ASSUME NEW S, NEW s \in Seq(Seq(S))
  PROVE  R!FlattenSeq(s) \in Seq(S)
<1>1. CASE s = <<>>
  BY <1>1, FlattenEmpty, EmptySeq, Zenon
<1>2. CASE s # <<>>
  <2>1. Len(s) \in Nat \ {0} /\ Len(s) \in 1 .. Len(s)
    BY <1>2
  <2>2. PICK f : /\ f = [i \in 1 .. Len(s) |-> IF i = 1 THEN s[i] ELSE f[i - 1] \o s[i]]
                 /\ R!FlattenSeq(s) = f[Len(s)]
    BY <2>1, FlattenDef
  <2>3. f[Len(s)] \in Seq(S)
    BY <1>2, <2>1, <2>2, FlattenBegin
  <2> QED
    BY <2>2, <2>3
<1> QED
  BY <1>1, <1>2

LEMMA FlattenAppend ==
  ASSUME NEW S, NEW s \in Seq(Seq(S)), NEW x \in Seq(S)
  PROVE  R!FlattenSeq(Append(s, x)) = R!FlattenSeq(s) \o x
<1>1. CASE s = <<>>
  <2>1. Append(s, x) = <<x>>
    BY <1>1
  <2>2. <<>> \o x = x
    BY ConcatEmptySeq
  <2> QED
    BY <1>1, <2>1, <2>2, FlattenEmpty, FlattenOne
<1>2. CASE s # <<>>
  <2> DEFINE t == Append(s, x)
             n == Len(s)
  <2>1. /\ n \in Nat \ {0} /\ Len(t) = n + 1 /\ t \in Seq(Seq(S)) /\ t # <<>>
        /\ n + 1 \in 1 .. Len(t) /\ n \in 1 .. Len(t) /\ n + 1 # 1 /\ (n + 1) - 1 = n
        /\ t[n + 1] = x
    BY <1>2
  <2>2. SubSeq(t, 1, n) = s
    BY <1>2
  <2> HIDE DEF t, n
  <2>3. Len(t) \in Nat \ {0}
    BY <2>1
  <2>4. PICK f : /\ f = [i \in 1 .. Len(t) |-> IF i = 1 THEN t[i] ELSE f[i - 1] \o t[i]]
                 /\ R!FlattenSeq(t) = f[Len(t)]
    BY <2>3, FlattenDef
  <2>5. f[n] = R!FlattenSeq(SubSeq(t, 1, n))
    <3>1. t \in Seq(Seq(S)) /\ t # <<>> /\ n \in 1 .. Len(t)
      BY <2>1
    <3>2. f = [i \in 1 .. Len(t) |-> IF i = 1 THEN t[i] ELSE f[i - 1] \o t[i]]
      BY <2>4
    <3>3. PICK z \in Seq(Seq(S)) : z = t
      BY <3>1
    <3>4. z # <<>> /\ f = [i \in 1 .. Len(z) |-> IF i = 1 THEN z[i] ELSE f[i - 1] \o z[i]]
      BY <3>1, <3>2, <3>3, Zenon
    <3>5. \A m \in 1 .. Len(z) : f[m] \in Seq(S) /\ f[m] = R!FlattenSeq(SubSeq(z, 1, m))
      BY <3>4, FlattenBegin, Zenon
    <3> QED
      BY <3>1, <3>3, <3>5, Zenon
  <2>6. f[n + 1] = f[n] \o t[n + 1]
    BY <2>1, <2>4
  <2>7. R!FlattenSeq(t) = R!FlattenSeq(s) \o x
    BY <2>1, <2>2, <2>4, <2>5, <2>6
  <2> QED
    BY <2>7 DEF t
<1> QED
  BY <1>1, <1>2

\* Concatenation is associative.
Cat(a, b) == a \o b

LEMMA CatAssoc ==
  ASSUME NEW S, NEW a \in Seq(S), NEW b \in Seq(S), NEW c \in Seq(S)
  PROVE  Cat(Cat(a, b), c) = Cat(a, Cat(b, c))
  BY ConcatAssociative DEF Cat

LEMMA FlattenConcat ==
  ASSUME NEW S, NEW s \in Seq(Seq(S)), NEW t \in Seq(Seq(S))
  PROVE  R!FlattenSeq(s \o t) = R!FlattenSeq(s) \o R!FlattenSeq(t)
<1> DEFINE P(u) == R!FlattenSeq(s \o u) = R!FlattenSeq(s) \o R!FlattenSeq(u)
           T == {m \in Nat : \A u \in Seq(Seq(S)) : Len(u) = m => P(u)}
<1>0. R!FlattenSeq(s) \in Seq(S)
  BY FlattenType
<1>1. 0 \in T
  <2> SUFFICES ASSUME NEW u \in Seq(Seq(S)), Len(u) = 0 PROVE P(u)
    OBVIOUS
  <2>1. u = <<>>
    OBVIOUS
  <2>2. s \o <<>> = s /\ R!FlattenSeq(s) \o <<>> = R!FlattenSeq(s)
    BY <1>0, ConcatEmptySeq
  <2> QED
    BY <2>1, <2>2, FlattenEmpty
<1>2. ASSUME NEW m \in Nat, 0 <= m, m \in T PROVE m + 1 \in T
  <2> SUFFICES ASSUME NEW u \in Seq(Seq(S)), Len(u) = m + 1 PROVE P(u)
    OBVIOUS
  <2>1. u # <<>>
    OBVIOUS
  <2>2. PICK w \in Seq(Seq(S)), x \in Seq(S) : u = Append(w, x)
    BY <2>1, SequenceEmptyOrAppend
  <2>3. Len(w) = m
    BY <2>2
  <2>4. P(w)
    BY <1>2, <2>3
  <2>5. s \o u = Append(s \o w, x)
    BY <2>2
  <2>6. s \o w \in Seq(Seq(S)) /\ R!FlattenSeq(w) \in Seq(S)
    BY FlattenType
  <2>7. R!FlattenSeq(s \o u) = R!FlattenSeq(s \o w) \o x
    BY <2>5, <2>6, FlattenAppend
  <2>8. R!FlattenSeq(u) = R!FlattenSeq(w) \o x
    BY <2>2, FlattenAppend
  <2>9. PICK a, b, ab, bc :
          /\ a = R!FlattenSeq(s) /\ b = R!FlattenSeq(w)
          /\ ab = R!FlattenSeq(s \o w) /\ bc = R!FlattenSeq(u)
    OBVIOUS
  <2>10. a \in Seq(S) /\ b \in Seq(S)
    BY <1>0, <2>6, <2>9, Zenon
  <2>11. ab = Cat(a, b)
    BY <2>4, <2>9 DEF Cat
  <2>12. bc = Cat(b, x)
    BY <2>8, <2>9 DEF Cat
  <2>13. Cat(ab, x) = Cat(a, bc)
    <3>1. \A p, q, r \in Seq(S) : Cat(Cat(p, q), r) = Cat(p, Cat(q, r))
      BY CatAssoc
    <3>2. Cat(Cat(a, b), x) = Cat(a, Cat(b, x))
      BY <2>10, <3>1, Zenon
    <3> QED
      BY <2>11, <2>12, <3>2, Zenon
  <2> QED
    BY <2>7, <2>9, <2>13 DEF Cat
<1>3. \A m \in Nat : 0 <= m => m \in T
  <2> HIDE DEF T
  <2>1. 0 \in Nat
    OBVIOUS
  <2> QED
    BY <1>1, <1>2, <2>1, SetInduction, Zenon
<1>4. Len(t) \in Nat /\ 0 <= Len(t)
  OBVIOUS
<1> QED
  BY <1>3, <1>4

-----------------------------------------------------------------------------
(* The fields of a reply and their bytes                                   *)

FieldSet == [b : Seq(Byte), v : Int \cup Seq(Int), opt : BOOLEAN]
Fields == Seq(FieldSet)

BytesIn(fs) == [i \in DOMAIN fs |-> fs[i].b]
BytesOf(fs) == R!FlattenSeq(BytesIn(fs))

LEMMA BytesInType ==
  ASSUME NEW fs \in Fields
  PROVE  BytesIn(fs) \in Seq(Seq(Byte)) /\ Len(BytesIn(fs)) = Len(fs)
<1>1. DOMAIN fs = 1 .. Len(fs) /\ Len(fs) \in Nat /\ \A i \in 1 .. Len(fs) : fs[i] \in FieldSet
  BY DEF Fields
<1>2. \A i \in 1 .. Len(fs) : fs[i].b \in Seq(Byte)
  BY <1>1 DEF FieldSet
<1> QED
  BY <1>1, <1>2 DEF BytesIn

LEMMA BytesOfType ==
  ASSUME NEW fs \in Fields
  PROVE  BytesOf(fs) \in Seq(Byte) /\ Len(BytesOf(fs)) \in Nat
<1>1. BytesOf(fs) \in Seq(Byte)
  BY BytesInType, FlattenType DEF BytesOf
<1> QED
  BY <1>1

LEMMA BytesOfEmpty == BytesOf(<<>>) = <<>>
<1>1. BytesIn(<<>>) = <<>>
  BY DEF BytesIn
<1> QED
  BY <1>1, FlattenEmpty DEF BytesOf

LEMMA BytesOfOne ==
  ASSUME NEW x \in FieldSet
  PROVE  BytesOf(<<x>>) = x.b
<1>1. BytesIn(<<x>>) = <<x.b>> /\ x.b \in Seq(Byte)
  BY DEF BytesIn, FieldSet
<1> QED
  BY <1>1, FlattenOne DEF BytesOf

LEMMA BytesOfConcat ==
  ASSUME NEW fs \in Fields, NEW gs \in Fields
  PROVE  fs \o gs \in Fields /\ BytesOf(fs \o gs) = BytesOf(fs) \o BytesOf(gs)
<1>1. fs \o gs \in Fields
  BY DEF Fields
<1>2. BytesIn(fs \o gs) = BytesIn(fs) \o BytesIn(gs)
  <2>1. /\ DOMAIN fs = 1 .. Len(fs) /\ Len(fs) \in Nat /\ DOMAIN gs = 1 .. Len(gs) /\ Len(gs) \in Nat
        /\ Len(fs \o gs) = Len(fs) + Len(gs) /\ DOMAIN (fs \o gs) = 1 .. Len(fs) + Len(gs)
    BY DEF Fields
  <2>2. \A i \in 1 .. Len(fs) : (fs \o gs)[i] = fs[i]
    BY <2>1 DEF Fields
  <2>3. \A i \in Len(fs) + 1 .. Len(fs) + Len(gs) : (fs \o gs)[i] = gs[i - Len(fs)]
    BY <2>1 DEF Fields
  <2> DEFINE a == BytesIn(fs \o gs)
             b == BytesIn(fs) \o BytesIn(gs)
  <2>4. /\ BytesIn(fs) \in Seq(Seq(Byte)) /\ BytesIn(gs) \in Seq(Seq(Byte)) /\ a \in Seq(Seq(Byte))
        /\ Len(BytesIn(fs)) = Len(fs) /\ Len(BytesIn(gs)) = Len(gs) /\ Len(a) = Len(fs) + Len(gs)
    BY <1>1, <2>1, BytesInType
  <2>5. /\ b \in Seq(Seq(Byte)) /\ Len(b) = Len(fs) + Len(gs)
        /\ \A i \in 1 .. Len(fs) + Len(gs) :
             b[i] = IF i <= Len(fs) THEN BytesIn(fs)[i] ELSE BytesIn(gs)[i - Len(fs)]
    <3>1. PICK p, q : p = BytesIn(fs) /\ q = BytesIn(gs)
      OBVIOUS
    <3>2. p \in Seq(Seq(Byte)) /\ q \in Seq(Seq(Byte)) /\ Len(p) = Len(fs) /\ Len(q) = Len(gs)
      BY <2>4, <3>1
    <3>3. /\ p \o q \in Seq(Seq(Byte)) /\ Len(p \o q) = Len(p) + Len(q)
          /\ \A i \in 1 .. Len(p) + Len(q) : (p \o q)[i] = IF i <= Len(p) THEN p[i] ELSE q[i - Len(p)]
      BY <3>2, ConcatProperties
    <3> QED
      BY <3>1, <3>2, <3>3
  <2>6. ASSUME NEW i \in 1 .. Len(fs) + Len(gs) PROVE a[i] = b[i]
    <3>1. a[i] = (fs \o gs)[i].b
      BY <2>1 DEF BytesIn
    <3>2. CASE i <= Len(fs)
      <4>1. i \in 1 .. Len(fs)
        BY <2>1, <3>2
      <4>2. BytesIn(fs)[i] = fs[i].b
        BY <2>1, <4>1 DEF BytesIn
      <4>3. b[i] = BytesIn(fs)[i]
        BY <2>5, <3>2
      <4> QED
        BY <2>2, <3>1, <4>1, <4>2, <4>3
    <3>3. CASE ~(i <= Len(fs))
      <4>1. i - Len(fs) \in 1 .. Len(gs) /\ i \in Len(fs) + 1 .. Len(fs) + Len(gs)
        BY <2>1, <3>3
      <4>2. BytesIn(gs)[i - Len(fs)] = gs[i - Len(fs)].b
        BY <2>1, <4>1 DEF BytesIn
      <4>3. b[i] = BytesIn(gs)[i - Len(fs)]
        BY <2>5, <3>3
      <4> QED
        BY <2>3, <3>1, <4>1, <4>2, <4>3
    <3> QED
      BY <3>2, <3>3
  <2> HIDE DEF a, b
  <2>7. a = b
    BY <2>4, <2>5, <2>6, SeqEqual
  <2> QED
    BY <2>7 DEF a, b
<1>3. BytesIn(fs) \in Seq(Seq(Byte)) /\ BytesIn(gs) \in Seq(Seq(Byte))
  BY BytesInType
<1>4. R!FlattenSeq(BytesIn(fs) \o BytesIn(gs)) = R!FlattenSeq(BytesIn(fs)) \o R!FlattenSeq(BytesIn(gs))
  BY <1>3, FlattenConcat
<1> QED
  BY <1>1, <1>2, <1>4 DEF BytesOf

\* The bytes of the fields begin with those of the first.
LEMMA BytesOfHead ==
  ASSUME NEW fs \in Fields, fs # <<>>
  PROVE  /\ Head(fs) \in FieldSet /\ Tail(fs) \in Fields /\ Head(fs).b \in Seq(Byte)
         /\ fs = <<Head(fs)>> \o Tail(fs)
         /\ BytesOf(fs) = Head(fs).b \o BytesOf(Tail(fs))
<1>1. Head(fs) \in FieldSet /\ Tail(fs) \in Fields /\ <<Head(fs)>> \in Fields
  BY DEF Fields
<1>2. fs = <<Head(fs)>> \o Tail(fs)
  BY DEF Fields
<1>3. Head(fs).b \in Seq(Byte)
  BY <1>1 DEF FieldSet
<1>4. BytesOf(<<Head(fs)>> \o Tail(fs)) = BytesOf(<<Head(fs)>>) \o BytesOf(Tail(fs))
  BY <1>1, BytesOfConcat
<1>5. BytesOf(<<Head(fs)>>) = Head(fs).b
  BY <1>1, BytesOfOne
<1>6. BytesOf(fs) = BytesOf(<<Head(fs)>> \o Tail(fs))
  BY <1>2
<1> QED
  BY <1>1, <1>2, <1>3, <1>4, <1>5, <1>6

-----------------------------------------------------------------------------
(* What the server sends is made of fields                                 *)

LEMMA NumberBytes ==
  ASSUME NEW v \in Int
  PROVE  /\ R!Bytes2(v) \in Seq(Byte) /\ Len(R!Bytes2(v)) = 2
         /\ R!Bytes4(v) \in Seq(Byte) /\ Len(R!Bytes4(v)) = 4
<1>1. /\ (v \div 256) % 256 \in Byte /\ v % 256 \in Byte
      /\ (v \div 16777216) % 256 \in Byte /\ (v \div 65536) % 256 \in Byte
  BY DEF Byte
<1>2. \A a \in Byte, b \in Byte : <<a, b>> \in Seq(Byte) /\ Len(<<a, b>>) = 2
  OBVIOUS
<1>3. ASSUME NEW a \in Seq(Byte), NEW b \in Seq(Byte), Len(a) = 2, Len(b) = 2
      PROVE  a \o b \in Seq(Byte) /\ Len(a \o b) = 4
  <2>1. a \o b \in Seq(Byte) /\ Len(a \o b) = Len(a) + Len(b)
    BY ConcatProperties
  <2> QED
    BY <1>3, <2>1
<1> QED
  BY <1>1, <1>2, <1>3 DEF R!Bytes2, R!Bytes4

LEMMA FieldTypes ==
  /\ \A v \in Byte : R!F8(v) \in FieldSet
  /\ \A v \in Int : R!F16(v) \in FieldSet /\ R!F32(v) \in FieldSet
  /\ R!Raw(8) \in FieldSet /\ R!Raw(20) \in FieldSet
  /\ R!Strings \subseteq FieldSet /\ R!Values \subseteq FieldSet /\ R!NoString \in FieldSet
<1>1. \A b \in Seq(Byte), v \in Int \cup Seq(Int) : R!F(b, v) \in FieldSet
  BY DEF R!F, FieldSet
<1>2. ASSUME NEW v \in Byte PROVE R!F8(v) \in FieldSet
  <2>1. <<v>> \in Seq(Byte) /\ v \in Int
    BY DEF Byte
  <2> QED
    BY <1>1, <2>1 DEF R!F8
<1>3. ASSUME NEW v \in Int PROVE R!F16(v) \in FieldSet /\ R!F32(v) \in FieldSet
  BY <1>1, NumberBytes DEF R!F16, R!F32
<1>4. ASSUME NEW n \in Nat PROVE R!Raw(n) \in FieldSet
  <2>1. 7 \in Byte /\ 7 \in Int
    BY DEF Byte
  <2>2. [i \in 1 .. n |-> 7] \in Seq(Byte) /\ [i \in 1 .. n |-> 7] \in Seq(Int)
    BY <2>1
  <2> QED
    BY <1>1, <2>2 DEF R!Raw
<1>5. /\ R!Bytes4(0) \in Seq(Byte) /\ R!Bytes4(-1) \in Seq(Byte)
      /\ R!Bytes4(1) \in Seq(Byte) /\ R!Bytes4(2) \in Seq(Byte)
  BY NumberBytes
<1>6. <<0>> \in Seq(Byte) /\ <<65, 0>> \in Seq(Byte)
  BY DEF Byte
<1>7. R!Bytes4(1) \o <<0>> \in Seq(Byte) /\ R!Bytes4(2) \o <<65, 0>> \in Seq(Byte)
  BY <1>5, <1>6
<1>8. <<>> \in Seq(Int) /\ <<65>> \in Seq(Int) /\ <<0>> \in Seq(Int) /\ <<-1>> \in Seq(Int)
  OBVIOUS
<1>9. R!Strings \subseteq FieldSet /\ R!NoString \in FieldSet
  BY <1>1, <1>5, <1>7, <1>8 DEF R!Strings, R!NoString
<1>10. R!Values \subseteq FieldSet
  BY <1>1, <1>5, <1>7, <1>8 DEF R!Values, R!Null
<1>11. 8 \in Nat /\ 20 \in Nat
  OBVIOUS
<1> QED
  BY <1>2, <1>3, <1>4, <1>9, <1>10, <1>11

LEMMA RepliesBounds ==
  ASSUME R!RepliesConstants
  PROVE  MaxItems \in Nat /\ SqlLen \in Nat
<1>1. R!MaxInt32 \in Nat
  BY SMT DEF R!MaxInt32
<1> QED
  BY <1>1, SMT DEF R!RepliesConstants

\* A reply as the server makes it: its fields, and where a count is among them.
WellFormed(r) ==
  /\ r.fields \in Fields /\ r.at \in Nat
  /\ r.at > 0 => r.at \in 1 .. Len(r.fields) /\ r.fields[r.at].v \in Int

LEMMA ItemsType ==
  ASSUME R!RepliesConstants, NEW S \in SUBSET Fields, NEW items \in R!UpTo(S)
  PROVE  /\ items \in Seq(S) /\ Len(items) \in 0 .. MaxItems /\ items \in Seq(Fields)
         /\ R!FlattenSeq(items) \in Fields
<1>1. PICK n \in 0 .. MaxItems : items \in [1 .. n -> S]
  BY DEF R!UpTo
<1>2. n \in Nat
  BY RepliesBounds
<1>3. items \in Seq(S) /\ Len(items) = n
  BY <1>1, <1>2
<1>4. items \in Seq(Fields)
  BY <1>3, SeqMonotonic
<1>5. R!FlattenSeq(items) \in Fields
  BY <1>4, FlattenType DEF Fields
<1> QED
  BY <1>3, <1>4, <1>5

LEMMA CountedType ==
  ASSUME NEW head \in Fields, NEW items \in Seq(Fields), NEW tail \in Fields
  PROVE  WellFormed(R!Counted(head, items, tail))
<1>1. PICK n \in Nat : n = Len(items)
  OBVIOUS
<1>2. PICK c \in FieldSet : c = R!F32(n)
  BY FieldTypes
<1>3. PICK its \in Fields : its = R!FlattenSeq(items)
  BY FlattenType DEF Fields
<1>4. PICK r : r = R!Counted(head, items, tail)
  OBVIOUS
<1>5. r.at = Len(head) + 1 /\ r.fields = head \o <<c>> \o its \o tail
  BY <1>1, <1>2, <1>3, <1>4 DEF R!Counted
<1>6. Len(head) \in Nat /\ <<c>> \in Fields /\ Len(<<c>>) = 1
  BY DEF Fields
<1> DEFINE hc == head \o <<c>>
           hci == hc \o its
           all == hci \o tail
<1>7. hc \in Fields /\ Len(hc) = Len(head) + 1 /\ hc[Len(head) + 1] = c
  BY <1>6 DEF Fields
<1> HIDE DEF hc
<1>8. hci \in Fields /\ Len(hci) >= Len(head) + 1 /\ hci[Len(head) + 1] = c
  BY <1>6, <1>7 DEF Fields
<1> HIDE DEF hci
<1>9. all \in Fields /\ Len(all) >= Len(head) + 1 /\ all[Len(head) + 1] = c /\ Len(all) \in Nat
  BY <1>6, <1>8 DEF Fields
<1>10. r.fields = all
  BY <1>5 DEF hc, hci
<1> HIDE DEF all
<1>11. c.v = n
  BY <1>2 DEF R!F32, R!F
<1>12. Len(head) + 1 \in 1 .. Len(all) /\ Len(head) + 1 \in Nat
  BY <1>6, <1>9
<1>13. PICK k, a : k = Len(head) + 1 /\ a = all
  OBVIOUS
<1>14. r.at = k /\ r.fields = a /\ k \in Nat /\ k \in 1 .. Len(a) /\ a[k] = c /\ a \in Fields
  BY <1>5, <1>9, <1>10, <1>12, <1>13
<1>15. WellFormed(r)
  BY <1>11, <1>14 DEF WellFormed
<1> QED
  BY <1>4, <1>15

LEMMA SomeFields ==
  /\ \A x \in FieldSet : <<x>> \in Fields
  /\ \A x, y \in FieldSet : <<x, y>> \in Fields
  /\ \A x, y, z \in FieldSet : <<x, y, z>> \in Fields
  /\ \A x, y, z, w \in FieldSet : <<x, y, z, w>> \in Fields
  /\ \A x, y, z, w, u \in FieldSet : <<x, y, z, w, u>> \in Fields
  /\ <<>> \in Fields
  BY DEF Fields

LEMMA FieldsConcat ==
  \A fs \in Fields, gs \in Fields : fs \o gs \in Fields
  BY DEF Fields

LEMMA OptionalType ==
  ASSUME NEW fs \in Fields
  PROVE  /\ R!Optional(fs) \in Fields /\ Len(R!Optional(fs)) = Len(fs)
         /\ \A i \in 1 .. Len(fs) : /\ R!Optional(fs)[i].b = fs[i].b
                                    /\ R!Optional(fs)[i].v = fs[i].v
                                    /\ R!Optional(fs)[i].opt
<1>1. Len(fs) \in Nat /\ DOMAIN fs = 1 .. Len(fs) /\ \A i \in 1 .. Len(fs) : fs[i] \in FieldSet
  BY DEF Fields
<1>2. \A x \in FieldSet : /\ [x EXCEPT !.opt = TRUE] \in FieldSet
                          /\ [x EXCEPT !.opt = TRUE].b = x.b
                          /\ [x EXCEPT !.opt = TRUE].v = x.v
                          /\ [x EXCEPT !.opt = TRUE].opt = TRUE
  BY DEF FieldSet
<1>3. R!Optional(fs) = [i \in 1 .. Len(fs) |-> [fs[i] EXCEPT !.opt = TRUE]]
  BY <1>1 DEF R!Optional
<1> DEFINE g == [i \in 1 .. Len(fs) |-> [fs[i] EXCEPT !.opt = TRUE]]
<1>4. \A i \in 1 .. Len(fs) : g[i] = [fs[i] EXCEPT !.opt = TRUE]
  OBVIOUS
<1>5. g \in [1 .. Len(fs) -> FieldSet]
  BY <1>1, <1>2
<1> HIDE DEF g
<1>6. g \in Seq(FieldSet) /\ Len(g) = Len(fs)
  BY <1>1, <1>5
<1>7. R!Optional(fs) = g
  BY <1>3 DEF g
<1> QED
  BY <1>1, <1>2, <1>4, <1>6, <1>7 DEF Fields

LEMMA ColumnTypes ==
  /\ R!Types \subseteq Fields
  /\ R!SchemaColumns \subseteq Fields /\ R!PrepareColumns \subseteq Fields
<1>1. 0 \in Byte /\ 2 \in Byte /\ 132 \in Byte /\ 0 \in Int /\ 1 \in Int
  BY DEF Byte
<1>2. /\ R!F8(0) \in FieldSet /\ R!F8(2) \in FieldSet /\ R!F8(132) \in FieldSet
      /\ R!F16(0) \in FieldSet /\ R!F32(1) \in FieldSet /\ R!NoString \in FieldSet
  BY <1>1, FieldTypes
<1>3. R!Types \subseteq Fields
  BY <1>2, SomeFields DEF R!Types
<1>4. ASSUME NEW t \in R!Types, NEW s \in R!Strings
      PROVE  R!SchemaColumn(t, s) \in Fields
  <2>1. <<R!F16(0), R!F32(1), s>> \in Fields /\ t \in Fields
    BY <1>2, <1>3, SomeFields, FieldTypes
  <2> QED
    BY <2>1, FieldsConcat DEF R!SchemaColumn
<1>5. ASSUME NEW t \in R!Types, NEW s \in R!Strings
      PROVE  R!PrepareColumn(t, s) \in Fields
  <2>1. <<R!NoString, s, R!F8(0), R!NoString>> \in Fields
    BY <1>2, SomeFields, FieldTypes
  <2>2. [i \in 1 .. 7 |-> R!F8(0)] \in Fields
    BY <1>2 DEF Fields
  <2>3. R!SchemaColumn(t, s) \in Fields
    BY <1>4
  <2>4. R!SchemaColumn(t, s) \o <<R!NoString, s, R!F8(0), R!NoString>> \in Fields
    BY <2>1, <2>3, FieldsConcat
  <2> QED
    BY <2>2, <2>4, FieldsConcat DEF R!PrepareColumn
<1>6. R!SchemaColumns \subseteq Fields
  BY <1>4 DEF R!SchemaColumns
<1>7. R!PrepareColumns \subseteq Fields
  BY <1>5 DEF R!PrepareColumns
<1> QED
  BY <1>3, <1>6, <1>7

LEMMA PrepareType ==
  ASSUME R!RepliesConstants, NEW r \in R!PrepareReplies
  PROVE  WellFormed(r)
<1>1. PICK p \in {0, SqlLen}, cols \in R!UpTo(R!PrepareColumns) :
        r = R!Counted(<<R!F32(9), R!F32(0), R!F8(21), R!F32(p), R!F8(0)>>, cols, <<>>)
  BY DEF R!PrepareReplies
<1>2. p \in Int /\ 9 \in Int /\ 0 \in Int /\ 0 \in Byte /\ 21 \in Byte
  BY RepliesBounds DEF Byte
<1>3. <<R!F32(9), R!F32(0), R!F8(21), R!F32(p), R!F8(0)>> \in Fields
  BY <1>2, FieldTypes, SomeFields
<1>4. cols \in Seq(Fields)
  BY ColumnTypes, ItemsType
<1> QED
  BY <1>1, <1>3, <1>4, SomeFields, CountedType

LEMMA SchemaType ==
  ASSUME R!RepliesConstants, NEW r \in R!SchemaReplies
  PROVE  WellFormed(r)
<1>1. PICK cols \in R!UpTo(R!SchemaColumns) :
        r = R!Counted(<<R!F32(9), R!F32(2)>>, cols, <<>>)
  BY DEF R!SchemaReplies
<1>2. 9 \in Int /\ 2 \in Int
  OBVIOUS
<1>3. <<R!F32(9), R!F32(2)>> \in Fields
  BY <1>2, FieldTypes, SomeFields
<1>4. cols \in Seq(Fields)
  BY ColumnTypes, ItemsType
<1> QED
  BY <1>1, <1>3, <1>4, SomeFields, CountedType

\* The rows of a fetch, and the byte that follows them.
LEMMA TuplesType ==
  ASSUME R!RepliesConstants, NEW tuples \in R!UpTo(R!Values)
  PROVE  /\ tuples \in Seq(R!Values) /\ Len(tuples) \in 0 .. MaxItems /\ Len(tuples) \in Nat
         /\ [i \in DOMAIN tuples |-> R!Tuple(i, tuples[i])] \in Seq(Fields)
<1>1. PICK n \in 0 .. MaxItems : tuples \in [1 .. n -> R!Values]
  BY DEF R!UpTo
<1>2. n \in Nat
  BY RepliesBounds
<1>3. tuples \in Seq(R!Values) /\ Len(tuples) = n /\ DOMAIN tuples = 1 .. n
  BY <1>1, <1>2
<1>4. ASSUME NEW i \in 1 .. n PROVE R!Tuple(i, tuples[i]) \in Fields
  <2>1. i \in Int /\ tuples[i] \in R!Values
    BY <1>1
  <2>2. R!F32(i) \in FieldSet /\ R!Raw(8) \in FieldSet /\ tuples[i] \in FieldSet
    BY <2>1, FieldTypes
  <2> QED
    BY <2>2, SomeFields DEF R!Tuple
<1>5. [i \in 1 .. n |-> R!Tuple(i, tuples[i])] \in Seq(Fields)
  BY <1>2, <1>4
<1> QED
  BY <1>2, <1>3, <1>5

LEMMA FetchBlockType ==
  ASSUME R!RepliesConstants, NEW ver, NEW tuples \in R!UpTo(R!Values)
  PROVE  /\ R!FetchBlock(ver, tuples) \in Fields
         /\ Len(R!FetchBlock(ver, tuples)) >= 1
         /\ R!FetchBlock(ver, tuples)[1] = R!F32(Len(tuples))
<1>1. PICK n \in Nat : n = Len(tuples)
  BY TuplesType
<1>2. PICK c \in FieldSet : c = R!F32(n)
  BY FieldTypes
<1>3. PICK its \in Fields : its = R!FlattenSeq([i \in DOMAIN tuples |-> R!Tuple(i, tuples[i])])
  BY TuplesType, FlattenType DEF Fields
<1>4. <<R!F8(1)>> \in Fields
  <2>1. 1 \in Byte
    BY DEF Byte
  <2> QED
    BY <2>1, FieldTypes, SomeFields
<1>5. PICK end \in Fields : end = IF ver >= 5 THEN R!Optional(<<R!F8(1)>>) ELSE <<>>
  BY <1>4, OptionalType, SomeFields
<1>6. R!FetchBlock(ver, tuples) = <<c>> \o its \o end
  BY <1>1, <1>2, <1>3, <1>5 DEF R!FetchBlock
<1>7. <<c>> \o its \in Fields /\ Len(<<c>> \o its) >= 1 /\ (<<c>> \o its)[1] = c
  BY DEF Fields
<1>8. PICK ci \in Fields : ci = <<c>> \o its
  BY <1>7
<1>9. ci \o end \in Fields /\ Len(ci \o end) >= 1 /\ (ci \o end)[1] = c
  BY <1>7, <1>8 DEF Fields
<1> QED
  BY <1>1, <1>2, <1>6, <1>8, <1>9

LEMMA FetchType ==
  ASSUME R!RepliesConstants, NEW ver, NEW r \in R!FetchReplies(ver)
  PROVE  WellFormed(r)
<1>1. PICK tuples \in R!UpTo(R!Values) :
        r = [at |-> 2, fields |-> <<R!F32(0)>> \o R!FetchBlock(ver, tuples)]
  BY DEF R!FetchReplies
<1>2. PICK n \in Nat : n = Len(tuples)
  BY TuplesType
<1>3. PICK fb \in Fields : fb = R!FetchBlock(ver, tuples)
  BY FetchBlockType
<1>4. Len(fb) >= 1 /\ fb[1] = R!F32(n)
  BY <1>2, <1>3, FetchBlockType
<1>5. PICK z \in FieldSet : z = R!F32(0)
  BY FieldTypes
<1>6. PICK a : a = <<z>> \o fb
  OBVIOUS
<1>7. a \in Fields /\ 2 \in 1 .. Len(a) /\ a[2] = fb[1]
  BY <1>4, <1>6 DEF Fields
<1>8. fb[1].v = n
  BY <1>4 DEF R!F32, R!F
<1>9. r.at = 2 /\ r.fields = a
  BY <1>1, <1>3, <1>5, <1>6
<1> QED
  BY <1>7, <1>8, <1>9 DEF WellFormed

LEMMA ResultInfoType == R!ResultInfo \in Fields
<1>1. 21 \in Byte /\ 1 \in Int /\ 0 \in Int
  BY DEF Byte
<1> QED
  BY <1>1, FieldTypes, SomeFields DEF R!ResultInfo

\* The parts of the reply to EXECUTE behind its results.
ExecuteReply(ver, rc, n, inline, tuples) ==
  R!Counted(<<R!F32(rc), R!F8(0)>>, [i \in 1 .. n |-> R!ResultInfo],
    (IF ver >= 2 THEN <<R!F8(0)>> ELSE <<>>) \o (IF ver >= 5 THEN <<R!F32(0)>> ELSE <<>>)
    \o (IF rc > 0 /\ inline
        THEN R!Optional(<<R!F32(0)>> \o R!FetchBlock(ver, tuples)) ELSE <<>>))

LEMMA ExecuteForm ==
  ASSUME NEW ver, NEW r \in R!ExecuteReplies(ver)
  PROVE  \E rc \in {0, 3}, n \in 0 .. MaxItems, inline \in BOOLEAN, tuples \in R!UpTo(R!Values) :
           r = ExecuteReply(ver, rc, n, inline, tuples)
<1>1. R!ExecuteReplies(ver) =
        {ExecuteReply(ver, rc, n, inline, tuples) :
           rc \in {0, 3}, n \in 0 .. MaxItems, inline \in BOOLEAN, tuples \in R!UpTo(R!Values)}
  BY DEF R!ExecuteReplies, ExecuteReply
<1> QED
  BY <1>1

LEMMA ExecuteType ==
  ASSUME R!RepliesConstants, NEW ver, NEW r \in R!ExecuteReplies(ver)
  PROVE  WellFormed(r)
<1>1. PICK rc \in {0, 3}, n \in 0 .. MaxItems, inline \in BOOLEAN, tuples \in R!UpTo(R!Values) :
        r = ExecuteReply(ver, rc, n, inline, tuples)
  BY ExecuteForm
<1>2. rc \in Int /\ n \in Nat /\ 0 \in Byte /\ 0 \in Int
  BY RepliesBounds DEF Byte
<1>3. R!F32(rc) \in FieldSet /\ R!F8(0) \in FieldSet /\ R!F32(0) \in FieldSet
  BY <1>2, FieldTypes
<1>4. PICK head \in Fields : head = <<R!F32(rc), R!F8(0)>>
  BY <1>3, SomeFields
<1>5. [i \in 1 .. n |-> R!ResultInfo] \in Seq(Fields)
  BY <1>2, ResultInfoType
<1>6. PICK a \in Fields : a = IF ver >= 2 THEN <<R!F8(0)>> ELSE <<>>
  BY <1>3, SomeFields
<1>7. PICK b \in Fields : b = IF ver >= 5 THEN <<R!F32(0)>> ELSE <<>>
  BY <1>3, SomeFields
<1>8. <<R!F32(0)>> \o R!FetchBlock(ver, tuples) \in Fields
  BY <1>3, SomeFields, FetchBlockType, FieldsConcat
<1>9. PICK c \in Fields : c = IF rc > 0 /\ inline
        THEN R!Optional(<<R!F32(0)>> \o R!FetchBlock(ver, tuples)) ELSE <<>>
  BY <1>8, SomeFields, OptionalType
<1>10. PICK tail \in Fields : tail = a \o b \o c
  BY FieldsConcat
<1>11. r = R!Counted(head, [i \in 1 .. n |-> R!ResultInfo], tail)
  BY <1>1, <1>4, <1>6, <1>7, <1>9, <1>10, Zenon DEF ExecuteReply
<1> QED
  BY <1>5, <1>11, CountedType

BatchItems == {R!BatchOk(0), R!BatchOk(2)} \cup {R!BatchErr(s) : s \in R!Strings}

LEMMA BatchItemsType == BatchItems \subseteq Fields
<1>1. 0 \in Int /\ 2 \in Int /\ -1 \in Int /\ -670 \in Int
  OBVIOUS
<1>2. /\ R!F32(0) \in FieldSet /\ R!F32(2) \in FieldSet /\ R!F16(0) \in FieldSet
      /\ R!F32(-1) \in FieldSet /\ R!F32(-670) \in FieldSet
  BY <1>1, FieldTypes
<1>3. R!BatchOk(0) \in Fields /\ R!BatchOk(2) \in Fields
  BY <1>2, SomeFields DEF R!BatchOk
<1>4. \A s \in R!Strings : R!BatchErr(s) \in Fields
  BY <1>2, SomeFields, FieldTypes DEF R!BatchErr
<1> QED
  BY <1>3, <1>4 DEF BatchItems

\* The items of a batch, each behind its statement type if it has one.
TypedItems(items, typed) ==
  [i \in DOMAIN items |-> (IF typed THEN <<R!F8(20)>> ELSE <<>>) \o items[i]]

LEMMA TypedItemsType ==
  ASSUME R!RepliesConstants, NEW typed \in BOOLEAN, NEW items \in R!UpTo(BatchItems)
  PROVE  TypedItems(items, typed) \in Seq(Fields)
<1>1. PICK n \in 0 .. MaxItems : items \in [1 .. n -> BatchItems]
  BY DEF R!UpTo
<1>2. n \in Nat
  BY RepliesBounds
<1>3. 20 \in Byte
  BY DEF Byte
<1>4. PICK t \in Fields : t = IF typed THEN <<R!F8(20)>> ELSE <<>>
  BY <1>3, FieldTypes, SomeFields
<1>5. ASSUME NEW i \in 1 .. n PROVE t \o items[i] \in Fields
  BY <1>1, BatchItemsType, FieldsConcat
<1>6. [i \in 1 .. n |-> t \o items[i]] \in Seq(Fields)
  BY <1>2, <1>5
<1>7. DOMAIN items = 1 .. n
  BY <1>1
<1>8. TypedItems(items, typed) = [i \in 1 .. n |-> t \o items[i]]
  BY <1>4, <1>7 DEF TypedItems
<1> QED
  BY <1>6, <1>8

LEMMA BatchType ==
  ASSUME R!RepliesConstants, NEW ver, NEW typed \in BOOLEAN, NEW r \in R!BatchReplies(ver, typed)
  PROVE  WellFormed(r)
<1>1. PICK items \in R!UpTo(BatchItems) :
        r = R!Counted(<<R!F32(0)>>, TypedItems(items, typed), IF ver >= 5 THEN <<R!F32(0)>> ELSE <<>>)
  BY DEF R!BatchReplies, BatchItems, TypedItems
<1>2. <<R!F32(0)>> \in Fields
  BY FieldTypes, SomeFields
<1>3. TypedItems(items, typed) \in Seq(Fields)
  BY TypedItemsType
<1>4. PICK tail \in Fields : tail = IF ver >= 5 THEN <<R!F32(0)>> ELSE <<>>
  BY <1>2, SomeFields
<1> QED
  BY <1>1, <1>2, <1>3, <1>4, CountedType

LEMMA BrokerType ==
  ASSUME NEW ver \in R!Versions
  PROVE  R!Broker(ver) \in FieldSet
<1>1. 1 \in Byte /\ 0 \in Byte /\ 64 + ver \in Byte
  BY DEF Byte, R!Versions
<1>2. PICK w \in Byte : w = 64 + ver
  BY <1>1
<1>3. PICK c : c = <<1, 1, 1, 1, w, 0, 0, 0>>
  OBVIOUS
<1>4. c \in Seq(Byte) /\ c \in Seq(Int)
  BY <1>1, <1>3 DEF Byte
<1>5. R!Broker(ver) = R!F(c, c)
  BY <1>2, <1>3 DEF R!Broker
<1> QED
  BY <1>4, <1>5 DEF R!F, FieldSet

LEMMA ConnectType ==
  ASSUME NEW ver \in R!Versions, NEW r \in R!ConnectReplies(ver)
  PROVE  WellFormed(r)
<1>1. r = [at |-> 0, fields |-> <<R!F32(77), R!Broker(ver)>>
             \o (IF ver >= 4 THEN <<R!F32(1)>> ELSE <<>>)
             \o (IF ver >= 3 THEN <<R!Raw(20)>> ELSE R!Optional(<<R!F32(5)>>))]
  BY DEF R!ConnectReplies
<1>2. 77 \in Int /\ 1 \in Int /\ 5 \in Int
  OBVIOUS
<1>3. /\ R!F32(77) \in FieldSet /\ R!F32(1) \in FieldSet /\ R!F32(5) \in FieldSet
      /\ R!Raw(20) \in FieldSet /\ R!Broker(ver) \in FieldSet
  BY <1>2, FieldTypes, BrokerType
<1>4. PICK a \in Fields : a = <<R!F32(77), R!Broker(ver)>>
  BY <1>3, SomeFields
<1>5. PICK b \in Fields : b = IF ver >= 4 THEN <<R!F32(1)>> ELSE <<>>
  BY <1>3, SomeFields
<1>6. PICK c \in Fields : c = IF ver >= 3 THEN <<R!Raw(20)>> ELSE R!Optional(<<R!F32(5)>>)
  BY <1>3, SomeFields, OptionalType
<1>7. r.at = 0 /\ r.fields = a \o b \o c
  BY <1>1, <1>4, <1>5, <1>6
<1>8. a \o b \o c \in Fields
  BY FieldsConcat
<1> QED
  BY <1>7, <1>8 DEF WellFormed

\* The text of an error.
ErrorText == R!F(<<65, 66, 67, 68, 69, 0>>, <<65, 66, 67, 68, 69>>)

LEMMA ErrorTextType == ErrorText \in FieldSet
<1>1. <<65, 66, 67, 68, 69, 0>> \in Seq(Byte) /\ <<65, 66, 67, 68, 69>> \in Seq(Int)
  BY DEF Byte
<1> QED
  BY <1>1 DEF ErrorText, R!F, FieldSet

LEMMA ErrorForm ==
  ASSUME NEW r \in R!ErrorReplies
  PROVE  \E c \in {<<R!F32(-1), R!F32(-493)>>, <<R!F32(-493)>>}, m \in {<<>>, <<ErrorText>>} :
           r = [at |-> 0, fields |-> c \o m]
  BY DEF R!ErrorReplies, ErrorText

LEMMA ErrorType ==
  ASSUME NEW r \in R!ErrorReplies
  PROVE  WellFormed(r)
<1>1. PICK c \in {<<R!F32(-1), R!F32(-493)>>, <<R!F32(-493)>>}, m \in {<<>>, <<ErrorText>>} :
        r = [at |-> 0, fields |-> c \o m]
  BY ErrorForm
<1>2. -1 \in Int /\ -493 \in Int
  OBVIOUS
<1>3. c \in Fields
  BY <1>2, FieldTypes, SomeFields
<1>4. m \in Fields
  BY ErrorTextType, SomeFields
<1>5. r.at = 0 /\ r.fields = c \o m /\ c \o m \in Fields
  BY <1>1, <1>3, <1>4, FieldsConcat
<1> QED
  BY <1>5 DEF WellFormed

LEMMA RepliesType ==
  ASSUME R!RepliesConstants, NEW kind \in R!Kinds, NEW ver \in R!Versions, NEW r \in R!RepliesOf(kind, ver)
  PROVE  WellFormed(r)
<1>1. CASE kind = "prepare"
  BY <1>1, PrepareType DEF R!RepliesOf
<1>2. CASE kind = "schema"
  BY <1>2, SchemaType DEF R!RepliesOf
<1>3. CASE kind = "execute"
  BY <1>3, ExecuteType DEF R!RepliesOf
<1>4. CASE kind = "fetch"
  BY <1>4, FetchType DEF R!RepliesOf
<1>5. CASE kind = "batch"
  BY <1>5, BatchType DEF R!RepliesOf
<1>6. CASE kind = "sqlbatch"
  BY <1>6, BatchType DEF R!RepliesOf
<1>7. CASE kind = "connect"
  BY <1>7, ConnectType DEF R!RepliesOf
<1>8. CASE kind = "error"
  BY <1>8, ErrorType DEF R!RepliesOf
<1> QED
  BY <1>1, <1>2, <1>3, <1>4, <1>5, <1>6, <1>7, <1>8 DEF R!Kinds

-----------------------------------------------------------------------------
(* How a reply arrives                                                     *)

Before(r) == R!FlattenSeq([j \in 1 .. r.at - 1 |-> r.fields[j].b])

\* What became of the reply r on the way.
Arrives(r) ==
  \/ reply.fault = "none" /\ payload = BytesOf(r.fields)
  \/ reply.fault = "cut" /\ \E k \in 0 .. Len(BytesOf(r.fields)) - 1 :
                              payload = SubSeq(BytesOf(r.fields), 1, k)
  \/ /\ reply.fault = "count" /\ r.at > 0
     /\ \E v \in {-1, r.fields[r.at].v + 1, 9} :
          payload = SubSeq(BytesOf(r.fields), 1, Len(Before(r))) \o R!Bytes4(v)
                    \o SubSeq(BytesOf(r.fields), Len(Before(r)) + 5, Len(BytesOf(r.fields)))

Sends(kind, ver, r) ==
  /\ kind \in {"prepare", "schema", "error"} => ver = 5
  /\ reply.kind = kind /\ reply.ver = ver /\ reply.fields = r.fields
  /\ Arrives(r)
  /\ off = 0 /\ plan = R!Plan(kind, ver) /\ vals = <<>> /\ alloc = 0 /\ outcome = "parsing"

LEMMA InitForm ==
  ASSUME R!Init
  PROVE  \E kind \in R!Kinds, ver \in R!Versions :
           \E r \in R!RepliesOf(kind, ver) : Sends(kind, ver, r)
<1>1. PICK kind \in R!Kinds, ver \in R!Versions :
        /\ kind \in {"prepare", "schema", "error"} => ver = 5
        /\ \E r \in R!RepliesOf(kind, ver) :
             LET bytes == R!FlattenSeq([i \in DOMAIN r.fields |-> r.fields[i].b])
                 upTo(i) == Len(R!FlattenSeq([j \in 1 .. i - 1 |-> r.fields[j].b]))
                 is(fault) == reply = [kind |-> kind, ver |-> ver, fields |-> r.fields, fault |-> fault]
             IN /\ \/ is("none") /\ payload = bytes
                   \/ is("cut") /\ \E k \in 0 .. Len(bytes) - 1 : payload = SubSeq(bytes, 1, k)
                   \/ /\ is("count") /\ r.at > 0
                      /\ \E v \in {-1, r.fields[r.at].v + 1, 9} :
                           payload = SubSeq(bytes, 1, upTo(r.at)) \o R!Bytes4(v)
                                     \o SubSeq(bytes, upTo(r.at) + 5, Len(bytes))
                /\ off = 0 /\ plan = R!Plan(kind, ver) /\ vals = <<>> /\ alloc = 0 /\ outcome = "parsing"
  BY Zenon DEF R!Init
<1>2. PICK r \in R!RepliesOf(kind, ver) :
        /\ \/ /\ reply = [kind |-> kind, ver |-> ver, fields |-> r.fields, fault |-> "none"]
              /\ payload = BytesOf(r.fields)
           \/ /\ reply = [kind |-> kind, ver |-> ver, fields |-> r.fields, fault |-> "cut"]
              /\ \E k \in 0 .. Len(BytesOf(r.fields)) - 1 : payload = SubSeq(BytesOf(r.fields), 1, k)
           \/ /\ reply = [kind |-> kind, ver |-> ver, fields |-> r.fields, fault |-> "count"]
              /\ r.at > 0
              /\ \E v \in {-1, r.fields[r.at].v + 1, 9} :
                   payload = SubSeq(BytesOf(r.fields), 1, Len(Before(r))) \o R!Bytes4(v)
                             \o SubSeq(BytesOf(r.fields), Len(Before(r)) + 5, Len(BytesOf(r.fields)))
        /\ off = 0 /\ plan = R!Plan(kind, ver) /\ vals = <<>> /\ alloc = 0 /\ outcome = "parsing"
  BY <1>1, Zenon DEF BytesOf, BytesIn, Before
<1>3. \A f : reply = [kind |-> kind, ver |-> ver, fields |-> r.fields, fault |-> f] =>
              /\ reply.kind = kind /\ reply.ver = ver /\ reply.fields = r.fields
              /\ reply.fault = f
  OBVIOUS
<1>4. Arrives(r) /\ reply.kind = kind /\ reply.ver = ver /\ reply.fields = r.fields
  BY <1>2, <1>3, Zenon DEF Arrives
<1>5. Sends(kind, ver, r)
  BY <1>1, <1>2, <1>4, Zenon DEF Sends
<1> QED
  BY <1>5

\* The bytes before a field end within the bytes of all.
LEMMA BeforeBytes ==
  ASSUME NEW r, WellFormed(r), r.at > 0
  PROVE  Len(Before(r)) \in 0 .. Len(BytesOf(r.fields))
<1>1. PICK fs \in Fields, k \in Nat : fs = r.fields /\ k = r.at
  BY DEF WellFormed
<1>2. k \in 1 .. Len(fs) /\ Len(fs) \in Nat
  BY <1>1 DEF WellFormed, Fields
<1> DEFINE a == SubSeq(fs, 1, k - 1)
           b == SubSeq(fs, k, Len(fs))
<1>3. a \in Fields /\ b \in Fields /\ fs = a \o b
  BY <1>2 DEF Fields
<1>4. Len(a) = k - 1 /\ \A j \in 1 .. k - 1 : a[j] = fs[j]
  BY <1>2 DEF Fields
<1> HIDE DEF a, b
<1>5. BytesIn(a) = [j \in 1 .. k - 1 |-> fs[j].b]
  <2>1. DOMAIN a = 1 .. k - 1
    BY <1>3, <1>4 DEF Fields
  <2> QED
    BY <1>4, <2>1 DEF BytesIn
<1>6. Before(r) = BytesOf(a)
  BY <1>1, <1>5 DEF Before, BytesOf
<1>7. BytesOf(fs) = BytesOf(a) \o BytesOf(b) /\ BytesOf(a) \in Seq(Byte) /\ BytesOf(b) \in Seq(Byte)
  BY <1>3, BytesOfConcat, BytesOfType
<1>8. Len(BytesOf(fs)) = Len(BytesOf(a)) + Len(BytesOf(b))
  BY <1>7, ConcatProperties
<1>9. Len(BytesOf(a)) \in Nat /\ Len(BytesOf(b)) \in Nat
  BY <1>7
<1> QED
  BY <1>1, <1>6, <1>8, <1>9

\* Whatever became of it, a reply is bytes.
LEMMA ArrivesBytes ==
  ASSUME R!RepliesConstants, NEW r, WellFormed(r), Arrives(r)
  PROVE  payload \in Seq(Byte)
<1>1. PICK bs \in Seq(Byte) : bs = BytesOf(r.fields)
  BY BytesOfType DEF WellFormed
<1>2. Len(bs) \in Nat /\ \A i \in 1 .. Len(bs) : bs[i] \in Byte
  OBVIOUS
<1>3. CASE payload = bs
  BY <1>3
<1>4. CASE \E k \in 0 .. Len(bs) - 1 : payload = SubSeq(bs, 1, k)
  <2>1. PICK k \in 0 .. Len(bs) - 1 : payload = SubSeq(bs, 1, k)
    BY <1>4
  <2>2. \A i \in 1 .. k : bs[i] \in Byte
    BY <1>2
  <2> QED
    BY <1>2, <2>1, <2>2, SubSeqProperties
<1>5. CASE /\ r.at > 0
           /\ \E v \in {-1, r.fields[r.at].v + 1, 9} :
                payload = SubSeq(bs, 1, Len(Before(r))) \o R!Bytes4(v)
                          \o SubSeq(bs, Len(Before(r)) + 5, Len(bs))
  <2>1. PICK u \in 0 .. Len(bs) : u = Len(Before(r))
    BY <1>1, <1>5, BeforeBytes
  <2>2. \A v \in {-1, r.fields[r.at].v + 1, 9} : v \in Int
    BY <1>5 DEF WellFormed
  <2>3. PICK v \in Int : payload = SubSeq(bs, 1, u) \o R!Bytes4(v) \o SubSeq(bs, u + 5, Len(bs))
    BY <1>5, <2>1, <2>2
  <2>4. u \in Int /\ u + 5 \in Int /\ Len(bs) \in Int /\ 1 \in Int
    BY <1>2
  <2>5. (\A i \in 1 .. u : bs[i] \in Byte) /\ (\A i \in u + 5 .. Len(bs) : bs[i] \in Byte)
    BY <1>2
  <2>6. SubSeq(bs, 1, u) \in Seq(Byte) /\ SubSeq(bs, u + 5, Len(bs)) \in Seq(Byte)
    BY <2>4, <2>5, SubSeqProperties
  <2>7. PICK x \in Seq(Byte), y \in Seq(Byte), z \in Seq(Byte) :
          x = SubSeq(bs, 1, u) /\ y = R!Bytes4(v) /\ z = SubSeq(bs, u + 5, Len(bs))
    BY <2>6, NumberBytes
  <2>8. x \o y \o z \in Seq(Byte)
    OBVIOUS
  <2> QED
    BY <2>3, <2>7, <2>8
<1> QED
  BY <1>1, <1>3, <1>4, <1>5 DEF Arrives

LEMMA ReplyInit ==
  ASSUME R!RepliesConstants, R!Init
  PROVE  AnyReply
<1>1. PICK kind \in R!Kinds, ver \in R!Versions :
           \E r \in R!RepliesOf(kind, ver) : Sends(kind, ver, r)
  BY InitForm
<1>2. PICK r \in R!RepliesOf(kind, ver) : Sends(kind, ver, r)
  BY <1>1
<1>3. WellFormed(r)
  BY RepliesType
<1>4. payload \in Seq(Byte)
  BY <1>2, <1>3, ArrivesBytes DEF Sends
<1> QED
  BY <1>2, <1>4 DEF Sends, AnyReply

\* AllocBounded, of the replies that Init has: no count makes a slice of negative
\* length or of more items than the reply has bytes, or the statement characters
\* and one.
THEOREM AllocTheorem == DataSpec => []AllocBounded
<1> DEFINE Inv == part = "reply" => ReaderInv
<1>1. DataInit => Inv
  BY DataConstants, ReplyInit, ReaderInit DEF DataInit
<1>2. Inv /\ [DataNext]_<<part, vars, replyVars, valueVars, dsnVars>> => Inv'
  BY DataStepParts, ReaderStep
<1>3. Inv => AllocBounded
  BY DEF AllocBounded, ReaderInv
<1> QED
  BY <1>1, <1>2, <1>3, PTL DEF DataSpec
=============================================================================
