----------------------------- MODULE Rows_proofs ----------------------------
(***************************************************************************)
(* Proofs about Rows.tla for any number of executions and rows and every   *)
(* fetch size: type correctness; rows are handed out in order, none twice, *)
(* whatever errors came in between and whether or not the statement is     *)
(* shared (InOrder); and, when it is not, EOF means the end                *)
(* (CompleteAtEOF).                                                        *)
(***************************************************************************)
EXTENDS Rows, TLAPS, WellFoundedInduction

USE RowsConstants

-----------------------------------------------------------------------------
(* The fetch block                                                         *)

\* A set of natural numbers has a least one.
LEMMA MinInSet ==
  ASSUME NEW T \in SUBSET Nat, T # {}
  PROVE  Min(T) \in T /\ \A y \in T : Min(T) <= y
<1>1. PICK m \in T : \A y \in T : ~(<<y, m>> \in OpToRel(<, Nat))
  BY NatLessThanWellFounded, WFMin
<1>2. \A y \in T : m <= y
  <2> SUFFICES ASSUME NEW y \in T, ~(m <= y) PROVE FALSE
    OBVIOUS
  <2>1. <<y, m>> \in OpToRel(<, Nat)
    BY DEF OpToRel
  <2> QED
    BY <1>1, <2>1
<1>3. \E z \in T : \A y \in T : z <= y
  BY <1>2
<1> QED
  BY <1>3 DEF Min

\* A block has rows as long as there are any left, and never more than are left.
LEMMA BlockFacts ==
  ASSUME NEW t \in Nat, NEW start \in Nat \ {0}, NEW limit \in Nat,
         NEW k \in BlockSizes(t, start, limit)
  PROVE  /\ k \in Nat
         /\ k = 0 <=> start > t
         /\ k # 0 => start + k <= t + 1
<1>1. CASE start > t
  BY <1>1 DEF BlockSizes
<1>2. CASE ~(start > t)
  <2> DEFINE T == {t - start + 1, limit}
  <2>1. T \in SUBSET Nat /\ T # {}
    BY <1>2
  <2>2. Min(T) \in Nat /\ Min(T) <= t - start + 1
    BY <2>1, MinInSet
  <2>3. k \in 1 .. Min(T)
    BY <1>2 DEF BlockSizes
  <2> QED
    BY <1>2, <2>2, <2>3
<1> QED
  BY <1>1, <1>2

\* The number of rows of a block of k that can be used: all of them, or those
\* before the first that cannot be decoded.
Good(r, u, k) ==
  IF Undecodable(r, u, k) = {} THEN k ELSE Min(Undecodable(r, u, k)) - r.nextIndex

\* Rows of the block before the first undecodable one are decodable, and so are
\* all when there is none.
LEMMA GoodFacts ==
  ASSUME NEW r \in RowsObject, NEW u \in SUBSET (1 .. MaxRows), NEW k \in Nat
  PROVE  /\ Good(r, u, k) \in 0 .. k
         /\ \A i \in r.nextIndex .. r.nextIndex + Good(r, u, k) - 1 : i \notin u
         /\ Undecodable(r, u, k) = {} => Good(r, u, k) = k
         /\ Undecodable(r, u, k) # {} =>
              Good(r, u, k) < k /\ r.nextIndex + Good(r, u, k) \in u
<1>1. r.nextIndex \in Nat \ {0}
  BY DEF RowsObject
<1>2. Undecodable(r, u, k) = u \cap (r.nextIndex .. r.nextIndex + k - 1)
  BY DEF Undecodable
<1>3. CASE Undecodable(r, u, k) = {}
  BY <1>1, <1>2, <1>3 DEF Good
<1>4. CASE Undecodable(r, u, k) # {}
  <2>1. Undecodable(r, u, k) \in SUBSET Nat
    BY <1>1, <1>2
  <2>2. Min(Undecodable(r, u, k)) \in Undecodable(r, u, k) /\ \A y \in Undecodable(r, u, k) : Min(Undecodable(r, u, k)) <= y
    BY <1>4, <2>1, MinInSet
  <2>3. Good(r, u, k) = Min(Undecodable(r, u, k)) - r.nextIndex
    BY <1>4 DEF Good
  <2>4. Min(Undecodable(r, u, k)) \in u /\ Min(Undecodable(r, u, k)) \in r.nextIndex .. r.nextIndex + k - 1
    BY <1>2, <2>2
  <2>5. Good(r, u, k) \in 0 .. k /\ Good(r, u, k) < k /\ r.nextIndex + Good(r, u, k) = Min(Undecodable(r, u, k))
    BY <1>1, <2>3, <2>4
  <2>6. \A i \in r.nextIndex .. r.nextIndex + Good(r, u, k) - 1 : i \notin u
    BY <1>1, <1>2, <2>2, <2>5
  <2> QED
    BY <1>4, <2>4, <2>5, <2>6
<1> QED
  BY <1>3, <1>4

\* c is r after a block of k rows of the result x, of t rows: the buffer has the
\* decodable rows from r's next index on, the index is past them, or past the first
\* undecodable row too, and the result is taken for complete only when the block
\* reaches its end.
Consumed(c, r, x, t, u, k) ==
  /\ c \in RowsObject /\ c.state = r.state /\ c.pos = r.pos
  /\ k \in Nat /\ (k = 0 <=> r.nextIndex > t)
  /\ Len(c.tuples) = Good(r, u, k) /\ Good(r, u, k) \in 0 .. MaxRows /\ Good(r, u, k) \in 0 .. k
  /\ \A i \in 1 .. Good(r, u, k) : c.tuples[i] = <<x, r.nextIndex + i - 1>>
  /\ c.nextIndex = IF Undecodable(r, u, k) = {} THEN r.nextIndex + k
                   ELSE r.nextIndex + Good(r, u, k) + 1
  /\ r.nextIndex <= t + 1 => c.nextIndex <= t + 1
  /\ c.fetchedAll => r.fetchedAll \/ (Undecodable(r, u, k) = {} /\ r.nextIndex + k > t)

\* That is what Rows.consumeFetch does with any block the server may send.
LEMMA ConsumeFacts ==
  ASSUME NEW r \in RowsObject, NEW x \in Exec, NEW t \in 0 .. MaxRows,
         NEW u \in SUBSET (1 .. MaxRows), NEW limit \in Nat,
         NEW k \in BlockSizes(t, r.nextIndex, limit),
         NEW fc \in CompletedFlags(t, r.nextIndex, k), v5 \in BOOLEAN
  PROVE  Consumed(ConsumeFetch(r, x, u, k, fc), r, x, t, u, k)
<1> DEFINE c == ConsumeFetch(r, x, u, k, fc)
<1> DEFINE g == Good(r, u, k)
           tuples == [i \in 1 .. g |-> <<x, r.nextIndex + i - 1>>]
           next == IF Undecodable(r, u, k) = {} THEN r.nextIndex + k ELSE r.nextIndex + g + 1
           all == IF Undecodable(r, u, k) # {} THEN r.fetchedAll
                  ELSE IF v5 THEN fc ELSE IF k = 0 THEN TRUE ELSE r.fetchedAll
<1>1. c = [state |-> r.state, tuples |-> tuples, pos |-> r.pos, nextIndex |-> next,
           fetchedAll |-> all]
  <2>1. c = [r EXCEPT !.tuples = tuples, !.nextIndex = next, !.fetchedAll = all]
    BY DEF ConsumeFetch, Good
  <2> HIDE DEF c, tuples, next, all
  <2> QED
    BY <2>1 DEF RowsObject
<1>2. /\ r.nextIndex \in 1 .. MaxRows + 1 /\ r.state \in {"none", "open", "closed"}
      /\ r.pos \in 0 .. MaxRows /\ r.fetchedAll \in BOOLEAN
  BY DEF RowsObject
<1>3. k \in Nat /\ (k = 0 <=> r.nextIndex > t) /\ (k # 0 => r.nextIndex + k <= t + 1)
  BY <1>2, BlockFacts
<1>4. g \in 0 .. k /\ (Undecodable(r, u, k) # {} => g < k)
  BY <1>3, GoodFacts
<1>5. g \in 0 .. MaxRows /\ r.nextIndex + g <= MaxRows + 1
  BY <1>2, <1>3, <1>4
<1> HIDE DEF g
<1>6. tuples \in Seq(Row) /\ Len(tuples) = g
  <2>1. \A i \in 1 .. g : <<x, r.nextIndex + i - 1>> \in Row
    BY <1>2, <1>5 DEF Row
  <2> QED
    BY <1>5, <2>1
<1>7. /\ next \in 1 .. MaxRows + 1
      /\ r.nextIndex <= t + 1 => next <= t + 1
  BY <1>2, <1>3, <1>4
<1>8. all \in BOOLEAN
  BY <1>2 DEF CompletedFlags
<1>9. all => r.fetchedAll \/ (Undecodable(r, u, k) = {} /\ r.nextIndex + k > t)
  <2>1. ~(r.nextIndex + k > t) => fc = FALSE
    BY DEF CompletedFlags
  <2>2. k = 0 => r.nextIndex + k > t
    BY <1>2, <1>3
  <2> QED
    BY <2>1, <2>2, Zenon
<1>10. \A i \in 1 .. g : tuples[i] = <<x, r.nextIndex + i - 1>>
  OBVIOUS
<1> HIDE DEF c, tuples, next, all
<1>11. /\ c.state = r.state /\ c.tuples = tuples /\ c.pos = r.pos /\ c.nextIndex = next
       /\ c.fetchedAll = all
  BY <1>1
<1>12. c \in RowsObject
  BY <1>1, <1>2, <1>6, <1>7, <1>8 DEF RowsObject
<1> QED
  BY <1>3, <1>4, <1>5, <1>6, <1>7, <1>9, <1>10, <1>11, <1>12 DEF Consumed, c, g, next

-----------------------------------------------------------------------------
(* The inductive invariants                                                *)

\* The executions that have not returned a Rows object, and what is known of them.
Started ==
  /\ \A e \in Exec : e > nExec => rows[e].state = "none"
  /\ op.kind \in {"exec", "callfetch"} => rows[op.e].state = "none" /\ op.e <= nExec
  /\ op.kind = "fetch" => /\ rows[op.e].state = "open"
                          /\ rows[op.e].pos >= Len(rows[op.e].tuples)
                          /\ Len(delivered[op.e]) < MaxDelivered
  /\ \A e \in Exec : rows[e].state = "none" => delivered[e] = <<>> /\ ret[e] = "none"

\* The rows d handed out from r come before those in its buffer, and both before
\* its next index.
Increasing(d) == \A i, j \in 1 .. Len(d) : i < j => d[i][2] < d[j][2]
OrderedAt(r, d) ==
  /\ Len(r.tuples) <= MaxRows /\ r.pos <= Len(r.tuples)
  /\ \A i \in 1 .. Len(r.tuples) : r.tuples[i][2] < r.nextIndex
  /\ Increasing(r.tuples) /\ Increasing(d)
  /\ \A i \in 1 .. Len(d) : d[i][2] < r.nextIndex
  /\ \A i \in 1 .. Len(d), j \in r.pos + 1 .. Len(r.tuples) : d[i][2] < r.tuples[j][2]

Ordered == \A e \in Exec : OrderedAt(rows[e], delivered[e])

OrderInv == TypeOK /\ Started /\ Ordered

\* Without sharing, a statement has one open Rows at a time and no request but its
\* own: the cursor, while there is one, is on its result.
OneCursor ==
  /\ op.kind \in {"exec", "callfetch"} => \A e \in Exec : rows[e].state # "open"
  /\ \A e \in Exec : rows[e].state = "open" /\ cursor # 0 => cursor = e
  /\ \A e, f \in Exec : rows[e].state = "open" /\ rows[f].state = "open" => e = f

\* Every row up to the next index of r, the Rows of execution e, is accounted for:
\* handed out (d), in the buffer, or undecodable (u) and reported (f).
Handed(d) == {d[i] : i \in 1 .. Len(d)}
Buffered(r) == {r.tuples[i] : i \in r.pos + 1 .. Len(r.tuples)}
Seen(r) == 1 .. r.nextIndex - 1
AccountedAt(e, r, d, t, u, f) ==
  /\ Handed(d) \cup Buffered(r) = {<<e, i>> : i \in Seen(r) \ u}
  /\ u \cap Seen(r) # {} => f = TRUE
  /\ r.nextIndex <= t + 1
  /\ r.fetchedAll => r.nextIndex = t + 1

Accounted ==
  \A e \in Exec : rows[e].state # "none" =>
    AccountedAt(e, rows[e], delivered[e], total[e], undec[e], failed[e])

\* After EOF there is nothing more in the buffer or on the server.
AtEOF ==
  \A e \in Exec : ret[e] = "eof" =>
    /\ rows[e].pos >= Len(rows[e].tuples)
    /\ rows[e].nextIndex = total[e] + 1

UndecInResult == \A e \in Exec : undec[e] \subseteq 1 .. total[e]

CompleteInv == OrderInv /\ OneCursor /\ Accounted /\ AtEOF /\ UndecInResult

-----------------------------------------------------------------------------
(* What a block, a delivery and a new Rows object do to the order and to   *)
(* the account                                                             *)

\* Emptied changes nothing but the buffer.
LEMMA EmptiedFacts ==
  ASSUME NEW r \in RowsObject
  PROVE  /\ Emptied(r) \in RowsObject /\ Emptied(r).tuples = <<>> /\ Emptied(r).pos = 0
         /\ Emptied(r).nextIndex = r.nextIndex /\ Emptied(r).state = r.state
         /\ Emptied(r).fetchedAll = r.fetchedAll
<1>1. <<>> \in Seq(Row) /\ 0 \in 0 .. MaxRows
  OBVIOUS
<1> QED
  BY <1>1 DEF RowsObject, Emptied

\* A block put into an empty buffer comes after all the rows handed out.
LEMMA OrderedConsume ==
  ASSUME NEW r \in RowsObject, NEW d \in Seq(Row), OrderedAt(r, d), r.pos = 0,
         NEW c, NEW x, NEW t, NEW u, NEW k, Consumed(c, r, x, t, u, k)
  PROVE  OrderedAt(c, d)
<1> DEFINE g == Good(r, u, k)
<1>1. /\ c.pos = 0 /\ g \in 0 .. k /\ k \in Nat /\ Len(c.tuples) = g /\ g \in 0 .. MaxRows
      /\ \A i \in 1 .. g : c.tuples[i] = <<x, r.nextIndex + i - 1>>
      /\ c.nextIndex \in Int /\ r.nextIndex + g <= c.nextIndex
      /\ r.nextIndex \in Nat \ {0}
  BY DEF Consumed, RowsObject
<1> HIDE DEF g
<1>2. \A i \in 1 .. g : c.tuples[i][2] = r.nextIndex + i - 1
  BY <1>1
<1>3. \A i \in 1 .. Len(d) : d[i][2] < r.nextIndex /\ d[i][2] \in Int
  BY DEF OrderedAt, Row
<1>4. Increasing(d)
  BY DEF OrderedAt
<1>5. Increasing(c.tuples)
  BY <1>1, <1>2, SMTT(20) DEF Increasing
<1>6. /\ \A i \in 1 .. g : c.tuples[i][2] < c.nextIndex
      /\ \A i \in 1 .. Len(d) : d[i][2] < c.nextIndex
      /\ \A i \in 1 .. Len(d), j \in 1 .. g : d[i][2] < c.tuples[j][2]
  <2>1. \A i \in 1 .. g : c.tuples[i][2] < c.nextIndex
    BY <1>1, <1>2
  <2>2. \A i \in 1 .. Len(d) : d[i][2] < c.nextIndex
    BY <1>1, <1>3
  <2>3. ASSUME NEW i \in 1 .. Len(d), NEW j \in 1 .. g PROVE d[i][2] < c.tuples[j][2]
    <3>1. d[i][2] < r.nextIndex /\ d[i][2] \in Int /\ c.tuples[j][2] = r.nextIndex + j - 1
      BY <1>2, <1>3
    <3>2. r.nextIndex <= r.nextIndex + j - 1
      BY <1>1
    <3> QED
      BY <1>1, <3>1, <3>2
  <2> QED
    BY <2>1, <2>2, <2>3
<1> QED
  BY <1>1, <1>4, <1>5, <1>6 DEF OrderedAt

\* The next row of the buffer comes after all the rows handed out.
LEMMA OrderedDeliver ==
  ASSUME NEW r \in RowsObject, NEW d \in Seq(Row), OrderedAt(r, d), r.pos < Len(r.tuples)
  PROVE  /\ OrderedAt([r EXCEPT !.pos = @ + 1], Append(d, r.tuples[r.pos + 1]))
         /\ [r EXCEPT !.pos = @ + 1] \in RowsObject
         /\ Append(d, r.tuples[r.pos + 1]) \in Seq(Row)
<1> DEFINE c == [r EXCEPT !.pos = @ + 1]
           row == r.tuples[r.pos + 1]
           a == Append(d, row)
<1>1. /\ r.tuples \in Seq(Row) /\ r.pos \in 0 .. MaxRows /\ r.nextIndex \in Nat
      /\ Len(r.tuples) <= MaxRows
  BY DEF RowsObject, OrderedAt
<1>2. row \in Row /\ r.pos + 1 \in 1 .. Len(r.tuples)
  BY <1>1
<1>3. /\ c.pos = r.pos + 1 /\ c.tuples = r.tuples /\ c.nextIndex = r.nextIndex
      /\ c \in RowsObject
  <2>1. r.pos + 1 \in 0 .. MaxRows
    BY <1>1, <1>2
  <2> QED
    BY <1>1, <2>1 DEF RowsObject
<1>4. /\ \A i \in 1 .. Len(d) : d[i][2] < row[2] /\ d[i][2] \in Int
      /\ row[2] \in Int /\ row[2] < r.nextIndex
      /\ \A j \in r.pos + 2 .. Len(r.tuples) : row[2] < r.tuples[j][2]
  <2>1. row[2] \in Int /\ \A i \in 1 .. Len(d) : d[i][2] \in Int
    BY <1>2 DEF Row
  <2>2. row[2] < r.nextIndex /\ \A i \in 1 .. Len(d) : d[i][2] < row[2]
    BY <1>1, <1>2 DEF OrderedAt
  <2>3. \A j \in r.pos + 2 .. Len(r.tuples) : row[2] < r.tuples[j][2]
    <3> SUFFICES ASSUME NEW j \in r.pos + 2 .. Len(r.tuples) PROVE row[2] < r.tuples[j][2]
      OBVIOUS
    <3>1. j \in 1 .. Len(r.tuples) /\ r.pos + 1 < j
      BY <1>1
    <3> QED
      BY <1>2, <3>1 DEF OrderedAt, Increasing
  <2> QED
    BY <2>1, <2>2, <2>3
<1> HIDE DEF c, row
<1>5. /\ a \in Seq(Row) /\ Len(a) = Len(d) + 1 /\ a[Len(d) + 1] = row
      /\ \A i \in 1 .. Len(d) : a[i] = d[i]
  BY <1>2
<1> HIDE DEF a
<1>6. Increasing(a)
  <2> SUFFICES ASSUME NEW i \in 1 .. Len(a), NEW j \in 1 .. Len(a), i < j
               PROVE  a[i][2] < a[j][2]
    BY DEF Increasing
  <2>1. i \in 1 .. Len(d) /\ a[i] = d[i]
    BY <1>5
  <2>2. CASE j \in 1 .. Len(d)
    BY <1>5, <2>1, <2>2 DEF OrderedAt, Increasing
  <2>3. CASE j = Len(d) + 1
    BY <1>4, <1>5, <2>1, <2>3
  <2> QED
    BY <1>5, <2>2, <2>3
<1>7. \A i \in 1 .. Len(a) : i \in 1 .. Len(d) \/ a[i] = row
  BY <1>5
<1>8. /\ \A i \in 1 .. Len(a) : a[i][2] < c.nextIndex
      /\ \A i \in 1 .. Len(a), j \in c.pos + 1 .. Len(c.tuples) : a[i][2] < c.tuples[j][2]
  <2>1. \A i \in 1 .. Len(a) : a[i][2] < c.nextIndex
    BY <1>3, <1>4, <1>5, <1>7 DEF OrderedAt
  <2>2. ASSUME NEW i \in 1 .. Len(a), NEW j \in c.pos + 1 .. Len(c.tuples)
        PROVE  a[i][2] < c.tuples[j][2]
    <3>1. j \in r.pos + 2 .. Len(r.tuples) /\ j \in r.pos + 1 .. Len(r.tuples)
      BY <1>1, <1>3
    <3> QED
      BY <1>3, <1>4, <1>5, <1>7, <3>1 DEF OrderedAt
  <2> QED
    BY <2>1, <2>2
<1>9. OrderedAt(c, a)
  BY <1>1, <1>2, <1>3, <1>6, <1>8 DEF OrderedAt
<1> QED
  BY <1>3, <1>5, <1>9 DEF c, a, row

-----------------------------------------------------------------------------
(* OrderInv is inductive                                                   *)

\* The types of everything but the Rows objects and what was returned from them.
PlainTyped ==
  /\ v5 \in BOOLEAN /\ bad \in BOOLEAN /\ stmtClosed \in BOOLEAN
  /\ cmd \in {"select", "call", "other"}
  /\ outRow \in Row \union {NoRow}
  /\ nExec \in 0 .. MaxExec
  /\ op \in [kind : {"exec", "callfetch", "fetch"}, e : Exec] \union {NoOp}
  /\ qctx \in [Exec -> {"live", "done"}]
  /\ total \in [Exec -> 0 .. MaxRows]
  /\ undec \in [Exec -> SUBSET (1 .. MaxRows)]
  /\ cursor \in 0 .. MaxExec

RowsTyped ==
  /\ rows \in [Exec -> RowsObject]
  /\ \A e \in Exec : rows[e].pos <= Len(rows[e].tuples)
  /\ delivered \in [Exec -> Seq(Row)]
  /\ ret \in [Exec -> {"none", "row", "eof", "err"}]
  /\ failed \in [Exec -> BOOLEAN]

LEMMA TypeParts == TypeOK <=> PlainTyped /\ RowsTyped
  BY DEF TypeOK, PlainTyped, RowsTyped

\* The request under way is for one of the executions.
LEMMA OpFacts ==
  ASSUME TypeOK
  PROVE  /\ op.kind \in {"exec", "callfetch", "fetch"} =>
              op.e \in Exec /\ op \in [kind : {"exec", "callfetch", "fetch"}, e : Exec]
         /\ op.kind \notin {"exec", "callfetch", "fetch"} => op = NoOp
         /\ NoOp.kind = "none"
  BY DEF TypeOK, NoOp

\* A new Rows object, as the reply to EXECUTE makes it; all: it is complete.
LEMMA FreshTyped ==
  /\ FreshRows \in RowsObject /\ FreshRows.tuples = <<>> /\ FreshRows.pos = 0
  /\ FreshRows.nextIndex = 1 /\ FreshRows.state = "none" /\ ~FreshRows.fetchedAll
<1>1. <<>> \in Seq(Row) /\ 0 \in 0 .. MaxRows /\ 1 \in 1 .. MaxRows + 1
  OBVIOUS
<1> QED
  BY <1>1 DEF FreshRows, RowsObject

LEMMA FreshFacts ==
  ASSUME NEW all \in BOOLEAN,
         NEW r, \/ r = [FreshRows EXCEPT !.state = "open", !.fetchedAll = all]
                \/ r = [FreshRows EXCEPT !.state = "open"] /\ ~all
  PROVE  /\ r \in RowsObject /\ OrderedAt(r, <<>>) /\ r.state = "open" /\ r.pos = 0
         /\ r.nextIndex = 1 /\ r.tuples = <<>> /\ (r.fetchedAll <=> all)
<1>1. /\ r \in RowsObject /\ r.state = "open" /\ r.pos = 0
      /\ r.nextIndex = 1 /\ r.tuples = <<>> /\ (r.fetchedAll <=> all)
  BY FreshTyped DEF RowsObject
<1>2. OrderedAt(r, <<>>)
  BY <1>1 DEF OrderedAt, Increasing
<1> QED
  BY <1>1, <1>2

\* A step that leaves the Rows objects alone, but for what Next returned.
LEMMA RowsKept ==
  ASSUME OrderInv, UNCHANGED <<rows, delivered>>, PlainTyped',
         \/ UNCHANGED <<ret, failed>>
         \/ \E e \in Exec, what \in {"eof", "err"} :
              /\ rows[e].state = "open" /\ ret' = [ret EXCEPT ![e] = what]
              /\ failed' \in [Exec -> BOOLEAN],
         nExec <= nExec',
         \/ op' = op
         \/ op' = NoOp
         \/ op' = [op EXCEPT !.kind = "callfetch"] /\ op.kind = "exec"
         \/ op' = [kind |-> "exec", e |-> nExec + 1] /\ nExec' = nExec + 1
         \/ \E e \in Exec : op' = [kind |-> "fetch", e |-> e] /\ NeedsFetch(e)
  PROVE  OrderInv'
<1> USE DEF OrderInv
<1>1. RowsTyped'
  BY TypeParts DEF RowsTyped
<1>2. Ordered'
  BY DEF Ordered
<1>3. \A e \in Exec : rows[e].state = "none" => delivered'[e] = <<>> /\ ret'[e] = "none"
  BY TypeParts DEF Started, RowsTyped
<1>4. \A e \in Exec : e > nExec' => rows[e].state = "none"
  BY TypeParts DEF Started, PlainTyped, Exec
<1>5. /\ op'.kind \in {"exec", "callfetch"} => rows[op'.e].state = "none" /\ op'.e <= nExec'
      /\ op'.kind = "fetch" => /\ rows[op'.e].state = "open"
                               /\ rows[op'.e].pos >= Len(rows[op'.e].tuples)
                               /\ Len(delivered[op'.e]) < MaxDelivered
  <2>0. nExec \in 0 .. MaxExec /\ nExec' \in 0 .. MaxExec
    BY TypeParts DEF PlainTyped
  <2>1. CASE op' = op
    <3>1. op.kind \in {"exec", "callfetch"} => op.e \in Int
      BY OpFacts DEF Exec
    <3> QED
      BY <2>0, <2>1, <3>1 DEF Started
  <2>2. CASE op' = NoOp
    BY <2>2 DEF NoOp
  <2>3. CASE op' = [op EXCEPT !.kind = "callfetch"] /\ op.kind = "exec"
    <3>1. op'.kind = "callfetch" /\ op'.e = op.e /\ op.e \in Int
      BY <2>3, OpFacts DEF Exec
    <3> QED
      BY <2>0, <2>3, <3>1 DEF Started
  <2>4. CASE op' = [kind |-> "exec", e |-> nExec + 1] /\ nExec' = nExec + 1
    <3>1. op'.kind = "exec" /\ op'.e = nExec + 1 /\ nExec + 1 \in Exec
      BY <2>0, <2>4 DEF Exec
    <3> QED
      BY <2>0, <2>4, <3>1 DEF Started
  <2>5. CASE \E e \in Exec : op' = [kind |-> "fetch", e |-> e] /\ NeedsFetch(e)
    BY <2>5 DEF NeedsFetch, CanNext
  <2> QED
    BY <2>1, <2>2, <2>3, <2>4, <2>5
<1>6. Started'
  BY <1>3, <1>4, <1>5 DEF Started
<1> QED
  BY <1>1, <1>2, <1>6 DEF TypeOK, PlainTyped, RowsTyped

\* A step that returns a new Rows object to the caller of Query.
LEMMA RowsMade ==
  ASSUME OrderInv, op.kind \in {"exec", "callfetch"}, PlainTyped',
         NEW r \in RowsObject, OrderedAt(r, <<>>), r.state = "open",
         rows' = [rows EXCEPT ![op.e] = r], op' = NoOp,
         UNCHANGED <<nExec, delivered, ret, failed>>
  PROVE  OrderInv'
<1> USE DEF OrderInv
<1>1. op.e \in Exec /\ rows[op.e].state = "none" /\ op.e <= nExec
  BY OpFacts DEF Started
<1>2. rows \in [Exec -> RowsObject]
  BY DEF TypeOK
<1>3. rows'[op.e] = r /\ \A e \in Exec : e # op.e => rows'[e] = rows[e]
  BY <1>1, <1>2
<1>4. rows' \in [Exec -> RowsObject]
  BY <1>1, <1>2
<1>5. Ordered'
  BY <1>1, <1>3 DEF Ordered, Started
<1>6. RowsTyped'
  BY <1>4, <1>5 DEF TypeOK, RowsTyped, Ordered, OrderedAt
<1>7. Started'
  <2>1. op'.kind = "none"
    BY OpFacts
  <2>2. \A e \in Exec : e > nExec' => rows'[e].state = "none"
    BY <1>1, <1>3 DEF Started, TypeOK, Exec
  <2>3. \A e \in Exec : rows'[e].state = "none" => delivered'[e] = <<>> /\ ret'[e] = "none"
    BY <1>1, <1>3 DEF Started
  <2> QED
    BY <2>1, <2>2, <2>3 DEF Started
<1> QED
  BY <1>5, <1>6, <1>7 DEF TypeOK, PlainTyped, RowsTyped

\* A step of Next on rows[e], which puts r in its place with d handed out.
LEMMA RowsAdvance ==
  ASSUME OrderInv, NEW e \in Exec, rows[e].state = "open", PlainTyped',
         NEW r \in RowsObject, NEW d \in Seq(Row), OrderedAt(r, d), r.state = "open",
         NEW what \in {"row", "eof", "err"},
         rows' = [rows EXCEPT ![e] = r], delivered' = [delivered EXCEPT ![e] = d],
         ret' = [ret EXCEPT ![e] = what], failed' \in [Exec -> BOOLEAN],
         op' = NoOp, UNCHANGED nExec
  PROVE  OrderInv'
<1> USE DEF OrderInv
<1>1. /\ rows \in [Exec -> RowsObject] /\ delivered \in [Exec -> Seq(Row)]
      /\ ret \in [Exec -> {"none", "row", "eof", "err"}]
  BY DEF TypeOK
<1>2. /\ rows'[e] = r /\ delivered'[e] = d
      /\ \A f \in Exec : f # e => /\ rows'[f] = rows[f] /\ delivered'[f] = delivered[f]
                                  /\ ret'[f] = ret[f]
  BY <1>1
<1>3. /\ rows' \in [Exec -> RowsObject] /\ delivered' \in [Exec -> Seq(Row)]
      /\ ret' \in [Exec -> {"none", "row", "eof", "err"}]
  BY <1>1
<1>4. Ordered'
  BY <1>2 DEF Ordered
<1>5. RowsTyped'
  BY <1>3, <1>4 DEF RowsTyped, Ordered, OrderedAt
<1>6. Started'
  <2>1. op'.kind = "none"
    BY OpFacts
  <2>2. \A f \in Exec : f > nExec' => rows'[f].state = "none"
    BY <1>2 DEF Started
  <2>3. \A f \in Exec : rows'[f].state = "none" => delivered'[f] = <<>> /\ ret'[f] = "none"
    BY <1>2 DEF Started
  <2> QED
    BY <2>1, <2>2, <2>3 DEF Started
<1> QED
  BY <1>4, <1>5, <1>6 DEF TypeOK, PlainTyped, RowsTyped

\* The block of a FETCH, consumed.
Block(k, fc) == ConsumeFetch(Emptied(rows[op.e]), cursor, undec[cursor], k, fc)

\* The block is one of the result that the cursor is on, and follows the rows
\* handed out.
LEMMA FetchedBlock ==
  ASSUME OrderInv, NEW k, NEW fc, FetchReply(k, fc)
  PROVE  /\ op.kind = "fetch" /\ op.e \in Exec /\ cursor \in Exec
         /\ rows[op.e] \in RowsObject /\ rows[op.e].state = "open"
         /\ Emptied(rows[op.e]) \in RowsObject
         /\ Consumed(Block(k, fc), Emptied(rows[op.e]), cursor, total[cursor], undec[cursor], k)
         /\ OrderedAt(Block(k, fc), delivered[op.e])
         /\ delivered[op.e] \in Seq(Row)
<1> USE DEF OrderInv
<1> DEFINE e == op.e
           r == Emptied(rows[e])
<1>1. /\ op.kind = "fetch" /\ cursor # 0
      /\ k \in BlockSizes(total[cursor], r.nextIndex, FetchSize)
      /\ fc \in CompletedFlags(total[cursor], r.nextIndex, k)
  BY DEF FetchReply
<1>2. e \in Exec /\ rows[e].state = "open" /\ cursor \in Exec
  <2>1. TypeOK /\ Started  OBVIOUS
  <2>2. cursor \in 0 .. MaxExec /\ MaxExec \in Nat  BY <2>1, RowsConstants DEF TypeOK
  <2>3. cursor \in Exec  BY <1>1, <2>2 DEF Exec
  <2>4. op.e \in Exec  BY <1>1, <2>1, OpFacts
  <2>5. rows[op.e].state = "open"  BY <1>1, <2>1 DEF Started
  <2> QED  BY <2>3, <2>4, <2>5
<1>3. /\ rows[e] \in RowsObject /\ delivered[e] \in Seq(Row) /\ v5 \in BOOLEAN
      /\ total[cursor] \in 0 .. MaxRows /\ undec[cursor] \in SUBSET (1 .. MaxRows)
  BY <1>2 DEF TypeOK
<1>4. /\ r \in RowsObject /\ r.tuples = <<>> /\ r.pos = 0 /\ r.nextIndex = rows[e].nextIndex
  BY <1>3, EmptiedFacts
<1>5. OrderedAt(r, delivered[e])
  <2>1. OrderedAt(rows[e], delivered[e])
    BY <1>2 DEF Ordered
  <2> QED
    BY <1>3, <1>4, <2>1 DEF OrderedAt, Increasing
<1> HIDE DEF r
<1>6. Consumed(ConsumeFetch(r, cursor, undec[cursor], k, fc), r, cursor, total[cursor], undec[cursor], k)
  BY <1>1, <1>2, <1>3, <1>4, ConsumeFacts
<1>7. OrderedAt(ConsumeFetch(r, cursor, undec[cursor], k, fc), delivered[e])
  BY <1>3, <1>4, <1>5, <1>6, OrderedConsume
<1> QED
  BY <1>1, <1>2, <1>3, <1>4, <1>6, <1>7 DEF Block, r

\* Deliver hands out the next row of r, which is or replaces rows[e].
LEMMA DeliverOrder ==
  ASSUME OrderInv, NEW e \in Exec, rows[e].state = "open", PlainTyped',
         NEW r \in RowsObject, OrderedAt(r, delivered[e]), r.pos < Len(r.tuples),
         r.state = "open", Deliver(e, r), op' = NoOp, UNCHANGED nExec
  PROVE  OrderInv'
<1> DEFINE c == [r EXCEPT !.pos = @ + 1]
           d == Append(delivered[e], r.tuples[r.pos + 1])
<1>1. delivered[e] \in Seq(Row) /\ delivered \in [Exec -> Seq(Row)] /\ failed \in [Exec -> BOOLEAN]
  BY DEF OrderInv, TypeOK
<1>2. OrderedAt(c, d) /\ c \in RowsObject /\ d \in Seq(Row)
  BY <1>1, OrderedDeliver
<1>3. c.state = "open"
  BY DEF RowsObject
<1>4. /\ rows' = [rows EXCEPT ![e] = c] /\ delivered' = [delivered EXCEPT ![e] = d]
      /\ ret' = [ret EXCEPT ![e] = "row"] /\ failed' = failed
  BY <1>1 DEF Deliver, Returns
<1> HIDE DEF c, d
<1> QED
  BY <1>1, <1>2, <1>3, <1>4, RowsAdvance

LEMMA FetchReplyOrder ==
  ASSUME OrderInv, NEW k, NEW fc, FetchReply(k, fc)
  PROVE  OrderInv'
<1> DEFINE e == op.e
           r == Block(k, fc)
           undecodable == Undecodable(Emptied(rows[e]), undec[cursor], k) # {}
<1>1. /\ e \in Exec /\ rows[e].state = "open" /\ r \in RowsObject /\ OrderedAt(r, delivered[e])
      /\ r.state = "open" /\ delivered[e] \in Seq(Row)
  BY FetchedBlock, EmptiedFacts DEF Consumed
<1>2. op' = NoOp /\ UNCHANGED nExec /\ PlainTyped'
  BY DEF FetchReply, PlainTyped, stmtVars, serverVars, OrderInv, TypeOK
<1>3. \/ undecodable /\ rows' = [rows EXCEPT ![e] = r] /\ ReturnsError(e) /\ UNCHANGED delivered
      \/ ~undecodable /\ r.pos < Len(r.tuples) /\ Deliver(e, r)
      \/ /\ ~undecodable /\ r.pos >= Len(r.tuples) /\ rows' = [rows EXCEPT ![e] = r]
         /\ Returns(e, "eof") /\ UNCHANGED <<delivered, failed>>
  BY DEF FetchReply, Block
<1> HIDE DEF e, r, undecodable
<1>4. delivered = [delivered EXCEPT ![e] = delivered[e]] /\ failed \in [Exec -> BOOLEAN]
  BY <1>1 DEF OrderInv, TypeOK
<1>5. CASE rows' = [rows EXCEPT ![e] = r] /\ ReturnsError(e) /\ UNCHANGED delivered
  <2>1. failed' \in [Exec -> BOOLEAN] /\ ret' = [ret EXCEPT ![e] = "err"]
    BY <1>4, <1>5 DEF ReturnsError, Returns
  <2> QED
    BY <1>1, <1>2, <1>4, <1>5, <2>1, RowsAdvance
<1>6. CASE r.pos < Len(r.tuples) /\ Deliver(e, r)
  BY <1>1, <1>2, <1>6, DeliverOrder
<1>7. CASE rows' = [rows EXCEPT ![e] = r] /\ Returns(e, "eof") /\ UNCHANGED <<delivered, failed>>
  BY <1>1, <1>2, <1>4, <1>7, RowsAdvance DEF Returns
<1> QED
  BY <1>3, <1>5, <1>6, <1>7

\* The reply to EXECUTE, and to the FETCH of a CALL's value row.
LEMMA ServerExecutesTyped ==
  ASSUME TypeOK, NEW e \in Exec, NEW t \in 0 .. MaxRows, NEW u \in SUBSET (1 .. t),
         ServerExecutes(e, t, u)
  PROVE  /\ total' \in [Exec -> 0 .. MaxRows] /\ undec' \in [Exec -> SUBSET (1 .. MaxRows)]
         /\ cursor' = e /\ e \in 0 .. MaxExec
  BY DEF TypeOK, ServerExecutes, Exec

LEMMA ExecuteReplyPlainOrder ==
  ASSUME OrderInv, NEW t \in 0 .. MaxRows, NEW u \in SUBSET (1 .. t), ExecuteReplyPlain(t, u)
  PROVE  OrderInv'
<1> DEFINE r == [FreshRows EXCEPT !.state = "open", !.fetchedAll = (t = 0)]
<1>1. op.kind = "exec" /\ op.e \in Exec
  BY OpFacts DEF ExecuteReplyPlain, OrderInv
<1>2. PlainTyped'
  BY <1>1, ServerExecutesTyped
  DEF ExecuteReplyPlain, PlainTyped, stmtVars, OrderInv, TypeOK
<1>3. /\ rows' = [rows EXCEPT ![op.e] = r] /\ op' = NoOp
      /\ UNCHANGED <<nExec, delivered, ret, failed>>
  BY DEF ExecuteReplyPlain, stmtVars, callerVars
<1>4. r \in RowsObject /\ OrderedAt(r, <<>>) /\ r.state = "open"
  BY FreshFacts
<1> HIDE DEF r
<1> QED
  BY <1>1, <1>2, <1>3, <1>4, RowsMade

\* A block that starts the result, in a new Rows object.
LEMMA FirstBlock ==
  ASSUME OrderInv, NEW e \in Exec, NEW t \in 0 .. MaxRows, NEW u \in SUBSET (1 .. MaxRows),
         NEW limit \in Nat, NEW k \in BlockSizes(t, 1, limit), NEW fc \in CompletedFlags(t, 1, k),
         NEW r, r = [FreshRows EXCEPT !.state = "open"]
  PROVE  /\ Consumed(ConsumeFetch(r, e, u, k, fc), r, e, t, u, k)
         /\ OrderedAt(ConsumeFetch(r, e, u, k, fc), <<>>)
         /\ r \in RowsObject /\ r.nextIndex = 1 /\ r.pos = 0 /\ r.state = "open" /\ ~r.fetchedAll
<1>1. /\ r \in RowsObject /\ OrderedAt(r, <<>>) /\ r.state = "open" /\ r.pos = 0
      /\ r.nextIndex = 1 /\ ~r.fetchedAll
  BY FreshFacts
<1>2. v5 \in BOOLEAN /\ <<>> \in Seq(Row)
  BY DEF OrderInv, TypeOK
<1>3. Consumed(ConsumeFetch(r, e, u, k, fc), r, e, t, u, k)
  BY <1>1, <1>2, ConsumeFacts
<1> QED
  BY <1>1, <1>2, <1>3, OrderedConsume

LEMMA ExecuteReplyInlineOrder ==
  ASSUME OrderInv, NEW t \in 0 .. MaxRows, NEW u \in SUBSET (1 .. t), NEW k, NEW fc,
         ExecuteReplyInline(t, u, k, fc)
  PROVE  OrderInv'
<1> DEFINE r == [FreshRows EXCEPT !.state = "open"]
           c == ConsumeFetch(r, op.e, u, k, fc)
<1>1. op.kind = "exec" /\ op.e \in Exec
  BY OpFacts DEF ExecuteReplyInline, OrderInv
<1>2. PlainTyped'
  BY <1>1, ServerExecutesTyped
  DEF ExecuteReplyInline, PlainTyped, stmtVars, OrderInv, TypeOK
<1>3. /\ rows' = [rows EXCEPT ![op.e] = c] \/ rows' = rows
      /\ op' = NoOp /\ UNCHANGED <<nExec, delivered, ret, failed>>
      /\ k \in BlockSizes(t, 1, t) /\ fc \in CompletedFlags(t, 1, k)
  BY DEF ExecuteReplyInline, stmtVars, callerVars
<1>4. t \in Nat /\ u \in SUBSET (1 .. MaxRows)
  OBVIOUS
<1>5. c \in RowsObject /\ OrderedAt(c, <<>>) /\ c.state = "open"
  <2> HIDE DEF c
  <2>1. r = [FreshRows EXCEPT !.state = "open"] /\ c = ConsumeFetch(r, op.e, u, k, fc)
    BY DEF c
  <2> HIDE DEF r
  <2>2. /\ Consumed(c, r, op.e, t, u, k) /\ OrderedAt(c, <<>>) /\ r.state = "open"
    BY <1>1, <1>3, <1>4, <2>1, FirstBlock
  <2> QED
    BY <2>2 DEF Consumed
<1> HIDE DEF c
<1>6. CASE rows' = [rows EXCEPT ![op.e] = c]
  BY <1>1, <1>2, <1>3, <1>5, <1>6, RowsMade
<1>7. CASE rows' = rows
  BY <1>2, <1>3, <1>7, RowsKept DEF OrderInv, TypeOK
<1> QED
  BY <1>3, <1>6, <1>7

LEMMA ExecuteReplyNoRowsOrder ==
  ASSUME OrderInv, ExecuteReplyNoRows
  PROVE  OrderInv'
<1> DEFINE r == [FreshRows EXCEPT !.state = "open", !.fetchedAll = TRUE]
<1>1. op.kind = "exec" /\ op.e \in Exec
  BY OpFacts DEF ExecuteReplyNoRows, OrderInv
<1>2. PlainTyped'
  <2>1. /\ total' \in [Exec -> 0 .. MaxRows] /\ undec' \in [Exec -> SUBSET (1 .. MaxRows)]
        /\ cursor' \in 0 .. MaxExec
    BY <1>1 DEF ExecuteReplyNoRows, ServerExecutes, OrderInv, TypeOK, Exec
  <2> QED
    BY <2>1 DEF ExecuteReplyNoRows, PlainTyped, stmtVars, OrderInv, TypeOK
<1>3. /\ rows' = [rows EXCEPT ![op.e] = r] /\ op' = NoOp
      /\ UNCHANGED <<nExec, delivered, ret, failed>>
  BY DEF ExecuteReplyNoRows, stmtVars, callerVars
<1>4. r \in RowsObject /\ OrderedAt(r, <<>>) /\ r.state = "open"
  BY FreshFacts
<1> HIDE DEF r
<1> QED
  BY <1>1, <1>2, <1>3, <1>4, RowsMade

LEMMA ExecuteReplyCallOrder ==
  ASSUME OrderInv, NEW u \in SUBSET {1}, ExecuteReplyCall(u)
  PROVE  OrderInv'
<1>1. op.kind = "exec" /\ op \in [kind : {"exec", "callfetch", "fetch"}, e : Exec]
  BY OpFacts DEF ExecuteReplyCall, OrderInv
<1>2. 1 \in 0 .. MaxRows /\ u \in SUBSET (1 .. 1)
  OBVIOUS
<1>3. PlainTyped'
  <2>1. op' \in [kind : {"exec", "callfetch", "fetch"}, e : Exec]
    BY <1>1 DEF ExecuteReplyCall
  <2>2. /\ total' \in [Exec -> 0 .. MaxRows] /\ undec' \in [Exec -> SUBSET (1 .. MaxRows)]
        /\ cursor' \in 0 .. MaxExec
    BY <1>1, <1>2 DEF ExecuteReplyCall, ServerExecutes, OrderInv, TypeOK, Exec
  <2> QED
    BY <2>1, <2>2 DEF ExecuteReplyCall, PlainTyped, stmtVars, OrderInv, TypeOK
<1> QED
  BY <1>1, <1>3, RowsKept, SMTT(20) DEF ExecuteReplyCall, stmtVars, callerVars, OrderInv, TypeOK

LEMMA CallFetchReplyOrder ==
  ASSUME OrderInv, NEW k, NEW fc, CallFetchReply(k, fc)
  PROVE  OrderInv'
<1> DEFINE e == op.e
           new == [FreshRows EXCEPT !.state = "open"]
           r == ConsumeFetch(new, e, undec[e], k, fc)
           c == [r EXCEPT !.fetchedAll = @ \/ r.nextIndex > total[e]]
<1>1. /\ op.kind = "callfetch" /\ e \in Exec
      /\ total[e] \in 0 .. MaxRows /\ undec[e] \in SUBSET (1 .. MaxRows)
  BY OpFacts DEF CallFetchReply, OrderInv, TypeOK
<1>2. /\ k \in BlockSizes(total[e], 1, FetchSize) /\ fc \in CompletedFlags(total[e], 1, k)
      /\ op' = NoOp
      /\ UNCHANGED <<v5, cmd, bad, stmtClosed, nExec, qctx, total, undec, cursor>>
      /\ UNCHANGED <<delivered, ret, failed>>
  BY DEF CallFetchReply, serverVars, callerVars
<1>3. \/ /\ rows' = [rows EXCEPT ![e] = c]
         /\ outRow' = IF r.tuples # <<>> THEN r.tuples[1] ELSE NoRow
      \/ UNCHANGED <<rows, outRow>>
  BY DEF CallFetchReply
<1>4. Consumed(r, new, e, total[e], undec[e], k) /\ OrderedAt(r, <<>>) /\ new.state = "open"
  <2> HIDE DEF r
  <2>1. new = [FreshRows EXCEPT !.state = "open"] /\ r = ConsumeFetch(new, e, undec[e], k, fc)
    BY DEF r
  <2> HIDE DEF new, e
  <2> QED
    BY <1>1, <1>2, <2>1, FirstBlock
<1> HIDE DEF new, r, e
<1>5. r \in RowsObject /\ r.state = "open"
  BY <1>4 DEF Consumed
<1>6. /\ c \in RowsObject /\ c.state = "open"
      /\ c.tuples = r.tuples /\ c.pos = r.pos /\ c.nextIndex = r.nextIndex
  BY <1>5 DEF RowsObject
<1> HIDE DEF c
<1>7. OrderedAt(c, <<>>)
  BY <1>4, <1>6 DEF OrderedAt
<1>8. PlainTyped'
  <2>1. r.tuples # <<>> => r.tuples[1] \in Row
    BY <1>5 DEF RowsObject
  <2>2. outRow' \in Row \union {NoRow}
    BY <1>3, <2>1 DEF OrderInv, TypeOK
  <2> QED
    BY <1>2, <2>2 DEF PlainTyped, OrderInv, TypeOK
<1>9. CASE rows' = [rows EXCEPT ![e] = c]
  <2>1. rows' = [rows EXCEPT ![op.e] = c]
    BY <1>9 DEF e
  <2> QED
    BY <1>1, <1>2, <1>6, <1>7, <1>8, <2>1, RowsMade
<1>10. CASE UNCHANGED <<rows, outRow>>
  BY <1>2, <1>8, <1>10, RowsKept DEF OrderInv, TypeOK
<1> QED
  BY <1>3, <1>9, <1>10

LEMMA RowsCloseOrder ==
  ASSUME OrderInv, NEW e \in Exec, RowsClose(e)
  PROVE  OrderInv'
<1> USE DEF OrderInv
<1>1. /\ op = NoOp /\ rows[e].state = "open" /\ rows' = [rows EXCEPT ![e].state = "closed"]
      /\ UNCHANGED <<op, nExec, delivered, ret, failed>>
  BY DEF RowsClose, stmtVars, callerVars
<1>2. rows \in [Exec -> RowsObject] /\ rows[e] \in RowsObject
  BY DEF TypeOK
<1> DEFINE c == [rows[e] EXCEPT !.state = "closed"]
<1>3. /\ c \in RowsObject /\ c.state = "closed" /\ c.tuples = rows[e].tuples
      /\ c.pos = rows[e].pos /\ c.nextIndex = rows[e].nextIndex
  BY <1>2 DEF RowsObject
<1>4. rows' = [rows EXCEPT ![e] = c]
  BY <1>1, <1>2
<1> HIDE DEF c
<1>5. rows' \in [Exec -> RowsObject] /\ rows'[e] = c
  BY <1>2, <1>3, <1>4
<1>6. \A f \in Exec : f # e => rows'[f] = rows[f]
  BY <1>2, <1>4
<1>7. Ordered'
  BY <1>1, <1>3, <1>5, <1>6, SMTT(20) DEF Ordered, OrderedAt
<1>8. RowsTyped'
  BY <1>1, <1>5, <1>7 DEF TypeOK, RowsTyped, Ordered, OrderedAt
<1>9. Started'
  <2>1. op'.kind = "none"
    BY <1>1, OpFacts
  <2>2. \A f \in Exec : f > nExec' => rows'[f].state = "none"
    BY <1>1, <1>6 DEF Started
  <2>3. \A f \in Exec : rows'[f].state = "none" => delivered'[f] = <<>> /\ ret'[f] = "none"
    BY <1>1, <1>3, <1>5, <1>6 DEF Started
  <2> QED
    BY <2>1, <2>2, <2>3 DEF Started
<1>10. PlainTyped'
  BY DEF RowsClose, PlainTyped, TypeOK, stmtVars, serverVars
<1> QED
  BY <1>7, <1>8, <1>9, <1>10 DEF TypeOK, PlainTyped, RowsTyped

LEMMA NextBufferedOrder ==
  ASSUME OrderInv, NEW e \in Exec, NextBuffered(e)
  PROVE  OrderInv'
<1>1. /\ op = NoOp /\ rows[e].state = "open" /\ rows[e].pos < Len(rows[e].tuples)
      /\ Deliver(e, rows[e]) /\ UNCHANGED <<op, nExec>>
  BY DEF NextBuffered, CanNext, stmtVars
<1>2. PlainTyped'
  BY DEF NextBuffered, PlainTyped, OrderInv, TypeOK, stmtVars, serverVars
<1>3. rows[e] \in RowsObject /\ OrderedAt(rows[e], delivered[e])
  BY DEF OrderInv, TypeOK, Ordered
<1> QED
  BY <1>1, <1>2, <1>3, DeliverOrder

LEMMA FailedTyped ==
  ASSUME OrderInv, NEW e \in Exec, ReturnsError(e)
  PROVE  failed' \in [Exec -> BOOLEAN] /\ ret' = [ret EXCEPT ![e] = "err"]
  BY DEF OrderInv, TypeOK, ReturnsError, Returns

\* The steps that leave every Rows object as it is.
LEMMA KeepingSteps ==
  ASSUME OrderInv,
         \/ ExecuteSend \/ ExecuteUnsent \/ ExecuteServerError \/ ExecuteFails \/ StmtClose
         \/ (\E e \in Exec : NextEOF(e)) \/ (\E e \in Exec : NextBadConn(e))
         \/ (\E e \in Exec : NextFetchSend(e)) \/ FetchServerError \/ FetchFails
         \/ TransactionEnds \/ (\E e \in Exec : CtxDone(e)) \/ UNCHANGED vars
  PROVE  OrderInv'
<1> USE DEF stmtVars, serverVars, callerVars
<1>0. nExec \in 0 .. MaxExec /\ PlainTyped
  BY TypeParts DEF OrderInv, PlainTyped
<1>1. CASE ExecuteSend
  <2>1. PlainTyped'
    BY <1>0, <1>1 DEF ExecuteSend, PlainTyped, Exec
  <2> QED
    BY <1>0, <1>1, <2>1, RowsKept DEF ExecuteSend
<1>2. CASE ExecuteUnsent
  <2>1. PlainTyped'
    BY <1>0, <1>2 DEF ExecuteUnsent, PlainTyped
  <2> QED
    BY <1>0, <1>2, <2>1, RowsKept DEF ExecuteUnsent
<1>3. CASE ExecuteServerError
  <2>1. PlainTyped'
    BY <1>0, <1>3 DEF ExecuteServerError, PlainTyped
  <2> QED
    BY <1>0, <1>3, <2>1, RowsKept DEF ExecuteServerError
<1>4. CASE ExecuteFails
  <2>1. PlainTyped'
    BY <1>0, <1>4 DEF ExecuteFails, PlainTyped
  <2> QED
    BY <1>0, <1>4, <2>1, RowsKept DEF ExecuteFails
<1>5. CASE StmtClose
  <2>1. PlainTyped'
    <3>1. bad' \in BOOLEAN
      BY <1>0, <1>5 DEF StmtClose, PlainTyped
    <3>2. cursor' \in {0, cursor}
      BY <1>5 DEF StmtClose
    <3> QED
      BY <1>0, <1>5, <3>1, <3>2 DEF StmtClose, PlainTyped
  <2> QED
    BY <1>0, <1>5, <2>1, RowsKept DEF StmtClose
<1>6. ASSUME NEW e \in Exec, NextEOF(e) PROVE OrderInv'
  <2>1. PlainTyped'
    BY <1>0, <1>6 DEF NextEOF, PlainTyped
  <2>2. failed' \in [Exec -> BOOLEAN]
    BY <1>6 DEF NextEOF, OrderInv, TypeOK
  <2>3. rows[e].state = "open" /\ ret' = [ret EXCEPT ![e] = "eof"]
    BY <1>6 DEF NextEOF, CanNext, Returns
  <2>4. UNCHANGED <<rows, delivered, nExec, op>>
    BY <1>6 DEF NextEOF
  <2>5. \E f \in Exec, what \in {"eof", "err"} :
          /\ rows[f].state = "open" /\ ret' = [ret EXCEPT ![f] = what]
          /\ failed' \in [Exec -> BOOLEAN]
    BY <2>2, <2>3
  <2>6. nExec <= nExec' /\ op' = op
    BY <1>0, <2>4
  <2> QED
    BY <2>1, <2>4, <2>5, <2>6, RowsKept
<1>7. ASSUME NEW e \in Exec, NextBadConn(e) PROVE OrderInv'
  <2>1. PlainTyped'
    BY <1>0, <1>7 DEF NextBadConn, PlainTyped
  <2> QED
    BY <1>0, <1>7, <2>1, FailedTyped, RowsKept DEF NextBadConn, NeedsFetch, CanNext
<1>8. ASSUME NEW e \in Exec, NextFetchSend(e) PROVE OrderInv'
  <2>1. PlainTyped'
    BY <1>0, <1>8 DEF NextFetchSend, PlainTyped
  <2> QED
    BY <1>0, <1>8, <2>1, RowsKept DEF NextFetchSend
<1>9. CASE FetchServerError \/ FetchFails
  <2>1. PlainTyped'
    BY <1>0, <1>9 DEF FetchServerError, FetchFails, PlainTyped
  <2>2. op.e \in Exec /\ rows[op.e].state = "open" /\ ReturnsError(op.e)
    BY <1>9, OpFacts DEF FetchServerError, FetchFails, OrderInv, Started
  <2> QED
    BY <1>0, <1>9, <2>1, <2>2, FailedTyped, RowsKept DEF FetchServerError, FetchFails
<1>10. CASE TransactionEnds
  <2>1. PlainTyped'
    BY <1>0, <1>10 DEF TransactionEnds, PlainTyped
  <2> QED
    BY <1>0, <1>10, <2>1, RowsKept DEF TransactionEnds
<1>11. ASSUME NEW e \in Exec, CtxDone(e) PROVE OrderInv'
  <2>1. PlainTyped'
    BY <1>0, <1>11 DEF CtxDone, PlainTyped
  <2> QED
    BY <1>0, <1>11, <2>1, RowsKept DEF CtxDone
<1>12. CASE UNCHANGED vars
  <2>1. PlainTyped'
    BY <1>0, <1>12 DEF vars, PlainTyped
  <2> QED
    BY <1>0, <1>12, <2>1, RowsKept DEF vars
<1> QED
  BY <1>1, <1>2, <1>3, <1>4, <1>5, <1>6, <1>7, <1>8, <1>9, <1>10, <1>11, <1>12

LEMMA InitOrder == Init => OrderInv
<1> SUFFICES ASSUME Init PROVE OrderInv
  OBVIOUS
<1>1. \A e \in Exec : rows[e] = FreshRows /\ delivered[e] = <<>> /\ ret[e] = "none"
  BY DEF Init
<1>2. PlainTyped
  <2>1. v5 \in BOOLEAN /\ bad \in BOOLEAN /\ stmtClosed \in BOOLEAN
    BY DEF Init
  <2>2. qctx \in [Exec -> {"live", "done"}] /\ total \in [Exec -> 0 .. MaxRows]
    BY DEF Init
  <2>3. undec \in [Exec -> SUBSET (1 .. MaxRows)]
    BY DEF Init
  <2> QED
    BY <2>1, <2>2, <2>3 DEF Init, PlainTyped
<1>3. RowsTyped
  <2>1. rows \in [Exec -> RowsObject] /\ delivered \in [Exec -> Seq(Row)]
    BY FreshTyped DEF Init
  <2>2. \A e \in Exec : rows[e].pos <= Len(rows[e].tuples)
    BY <1>1, FreshTyped
  <2>3. ret \in [Exec -> {"none", "row", "eof", "err"}] /\ failed \in [Exec -> BOOLEAN]
    BY DEF Init
  <2> QED
    BY <2>1, <2>2, <2>3 DEF RowsTyped
<1>4. Started
  BY <1>1, FreshTyped DEF Init, Started, NoOp
<1>5. OrderedAt(FreshRows, <<>>)
  BY FreshTyped DEF OrderedAt, Increasing
<1>6. Ordered
  BY <1>1, <1>5 DEF Ordered
<1> QED
  BY <1>2, <1>3, <1>4, <1>6, TypeParts DEF OrderInv

\* Every step, of a caller, of the server or of the network, keeps the order.
LEMMA OrderStep == OrderInv /\ [Next]_vars => OrderInv'
<1> SUFFICES ASSUME OrderInv, [Next]_vars PROVE OrderInv'
  OBVIOUS
<1>1. ASSUME NEW t \in RowsLeft, NEW u \in SUBSET (1 .. t), ExecuteReplyPlain(t, u)
      PROVE  OrderInv'
  BY <1>1, ExecuteReplyPlainOrder DEF RowsLeft
<1>2. ASSUME NEW t \in RowsLeft, NEW u \in SUBSET (1 .. t), NEW k \in 1 .. t,
             NEW fc \in BOOLEAN, ExecuteReplyInline(t, u, k, fc)
      PROVE  OrderInv'
  BY <1>2, ExecuteReplyInlineOrder DEF RowsLeft
<1>3. CASE ExecuteReplyNoRows
  BY <1>3, ExecuteReplyNoRowsOrder
<1>4. ASSUME NEW u \in SUBSET {1}, ExecuteReplyCall(u) PROVE OrderInv'
  BY <1>4, ExecuteReplyCallOrder
<1>5. ASSUME NEW k \in 0 .. MaxRows, NEW fc \in BOOLEAN, CallFetchReply(k, fc) PROVE OrderInv'
  BY <1>5, CallFetchReplyOrder
<1>6. ASSUME NEW e \in Exec, NextBuffered(e) PROVE OrderInv'
  BY <1>6, NextBufferedOrder
<1>7. CASE FetchAnswered
  BY <1>7, FetchReplyOrder DEF FetchAnswered
<1>8. ASSUME NEW e \in Exec, RowsClose(e) PROVE OrderInv'
  BY <1>8, RowsCloseOrder
<1> QED
  BY <1>1, <1>2, <1>3, <1>4, <1>5, <1>6, <1>7, <1>8, KeepingSteps DEF Next

\* The state of a statement and its Rows stays within its types; in particular the
\* read position never passes the buffer's end, whatever errors came between two
\* blocks (Rows.Next).
THEOREM RowsAreTyped == Spec => []TypeOK
<1>1. OrderInv => TypeOK
  BY DEF OrderInv
<1> QED
  BY <1>1, InitOrder, OrderStep, PTL DEF Spec

\* Rows are handed out in cursor order and none twice, for every fetch size, any
\* number of rows, shared statements or not, and whatever errors Next returned in
\* between (Rows.Next, Rows.consumeFetch).
THEOREM RowsInOrder == Spec => []InOrder
<1>1. OrderInv => InOrder
  BY DEF OrderInv, Ordered, OrderedAt, Increasing, InOrder
<1> QED
  BY <1>1, InitOrder, OrderStep, PTL DEF Spec

-----------------------------------------------------------------------------
(* CompleteInv is inductive when the statement is not shared               *)

\* A block of the own result enters the account row by row.
LEMMA AccountedConsume ==
  ASSUME NEW e \in Exec, NEW r \in RowsObject, NEW d, NEW t \in 0 .. MaxRows,
         NEW u \in SUBSET (1 .. MaxRows), NEW f, NEW h, NEW k, NEW c,
         AccountedAt(e, r, d, t, u, f), r.tuples = <<>>, r.pos = 0,
         Consumed(c, r, e, t, u, k),
         f = TRUE => h = TRUE, Undecodable(r, u, k) # {} => h = TRUE
  PROVE  AccountedAt(e, c, d, t, u, h)
<1> DEFINE g == Good(r, u, k)
           n == r.nextIndex
<1>1. /\ n \in Nat \ {0} /\ n <= t + 1 /\ k \in Nat /\ g \in 0 .. k
      /\ c.pos = 0 /\ Len(c.tuples) = g /\ c.nextIndex \in Nat
      /\ \A i \in 1 .. g : c.tuples[i] = <<e, n + i - 1>>
  <2>1. n \in Nat \ {0} /\ n <= t + 1
    BY DEF AccountedAt, RowsObject
  <2>2. /\ k \in Nat /\ g \in 0 .. k /\ c.pos = 0 /\ Len(c.tuples) = g
        /\ c \in RowsObject /\ \A i \in 1 .. g : c.tuples[i] = <<e, n + i - 1>>
    BY DEF Consumed
  <2>3. c.nextIndex \in Nat
    BY <2>2 DEF RowsObject
  <2> QED
    BY <2>1, <2>2, <2>3
<1>2. /\ \A i \in n .. n + g - 1 : i \notin u
      /\ Undecodable(r, u, k) = {} => g = k /\ c.nextIndex = n + g
      /\ Undecodable(r, u, k) # {} => g < k /\ n + g \in u /\ c.nextIndex = n + g + 1
  BY <1>1, GoodFacts, SMTT(20) DEF Consumed
<1>3. Handed(d) = {<<e, i>> : i \in (1 .. n - 1) \ u}
  <2>1. Buffered(r) = {}
    BY DEF Buffered
  <2> QED
    BY <2>1 DEF AccountedAt, Seen
<1>4. Buffered(c) = {<<e, i>> : i \in n .. n + g - 1}
  <2> HIDE DEF g, n
  <2>1. Buffered(c) = {c.tuples[i] : i \in 1 .. g}
    BY <1>1 DEF Buffered
  <2>2. ASSUME NEW i \in 1 .. g
        PROVE  c.tuples[i] \in {<<e, j>> : j \in n .. n + g - 1}
    <3>1. n + i - 1 \in n .. n + g - 1
      BY <1>1
    <3> QED
      BY <1>1, <3>1
  <2>3. ASSUME NEW j \in n .. n + g - 1
        PROVE  <<e, j>> \in {c.tuples[i] : i \in 1 .. g}
    <3>1. j - n + 1 \in 1 .. g /\ n + (j - n + 1) - 1 = j
      BY <1>1
    <3>2. c.tuples[j - n + 1] = <<e, j>>
      BY <1>1, <3>1
    <3> QED
      BY <3>1, <3>2
  <2> QED
    BY <2>1, <2>2, <2>3
<1>5. Seen(c) \ u = ((1 .. n - 1) \ u) \cup (n .. n + g - 1)
  <2> HIDE DEF g, n
  <2>1. CASE Undecodable(r, u, k) = {}
    BY <1>1, <1>2, <2>1 DEF Seen
  <2>2. CASE Undecodable(r, u, k) # {}
    <3>1. Seen(c) = 1 .. n + g
      BY <1>1, <1>2, <2>2 DEF Seen
    <3>2. n \in Nat \ {0} /\ g \in Nat
      BY <1>1
    <3>3. 1 .. n + g = (1 .. n - 1) \cup (n .. n + g - 1) \cup {n + g}
      BY <3>2
    <3> QED
      BY <1>2, <2>2, <3>1, <3>3
  <2> QED
    BY <2>1, <2>2
<1>6. Handed(d) \cup Buffered(c) = {<<e, i>> : i \in Seen(c) \ u}
  <2> HIDE DEF g, n
  <2> QED
    BY <1>3, <1>4, <1>5
<1>7. u \cap Seen(c) # {} => h = TRUE
  <2>1. CASE Undecodable(r, u, k) # {}
    BY <2>1
  <2>2. CASE Undecodable(r, u, k) = {}
    <3> HIDE DEF g, n
    <3>1. u \cap Seen(c) = u \cap (1 .. n - 1)
      BY <1>1, <1>2, <2>2 DEF Seen
    <3>2. u \cap (1 .. n - 1) # {} => f = TRUE
      BY DEF AccountedAt, Seen, n
    <3> QED
      BY <3>1, <3>2
  <2> QED
    BY <2>1, <2>2
<1>8. c.nextIndex <= t + 1
  BY <1>1 DEF Consumed
<1>9. c.fetchedAll => c.nextIndex = t + 1
  <2>1. CASE r.fetchedAll
    <3>1. n = t + 1
      BY <2>1 DEF AccountedAt
    <3>2. n <= c.nextIndex
      BY <1>1, <1>2
    <3> QED
      BY <1>1, <1>8, <3>1, <3>2
  <2>2. CASE Undecodable(r, u, k) = {} /\ n + k > t
    BY <1>1, <1>2, <1>8, <2>2
  <2> QED
    BY <2>1, <2>2 DEF Consumed
<1> QED
  BY <1>6, <1>7, <1>8, <1>9 DEF AccountedAt

\* A row moves from the buffer to the rows handed out.
LEMMA AccountedDeliver ==
  ASSUME NEW e \in Exec, NEW r \in RowsObject, NEW d \in Seq(Row), NEW t, NEW u, NEW f,
         AccountedAt(e, r, d, t, u, f), r.pos < Len(r.tuples)
  PROVE  AccountedAt(e, [r EXCEPT !.pos = @ + 1], Append(d, r.tuples[r.pos + 1]), t, u, f)
<1> DEFINE c == [r EXCEPT !.pos = @ + 1]
           row == r.tuples[r.pos + 1]
           a == Append(d, row)
<1>1. /\ c.pos = r.pos + 1 /\ c.tuples = r.tuples /\ c.nextIndex = r.nextIndex
      /\ c.fetchedAll = r.fetchedAll /\ r.pos \in Nat /\ Len(r.tuples) \in Nat /\ row \in Row
  BY DEF RowsObject
<1> HIDE DEF c, row
<1>2. /\ Len(a) = Len(d) + 1 /\ a[Len(d) + 1] = row
      /\ \A i \in 1 .. Len(d) : a[i] = d[i]
  BY <1>1
<1> HIDE DEF a
<1>3. Handed(a) = Handed(d) \cup {row}
  <2>1. 1 .. Len(a) = (1 .. Len(d)) \cup {Len(d) + 1}
    BY <1>2
  <2> QED
    BY <1>2, <2>1 DEF Handed
<1>4. Buffered(r) = Buffered(c) \cup {row}
  <2>1. r.pos + 1 .. Len(r.tuples) = {r.pos + 1} \cup (c.pos + 1 .. Len(c.tuples))
    BY <1>1
  <2> QED
    BY <1>1, <2>1 DEF Buffered, row
<1>5. Seen(c) = Seen(r)
  BY <1>1 DEF Seen
<1>6. AccountedAt(e, c, a, t, u, f)
  BY <1>1, <1>3, <1>4, <1>5 DEF AccountedAt
<1> QED
  BY <1>6 DEF c, a, row

\* A new Rows object has everything ahead of it.
LEMMA AccountedFresh ==
  ASSUME NEW e \in Exec, NEW r, r.tuples = <<>>, r.pos = 0, r.nextIndex = 1,
         NEW t \in Nat, NEW u, NEW f, r.fetchedAll => t = 0
  PROVE  AccountedAt(e, r, <<>>, t, u, f)
<1>1. Handed(<<>>) = {} /\ Buffered(r) = {} /\ Seen(r) = {}
  BY DEF Handed, Buffered, Seen
<1> QED
  BY <1>1 DEF AccountedAt

\* A step that leaves the Rows objects alone: it may execute the statement when
\* none is open, and Next may return an error, or EOF when all has been handed out.
LEMMA AccountKept ==
  ASSUME CompleteInv, OrderInv', UNCHANGED <<rows, delivered>>, UndecInResult',
         \A e \in Exec : rows[e].state # "none" => total'[e] = total[e] /\ undec'[e] = undec[e],
         cursor' \in {0, cursor} \/ \A e \in Exec : rows[e].state # "open",
         op'.kind \in {"exec", "callfetch"} => \A e \in Exec : rows[e].state # "open",
         \A e \in Exec : failed[e] = TRUE => failed'[e] = TRUE,
         \A e \in Exec : ret'[e] = "eof" =>
           \/ ret[e] = "eof"
           \/ /\ rows[e].state = "open" /\ rows[e].pos >= Len(rows[e].tuples)
              /\ rows[e].fetchedAll
  PROVE  CompleteInv'
<1> USE DEF CompleteInv
<1>1. OneCursor'
  BY DEF OneCursor
<1>2. Accounted'
  <2> SUFFICES ASSUME NEW e \in Exec, rows[e].state # "none"
               PROVE  AccountedAt(e, rows[e], delivered[e], total[e], undec[e], failed'[e])
    BY DEF Accounted
  <2>1. AccountedAt(e, rows[e], delivered[e], total[e], undec[e], failed[e])
    BY DEF Accounted
  <2> QED
    BY <2>1 DEF AccountedAt
<1>3. AtEOF'
  <2> SUFFICES ASSUME NEW e \in Exec, ret'[e] = "eof"
               PROVE  /\ rows[e].pos >= Len(rows[e].tuples)
                      /\ rows[e].nextIndex = total'[e] + 1
    BY DEF AtEOF
  <2>1. CASE ret[e] = "eof"
    <3>1. rows[e].state # "none"
      BY <2>1 DEF OrderInv, Started
    <3> QED
      BY <2>1, <3>1 DEF AtEOF
  <2>2. CASE /\ rows[e].state = "open" /\ rows[e].pos >= Len(rows[e].tuples)
             /\ rows[e].fetchedAll
    BY <2>2 DEF Accounted, AccountedAt
  <2> QED
    BY <2>1, <2>2
<1> QED
  BY <1>1, <1>2, <1>3

\* A step that puts c in the place of rows[e], a new Rows object or the open one.
LEMMA AccountMoved ==
  ASSUME CompleteInv, OrderInv', UndecInResult', op' = NoOp,
         NEW e \in Exec, NEW c, rows' = [rows EXCEPT ![e] = c], c.state # "none",
         AccountedAt(e, c, delivered'[e], total'[e], undec'[e], failed'[e]),
         rows[e].state = "open" \/ \A f \in Exec : rows[f].state # "open",
         c.state = "open" => cursor' \in {0, e},
         \A f \in Exec : f # e =>
           /\ delivered'[f] = delivered[f] /\ ret'[f] = ret[f] /\ failed'[f] = failed[f]
           /\ total'[f] = total[f] /\ undec'[f] = undec[f],
         ret'[e] = "eof" => c.pos >= Len(c.tuples) /\ c.nextIndex = total'[e] + 1
  PROVE  CompleteInv'
<1> USE DEF CompleteInv
<1>1. rows'[e] = c /\ \A f \in Exec : f # e => rows'[f] = rows[f]
  BY DEF OrderInv, TypeOK
<1>2. \A f \in Exec : rows'[f].state = "open" => f = e
  BY <1>1 DEF OneCursor
<1>3. op'.kind = "none"
  BY DEF NoOp
<1>4. OneCursor'
  BY <1>1, <1>2, <1>3 DEF OneCursor
<1>5. Accounted'
  <2> SUFFICES ASSUME NEW f \in Exec, rows'[f].state # "none"
               PROVE  AccountedAt(f, rows'[f], delivered'[f], total'[f], undec'[f], failed'[f])
    BY DEF Accounted
  <2>1. CASE f = e
    BY <1>1, <2>1
  <2>2. CASE f # e
    BY <1>1, <2>2 DEF Accounted
  <2> QED
    BY <2>1, <2>2
<1>6. AtEOF'
  BY <1>1 DEF AtEOF
<1> QED
  BY <1>4, <1>5, <1>6

\* The server runs the statement of the request: nothing is open, and no Rows object
\* of this execution exists yet.
LEMMA ExecutedFacts ==
  ASSUME CompleteInv, op.kind \in {"exec", "callfetch"}
  PROVE  /\ op.e \in Exec /\ rows[op.e].state = "none" /\ delivered[op.e] = <<>>
         /\ ret[op.e] = "none"
         /\ \A f \in Exec : rows[f].state # "open"
  BY OpFacts DEF CompleteInv, OrderInv, Started, OneCursor

LEMMA ServerExecutesFacts ==
  ASSUME CompleteInv, NEW e \in Exec, NEW t \in 0 .. MaxRows, NEW u \in SUBSET (1 .. t),
         ServerExecutes(e, t, u)
  PROVE  /\ total'[e] = t /\ undec'[e] = u /\ cursor' = e /\ UndecInResult'
         /\ \A f \in Exec : f # e => total'[f] = total[f] /\ undec'[f] = undec[f]
<1>1. /\ total'[e] = t /\ undec'[e] = u /\ cursor' = e
      /\ \A f \in Exec : f # e => total'[f] = total[f] /\ undec'[f] = undec[f]
  BY DEF ServerExecutes, CompleteInv, OrderInv, TypeOK
<1>2. UndecInResult'
  BY <1>1 DEF UndecInResult, CompleteInv
<1> QED
  BY <1>1, <1>2


\* The replies that end an execution.
LEMMA ExecuteReplyPlainComplete ==
  ASSUME CompleteInv, OrderInv', NEW t \in 0 .. MaxRows, NEW u \in SUBSET (1 .. t),
         ExecuteReplyPlain(t, u)
  PROVE  CompleteInv'
<1> DEFINE r == [FreshRows EXCEPT !.state = "open", !.fetchedAll = (t = 0)]
<1>1. op.kind = "exec" /\ ServerExecutes(op.e, t, u) /\ rows' = [rows EXCEPT ![op.e] = r]
      /\ op' = NoOp /\ UNCHANGED <<delivered, ret, failed>>
  BY DEF ExecuteReplyPlain, callerVars
<1>2. /\ op.e \in Exec /\ delivered[op.e] = <<>> /\ ret[op.e] = "none"
      /\ \A f \in Exec : rows[f].state # "open"
  BY <1>1, ExecutedFacts
<1>3. /\ r.state = "open" /\ r.pos = 0 /\ r.nextIndex = 1 /\ r.tuples = <<>>
      /\ (r.fetchedAll <=> t = 0)
  BY FreshFacts
<1> HIDE DEF r
<1>4. AccountedAt(op.e, r, <<>>, t, u, failed[op.e])
  BY <1>2, <1>3, AccountedFresh
<1>5. /\ total'[op.e] = t /\ undec'[op.e] = u /\ cursor' = op.e /\ UndecInResult'
      /\ \A f \in Exec : f # op.e => total'[f] = total[f] /\ undec'[f] = undec[f]
  BY <1>1, <1>2, ServerExecutesFacts
<1> QED
  BY <1>1, <1>2, <1>3, <1>4, <1>5, AccountMoved

LEMMA ExecuteReplyNoRowsComplete ==
  ASSUME CompleteInv, OrderInv', ExecuteReplyNoRows
  PROVE  CompleteInv'
<1> DEFINE r == [FreshRows EXCEPT !.state = "open", !.fetchedAll = TRUE]
<1>1. op.kind = "exec" /\ ServerExecutes(op.e, 0, {}) /\ rows' = [rows EXCEPT ![op.e] = r]
      /\ op' = NoOp /\ UNCHANGED <<delivered, ret, failed>>
  BY DEF ExecuteReplyNoRows, callerVars
<1>2. /\ op.e \in Exec /\ delivered[op.e] = <<>> /\ ret[op.e] = "none"
      /\ \A f \in Exec : rows[f].state # "open"
  BY <1>1, ExecutedFacts
<1>3. r.state = "open" /\ r.pos = 0 /\ r.nextIndex = 1 /\ r.tuples = <<>>
  BY FreshFacts
<1> HIDE DEF r
<1>4. AccountedAt(op.e, r, <<>>, 0, {}, failed[op.e])
  <2>1. 0 \in Nat /\ (r.fetchedAll => 0 = 0)
    OBVIOUS
  <2> QED
    BY <1>2, <1>3, <2>1, AccountedFresh, Zenon
<1>5. 0 \in 0 .. MaxRows /\ {} \in SUBSET (1 .. 0)
  OBVIOUS
<1>6. /\ total'[op.e] = 0 /\ undec'[op.e] = {} /\ cursor' = op.e /\ UndecInResult'
      /\ \A f \in Exec : f # op.e => total'[f] = total[f] /\ undec'[f] = undec[f]
  BY <1>1, <1>2, <1>5, ServerExecutesFacts
<1> QED
  BY <1>1, <1>2, <1>3, <1>4, <1>6, AccountMoved

\* The account of a new Rows object after a first block without an undecodable row.
LEMMA AccountedFirst ==
  ASSUME NEW e \in Exec, NEW t \in 0 .. MaxRows, NEW u \in SUBSET (1 .. MaxRows), NEW k, NEW c,
         NEW r, r = [FreshRows EXCEPT !.state = "open"], Consumed(c, r, e, t, u, k),
         Undecodable(r, u, k) = {}
  PROVE  /\ \A f : AccountedAt(e, c, <<>>, t, u, f)
         /\ c \in RowsObject /\ c.state = "open" /\ c.nextIndex <= t + 1
<1>1. /\ r \in RowsObject /\ r.nextIndex = 1 /\ r.pos = 0
      /\ ~r.fetchedAll /\ r.state = "open" /\ r.tuples = <<>>
  BY FreshFacts
<1>2. ASSUME NEW f PROVE AccountedAt(e, c, <<>>, t, u, f)
  <2>1. t \in Nat
    OBVIOUS
  <2>2. AccountedAt(e, r, <<>>, t, u, f)
    BY <1>1, <2>1, AccountedFresh, Zenon
  <2> QED
    BY <1>1, <2>2, AccountedConsume
<1>3. c \in RowsObject /\ c.state = "open" /\ c.nextIndex <= t + 1
  BY <1>1 DEF Consumed
<1> QED
  BY <1>2, <1>3

LEMMA ExecuteReplyInlineComplete ==
  ASSUME CompleteInv, OrderInv', NEW t \in 0 .. MaxRows, NEW u \in SUBSET (1 .. t),
         NEW k, NEW fc, ExecuteReplyInline(t, u, k, fc)
  PROVE  CompleteInv'
<1> DEFINE r == [FreshRows EXCEPT !.state = "open"]
           c == ConsumeFetch(r, op.e, u, k, fc)
<1>1. /\ op.kind = "exec" /\ ServerExecutes(op.e, t, u)
      /\ op' = NoOp /\ UNCHANGED <<delivered, ret, failed>>
      /\ k \in BlockSizes(t, 1, t) /\ fc \in CompletedFlags(t, 1, k)
  BY DEF ExecuteReplyInline, callerVars
<1>2. /\ op.e \in Exec /\ rows[op.e].state = "none" /\ delivered[op.e] = <<>>
      /\ ret[op.e] = "none" /\ \A f \in Exec : rows[f].state # "open"
  BY <1>1, ExecutedFacts
<1>3. t \in Nat /\ u \in SUBSET (1 .. MaxRows)
  OBVIOUS
<1>4. /\ total'[op.e] = t /\ undec'[op.e] = u /\ cursor' = op.e /\ UndecInResult'
      /\ \A f \in Exec : f # op.e => total'[f] = total[f] /\ undec'[f] = undec[f]
  BY <1>1, <1>2, ServerExecutesFacts
<1>5. CASE Undecodable(r, u, k) = {}
  <2>1. rows' = [rows EXCEPT ![op.e] = c]
    BY <1>5 DEF ExecuteReplyInline
  <2>2. AccountedAt(op.e, c, <<>>, t, u, failed[op.e]) /\ c.state = "open"
    <3> HIDE DEF c
    <3>1. /\ r = [FreshRows EXCEPT !.state = "open"] /\ c = ConsumeFetch(r, op.e, u, k, fc)
          /\ Undecodable(r, u, k) = {}
      BY <1>5 DEF c
    <3>2. failed[op.e] \in BOOLEAN /\ OrderInv
      BY <1>2 DEF CompleteInv, OrderInv, TypeOK
    <3> HIDE DEF r
    <3> QED
      <4>1. op.e \in Exec /\ k \in BlockSizes(t, 1, t) /\ fc \in CompletedFlags(t, 1, k)
        BY <1>1, <1>2
      <4>2. Consumed(c, r, op.e, t, u, k)
        BY <1>3, <3>1, <3>2, <4>1, FirstBlock
      <4> QED
        BY <1>3, <3>1, <4>1, <4>2, AccountedFirst
  <2> HIDE DEF c
  <2> QED
    BY <1>1, <1>2, <1>4, <2>1, <2>2, AccountMoved
<1>6. CASE Undecodable(r, u, k) # {}
  <2>1. rows' = rows
    BY <1>6 DEF ExecuteReplyInline
  <2>2. op'.kind = "none"
    BY <1>1 DEF NoOp
  <2> QED
    BY <1>1, <1>2, <1>4, <2>1, <2>2, AccountKept
<1> QED
  BY <1>5, <1>6

LEMMA ExecuteReplyCallComplete ==
  ASSUME CompleteInv, OrderInv', NEW u \in SUBSET {1}, ExecuteReplyCall(u)
  PROVE  CompleteInv'
<1>1. /\ op.kind = "exec" /\ ServerExecutes(op.e, 1, u)
      /\ UNCHANGED <<rows, delivered, ret, failed>>
  BY DEF ExecuteReplyCall, callerVars
<1>2. /\ op.e \in Exec /\ rows[op.e].state = "none" /\ \A f \in Exec : rows[f].state # "open"
  BY <1>1, ExecutedFacts
<1>3. 1 \in 0 .. MaxRows /\ u \in SUBSET (1 .. 1)
  OBVIOUS
<1>4. /\ UndecInResult'
      /\ \A f \in Exec : f # op.e => total'[f] = total[f] /\ undec'[f] = undec[f]
  BY <1>1, <1>2, <1>3, ServerExecutesFacts
<1> QED
  BY <1>1, <1>2, <1>4, AccountKept

LEMMA CallFetchReplyComplete ==
  ASSUME CompleteInv, OrderInv', NEW k, NEW fc, CallFetchReply(k, fc)
  PROVE  CompleteInv'
<1> DEFINE e == op.e
           new == [FreshRows EXCEPT !.state = "open"]
           r == ConsumeFetch(new, e, undec[e], k, fc)
           c == [r EXCEPT !.fetchedAll = @ \/ r.nextIndex > total[e]]
<1>1. /\ op.kind = "callfetch" /\ cursor = e
      /\ k \in BlockSizes(total[e], 1, FetchSize) /\ fc \in CompletedFlags(total[e], 1, k)
      /\ op' = NoOp /\ UNCHANGED <<total, undec, cursor, delivered, ret, failed>>
  BY DEF CallFetchReply, serverVars, callerVars
<1>2. /\ e \in Exec /\ rows[e].state = "none" /\ delivered[e] = <<>>
      /\ ret[e] = "none" /\ \A f \in Exec : rows[f].state # "open"
  BY <1>1, ExecutedFacts
<1>3. /\ total[e] \in 0 .. MaxRows /\ undec[e] \in SUBSET (1 .. MaxRows)
      /\ failed[e] \in BOOLEAN /\ OrderInv
  BY <1>2 DEF CompleteInv, OrderInv, TypeOK
<1>4. UndecInResult'
  BY <1>1 DEF CompleteInv, UndecInResult
<1>5. CASE Undecodable(new, undec[e], k) = {}
  <2>1. rows' = [rows EXCEPT ![e] = c]
    BY <1>5 DEF CallFetchReply
  <2>2. /\ AccountedAt(e, r, <<>>, total[e], undec[e], failed[e]) /\ r \in RowsObject
        /\ r.state = "open" /\ r.nextIndex <= total[e] + 1
    <3> HIDE DEF r
    <3>1. /\ new = [FreshRows EXCEPT !.state = "open"] /\ r = ConsumeFetch(new, e, undec[e], k, fc)
          /\ Undecodable(new, undec[e], k) = {}
      BY <1>5 DEF r
    <3> HIDE DEF new, e
    <3>2. FetchSize \in Nat
      OBVIOUS
    <3> QED
      <4>1. /\ k \in BlockSizes(total[e], 1, FetchSize)
            /\ fc \in CompletedFlags(total[e], 1, k)
        BY <1>1
      <4>2. Consumed(r, new, e, total[e], undec[e], k)
        <5>1. Consumed(ConsumeFetch(new, e, undec[e], k, fc), new, e, total[e], undec[e], k)
          BY <1>2, <1>3, <3>1, <3>2, <4>1, FirstBlock
        <5> QED
          BY <3>1, <5>1
      <4>3. /\ \A f : AccountedAt(e, r, <<>>, total[e], undec[e], f)
            /\ r \in RowsObject /\ r.state = "open" /\ r.nextIndex <= total[e] + 1
        <5> DEFINE t == total[e]
                   u == undec[e]
        <5>1. t \in 0 .. MaxRows /\ u \in SUBSET (1 .. MaxRows) /\ Consumed(r, new, e, t, u, k)
              /\ Undecodable(new, u, k) = {} /\ e \in Exec
              /\ new = [FreshRows EXCEPT !.state = "open"]
          BY <1>2, <1>3, <3>1, <4>2
        <5> HIDE DEF t, u
        <5>2. /\ \A f : AccountedAt(e, r, <<>>, t, u, f)
              /\ r \in RowsObject /\ r.state = "open" /\ r.nextIndex <= t + 1
          BY <5>1, AccountedFirst
        <5> QED
          BY <5>2 DEF t, u
      <4> QED
        BY <4>3
  <2> HIDE DEF r
  <2>3. /\ c.state = "open" /\ c.tuples = r.tuples /\ c.pos = r.pos
        /\ c.nextIndex = r.nextIndex
        /\ c.fetchedAll => r.fetchedAll \/ r.nextIndex > total[e]
    BY <2>2 DEF RowsObject
  <2>4. AccountedAt(e, c, <<>>, total[e], undec[e], failed[e])
    <3>1. r.nextIndex \in Int /\ total[e] \in Int
      BY <1>3, <2>2 DEF RowsObject
    <3>2. c.fetchedAll => c.nextIndex = total[e] + 1
      BY <2>2, <2>3, <3>1 DEF AccountedAt
    <3>3. Buffered(c) = Buffered(r) /\ Seen(c) = Seen(r)
      BY <2>3 DEF Buffered, Seen
    <3> HIDE DEF c
    <3> QED
      BY <2>2, <2>3, <3>2, <3>3 DEF AccountedAt
  <2> HIDE DEF c
  <2> QED
    BY <1>1, <1>2, <1>4, <2>1, <2>3, <2>4, AccountMoved
<1>6. CASE Undecodable(new, undec[e], k) # {}
  <2>1. rows' = rows
    BY <1>6 DEF CallFetchReply
  <2>2. op'.kind = "none"
    BY <1>1 DEF NoOp
  <2> QED
    BY <1>1, <1>2, <1>4, <2>1, <2>2, AccountKept
<1> QED
  BY <1>5, <1>6

\* Deliver moves a row of r, which is or replaces the open rows[e], to the caller.
LEMMA DeliverComplete ==
  ASSUME CompleteInv, OrderInv', NEW e \in Exec, rows[e].state = "open",
         NEW r \in RowsObject, Deliver(e, r), r.pos < Len(r.tuples), r.state = "open", op' = NoOp,
         AccountedAt(e, r, delivered[e], total[e], undec[e], failed[e]),
         UNCHANGED <<total, undec, cursor>>
  PROVE  CompleteInv'
<1> DEFINE c == [r EXCEPT !.pos = @ + 1]
           d == Append(delivered[e], r.tuples[r.pos + 1])
<1>1. /\ delivered \in [Exec -> Seq(Row)] /\ ret \in [Exec -> {"none", "row", "eof", "err"}]
      /\ cursor \in {0, e}
  BY DEF CompleteInv, OrderInv, TypeOK, OneCursor
<1>2. AccountedAt(e, c, d, total[e], undec[e], failed[e])
  BY <1>1, AccountedDeliver
<1>3. c.state = "open"
  BY DEF RowsObject
<1>4. /\ rows' = [rows EXCEPT ![e] = c] /\ delivered'[e] = d /\ ret'[e] = "row"
      /\ failed' = failed
      /\ \A f \in Exec : f # e => delivered'[f] = delivered[f] /\ ret'[f] = ret[f]
  BY <1>1 DEF Deliver, Returns
<1>5. UndecInResult'
  BY DEF CompleteInv, UndecInResult
<1> HIDE DEF c, d
<1> QED
  BY <1>1, <1>2, <1>3, <1>4, <1>5, AccountMoved


LEMMA NextBufferedComplete ==
  ASSUME CompleteInv, OrderInv', NEW e \in Exec, NextBuffered(e)
  PROVE  CompleteInv'
<1>1. /\ op = NoOp /\ rows[e].state = "open" /\ rows[e].pos < Len(rows[e].tuples)
      /\ Deliver(e, rows[e]) /\ UNCHANGED <<op, total, undec, cursor>>
  BY DEF NextBuffered, CanNext, serverVars
<1>2. /\ rows[e] \in RowsObject
      /\ AccountedAt(e, rows[e], delivered[e], total[e], undec[e], failed[e])
  BY <1>1 DEF CompleteInv, OrderInv, TypeOK, Accounted
<1> QED
  BY <1>1, <1>2, DeliverComplete

LEMMA RowsCloseComplete ==
  ASSUME CompleteInv, OrderInv', NEW e \in Exec, RowsClose(e)
  PROVE  CompleteInv'
<1>1. /\ op = NoOp /\ rows[e].state = "open" /\ rows' = [rows EXCEPT ![e].state = "closed"]
      /\ UNCHANGED <<op, total, undec, cursor, delivered, ret, failed>>
  BY DEF RowsClose, serverVars, callerVars
<1>2. /\ rows \in [Exec -> RowsObject] /\ rows[e] \in RowsObject
      /\ AccountedAt(e, rows[e], delivered[e], total[e], undec[e], failed[e])
  BY <1>1 DEF CompleteInv, OrderInv, TypeOK, Accounted
<1> DEFINE c == [rows[e] EXCEPT !.state = "closed"]
<1>3. /\ c.state = "closed" /\ c.tuples = rows[e].tuples /\ c.pos = rows[e].pos
      /\ c.nextIndex = rows[e].nextIndex /\ c.fetchedAll = rows[e].fetchedAll
  BY <1>2 DEF RowsObject
<1>4. rows' = [rows EXCEPT ![e] = c]
  BY <1>1, <1>2
<1> HIDE DEF c
<1>5. AccountedAt(e, c, delivered[e], total[e], undec[e], failed[e])
  BY <1>2, <1>3 DEF AccountedAt, Buffered, Seen
<1>6. ret[e] = "eof" => c.pos >= Len(c.tuples) /\ c.nextIndex = total[e] + 1
  BY <1>3 DEF CompleteInv, AtEOF
<1>7. UndecInResult'
  BY <1>1 DEF CompleteInv, UndecInResult
<1> QED
  BY <1>1, <1>3, <1>4, <1>5, <1>6, <1>7, AccountMoved

\* The reply to the FETCH of Rows.Next: the block is one of the own result, the only
\* one the cursor can be on.
LEMMA FetchReplyComplete ==
  ASSUME CompleteInv, OrderInv', NEW k, NEW fc, FetchReply(k, fc)
  PROVE  CompleteInv'
<1> DEFINE e == op.e
           r == Emptied(rows[e])
           c == Block(k, fc)
           undecodable == Undecodable(r, undec[e], k) # {}
<1>1. /\ op.kind = "fetch" /\ e \in Exec /\ cursor \in Exec /\ rows[e] \in RowsObject
      /\ rows[e].state = "open" /\ r \in RowsObject
      /\ Consumed(c, r, cursor, total[cursor], undec[cursor], k)
  BY FetchedBlock DEF CompleteInv
<1>2. cursor = e
  BY <1>1 DEF CompleteInv, OneCursor, Exec
<1>3. /\ r.tuples = <<>> /\ r.pos = 0 /\ r.nextIndex = rows[e].nextIndex /\ r.state = "open"
      /\ r.fetchedAll = rows[e].fetchedAll
  BY <1>1, EmptiedFacts
<1>4. /\ op' = NoOp /\ UNCHANGED <<total, undec, cursor>>
      /\ \/ undecodable /\ rows' = [rows EXCEPT ![e] = c] /\ ReturnsError(e) /\ UNCHANGED delivered
         \/ ~undecodable /\ c.pos < Len(c.tuples) /\ Deliver(e, c)
         \/ /\ ~undecodable /\ c.pos >= Len(c.tuples) /\ rows' = [rows EXCEPT ![e] = c]
            /\ Returns(e, "eof") /\ UNCHANGED <<delivered, failed>>
  BY <1>2 DEF FetchReply, Block, serverVars
<1>5. /\ total[e] \in 0 .. MaxRows /\ undec[e] \in SUBSET (1 .. MaxRows)
      /\ ret \in [Exec -> {"none", "row", "eof", "err"}] /\ failed \in [Exec -> BOOLEAN]
  BY <1>1 DEF CompleteInv, OrderInv, TypeOK
<1>6. UndecInResult'
  BY <1>4 DEF CompleteInv, UndecInResult
<1>7. rows[e].pos >= Len(rows[e].tuples)
  BY <1>1 DEF CompleteInv, OrderInv, Started
<1> HIDE DEF e, r, c, undecodable
<1>8. AccountedAt(e, r, delivered[e], total[e], undec[e], failed[e])
  <2>1. AccountedAt(e, rows[e], delivered[e], total[e], undec[e], failed[e])
    BY <1>1 DEF CompleteInv, Accounted
  <2>2. Buffered(rows[e]) = {} /\ Buffered(r) = {} /\ Seen(r) = Seen(rows[e])
    BY <1>1, <1>3, <1>7 DEF Buffered, Seen, RowsObject
  <2> QED
    BY <1>3, <2>1, <2>2 DEF AccountedAt
<1>9. Consumed(c, r, e, total[e], undec[e], k)
  BY <1>1, <1>2
<1>10. ASSUME NEW h, failed[e] = TRUE => h = TRUE, undecodable => h = TRUE
       PROVE  AccountedAt(e, c, delivered[e], total[e], undec[e], h)
  <2> DEFINE t == total[e]
             u == undec[e]
             d == delivered[e]
             f == failed[e]
  <2>1. /\ t \in 0 .. MaxRows /\ u \in SUBSET (1 .. MaxRows) /\ Consumed(c, r, e, t, u, k)
        /\ AccountedAt(e, r, d, t, u, f) /\ r.tuples = <<>> /\ r.pos = 0
        /\ (f = TRUE => h = TRUE) /\ (Undecodable(r, u, k) # {} => h = TRUE)
        /\ e \in Exec /\ r \in RowsObject
    BY <1>1, <1>3, <1>5, <1>8, <1>9, <1>10 DEF undecodable
  <2> HIDE DEF t, u, d, f
  <2>2. AccountedAt(e, c, d, t, u, h)
    BY <2>1, AccountedConsume
  <2> QED
    BY <2>2 DEF t, u, d
<1>11. c \in RowsObject /\ c.state = "open" /\ c.pos = 0 /\ cursor' = e
  BY <1>2, <1>3, <1>4, <1>9 DEF Consumed
<1>12. CASE undecodable /\ rows' = [rows EXCEPT ![e] = c] /\ ReturnsError(e) /\ UNCHANGED delivered
  <2>1. /\ failed'[e] = TRUE /\ ret'[e] = "err"
        /\ \A f \in Exec : f # e => failed'[f] = failed[f] /\ ret'[f] = ret[f]
    BY <1>1, <1>5, <1>12 DEF ReturnsError, Returns
  <2>2. AccountedAt(e, c, delivered[e], total[e], undec[e], failed'[e])
    BY <1>10, <2>1
  <2> QED
    BY <1>1, <1>4, <1>6, <1>11, <1>12, <2>1, <2>2, AccountMoved
<1>13. CASE ~undecodable /\ c.pos < Len(c.tuples) /\ Deliver(e, c)
  <2>1. AccountedAt(e, c, delivered[e], total[e], undec[e], failed[e])
    BY <1>10, <1>13
  <2> QED
    BY <1>1, <1>4, <1>11, <1>13, <2>1, DeliverComplete
<1>14. CASE /\ ~undecodable /\ c.pos >= Len(c.tuples) /\ rows' = [rows EXCEPT ![e] = c]
            /\ Returns(e, "eof") /\ UNCHANGED <<delivered, failed>>
  <2>1. AccountedAt(e, c, delivered[e], total[e], undec[e], failed[e])
    BY <1>10, <1>14
  <2>2. \A f \in Exec : f # e => ret'[f] = ret[f]
    BY <1>1, <1>5, <1>14 DEF Returns
  <2>3. c.nextIndex = total[e] + 1
    <3>1. Len(c.tuples) = 0
      BY <1>9, <1>11, <1>14 DEF Consumed, RowsObject
    <3>2. Undecodable(r, undec[e], k) = {}
      BY <1>14 DEF undecodable
    <3>3. k = 0 /\ c.nextIndex = r.nextIndex + k /\ r.nextIndex > total[e]
      <4>1. /\ k \in Nat /\ (k = 0 <=> r.nextIndex > total[e])
            /\ Len(c.tuples) = Good(r, undec[e], k) /\ c.nextIndex = r.nextIndex + k
        BY <1>9, <3>2 DEF Consumed
      <4>2. Good(r, undec[e], k) = k
        BY <1>1, <1>5, <3>2, <4>1, GoodFacts
      <4> QED
        BY <3>1, <4>1, <4>2
    <3>4. r.nextIndex <= total[e] + 1
      BY <1>8 DEF AccountedAt
    <3>5. r.nextIndex \in Nat /\ total[e] \in Nat
      BY <1>1, <1>5 DEF RowsObject
    <3> QED
      BY <3>3, <3>4, <3>5
  <2> QED
    BY <1>1, <1>4, <1>6, <1>11, <1>14, <2>1, <2>2, <2>3, AccountMoved
<1> QED
  BY <1>4, <1>12, <1>13, <1>14


\* The steps that leave every Rows object as it is.  It is here that the statement
\* must not be shared: ExecuteSend would move the cursor under an open Rows.
LEMMA KeepingComplete ==
  ASSUME SharedStmt = FALSE, CompleteInv, OrderInv',
         \/ ExecuteSend \/ ExecuteUnsent \/ ExecuteServerError \/ ExecuteFails \/ StmtClose
         \/ (\E e \in Exec : NextEOF(e)) \/ (\E e \in Exec : NextBadConn(e))
         \/ (\E e \in Exec : NextFetchSend(e)) \/ FetchServerError \/ FetchFails
         \/ TransactionEnds \/ (\E e \in Exec : CtxDone(e)) \/ UNCHANGED vars
  PROVE  CompleteInv'
<1> USE DEF stmtVars, serverVars, callerVars
<1>0. /\ op.kind \in {"exec", "callfetch"} => \A e \in Exec : rows[e].state # "open"
      /\ UndecInResult /\ NoOp.kind = "none"
      /\ ret \in [Exec -> {"none", "row", "eof", "err"}] /\ failed \in [Exec -> BOOLEAN]
  BY DEF CompleteInv, OneCursor, NoOp, OrderInv, TypeOK
<1>1. ASSUME UNCHANGED <<rows, delivered, total, undec, ret, failed>>, cursor' \in {0, cursor},
             op'.kind \in {"exec", "callfetch"} => \A e \in Exec : rows[e].state # "open"
      PROVE  CompleteInv'
  <2>1. UndecInResult'
    BY <1>0, <1>1 DEF UndecInResult
  <2> QED
    BY <1>1, <2>1, AccountKept
<1>2. ASSUME UNCHANGED <<rows, delivered, total, undec, cursor>>, NEW e \in Exec,
             ReturnsError(e), op' \in {op, NoOp}
      PROVE  CompleteInv'
  <2>1. UndecInResult'
    BY <1>0, <1>2 DEF UndecInResult
  <2>2. \A f \in Exec : failed[f] = TRUE => failed'[f] = TRUE
    BY <1>0, <1>2 DEF ReturnsError
  <2>3. \A f \in Exec : ret'[f] = "eof" => ret[f] = "eof"
    BY <1>0, <1>2 DEF ReturnsError, Returns
  <2> QED
    BY <1>0, <1>2, <2>1, <2>2, <2>3, AccountKept
<1>3. CASE ExecuteSend
  <2>1. \A e \in Exec : rows[e].state # "open"
    BY <1>3 DEF ExecuteSend, OpenRows
  <2> QED
    BY <1>1, <1>3, <2>1 DEF ExecuteSend
<1>4. CASE ExecuteUnsent
  BY <1>0, <1>1, <1>4 DEF ExecuteUnsent
<1>5. CASE ExecuteServerError \/ ExecuteFails
  BY <1>0, <1>1, <1>5 DEF ExecuteServerError, ExecuteFails
<1>6. CASE StmtClose
  <2>1. cursor' \in {0, cursor}
    BY <1>6 DEF StmtClose
  <2> QED
    BY <1>0, <1>1, <1>6, <2>1 DEF StmtClose
<1>7. ASSUME NEW e \in Exec, NextEOF(e) PROVE CompleteInv'
  <2>1. /\ UNCHANGED <<op, rows, delivered, total, undec, cursor, failed>>
        /\ rows[e].state = "open" /\ rows[e].pos >= Len(rows[e].tuples) /\ rows[e].fetchedAll
    BY <1>7 DEF NextEOF, CanNext
  <2>2. UndecInResult'
    BY <1>0, <2>1 DEF UndecInResult
  <2>3. \A f \in Exec : ret'[f] = "eof" => ret[f] = "eof" \/ f = e
    BY <1>0, <1>7 DEF NextEOF, Returns
  <2> QED
    BY <1>0, <2>1, <2>2, <2>3, AccountKept
<1>8. ASSUME NEW e \in Exec, NextBadConn(e) PROVE CompleteInv'
  BY <1>2, <1>8 DEF NextBadConn
<1>9. ASSUME NEW e \in Exec, NextFetchSend(e) PROVE CompleteInv'
  BY <1>1, <1>9 DEF NextFetchSend
<1>10. CASE FetchServerError \/ FetchFails
  <2>1. op.e \in Exec
    BY <1>10, OpFacts DEF FetchServerError, FetchFails, CompleteInv, OrderInv
  <2> QED
    BY <1>2, <1>10, <2>1 DEF FetchServerError, FetchFails
<1>11. CASE TransactionEnds
  BY <1>0, <1>1, <1>11 DEF TransactionEnds
<1>12. ASSUME NEW e \in Exec, CtxDone(e) PROVE CompleteInv'
  BY <1>0, <1>1, <1>12 DEF CtxDone
<1>13. CASE UNCHANGED vars
  BY <1>0, <1>1, <1>13 DEF vars
<1> QED
  BY <1>3, <1>4, <1>5, <1>6, <1>7, <1>8, <1>9, <1>10, <1>11, <1>12, <1>13

LEMMA InitComplete == Init => CompleteInv
<1> SUFFICES ASSUME Init PROVE CompleteInv
  OBVIOUS
<1>1. \A e \in Exec : rows[e].state = "none" /\ ret[e] = "none" /\ undec[e] = {}
  BY FreshTyped DEF Init
<1>2. op.kind = "none"
  BY DEF Init, NoOp
<1> QED
  BY <1>1, <1>2, InitOrder DEF CompleteInv, OneCursor, Accounted, AtEOF, UndecInResult

LEMMA CompleteStep ==
  ASSUME SharedStmt = FALSE
  PROVE  CompleteInv /\ [Next]_vars => CompleteInv'
<1> SUFFICES ASSUME CompleteInv, [Next]_vars PROVE CompleteInv'
  OBVIOUS
<1>0. OrderInv'
  BY OrderStep DEF CompleteInv
<1>1. ASSUME NEW t \in RowsLeft, NEW u \in SUBSET (1 .. t), ExecuteReplyPlain(t, u)
      PROVE  CompleteInv'
  BY <1>0, <1>1, ExecuteReplyPlainComplete DEF RowsLeft
<1>2. ASSUME NEW t \in RowsLeft, NEW u \in SUBSET (1 .. t), NEW k \in 1 .. t,
             NEW fc \in BOOLEAN, ExecuteReplyInline(t, u, k, fc)
      PROVE  CompleteInv'
  BY <1>0, <1>2, ExecuteReplyInlineComplete DEF RowsLeft
<1>3. CASE ExecuteReplyNoRows
  BY <1>0, <1>3, ExecuteReplyNoRowsComplete
<1>4. ASSUME NEW u \in SUBSET {1}, ExecuteReplyCall(u) PROVE CompleteInv'
  BY <1>0, <1>4, ExecuteReplyCallComplete
<1>5. ASSUME NEW k \in 0 .. MaxRows, NEW fc \in BOOLEAN, CallFetchReply(k, fc)
      PROVE  CompleteInv'
  BY <1>0, <1>5, CallFetchReplyComplete
<1>6. ASSUME NEW e \in Exec, NextBuffered(e) PROVE CompleteInv'
  BY <1>0, <1>6, NextBufferedComplete
<1>7. CASE FetchAnswered
  BY <1>0, <1>7, FetchReplyComplete DEF FetchAnswered
<1>8. ASSUME NEW e \in Exec, RowsClose(e) PROVE CompleteInv'
  BY <1>0, <1>8, RowsCloseComplete
<1> QED
  BY <1>0, <1>1, <1>2, <1>3, <1>4, <1>5, <1>6, <1>7, <1>8, KeepingComplete DEF Next

\* When the statement is not executed again under an open Rows, EOF means the end:
\* whatever the fetch size, the sizes of the blocks, the fetch-completed byte and the
\* errors in between, all rows that can be decoded were handed out, and an error was
\* returned if there are others (Rows.Next, Rows.consumeFetch, Stmt.execute).
THEOREM EOFIsTheEnd ==
  ASSUME SharedStmt = FALSE
  PROVE  Spec => []CompleteAtEOF
<1>1. CompleteInv => CompleteAtEOF
  <2> SUFFICES ASSUME CompleteInv, NEW e \in Exec, ret[e] = "eof"
               PROVE  /\ Handed(delivered[e]) = {<<e, i>> : i \in (1 .. total[e]) \ undec[e]}
                      /\ undec[e] # {} => failed[e] = TRUE
    <3>1. ASSUME CompleteInv, NEW e \in Exec, ret[e] = "eof"
          PROVE  /\ {delivered[e][i] : i \in 1 .. Len(delivered[e])} = Handed(delivered[e])
                 /\ failed[e] = TRUE => failed[e]
      BY DEF Handed
    <3> QED
      BY <3>1, Zenon DEF CompleteAtEOF
  <2>1. rows[e].state # "none" /\ rows[e] \in RowsObject /\ total[e] \in Nat
    BY DEF CompleteInv, OrderInv, Started, TypeOK
  <2>2. rows[e].pos >= Len(rows[e].tuples) /\ rows[e].nextIndex = total[e] + 1
    BY DEF CompleteInv, AtEOF
  <2>3. AccountedAt(e, rows[e], delivered[e], total[e], undec[e], failed[e])
    BY <2>1 DEF CompleteInv, Accounted
  <2>4. Buffered(rows[e]) = {}
    BY <2>1, <2>2 DEF Buffered, RowsObject
  <2>5. Seen(rows[e]) = 1 .. total[e]
    BY <2>1, <2>2 DEF Seen
  <2>6. undec[e] \cap Seen(rows[e]) = undec[e]
    BY <2>5 DEF CompleteInv, UndecInResult
  <2> QED
    BY <2>3, <2>4, <2>5, <2>6 DEF AccountedAt
<1> QED
  BY <1>1, InitComplete, CompleteStep, PTL DEF Spec

=============================================================================
