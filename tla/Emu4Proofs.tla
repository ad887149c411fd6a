----------------------------- MODULE Emu4Proofs -----------------------------
(***************************************************************************)
(* Proofs about Emu4, for every ring size, burst size, set of items and    *)
(* set of scheduling files.                                                *)
(*                                                                         *)
(* Every index the code reduces modulo N is below 2 * N, so WrapType, InRange turns *)
(* the ring arithmetic into linear arithmetic, which SMT decides.  Then    *)
(* come one lemma per action (it preserves IInv), the invariant, and what  *)
(* follows from it.                                                        *)
(***************************************************************************)
EXTENDS Emu4, SequenceTheorems, TLAPS

USE SizesAssumption, ItemsAssumption, SchedAssumption

-----------------------------------------------------------------------------
(* The ring                                                                *)

\* Every index lands on a slot.
LEMMA WrapType ==
    ASSUME NEW a \in Nat
    PROVE  Wrap(a) \in Slots
  BY DEF Wrap, Slots

\* An index inside the ring is its own slot.
LEMMA InRange ==
    ASSUME NEW a \in 0 .. N - 1
    PROVE  Wrap(a) = a
  BY DEF Wrap

\* An index past the end wraps once.
LEMMA PastEnd ==
    ASSUME NEW a \in N .. 2 * N - 1
    PROVE  Wrap(a) = a - N
  BY DEF Wrap

\* Reducing an index before it is moved on changes nothing.
LEMMA Offset ==
    ASSUME NEW a \in Nat, NEW b \in Nat, a + b < 2 * N
    PROVE  Wrap(Wrap(a) + b) = Wrap(a + b)
  <1>1. CASE a < N
    BY <1>1, InRange
  <1>2. CASE a >= N
    <2>1. Wrap(a) = a - N
      BY <1>2, PastEnd
    <2>2. Wrap(a + b) = a + b - N
      BY <1>2, PastEnd
    <2>3. (a - N) + b \in 0 .. N - 1
      BY <1>2
    <2>4. Wrap((a - N) + b) = (a - N) + b
      BY <2>3, InRange
    <2> QED BY <2>1, <2>2, <2>4
  <1> QED BY <1>1, <1>2

\* Two indices less than a round apart name different cells.
LEMMA Distinct ==
    ASSUME NEW a \in Nat, NEW b \in Nat, a < b, b < a + N, b < 2 * N
    PROVE  Wrap(a) # Wrap(b)
  <1>1. CASE b < N
    BY <1>1, InRange
  <1>2. CASE b >= N
    <2>1. Wrap(b) = b - N
      BY <1>2, PastEnd
    <2>2. Wrap(a) = IF a < N THEN a ELSE a - N
      BY InRange, PastEnd
    <2> QED BY <2>1, <2>2
  <1> QED BY <1>1, <1>2

\* Appending to a concatenation appends to its second part.
LEMMA AppendConcat ==
    ASSUME NEW s \in Seq(Items), NEW t \in Seq(Items), NEW e \in Items
    PROVE  Append(s \o t, e) = s \o Append(t, e)
  <1>1. /\ s \o t \in Seq(Items) /\ Len(s \o t) = Len(s) + Len(t)
        /\ \A j \in 1 .. Len(s) + Len(t) :
              (s \o t)[j] = IF j <= Len(s) THEN s[j] ELSE t[j - Len(s)]
    BY ConcatProperties
  <1>2. Append(t, e) \in Seq(Items) /\ Len(Append(t, e)) = Len(t) + 1
    OBVIOUS
  <1>3. /\ s \o Append(t, e) \in Seq(Items)
        /\ Len(s \o Append(t, e)) = Len(s) + Len(Append(t, e))
        /\ \A j \in 1 .. Len(s) + Len(Append(t, e)) :
              (s \o Append(t, e))[j] =
                 IF j <= Len(s) THEN s[j] ELSE Append(t, e)[j - Len(s)]
    BY <1>2, ConcatProperties
  <1>4. Append(s \o t, e) \in Seq(Items) /\ Len(Append(s \o t, e)) = Len(s) + Len(t) + 1
    BY <1>1
  <1>5. \A j \in 1 .. Len(s) + Len(t) + 1 : Append(s \o t, e)[j] = (s \o Append(t, e))[j]
    BY <1>1, <1>2, <1>3
  <1> DEFINE u == Append(s \o t, e)
             v == s \o Append(t, e)
  <1>6. /\ u \in Seq(Items) /\ v \in Seq(Items)
        /\ Len(u) = Len(s) + Len(t) + 1 /\ Len(v) = Len(u)
        /\ \A j \in 1 .. Len(s) + Len(t) + 1 : u[j] = v[j]
    BY <1>2, <1>3, <1>4, <1>5
  <1> HIDE DEF u, v
  <1>7. u = v
    BY <1>6, SeqEqual, ZenonT(60)
  <1> QED BY <1>7 DEF u, v

\* A run of cells is a sequence of items, of the length asked for.
LEMMA CellsType ==
    ASSUME NEW st \in BufferState, NEW p \in Slots, NEW n \in 0 .. N
    PROVE  /\ CellsFrom(st, p, n) \in Seq(Items)
           /\ Len(CellsFrom(st, p, n)) = n
           /\ \A j \in 1 .. n : /\ Wrap(p + j - 1) \in Slots
                                /\ CellsFrom(st, p, n)[j] = st.buff[Wrap(p + j - 1)]
  <1>1. \A j \in 1 .. n : Wrap(p + j - 1) \in Slots
    BY WrapType, InRange DEF Slots
  <1>2. CellsFrom(st, p, n) \in [1 .. n -> Items]
    BY <1>1 DEF CellsFrom, BufferState
  <1>3. CellsFrom(st, p, n) \in Seq(Items)
    BY <1>2
  <1> QED BY <1>1, <1>2, <1>3 DEF CellsFrom

\* The guest's store keeps the types of the ring and does what it says.
LEMMA StoredRing ==
    ASSUME NEW st \in BufferState, NEW item \in Items, st.count < N
    PROVE  /\ Stored(st, item) \in BufferState
           /\ Stored(st, item).cons_p = st.cons_p
           /\ Stored(st, item).count = st.count + 1
           /\ Stored(st, item).prod_p = Wrap(st.prod_p + 1)
           /\ \A s \in Slots : Stored(st, item).buff[s] =
                 IF s = st.prod_p THEN item ELSE st.buff[s]
  <1>1. Wrap(st.prod_p + 1) \in Slots
    BY WrapType, InRange DEF BufferState, Slots
  <1> QED BY <1>1 DEF Stored, NextSlot, BufferState

\* So does the guest's removal.
LEMMA RemovedRing ==
    ASSUME NEW st \in BufferState, st.count > 0
    PROVE  /\ Removed(st) \in BufferState
           /\ Removed(st).prod_p = st.prod_p
           /\ Removed(st).buff = st.buff
           /\ Removed(st).count = st.count - 1
           /\ Removed(st).cons_p = Wrap(st.cons_p + 1)
  <1>1. Wrap(st.cons_p + 1) \in Slots
    BY WrapType, InRange DEF BufferState, Slots
  <1> QED BY <1>1 DEF Removed, NextSlot, BufferState

\* A cell with an unread value is not the one the producer writes next, as
\* long as the ring is not full.
LEMMA UnreadIsNotNext ==
    ASSUME NEW c \in 0 .. N - 1, NEW n \in 0 .. N - 1, NEW j \in 1 .. n
    PROVE  Wrap(c + j - 1) # Wrap(c + n)
  <1> DEFINE a == c + j - 1
             b == c + n
  <1>1. a \in Nat /\ b \in Nat /\ a < b /\ b < a + N /\ b < 2 * N
    OBVIOUS
  <1> HIDE DEF a, b
  <1>2. Wrap(a) # Wrap(b)
    BY <1>1, Distinct
  <1> QED BY <1>2 DEF a, b

\* Counting on from a reduced index.
LEMMA Further ==
    ASSUME NEW c \in 0 .. N - 1, NEW n \in 0 .. N, NEW d \in Nat, n + d <= N
    PROVE  Wrap(Wrap(c + n) + d) = Wrap(c + (n + d))
  <1> DEFINE a == c + n
  <1>1. a \in Nat /\ a + d < 2 * N /\ a + d = c + (n + d)
    OBVIOUS
  <1> HIDE DEF a
  <1>2. Wrap(Wrap(a) + d) = Wrap(a + d)
    BY <1>1, Offset
  <1> QED BY <1>1, <1>2 DEF a

\* One store into the producer's copy m of a ring S.
LEMMA StoreStep ==
    ASSUME NEW S \in BufferState, NEW m \in BufferState, NEW item \in Items,
           S.count <= m.count, m.count < N, m.cons_p = S.cons_p,
           S.prod_p = Wrap(S.cons_p + S.count),
           m.prod_p = Wrap(S.cons_p + m.count)
    PROVE  /\ Stored(m, item).prod_p = Wrap(S.cons_p + Stored(m, item).count)
           /\ \A j \in 1 .. S.count :
                 Stored(m, item).buff[Wrap(S.cons_p + j - 1)] = m.buff[Wrap(S.cons_p + j - 1)]
           /\ ProducedValues(S, m) \in Seq(Items)
           /\ ProducedValues(S, Stored(m, item)) = Append(ProducedValues(S, m), item)
  <1> DEFINE c == S.cons_p
             n == S.count
             q == m.count
             k == m.count - S.count
             w == Stored(m, item)
             x == CellsFrom(m, S.prod_p, k)
             y == CellsFrom(w, S.prod_p, k + 1)
  <1>1. /\ c \in 0 .. N - 1 /\ n \in 0 .. N - 1 /\ k \in 0 .. N - 1
        /\ q \in 0 .. N - 1 /\ q = n + k /\ k \in 0 .. N /\ k + 1 \in 0 .. N
        /\ S.prod_p \in Slots /\ m.prod_p \in Slots
        /\ c = S.cons_p /\ n = S.count /\ q = m.count /\ k = m.count - S.count
    BY DEF BufferState, Slots
  <1> HIDE DEF c, n, k, q
  <1>2. /\ w \in BufferState /\ w.cons_p = c /\ w.count = q + 1
        /\ w.prod_p = Wrap(m.prod_p + 1)
        /\ \A s \in Slots : w.buff[s] = IF s = m.prod_p THEN item ELSE m.buff[s]
    BY <1>1, StoredRing
  <1>3. /\ x \in Seq(Items) /\ Len(x) = k
        /\ \A j \in 1 .. k : /\ Wrap(S.prod_p + j - 1) \in Slots
                             /\ x[j] = m.buff[Wrap(S.prod_p + j - 1)]
    BY <1>1, CellsType, ZenonT(60)
  <1>4. /\ y \in Seq(Items) /\ Len(y) = k + 1
        /\ \A j \in 1 .. k + 1 : /\ Wrap(S.prod_p + j - 1) \in Slots
                                 /\ y[j] = w.buff[Wrap(S.prod_p + j - 1)]
    BY <1>1, <1>2, CellsType, ZenonT(60)
  <1>5. S.prod_p = Wrap(c + n) /\ m.prod_p = Wrap(c + q)
    BY <1>1
  <1>6. ProducedValues(S, m) = x /\ ProducedValues(S, w) = y
    <2>1. w.count - S.count = k + 1
      BY <1>1, <1>2
    <2> QED BY <1>1, <2>1, Zenon DEF ProducedValues
  <1> HIDE DEF w, x, y
  <1>7. w.prod_p = Wrap(c + (q + 1))
    <2>1. q \in 0 .. N /\ 1 \in Nat /\ q + 1 <= N
      BY <1>1
    <2>2. Wrap(Wrap(c + q) + 1) = Wrap(c + (q + 1))
      BY <1>1, <2>1, Further, ZenonT(60)
    <2> QED BY <2>2, <1>1, <1>2, <1>5
  <1>8. \A j \in 1 .. n : w.buff[Wrap(c + j - 1)] = m.buff[Wrap(c + j - 1)]
    <2> TAKE j \in 1 .. n
    <2>1. j \in 1 .. q
      BY <1>1
    <2>2. Wrap(c + j - 1) # Wrap(c + q)
      BY <1>1, <2>1, UnreadIsNotNext
    <2>3. c + j - 1 \in Nat
      BY <1>1
    <2>4. Wrap(c + j - 1) \in Slots
      BY <2>3, WrapType
    <2> QED BY <1>2, <1>5, <2>2, <2>4
  <1>9. \A j \in 1 .. k + 1 : Wrap(S.prod_p + j - 1) = Wrap(c + (n + j) - 1)
    <2> TAKE j \in 1 .. k + 1
    <2> DEFINE d == j - 1
    <2>1. d \in Nat /\ n + d <= N
      BY <1>1
    <2>2. Wrap(Wrap(c + n) + d) = Wrap(c + (n + d))
      <3> HIDE DEF d
      <3> QED BY <1>1, <2>1, Further
    <2>3. c + (n + (j - 1)) = c + (n + j) - 1 /\ S.prod_p + j - 1 = S.prod_p + (j - 1)
      BY <1>1 DEF Slots
    <2> QED BY <2>2, <2>3, <1>5
  <1>10. \A j \in 1 .. k : y[j] = x[j]
    <2> TAKE j \in 1 .. k
    <2>1. n + j \in 1 .. q /\ j \in 1 .. k + 1
      BY <1>1, SMTT(60)
    <2>2. Wrap(c + (n + j) - 1) # Wrap(c + q)
      BY <1>1, <2>1, UnreadIsNotNext
    <2>3. Wrap(S.prod_p + j - 1) # m.prod_p
      BY <2>1, <2>2, <1>5, <1>9
    <2> QED BY <2>1, <2>3, <1>2, <1>3, <1>4, SMTT(60)
  <1>11. y[k + 1] = item
    <2>1. k + 1 \in 1 .. k + 1 /\ c + (n + (k + 1)) - 1 = c + q
      BY <1>1
    <2>2. Wrap(S.prod_p + (k + 1) - 1) = m.prod_p
      BY <2>1, <1>5, <1>9
    <2> QED BY <2>1, <2>2, <1>1, <1>2, <1>4
  <1>12. y = Append(x, item)
    BY <1>1, <1>3, <1>4, <1>10, <1>11
  <1>13. w = Stored(m, item)
    BY DEF w
  <1> QED BY <1>1, <1>2, <1>3, <1>6, <1>7, <1>8, <1>12, <1>13

\* What a producer's turn added is outstanding once it is printed.
LEMMA ProducerHandsOver ==
    ASSUME NEW S \in BufferState, NEW m \in BufferState,
           NEW p \in Seq(Items), NEW c \in Seq(Items),
           Outstanding(S, p, c), S.count <= m.count, m.cons_p = S.cons_p,
           m.prod_p = Wrap(S.cons_p + m.count),
           \A j \in 1 .. S.count :
              m.buff[Wrap(S.cons_p + j - 1)] = S.buff[Wrap(S.cons_p + j - 1)]
    PROVE  /\ ProducedValues(S, m) \in Seq(Items)
           /\ Len(ProducedValues(S, m)) = m.count - S.count
           /\ Outstanding(m, p \o ProducedValues(S, m), c)
  <1> DEFINE cp == S.cons_p
             n == S.count
             k == m.count - S.count
             x == ProducedValues(S, m)
             np == p \o x
  <1>1. /\ cp \in 0 .. N - 1 /\ n \in 0 .. N /\ k \in 0 .. N
        /\ m.count = n + k /\ n + k \in 0 .. N
        /\ S.prod_p \in Slots /\ S.prod_p \in 0 .. N - 1
        /\ Len(p) \in Nat /\ Len(c) \in Nat
        /\ n = Len(p) - Len(c) /\ S.prod_p = Wrap(cp + n)
    <2>1. /\ cp \in 0 .. N - 1 /\ n \in 0 .. N /\ m.count \in 0 .. N
          /\ S.prod_p \in Slots /\ S.prod_p \in 0 .. N - 1
      BY DEF BufferState, Slots
    <2>2. Len(p) \in Nat /\ Len(c) \in Nat
      OBVIOUS
    <2>3. n = Len(p) - Len(c) /\ S.prod_p = Wrap(cp + n)
      BY DEF Outstanding
    <2> QED BY <2>1, <2>2, <2>3
  <1>2. /\ x \in Seq(Items) /\ Len(x) = k
        /\ \A j \in 1 .. k : x[j] = m.buff[Wrap(S.prod_p + j - 1)]
    <2>1. x = CellsFrom(m, S.prod_p, k)
      BY DEF ProducedValues
    <2> HIDE DEF x, k
    <2> QED BY <1>1, <2>1, CellsType, Zenon
  <1> HIDE DEF cp, n, k, x
  <1>3. /\ np \in Seq(Items) /\ Len(np) = Len(p) + k
        /\ \A j \in 1 .. Len(p) + k : np[j] = IF j <= Len(p) THEN p[j] ELSE x[j - Len(p)]
    BY <1>2, ConcatProperties
  <1> HIDE DEF np
  <1>4. m.count = Len(np) - Len(c)
    BY <1>1, <1>3
  <1>5. \A j \in 1 .. m.count : m.buff[Wrap(cp + j - 1)] = np[Len(c) + j]
    <2> TAKE j \in 1 .. m.count
    <2>1. CASE j <= n
      <3>1. j \in 1 .. n /\ Len(c) + j \in 1 .. Len(p) + k /\ Len(c) + j <= Len(p)
        BY <2>1, <1>1
      <3>2. S.buff[Wrap(cp + j - 1)] = p[Len(c) + j]
        BY <3>1 DEF Outstanding, cp, n
      <3>3. m.buff[Wrap(cp + j - 1)] = S.buff[Wrap(cp + j - 1)]
        BY <3>1 DEF cp, n
      <3> QED BY <3>1, <3>2, <3>3, <1>3
    <2>2. CASE j > n
      <3> DEFINE d == j - n - 1
      <3>1. d \in Nat /\ n + d <= N /\ d + 1 \in 1 .. k /\ cp + (n + d) = cp + j - 1
        BY <2>2, <1>1
      <3>2. Len(c) + j \in 1 .. Len(p) + k /\ Len(c) + j > Len(p) /\ Len(c) + j - Len(p) = d + 1
        BY <2>2, <1>1
      <3> HIDE DEF d
      <3>3. Wrap(S.prod_p + d) = Wrap(cp + j - 1)
        <4>1. Wrap(Wrap(cp + n) + d) = Wrap(cp + (n + d))
          BY <1>1, <3>1, Further, Zenon
        <4> QED BY <4>1, <3>1, <1>1
      <3>4. x[d + 1] = m.buff[Wrap(S.prod_p + (d + 1) - 1)]
        BY <3>1, <1>2
      <3>5. S.prod_p + (d + 1) - 1 = S.prod_p + d
        BY <1>1, <3>1
      <3>6. ~(Len(c) + j <= Len(p))
        BY <3>2, <1>1
      <3> QED BY <3>2, <3>3, <3>4, <3>5, <3>6, <1>3
    <2> QED BY <2>1, <2>2, <1>1
  <1>6. \A q \in 1 .. Len(c) : c[q] = np[q]
    <2> TAKE q \in 1 .. Len(c)
    <2>1. q \in 1 .. Len(p) + k /\ q <= Len(p)
      BY <1>1
    <2> QED BY <2>1, <1>3 DEF Outstanding
  <1>7. cp = S.cons_p /\ np = p \o x /\ x = ProducedValues(S, m) /\ k = m.count - S.count
    BY DEF cp, np, x, k
  <1> QED BY <1>2, <1>4, <1>5, <1>6, <1>7 DEF Outstanding

\* What a consumer's turn removed were the oldest outstanding values.
LEMMA ConsumerHandsOver ==
    ASSUME NEW S \in BufferState, NEW m \in BufferState,
           NEW p \in Seq(Items), NEW c \in Seq(Items),
           Outstanding(S, p, c), m.count <= S.count, m.prod_p = S.prod_p,
           m.buff = S.buff, m.cons_p = Wrap(S.cons_p + (S.count - m.count))
    PROVE  /\ ConsumedValues(S, m) \in Seq(Items)
           /\ Len(ConsumedValues(S, m)) = S.count - m.count
           /\ Outstanding(m, p, c \o ConsumedValues(S, m))
  <1> DEFINE cp == S.cons_p
             n == S.count
             k == S.count - m.count
             x == ConsumedValues(S, m)
             nc == c \o x
  <1>1. /\ cp \in 0 .. N - 1 /\ n \in 0 .. N /\ k \in 0 .. N
        /\ m.count \in Nat /\ k + m.count = n
        /\ S.cons_p \in Slots /\ m.cons_p \in 0 .. N - 1
        /\ Len(p) \in Nat /\ Len(c) \in Nat
        /\ n = Len(p) - Len(c) /\ m.cons_p = Wrap(cp + k)
        /\ S.prod_p = Wrap(cp + n)
    BY DEF BufferState, Slots, Outstanding
  <1>2. /\ x \in Seq(Items) /\ Len(x) = k
        /\ \A j \in 1 .. k : x[j] = S.buff[Wrap(cp + j - 1)]
    <2>1. x = CellsFrom(S, S.cons_p, k) /\ cp = S.cons_p
      BY DEF ConsumedValues
    <2> HIDE DEF x, k, cp
    <2> QED BY <1>1, <2>1, CellsType, Zenon
  <1>3. \A j \in 1 .. n : S.buff[Wrap(cp + j - 1)] = p[Len(c) + j]
    BY DEF Outstanding
  <1>4. \A q \in 1 .. Len(c) : c[q] = p[q]
    BY DEF Outstanding
  <1>5. cp = S.cons_p /\ nc = c \o x /\ x = ConsumedValues(S, m) /\ k = S.count - m.count
    OBVIOUS
  <1> HIDE DEF cp, n, k, x
  <1>6. /\ nc \in Seq(Items) /\ Len(nc) = Len(c) + k
        /\ \A j \in 1 .. Len(c) + k : nc[j] = IF j <= Len(c) THEN c[j] ELSE x[j - Len(c)]
    <2>1. x \in Seq(Items) /\ Len(x) = k
      BY <1>2
    <2>2. /\ nc \in Seq(Items) /\ Len(nc) = Len(c) + Len(x)
          /\ \A j \in 1 .. Len(c) + Len(x) :
                nc[j] = IF j <= Len(c) THEN c[j] ELSE x[j - Len(c)]
      BY <2>1, ConcatProperties, Zenon
    <2> QED BY <2>1, <2>2, Zenon
  <1> HIDE DEF nc
  <1>7. m.count = Len(p) - Len(nc)
    <2>1. Len(nc) = Len(c) + k
      BY <1>6
    <2>2. /\ k + m.count = n /\ n = Len(p) - Len(c)
          /\ k \in Int /\ m.count \in Int /\ Len(p) \in Int /\ Len(c) \in Int
      BY <1>1
    <2> HIDE DEF k, n
    <2> QED BY <2>1, <2>2, SMTT(60)
  <1>8. m.prod_p = Wrap(m.cons_p + m.count)
    <2>1. k + m.count <= N
      BY <1>1
    <2>2. Wrap(Wrap(cp + k) + m.count) = Wrap(cp + (k + m.count))
      BY <2>1, <1>1, Further, Zenon
    <2> QED BY <2>2, <1>1
  <1>9. \A j \in 1 .. m.count : m.buff[Wrap(m.cons_p + j - 1)] = p[Len(nc) + j]
    <2> TAKE j \in 1 .. m.count
    <2> DEFINE d == j - 1
    <2>1. d \in Nat /\ k + d <= N /\ k + j \in 1 .. n /\ j = d + 1
      BY <1>1
    <2>2. cp + (k + d) = cp + (k + j) - 1 /\ m.cons_p + j - 1 = m.cons_p + d
      BY <2>1, <1>1
    <2>3. Len(c) + (k + j) = Len(nc) + j
      BY <1>1, <1>6
    <2> HIDE DEF d
    <2>4. Wrap(Wrap(cp + k) + d) = Wrap(cp + (k + d))
      BY <2>1, <1>1, Further, Zenon
    <2>5. S.buff[Wrap(cp + (k + j) - 1)] = p[Len(c) + (k + j)]
      BY <2>1, <1>3
    <2> QED BY <2>2, <2>3, <2>4, <2>5, <1>1
  <1>10. \A q \in 1 .. Len(nc) : nc[q] = p[q]
    <2> TAKE q \in 1 .. Len(nc)
    <2>1. CASE q <= Len(c)
      <3>1. q \in 1 .. Len(c) /\ q \in 1 .. Len(c) + k
        BY <2>1, <1>1, <1>6
      <3>2. nc[q] = c[q]
        BY <3>1, <2>1, <1>6, ZenonT(60)
      <3> QED BY <3>1, <3>2, <1>4
    <2>2. CASE q > Len(c)
      <3> DEFINE j == q - Len(c)
      <3>1. j \in 1 .. k /\ j \in 1 .. n /\ Len(c) + j = q /\ q \in 1 .. Len(c) + k /\ ~(q <= Len(c))
        BY <2>2, <1>1, <1>6
      <3> HIDE DEF j
      <3>2. nc[q] = x[q - Len(c)] /\ q - Len(c) = j
        BY <3>1, <1>1, <1>6
      <3> QED BY <3>1, <3>2, <1>2, <1>3
    <2> QED BY <2>1, <2>2, <1>1, <1>6
  <1> QED BY <1>2, <1>5, <1>7, <1>8, <1>9, <1>10 DEF Outstanding

\* The ring before the first turn has its type.
LEMMA EmptyRingType == EmptyRing \in BufferState
  BY DEF EmptyRing, BufferState, Slots

\* The schedule is a list of characters that no step changes.
LEMMA SchedStable ==
    ASSUME TypeOK
    PROVE  /\ sched_len \in Nat
           /\ (sched_file' = sched_file => sched_len' = sched_len)
           /\ (sched_file' = sched_file /\ i' = i => sched' = sched)
  <1>1. sched_file \in Seq(STRING)
    BY DEF TypeOK
  <1>2. Len(sched_file) \in Nat
    BY <1>1
  <1> QED BY <1>2 DEF sched_len, sched, sched_order

\* Each VM has the other as its partner.
LEMMA OtherVM ==
    \A v \in VMs : Other(v) \in VMs /\ Other(v) # v /\ VMs = {v, Other(v)}
  BY DEF VMs, Other, Producer, Consumer

-----------------------------------------------------------------------------
(* The inductive invariant, action by action                               *)

\* All three copies are the empty ring at first.
LEMMA InitIInv == Init => IInv
  <1> SUFFICES ASSUME Init PROVE IInv
    OBVIOUS
  <1>1. EmptyRing \in BufferState
    BY EmptyRingType
  <1>2. sched_file \in Seq(STRING) /\ Len(sched_file) \in Nat
    BY DEF Init
  <1>3. TypeOK
    <2>1. i \in 0 .. sched_len
      BY <1>2 DEF Init, sched_len
    <2> QED BY <1>1, <2>1 DEF Init, TypeOK, Exits
  <1>4. RingHoldsOutstanding
    BY WrapType, InRange DEF Init, RingHoldsOutstanding, Outstanding, EmptyRing
  <1>5. BetweenTurns /\ DuringTurn /\ ProducerTurn /\ ConsumerTurn
    BY DEF Init, BetweenTurns, DuringTurn, ProducerTurn, ConsumerTurn, InTurn
  <1> QED BY <1>3, <1>4, <1>5 DEF IInv

\* Outside EndTurn the hypervisor's ring and what is printed stay as they are.
LEMMA RingFrame ==
    ASSUME RingHoldsOutstanding, UNCHANGED <<shared_state, produced, consumed>>
    PROVE  RingHoldsOutstanding'
  BY DEF RingHoldsOutstanding, Outstanding

\* A turn begins with a copy of the hypervisor's ring.
LEMMA ScheduleIInv ==
    ASSUME IInv, Schedule PROVE IInv'
  <1> USE DEF IInv
  <1>1. sched_len' = sched_len /\ sched' = sched /\ sched_len \in Nat
    BY SchedStable DEF Schedule, hypervisor
  <1>2. TypeOK'
    BY <1>1 DEF Schedule, hypervisor, TypeOK
  <1>3. RingHoldsOutstanding'
    BY RingFrame DEF Schedule, hypervisor
  <1>4. BetweenTurns'
    BY DEF Schedule, BetweenTurns
  <1>5. pc' = "kvm_run" /\ sched' \in VMs /\ mem'[sched'] = shared_state'
    BY <1>1 DEF Schedule, hypervisor, TypeOK
  <1>6. (gpc[sched] = "in" /\ todo[sched] = 0)' /\ gpc[Other(sched)]' = "in"
    BY <1>1, OtherVM DEF Schedule, BetweenTurns, DuringTurn
  <1>7. DuringTurn'
    BY <1>1, <1>5, <1>6, OtherVM DEF DuringTurn, Schedule, hypervisor, InTurn
  <1>8. drawn' = produced'
    BY DEF BetweenTurns, Schedule, hypervisor
  <1>9. /\ shared_state'.count \in 0 .. N
        /\ shared_state'.cons_p \in 0 .. N - 1
        /\ produced' \in Seq(Items)
    BY <1>2 DEF TypeOK, BufferState, Slots
  <1>10. ProducerTurn'
    <2>1. shared_state'.prod_p = Wrap(shared_state'.cons_p + shared_state'.count)
      BY <1>3 DEF RingHoldsOutstanding, Outstanding
    <2>2. produced' = produced' \o ProducedValues(shared_state', shared_state')
      BY <1>9 DEF ProducedValues, CellsFrom
    <2> QED BY <1>5, <1>6, <1>8, <1>9, <2>1, <2>2 DEF ProducerTurn
  <1>11. ConsumerTurn'
    <2>1. shared_state'.cons_p =
            Wrap(shared_state'.cons_p + (shared_state'.count - shared_state'.count))
      <3>1. shared_state'.cons_p + (shared_state'.count - shared_state'.count)
              = shared_state'.cons_p
        BY <1>9
      <3>2. Wrap(shared_state'.cons_p) = shared_state'.cons_p
        BY <1>9, InRange
      <3> QED BY <3>1, <3>2, Zenon
    <2> QED BY <1>5, <1>6, <1>8, <1>9, <2>1 DEF ConsumerTurn
  <1> QED BY <1>2, <1>3, <1>4, <1>7, <1>10, <1>11

\* Another character of the schedule changes nothing.
LEMMA SkipCharacterIInv ==
    ASSUME IInv, SkipCharacter PROVE IInv'
  <1> USE DEF IInv
  <1>1. sched_len' = sched_len /\ sched_len \in Nat
    BY SchedStable DEF SkipCharacter
  <1>2. TypeOK'
    BY <1>1 DEF SkipCharacter, TypeOK
  <1>3. RingHoldsOutstanding'
    BY RingFrame DEF SkipCharacter
  <1>4. BetweenTurns' /\ DuringTurn' /\ ProducerTurn' /\ ConsumerTurn'
    BY DEF SkipCharacter, BetweenTurns, DuringTurn, ProducerTurn, ConsumerTurn, InTurn
  <1> QED BY <1>2, <1>3, <1>4

\* The steps that end the program.
LEMMA StopIInv ==
    ASSUME IInv, Finish \/ RunFails PROVE IInv'
  <1> USE DEF IInv
  <1>1. sched_len' = sched_len
    BY SchedStable DEF Finish, RunFails, hypervisor
  <1>2. TypeOK'
    BY <1>1 DEF Finish, RunFails, hypervisor, TypeOK
  <1>3. RingHoldsOutstanding'
    BY RingFrame DEF Finish, RunFails, hypervisor
  <1>4. BetweenTurns' /\ DuringTurn' /\ ProducerTurn' /\ ConsumerTurn'
    BY DEF Finish, RunFails, hypervisor, BetweenTurns, DuringTurn, ProducerTurn,
           ConsumerTurn, InTurn
  <1> QED BY <1>2, <1>3, <1>4

\* The steps that only move control between hypervisor and guest.
LEMMA ControlIInv ==
    ASSUME IInv, GuestIn \/ GuestOut \/ GuestShutsDown \/ ContinueRun PROVE IInv'
  <1> USE DEF IInv
  <1>1. UNCHANGED <<hypervisor, mem, todo, drawn>>
    BY DEF GuestIn, GuestOut, GuestShutsDown, ContinueRun
  <1>2. sched_len' = sched_len /\ sched' = sched /\ InTurn /\ InTurn'
    BY <1>1, SchedStable DEF GuestIn, GuestOut, GuestShutsDown, ContinueRun, GuestRuns, hypervisor, InTurn
  <1>3. sched \in VMs
    BY <1>2 DEF DuringTurn
  <1>4. gpc' \in [VMs -> {"in", "draw", "loop", "down"}] /\ exit' \in Exits
    BY DEF GuestIn, GuestOut, GuestShutsDown, ContinueRun, TypeOK, Exits
  <1>5. TypeOK'
    BY <1>1, <1>2, <1>4 DEF GuestIn, GuestOut, GuestShutsDown, ContinueRun, TypeOK, hypervisor
  <1>6. RingHoldsOutstanding'
    BY <1>1, RingFrame DEF hypervisor
  <1>7. BetweenTurns'
    BY <1>2 DEF BetweenTurns, InTurn
  <1>8. DuringTurn'
    <2>1. CASE GuestIn
      BY <2>1, <1>1, <1>2, <1>3, OtherVM
      DEF GuestIn, GuestRuns, DuringTurn, hypervisor, TypeOK
    <2>2. CASE GuestOut
      <3>1. todo[sched] = 0
        BY <2>2, <1>3 DEF GuestOut, TypeOK
      <3>2. exit' = DoneExit(sched)
        BY <2>2 DEF GuestOut, DoneExit
      <3> QED BY <2>2, <3>1, <3>2, <1>1, <1>2, <1>3, OtherVM
              DEF GuestOut, GuestRuns, DuringTurn, hypervisor, TypeOK
    <2>3. CASE ContinueRun
      BY <2>3, <1>1, <1>2, <1>3
      DEF ContinueRun, DuringTurn, hypervisor, InTurn
    <2>4. CASE GuestShutsDown
      BY <2>4, <1>1, <1>2, <1>3, OtherVM
      DEF GuestShutsDown, DuringTurn, hypervisor, TypeOK
    <2> QED BY <2>1, <2>2, <2>3, <2>4
  <1>9. ProducerTurn' /\ ConsumerTurn'
    BY <1>1, <1>2 DEF ProducerTurn, ConsumerTurn, hypervisor
  <1> QED BY <1>5, <1>6, <1>7, <1>8, <1>9

\* The guest draws how much it will do.
LEMMA GuestDrawIInv ==
    ASSUME IInv, GuestDraw PROVE IInv'
  <1> USE DEF IInv
  <1>1. UNCHANGED <<hypervisor, pc, mem, exit, drawn>>
    BY DEF GuestDraw
  <1>2. sched_len' = sched_len /\ sched' = sched /\ InTurn /\ InTurn'
    BY <1>1, SchedStable DEF GuestDraw, GuestRuns, hypervisor, InTurn
  <1>3. sched \in VMs /\ pc = "kvm_run" /\ gpc[sched] = "draw" /\ gpc'[sched] = "loop"
    BY <1>2 DEF DuringTurn, GuestDraw, GuestRuns, TypeOK
  <1>4. mem[sched] = shared_state /\ mem[sched].count \in 0 .. N
    BY <1>2, <1>3 DEF DuringTurn, TypeOK, BufferState
  <1>5. /\ todo' \in [VMs -> 0 .. MaxBurst]
        /\ todo'[sched] <= IF sched = Producer THEN N - mem[sched].count
                                               ELSE mem[sched].count
        /\ \A v \in VMs : v # sched => todo'[v] = todo[v]
    <2>1. PICK r \in 0 .. MaxBurst :
            todo' = [todo EXCEPT ![sched] =
                       Clamp(r, IF sched = Producer THEN N - mem[sched].count
                                                    ELSE mem[sched].count)]
      BY DEF GuestDraw
    <2> DEFINE limit == IF sched = Producer THEN N - mem[sched].count
                                            ELSE mem[sched].count
    <2>2. limit \in 0 .. N
      BY <1>4
    <2>3. Clamp(r, limit) \in 0 .. MaxBurst /\ Clamp(r, limit) <= limit
      BY <2>2 DEF Clamp
    <2> QED BY <2>1, <2>3, <1>3 DEF TypeOK
  <1>6. TypeOK'
    BY <1>1, <1>2, <1>5 DEF GuestDraw, TypeOK, hypervisor
  <1>7. RingHoldsOutstanding'
    BY <1>1, RingFrame DEF hypervisor
  <1>8. BetweenTurns'
    BY <1>2 DEF BetweenTurns, InTurn
  <1>9. DuringTurn'
    <2>1. \A v \in VMs : v # sched => gpc'[v] = gpc[v]
      BY DEF GuestDraw, TypeOK
    <2> QED BY <1>1, <1>2, <1>3, <1>5, <2>1, OtherVM DEF DuringTurn, hypervisor
  <1>10. ProducerTurn'
    BY <1>1, <1>2, <1>3, <1>4, <1>5, <1>6, SMTT(60) DEF ProducerTurn, TypeOK, hypervisor
  <1>11. ConsumerTurn'
    <2>1. Producer # Consumer
      BY DEF Producer, Consumer
    <2> QED BY <2>1, <1>1, <1>2, <1>3, <1>4, <1>5, <1>6 DEF ConsumerTurn, TypeOK, hypervisor
  <1> QED BY <1>6, <1>7, <1>8, <1>9, <1>10, <1>11

\* A step of a guest's loop leaves the positions of both guests alone.
LEMMA LoopFrame ==
    ASSUME IInv, GuestRuns("loop"), UNCHANGED <<hypervisor, pc, exit, gpc>>,
           todo[sched] > 0, todo' = [todo EXCEPT ![sched] = todo[sched] - 1],
           mem' \in [VMs -> BufferState], drawn' \in Seq(Items)
    PROVE  /\ sched' = sched /\ sched \in VMs /\ InTurn /\ InTurn'
           /\ todo[sched] \in 1 .. MaxBurst
           /\ todo'[sched] = todo[sched] - 1
           /\ TypeOK' /\ RingHoldsOutstanding' /\ BetweenTurns' /\ DuringTurn'
  <1> USE DEF IInv
  <1>1. sched_len' = sched_len /\ sched' = sched /\ InTurn /\ InTurn'
    BY SchedStable DEF GuestRuns, hypervisor, InTurn
  <1>2. sched \in VMs /\ pc = "kvm_run" /\ gpc[sched] = "loop"
    BY <1>1 DEF DuringTurn, GuestRuns
  <1>3. todo[sched] \in 1 .. MaxBurst /\ todo'[sched] = todo[sched] - 1
    BY <1>2 DEF TypeOK
  <1>4. todo' \in [VMs -> 0 .. MaxBurst]
    BY <1>3 DEF TypeOK
  <1>5. TypeOK'
    BY <1>1, <1>4 DEF TypeOK, hypervisor
  <1>6. RingHoldsOutstanding'
    BY RingFrame DEF hypervisor
  <1>7. BetweenTurns'
    BY <1>1 DEF BetweenTurns, InTurn
  <1>8. DuringTurn'
    <2>1. \A v \in VMs : v # sched => todo'[v] = todo[v]
      BY DEF TypeOK
    <2> QED BY <1>1, <1>2, <2>1 DEF DuringTurn, hypervisor
  <1> QED BY <1>1, <1>2, <1>3, <1>5, <1>6, <1>7, <1>8

\* The consumer's guest takes a value out.
LEMMA GuestConsumeIInv ==
    ASSUME IInv, GuestConsume PROVE IInv'
  <1> USE DEF IInv
  <1> DEFINE S == shared_state
             m == mem[sched]
  <1>1. InTurn /\ sched \in VMs /\ sched = Consumer /\ todo[sched] \in 1 .. MaxBurst
    BY DEF GuestConsume, GuestRuns, InTurn, DuringTurn, TypeOK
  <1>2. m \in BufferState /\ S \in BufferState
    BY <1>1 DEF TypeOK
  <1>3. m.count > 0 /\ m.count <= S.count /\ m.count \in 0 .. N /\ S.count \in 0 .. N
    BY <1>1, <1>2 DEF ConsumerTurn, BufferState
  <1>4. mem' \in [VMs -> BufferState] /\ mem'[sched] = Removed(m)
    BY <1>1, <1>2, <1>3, RemovedRing DEF GuestConsume, TypeOK
  <1>5. /\ sched' = sched /\ InTurn'
        /\ todo'[sched] = todo[sched] - 1
        /\ TypeOK' /\ RingHoldsOutstanding' /\ BetweenTurns' /\ DuringTurn'
    <2>1. /\ GuestRuns("loop") /\ UNCHANGED <<hypervisor, pc, exit, gpc>>
          /\ todo[sched] > 0 /\ todo' = [todo EXCEPT ![sched] = todo[sched] - 1]
          /\ drawn' \in Seq(Items)
      BY DEF GuestConsume, TypeOK
    <2> QED BY <2>1, <1>4, LoopFrame
  <1>6. ProducerTurn'
    BY <1>1, <1>5 DEF ProducerTurn, Producer, Consumer
  <1>7. Removed(m).cons_p = Wrap(S.cons_p + (S.count - Removed(m).count))
    <2>1. m.cons_p = Wrap(S.cons_p + (S.count - m.count))
      BY <1>1 DEF ConsumerTurn
    <2>2. Removed(m).cons_p = Wrap(m.cons_p + 1) /\ Removed(m).count = m.count - 1
      BY <1>2, <1>3, RemovedRing
    <2>3. S.cons_p \in 0 .. N - 1
      BY <1>2 DEF BufferState, Slots
    <2> DEFINE a == S.cons_p + (S.count - m.count)
    <2>4. a \in Nat /\ a + 1 < 2 * N
      BY <2>3, <1>3
    <2>5. a + 1 = S.cons_p + (S.count - (m.count - 1))
      BY <2>3, <1>3
    <2>6. Wrap(Wrap(a) + 1) = Wrap(a + 1)
      BY <2>4, Offset
    <2> QED BY <2>1, <2>2, <2>5, <2>6, Zenon
  <1>8. ConsumerTurn'
    <2>1. /\ Removed(m).prod_p = m.prod_p /\ Removed(m).buff = m.buff
          /\ Removed(m).count = m.count - 1
      BY <1>2, <1>3, RemovedRing
    <2> QED BY <2>1, <1>1, <1>3, <1>4, <1>5, <1>7 DEF ConsumerTurn, GuestConsume, hypervisor
  <1> QED BY <1>5, <1>6, <1>8


\* The producer's guest stores one.
LEMMA GuestProduceIInv ==
    ASSUME IInv, GuestProduce PROVE IInv'
  <1> USE DEF IInv
  <1> DEFINE S == shared_state
             m == mem[sched]
  <1>1. InTurn /\ sched \in VMs /\ sched = Producer /\ todo[sched] \in 1 .. MaxBurst
    BY DEF GuestProduce, GuestRuns, InTurn, DuringTurn, TypeOK
  <1>2. m \in BufferState /\ S \in BufferState
    BY <1>1 DEF TypeOK
  <1>3. /\ m.count \in Nat /\ S.count \in Nat /\ S.count <= m.count /\ m.count < N
        /\ m.count + todo[sched] <= N
        /\ m.count - S.count + todo[sched] <= MaxBurst
        /\ m.cons_p = S.cons_p
        /\ m.prod_p = Wrap(S.cons_p + m.count)
        /\ S.prod_p = Wrap(S.cons_p + S.count)
    BY <1>1, <1>2 DEF ProducerTurn, RingHoldsOutstanding, Outstanding, BufferState
  <1>4. PICK item \in Items : /\ mem' = [mem EXCEPT ![sched] = Stored(m, item)]
                              /\ drawn' = Append(drawn, item)
    BY DEF GuestProduce
  <1> DEFINE w == Stored(m, item)
             x == ProducedValues(S, m)
             y == ProducedValues(S, w)
  <1>5. w \in BufferState /\ w.cons_p = m.cons_p /\ w.count = m.count + 1
    BY <1>2, <1>3, StoredRing
  <1>6. /\ w.prod_p = Wrap(S.cons_p + w.count)
        /\ \A j \in 1 .. S.count :
              w.buff[Wrap(S.cons_p + j - 1)] = m.buff[Wrap(S.cons_p + j - 1)]
        /\ x \in Seq(Items)
        /\ y = Append(x, item)
    BY <1>2, <1>3, StoreStep, ZenonT(60)
  <1>7. mem' \in [VMs -> BufferState] /\ mem'[sched] = w
    BY <1>1, <1>4, <1>5 DEF TypeOK
  <1>8. drawn' \in Seq(Items)
    BY <1>4 DEF TypeOK
  <1>9. /\ sched' = sched /\ InTurn'
        /\ todo'[sched] = todo[sched] - 1
        /\ TypeOK' /\ RingHoldsOutstanding' /\ BetweenTurns' /\ DuringTurn'
    <2>1. /\ GuestRuns("loop") /\ UNCHANGED <<hypervisor, pc, exit, gpc>>
          /\ todo[sched] > 0 /\ todo' = [todo EXCEPT ![sched] = todo[sched] - 1]
      BY DEF GuestProduce
    <2> QED BY <2>1, <1>7, <1>8, LoopFrame
  <1>10. ConsumerTurn'
    BY <1>1, <1>9 DEF ConsumerTurn, Producer, Consumer
  <1>11. drawn' = produced \o y
    <2>1. drawn = produced \o x
      BY <1>1 DEF ProducerTurn
    <2>2. produced \in Seq(Items)
      BY DEF TypeOK
    <2> HIDE DEF x, y
    <2>3. Append(produced \o x, item) = produced \o Append(x, item)
      BY <2>2, <1>6, AppendConcat
    <2> QED BY <1>4, <1>6, <2>1, <2>3
  <1>12. \A j \in 1 .. S.count : w.buff[Wrap(S.cons_p + j - 1)] = S.buff[Wrap(S.cons_p + j - 1)]
    BY <1>1, <1>6 DEF ProducerTurn
  <1>13. UNCHANGED <<shared_state, produced>>
    BY DEF GuestProduce, hypervisor
  <1> HIDE DEF w, y
  <1>14. ProducerTurn'
    <2>1. todo[sched] \in Int /\ w.count = m.count + 1
      BY <1>1, <1>5
    <2>2. /\ w.cons_p = S.cons_p
          /\ S.count <= w.count
          /\ w.count + (todo[sched] - 1) <= N
          /\ w.count - S.count + (todo[sched] - 1) <= MaxBurst
      BY <2>1, <1>3, <1>5, SMTT(60)
    <2>3. y = ProducedValues(S, w)
      BY DEF y
    <2> QED BY <2>2, <2>3, <1>6, <1>7, <1>9, <1>11, <1>12, <1>13 DEF ProducerTurn
  <1> QED BY <1>9, <1>10, <1>14

\* The end of a turn, whoever's it was.
LEMMA EndTurnFrame ==
    ASSUME IInv, EndTurn
    PROVE  /\ InTurn /\ sched \in VMs /\ i < sched_len /\ i' = i + 1 /\ pc' = "turn"
           /\ sched_len' = sched_len /\ sched_len \in Nat
           /\ gpc[sched] = "in" /\ todo[sched] = 0
           /\ mem[sched] \in BufferState /\ shared_state \in BufferState
           /\ shared_state' = mem[sched]
           /\ \A v \in VMs : mem'[v] = mem[sched] /\ gpc'[v] = "in" /\ todo'[v] = 0
           /\ mem' \in [VMs -> BufferState]
           /\ UNCHANGED <<sched_file, exit, gpc, todo, drawn>>
  <1> USE DEF IInv
  <1>1. pc = "exited" /\ exit = DoneExit(sched) /\ InTurn
    BY DEF EndTurn, InTurn
  <1>2. i < sched_len /\ sched \in VMs /\ gpc[Other(sched)] = "in"
    BY <1>1 DEF DuringTurn
  <1>3. gpc[sched] = "in"
    BY <1>1 DEF DuringTurn, ReadExit, ShutdownExit, DoneExit
  <1>4. \A v \in VMs : gpc[v] = "in" /\ todo[v] = 0
    BY <1>2, <1>3, OtherVM DEF DuringTurn
  <1>5. mem[sched] \in BufferState /\ shared_state \in BufferState
    BY <1>2 DEF TypeOK
  <1>6. mem' \in [VMs -> BufferState] /\ \A v \in VMs : mem'[v] = mem[sched]
    BY <1>2, <1>5, OtherVM DEF EndTurn, SyncToOther, TypeOK
  <1> QED BY <1>1, <1>2, <1>4, <1>5, <1>6, SchedStable DEF EndTurn

\* The hypervisor takes the producer's ring over.
LEMMA EndProducerTurnIInv ==
    ASSUME IInv, EndProducerTurn PROVE IInv'
  <1> USE DEF IInv
  <1> DEFINE S == shared_state
             m == mem[sched]
             x == ProducedValues(S, m)
  <1>1. EndTurn /\ sched = Producer /\ produced' = produced \o x /\ UNCHANGED consumed
    BY DEF EndProducerTurn
  <1>2. /\ InTurn /\ i < sched_len /\ i' = i + 1 /\ pc' = "turn"
        /\ sched_len' = sched_len /\ sched_len \in Nat
        /\ m \in BufferState /\ S \in BufferState /\ shared_state' = m
        /\ \A v \in VMs : mem'[v] = m /\ gpc'[v] = "in" /\ todo'[v] = 0
        /\ mem' \in [VMs -> BufferState]
        /\ UNCHANGED <<sched_file, exit, gpc, todo, drawn>>
    BY <1>1, EndTurnFrame
  <1>3. produced \in Seq(Items) /\ consumed \in Seq(Items)
    BY DEF TypeOK
  <1>4. /\ S.count <= m.count /\ m.cons_p = S.cons_p
        /\ m.prod_p = Wrap(S.cons_p + m.count)
        /\ \A j \in 1 .. S.count :
              m.buff[Wrap(S.cons_p + j - 1)] = S.buff[Wrap(S.cons_p + j - 1)]
        /\ drawn = produced \o x
    BY <1>1, <1>2 DEF ProducerTurn
  <1>5. Outstanding(S, produced, consumed)
    BY DEF RingHoldsOutstanding
  <1>6. x \in Seq(Items) /\ Outstanding(m, produced \o x, consumed)
    BY <1>2, <1>3, <1>4, <1>5, ProducerHandsOver, Zenon
  <1> HIDE DEF x
  <1>7. TypeOK'
    <2>1. produced' \in Seq(Items)
      BY <1>1, <1>3, <1>6
    <2>2. i' \in 0 .. sched_len'
      BY <1>2 DEF TypeOK
    <2> QED BY <1>1, <1>2, <2>1, <2>2 DEF TypeOK
  <1>8. RingHoldsOutstanding'
    BY <1>1, <1>2, <1>6 DEF RingHoldsOutstanding
  <1>9. BetweenTurns' /\ DuringTurn' /\ ProducerTurn' /\ ConsumerTurn'
    BY <1>1, <1>2, <1>4
    DEF BetweenTurns, DuringTurn, ProducerTurn, ConsumerTurn, InTurn
  <1> QED BY <1>7, <1>8, <1>9

\* The hypervisor takes the consumer's ring over.
LEMMA EndConsumerTurnIInv ==
    ASSUME IInv, EndConsumerTurn PROVE IInv'
  <1> USE DEF IInv
  <1> DEFINE S == shared_state
             m == mem[sched]
             x == ConsumedValues(S, m)
  <1>1. EndTurn /\ sched = Consumer /\ consumed' = consumed \o x /\ UNCHANGED produced
    BY DEF EndConsumerTurn
  <1>2. /\ InTurn /\ i < sched_len /\ i' = i + 1 /\ pc' = "turn"
        /\ sched_len' = sched_len /\ sched_len \in Nat
        /\ m \in BufferState /\ S \in BufferState /\ shared_state' = m
        /\ \A v \in VMs : mem'[v] = m /\ gpc'[v] = "in" /\ todo'[v] = 0
        /\ mem' \in [VMs -> BufferState]
        /\ UNCHANGED <<sched_file, exit, gpc, todo, drawn>>
    BY <1>1, EndTurnFrame
  <1>3. produced \in Seq(Items) /\ consumed \in Seq(Items)
    BY DEF TypeOK
  <1>4. /\ m.count <= S.count /\ m.prod_p = S.prod_p /\ m.buff = S.buff
        /\ m.cons_p = Wrap(S.cons_p + (S.count - m.count))
        /\ drawn = produced
    BY <1>1, <1>2 DEF ConsumerTurn
  <1>5. Outstanding(S, produced, consumed)
    BY DEF RingHoldsOutstanding
  <1>6. x \in Seq(Items) /\ Outstanding(m, produced, consumed \o x)
    BY <1>2, <1>3, <1>4, <1>5, ConsumerHandsOver, Zenon
  <1> HIDE DEF x
  <1>7. TypeOK'
    <2>1. consumed' \in Seq(Items)
      BY <1>1, <1>3, <1>6
    <2>2. i' \in 0 .. sched_len'
      BY <1>2 DEF TypeOK
    <2> QED BY <1>1, <1>2, <2>1, <2>2 DEF TypeOK
  <1>8. RingHoldsOutstanding'
    BY <1>1, <1>2, <1>6 DEF RingHoldsOutstanding
  <1>9. BetweenTurns' /\ DuringTurn' /\ ProducerTurn' /\ ConsumerTurn'
    BY <1>1, <1>2, <1>4
    DEF BetweenTurns, DuringTurn, ProducerTurn, ConsumerTurn, InTurn
  <1> QED BY <1>7, <1>8, <1>9

\* Nothing happens.
LEMMA StutterIInv ==
    ASSUME IInv, UNCHANGED vars PROVE IInv'
  BY DEF vars, IInv, TypeOK, RingHoldsOutstanding, Outstanding, BetweenTurns, DuringTurn,
         ProducerTurn, ConsumerTurn, InTurn, sched, sched_order, sched_len

-----------------------------------------------------------------------------
(* Theorems                                                                *)

\* IInv is an invariant of the hypervisor and its guests, for every schedule,
\* every ring size and every choice the guests make (emu4.c:184-278).
THEOREM Invariance == Spec => []IInv
  <1>1. IInv /\ [Next]_vars => IInv'
    <2> SUFFICES ASSUME IInv, [Next]_vars PROVE IInv'
      OBVIOUS
    <2>1. CASE Schedule
      BY <2>1, ScheduleIInv
    <2>2. CASE SkipCharacter
      BY <2>2, SkipCharacterIInv
    <2>3. CASE Finish \/ RunFails
      BY <2>3, StopIInv
    <2>4. CASE GuestIn \/ GuestOut \/ GuestShutsDown \/ ContinueRun
      BY <2>4, ControlIInv
    <2>5. CASE GuestDraw
      BY <2>5, GuestDrawIInv
    <2>6. CASE GuestProduce
      BY <2>6, GuestProduceIInv
    <2>7. CASE GuestConsume
      BY <2>7, GuestConsumeIInv
    <2>8. CASE EndProducerTurn
      BY <2>8, EndProducerTurnIInv
    <2>9. CASE EndConsumerTurn
      BY <2>9, EndConsumerTurnIInv
    <2>10. CASE Terminated \/ UNCHANGED vars
      BY <2>10, StutterIInv DEF Terminated
    <2> QED BY <2>1, <2>2, <2>3, <2>4, <2>5, <2>6, <2>7, <2>8, <2>9, <2>10 DEF Next
  <1> QED BY <1>1, InitIInv, PTL DEF Spec

\* Every variable keeps its type: pointers and counts stay inside the ring.
THEOREM TypeCorrect == Spec => []TypeOK
  <1>1. IInv => TypeOK
    BY DEF IInv
  <1> QED BY <1>1, Invariance, PTL

\* Two sequences with the same elements are the same.
LEMMA SameElements ==
    ASSUME NEW s \in Seq(Items), NEW t \in Seq(Items), Len(s) = Len(t),
           \A j \in 1 .. Len(s) : s[j] = t[j]
    PROVE  s = t
  BY SeqEqual

\* The listing printed after every turn is the queue of outstanding values.
THEOREM QueueCorrect == Spec => []QueueShown
  <1>1. IInv => QueueShown
    <2> SUFFICES ASSUME IInv PROVE Listing(shared_state) =
                                     SubSeq(produced, Len(consumed) + 1, Len(produced))
      BY DEF QueueShown
    <2> DEFINE st == shared_state
               l == Listing(st)
               q == SubSeq(produced, Len(consumed) + 1, Len(produced))
    <2>1. /\ st \in BufferState /\ st.cons_p \in Slots /\ st.count \in 0 .. N
          /\ produced \in Seq(Items) /\ Len(produced) \in Nat /\ Len(consumed) \in Nat
      BY DEF IInv, TypeOK, BufferState
    <2>2. /\ st.count = Len(produced) - Len(consumed)
          /\ \A j \in 1 .. st.count : st.buff[Wrap(st.cons_p + j - 1)] = produced[Len(consumed) + j]
      BY DEF IInv, RingHoldsOutstanding, Outstanding
    <2>3. /\ l \in Seq(Items) /\ Len(l) = st.count
          /\ \A j \in 1 .. st.count : l[j] = st.buff[Wrap(st.cons_p + j - 1)]
      <3>1. l = CellsFrom(st, st.cons_p, st.count)
        BY DEF Listing
      <3> HIDE DEF st, l
      <3> QED BY <2>1, <3>1, CellsType, Zenon
    <2>4. /\ q \in Seq(Items) /\ Len(q) = st.count
          /\ \A j \in 1 .. st.count : q[j] = produced[Len(consumed) + j]
      <3> DEFINE a == Len(consumed) + 1
                 b == Len(produced)
      <3>1. /\ a \in Int /\ b \in Int /\ b - a + 1 = st.count
            /\ \A j \in a .. b : produced[j] \in Items
            /\ (IF a <= b THEN b - a + 1 ELSE 0) = st.count
            /\ \A j \in 1 .. st.count : a + j - 1 = Len(consumed) + j
        BY <2>1, <2>2
      <3> HIDE DEF a, b
      <3>2. /\ SubSeq(produced, a, b) \in Seq(Items)
            /\ Len(SubSeq(produced, a, b)) = IF a <= b THEN b - a + 1 ELSE 0
            /\ \A j \in 1 .. b - a + 1 : SubSeq(produced, a, b)[j] = produced[a + j - 1]
        BY <3>1, SubSeqProperties
      <3>3. q = SubSeq(produced, a, b)
        BY DEF a, b
      <3> QED BY <3>1, <3>2, <3>3
    <2> HIDE DEF l, q
    <2>5. l = q
      BY <2>2, <2>3, <2>4, SameElements
    <2> QED BY <2>5 DEF l, q
  <1> QED BY <1>1, Invariance, PTL

\* A prefix is determined by its elements.
LEMMA PrefixOf ==
    ASSUME NEW s \in Seq(Items), NEW t \in Seq(Items), Len(s) <= Len(t),
           \A j \in 1 .. Len(s) : s[j] = t[j]
    PROVE  s = SubSeq(t, 1, Len(s))
  <1> DEFINE n == Len(s)
             u == SubSeq(t, 1, n)
  <1>1. n \in Int /\ n >= 0 /\ n <= Len(t) /\ \A j \in 1 .. n : t[j] \in Items
    OBVIOUS
  <1> HIDE DEF n
  <1>2. /\ SubSeq(t, 1, n) \in Seq(Items)
        /\ Len(SubSeq(t, 1, n)) = IF 1 <= n THEN n - 1 + 1 ELSE 0
        /\ \A j \in 1 .. n - 1 + 1 : SubSeq(t, 1, n)[j] = t[1 + j - 1]
    BY <1>1, SubSeqProperties
  <1>3. /\ u \in Seq(Items) /\ Len(u) = n /\ \A j \in 1 .. n : u[j] = t[j]
    BY <1>1, <1>2
  <1> HIDE DEF u
  <1>4. s = u
    BY <1>3, SameElements DEF n
  <1> QED BY <1>4 DEF u, n

\* What is printed as consumed is what was printed as produced, in order.
THEOREM ConsumedCorrect == Spec => []ConsumedInOrder
  <1>1. IInv => ConsumedInOrder
    <2> SUFFICES ASSUME IInv PROVE ConsumedInOrder
      OBVIOUS
    <2>1. /\ shared_state.count \in Nat
          /\ produced \in Seq(Items) /\ consumed \in Seq(Items)
      BY DEF IInv, TypeOK, BufferState
    <2>2. /\ shared_state.count = Len(produced) - Len(consumed)
          /\ \A k \in 1 .. Len(consumed) : consumed[k] = produced[k]
      BY DEF IInv, RingHoldsOutstanding, Outstanding
    <2>3. Len(consumed) <= Len(produced)
      BY <2>1, <2>2
    <2>4. consumed = SubSeq(produced, 1, Len(consumed))
      BY <2>1, <2>2, <2>3, PrefixOf
    <2> QED BY <2>2, <2>4 DEF ConsumedInOrder
  <1> QED BY <1>1, Invariance, PTL

\* The hypervisor's print-outs are the items the producer's guest stored.
THEOREM PrintCorrect == Spec => []PrintedAsDrawn
  <1>1. IInv => PrintedAsDrawn
    BY DEF IInv, BetweenTurns, PrintedAsDrawn
  <1> QED BY <1>1, Invariance, PTL

\* A turn never disturbs an unread value.
THEOREM UnreadSafe == Spec => []UnreadCellsKept
  <1>1. IInv => UnreadCellsKept
    <2> SUFFICES ASSUME IInv, InTurn PROVE UnreadCellsKept
      BY DEF UnreadCellsKept
    <2>1. sched \in VMs
      BY DEF IInv, DuringTurn
    <2>2. \A j \in 1 .. shared_state.count :
             mem[sched].buff[Wrap(shared_state.cons_p + j - 1)]
               = shared_state.buff[Wrap(shared_state.cons_p + j - 1)]
      BY <2>1 DEF IInv, ProducerTurn, ConsumerTurn, VMs
    <2> QED BY <2>2 DEF UnreadCellsKept, Listing, CellsFrom
  <1> QED BY <1>1, Invariance, PTL

\* Between turns the hypervisor and both guests have the same ring, whoever had
\* the last turns (emu4.c:184-278).
THEOREM CopiesAgree == Spec => []Synchronized
  <1>1. IInv => Synchronized
    BY DEF IInv, BetweenTurns, Synchronized
  <1> QED BY <1>1, Invariance, PTL

\* Both guests start every turn at the top of their loops, and end it with the
\* exit the hypervisor waits for.
THEOREM TurnsCorrect == Spec => []TurnsAligned
  <1>1. IInv => TurnsAligned
    <2> SUFFICES ASSUME IInv PROVE TurnsAligned
      OBVIOUS
    <2>1. pc \in {"turn", "done"} => \A v \in VMs : gpc[v] = "in" /\ todo[v] = 0
      BY DEF IInv, BetweenTurns, DuringTurn
    <2>2. ASSUME pc = "exited", exit = DoneExit(sched)
          PROVE  gpc[sched] = "in" /\ todo[sched] = 0
      <3>1. sched \in VMs
        BY <2>2 DEF IInv, DuringTurn, InTurn
      <3>2. gpc[sched] = "in"
        BY <2>2 DEF IInv, DuringTurn, ReadExit, ShutdownExit, DoneExit
      <3> QED BY <3>1, <3>2 DEF IInv, DuringTurn
    <2> QED BY <2>1, <2>2 DEF TurnsAligned
  <1> QED BY <1>1, Invariance, PTL

\* The end of a producer's turn puts one burst into the channel.
LEMMA ProducerTurnPuts ==
    ASSUME IInv, EndProducerTurn PROVE FIFO!Put
  <1> DEFINE S == shared_state
             m == mem[sched]
             x == ProducedValues(S, m)
             n == m.count - S.count
  <1>1. EndTurn /\ sched = Producer /\ produced' = produced \o x /\ UNCHANGED consumed
    BY DEF EndProducerTurn
  <1>2. InTurn /\ m \in BufferState /\ S \in BufferState /\ todo[sched] = 0
    BY <1>1, EndTurnFrame
  <1>3. produced \in Seq(Items) /\ consumed \in Seq(Items)
    BY DEF IInv, TypeOK
  <1>4. /\ S.count <= m.count /\ m.cons_p = S.cons_p
        /\ m.count - S.count + todo[sched] <= MaxBurst
        /\ m.prod_p = Wrap(S.cons_p + m.count)
        /\ \A j \in 1 .. S.count :
              m.buff[Wrap(S.cons_p + j - 1)] = S.buff[Wrap(S.cons_p + j - 1)]
    BY <1>1, <1>2 DEF IInv, ProducerTurn
  <1>5. Outstanding(S, produced, consumed)
    BY DEF IInv, RingHoldsOutstanding
  <1>6. x \in Seq(Items) /\ Len(x) = n
    BY <1>2, <1>3, <1>4, <1>5, ProducerHandsOver, Zenon
  <1>7. S.count = Len(produced) - Len(consumed)
    BY <1>5 DEF Outstanding
  <1>8. n \in 0 .. MaxBurst /\ Len(produced) - Len(consumed) + n <= N
    <2>1. m.count \in 0 .. N /\ S.count \in 0 .. N
      BY <1>2 DEF BufferState
    <2>2. m.count - S.count <= MaxBurst
      BY <1>2, <1>4, <2>1
    <2> QED BY <2>1, <2>2, <1>4, <1>7
  <1> HIDE DEF x, n
  <1>9. x \in [1 .. n -> Items]
    BY <1>6, LenProperties
  <1> QED BY <1>1, <1>8, <1>9 DEF FIFO!Put, FIFO!InTransit

\* The end of a consumer's turn takes one burst from it.
LEMMA ConsumerTurnTakes ==
    ASSUME IInv, EndConsumerTurn PROVE FIFO!Take
  <1> DEFINE S == shared_state
             m == mem[sched]
             x == ConsumedValues(S, m)
             n == S.count - m.count
  <1>1. EndTurn /\ sched = Consumer /\ consumed' = consumed \o x /\ UNCHANGED produced
    BY DEF EndConsumerTurn
  <1>2. InTurn /\ m \in BufferState /\ S \in BufferState /\ todo[sched] = 0
    BY <1>1, EndTurnFrame
  <1>3. produced \in Seq(Items) /\ consumed \in Seq(Items)
    BY DEF IInv, TypeOK
  <1>4. /\ m.count <= S.count /\ m.prod_p = S.prod_p /\ m.buff = S.buff
        /\ S.count - m.count + todo[sched] <= MaxBurst
        /\ m.cons_p = Wrap(S.cons_p + (S.count - m.count))
    BY <1>1, <1>2 DEF IInv, ConsumerTurn
  <1>5. Outstanding(S, produced, consumed)
    BY DEF IInv, RingHoldsOutstanding
  <1>6. x \in Seq(Items) /\ Len(x) = n /\ Outstanding(m, produced, consumed \o x)
    BY <1>2, <1>3, <1>4, <1>5, ConsumerHandsOver, Zenon
  <1>7. S.count = Len(produced) - Len(consumed)
    BY <1>5 DEF Outstanding
  <1>8. n \in 0 .. MaxBurst /\ n <= Len(produced) - Len(consumed)
    <2>1. m.count \in 0 .. N /\ S.count \in 0 .. N
      BY <1>2 DEF BufferState
    <2>2. S.count - m.count <= MaxBurst
      BY <1>2, <1>4, <2>1
    <2> QED BY <2>1, <2>2, <1>4, <1>7
  <1> HIDE DEF x, n
  <1>9. consumed' \in Seq(Items) /\ Len(consumed') = Len(consumed) + n
    BY <1>1, <1>3, <1>6, ConcatProperties
  <1>10. Len(consumed') <= Len(produced)
    BY <1>3, <1>8, <1>9
  <1>11. \A j \in 1 .. Len(consumed') : consumed'[j] = produced[j]
    BY <1>1, <1>6 DEF Outstanding
  <1>12. consumed' = SubSeq(produced, 1, Len(consumed) + n)
    <2> DEFINE s == consumed'
    <2>1. s \in Seq(Items) /\ Len(s) <= Len(produced)
          /\ \A j \in 1 .. Len(s) : s[j] = produced[j]
      BY <1>9, <1>10, <1>11
    <2> HIDE DEF s
    <2>2. s = SubSeq(produced, 1, Len(s))
      BY <2>1, <1>3, PrefixOf
    <2> QED BY <2>2, <1>9 DEF s
  <1> QED BY <1>1, <1>8, <1>12 DEF FIFO!Take, FIFO!InTransit

\* The hypervisor and its guests implement a bounded FIFO channel: of every
\* schedule, what is printed as consumed was produced first, in order, and no
\* more than N values are ever in transit.
THEOREM Refinement == Spec => ImplementsFifo
  <1>1. Init => FIFO!Init
    BY DEF Init, FIFO!Init
  <1>2. IInv /\ [Next]_vars => [FIFO!Next]_(FIFO!vars)
    <2> SUFFICES ASSUME IInv, [Next]_vars PROVE [FIFO!Next]_(FIFO!vars)
      OBVIOUS
    <2>1. CASE EndProducerTurn
      BY <2>1, ProducerTurnPuts DEF FIFO!Next
    <2>2. CASE EndConsumerTurn
      BY <2>2, ConsumerTurnTakes DEF FIFO!Next
    <2>3. CASE UNCHANGED <<produced, consumed>>
      BY <2>3 DEF FIFO!vars
    <2>4. EndProducerTurn \/ EndConsumerTurn \/ UNCHANGED <<produced, consumed>>
      BY DEF Next, vars, hypervisor, Schedule, SkipCharacter, Finish, GuestIn, GuestDraw,
             GuestProduce, GuestConsume, GuestOut, GuestShutsDown, RunFails, ContinueRun, Terminated
    <2> QED BY <2>1, <2>2, <2>3, <2>4
  <1> QED BY <1>1, <1>2, Invariance, PTL DEF Spec, ImplementsFifo, FIFO!Spec
=============================================================================
