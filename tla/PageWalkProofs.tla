--------------------------- MODULE PageWalkProofs ---------------------------
(***************************************************************************)
(* Proofs about PageWalk, for every set of address spaces, every size of   *)
(* the page tables and whatever the process does meanwhile: at every step  *)
(* the sums of lkm4 and lkm5 are as exact as they can be of what changes   *)
(* under the walk.                                                         *)
(*                                                                         *)
(* The sums are cardinalities.  Each step adds a page or a region to a set *)
(* that the walk has gone past, and it is new to it because the areas are  *)
(* disjoint and the walk only goes forward.  That lkm5 misses no huge page *)
(* although it may land in the middle of one, or past the area's end, is   *)
(* the lemma OnlyThisHuge.                                                 *)
(***************************************************************************)
EXTENDS PageWalk, Integers, SequenceTheorems, FiniteSetTheorems, TLAPS

-----------------------------------------------------------------------------
(* Regions                                                                 *)

\* The first page of a region.
FirstPage(r) == r * PmdPages

\* A page lies in its region.
LEMMA InRegion ==
    ASSUME NEW p \in Nat
    PROVE  /\ Region(p) \in Nat /\ FirstPage(Region(p)) \in Nat
           /\ FirstPage(Region(p)) <= p /\ p < FirstPage(Region(p)) + PmdPages
  BY SpaceAssumption DEF Region, FirstPage

\* And no other page does.
LEMMA OnlyRegion ==
    ASSUME NEW r \in Nat, NEW p \in Nat,
           FirstPage(r) <= p, p < FirstPage(r) + PmdPages
    PROVE  Region(p) = r
  BY SpaceAssumption DEF Region, FirstPage

\* A region that has a page has all of them.
LEMMA WholeRegion ==
    ASSUME NEW p \in Pages,
           NEW q \in Nat, FirstPage(Region(p)) <= q, q < FirstPage(Region(p)) + PmdPages
    PROVE  q \in Pages /\ Region(q) = Region(p)
  <1>1. p \in Nat /\ PmdPages \in Nat
    BY SpaceAssumption
  <1>2. Region(p) \in Nat /\ FirstPage(Region(p)) \in Nat
    BY <1>1, InRegion
  <1>3. q \in FirstPage(Region(p)) .. (FirstPage(Region(p)) + PmdPages - 1)
    BY <1>1, <1>2
  <1>4. q \in Pages
    BY <1>3, SpaceAssumption DEF FirstPage
  <1> QED BY <1>2, <1>4, OnlyRegion

-----------------------------------------------------------------------------
(* Areas                                                                   *)

\* What WellFormed says of one area.
LEMMA AreaFacts ==
    ASSUME NEW s \in Spaces
    PROVE  /\ Len(s.vmas) \in Nat
           /\ \A j \in 1 .. Len(s.vmas) :
                 /\ s.vmas[j].start \in Nat /\ s.vmas[j].end \in Nat
                 /\ s.vmas[j].start < s.vmas[j].end
                 /\ VmaPages(s, j) \subseteq Pages
                 /\ s.vmas[j].start \in VmaPages(s, j)
           /\ \A i, j \in 1 .. Len(s.vmas) : i < j => s.vmas[i].end <= s.vmas[j].start
  <1>1. WellFormed(s) /\ Pages \subseteq Nat
    BY SpaceAssumption
  <1>2. s.vmas \in Seq([start : Pages, end : Nat])
    BY <1>1 DEF WellFormed
  <1>3. \A j \in 1 .. Len(s.vmas) : s.vmas[j] \in [start : Pages, end : Nat]
    <2> DEFINE areas == s.vmas
    <2>1. areas \in Seq([start : Pages, end : Nat])
      BY <1>2
    <2> HIDE DEF areas
    <2>2. \A j \in 1 .. Len(areas) : areas[j] \in [start : Pages, end : Nat]
      BY <2>1, ElementOfSeq
    <2> QED BY <2>2 DEF areas
  <1>4. \A j \in 1 .. Len(s.vmas) : s.vmas[j].start < s.vmas[j].end /\ VmaPages(s, j) \subseteq Pages
    BY <1>1 DEF WellFormed
  <1>5. \A i, j \in 1 .. Len(s.vmas) : i < j => s.vmas[i].end <= s.vmas[j].start
    BY <1>1, Zenon DEF WellFormed
  <1>6. \A j \in 1 .. Len(s.vmas) : s.vmas[j].start \in Nat /\ s.vmas[j].end \in Nat
    BY <1>1, <1>3
  <1>7. \A j \in 1 .. Len(s.vmas) : s.vmas[j].start \in VmaPages(s, j)
    BY <1>4, <1>6 DEF VmaPages
  <1> QED BY <1>2, <1>4, <1>5, <1>6, <1>7

\* Two areas share no page.
LEMMA AreasDisjoint ==
    ASSUME NEW s \in Spaces, NEW i \in 1 .. Len(s.vmas), NEW j \in 1 .. Len(s.vmas),
           NEW p, p \in VmaPages(s, i), p \in VmaPages(s, j)
    PROVE  i = j
  <1>1. /\ s.vmas[i].start \in Nat /\ s.vmas[i].end \in Nat
        /\ s.vmas[j].start \in Nat /\ s.vmas[j].end \in Nat
        /\ i < j => s.vmas[i].end <= s.vmas[j].start
        /\ j < i => s.vmas[j].end <= s.vmas[i].start
    BY AreaFacts
  <1>2. /\ p \in Int /\ s.vmas[i].start <= p /\ p < s.vmas[i].end
        /\ s.vmas[j].start <= p /\ p < s.vmas[j].end
    BY <1>1 DEF VmaPages
  <1> QED BY <1>1, <1>2, AreaFacts

\* The areas begun are finitely many pages.
LEMMA AreasFinite ==
    ASSUME NEW s \in Spaces, NEW j \in 0 .. Len(s.vmas)
    PROVE  /\ AreasUpTo(s, j) \subseteq Pages /\ IsFiniteSet(AreasUpTo(s, j))
           /\ Cardinality(AreasUpTo(s, j)) \in Nat
  <1>1. AreasUpTo(s, j) \subseteq Pages
    BY AreaFacts DEF AreasUpTo
  <1>2. IsFiniteSet(AreasUpTo(s, j))
    BY <1>1, SpaceAssumption, FS_Subset
  <1> QED BY <1>1, <1>2, FS_CardinalityType

\* Beginning an area adds its pages, which are new.
LEMMA NextArea ==
    ASSUME NEW s \in Spaces, NEW j \in 0 .. Len(s.vmas) - 1
    PROVE  /\ AreasUpTo(s, j + 1) = AreasUpTo(s, j) \cup VmaPages(s, j + 1)
           /\ AreasUpTo(s, j) \cap VmaPages(s, j + 1) = {}
           /\ Cardinality(AreasUpTo(s, j + 1)) =
                 Cardinality(AreasUpTo(s, j)) + (s.vmas[j + 1].end - s.vmas[j + 1].start)
  <1>1. Len(s.vmas) \in Nat /\ j + 1 \in 1 .. Len(s.vmas)
    BY AreaFacts
  <1>2. 1 .. j + 1 = (1 .. j) \cup {j + 1}
    BY <1>1
  <1>3. AreasUpTo(s, j + 1) = AreasUpTo(s, j) \cup VmaPages(s, j + 1)
    BY <1>2 DEF AreasUpTo
  <1>4. AreasUpTo(s, j) \cap VmaPages(s, j + 1) = {}
    <2> SUFFICES ASSUME NEW p, p \in AreasUpTo(s, j), p \in VmaPages(s, j + 1)
                 PROVE  FALSE
      OBVIOUS
    <2>1. PICK i \in 1 .. j : p \in VmaPages(s, i)
      BY DEF AreasUpTo
    <2>2. i \in 1 .. Len(s.vmas) /\ i # j + 1
      BY <1>1, <2>1
    <2> QED BY <1>1, <2>1, <2>2, AreasDisjoint
  <1>5. /\ IsFiniteSet(VmaPages(s, j + 1))
        /\ Cardinality(VmaPages(s, j + 1)) = s.vmas[j + 1].end - s.vmas[j + 1].start
    <2>1. /\ s.vmas[j + 1].start \in Nat /\ s.vmas[j + 1].end \in Nat
          /\ s.vmas[j + 1].start < s.vmas[j + 1].end
      BY <1>1, AreaFacts
    <2> DEFINE a == s.vmas[j + 1].start
               b == s.vmas[j + 1].end - 1
    <2>2. a \in Int /\ b \in Int /\ a <= b
      BY <2>1
    <2> HIDE DEF a, b
    <2>3. IsFiniteSet(a .. b) /\ Cardinality(a .. b) = b - a + 1
      BY <2>2, FS_Interval
    <2> QED BY <2>1, <2>3 DEF a, b, VmaPages
  <1>6. IsFiniteSet(AreasUpTo(s, j)) /\ Cardinality(AreasUpTo(s, j)) \in Nat
    BY <1>1, AreasFinite
  <1>7. Cardinality(AreasUpTo(s, j) \cap VmaPages(s, j + 1)) = 0
    BY <1>4, FS_EmptySet
  <1>8. Cardinality(AreasUpTo(s, j) \cup VmaPages(s, j + 1)) =
           Cardinality(AreasUpTo(s, j)) + Cardinality(VmaPages(s, j + 1))
              - Cardinality(AreasUpTo(s, j) \cap VmaPages(s, j + 1))
    BY <1>5, <1>6, FS_Union
  <1>9. s.vmas[j + 1].end - s.vmas[j + 1].start \in Int
    BY <1>1, AreaFacts
  <1>10. Cardinality(AreasUpTo(s, j + 1)) =
            Cardinality(AreasUpTo(s, j)) + (s.vmas[j + 1].end - s.vmas[j + 1].start)
    <2> DEFINE c == Cardinality(AreasUpTo(s, j))
               n == s.vmas[j + 1].end - s.vmas[j + 1].start
    <2>1. Cardinality(AreasUpTo(s, j + 1)) = c + n - 0
      BY <1>3, <1>5, <1>7, <1>8
    <2>2. c \in Int /\ n \in Int
      BY <1>6, <1>9
    <2> HIDE DEF c, n
    <2>3. Cardinality(AreasUpTo(s, j + 1)) = c + n
      BY <2>1, <2>2
    <2> QED BY <2>3 DEF c, n
  <1> QED BY <1>3, <1>4, <1>10

-----------------------------------------------------------------------------
(* Huge pages                                                              *)

\* An entry of the level pmd covers the pages from its first one on.
LEMMA RegionOfPage ==
    ASSUME NEW p \in Pages
    PROVE  /\ Region(p) \in Nat /\ FirstPage(Region(p)) \in Nat
           /\ RegionPages(Region(p)) =
                 FirstPage(Region(p)) .. FirstPage(Region(p)) + PmdPages - 1
           /\ FirstPage(Region(p)) \in RegionPages(Region(p))
  <1> DEFINE r == Region(p)
             f == FirstPage(r)
  <1>1. p \in Nat /\ Pages \subseteq Nat /\ PmdPages \in Nat /\ PmdPages > 0
    BY SpaceAssumption
  <1>2. r \in Nat /\ f \in Nat
    BY <1>1, InRegion
  <1>3. \A q \in f .. f + PmdPages - 1 : q \in Pages /\ Region(q) = r
    <2> TAKE q \in f .. f + PmdPages - 1
    <2>1. q \in Nat /\ f <= q /\ q < f + PmdPages
      BY <1>1, <1>2
    <2> QED BY <2>1, WholeRegion
  <1>4. \A q \in Pages : Region(q) = r => q \in f .. f + PmdPages - 1
    <2> TAKE q \in Pages
    <2> HAVE Region(q) = r
    <2>1. q \in Nat
      BY <1>1
    <2>2. FirstPage(Region(q)) <= q /\ q < FirstPage(Region(q)) + PmdPages
      BY <2>1, InRegion
    <2> QED BY <1>1, <1>2, <2>1, <2>2
  <1>5. f \in f .. f + PmdPages - 1
    BY <1>1, <1>2
  <1> HIDE DEF r, f
  <1>6. RegionPages(r) = f .. f + PmdPages - 1
    BY <1>3, <1>4 DEF RegionPages
  <1> QED BY <1>2, <1>5, <1>6 DEF r, f

\* The regions are finitely many.
LEMMA RegionsFinite == Regions \subseteq Nat /\ IsFiniteSet(Regions)
  <1> DEFINE f == [r \in Regions |-> FirstPage(r)]
  <1>1. \A r \in Regions : r \in Nat /\ FirstPage(r) \in Pages /\ Region(FirstPage(r)) = r
    <2> TAKE r \in Regions
    <2>1. PICK p \in Pages : r = Region(p)
      BY DEF Regions
    <2> QED BY <2>1, RegionOfPage DEF RegionPages
  <1>2. f \in [Regions -> Pages]
    BY <1>1
  <1>3. \A a, b \in Regions : f[a] = f[b] => a = b
    BY <1>1
  <1> HIDE DEF f
  <1>4. f \in Injection(Regions, Pages)
    BY <1>2, <1>3 DEF Injection, IsInjective
  <1>5. IsFiniteSet(Regions)
    BY <1>4, SpaceAssumption, FS_Injection
  <1> QED BY <1>1, <1>5

\* A huge page lies in one area: the one that any of its pages is in.
LEMMA HugeInArea ==
    ASSUME NEW s \in Spaces, NEW r \in HugeRegions(s), NEW j \in 1 .. Len(s.vmas),
           NEW p \in RegionPages(r), p \in VmaPages(s, j)
    PROVE  RegionPages(r) \subseteq VmaPages(s, j)
  <1>1. r \in Regions /\ s.dir[r] = "huge" /\ WellFormed(s)
    BY SpaceAssumption DEF HugeRegions
  <1>2. PICK i \in 1 .. Len(s.vmas) : RegionPages(r) \subseteq VmaPages(s, i)
    <2>1. \A q \in Regions : s.dir[q] = "huge" =>
             \E i \in 1 .. Len(s.vmas) : RegionPages(q) \subseteq VmaPages(s, i)
      BY <1>1, Zenon DEF WellFormed
    <2> QED BY <1>1, <2>1
  <1>3. i = j
    BY <1>2, AreasDisjoint
  <1> QED BY <1>2, <1>3

\* What a table can hold are pages.
LEMMA TablePagesTyped ==
    ASSUME NEW s \in Spaces
    PROVE  TablePages(s) \subseteq Pages /\ HugeRegions(s) \subseteq Regions
  <1>1. Len(s.vmas) \in 0 .. Len(s.vmas)
    BY AreaFacts
  <1>2. AllAreas(s) \subseteq Pages
    BY <1>1, AreasFinite DEF AllAreas
  <1> QED BY <1>2 DEF TablePages, HugeRegions

-----------------------------------------------------------------------------
(* Going forward                                                           *)

\* The types that the steps below need.
LEMMA Types ==
    ASSUME IInv
    PROVE  /\ space \in Spaces /\ start \in Nat /\ end \in Nat
           /\ k \in 0 .. Len(space.vmas) /\ k \in Nat
           /\ vm \in Nat /\ pm \in Nat /\ thp_count \in Nat
           /\ Pages \subseteq Nat /\ PmdPages \in Nat /\ PmdPages > 0
           /\ There \subseteq Countable
           /\ counted \subseteq Countable /\ IsFiniteSet(counted)
  <1>1. space \in Spaces /\ k \in 0 .. Len(space.vmas) /\ present \subseteq TablePages(space)
        /\ counted \subseteq Countable
    BY DEF IInv, TypeOK
  <1>2. There \subseteq Countable
    BY <1>1, TablePagesTyped DEF There, Countable
  <1>3. IsFiniteSet(Countable)
    BY SpaceAssumption, RegionsFinite DEF Countable
  <1>4. IsFiniteSet(counted)
    BY <1>1, <1>3, FS_Subset
  <1> QED BY <1>1, <1>2, <1>4, SpaceAssumption, AreaFacts DEF IInv, TypeOK

\* Inside an area: it is the last begun, and what is left of it is not passed.
LEMMA InsideArea ==
    ASSUME IInv, start < end
    PROVE  /\ k \in 1 .. Len(space.vmas) /\ start .. end - 1 \subseteq VmaPages(space, k)
           /\ VmaPages(space, k) \subseteq Pages
           /\ VmaPages(space, k) \subseteq AreasUpTo(space, k)
           /\ start \in Pages
  <1>1. k \in 1 .. Len(space.vmas)
    BY Types DEF IInv, InStep
  <1>2. /\ end = space.vmas[k].end /\ space.vmas[k].start <= start
        /\ space.vmas[k].start \in Nat
    BY <1>1, Types, AreaFacts DEF IInv, InStep
  <1>3. start .. end - 1 \subseteq VmaPages(space, k) /\ start \in VmaPages(space, k)
    <2>1. VmaPages(space, k) = space.vmas[k].start .. end - 1
      BY <1>2 DEF VmaPages
    <2>2. start \in Nat /\ end \in Nat
      BY Types
    <2> QED BY <1>2, <2>1, <2>2
  <1>4. VmaPages(space, k) \subseteq Pages
    BY <1>1, Types, AreaFacts
  <1>5. VmaPages(space, k) \subseteq AreasUpTo(space, k)
    BY <1>1, Types DEF AreasUpTo
  <1> QED BY <1>1, <1>3, <1>4, <1>5

\* A step forward by d pages: what it steps over has been passed then, as far as it
\* lies in the area.
LEMMA Forward ==
    ASSUME IInv, start < end, NEW d \in Nat, 0 < d, start' = start + d,
           UNCHANGED <<space, k, end>>
    PROVE  /\ Passed' = Passed \cup {p \in start .. end - 1 : p < start + d}
           /\ start \in Passed' /\ start \notin Passed
           /\ \A p \in Passed' : p \in start .. end - 1 => p < start + d
           /\ d = 1 => Passed' = Passed \cup {start}
  <1>1. start \in Nat /\ end \in Nat
    BY Types
  <1>2. start .. end - 1 \subseteq AreasUpTo(space, k)
    BY InsideArea
  <1>3. Passed' = AreasUpTo(space, k) \ (start + d .. end - 1)
    BY DEF Passed, AreasUpTo, VmaPages
  <1>4. \A p \in start .. end - 1 : p \notin start + d .. end - 1 <=> p < start + d
    BY <1>1
  <1>5. start + d .. end - 1 \subseteq start .. end - 1
    BY <1>1
  <1>6. start \in start .. end - 1 /\ start < start + d
    BY <1>1
  <1>7. Passed' = Passed \cup {p \in start .. end - 1 : p < start + d}
    BY <1>2, <1>3, <1>4, <1>5 DEF Passed
  <1>8. \A p \in Passed' : p \in start .. end - 1 => p < start + d
    BY <1>3, <1>4
  <1>9. start \in Passed' /\ start \notin Passed
    BY <1>6, <1>7 DEF Passed
  <1>10. d = 1 => {p \in start .. end - 1 : p < start + d} = {start}
    BY <1>1
  <1> QED BY <1>7, <1>8, <1>9, <1>10

\* Of the huge pages, a step of lkm5 over one goes past that one only: the next is not
\* passed whole, wherever in the first the step begins.
LEMMA OnlyThisHuge ==
    ASSUME IInv, lkm = "lkm5", start < end, PmdHuge(space, start),
           start' = start + PmdPages, UNCHANGED <<space, k, end>>
    PROVE  /\ Region(start) \in HugeRegions(space)
           /\ Region(start) \notin PassedRegions
           /\ RegionPages(Region(start)) \subseteq Passed'
           /\ \A q \in HugeRegions(space) :
                 RegionPages(q) \subseteq Passed' => q \in PassedRegions \/ q = Region(start)
  <1> DEFINE r == Region(start)
  <1>1. /\ start \in Pages /\ k \in 1 .. Len(space.vmas) /\ start \in VmaPages(space, k)
        /\ start .. end - 1 \subseteq VmaPages(space, k)
        /\ VmaPages(space, k) \subseteq AreasUpTo(space, k)
        /\ space \in Spaces /\ start \in Nat /\ end \in Nat /\ PmdPages \in Nat /\ PmdPages > 0
        /\ Pages \subseteq Nat
    <2>1. start \in Nat /\ end \in Nat
      BY Types
    <2>2. start \in start .. end - 1
      BY <2>1
    <2> QED BY <2>2, InsideArea, Types
  <1>2. /\ Passed' = Passed \cup {p \in start .. end - 1 : p < start + PmdPages}
        /\ start \notin Passed
        /\ \A p \in Passed' : p \in start .. end - 1 => p < start + PmdPages
    BY <1>1, Forward
  <1>3. r \in HugeRegions(space) /\ start \in RegionPages(r)
    BY <1>1 DEF HugeRegions, Regions, RegionPages, PmdHuge
  <1>4. r \notin PassedRegions
    BY <1>2, <1>3 DEF PassedRegions
  <1>5. /\ r \in Nat /\ FirstPage(r) \in Nat /\ FirstPage(r) <= start
        /\ start < FirstPage(r) + PmdPages
        /\ RegionPages(r) = FirstPage(r) .. FirstPage(r) + PmdPages - 1
    BY <1>1, InRegion, RegionOfPage
  <1>6. end = space.vmas[k].end /\ space.vmas[k].start \in Nat
    BY <1>1, AreaFacts DEF IInv, InStep
  <1>7. RegionPages(r) \subseteq Passed'
    <2> SUFFICES ASSUME NEW p \in RegionPages(r) PROVE p \in Passed'
      OBVIOUS
    <2>1. p \in VmaPages(space, k)
      BY <1>1, <1>3, HugeInArea
    <2>2. p \in Nat /\ p < start + PmdPages
      <3> HIDE DEF r
      <3> QED BY <1>1, <1>5
    <2>3. p \in AreasUpTo(space, k)
      BY <1>1, <2>1
    <2>4. p \notin start + PmdPages .. end - 1
      BY <1>1, <2>2
    <2>5. Passed' = AreasUpTo(space, k) \ (start + PmdPages .. end - 1)
      BY DEF Passed, AreasUpTo, VmaPages
    <2> QED BY <2>3, <2>4, <2>5
  <1>8. ASSUME NEW q \in HugeRegions(space), RegionPages(q) \subseteq Passed', q # r
        PROVE  q \in PassedRegions
    <2>1. q \in Regions
      BY DEF HugeRegions
    <2>2. SUFFICES ASSUME NEW p \in RegionPages(q), p \notin Passed
                   PROVE  FALSE
      BY <2>1 DEF PassedRegions
    <2>3. p \in start .. end - 1 /\ p < start + PmdPages /\ p \in Pages /\ Region(p) = q
      BY <1>2, <1>8, <2>2 DEF RegionPages
    <2>4. /\ FirstPage(q) \in Nat /\ q \in Nat
          /\ FirstPage(q) <= p /\ p < FirstPage(q) + PmdPages
          /\ RegionPages(q) = FirstPage(q) .. FirstPage(q) + PmdPages - 1
      BY <1>1, <2>3, InRegion, RegionOfPage
    <2> HIDE DEF r
    <2>5. p \in Nat /\ start <= p
      BY <1>1, <2>3
    <2>6. FirstPage(r) + PmdPages <= p
      <3>1. CASE p < FirstPage(r) + PmdPages
        <4>1. FirstPage(r) <= p
          BY <1>1, <1>5, <2>5
        <4>2. Region(p) = r
          BY <1>5, <2>5, <3>1, <4>1, OnlyRegion
        <4> QED BY <1>8, <2>3, <4>2
      <3> QED BY <1>1, <1>5, <2>5, <3>1
    <2>7. FirstPage(r) + PmdPages <= FirstPage(q)
      <3>1. CASE FirstPage(q) < FirstPage(r) + PmdPages
        <4>1. CASE FirstPage(r) <= FirstPage(q)
          <5>1. Region(FirstPage(q)) = r
            BY <1>5, <2>4, <3>1, <4>1, OnlyRegion
          <5>2. Region(FirstPage(q)) = q
            BY <1>1, <2>4, OnlyRegion
          <5> QED BY <1>8, <5>1, <5>2
        <4>2. CASE FirstPage(q) < FirstPage(r)
          BY <1>1, <1>5, <2>4, <2>5, <2>6, <4>2
        <4> QED BY <1>5, <2>4, <4>1, <4>2
      <3> QED BY <1>1, <1>5, <2>4, <3>1
    <2> DEFINE last == FirstPage(q) + PmdPages - 1
    <2>8. last \in RegionPages(q) /\ last \in Nat /\ last >= start + PmdPages
      BY <1>1, <1>5, <2>4, <2>7
    <2>9. last \in VmaPages(space, k)
      <3>1. p \in VmaPages(space, k)
        BY <1>1, <2>3
      <3> QED BY <1>1, <2>8, <3>1, HugeInArea
    <2>10. last \in start .. end - 1
      <3>1. last <= space.vmas[k].end - 1
        BY <2>9 DEF VmaPages
      <3> HIDE DEF last
      <3> QED BY <1>1, <1>6, <2>8, <3>1
    <2>11. last < start + PmdPages
      BY <1>2, <1>8, <2>8, <2>10
    <2> HIDE DEF last
    <2> QED BY <1>1, <2>8, <2>11
  <1> QED BY <1>3, <1>4, <1>7, <1>8

-----------------------------------------------------------------------------
(* The steps outside an area                                               *)

\* The start.
LEMMA InitIInv == Init => IInv
  <1> SUFFICES ASSUME Init PROVE IInv
    OBVIOUS
  <1>1. Len(space.vmas) \in Nat
    BY AreaFacts DEF Init
  <1>2. TypeOK
    BY <1>1 DEF Init, TypeOK
  <1>3. CountsExact /\ WalkAlone /\ InStep
    BY DEF Init, CountsExact, AreasCounted, PagesCounted, HugePagesCounted, WalkAlone, InStep
  <1> QED BY <1>2, <1>3 DEF IInv

\* The task is found, or there is none.
LEMMA FindTaskIInv == ASSUME IInv, FindTask \/ Fails PROVE IInv'
  <1>1. /\ pc = "init" /\ pc' \in {"lock", "failed"} /\ held' \in {{"rcu"}, {}}
        /\ UNCHANGED <<lkm, space, present, always, ever, k, start, end, vm, pm,
                       thp_count, counted>>
    BY DEF FindTask, Fails, env, sums
  <1>2. TypeOK'
    BY <1>1 DEF IInv, TypeOK, Countable
  <1>3. CountsExact' /\ WalkAlone' /\ InStep'
    BY <1>1 DEF IInv, CountsExact, AreasCounted, PagesCounted, HugePagesCounted, WalkAlone,
                InStep
  <1> QED BY <1>2, <1>3 DEF IInv

\* The mmap lock is taken: nothing has been passed, and nothing been counted.
LEMMA DownReadIInv == ASSUME IInv, DownRead PROVE IInv'
  <1>1. /\ pc = "lock" /\ pc' = "walk" /\ held' = held \cup {"mmap"}
        /\ always' = There /\ ever' = There
        /\ UNCHANGED <<lkm, space, present, k, start, end, vm, pm, thp_count, counted>>
    BY DEF DownRead, sums
  <1>2. /\ vm = 0 /\ pm = 0 /\ thp_count = 0 /\ counted = {} /\ k = 0
        /\ start = 0 /\ end = 0
    BY <1>1 DEF IInv, WalkAlone, InStep
  <1>3. There' = There /\ There \subseteq Countable /\ Countable' = Countable
    BY <1>1, Types DEF There, HugeRegions, Countable
  <1>4. TypeOK'
    BY <1>1, <1>3 DEF IInv, TypeOK
  <1>5. AreasUpTo(space, k)' = {} /\ Passed' = {}
    BY <1>1, <1>2 DEF AreasUpTo, Passed
  <1>6. PassedRegions' = {}
    BY <1>5, RegionOfPage DEF PassedRegions, Regions
  <1>7. AreasCounted' /\ PagesCounted' /\ HugePagesCounted'
    <2>1. Cardinality({}) = 0 /\ counted' = {} /\ vm' = 0 /\ pm' = 0 /\ thp_count' = 0
      BY <1>1, <1>2, FS_EmptySet
    <2>2. AreasCounted'
      BY <1>5, <2>1 DEF AreasCounted
    <2>3. PagesCounted'
      BY <1>5, <2>1 DEF PagesCounted
    <2>4. HugePagesCounted'
      BY <1>6, <2>1 DEF HugePagesCounted
    <2> QED BY <2>2, <2>3, <2>4
  <1>8. WalkAlone' /\ InStep'
    BY <1>1, <1>2, <1>3 DEF WalkAlone, InStep
  <1> QED BY <1>4, <1>7, <1>8 DEF IInv, CountsExact

\* The next area is begun.
LEMMA NextVmaIInv == ASSUME IInv, NextVma PROVE IInv'
  <1>1. /\ pc = "walk" /\ start >= end /\ k < Len(space.vmas) /\ k' = k + 1
        /\ start' = space.vmas[k'].start /\ end' = space.vmas[k'].end
        /\ vm' = vm + (IF lkm = "lkm4" THEN end' - start' ELSE 0)
        /\ UNCHANGED <<lkm, pc, held, space, present, always, ever, pm, thp_count, counted>>
    BY DEF NextVma, env
  <1>2. Len(space.vmas) \in Nat /\ k \in 0 .. Len(space.vmas) - 1 /\ k' \in 1 .. Len(space.vmas)
    BY <1>1, Types, AreaFacts
  <1>3. start' \in Nat /\ end' \in Nat /\ start' < end'
    BY <1>1, <1>2, Types, AreaFacts
  <1>4. TypeOK'
    <2>1. vm \in Nat
      BY Types
    <2>2. vm' \in Nat
      <3>1. CASE lkm = "lkm4"
        <4>1. vm' = vm + (end' - start')
          BY <1>1, <3>1
        <4>2. \A a, b, c \in Nat : a < b => c + (b - a) \in Nat
          OBVIOUS
        <4>3. vm + (end' - start') \in Nat
          BY <1>3, <2>1, <4>2, Zenon
        <4> QED BY <4>1, <4>3
      <3>2. CASE lkm # "lkm4"
        BY <1>1, <2>1, <3>2
      <3> QED BY <3>1, <3>2
    <2>3. k' \in 0 .. Len(space'.vmas)
      BY <1>1, <1>2
    <2>4. present' \subseteq TablePages(space')
      BY <1>1 DEF IInv, TypeOK
    <2>5. Countable' = Countable
      BY <1>1 DEF Countable
    <2> QED BY <1>1, <1>3, <2>2, <2>3, <2>4, <2>5 DEF IInv, TypeOK
  <1>5. /\ AreasUpTo(space, k') = AreasUpTo(space, k) \cup VmaPages(space, k')
        /\ AreasUpTo(space, k) \cap VmaPages(space, k') = {}
        /\ Cardinality(AreasUpTo(space, k')) =
              Cardinality(AreasUpTo(space, k)) + (end' - start')
    BY <1>1, <1>2, Types, NextArea
  <1>6. AreasUpTo(space, k)' = AreasUpTo(space, k') /\ VmaPages(space, k') = start' .. end' - 1
    BY <1>1 DEF AreasUpTo, VmaPages
  <1>7. Passed = AreasUpTo(space, k)
    <2>1. start .. end - 1 = {}
      BY <1>1, Types
    <2> QED BY <2>1 DEF Passed
  <1>8. Passed' = Passed
    <2>1. Passed' = AreasUpTo(space, k') \ VmaPages(space, k')
      BY <1>6 DEF Passed
    <2> QED BY <1>5, <1>7, <2>1
  <1>9. AreasCounted'
    BY <1>1, <1>5, <1>6 DEF IInv, CountsExact, AreasCounted
  <1>10. PagesCounted' /\ HugePagesCounted'
    <2>1. PassedRegions' = PassedRegions
      BY <1>8 DEF PassedRegions
    <2> QED BY <1>1, <1>8, <2>1 DEF IInv, CountsExact, PagesCounted, HugePagesCounted
  <1>11. WalkAlone'
    BY <1>1 DEF IInv, WalkAlone, There, HugeRegions
  <1>12. InStep'
    <2>1. k' # 0 /\ space.vmas[k'].start <= start'
      BY <1>1, <1>2, <1>3
    <2> QED BY <1>1, <2>1 DEF InStep
  <1> QED BY <1>4, <1>9, <1>10, <1>11, <1>12 DEF IInv, CountsExact

\* The walk ends.
LEMMA FinishIInv == ASSUME IInv, Finish PROVE IInv'
  <1>1. /\ pc = "walk" /\ pc' = "done" /\ held' = {}
        /\ UNCHANGED <<lkm, space, present, always, ever, k, start, end, vm, pm, thp_count,
                       counted>>
    BY DEF Finish, env, sums
  <1>2. TypeOK' /\ WalkAlone' /\ InStep'
    BY <1>1 DEF IInv, TypeOK, WalkAlone, InStep, Countable
  <1>3. CountsExact'
    <2>1. Passed' = Passed /\ AreasUpTo(space, k)' = AreasUpTo(space, k)
          /\ PassedRegions' = PassedRegions
      BY <1>1 DEF Passed, AreasUpTo, VmaPages, PassedRegions
    <2> QED BY <1>1, <2>1
            DEF IInv, CountsExact, AreasCounted, PagesCounted, HugePagesCounted
  <1> QED BY <1>2, <1>3 DEF IInv

-----------------------------------------------------------------------------
(* The steps inside an area                                                *)

\* What every step inside an area leaves alone.
Inside(d) ==
    /\ pc = "walk" /\ start < end /\ start' = start + d
    /\ UNCHANGED <<lkm, pc, held, space, present, always, ever, k, end, vm>>

\* And what it preserves, whatever it counts.
LEMMA InsideFrame ==
    ASSUME IInv, NEW d \in Nat, 0 < d, Inside(d),
           pm' \in Nat, thp_count' \in Nat, counted' \subseteq Countable
    PROVE  TypeOK' /\ AreasCounted' /\ WalkAlone' /\ InStep'
  <1>1. start' \in Nat
    BY Types DEF Inside
  <1>2. TypeOK'
    BY <1>1 DEF IInv, TypeOK, Inside, Countable
  <1>3. AreasUpTo(space, k)' = AreasUpTo(space, k)
    BY DEF Inside, AreasUpTo, VmaPages
  <1>4. AreasCounted'
    BY <1>3 DEF Inside, IInv, CountsExact, AreasCounted
  <1>5. WalkAlone'
    BY DEF Inside, IInv, WalkAlone, There, HugeRegions
  <1>6. InStep'
    <2>1. k > 0 /\ end = space.vmas[k].end /\ space.vmas[k].start <= start
          /\ space.vmas[k].start \in Nat
      <3>1. k \in 1 .. Len(space.vmas)
        BY InsideArea DEF Inside
      <3> QED BY <3>1, Types, AreaFacts DEF IInv, InStep
    <2>2. space.vmas[k].start <= start'
      <3>1. \A a, b, c \in Nat : a <= b => a <= b + c
        OBVIOUS
      <3>2. start' = start + d /\ start \in Nat
        BY Types DEF Inside
      <3> QED BY <2>1, <3>1, <3>2, Zenon
    <2>3. space' = space /\ k' = k /\ end' = end
      BY DEF Inside
    <2> QED BY <2>1, <2>2, <2>3 DEF InStep
  <1> QED BY <1>2, <1>4, <1>5, <1>6

\* A step of lkm4 over one page.
LEMMA Lkm4IInv == ASSUME IInv, Lkm4SkipsPage \/ Lkm4CountsPage PROVE IInv'
  <1>1. /\ lkm = "lkm4" /\ Inside(1) /\ thp_count' = thp_count
    BY DEF Lkm4SkipsPage, Lkm4CountsPage, InArea, Walking, To, env, Inside
  <1>2. /\ Passed' = Passed \cup {start} /\ start \notin Passed /\ start \in Pages
    BY <1>1, Forward, InsideArea DEF Inside
  <1>3. /\ pm = Cardinality(counted) /\ counted \subseteq ever \cap Passed
        /\ always \cap Passed \subseteq counted /\ counted \subseteq Pages
        /\ always \subseteq present /\ present \subseteq ever /\ pm \in Nat
        /\ present \subseteq TablePages(space) /\ IsFiniteSet(counted)
    BY <1>1, Types DEF IInv, CountsExact, PagesCounted, WalkAlone, TypeOK, Inside, There,
                       Countable
  <1>4. \/ pm' = pm /\ counted' = counted /\ start \notin present
        \/ pm' = pm + 1 /\ counted' = counted \cup {start} /\ start \in present
    <2>1. CASE Lkm4SkipsPage
      BY <1>3, <2>1 DEF Lkm4SkipsPage, TablePages
    <2>2. CASE Lkm4CountsPage
      BY <2>2 DEF Lkm4CountsPage
    <2> QED BY <2>1, <2>2
  <1>5. pm' = Cardinality(counted') /\ pm' \in Nat
    <2>1. start \notin counted
      BY <1>2, <1>3
    <2>2. Cardinality(counted \cup {start}) = Cardinality(counted) + 1
      BY <1>3, <2>1, FS_AddElement
    <2>3. CASE pm' = pm /\ counted' = counted
      BY <1>3, <2>3
    <2>4. CASE pm' = pm + 1 /\ counted' = counted \cup {start}
      <3>1. pm + 1 = Cardinality(counted) + 1 /\ pm + 1 \in Nat
        BY <1>3
      <3> QED BY <2>2, <2>4, <3>1, Zenon
    <2> QED BY <1>4, <2>3, <2>4
  <1>6. PagesCounted'
    <2>1. counted' \subseteq ever \cap Passed'
      BY <1>2, <1>3, <1>4
    <2>2. always \cap Passed' \subseteq counted'
      BY <1>2, <1>3, <1>4
    <2> QED BY <1>1, <1>5, <2>1, <2>2 DEF PagesCounted, Inside
  <1>7. counted' \subseteq Countable /\ thp_count' \in Nat
    BY <1>1, <1>2, <1>3, <1>4, Types DEF Countable
  <1>8. TypeOK' /\ AreasCounted' /\ WalkAlone' /\ InStep'
    BY <1>1, <1>5, <1>7, InsideFrame
  <1>9. HugePagesCounted'
    BY <1>1 DEF HugePagesCounted, Inside
  <1> QED BY <1>6, <1>8, <1>9 DEF IInv, CountsExact

\* What lkm5 has counted so far.
LEMMA CountedSoFar ==
    ASSUME IInv, lkm = "lkm5", pc = "walk"
    PROVE  /\ thp_count = Cardinality(counted) /\ counted \subseteq ever \cap PassedRegions
           /\ always \cap PassedRegions \subseteq counted
           /\ always \subseteq HugeRegions(space) /\ HugeRegions(space) \subseteq ever
           /\ counted \subseteq Countable /\ IsFiniteSet(counted) /\ Countable = Regions
           /\ pm \in Nat /\ thp_count \in Nat
  BY Types DEF IInv, CountsExact, HugePagesCounted, WalkAlone, There, Countable

\* A step of lkm5 over a page without a huge entry.
LEMMA Lkm5StepsOverIInv == ASSUME IInv, Lkm5StepsOver PROVE IInv'
  <1>1. /\ lkm = "lkm5" /\ Inside(1) /\ ~PmdHuge(space, start)
        /\ UNCHANGED <<pm, thp_count, counted>>
    BY DEF Lkm5StepsOver, InArea, Walking, To, env, Inside
  <1>2. Passed' = Passed \cup {start} /\ start \in Nat
    BY <1>1, Forward, Types DEF Inside
  <1>3. \A r \in HugeRegions(space) : start \notin RegionPages(r)
    BY <1>1 DEF PmdHuge, RegionPages, HugeRegions
  <1>4. HugePagesCounted'
    <2>1. PassedRegions \subseteq PassedRegions'
      BY <1>2 DEF PassedRegions
    <2>2. \A r \in HugeRegions(space) : r \in PassedRegions' => r \in PassedRegions
      BY <1>2, <1>3 DEF PassedRegions
    <2>3. UNCHANGED <<lkm, pc, ever, always, thp_count, counted>> /\ pc = "walk"
      BY <1>1 DEF Inside
    <2>4. counted \subseteq ever \cap PassedRegions'
      BY <1>1, <2>1, <2>3, CountedSoFar
    <2>5. always \cap PassedRegions' \subseteq counted
      BY <1>1, <2>2, <2>3, CountedSoFar
    <2> QED BY <1>1, <2>3, <2>4, <2>5, CountedSoFar DEF HugePagesCounted
  <1>5. pm' \in Nat /\ thp_count' \in Nat /\ counted' \subseteq Countable
    BY <1>1, CountedSoFar DEF Inside
  <1>6. TypeOK' /\ AreasCounted' /\ WalkAlone' /\ InStep'
    BY <1>1, <1>5, InsideFrame
  <1>7. PagesCounted'
    BY <1>1 DEF PagesCounted, Inside
  <1> QED BY <1>4, <1>6, <1>7 DEF IInv, CountsExact

\* A step of lkm5 over a huge page, from wherever it meets it: one more entry has been
\* passed.
LEMMA Lkm5CountsHugeIInv == ASSUME IInv, Lkm5CountsHuge PROVE IInv'
  <1> DEFINE r == Region(start)
  <1>1. /\ lkm = "lkm5" /\ pc = "walk" /\ start < end /\ PmdHuge(space, start)
        /\ thp_count' = thp_count + 1 /\ start' = start + PmdPages
        /\ counted' = counted \cup {r}
        /\ UNCHANGED <<lkm, pc, held, space, present, always, ever, k, end, vm, pm>>
    BY DEF Lkm5CountsHuge, InArea, Walking, To, env
  <1>2. Inside(PmdPages) /\ PmdPages \in Nat /\ 0 < PmdPages
    BY <1>1, Types DEF Inside
  <1>3. /\ r \in HugeRegions(space) /\ r \notin PassedRegions
        /\ RegionPages(r) \subseteq Passed'
        /\ \A q \in HugeRegions(space) :
              RegionPages(q) \subseteq Passed' => q \in PassedRegions \/ q = r
    BY <1>1, OnlyThisHuge
  <1>4. r \in Regions
    BY <1>3 DEF HugeRegions
  <1>5. Passed \subseteq Passed'
    BY <1>1, <1>2, Forward
  <1> HIDE DEF r
  <1>6. HugePagesCounted'
    <2>1. r \notin counted
      BY <1>1, <1>3, CountedSoFar
    <2>2. Cardinality(counted \cup {r}) = Cardinality(counted) + 1
      BY <1>1, <2>1, CountedSoFar, FS_AddElement
    <2>3. PassedRegions \subseteq PassedRegions' /\ r \in PassedRegions'
      BY <1>3, <1>4, <1>5 DEF PassedRegions
    <2>4. \A q \in HugeRegions(space) : q \in PassedRegions' => q \in PassedRegions \/ q = r
      BY <1>3 DEF PassedRegions
    <2>5. counted' \subseteq ever \cap PassedRegions'
      BY <1>1, <1>3, <2>3, CountedSoFar
    <2>6. always \cap PassedRegions' \subseteq counted'
      BY <1>1, <2>4, CountedSoFar
    <2>7. thp_count' = Cardinality(counted')
      BY <1>1, <2>2, CountedSoFar
    <2> QED BY <1>1, <2>5, <2>6, <2>7 DEF HugePagesCounted
  <1>7. pm' \in Nat /\ thp_count' \in Nat /\ counted' \subseteq Countable
    BY <1>1, <1>4, CountedSoFar
  <1>8. TypeOK' /\ AreasCounted' /\ WalkAlone' /\ InStep'
    BY <1>2, <1>7, InsideFrame
  <1>9. PagesCounted'
    BY <1>1 DEF PagesCounted
  <1> QED BY <1>6, <1>8, <1>9 DEF IInv, CountsExact

-----------------------------------------------------------------------------
(* The process, and the theorem                                            *)

\* What every step of the process does: below the mmap lock the areas stay.
LEMMA ProcessFrame ==
    ASSUME IInv, Process
    PROVE  /\ pc \in {"lock", "walk"}
           /\ UNCHANGED <<lkm, pc, held, k, start, end, vm, pm, thp_count, counted>>
           /\ always' = always \cap There' /\ ever' = ever \cup There'
           /\ space' \in Spaces /\ present' \subseteq TablePages(space')
           /\ pc = "walk" => space'.vmas = space.vmas
  <1>1. space \in Spaces /\ present \subseteq TablePages(space)
    BY DEF IInv, TypeOK
  <1>2. CASE \E p \in TablePages(space) : Fault(p) \/ Reclaim(p)
    BY <1>1, <1>2 DEF Fault, Reclaim, Changes, walk, sums
  <1>3. CASE \E r \in Regions, level \in Levels : TablesChange(r, level)
    <2>1. PICK r \in Regions, level \in Levels : TablesChange(r, level)
      BY <1>3
    <2>2. space'.vmas = space.vmas
      <3>1. space \in [vmas : Seq([start : Pages, end : Nat]), dir : [Regions -> Levels]]
        BY <1>1, SpaceAssumption DEF WellFormed
      <3>2. space' = [space EXCEPT !.dir[r] = level]
        BY <2>1 DEF TablesChange
      <3> QED BY <3>1, <3>2
    <2> QED BY <2>1, <2>2 DEF TablesChange, Changes, walk, sums
  <1>4. CASE Remap
    <2>1. pc # "walk"
      BY <1>4 DEF Remap, IInv, WalkAlone
    <2> QED BY <1>4, <2>1 DEF Remap, Changes, walk, sums
  <1> QED BY <1>2, <1>3, <1>4 DEF Process

\* The areas the walk has begun, and what it has passed, depend on the areas only.
LEMMA SameAreas ==
    ASSUME space'.vmas = space.vmas, UNCHANGED <<k, start, end>>
    PROVE  /\ Passed' = Passed /\ PassedRegions' = PassedRegions
           /\ AreasUpTo(space, k)' = AreasUpTo(space, k)
  BY DEF Passed, PassedRegions, AreasUpTo, VmaPages

\* The process runs on: pages come and go, tables change, and the areas, but only before
\* the walk.
LEMMA ProcessIInv == ASSUME IInv, Process PROVE IInv'
  <1>1. /\ pc \in {"lock", "walk"}
        /\ UNCHANGED <<lkm, pc, held, k, start, end, vm, pm, thp_count, counted>>
        /\ always' = always \cap There' /\ ever' = ever \cup There'
        /\ space' \in Spaces /\ present' \subseteq TablePages(space')
        /\ pc = "walk" => space'.vmas = space.vmas
    BY ProcessFrame
  <1>2. There' \subseteq Countable' /\ Countable' = Countable
    <2>1. TablePages(space') \subseteq Pages /\ HugeRegions(space') \subseteq Regions
      BY <1>1, TablePagesTyped
    <2> QED BY <1>1, <2>1 DEF There, Countable
  <1>3. pc = "lock" => k = 0 /\ start = 0 /\ end = 0
    BY DEF IInv, WalkAlone, InStep
  <1>4. k' \in 0 .. Len(space'.vmas)
    <2>1. Len(space'.vmas) \in Nat
      BY <1>1, AreaFacts
    <2>2. CASE pc = "lock"
      BY <1>1, <1>3, <2>1, <2>2
    <2>3. CASE pc = "walk"
      BY <1>1, <2>3, Types
    <2> QED BY <1>1, <2>2, <2>3
  <1>5. TypeOK'
    <2>1. always' \subseteq ever' /\ ever' \subseteq Countable' /\ counted' \subseteq Countable'
      BY <1>1, <1>2 DEF IInv, TypeOK
    <2> QED BY <1>1, <1>4, <2>1 DEF IInv, TypeOK
  <1>6. WalkAlone'
    BY <1>1 DEF IInv, WalkAlone
  <1>7. InStep'
    BY <1>1, <1>3 DEF IInv, InStep
  <1>8. CountsExact'
    <2>1. CASE pc = "lock"
      BY <1>1, <2>1 DEF CountsExact, AreasCounted, PagesCounted, HugePagesCounted
    <2>2. CASE pc = "walk"
      <3>1. /\ Passed' = Passed /\ PassedRegions' = PassedRegions
            /\ AreasUpTo(space, k)' = AreasUpTo(space, k)
        BY <1>1, <2>2, SameAreas
      <3>2. AreasCounted'
        BY <1>1, <3>1 DEF IInv, CountsExact, AreasCounted
      <3>3. PagesCounted'
        BY <1>1, <3>1 DEF IInv, CountsExact, PagesCounted
      <3>4. HugePagesCounted'
        BY <1>1, <3>1 DEF IInv, CountsExact, HugePagesCounted
      <3> QED BY <3>2, <3>3, <3>4 DEF CountsExact
    <2> QED BY <1>1, <2>1, <2>2
  <1> QED BY <1>5, <1>6, <1>7, <1>8 DEF IInv

\* Nothing changes.
LEMMA StutterIInv == ASSUME IInv, UNCHANGED vars PROVE IInv'
  <1>1. UNCHANGED <<lkm, pc, held, space, present, always, ever, k, start, end, vm, pm,
                    thp_count, counted>>
    BY DEF vars, env, sums
  <1>2. TypeOK' /\ WalkAlone' /\ InStep'
    BY <1>1 DEF IInv, TypeOK, WalkAlone, InStep, Countable, There, HugeRegions
  <1>3. CountsExact'
    <2>1. Passed' = Passed /\ AreasUpTo(space, k)' = AreasUpTo(space, k)
          /\ PassedRegions' = PassedRegions
      BY <1>1, SameAreas
    <2> QED BY <1>1, <2>1
            DEF IInv, CountsExact, AreasCounted, PagesCounted, HugePagesCounted
  <1> QED BY <1>2, <1>3 DEF IInv

\* The inductive invariant holds.
THEOREM Invariance == Spec => []IInv
  <1>1. IInv /\ [Next]_vars => IInv'
    <2> SUFFICES ASSUME IInv, [Next]_vars PROVE IInv'
      OBVIOUS
    <2>1. CASE Lkm
      BY <2>1, FindTaskIInv, DownReadIInv, NextVmaIInv, FinishIInv, Lkm4IInv,
         Lkm5StepsOverIInv, Lkm5CountsHugeIInv, StutterIInv DEF Lkm, Lkm5Spins
    <2>2. CASE Process
      BY <2>2, ProcessIInv
    <2>3. CASE Over \/ UNCHANGED vars
      BY <2>3, StutterIInv DEF Over
    <2> QED BY <2>1, <2>2, <2>3 DEF Next
  <1> QED BY <1>1, InitIInv, PTL DEF Spec

\* The sums of lkm4 and lkm5 at every step of their walks, whatever pages come and go
\* and whatever becomes a huge page, or stops being one, meanwhile: of the pages passed, lkm4
\* counts each that was there all the time, none that was never there, and none twice;
\* of the huge pages passed, lkm5 does the same.
THEOREM SumsExact == Spec => []CountsExact
  BY Invariance, PTL DEF IInv

-----------------------------------------------------------------------------
(* Progress                                                                *)

\* The walk is past the page, the area or the last area it was at: this can happen
\* only so many times.
Advances ==
    \/ pc' = "done"
    \/ pc' = "walk" /\ k' = k + 1 /\ k' <= Len(space.vmas)
    \/ pc' = "walk" /\ k' = k /\ end' = end /\ start < start'

\* A space without a gap above the level pmd has none where the walk stands.
LEMMA NoGapHere ==
    ASSUME IInv, MayEnd, InArea("lkm5")
    PROVE  ~EndsAbovePmd(space, start)
  <1>1. lkm = "lkm5" /\ start < end
    BY DEF InArea, Walking
  <1>2. k \in 1 .. Len(space.vmas) /\ start \in VmaPages(space, k)
    <2>1. start \in Nat /\ end \in Nat
      BY Types
    <2>2. start \in start .. end - 1
      BY <1>1, <2>1
    <2> QED BY <1>1, <2>2, InsideArea
  <1>3. start \in AllAreas(space)
    BY <1>2 DEF AllAreas, AreasUpTo
  <1> QED BY <1>1, <1>3 DEF MayEnd

\* Such a space stays one: no level above the level pmd goes while the areas stay.
LEMMA NoGapLater ==
    ASSUME IInv, Process, pc = "walk", MayEnd
    PROVE  MayEnd'
  <1> SUFFICES ASSUME lkm' = "lkm5", NEW p \in AllAreas(space)', EndsAbovePmd(space, p)'
               PROVE  FALSE
    BY DEF MayEnd
  <1>1. /\ lkm = "lkm5" /\ space'.vmas = space.vmas /\ space \in Spaces
    BY ProcessFrame, Types
  <1>2. p \in AllAreas(space)
    BY <1>1 DEF AllAreas, AreasUpTo, VmaPages
  <1>3. ~EndsAbovePmd(space, p)
    BY <1>1, <1>2 DEF MayEnd
  <1>4. p \in Pages
    <2>1. Len(space.vmas) \in 0 .. Len(space.vmas)
      BY <1>1, AreaFacts
    <2> QED BY <1>1, <1>2, <2>1, AreasFinite DEF AllAreas
  <1>5. Region(p) \in Regions /\ space.dir \in [Regions -> Levels]
    BY <1>1, <1>4, SpaceAssumption DEF Regions, WellFormed
  <1>6. space.dir[Region(p)] \in PmdLevels
    BY <1>3, <1>5 DEF EndsAbovePmd, Levels, PmdLevels
  <1>7. space'.dir[Region(p)] \in PmdLevels
    <2>1. CASE space' = space
      BY <1>6, <2>1
    <2>2. CASE \E r \in Regions, level \in Levels : TablesChange(r, level)
      <3>1. PICK r \in Regions, level \in Levels : TablesChange(r, level)
        BY <2>2
      <3>2. MayBecome(space.dir[r], level) /\ space' = [space EXCEPT !.dir[r] = level]
        BY <3>1 DEF TablesChange
      <3>3. space \in [vmas : Seq([start : Pages, end : Nat]), dir : [Regions -> Levels]]
        BY <1>1, SpaceAssumption DEF WellFormed
      <3>4. space'.dir = [space.dir EXCEPT ![r] = level]
        BY <3>2, <3>3
      <3>5. CASE r = Region(p)
        <4>1. level \in PmdLevels
          BY <1>6, <3>2, <3>5 DEF MayBecome, PmdLevels
        <4>2. space'.dir[Region(p)] = level
          BY <1>5, <3>4, <3>5
        <4> QED BY <4>1, <4>2
      <3>6. CASE r # Region(p)
        <4>1. space'.dir[Region(p)] = space.dir[Region(p)]
          BY <1>5, <3>4, <3>6
        <4> QED BY <1>6, <4>1
      <3> QED BY <3>5, <3>6
    <2>3. CASE \E q \in TablePages(space) : Fault(q) \/ Reclaim(q)
      BY <2>1, <2>3 DEF Fault, Reclaim
    <2>4. CASE Remap
      BY <2>4 DEF Remap, IInv, WalkAlone
    <2> QED BY <2>2, <2>3, <2>4 DEF Process
  <1>8. Region(p)' = Region(p)
    BY DEF Region
  <1> QED BY <1>7 DEF EndsAbovePmd, PmdLevels, Region

\* lkm4.c:57-116, lkm5.c:53-92: every step of the walk gets it further, if lkm5 meets
\* no area without a page directory; what the process does to its pages and tables does not
\* set the walk back, changes no area and takes no directory away.
THEOREM WalkAdvances ==
    Spec => [][pc = "walk" /\ MayEnd =>
                  /\ IF Lkm THEN Advances ELSE UNCHANGED <<pc, k, start, end>>
                  /\ lkm' = lkm /\ space'.vmas = space.vmas /\ MayEnd']_vars
  <1>1. ASSUME IInv, [Next]_vars, pc = "walk", MayEnd
        PROVE  /\ IF Lkm THEN Advances ELSE UNCHANGED <<pc, k, start, end>>
               /\ lkm' = lkm /\ space'.vmas = space.vmas /\ MayEnd'
    <2>1. ASSUME Lkm PROVE Advances
      <3>1. /\ k \in Nat /\ start \in Nat /\ end \in Nat /\ PmdPages \in Nat /\ PmdPages > 0
            /\ Len(space.vmas) \in Nat
        BY <1>1, Types, AreaFacts
      <3>2. CASE FindTask \/ Fails \/ DownRead
        BY <1>1, <3>2 DEF FindTask, Fails, DownRead
      <3>3. CASE NextVma
        BY <3>1, <3>3 DEF NextVma, Advances
      <3>4. CASE Finish
        BY <3>4 DEF Finish, Advances
      <3>5. CASE Lkm4SkipsPage \/ Lkm4CountsPage \/ Lkm5StepsOver
        <4>1. start < end /\ start' = start + 1 /\ UNCHANGED <<pc, k, end>>
          BY <3>5 DEF Lkm4SkipsPage, Lkm4CountsPage, Lkm5StepsOver, InArea, To
        <4> QED BY <1>1, <3>1, <4>1 DEF Advances
      <3>6. CASE Lkm5CountsHuge
        <4>1. start' = start + PmdPages /\ UNCHANGED <<pc, k, end>>
          BY <3>6 DEF Lkm5CountsHuge, To
        <4> QED BY <1>1, <3>1, <4>1 DEF Advances
      <3>7. CASE Lkm5Spins
        BY <1>1, <3>7, NoGapHere DEF Lkm5Spins
      <3> QED BY <2>1, <3>2, <3>3, <3>4, <3>5, <3>6, <3>7 DEF Lkm
    <2>2. ASSUME ~Lkm PROVE UNCHANGED <<pc, k, start, end>>
      BY <1>1, <2>2, ProcessFrame DEF Next, Over, vars
    <2>3. lkm' = lkm /\ space'.vmas = space.vmas /\ MayEnd'
      <3>1. CASE UNCHANGED <<lkm, space>>
        BY <1>1, <3>1 DEF MayEnd, AllAreas, AreasUpTo, VmaPages, EndsAbovePmd, Region
      <3>2. CASE Lkm
        <4>1. UNCHANGED <<lkm, space>>
          BY <1>1, <3>2, Zenon
          DEF Lkm, FindTask, Fails, DownRead, NextVma, Lkm4SkipsPage, Lkm4CountsPage,
              Lkm5Spins, Lkm5CountsHuge, Lkm5StepsOver, Finish, To, env, vars
        <4> QED BY <3>1, <4>1
      <3>3. CASE Process
        BY <1>1, <3>3, ProcessFrame, NoGapLater
      <3>4. CASE Over \/ UNCHANGED vars
        BY <3>1, <3>4 DEF Over, vars, env
      <3> QED BY <1>1, <3>2, <3>3, <3>4 DEF Next
    <2> QED BY <2>1, <2>2, <2>3
  <1> QED BY <1>1, Invariance, PTL DEF Spec

-----------------------------------------------------------------------------
(* The translation of lkm3                                                 *)

\* A number that is put together from a page and an offset comes apart again.
LEMMA PageAndOffset ==
    ASSUME NEW p \in Nat, NEW o \in 0 .. PageSize - 1
    PROVE  (p * PageSize + o) \div PageSize = p /\ (p * PageSize + o) % PageSize = o
  <1> DEFINE n == PageSize
             q == (p * n + o) \div n
             r == (p * n + o) % n
  <1>1. n \in Nat /\ n > 0
    BY FrameAssumption
  <1>2. p * n \in Nat /\ p * n + o \in Nat
    BY <1>1
  <1>3. q \in Nat /\ r \in 0 .. n - 1 /\ p * n + o = q * n + r
    BY <1>1, <1>2
  <1> HIDE DEF q, r
  <1>4. q = p
    <2>1. ASSUME q < p PROVE FALSE
      <3>1. PICK d \in Nat : d > 0 /\ p = q + d
        BY <1>3, <2>1
      <3>2. p * n = q * n + d * n /\ d * n >= n
        BY <1>1, <1>3, <3>1
      <3> QED BY <1>1, <1>3, <3>2
    <2>2. ASSUME q > p PROVE FALSE
      <3>1. PICK d \in Nat : d > 0 /\ q = p + d
        BY <1>3, <2>2
      <3>2. q * n = p * n + d * n /\ d * n >= n
        BY <1>1, <3>1
      <3> QED BY <1>1, <1>3, <3>2
    <2> QED BY <1>3, <2>1, <2>2
  <1>5. r = o
    BY <1>1, <1>2, <1>3, <1>4
  <1> QED BY <1>4, <1>5 DEF q, r

\* The translation of an address, if it has one.
LEMMA Translated ==
    ASSUME NEW va \in Addresses, Lkm3(va) # 0
    PROVE  /\ Lkm3(va) \div PageSize = Frame(va \div PageSize)
           /\ Lkm3(va) % PageSize = va % PageSize
  <1>1. PageSize \in Nat /\ PageSize > 0 /\ Pages \subseteq Nat
    BY FrameAssumption, SpaceAssumption
  <1>2. PICK p \in Pages : va \in p * PageSize .. p * PageSize + PageSize - 1
    BY DEF Addresses
  <1>3. PICK o \in 0 .. PageSize - 1 : va = p * PageSize + o
    <2>1. p * PageSize \in Nat
      BY <1>1
    <2>2. va - p * PageSize \in 0 .. PageSize - 1 /\ va = p * PageSize + (va - p * PageSize)
      BY <1>1, <1>2, <2>1
    <2> QED BY <2>2
  <1>4. va \div PageSize = p /\ va % PageSize = o
    BY <1>1, <1>3, PageAndOffset
  <1>5. Lkm3(va) = Frame(p) * PageSize + o
    BY <1>4 DEF Lkm3
  <1>6. Frame(p) \in Nat
    BY FrameAssumption
  <1> QED BY <1>3, <1>4, <1>5, <1>6, PageAndOffset

\* lkm3.c:36-105: what is reported to be the physical address of an address lies
\* in the frame behind its page and at its offset, and no two addresses are
\* reported to be the same byte unless their pages share the frame.
THEOREM Lkm3Sound == Spec => []TranslationSound
  <1>1. TranslationSound
    <2> SUFFICES ASSUME NEW va \in Addresses, NEW wb \in Addresses, Lkm3(va) # 0
                 PROVE  /\ Lkm3(va) \div PageSize = Frame(va \div PageSize)
                        /\ Lkm3(va) = Lkm3(wb) =>
                              /\ Frame(va \div PageSize) = Frame(wb \div PageSize)
                              /\ va % PageSize = wb % PageSize
      BY DEF TranslationSound
    <2>1. /\ Lkm3(va) \div PageSize = Frame(va \div PageSize)
          /\ Lkm3(va) % PageSize = va % PageSize
      BY Translated
    <2>2. ASSUME Lkm3(va) = Lkm3(wb)
          PROVE  /\ Lkm3(va) \div PageSize = Frame(wb \div PageSize)
                 /\ Lkm3(va) % PageSize = wb % PageSize
      BY <2>2, Translated
    <2> QED BY <2>1, <2>2
  <1> QED BY <1>1, PTL
=============================================================================
