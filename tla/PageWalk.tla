------------------------------ MODULE PageWalk ------------------------------
(***************************************************************************)
(* The page walks of assignment 1: lkm4 sums up the areas of a process and *)
(* its mapped pages, lkm5 counts its huge pages, lkm3 translates one       *)
(* address.  Each is the module's init function, run once.                 *)
(*                                                                         *)
(* lkm4 and lkm5 hold the mmap lock for reading: the areas stay as they    *)
(* are, but nothing below them does.  Page faults, reclaim, and the        *)
(* splitting, collapsing and zapping of huge pages take no lock the walk   *)
(* would exclude: pages come and go, tables are filled in, and an entry of *)
(* the level pmd becomes a huge page, or stops being one, under the walk.  *)
(***************************************************************************)
EXTENDS AddressSpace

CONSTANTS
    Lkms,        \* the modules that may be loaded: "lkm4", "lkm5"
    PageSize,    \* bytes of a page, for lkm3
    Frame(_)     \* the page frame behind a page

ASSUME FrameAssumption ==
    PageSize \in Nat \ {0} /\ \A p \in Pages : Frame(p) \in Nat \ {0}

VARIABLES
    lkm,         \* the module being loaded
    pc,          \* "init", "lock", "walk", "done", "failed"
    held,        \* locks held: "rcu", "mmap"
    space,       \* the process's areas and directories
    present,     \* pages whose table entry is present
    k,           \* areas begun
    start, end,  \* the next page of the area, and its end
    vm, pm,      \* lkm4: sums, in pages
    thp_count,   \* lkm5
    counted,     \* history: what the walk has counted, pages or regions
    always,      \* history: what has been there ever since the walk began
    ever         \* history: what has been there at some time since then

env == <<space, present, always, ever>>
sums == <<vm, pm, thp_count, counted>>
vars == <<lkm, pc, held, env, k, start, end, sums>>

\* What the module counts: lkm4 pages that are present, lkm5 huge pages, each by
\* its region.
There == IF lkm = "lkm4" THEN present ELSE HugeRegions(space)

Init ==
    /\ lkm \in Lkms /\ pc = "init" /\ held = {}
    /\ space \in Spaces /\ present \in {{}, TablePages(space)}
    /\ k = 0 /\ start = 0 /\ end = 0
    /\ vm = 0 /\ pm = 0 /\ thp_count = 0
    /\ counted = {} /\ always = {} /\ ever = {}

-----------------------------------------------------------------------------
(* lkm4_init and lkm5_init                                                 *)

FindTask ==
    /\ pc = "init" /\ pc' = "lock" /\ held' = {"rcu"}
    /\ UNCHANGED <<lkm, env, k, start, end, sums>>

\* No pid was given, there is no such process, or it has no memory.
Fails ==
    /\ pc = "init" /\ pc' = "failed" /\ held' = {}
    /\ UNCHANGED <<lkm, env, k, start, end, sums>>

WalksUnlocked ==
    /\ pc = "lock" /\ pc' = "walk" /\ UNCHANGED held
    /\ always' = There /\ ever' = There
    /\ UNCHANGED <<lkm, space, present, k, start, end, sums>>
DownRead ==
    /\ pc = "lock" /\ pc' = "walk" /\ held' = held \cup {"mmap"}
    /\ always' = There /\ ever' = There
    /\ UNCHANGED <<lkm, space, present, k, start, end, sums>>

Walking(m) == pc = "walk" /\ lkm = m
InArea(m) == Walking(m) /\ start < end

NextVma ==
    /\ pc = "walk" /\ start >= end /\ k < Len(space.vmas)
    /\ k' = k + 1 /\ start' = space.vmas[k'].start /\ end' = space.vmas[k'].end
    /\ vm' = vm + (IF lkm = "lkm4" THEN end' - start' ELSE 0)
    /\ UNCHANGED <<lkm, pc, held, env, pm, thp_count, counted>>

\* To the next page, or to the next entry of the level pmd.
To(p) == start' = p /\ UNCHANGED <<lkm, pc, held, env, k, end, vm>>

\* An entry on the way is none or bad, and a huge page is bad.
Lkm4SkipsPage ==
    /\ InArea("lkm4") /\ ~HasTable(space, start)
    /\ To(start + 1) /\ UNCHANGED <<pm, thp_count, counted>>

Lkm4CountsPage ==
    /\ InArea("lkm4") /\ HasTable(space, start)
    /\ IF start \in present
       THEN pm' = pm + 1 /\ counted' = counted \cup {start}
       ELSE UNCHANGED <<pm, counted>>
    /\ To(start + 1) /\ UNCHANGED thp_count

\* continue, without a step forward
Lkm5Spins ==
    /\ InArea("lkm5") /\ EndsAbovePmd(space, start)
    /\ UNCHANGED vars

StepsByPage ==
    /\ InArea("lkm5") /\ PmdHuge(space, start)
    /\ thp_count' = thp_count + 1 /\ counted' = counted \cup {Region(start)}
    /\ To(start + 1) /\ UNCHANGED pm

\* Counted from wherever the walk meets it, and as far over it: beyond the end
\* of the area, when the page has become huge after the walk had entered it.
Lkm5CountsHuge ==
    /\ InArea("lkm5") /\ PmdHuge(space, start)
    /\ thp_count' = thp_count + 1 /\ counted' = counted \cup {Region(start)}
    /\ To(start + PmdPages) /\ UNCHANGED pm

StaysOnPage ==
    /\ InArea("lkm5") /\ ~EndsAbovePmd(space, start) /\ ~PmdHuge(space, start)
    /\ To(IF HasTable(space, start) THEN start + 1 ELSE start)
    /\ UNCHANGED <<pm, thp_count, counted>>
Lkm5StepsOver ==
    /\ InArea("lkm5") /\ ~EndsAbovePmd(space, start) /\ ~PmdHuge(space, start)
    /\ To(start + 1) /\ UNCHANGED <<pm, thp_count, counted>>

Finish ==
    /\ pc = "walk" /\ start >= end /\ k = Len(space.vmas)
    /\ pc' = "done" /\ held' = {}
    /\ UNCHANGED <<lkm, env, k, start, end, sums>>

Lkm ==
    \/ FindTask \/ Fails \/ DownRead \/ NextVma \/ Finish
    \/ Lkm4SkipsPage \/ Lkm4CountsPage
    \/ Lkm5Spins \/ Lkm5CountsHuge \/ Lkm5StepsOver

-----------------------------------------------------------------------------
(* The process                                                             *)

walk == <<lkm, pc, held, k, start, end, sums>>

\* The process runs on, and the walk stays where it is.
Changes ==
    /\ pc \in {"lock", "walk"} /\ UNCHANGED walk
    /\ always' = always \cap There' /\ ever' = ever \cup There'

\* A page is brought in, or taken away, in a table the process has; lkm5 reads
\* no table.
Fault(p) ==
    /\ lkm = "lkm4"
    /\ present' = present \cup {p} /\ UNCHANGED space
    /\ Changes

Reclaim(p) ==
    /\ lkm = "lkm4"
    /\ present' = present \ {p} /\ UNCHANGED space
    /\ Changes

\* An upper level, once there, stays while the areas do.  An entry of the level
\* pmd is filled with a table or a huge page, split, collapsed or zapped.
PmdLevels == {"no_pmd", "huge", "table"}
MayBecome(old, new) ==
    \/ new \in PmdLevels
    \/ old = "no_pgd" /\ new # old
    \/ old = "no_p4d" /\ new = "no_pud"

\* A split leaves the huge page's pages present; a table that goes takes its
\* pages along.
TablesChange(r, level) ==
    /\ MayBecome(space.dir[r], level)
    /\ space' = [space EXCEPT !.dir[r] = level] /\ space' \in Spaces
    /\ present' = TablePages(space') \cap
                     (present \cup IF space.dir[r] = "huge" THEN RegionPages(r) ELSE {})
    /\ Changes

\* mmap, munmap and the like take the mmap lock for writing.
Remap ==
    /\ "mmap" \notin held
    /\ space' \in Spaces /\ present' = present \cap TablePages(space')
    /\ Changes

Process ==
    \/ \E p \in TablePages(space) : Fault(p) \/ Reclaim(p)
    \/ \E r \in Regions, level \in Levels : TablesChange(r, level)
    \/ Remap

Over == pc \in {"done", "failed"} /\ UNCHANGED vars

Next == Lkm \/ Process \/ Over

Spec == Init /\ [][Next]_vars

\* The processor that loads the module is never taken away for ever.
FairSpec == Spec /\ WF_vars(Lkm)

-----------------------------------------------------------------------------
(* lkm3_init: 0 stands for an error, the frames begin at 1                 *)

OrsThePageNumber(va) ==
    LET p == va \div PageSize IN
    IF va = 0 \/ ~HasTable(space, p) \/ p \notin present
    THEN 0 ELSE Frame(p) * PageSize + p
Lkm3(va) ==
    LET p == va \div PageSize IN
    IF va = 0 \/ ~HasTable(space, p) \/ p \notin present
    THEN 0 ELSE Frame(p) * PageSize + (va % PageSize)

-----------------------------------------------------------------------------
(* Properties                                                              *)

\* Type invariant.
Countable == IF lkm = "lkm4" THEN Pages ELSE Regions
TypeOK ==
    /\ lkm \in Lkms /\ pc \in {"init", "lock", "walk", "done", "failed"}
    /\ held \subseteq {"rcu", "mmap"} /\ space \in Spaces /\ present \subseteq TablePages(space)
    /\ k \in 0 .. Len(space.vmas) /\ start \in Nat /\ end \in Nat
    /\ vm \in Nat /\ pm \in Nat /\ thp_count \in Nat
    /\ counted \subseteq Countable /\ always \subseteq ever /\ ever \subseteq Countable

\* The pages the walk has gone past, and the regions it has gone past whole.
Passed == AreasUpTo(space, k) \ (start .. end - 1)
PassedRegions == {r \in Regions : RegionPages(r) \subseteq Passed}

\* lkm4's vm is the number of pages of the areas begun: no area is counted
\* twice, none is missed, and none changes under the walk.
AreasCounted ==
    lkm = "lkm4" /\ pc \in {"walk", "done"} => vm = Cardinality(AreasUpTo(space, k))

\* lkm4's pm counts each page at most once, counts every page that was there
\* all the time and none that was never there, whatever faults, reclaim and
\* splits do meanwhile; while a page lies in a huge page it is not there.
PagesCounted ==
    lkm = "lkm4" /\ pc \in {"walk", "done"} =>
        /\ pm = Cardinality(counted)
        /\ counted \subseteq ever \cap Passed
        /\ always \cap Passed \subseteq counted

\* lkm5 counts each huge page at most once, counts every one that was huge all
\* the time and none that never was: also when it steps out of the middle of
\* one huge page into the middle of the next, or past the end of an area.
HugePagesCounted ==
    lkm = "lkm5" /\ pc \in {"walk", "done"} =>
        /\ thp_count = Cardinality(counted)
        /\ counted \subseteq ever \cap PassedRegions
        /\ always \cap PassedRegions \subseteq counted

\* Each of the three sums is exact, at every step of the walk, as far as it can
\* be of what changes under it.
CountsExact == AreasCounted /\ PagesCounted /\ HugePagesCounted

\* Nothing is summed up before the walk begins, and then nothing but the walk
\* moves: the areas do not change under it, and what it may count lies between
\* the histories.
WalkAlone ==
    /\ pc \in {"init", "lock", "failed"} =>
          vm = 0 /\ pm = 0 /\ thp_count = 0 /\ counted = {} /\ k = 0
    /\ pc = "walk" => "mmap" \in held /\ always \subseteq There /\ There \subseteq ever

\* The walk is inside the area it has begun, or past its end.
InStep ==
    /\ k = 0 => start = 0 /\ end = 0
    /\ k > 0 => end = space.vmas[k].end /\ space.vmas[k].start <= start

\* The inductive invariant.
IInv == TypeOK /\ CountsExact /\ WalkAlone /\ InStep

\* What lkm3 reports is a byte of the frame behind the address, and two addresses
\* are reported to be the same byte only at the same offset of pages that share
\* a frame.
Addresses == UNION {p * PageSize .. p * PageSize + PageSize - 1 : p \in Pages}
TranslationSound ==
    \A va, wb \in Addresses :
        Lkm3(va) # 0 =>
            /\ Lkm3(va) \div PageSize = Frame(va \div PageSize)
            /\ Lkm3(va) = Lkm3(wb) =>
                  /\ Frame(va \div PageSize) = Frame(wb \div PageSize)
                  /\ va % PageSize = wb % PageSize

\* The walk comes to its end, whatever the process does to its tables meanwhile,
\* unless lkm5 meets an area without a page directory, where it spins.
MayEnd == lkm = "lkm5" => \A p \in AllAreas(space) : ~EndsAbovePmd(space, p)
WalkEnds == pc = "walk" /\ MayEnd ~> pc = "done"
=============================================================================
