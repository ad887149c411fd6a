---------------------------- MODULE KernelModules ----------------------------
(***************************************************************************)
(* The drivers of assignment 1, side by side.  They have no state in       *)
(* common: a step of the kernel with the drivers in it is a step of one of *)
(* them and leaves the variables of the others alone.                      *)
(*                                                                         *)
(*   Lists   SiblingLists  chardev.c and lkm2.c, on the kernel's lists     *)
(*   Ioctl   IoctlDriver   ioctl_driver.c and ioctl_test.c                 *)
(*   Stats   MemStats      get_memstats.c                                  *)
(*   Faults  PgFaults      get_pgfaults.c                                  *)
(*   Life    ModuleLife    init and exit of all four                       *)
(***************************************************************************)
EXTENDS Integers

CONSTANTS
    Soldiers, Unborn, MayDie,              \* of SiblingLists
    Testers, Others, Va(_, _), OtherVas,   \* of IoctlDriver
    W, PageOffset, Cuts,
    Readers,                               \* of MemStats and of PgFaults
    Pages, PmdPages, Space(_), Present(_), \* of MemStats
    Pids, PidInputs, PageSize, UnitSize, MaxShows,
    Cpus, Counts, FirstFaults, MaxFaults,  \* of PgFaults
    Modules, Users                         \* of ModuleLife

VARIABLES
    next, prev, parent, move, links_reg, lock, cur, disturbed,
    vaddress, paddress, call, i, pa, val, calls_alone, asked, left,
    vm, pm, pid, unit, show, attr, task, k, start, end, reg, shows_alone, shows, exact,
    faults, ev, total_pgfaults, read, cpu, count, offset, low, reads_alone, honest,
    module, state, todo, have, file, inside, stale

listsVars == <<next, prev, parent, move, links_reg, lock, cur, disturbed>>
ioctlVars == <<vaddress, paddress, call, i, pa, val, calls_alone, asked, left>>
statsVars == <<vm, pm, pid, unit, show, attr, task, k, start, end, reg, shows_alone,
               shows, exact>>
faultsVars == <<faults, ev, total_pgfaults, read, cpu, count, offset, low,
                reads_alone, honest>>
lifeVars == <<module, state, todo, have, file, inside, stale>>
vars == <<listsVars, ioctlVars, statsVars, faultsVars, lifeVars>>

Lists == INSTANCE SiblingLists WITH pc <- move, reg <- links_reg
Ioctl == INSTANCE IoctlDriver WITH pc <- call, alone <- calls_alone
Stats == INSTANCE MemStats
    WITH Spaces <- {Space(p) : p \in Pids}, pc <- show, alone <- shows_alone
Faults == INSTANCE PgFaults WITH pc <- read, alone <- reads_alone
Life == INSTANCE ModuleLife

ASSUME ListsAssumption == Lists!SoldiersAssumption
ASSUME IoctlAssumption == Ioctl!AddressAssumption /\ Ioctl!ProcsAssumption
ASSUME StatsAssumption == Stats!ShowsAssumption
ASSUME FaultsAssumption == Faults!SizesAssumption
ASSUME LifeAssumption == Life!ModulesAssumption

-----------------------------------------------------------------------------
Init == Lists!Init /\ Ioctl!Init /\ Stats!Init /\ Faults!Init /\ Life!Init

ListsStep == Lists!Next /\ UNCHANGED <<ioctlVars, statsVars, faultsVars, lifeVars>>
IoctlStep == Ioctl!Next /\ UNCHANGED <<listsVars, statsVars, faultsVars, lifeVars>>
StatsStep == Stats!Next /\ UNCHANGED <<listsVars, ioctlVars, faultsVars, lifeVars>>
FaultsStep == Faults!Next /\ UNCHANGED <<listsVars, ioctlVars, statsVars, lifeVars>>
LifeStep == Life!Next /\ UNCHANGED <<listsVars, ioctlVars, statsVars, faultsVars>>

Next == ListsStep \/ IoctlStep \/ StatsStep \/ FaultsStep \/ LifeStep

Spec == Init /\ [][Next]_vars

-----------------------------------------------------------------------------
(* Properties: those of the modules                                        *)

\* Type invariants of the five modules, with what they relate: who holds the
\* pi_lock is where it is held; sums are bounded by what shows can have added; a
\* reader's offset is never past the longest line; a live module has all it needs.
TypeOK ==
    /\ Lists!TypeOK /\ Ioctl!TypeOK /\ Stats!TypeOK /\ Faults!TypeOK /\ Life!TypeOK

\* chardev.c:40-48: as long as no fork and no wait has overlapped a move, soldiers
\* that move at once leave both lists whole, in both directions, and a reader
\* comes to a head, though not always to its own.  An overlap may ruin the lists:
\* the driver does not take the tasklist_lock, and nothing is claimed after it.
ListsSound == ~disturbed => Lists!RingsHold /\ Lists!ForwardSound

\* ioctl_driver.c:34-50: a tester no other call overlaps has its values updated,
\* whatever is left in the static variables.
LoneTesterUpdates == Ioctl!LoneTesterUpdates

\* ioctl_driver.c:34-43: however calls overlap, each is told the translation of
\* an address some call asked for, or of the bytes a failed copy has left.
AnswersAreTranslations == Ioctl!AnswersAreTranslations

\* get_memstats.c:45-130: a show no other show overlaps returns the size of one
\* process, whatever is written to pid and unit meanwhile; its pages that are in
\* a table count, and do not move under the walk.
AloneExact == Stats!AloneExact

\* get_pgfaults.c:22-37: a read no other read overlaps hands out a piece of the
\* line of a number of page faults there was meanwhile.
LonePieceTrue == Faults!LonePieceTrue

\* Whichever step of an init fails, nothing is left behind and nothing released
\* before what was made from it; nobody is left in a module that is freed but
\* the users of an ioctl_driver whose init failed.
LifeSound == Life!NothingLeaked /\ Life!DependenciesKept /\ Life!NobodyInFreedModule
=============================================================================
