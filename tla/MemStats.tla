------------------------------ MODULE MemStats ------------------------------
(***************************************************************************)
(* get_memstats of assignment 1 (3.2): files under /sys/kernel/mem_stats   *)
(* that take a pid and a unit and show the sizes of that process.          *)
(*                                                                         *)
(* Each show sums up in the globals vm and pm, under no lock that another  *)
(* show would wait for: sysfs lets readers with files of their own in at   *)
(* once.  A += on a global is a load and a store.                          *)
(***************************************************************************)
EXTENDS AddressSpace, Integers

CONSTANTS
    Readers,          \* processes that read the files
    Space(_),         \* the address space of a pid
    Present(_),       \* the pages of a pid whose table entries are present
    Pids,             \* the processes there are
    PidInputs,        \* what may be written to the file pid
    PageSize,
    MaxShows,         \* bound of the model: shows begun in a behaviour
    UnitSize          \* bytes of a unit: a function of "B", "K", "M"

\* A page that is present has a table: those of a huge page have none, and are
\* not in Present.  Pages are taken to stay as they are while shows walk; what
\* moving pages and changing tables do to such a walk is PageWalk's matter.
ShowsAssumption ==
    /\ IsFiniteSet(Readers) /\ Pages \subseteq Nat /\ IsFiniteSet(Pages)
    /\ \A p \in Pids : WellFormed(Space(p)) /\ Present(p) \subseteq TablePages(Space(p))
    /\ "B" \in DOMAIN UnitSize /\ MaxShows \in Nat

VARIABLES
    vm, pm,           \* the globals, in pages
    pid, unit,
    pc,               \* pc[r]: where reader r is in its show
    attr,             \* attr[r]: the file it reads, "vm" or "pm"
    task,             \* task[r]: the process its walk is about
    k, start, end,    \* of its walk
    reg,              \* reg[r]: what it has loaded of a global
    alone,            \* history: no other show has overlapped this one
    shows,            \* shows begun
    exact             \* history: its last show returned an error or a true size

settings == <<pid, unit>>
walks == <<k, start, end>>
vars == <<vm, pm, settings, pc, attr, task, walks, reg, alone, shows, exact>>

None == -1

Init ==
    /\ vm = 0 /\ pm = 0      \* set again before any use
    /\ pid = None /\ unit = "B"
    /\ pc = [r \in Readers |-> "idle"] /\ attr = [r \in Readers |-> "vm"]
    /\ task = [r \in Readers |-> None] /\ reg = [r \in Readers |-> 0]
    /\ k = [r \in Readers |-> 0] /\ start = [r \in Readers |-> 0] /\ end = [r \in Readers |-> 0]
    /\ shows = 0
    /\ alone = [r \in Readers |-> FALSE]
    /\ exact = [r \in Readers |-> TRUE]

-----------------------------------------------------------------------------
(* The files pid and unit                                                  *)

PidStore ==
    /\ pid' \in PidInputs
    /\ UNCHANGED <<vm, pm, unit, pc, attr, task, walks, reg, alone, shows, exact>>

\* Another unit is refused.
UnitStore ==
    /\ unit' \in DOMAIN UnitSize
    /\ UNCHANGED <<vm, pm, pid, pc, attr, task, walks, reg, alone, shows, exact>>

-----------------------------------------------------------------------------
(* vm_show and pm_show, for reader r                                       *)

Convert(pages) == (pages * PageSize) \div UnitSize[unit]

At(r, from, to) == pc[r] = from /\ pc' = [pc EXCEPT ![r] = to]

\* The size that reader r asks for.
Size(r) ==
    IF attr[r] = "vm" THEN Cardinality(AllAreas(Space(task[r])))
    ELSE Cardinality(Present(task[r]))

Show(r) ==
    /\ pc[r] = "idle" /\ shows < MaxShows /\ shows' = shows + 1
    /\ \E a \in {"vm", "pm"} : attr' = [attr EXCEPT ![r] = a]
    /\ alone' = [q \in Readers |-> IF q = r THEN \A x \in Readers : pc[x] = "idle" ELSE alone[q] /\ pc[q] = "idle"]
    /\ IF pid >= 0 THEN At(r, "idle", "reset") ELSE UNCHANGED pc
    /\ exact' = [exact EXCEPT ![r] = TRUE]
    /\ UNCHANGED <<vm, pm, settings, task, walks, reg>>

\* get_mem_stats
KeepsOldSum(r) ==
    /\ At(r, "reset", "find")
    /\ vm' = 0 /\ UNCHANGED <<pm, settings, attr, task, walks, reg, alone, shows, exact>>
Reset(r) ==
    /\ At(r, "reset", "find")
    /\ vm' = 0 /\ pm' = 0
    /\ UNCHANGED <<settings, attr, task, walks, reg, alone, shows, exact>>

FindTask(r) ==
    /\ pid \in Pids
    /\ At(r, "find", "walk")
    /\ task' = [task EXCEPT ![r] = pid]
    /\ UNCHANGED <<vm, pm, settings, attr, walks, reg, alone, shows, exact>>

\* -EINVAL or -ESRCH: the pid has become negative, or no process has it.
NoTask(r) ==
    /\ pid \notin Pids
    /\ At(r, "find", "idle")
    /\ UNCHANGED <<vm, pm, settings, attr, task, walks, reg, alone, shows, exact>>

AddsArea(r) ==
    /\ start[r] >= end[r] /\ k[r] < Len(Space(task[r]).vmas)
    /\ At(r, "walk", "add_vm")
    /\ k' = [k EXCEPT ![r] = @ + 1]
    /\ LET vma == Space(task[r]).vmas[k'[r]] IN
           start' = [start EXCEPT ![r] = vma.start] /\ end' = [end EXCEPT ![r] = vma.end]
    /\ reg' = [reg EXCEPT ![r] = vm]
    /\ UNCHANGED <<vm, pm, settings, attr, task, alone, shows, exact>>

StoresVm(r) ==
    /\ At(r, "add_vm", "walk")
    /\ vm' = reg[r] + (end[r] - start[r])
    /\ UNCHANGED <<pm, settings, attr, task, walks, reg, alone, shows, exact>>

InTable(r) == HasTable(Space(task[r]), start[r]) /\ start[r] \in Present(task[r])

\* No table, be it for want of one or for a huge page, or nothing present in it.
SkipsPage(r) ==
    /\ start[r] < end[r] /\ ~InTable(r)
    /\ At(r, "walk", "walk")
    /\ start' = [start EXCEPT ![r] = @ + 1]
    /\ UNCHANGED <<vm, pm, settings, attr, task, k, end, reg, alone, shows, exact>>

AddsPage(r) ==
    /\ start[r] < end[r] /\ InTable(r)
    /\ At(r, "walk", "add_pm")
    /\ reg' = [reg EXCEPT ![r] = pm]
    /\ UNCHANGED <<vm, pm, settings, attr, task, walks, alone, shows, exact>>

StoresPm(r) ==
    /\ At(r, "add_pm", "walk")
    /\ pm' = reg[r] + 1
    /\ start' = [start EXCEPT ![r] = @ + 1]
    /\ UNCHANGED <<vm, settings, attr, task, k, end, reg, alone, shows, exact>>

Returns(r) ==
    /\ start[r] >= end[r] /\ k[r] = Len(Space(task[r]).vmas)
    /\ At(r, "walk", "idle")
    /\ exact' = [exact EXCEPT ![r] =
                    Convert(IF attr[r] = "vm" THEN vm ELSE pm) = Convert(Size(r))]
    \* The locals of the show are gone.
    /\ task' = [task EXCEPT ![r] = None]
    /\ k' = [k EXCEPT ![r] = 0] /\ start' = [start EXCEPT ![r] = 0] /\ end' = [end EXCEPT ![r] = 0]
    /\ reg' = [reg EXCEPT ![r] = 0]
    /\ UNCHANGED <<vm, pm, settings, attr, alone, shows>>

Continues(r) ==
    \/ Reset(r) \/ FindTask(r) \/ NoTask(r)
    \/ AddsArea(r) \/ StoresVm(r) \/ SkipsPage(r) \/ AddsPage(r) \/ StoresPm(r) \/ Returns(r)

Next == PidStore \/ UnitStore \/ \E r \in Readers : Show(r) \/ Continues(r)

Spec == Init /\ [][Next]_vars

\* A reader inside the kernel is not kept from running for ever; nobody is
\* obliged to read or to write.
FairSpec == Spec /\ \A r \in Readers : WF_vars(Continues(r))

-----------------------------------------------------------------------------
(* Properties                                                              *)

\* Type invariant.  The sums may be wrong, but not beyond what all shows so far
\* can have added.
TypeOK ==
    /\ shows \in 0 .. MaxShows
    /\ vm \in 0 .. shows * Cardinality(Pages) /\ pm \in 0 .. shows * Cardinality(Pages)
    /\ pid \in PidInputs \cup {None} /\ unit \in DOMAIN UnitSize
    /\ pc \in [Readers -> {"idle", "reset", "find", "walk", "add_vm", "add_pm"}]
    /\ attr \in [Readers -> {"vm", "pm"}] /\ task \in [Readers -> Pids \cup {None}]
    /\ \A r \in Readers : pc[r] \in {"walk", "add_vm", "add_pm"} =>
           task[r] \in Pids /\ k[r] \in 0 .. Len(Space(task[r]).vmas) /\ start[r] <= end[r]

\* A show no other show overlaps returns the size of one process, whole, in
\* one unit, whatever is written to pid and unit meanwhile and whatever an
\* earlier show has left in the globals: of vm all areas, of pm the pages that
\* have a table and are present, which do not move meanwhile.
AloneExact == \A r \in Readers : pc[r] = "idle" /\ alone[r] => exact[r]

\* What reader r has added up: areas in vm, the pages it has gone past in pm.
Walking(r) == pc[r] \in {"walk", "add_vm", "add_pm"}
Summed(r) == AreasUpTo(Space(task[r]), IF pc[r] = "add_vm" THEN k[r] - 1 ELSE k[r])
Passed(r) == {p \in AreasUpTo(Space(task[r]), k[r]) : p < start[r]}

\* Where a walk is.
Place(r) ==
    /\ ~Walking(r) \/ k[r] = 0 => k[r] = 0 /\ start[r] = 0 /\ end[r] = 0
    /\ Walking(r) /\ k[r] # 0 => LET vma == Space(task[r]).vmas[k[r]] IN
           vma.start <= start[r] /\ end[r] = vma.end
    /\ pc[r] = "add_vm" => k[r] # 0 /\ start[r] = Space(task[r]).vmas[k[r]].start
    /\ pc[r] = "add_pm" => start[r] < end[r] /\ start[r] \in Present(task[r])
WalksKnown ==
    /\ k \in [Readers -> Nat] /\ start \in [Readers -> Nat] /\ end \in [Readers -> Nat]
    /\ reg \in [Readers -> Nat] /\ alone \in [Readers -> BOOLEAN] /\ exact \in [Readers -> BOOLEAN]
    /\ \A r \in Readers : Place(r) /\ (pc[r] # "idle" => exact[r])

\* What the shows under way have still to add, each page for each of them: the
\* sums leave room for it.
LeftVm == {x \in Readers \X Pages : pc[x[1]] # "idle" /\ (Walking(x[1]) => x[2] \notin Summed(x[1]))}
LeftPm == {x \in Readers \X Pages : pc[x[1]] # "idle" /\ (Walking(x[1]) => x[2] \notin Passed(x[1]))}
Most(left) == shows * Cardinality(Pages) - Cardinality(left)
SumsBounded ==
    /\ vm \in 0 .. Most(LeftVm) /\ pm \in 0 .. Most(LeftPm)
    /\ \A r \in Readers : /\ pc[r] = "add_vm" => reg[r] \in 0 .. Most(LeftVm)
                          /\ pc[r] = "add_pm" => reg[r] \in 0 .. Most(LeftPm)

\* A show no other show overlaps has the globals to itself, and they are what it
\* has added up.
AloneSums ==
    \A r \in Readers : pc[r] # "idle" /\ alone[r] =>
        /\ \A q \in Readers \ {r} : pc[q] = "idle"
        /\ pc[r] = "find" => vm = 0 /\ pm = 0
        /\ Walking(r) => /\ vm = Cardinality(Summed(r))
                         /\ pm = Cardinality(Present(task[r]) \cap Passed(r))
        /\ pc[r] = "add_vm" => reg[r] = vm
        /\ pc[r] = "add_pm" => reg[r] = pm

\* The inductive invariant.
IInv == TypeOK /\ WalksKnown /\ SumsBounded /\ AloneSums /\ AloneExact

\* Every show returns.
ShowReturns == \A r \in Readers : pc[r] # "idle" ~> pc[r] = "idle"
=============================================================================
