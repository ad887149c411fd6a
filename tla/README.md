# Verification of the CS695 assignments

TLA+ modules, TLC configurations and TLAPS proofs about the programs of this
repository: the KVM hypervisors and guests of assignment 2 and the kernel
modules of assignment 1. Paths below are relative to `src/`; `part1`, `part2`
are under `24m0832_assignment2/`, `1`, `2.1`, `2.2`, `3.1`, `3.2` under
`24m0832_assignment1/`.

To check: `tlc -config <cfg> <module>` for each run, `tlapm <module>` for each
module whose name ends in `Proofs`.

## Inventory

| Component | State it keeps | Operations | What is hard about it | What makes it correct | Status |
|---|---|---|---|---|---|
| **emu4** (`part2/emu4.c`, `guest4a.c`, `guest4b.c`) | a ring of 20 numbers in three copies (hypervisor, both guests), a schedule | one turn per schedule character: copy in, run the VM to the exit that ends its turn, copy back, print, copy to the other VM | three programs in lock step over two kinds of exits; wrap-around; stale copies; a producer that never looks at the consumer's pointer | the ring holds exactly the values produced and not consumed; prints are true; turns stay aligned; the schedule ends as long as both VMs go on | modelled, proved |
| **emu1** (`part2/emu1.c`, `guest1a.s`, `guest1b.s`) | one shared number, exit counters | run VM 1 to its `out`, VM 2 to its `in` and its `out` | a shutdown between the two exits of a number | every number arrives once, in order | modelled, proved |
| **emu2** (`part2/emu2.c`, `guest2a.s`, `guest2b.s`) | a burst of three | as emu1, in bursts | a burst cut short | what was produced of it is consumed, and nothing else | modelled, proved |
| **emu3** (`part2/emu3.c`, `guest3a.c`, `guest3b.c`) | two array addresses, a phase | register both arrays, then copy whole arrays | registration before use, whole arrays | arrays arrive whole, in order | modelled, proved |
| **emu** (`part2/emu.c`) | two vCPU threads, memory regions, descriptors | set both VMs up, run each in its own thread, join, clean up | `exit(1)` in one thread ends the other; an unchecked `NULL`; joins that may never return | clean-up after both threads have ended | modelled, proved |
| **simple-kvm** (`part1/simple-kvm.c`, `guest.c`) | special registers, exit counters, a text in guest memory, the guest's `eax` between two exits | four boot modes, six hypercalls | what counts as an exit; answers that cross two exits; an address that does not fit | each call is served and counted once, for its own argument; the mode fits the payload | modelled, proved |
| **KVM set-up of emu1 to emu4** | descriptors, memory regions | open, create VM and vCPU, map, load | partial failures | order of the calls | partly: the same sequence is modelled with emu and simple-kvm |
| **Dr. Bloom** (`2.2/chardev.c`, `control_station.c`, `soldier.c`, `run_dr_bloom.sh`) | process tree, signals, a spinlock, the kernel's lists of children | `IOCTL_SET_PARENT`, `IOCTL_EMERGENCY`, two signal handlers | concurrent processes, a lock taken with interrupts on, coalesced signals, a second's gap in the emergency, lists changed under the wrong lock | while no fork, wait or exit overlaps a move: every child is signalled and waited for, the lists stay whole; the station ends | modelled, proved |
| **lkm2** (`1/lkm2.c`) | none | one walk over a list of children | the list changes under the walk | as long as no fork or wait has overlapped a move, it comes from where it is to some head, not always its own | modelled and proved with the lists of Dr. Bloom |
| **lkm3, lkm4, lkm5** (`1/`) | sums | page walks | loops that must advance; pages that come and go, tables that become huge pages and back under the walk | each page is counted once, the walk ends | modelled, proved |
| **ioctl_driver** (`2.1/`) | two static variables | translate an address, write to one | unlocked ioctls share the variables | a caller gets the translation of its own address | modelled, proved |
| **get_memstats** (`3.2/`) | four globals behind sysfs files | set pid and unit, show two sizes | concurrent shows add to the same sums | a show returns the size of one process | modelled, proved |
| **get_pgfaults** (`3.1/`) | two globals behind a `/proc` file | a read in pieces | each piece is of a new count; the globals are shared | a piece is of a true line, the reader comes to the end | modelled, proved |
| **loading and unloading** of the four drivers | resources acquired | init, its error paths, exit | users get in before init has ended; exit under users | nothing leaked, nothing freed in use | modelled, proved |
| **lkm1** (`1/lkm1.c`) | none | one loop over all processes | - | - | not modelled |
| test programs, makefiles, linker scripts | - | - | - | - | not modelled |

How they interact: each hypervisor of assignment 2 and its guests share guest
memory and the `kvm_run` page, and alternate in one thread (in emu: two). The
processes of Dr. Bloom meet in the driver, through the station's `pi_lock`, its
list of children and signals; lkm2 meets them in those lists. The other kernel
modules are independent and are reached by ioctl, sysfs, `/proc` or at load time.

"Proved" is about safety: liveness is model-checked everywhere. Every hazard, with the line where it bites and the properties that watch it, is
in `PROJECT.json`.

## Modules

| Module | Models | Composes |
|---|---|---|
| `FifoChannel` | what all hypervisors of part 2 promise: a bounded FIFO channel that moves bursts of given sizes | |
| `Emu4`, `MCEmu4` | emu4 with both guests; the small instance | refines `FifoChannel` |
| `RealModeGuests` | the two real-mode guests and a `KVM_RUN` on them | |
| `Emu1`, `Emu2` | `kvm_run_vm` of emu1 and emu2 | extend `RealModeGuests`, refine `FifoChannel` |
| `Emu3` | `run_vm` of emu3 with both guests | refines `FifoChannel` |
| `EmuThreads` | main of emu.c and its two threads | |
| `Hypercalls` | what simple-kvm promises: calls served at once | |
| `SimpleKvm`, `MCSimpleKvm` | simple-kvm.c with its guest; the programs guests run | refines `Hypercalls` |
| `MCHypervisors` | a small instance of each of the two hypervisors that run any guest | extends `MCSimpleKvm` and `EmuThreads` |
| `DrBloom` | driver, station and soldiers of 2.2, lists as sets until they are torn | |
| `SiblingLists` | the links of those lists, store by store, with fork, wait and lkm2 | |
| `AddressSpace` | areas and page tables of a process | |
| `PageWalk`, `MCPageWalk` | lkm3, lkm4, lkm5; the small address spaces | extend `AddressSpace` |
| `MemStats` | get_memstats | extends `AddressSpace` |
| `IoctlDriver` | ioctl_driver and ioctl_test | |
| `PgFaults` | get_pgfaults and its readers | |
| `ModuleLife` | init and exit of the four drivers, and their users | |
| `KernelModules`, `MCKernelModules` | the kernel with the drivers in it; a small instance | instantiates the last four and `SiblingLists` |
| `Emu1Proofs` to `Emu4Proofs`, `DrBloomProofs`, `PageWalkProofs` | theorems about the module they are named for | extend it |
| `HypervisorsProofs` | theorems about `SimpleKvm` and `EmuThreads` | extends both |
| `KernelModulesProofs` | theorems about the five modules of `KernelModules` | extends it |

### Emu4

`shared_state` is the hypervisor's struct, `mem[v]` the struct at guest address
0x400 of the VM with schedule character `v`, `sched_order` and `sched_len` what
`read_sched_file` leaves of the file. `Schedule`, `ContinueRun` and
`EndProducerTurn`/`EndConsumerTurn` are the loop of `run_vm`; the `Guest*` actions
are the guests, one iteration of their `for` loop at a time, enabled only inside
`KVM_RUN` (`pc = "kvm_run"`) because one thread runs everything. `GuestShutsDown` is any other
exit, from which the guest does not come back (a triple fault, a failed entry): the code
looks for one exit of each VM only, so `ContinueRun` runs such a VM again and again. `rdtsc() % 11`
and `rdtsc() % 100` are arbitrary choices. `drawn`, `produced` and `consumed` are
histories: what the guest stored and what the hypervisor printed.

Assumed of the environment: the file holds no NUL bytes; `sched_order` is
followed by a zero byte, so that `strlen` of a full array is 100.

### Emu1, Emu2, RealModeGuests

A `KVM_RUN` (`KvmRun1`, `KvmRun2`) takes the guest to its next I/O instruction, or
the vCPU shuts down; a vCPU that has shut down stays down. `run[v]` is the
`kvm_run` page, through whose `data` a number is passed; `ax` wraps at `W`. The
`pc` of the hypervisor distinguishes a state before `KVM_RUN` from one after it,
so the order of the tests on the exit and the scope of each `break` (in
emu1 it leaves the inner loop, in emu2 the exits of one number) are kept.

### Emu3

`phase` is the loop `run_vm` is in, `exit` the port of the last exit. The guest's
array is filled in one step: the hypervisor never looks at it while the guest
runs. The address the guests register is abstracted to whether it is known.

### EmuThreads

`step` is the call main is about to make, `v` the VM it makes it for; `thread[w]` is
where `kvm_cpu_thread` stands for VM `w`. `ram` and `vcpus` say what has been
mapped, loaded and unmapped of each VM. `KvmRun` may return for any reason with
either result; `EndsThread`, `Continues` and `Exits` are what the thread makes of it.
`exit(1)` and a crash end main and both threads in one step (`Dies`). The guests of
emu.c count and hand their count out for ever: they are the exits they may cause.

### SimpleKvm, Hypercalls

One action per exit with its handler in `run_vm`: `OutPrint`, `OutUnknown` (an `out`
on the ports of `HC_numExits` and `HC_numExitsByType`, for which there is no
branch), `OutGvaToHva`, `InNumExits`, `InNumExitsByType`, `InGvaToHva`. The guest is a
sequence of calls, of which `instr` is the next instruction; `rax` is the `eax` by
which the answer of `gvaToHva` travels from the `out` to the `in`. `Start` boots one of
the four modes; `sregs` keeps the bits that decide the processor's mode, and
`SetupProtectedMode` and its companions set them in the order of the code.
`exits` is a history: the I/O exits made, counted or not.
`Hypercalls` knows neither exits nor `rax`: a call is one step with an answer.

### DrBloom

One control state per process. The ioctl of a soldier has five steps: the lookup
(lines 29-39), the lock (40-41), the change of parent (42-45), the new link (46)
and the unlock (47-49), so a station that exits, is waited for, sleeps or signals
can come between any two. The list of children is a set as long as its links are those
of a ring: a soldier is added at the head, where an iteration under way would not come
by, so the iteration works off the set it began with. The driver takes no
`tasklist_lock`, so the kernel may change one of the lists in the middle of a move: a
fork, a wait or the exit of the station (`ListChanges`) then may or may not undo
links of the move, and `torn` says that it has. Over a torn list a walk goes anywhere, `waitpid` finds some
of the dead children or none, and any of them may go on without end (`WalkNeverEnds`).
`sigchld_handler` waits for one child per step, so soldiers attach and die between two. External, and modelled from how the code uses it:
signals are delivered on the way back to user mode; SIGCHLD does not count; a
wake-up takes the `pi_lock` of the task it wakes; a process that exits gives its
children to init; shell and init wait for their children at once. A handler ends
the station's `sleep`, which is not restarted.

`MayBeKilled` are soldiers somebody may kill (the commented lines of the script),
`OpenMayFail` lets `/dev/chardev` fail to open, which no program checks, and
`TimerOnHolderCpu` lets the timer that ends the station's sleep interrupt a
soldier that holds the station's `pi_lock`. Not modelled: a soldier's own
`pi_lock`, which nobody else takes, and `EFAULT` and `EINVAL`, which no caller
provokes.

### SiblingLists

The same move once more, with the lists as the kernel has them: rings through
`next` and `prev` of the soldiers and of the two heads. `DelBack` and `DelForward` are
`list_del_rcu`, `AddPrepares`, `AddPublishes` and `AddBack` are `list_add_rcu`, one
action per store to memory others see, with the loads before it in `reg`. `ForkBack`
and `ForkForward` add a soldier at the tail of the shell's list, `ReapBack` and
`ReapForward` take a dead one off the station's; both exclude each other
(`tasklist_lock`) and do not exclude a move. The walks of `IOCTL_EMERGENCY` and of
lkm2 read one link at a time. `disturbed` records that a fork or a wait has overlapped
a move: the properties are about behaviours in which none has, because in the others
the lists really break (see Known deviations). Stores are seen in program order, as
on x86. `Overlap` is the state that ends the claims: the kernel in a change of a list while a soldier is in the
middle of its move.

### AddressSpace, PageWalk

Addresses are page numbers. A space has areas (`vmas`) and, for each region below
one entry of the level pmd, the level at which a walk to it ends: the walks of
the code go down four or five levels only to find out whether to go on, so `dir`
says `"no_pgd"` to `"no_pmd"`, `"huge"` or `"table"`. `pmd_bad` is true of a huge page.
lkm4 and lkm5 take one step per page (or per huge page) under the mmap lock, which
they hold for reading only. Between any two, pages come (`Fault`) and go (`Reclaim`), and
the tables change (`TablesChange`): an upper level is filled in, and an entry of the level pmd
becomes a table, a huge page or empty and back, in more ways than the kernel has.
So lkm5 may meet a huge page in its middle and step over the end of an area. `Remap`
changes the areas and is possible only while nobody holds the mmap lock. The way
down to one page is one step: that `pte_offset_map` reads the entry of the level pmd once more
is not seen. `Lkm5Spins` is the `continue` without a step
forward. lkm3's translation is the operator `Lkm3`: one walk to one address.
`counted`, `always` and `ever` are histories.

### MemStats

`vm`, `pm`, `pid` and `unit` are the globals; everything with an index `[r]` is local to a
show of reader `r`. A `+=` on a global is a load (`AddsArea`, `AddsPage`) and a store
(`StoresVm`, `StoresPm`), because shows of different readers run at once. The
spaces do not change while a show runs (`ShowsAssumption`): that pages come and go and tables
change under such a walk is `PageWalk`'s subject. A huge page has no table, so its
pages are not in `Present`. `MaxShows` bounds the shows of a behaviour.

### IoctlDriver

`vaddress` and `paddress` are the static variables. An `IOCTL_VA_TO_PA` has three steps:
copy in, translate, copy out. `Testers` run ioctl_test from its first to its last
call, `Others` ask for whatever they like. They may pass a bad pointer, of which
`copy_from_user` copies some first bytes of the address and makes zeroes of the others
(`AsksWithBadPointer`; `Cuts` are the sizes of what those bytes can hold): the call is over,
but `vaddress` has changed. `asked` is the history of whole addresses copied in, `left` that of what failed
copies have left. A copy is taken to be one store. `virt_to_phys` is what it is on the kernel's direct
mapping, an offset modulo the word.

### PgFaults

A read clears `ev`, adds up the processors one by one, stores the total and hands
out the piece of the line that begins at the reader's offset, clamped to what
is left. A reader that is given nothing takes it for the end of the file. Page faults go on all the time, up to `MaxFaults`. Characters are numbers; the text in
front of the number is one character, and the number has one digit or two.

### ModuleLife

For each driver the resources its init acquires in order, what each error label
releases, and the order of its exit. Users open, call, return and close at any
time a resource that lets them in is there. External: a file with an owner pins the module;
sysfs and procfs wait for running handlers when they take a file away; a failed
init frees the module whoever has it open.

### KernelModules, MCKernelModules

The five modules above share no variable. `KernelModules` puts them side by side: a
step of the kernel is a step of one of them and leaves the variables of the others
alone; where two have variables of one name, `INSTANCE ... WITH` gives them another
here. Its invariants are those of the five, and the theorems are about its `Spec`.
For TLC the product of five state spaces is too large and shows nothing more:
in `MCKernelModules` `exercised` chooses one, whose variables move while those of the
others keep their initial values.

## Runs

| Run | Instance | Distinct states | Shows |
|---|---|---|---|
| `emu4` | 3 slots, bursts of 0..2, 2 values, all schedules of up to 5 characters over `1`, `2` and another, either VM may shut down | 335 819 | the ring's properties, the inductive invariant, refinement of the FIFO channel, the schedule's end unless a VM shuts down |
| `emu4_whole_file` | an array of 2 characters, files of up to 3 | | *violated*: a longer file is cut off silently |
| `emu1` | `W` = 3, 10 numbers, either VM may shut down | 810 | the inductive invariant, FIFO channel of capacity 1 as long as the consumer is up, every number arrives |
| `emu2` | `W` = 4, 3 bursts of 3, either VM may shut down | 1 297 | the inductive invariant, a cut burst is consumed to its end, FIFO channel, every number arrives |
| `emu3` | arrays of 3, `W` = 7, 12 arrays, either VM may shut down | 131 | the inductive invariant, whole arrays in order, every array arrives |
| `dr_bloom` | 3 soldiers, 2 may be killed, opens may fail, the timer may hit | 88 511 | until the lists are torn: the inductive invariant (no dead child forgotten), the whole list signalled, attached soldiers terminated and waited for; the station ends, but for the two exceptions it names |
| `dr_bloom_late` | 3 soldiers | | *violated*: a soldier that attaches during `msleep` outlives the station unsignalled |
| `dr_bloom_timer` | 3 soldiers, the timer may hit | | *violated*: the station hangs for ever |
| `hypervisors` | simple-kvm with guest.c's program and all programs of 3 calls, in 4 modes; emu with every exit reason and every failing call | 20 840 | calls counted once and which exits are not counted, answers for their own argument as if at once, processor mode and payload agree; in emu, no thread without its memory, the end after both VMs' end |
| `simple_kvm_exits` | simple-kvm as before | | *violated*: the counters are not numbers of exits |
| `page_walk` | 6 pages in 3 regions, 4 layouts of areas, 4 levels in front, 4 between, 3 behind | 100 276 | the inductive invariant, exact sums while tables change, sound translations, the walk ends |
| `kernel_modules` | see below | 332 625 | the lists, the ioctls, the statistics, the counter and the loading of the drivers |

`kernel_modules`: `SiblingLists` with three soldiers, one to be forked and one that may
die; `IoctlDriver` with two testers and one other caller on 16 addresses, of which a failed copy leaves nothing or
the lower two bits;
`MemStats` with two readers, two processes of different size, one with a huge page, two shows and a
pid that no process has; `PgFaults` with two readers that take three characters at a time and a
count that goes from 9 to 10; `ModuleLife` with two users of each driver.

Bounds. Emu4: a ring of 3 with bursts of up to 2 wraps several times in five
turns, is full and empty, clamps on both sides, and gives one VM several turns in
a row; two values tell a stale cell from a fresh one. Emu1 to Emu3: the counters
wrap inside the run (in emu3 inside an array), and there are more rounds than
the state between rounds can distinguish. DrBloom: three soldiers let one hold
the lock, one wait for it and one die; all histories end, so nothing else is
bounded. SimpleKvm: three calls put every call before and after every other, with
counters that are not zero; the memory is mapped so that addresses lie on both
sides of 2^32 and a valid one is truncated to less. EmuThreads has no bound. PageWalk: areas
that begin and end inside a region, touch and leave gaps, and every level at
which a walk can end. SiblingLists: in a ring of three there are neighbours that move,
stay and are forked. MemStats: two shows are the fewest that overlap, or that
find what an earlier one has left. IoctlDriver: two addresses of one tester
and one of the other process are on both sides of the wrap. PgFaults: the line
grows by a digit in front of a reader's offset. `MaxValues`, `MaxRounds`, `MaxArrays`, `MaxShows` and
`MaxFaults` are the bounds in guards. The disjuncts `Stopped`, `Terminated` and `Over` stand for a
program that has ended (or a model that has reached its bound), so that deadlock
is checked everywhere.

Fairness. In the emulators one thread runs hypervisor and guests alike, so weak
fairness of the whole next-state relation says no more than that the thread is
scheduled and `KVM_RUN` returns. In EmuThreads main and each thread have weak
fairness of their own. In DrBloom each process has weak fairness for its
own steps and for the delivery of its signals; weak is enough because each
soldier takes the lock once. PageWalk: the processor that loads the module goes on;
nothing is assumed of faults and reclaim. MemStats: a reader inside the kernel goes
on; nobody is obliged to read or write. PgFaults: a reader reads until it is told
that the file has ended. Nothing is assumed about failures: a run that fails
ends the program, and the liveness properties say so; a VM of emu4 that has shut down keeps
`run_vm` in its turn for ever, and `ScheduleEnds` excepts it.

Every property is exercised by a mutant: a plausible bug in the code (an index
that does not wrap, a copy made into the wrong VM, a missing unlock, a handler
that waits once, ...) defined beside the operator it replaces, with which the
property fails.

## Findings

* `part2/emu4.c:387`: a scheduling file of more than 100 characters is cut off
  without a word, although the array is said to hold the scheduling order.
* `2.2/chardev.c:71`: between the walk over the children and the station's SIGTERM
  lies a second in which a soldier can attach; it is then never signalled,
  although the ioctl is there "to kill all the child process and itself".
* `2.2/chardev.c:40`: the station's `pi_lock` is taken with interrupts on; the
  station's own timer on that processor then spins for ever.

* `part1/simple-kvm.c:252`: the counters are those of calls and not of exits: the `out` of the two
  calls that ask for a number and the `in` of a translation are counted nowhere, although the README speaks of "the
  number of times the guest VM has exited" (`part1/README.md:21`) and of "the actual counts of exits" (line
  38). The two readings around `HC_printStr` differ by two, since the second counts
  itself, where line 53 says "the exit count increased by one". `CallsAreCounted` says what is counted.

## Known deviations

Behaviours of the code that the models contain and that the properties exclude
by name, so that what is checked is true of the code as it is:

* `part2/emu4.c:199-211`, `239-251`: any exit but the awaited one, a shutdown included, runs the VM again; the
  program then spins for ever. `ScheduleEnds` is about VMs that go on.
* `1/lkm5.c:57-80`: an area with an address that has no pgd, p4d or pud entry keeps
  the module in its loop for ever (`Lkm5Spins`); `WalkEnds` is about the other spaces.
* `1/lkm4.c:87`, `3.2/get_memstats.c:90`: a huge page is not counted, because its entry
  is "bad"; `PagesCounted` and `MemStats` are about pages that have a table.
  `1/lkm3.c` answers for an address in one as if nothing were there.
* `1/lkm3.c` walks without the mmap lock. Its walk is one step of the model, so a
  table freed under it is not seen.
* `1/lkm4.c`, `1/lkm5.c`: `down_read` may sleep inside an RCU read-side section, which a
  kernel with debugging reports. The models have no notion of it.
* `1/lkm4.c:94-115`, `3.2/get_memstats.c:94-98`: when the entry of the level pmd changes after its test,
  `pte_offset_map` returns `NULL`, and `pte_unmap` is called with it. The models have the way down in one step.
* `3.2/get_memstats.c`: shows that overlap return wrong sizes; `AloneExact` is about shows
  that overlap no other.
* `2.1/ioctl_driver.c`: calls that overlap are told translations of each other's
  addresses, or of what a failed copy has left, and a tester may then be killed by its write; `LoneTesterUpdates` is
  about testers no call has overlapped, `AnswersAreTranslations` about all.
* `3.1/get_pgfaults.c`: pieces taken in several reads are of different counts, so the line
  put together need not be the line of any; `LonePieceTrue` is about one piece.
* `2.2/chardev.c:42-46`: a fork by the shell or a wait by the station that overlaps a move loses a child
  from its list, or leaves a list that leads to a task that is gone, in which the
  emergency loops, or `waitpid`, or the exit (`torn` in `DrBloom`, `disturbed` in `SiblingLists`); lkm2, standing on a soldier that moves, goes on in the station's
  list and does not find its own head. `ListsSound` and the properties of `DrBloom` say
  what holds until one does.
* `2.2/chardev.c:34`: a soldier may attach to a station that has exited and been waited
  for; nobody then signals it. `AttachedSoldierReaped` is about those that come in time.
* `2.1/ioctl_driver.c:75`: a process that opens the device during an init that then fails
  is left with a file of a module that is gone (`NobodyInFreedModule` says it is the only
  case).
* `part1/simple-kvm.c:265`: Both calls of
  `HC_numExitsByType` return one address, so that the second text overwrites the first.
  A host address is cut to 32 bits, and a valid one may come out as 0, the answer
  for an invalid one.

## Proofs

Each theorem holds for every value of the constants that satisfies the module's
assumptions, which TLC evaluates for the instances above. The pattern is always
the same: an inductive invariant, checked by TLC before it was proved (where a
run does not have it, in a run of its own; the positions of the lists, which are
any integers, from a small range), then `Init => IInv` and a lemma per action for the step;
the safety properties and the refinements follow from it. Every safety property
of every passing run is a theorem.

**`Emu4Proofs`**, for every ring size, burst size, set of values and set of files:
`Invariance`, and from it `TypeCorrect`, `QueueCorrect`, `ConsumedCorrect`,
`PrintCorrect`, `UnreadSafe`, `CopiesAgree`, `TurnsCorrect`: every safety invariant of the run.
`Refinement`: emu4 implements `FifoChannel`. The end of a producer's turn is a
`Put`, the end of a consumer's a `Take`, everything else a stutter.

None of the safety invariants is inductive. `QueueShown` speaks of states between
turns, but a turn has many steps, during which the ring the next print depends
on exists only in the scheduled guest's memory. `IInv` therefore says what a
half-done turn looks like: `RingHoldsOutstanding` (the hypervisor's ring is the
outstanding part of the histories, cell by cell), `BetweenTurns` (copies agree,
guests are at the top of their loops), `DuringTurn` (where the scheduled guest
stands and which exit it has made, or that it has shut down), `ProducerTurn` and `ConsumerTurn` (how far the
guest's copy is ahead of the hypervisor's and what its `todo` may still do). Every
index is below twice the ring size, so the lemmas on `Wrap` turn all arithmetic
modulo `N` into linear arithmetic. The assumptions are `SizesAssumption`,
`ItemsAssumption` (0 is a value: the ring starts as zeroed memory) and
`SchedAssumption`.

**`Emu1Proofs`**, for every register size and whichever VMs may shut down:
`Invariance`, `RoundsAligned` (`LockStep`) and `Refinement`. `LockStep` speaks of the state
between rounds only. `InRound` adds where a number is inside a round: in
`shared_val` until the `in` takes it over, then in the `kvm_run` page until the `out` has
handed it out. From it a consumed number is the one that was awaited, which is
the `Take` of the channel.

**`Emu2Proofs`**, for every length of a burst: `Invariance`, `BurstsArrive` and `Refinement`.
`InFlight` counts how far the burst has come (`Done`): what was consumed is what was
produced first, and the rest of what was produced is the rest of the burst in
`shared_val`, index by index. `Stage` is the consumer's place between the two exits
of a number. Both are about a consumer that is up: after its shutdown the
producer goes on and overwrites the burst, and the channel is given up.

**`Emu3Proofs`**, for every length of an array: `Invariance` and `Refinement`.
`ArrayInFlight` says that exactly the array in the producer's memory is on its way in
the consumer's phase and none outside it, `ProducerFits` which exit of the producer
a phase can see, so that an array is complete when it is copied.

**`DrBloomProofs`**, for every set of soldiers and every environment:
`Invariance`, `TypeCorrect`, `ZombiesRemembered` (`NoZombieForgotten`),
`EmergencyComplete` (`WholeListSignalled`, a property of steps).
That a dead child implies a pending SIGCHLD needs `ListAgrees`: whoever is on the
list has the station as its parent, so its death is reported to the station and
to nobody else; it is said of a list that is not torn. That the walk misses nobody needs `LockHeld`: nobody else is
between lock and unlock while the station signals, so the list does not grow,
and `SignalledSoFar` counts down to the end of the walk.

**`PageWalkProofs`**, for every set of address spaces (`SpaceAssumption`: areas are in order
and disjoint, a huge page lies in one area, the page numbers are whole regions): `Invariance`,
`SumsExact` (`CountsExact`) and `Lkm3Sound` (`TranslationSound`). The sums are cardinalities of sets of pages the walk has gone past
(`Passed`); a step adds to the set what it steps over, which is new to it because the
areas are disjoint and the walk only goes forward. `WalkAlone` says that the areas do
not change from the moment the lock is held; `InStep` that the walk is inside the
area begun last or past its end. lkm5 may enter a region that becomes a huge page under it, count it in
the middle and step as far into the next. It counts none twice because a region of which
a page is still ahead has not been counted; none outside the area, because a huge page lies in one
area whole (`WellFormed`), when it is counted as well as before.

`WalkAdvances` is the safety half of `WalkEnds`: where lkm5 meets no gap, every step of the walk goes past a
page or an area or ends it, and the process cannot set it back.
`Lkm3Sound` takes the address apart into page and offset; two pages may share a frame, and no
frame has the number 0, which stands for an error (`FrameAssumption`).

**`HypervisorsProofs`**, for every set of programs, memory, and size of a word
(`SimpleKvmAssumption`): `KvmInvariance`, and from it `KvmTyped`, `EveryCallIsCounted` and `GuestsFit`;
`KvmRefines`: simple-kvm implements `Hypercalls`. `TypeOK` has the guest in step with its
program: what is left of it begins behind the calls in the log. `CallsAreCounted` is
inductive only with it, because what a call counts depends on which call is next; that
`HC_numExits` returns the number of calls, and which exits are missing, follows by adding up the log.
`GuestFitsCpu` needs `NotBooted`: the registers before the modes' set-up are those of a new
vCPU. The refinement needs `AnswerInRax`: between the two exits of a translation the
answer to its own argument is in `eax`, and the call, already counted, is not yet
served (`Served`); every other call is answered in the exit that counts it.

`ThreadsInvariance` (`ThreadsSound`): whatever the guests of emu.c exit with. `RunsOnItsMemory` alone
is not inductive, since main unmaps without looking at the threads; `MainInStep`
says that by then it has joined both, that a thread it has joined has ended, and
that it makes none before all memory is loaded and its vCPU is there. `NeverRunAgain` is the
safety half of `EndsAfterBoth`: a VM that has shut down is not run again (`AtItsExit`).

**`KernelModulesProofs`**, for every value of the constants of the five modules. Each has its
invariant (`LifeInvariance`, `IoctlInvariance`, `StatsInvariance`, `FaultsInvariance`, `ListsInvariance`), which a
step of another driver keeps because it leaves the variables alone:

* `DriversComeAndGo` (`LifeSound`). `InStep`: at all times a driver has the first n of its
  needs, and what is left to do follows from n, upwards in init, backwards in exit and
  after an error. `UsersKnown` adds who can be inside when a file or a module goes.
* `LoneTestersUpdate`, `EveryAnswerIsATranslation`. `VariablesKnown` says of the two static variables that
  what a call will take from them was copied in, by whomever, whole or as far as a failed copy came; `AloneInDriver` that
  a tester no call has overlapped finds its own address in them. That writing to the
  answer reaches the tester's own value needs that `phys_to_virt` undoes
  `virt_to_phys` modulo the word.
* `LoneShowsAreExact` (`AloneExact`). The type invariant bounds the globals by the number of shows
  times the pages, which no overlap of unlocked additions may exceed. That a lost
  update does not break it is `SumsBounded`: the sums leave room for every pair of
  a show and a page it has not yet added, so whatever a show has loaded, it can
  store with its share added. `AloneSums` is `PageWalk`'s argument, for a show that has
  the globals to itself.
* `LonePiecesAreTrue` (`LonePieceTrue`). The processors are added up one by one while they
  count. `AloneSums` keeps the sum between two bounds: no more than the first processors
  have counted by now, and with what the others have counted no less than all had at the
  beginning. `Sum` and `UpTo` are recursive functions; that they exist, and grow with their
  argument, is proved by the least number for which it would fail (`LeastNatural`, `UpToN`), the
  library's induction being out of the provers' reach.
* `ListsStayWhole` (`ListsSound`). A ring is described by an order: every soldier has a position
  (an integer), `next` leads upwards without passing a member over, `prev` downwards, and both
  come back to the head (`Linked`). Adding in front, adding at the end and taking out keep such an
  order (`LinkedInFront`, `LinkedWithout`, and the same backwards), which is what each store
  of a move, a fork or a wait does to one of the directions; the two directions differ
  between two stores, and `Halfway` says how. `RingsHold` follows because the two directions
  invert each other, `ForwardSound` because a walk that never came back to its head
  would have visited more soldiers than there are. All this is kept only until a fork or a wait
  overlaps a move. The theorem says exactly when that is: `disturbed` becomes true with the step after which
  `Overlap` holds and with no other, so nothing is excepted silently. Without that condition `Exclusive` and `Parents` are proved:
  who excludes whom, and whose child each soldier is.
* `DriversTyped` (`TypeOK`), the types of all five.

Model-checked only: every liveness property (`ScheduleEnds`, `EveryNumberConsumed`,
`EveryArrayConsumed`, `AttachedSoldierReaped`, `StationEnds`, `EndsAfterBoth`, `WalkEnds`, `ReadsEnd`), since
liveness under fairness is out of the provers' reach, and the four violations, which are about
the instances in which TLC finds them.

## Not modelled

* `lkm1`: one loop over the kernel's list of processes that prints and keeps nothing;
  nothing else in the repository touches that list.
* The set-up of emu1 to emu4 on its own: it repeats that of emu.c and of simple-kvm.c,
  runs once before anything else, and ends the program when a call fails.
* Functions nobody calls (the per-VM thread function of emu.c, left in `part2/emu1.c` and `part2/emu2.c`).
* The bits of segment descriptors and page-table entries that no property is about;
  what decides the processor's mode is in `SimpleKvm`.
* `pid_show`, `unit_show`, `open` and `release` of the drivers: they change nothing.
* Test programs, makefiles, shell scripts that only load and unload, linker scripts.
