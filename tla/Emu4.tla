-------------------------------- MODULE Emu4 --------------------------------
(***************************************************************************)
(* Problem 4 of assignment 2: the hypervisor part2/emu4.c with its guests  *)
(* guest4a.c (the producer) and guest4b.c (the consumer).                  *)
(*                                                                         *)
(* The hypervisor keeps a ring buffer.  For every character of a schedule  *)
(* it copies the ring into the memory of the VM the character names, runs  *)
(* that VM's vCPU until it signals the end of its turn on the port         *)
(* expected of it, reads the ring back, prints what changed and copies the *)
(* new ring into the other VM.  Both guests are endless loops that resume  *)
(* where their last I/O instruction left them, so the turn discipline is   *)
(* the product of three programs.                                          *)
(*                                                                         *)
(* A VM is named by its schedule character.  The guests' loops are         *)
(* interpreted one step at a time: guest code runs only while the vCPU is  *)
(* inside KVM_RUN (pc = "kvm_run").                                        *)
(***************************************************************************)
EXTENDS Integers, Sequences

CONSTANTS
    N,            \* slots of the ring (20 in the code)
    MaxBurst,     \* the most one turn may produce or consume (10)
    Items,        \* the values of rdtsc() % 100
    SchedCap,     \* bytes read from the scheduling file (100)
    SchedFiles,   \* the scheduling files under consideration, as sequences
    MayShutDown   \* VMs that may make an exit from which they do not come back

ASSUME SizesAssumption ==
    N \in Nat \ {0} /\ MaxBurst \in Nat /\ SchedCap \in Nat

\* The rings start out as zeroed memory.
ASSUME ItemsAssumption == 0 \in Items

\* Scheduling files are texts without NUL characters.
ASSUME SchedAssumption == SchedFiles \subseteq Seq(STRING)

Producer == "1"
Consumer == "2"
VMs == {Producer, Consumer}
Other(v) == IF v = Producer THEN Consumer ELSE Producer

VARIABLES
    sched_file,    \* contents of the file named on the command line
    i,             \* the hypervisor's position in the schedule
    pc,            \* the hypervisor: "turn", "kvm_run", "exited", "done", "failed"
    shared_state,  \* the hypervisor's ring
    mem,           \* mem[v]: the ring at guest physical address 0x400 of v
    exit,          \* direction and port of the last exit, if it is an I/O exit
    gpc,           \* gpc[v]: where v's guest stands: "in", "draw", "loop" or "down"
    todo,          \* todo[v]: iterations left of the guest's for loop
    drawn,         \* history: every item the producer's guest stored, oldest first
    produced,      \* the values printed after "Produced", oldest first
    consumed       \* the values printed after "Consumed", oldest first

hypervisor == <<sched_file, i, shared_state, produced, consumed>>
vars == <<sched_file, i, pc, shared_state, mem, exit, gpc, todo, drawn, produced, consumed>>

-----------------------------------------------------------------------------
(* The ring buffer                                                         *)

Slots == 0 .. N - 1

BufferState ==
    [prod_p : Slots, cons_p : Slots, count : 0 .. N, buff : [Slots -> Items]]

EmptyRing ==
    [prod_p |-> 0, cons_p |-> 0, count |-> 0, buff |-> [s \in Slots |-> 0]]

\* Indices go round the ring.
Wrap(a) == a % N

NextSlot(p) == Wrap(p + 1)

\* One iteration of the producer's loop.
Stored(st, item) ==
    [prod_p |-> NextSlot(st.prod_p),
     cons_p |-> st.cons_p,
     count  |-> st.count + 1,
     buff   |-> [st.buff EXCEPT ![st.prod_p] = item]]

\* One iteration of the consumer's loop.
RemovedKeepsPointer(st) ==
    [prod_p |-> st.prod_p, cons_p |-> st.cons_p,
     count  |-> st.count - 1, buff |-> st.buff]
Removed(st) ==
    [prod_p |-> st.prod_p,
     cons_p |-> NextSlot(st.cons_p),
     count  |-> st.count - 1,
     buff   |-> st.buff]

\* The n values of a ring st from slot p on, going round.
CellsFrom(st, p, n) == [j \in 1 .. n |-> st.buff[Wrap(p + j - 1)]]

\* What the hypervisor prints after "HYPVSR:".
ListingOneLate(st) == CellsFrom(st, st.cons_p + 1, st.count)
Listing(st) == CellsFrom(st, st.cons_p, st.count)

\* What it prints after "Produced" and "Consumed", given the ring before the
\* turn and the ring read back after it.
ProducedValuesFromOldRing(old, new) ==
    CellsFrom(old, old.prod_p, new.count - old.count)
ProducedValues(old, new) == CellsFrom(new, old.prod_p, new.count - old.count)
ConsumedValuesFromNewPointer(old, new) ==
    CellsFrom(old, new.cons_p, old.count - new.count)
ConsumedValues(old, new) == CellsFrom(old, old.cons_p, old.count - new.count)

-----------------------------------------------------------------------------
(* The schedule                                                            *)

\* read(fd, sched_order, 100): what lies beyond the array is never seen.
sched_len == IF Len(sched_file) > SchedCap THEN SchedCap ELSE Len(sched_file)
sched_order == SubSeq(sched_file, 1, sched_len)

\* The VM whose turn it is (meaningful while i < sched_len).
sched == sched_order[i + 1]

\* The exit that ends a VM's turn.
DoneExitSwapped(v) ==
    [direction |-> "out", port |-> IF v = Producer THEN "F3" ELSE "F2"]
DoneExitOnRead(v) == [direction |-> "in", port |-> "F4"]
DoneExit(v) ==
    [direction |-> "out", port |-> IF v = Producer THEN "F2" ELSE "F3"]
ReadExit == [direction |-> "in", port |-> "F4"]

\* KVM_EXIT_SHUTDOWN, or whatever else is no KVM_EXIT_IO.
ShutdownExit == [direction |-> "none", port |-> "none"]

Exits ==
    {ReadExit, ShutdownExit}
        \cup {[direction |-> "out", port |-> p] : p \in {"F2", "F3"}}

-----------------------------------------------------------------------------
Init ==
    /\ sched_file \in SchedFiles
    /\ i = 0
    /\ pc = "turn"
    /\ shared_state = EmptyRing
    /\ mem = [v \in VMs |-> EmptyRing]
    /\ exit = ReadExit
    /\ gpc = [v \in VMs |-> "in"]
    /\ todo = [v \in VMs |-> 0]
    /\ drawn = <<>>
    /\ produced = <<>>
    /\ consumed = <<>>

(* The hypervisor, between turns                                           *)

\* '1' or '2': hand the ring to that VM and enter it.
Schedule ==
    /\ pc = "turn" /\ i < sched_len
    /\ sched \in VMs
    /\ mem' = [mem EXCEPT ![sched] = shared_state]
    /\ pc' = "kvm_run"
    /\ UNCHANGED <<hypervisor, exit, gpc, todo, drawn>>

\* Any other character schedules nobody.
SkipCharacter ==
    /\ pc = "turn" /\ i < sched_len
    /\ sched \notin VMs
    /\ i' = i + 1
    /\ UNCHANGED <<sched_file, pc, shared_state, mem, exit, gpc, todo, drawn, produced, consumed>>

Finish ==
    /\ pc = "turn" /\ i >= sched_len
    /\ pc' = "done"
    /\ UNCHANGED <<hypervisor, mem, exit, gpc, todo, drawn>>

-----------------------------------------------------------------------------
(* The guests: steps of the scheduled VM inside KVM_RUN                    *)

GuestRuns(at) == pc = "kvm_run" /\ gpc[sched] = at

\* HC_in32(0xF4, &dummy)
GuestIn ==
    /\ GuestRuns("in")
    /\ exit' = ReadExit
    /\ gpc' = [gpc EXCEPT ![sched] = "draw"]
    /\ pc' = "exited"
    /\ UNCHANGED <<hypervisor, mem, todo, drawn>>

\* rdtsc() % 11, clamped to the free slots or to the values available.
ClampUnchecked(r, limit) == r
Clamp(r, limit) == IF r > limit THEN limit ELSE r

GuestDraw ==
    /\ GuestRuns("draw")
    /\ \E r \in 0 .. MaxBurst :
          todo' = [todo EXCEPT ![sched] =
                     Clamp(r, IF sched = Producer THEN N - mem[sched].count
                                                  ELSE mem[sched].count)]
    /\ gpc' = [gpc EXCEPT ![sched] = "loop"]
    /\ UNCHANGED <<hypervisor, pc, mem, exit, drawn>>

GuestProduce ==
    /\ GuestRuns("loop") /\ sched = Producer /\ todo[sched] > 0
    /\ \E item \in Items :
          /\ mem' = [mem EXCEPT ![sched] = Stored(mem[sched], item)]
          /\ drawn' = Append(drawn, item)
    /\ todo' = [todo EXCEPT ![sched] = todo[sched] - 1]
    /\ UNCHANGED <<hypervisor, pc, exit, gpc>>

GuestConsume ==
    /\ GuestRuns("loop") /\ sched = Consumer /\ todo[sched] > 0
    /\ mem' = [mem EXCEPT ![sched] = Removed(mem[sched])]
    /\ todo' = [todo EXCEPT ![sched] = todo[sched] - 1]
    /\ UNCHANGED <<hypervisor, pc, exit, gpc, drawn>>

\* HC_out32(0xF2, 0) in guest4a.c, HC_out32(0xF3, 0) in guest4b.c
GuestOut ==
    /\ GuestRuns("loop") /\ todo[sched] <= 0
    /\ exit' = [direction |-> "out", port |-> IF sched = Producer THEN "F2" ELSE "F3"]
    /\ gpc' = [gpc EXCEPT ![sched] = "in"]
    /\ pc' = "exited"
    /\ UNCHANGED <<hypervisor, mem, todo, drawn>>

\* The vCPU triple-faults, or cannot go on for another reason.  The guest does
\* not come back from that: whenever it is run again it makes such an exit again.
GuestShutsDown ==
    /\ pc = "kvm_run" /\ sched \in MayShutDown
    /\ exit' = ShutdownExit
    /\ gpc' = [gpc EXCEPT ![sched] = "down"]
    /\ pc' = "exited"
    /\ UNCHANGED <<hypervisor, mem, todo, drawn>>

-----------------------------------------------------------------------------
(* The hypervisor, when KVM_RUN returns                                    *)

\* ret < 0: perror and exit(1)
RunFails ==
    /\ pc = "kvm_run"
    /\ pc' = "failed"
    /\ UNCHANGED <<hypervisor, mem, exit, gpc, todo, drawn>>

\* Not the exit the turn is waiting for, whatever else it is: KVM_RUN again.
ContinueRun ==
    /\ pc = "exited" /\ exit # DoneExit(sched)
    /\ pc' = "kvm_run"
    /\ UNCHANGED <<hypervisor, mem, exit, gpc, todo, drawn>>

\* Take over the ring of the VM whose turn ends and copy it to the other VM.
SyncToSelf == mem' = mem
SyncToOther == mem' = [mem EXCEPT ![Other(sched)] = mem[sched]]

\* The turn ends: both branches of the schedule loop.
EndTurn ==
    /\ pc = "exited" /\ exit = DoneExit(sched)
    /\ shared_state' = mem[sched]
    /\ SyncToOther
    /\ i' = i + 1
    /\ pc' = "turn"
    /\ UNCHANGED <<sched_file, exit, gpc, todo, drawn>>

EndProducerTurn ==
    /\ EndTurn /\ sched = Producer
    /\ produced' = produced \o ProducedValues(shared_state, mem[sched])
    /\ UNCHANGED consumed

EndConsumerTurn ==
    /\ EndTurn /\ sched = Consumer
    /\ consumed' = consumed \o ConsumedValues(shared_state, mem[sched])
    /\ UNCHANGED produced

\* The process is gone.
Terminated ==
    /\ pc \in {"done", "failed"}
    /\ UNCHANGED vars

Next ==
    \/ Schedule \/ SkipCharacter \/ Finish
    \/ GuestIn \/ GuestDraw \/ GuestProduce \/ GuestConsume \/ GuestOut
    \/ GuestShutsDown
    \/ RunFails \/ ContinueRun \/ EndProducerTurn \/ EndConsumerTurn
    \/ Terminated

Spec == Init /\ [][Next]_vars

\* One thread runs hypervisor and guests alike: as long as it can step it does.
FairSpec == Spec /\ WF_vars(Next)

-----------------------------------------------------------------------------
(* Properties                                                              *)

InTurn == pc \in {"kvm_run", "exited"}

\* Type invariant: every variable keeps its type, so both pointers and the
\* count of all three copies of the ring stay inside the ring whatever the
\* guests draw.
TypeOK ==
    /\ sched_file \in SchedFiles
    /\ i \in 0 .. sched_len
    /\ pc \in {"turn", "kvm_run", "exited", "done", "failed"}
    /\ shared_state \in BufferState
    /\ mem \in [VMs -> BufferState]
    /\ exit \in Exits
    /\ gpc \in [VMs -> {"in", "draw", "loop", "down"}]
    /\ todo \in [VMs -> 0 .. MaxBurst]
    /\ drawn \in Seq(Items)
    /\ produced \in Seq(Items)
    /\ consumed \in Seq(Items)

\* What the hypervisor lists after "HYPVSR:" at the end of a turn is exactly
\* the values printed as produced and not yet printed as consumed, in the
\* order of their production, across every wrap of the two pointers.
QueueShown ==
    pc = "turn" =>
        Listing(shared_state) =
            SubSeq(produced, Len(consumed) + 1, Len(produced))

\* The values printed as consumed are the values printed as produced, in the
\* same order, none twice and none skipped; the ring counts the rest.
ConsumedInOrder ==
    /\ Len(produced) - Len(consumed) = shared_state.count
    /\ consumed = SubSeq(produced, 1, Len(consumed))

\* The hypervisor, which only ever sees a ring before and a ring after a turn,
\* prints precisely the items the producer's guest stored during it.
PrintedAsDrawn == pc \in {"turn", "done"} => produced = drawn

\* Between turns hypervisor and guests agree: whichever VM is scheduled next,
\* and however often in a row, it starts from the ring the last turn left.
Synchronized == pc = "turn" => \A v \in VMs : mem[v] = shared_state

\* While a turn runs, no cell that holds an unread value changes: a producer
\* cannot lap the consumer, although it never looks at cons_p.
UnreadCellsKept ==
    InTurn => CellsFrom(mem[sched], shared_state.cons_p, shared_state.count)
                = Listing(shared_state)

\* A guest is only ever entered at the top of its loop: the turn it is given
\* ends with the same exit for which the hypervisor waits, and no exit of an
\* earlier turn is left over for a later one.  So no turn is given to a VM that
\* has shut down, and run_vm does not return after a VM has.
TurnsAligned ==
    /\ pc \in {"turn", "done"} => \A v \in VMs : gpc[v] = "in" /\ todo[v] = 0
    /\ pc = "exited" /\ exit = DoneExit(sched) => gpc[sched] = "in" /\ todo[sched] = 0

\* The abstract channel, with the printed values as its histories.
FIFO == INSTANCE FifoChannel
            WITH Capacity <- N, PutSizes <- 0 .. MaxBurst, TakeSizes <- 0 .. MaxBurst

\* Every turn is one burst put into, or taken from, a bounded FIFO channel.
ImplementsFifo == FIFO!Spec

\* Every schedule is worked off, unless KVM_RUN fails or a VM shuts down: as
\* long as the guests go on, no turn waits for an exit that its guest does not
\* make.  A VM that has shut down is run again and again (emu4.c:199-211 and
\* 239-251 look for one exit only): its turn, and the program, never end.
ScheduleEnds == <>(pc \in {"done", "failed"} \/ \E v \in VMs : gpc[v] = "down")

\* "sched_order holds the scheduling order for the VMs" (emu4.c:179): when the
\* program is done, every character of the scheduling file had its turn.
WholeFileScheduled == pc = "done" => i = Len(sched_file)

-----------------------------------------------------------------------------
(* The inductive invariant                                                 *)

\* A ring st holds the values of p that follow those of c.
Outstanding(st, p, c) ==
    /\ st.count = Len(p) - Len(c)
    /\ st.prod_p = Wrap(st.cons_p + st.count)
    /\ \A j \in 1 .. st.count : st.buff[Wrap(st.cons_p + j - 1)] = p[Len(c) + j]
    /\ \A k \in 1 .. Len(c) : c[k] = p[k]

\* The ring of the hypervisor holds the outstanding values.
RingHoldsOutstanding == Outstanding(shared_state, produced, consumed)

BetweenTurns ==
    /\ pc = "turn" => \A v \in VMs : mem[v] = shared_state
    /\ pc \in {"turn", "done"} => /\ drawn = produced
                                  /\ \A v \in VMs : gpc[v] = "in"

\* Where the scheduled guest may stand, and that the other one waits.
DuringTurn ==
    /\ \A v \in VMs : gpc[v] \notin {"loop", "down"} => todo[v] = 0
    /\ InTurn => /\ i < sched_len
                 /\ sched \in VMs
                 /\ gpc[Other(sched)] = "in"
    /\ pc = "exited" => \/ gpc[sched] = "draw" /\ exit = ReadExit
                        \/ gpc[sched] = "in" /\ exit = DoneExit(sched)
                        \/ gpc[sched] = "down" /\ exit = ShutdownExit
    /\ InTurn /\ (gpc[sched] = "draw" \/ (pc = "kvm_run" /\ gpc[sched] = "in"))
          => mem[sched] = shared_state

\* What a producer has done to its copy of the ring since its turn began.
ProducerTurn ==
    InTurn /\ sched = Producer =>
        /\ mem[sched].cons_p = shared_state.cons_p
        /\ shared_state.count <= mem[sched].count
        /\ mem[sched].count + todo[sched] <= N
        /\ mem[sched].count - shared_state.count + todo[sched] <= MaxBurst
        /\ mem[sched].prod_p = Wrap(shared_state.cons_p + mem[sched].count)
        /\ \A j \in 1 .. shared_state.count :
              mem[sched].buff[Wrap(shared_state.cons_p + j - 1)]
                = shared_state.buff[Wrap(shared_state.cons_p + j - 1)]
        /\ drawn = produced \o ProducedValues(shared_state, mem[sched])

\* And what a consumer has done to its copy.
ConsumerTurn ==
    InTurn /\ sched = Consumer =>
        /\ mem[sched].prod_p = shared_state.prod_p
        /\ mem[sched].buff = shared_state.buff
        /\ mem[sched].count <= shared_state.count
        /\ todo[sched] <= mem[sched].count
        /\ shared_state.count - mem[sched].count + todo[sched] <= MaxBurst
        /\ mem[sched].cons_p =
              Wrap(shared_state.cons_p + (shared_state.count - mem[sched].count))
        /\ drawn = produced

\* The inductive invariant: with TypeOK, all of the above at once.
IInv ==
    /\ TypeOK
    /\ RingHoldsOutstanding
    /\ BetweenTurns
    /\ DuringTurn
    /\ ProducerTurn
    /\ ConsumerTurn
=============================================================================
