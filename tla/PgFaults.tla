------------------------------- MODULE PgFaults -------------------------------
(***************************************************************************)
(* get_pgfaults of assignment 1 (3.1): /proc/get_pgfaults shows a line     *)
(* with the number of page faults.                                         *)
(*                                                                         *)
(* A reader takes the line in as many reads as it likes.  Each read counts *)
(* anew, into the globals ev and total_pgfaults, and hands out the piece   *)
(* of the new line that begins at the reader's offset.  procfs lets        *)
(* readers in at once.                                                     *)
(***************************************************************************)
EXTENDS Naturals, Sequences

CONSTANTS
    Readers,
    Cpus,            \* processors, numbered from 1
    Counts,          \* what a reader may ask for at a time
    FirstFaults,     \* page faults of each processor when the module is loaded
    MaxFaults        \* bound of the model: page faults of all processors

SizesAssumption ==
    /\ Cpus \in Nat \ {0} /\ Counts \subseteq Nat \ {0}
    /\ FirstFaults \in [1 .. Cpus -> Nat] /\ MaxFaults \in Nat

VARIABLES
    faults,          \* faults[c]: counted by processor c
    ev,              \* ev[PGFAULT]
    total_pgfaults,
    pc,              \* pc[r]: "user", "events", "total", "eof"
    cpu,             \* cpu[r]: processors all_vm_events has added up
    count, offset,   \* of the reader's read, of its file
    low,             \* history: page faults when the read began
    alone,           \* history: no other read has overlapped this one
    honest           \* history: its last piece is of a line there was meanwhile

file == <<count, offset>>
history == <<low, alone, honest>>
vars == <<faults, ev, total_pgfaults, pc, cpu, file, history>>

\* Characters are numbers: a digit is itself, and the text in front is one.
Label == 10
Newline == 11
Digits(n) == IF n < 10 THEN <<n>> ELSE Append(<<n \div 10>>, n % 10)
Line(n) == <<Label>> \o Digits(n) \o <<Newline>>
MaxLine == 4

\* The sums of f over the first processors, and the number of page faults.
UpTo(f) == LET upto[c \in 0 .. Cpus] == IF c = 0 THEN 0 ELSE upto[c - 1] + f[c] IN upto
Sum == UpTo(faults)[Cpus]

Init ==
    /\ faults = FirstFaults /\ ev = 0 /\ total_pgfaults = 0
    /\ pc = [r \in Readers |-> "user"] /\ cpu = [r \in Readers |-> 0]
    /\ count = [r \in Readers |-> 0] /\ offset = [r \in Readers |-> 0]
    /\ low = [r \in Readers |-> 0] /\ alone = [r \in Readers |-> FALSE]
    /\ honest = [r \in Readers |-> TRUE]

\* A page fault on some processor.
Fault ==
    /\ Sum < MaxFaults
    /\ \E c \in 1 .. Cpus : faults' = [faults EXCEPT ![c] = @ + 1]
    /\ UNCHANGED <<ev, total_pgfaults, pc, cpu, file, history>>

-----------------------------------------------------------------------------
(* get_pgfaults_read, for reader r                                         *)

\* The locals of the read are gone.
Returns(r, to) ==
    /\ pc[r] = "total" /\ pc' = [pc EXCEPT ![r] = to]
    /\ count' = [count EXCEPT ![r] = 0] /\ cpu' = [cpu EXCEPT ![r] = 0]
    /\ low' = [low EXCEPT ![r] = 0]
    /\ UNCHANGED <<faults, ev, total_pgfaults, alone>>

At(r, from, to) == pc[r] = from /\ pc' = [pc EXCEPT ![r] = to]
Reading(r) == pc[r] \in {"events", "total"}

\* all_vm_events begins with zeroes ...
KeepsEvents == ev
ClearedEvents == 0
Read(r) ==
    /\ At(r, "user", "events")
    /\ \E n \in Counts : count' = [count EXCEPT ![r] = n]
    /\ ev' = ClearedEvents /\ cpu' = [cpu EXCEPT ![r] = 0]
    /\ low' = [low EXCEPT ![r] = Sum]
    /\ alone' = [q \in Readers |->
           IF q = r THEN \A x \in Readers : ~Reading(x) ELSE alone[q] /\ ~Reading(q)]
    /\ UNCHANGED <<faults, total_pgfaults, offset, honest>>

\* ... and adds up one processor after the other.
AddsCpu(r) ==
    /\ pc[r] = "events" /\ cpu[r] < Cpus
    /\ cpu' = [cpu EXCEPT ![r] = @ + 1]
    /\ ev' = ev + faults[cpu'[r]]
    /\ UNCHANGED <<faults, total_pgfaults, pc, file, history>>

TakesTotal(r) ==
    /\ cpu[r] = Cpus /\ At(r, "events", "total")
    /\ total_pgfaults' = ev
    /\ UNCHANGED <<faults, ev, cpu, file, history>>

Ended(r) == offset[r] >= Len(Line(total_pgfaults))

\* 0, the end of the file: the offset is at the end of the line, or past it.
AtEnd(r) ==
    /\ Ended(r) /\ Returns(r, "eof")
    /\ UNCHANGED <<offset, honest>>

GivesWholeLine(r) ==
    LET len == Len(Line(total_pgfaults)) IN
    IF count[r] > len THEN len ELSE count[r]
Given(r) ==
    LET rest == Len(Line(total_pgfaults)) - offset[r] IN
    IF count[r] > rest THEN rest ELSE count[r]

\* As much of the line of n.
Piece(r, n) ==
    LET to == offset[r] + Given(r) IN
    SubSeq(Line(n), offset[r] + 1, IF to > Len(Line(n)) THEN Len(Line(n)) ELSE to)

Copied(r, to) ==
    /\ ~Ended(r)
    \* A reader that is given nothing takes it for the end of the file.
    /\ Returns(r, IF Given(r) = 0 THEN "eof" ELSE "user")
    /\ honest' = [honest EXCEPT ![r] =
                   \E n \in low[r] .. Sum : Piece(r, n) = Piece(r, total_pgfaults)]
    /\ offset' = [offset EXCEPT ![r] = to]

CopiesFromCount(r) == Copied(r, Given(r))
Copies(r) == Copied(r, offset[r] + Given(r))

Reader(r) == Read(r) \/ AddsCpu(r) \/ TakesTotal(r) \/ AtEnd(r) \/ Copies(r)

Over == (\A r \in Readers : pc[r] = "eof") /\ UNCHANGED vars

Next == Fault \/ (\E r \in Readers : Reader(r)) \/ Over

Spec == Init /\ [][Next]_vars

\* A reader reads on until it is told that the file has ended.
FairSpec == Spec /\ \A r \in Readers : WF_vars(Reader(r))

-----------------------------------------------------------------------------
(* Properties                                                              *)

\* Type invariant; a reader's offset is never past the longest line, although
\* each of its reads makes a new one.
TypeOK ==
    /\ faults \in [1 .. Cpus -> Nat] /\ ev \in Nat /\ total_pgfaults \in Nat
    /\ pc \in [Readers -> {"user", "events", "total", "eof"}] /\ cpu \in [Readers -> 0 .. Cpus]
    /\ alone \in [Readers -> BOOLEAN] /\ honest \in [Readers -> BOOLEAN]
    /\ offset \in [Readers -> 0 .. MaxLine]

\* A read no other read overlaps hands out a piece of the line of a number of
\* page faults there was between its beginning and its end, although the
\* processors go on counting while they are added up.
LonePieceTrue == \A r \in Readers : pc[r] = "user" /\ alone[r] => honest[r]

\* A read no other read overlaps has the globals to itself.  What it has added up
\* was there at some time, and with what it has still to add it comes to no less
\* than there was when it began.
AloneSums ==
    \A r \in Readers : Reading(r) /\ alone[r] =>
        /\ \A q \in Readers \ {r} : ~Reading(q)
        /\ pc[r] = "events" => ev <= UpTo(faults)[cpu[r]] /\ low[r] + UpTo(faults)[cpu[r]] <= ev + Sum
        /\ pc[r] = "total" => total_pgfaults \in low[r] .. Sum

\* The inductive invariant.
IInv ==
    /\ TypeOK /\ AloneSums /\ LonePieceTrue
    /\ count \in [Readers -> Nat] /\ low \in [Readers -> Nat]

\* A reader that reads to the end of the file comes to it, although the line
\* may grow in front of it.
ReaderEnds == \A r \in Readers : <>(pc[r] = "eof")
=============================================================================
