----------------------------- MODULE SimpleKvm ------------------------------
(***************************************************************************)
(* Part 1 of assignment 2: simple-kvm.c boots one vCPU into one of four    *)
(* modes and serves the hypercalls of its guest (guest.c) from run_vm.     *)
(*                                                                         *)
(* A hypercall is an out instruction, for some followed by an in on the    *)
(* same port.  Each instruction is an exit from KVM_RUN; guest and         *)
(* hypervisor never run at once, so an action is one exit with its         *)
(* handler, up to the next KVM_RUN.                                        *)
(***************************************************************************)
EXTENDS Naturals, Sequences, SequencesExt

CONSTANTS
    Programs,    \* what guests do: sequences of calls [op, arg]
    MemSize,     \* the guest's memory: addresses 0 .. MemSize - 1
    HostBase,    \* where it is mapped in the host
    W            \* 2^32: an address is handed over in 32 bits

Ops == {"print8bit", "print32bit", "numExits", "printStr", "numExitsByType", "gvaToHva"}

\* arg: gvaToHva's address
Calls == UNION {ToSet(p) : p \in Programs}

ASSUME SimpleKvmAssumption ==
    /\ MemSize \in Nat \ {0} /\ HostBase \in Nat /\ W \in Nat \ {0}
    /\ Programs \subseteq Seq([op : Ops, arg : Nat])

VARIABLES
    pc,          \* "options", "vm_init", "vcpu_init", "mode", "kvm_run", "passed", "failed"
    mode,        \* the command line's choice
    sregs,       \* the special registers: what the processor's mode depends on
    code, sz,    \* the payload copied to address 0 (its word size), bytes compared at the end
    program,     \* the calls the guest has still to make, the current one first
    instr,       \* its next instruction: "out" or "in"
    rax,         \* the guest's eax between the out and the in of gvaToHva
    global_exit_count, io_in_count, io_out_count,
    text,        \* the text at 0x100000 (zeroed memory reads as zeros)
    log,         \* history: every call with its answer
    exits        \* history: the I/O exits KVM_RUN has made, in and out

boot == <<mode, sregs, code, sz>>
counters == <<global_exit_count, io_in_count, io_out_count>>
vars == <<pc, boot, program, instr, rax, counters, text, log, exits>>

NoText == [in |-> 0, out |-> 0]
TextAddr == 2 * MemSize   \* stands for 0x100000: told apart from every count and address
Modes == {"real", "protected", "paged32", "long"}

\* What KVM gives a new vCPU.
ResetSregs ==
    [pe |-> FALSE, pg |-> FALSE, pae |-> FALSE, lme |-> FALSE, lma |-> FALSE,
     cs |-> "reset", cr3 |-> "none"]

Init ==
    /\ pc = "options" /\ mode = "real" /\ sregs = ResetSregs
    /\ code = 0 /\ sz = 0 /\ program = <<>> /\ instr = "out" /\ rax = 0
    /\ global_exit_count = 0 /\ io_in_count = 0 /\ io_out_count = 0
    /\ text = NoText /\ log = <<>> /\ exits = [in |-> 0, out |-> 0]

-----------------------------------------------------------------------------
(* main, up to the guest's first instruction                               *)

running == <<program, instr, rax, counters, text, log, exits>>

\* The last of -r, -s, -p and -l wins; real mode without any.
Options ==
    /\ pc = "options" /\ pc' = "vm_init"
    /\ mode' \in Modes
    /\ UNCHANGED <<sregs, code, sz, running>>

VmInit == pc = "vm_init" /\ pc' = "vcpu_init" /\ UNCHANGED <<boot, running>>
VcpuInit == pc = "vcpu_init" /\ pc' = "mode" /\ UNCHANGED <<boot, running>>

SetupProtectedMode(s) == [s EXCEPT !.pe = TRUE, !.cs = "code32"]

SetupPaged32bitMode(s) ==
    [s EXCEPT !.pe = TRUE, !.pg = TRUE, !.pae = FALSE, !.lme = FALSE, !.lma = FALSE, !.cr3 = "pd"]

Setup64bitCodeSegment(s) == [s EXCEPT !.cs = "code64"]

SetupLongMode(s) ==
    Setup64bitCodeSegment(
        [s EXCEPT !.pe = TRUE, !.pg = TRUE, !.pae = TRUE, !.lme = TRUE, !.lma = TRUE, !.cr3 = "pml4"])

\* Set the registers, copy the payload to address 0, start run_vm.  guest16
\* makes no hypercall; guest32 and guest64 are built from the same source.
Start(m, s, bits) ==
    /\ pc = "mode" /\ mode = m /\ pc' = "kvm_run"
    /\ sregs' = s /\ code' = bits /\ sz' = bits \div 8
    /\ program' \in IF bits = 16 THEN {<<>>} ELSE Programs
    /\ UNCHANGED <<mode, instr, rax, counters, text, log, exits>>

RunRealMode == Start("real", [sregs EXCEPT !.cs = "zero"], 16)
RunProtectedMode == Start("protected", SetupProtectedMode(sregs), 32)
KeepsTheSegments == Start("paged32", SetupPaged32bitMode(sregs), 32)
RunPaged32bitMode == Start("paged32", SetupPaged32bitMode(SetupProtectedMode(sregs)), 32)
RunLongMode == Start("long", SetupLongMode(sregs), 64)

-----------------------------------------------------------------------------
(* run_vm and the guest's side of its hypercalls                           *)

Port(op) ==
    CASE op = "print8bit" -> "E9" [] op = "print32bit" -> "EA" [] op = "numExits" -> "EB"
      [] op = "printStr" -> "EC" [] op = "numExitsByType" -> "ED" [] op = "gvaToHva" -> "EE"

HasIn(op) == op \in {"numExits", "numExitsByType", "gvaToHva"}

\* KVM_RUN has come to the guest's next instruction, on this port.
Exit(dir, port) ==
    /\ pc = "kvm_run" /\ program # <<>> /\ instr = dir /\ Port(Head(program).op) = port
    /\ exits' = [exits EXCEPT ![dir] = @ + 1]
    /\ UNCHANGED <<pc, boot>>

Counted(dir) ==
    /\ global_exit_count' = global_exit_count + 1
    /\ io_in_count' = io_in_count + (IF dir = "in" THEN 1 ELSE 0)
    /\ io_out_count' = io_out_count + (IF dir = "out" THEN 1 ELSE 0)

\* The guest goes on, to the call's in instruction ...
ToIn == instr' = "in" /\ UNCHANGED <<program, log>>

\* ... or, with the call's answer, to the next call.
Returns(value) ==
    /\ log' = Append(log, [op |-> Head(program).op, arg |-> Head(program).arg, value |-> value])
    /\ program' = Tail(program) /\ instr' = "out"

OutPrint ==
    /\ Exit("out", "E9") \/ Exit("out", "EA") \/ Exit("out", "EC")
    /\ Counted("out") /\ Returns(0)
    /\ UNCHANGED <<rax, text>>

\* No branch of run_vm is for an out on these ports.
CountsUnknown ==
    /\ Exit("out", "EB") \/ Exit("out", "ED")
    /\ Counted("out") /\ ToIn
    /\ UNCHANGED <<rax, text>>
OutUnknown ==
    /\ Exit("out", "EB") \/ Exit("out", "ED")
    /\ ToIn
    /\ UNCHANGED <<counters, rax, text>>

HvaUntruncated(gva) == IF gva < MemSize THEN HostBase + gva ELSE 0
Hva(gva) == IF gva < MemSize THEN (HostBase + gva) % W ELSE 0

ForgetsSetRegs ==
    /\ Exit("out", "EE")
    /\ Counted("out") /\ ToIn
    /\ rax' = Head(program).arg
    /\ UNCHANGED text
OutGvaToHva ==
    /\ Exit("out", "EE")
    /\ Counted("out") /\ ToIn
    /\ rax' = Hva(Head(program).arg)
    /\ UNCHANGED text

InNumExits ==
    /\ Exit("in", "EB")
    /\ Counted("in") /\ Returns(global_exit_count')
    /\ UNCHANGED <<rax, text>>

InNumExitsByType ==
    /\ Exit("in", "ED")
    /\ Counted("in")
    /\ text' = [in |-> io_in_count', out |-> io_out_count']
    /\ Returns(TextAddr)
    /\ UNCHANGED rax

InGvaToHva ==
    /\ Exit("in", "EE")
    /\ Returns(rax)
    /\ UNCHANGED <<rax, counters, text>>

\* The guest has stored 42 at 0x400 and halts with 42 in eax; main exits with 0.
Halt ==
    /\ pc = "kvm_run" /\ program = <<>>
    /\ pc' = "passed"
    /\ UNCHANGED <<boot, running>>

\* A call of open, mmap or ioctl fails, or the options are wrong.
Fails ==
    /\ pc \notin {"passed", "failed"}
    /\ pc' = "failed"
    /\ UNCHANGED <<boot, running>>

Over == pc \in {"passed", "failed"} /\ UNCHANGED vars

Next ==
    \/ Options \/ VmInit \/ VcpuInit
    \/ RunRealMode \/ RunProtectedMode \/ RunPaged32bitMode \/ RunLongMode
    \/ OutPrint \/ OutUnknown \/ OutGvaToHva
    \/ InNumExits \/ InNumExitsByType \/ InGvaToHva \/ Halt
    \/ Fails \/ Over

Spec == Init /\ [][Next]_vars

-----------------------------------------------------------------------------
\* guest.c's _start, with the letters of "Hello 695!\n" cut down to one.
StartProgram ==
    LET Call(op, arg) == [op |-> op, arg |-> arg] IN
    << Call("print8bit", 0), Call("print32bit", 0), Call("print32bit", 0),
       Call("numExits", 0), Call("printStr", 0), Call("numExits", 0),
       Call("print32bit", 0), Call("print32bit", 0),
       Call("numExitsByType", 0), Call("gvaToHva", 1), Call("print32bit", 0),
       Call("gvaToHva", MemSize), Call("print32bit", 0), Call("numExitsByType", 0),
       Call("printStr", 0), Call("printStr", 0) >>

-----------------------------------------------------------------------------
(* Properties                                                              *)

\* The calls of p from the n-th on.
From(p, n) == SubSeq(p, n, Len(p))

\* Type invariant; the guest has made the first calls of its program, each once.
TypeOK ==
    /\ pc \in {"options", "vm_init", "vcpu_init", "mode", "kvm_run", "passed", "failed"}
    /\ mode \in Modes /\ code \in {0, 16, 32, 64} /\ sz \in {0, 2, 4, 8}
    /\ \E p \in Programs \cup {<<>>} : Len(log) <= Len(p) /\ program = From(p, Len(log) + 1)
    /\ instr \in {"out", "in"} /\ (instr = "in" => program # <<>> /\ HasIn(Head(program).op))
    /\ rax \in 0 .. W - 1
    /\ {global_exit_count, io_in_count, io_out_count} \subseteq Nat
    /\ {text, exits} \subseteq [{"in", "out"} -> Nat]
    /\ log \in Seq([op : Ops, arg : Nat, value : Nat])

\* The translation is counted with its out, the other answers with their in.
Translating == instr = "in" /\ Head(program).op = "gvaToHva"

\* The calls that have been translated and answered.
Translated == {i \in 1 .. Len(log) : log[i].op = "gvaToHva"}

\* What the counters count is hypercalls, each exactly once, and what HC_numExits
\* returns is the number of calls so far, its own included: two readings around one
\* other call differ by two.  Of the exits behind the calls, each call makes one out,
\* and the ins are those counted and those of the translations, which are not.
CallsAreCounted ==
    /\ global_exit_count = io_in_count + io_out_count
    /\ global_exit_count = Len(log) + (IF Translating THEN 1 ELSE 0)
    /\ \A i \in 1 .. Len(log) : log[i].op = "numExits" => log[i].value = i
    /\ exits.out = Len(log) + (IF instr = "in" THEN 1 ELSE 0)
    /\ exits.in = io_in_count + Cardinality(Translated)

\* part1/README.md:21: "a global counter for the number of times the guest VM has
\* exited (for example, for any I/O exit)", and :38: the numbers by type "are the
\* actual counts of exits".  Refuted: run_vm counts neither the out of a call that
\* asks for a number nor the in of a translation, not even when the call is over.
ExitsAreCounted ==
    instr = "out" =>
        /\ io_in_count = exits.in /\ io_out_count = exits.out
        /\ global_exit_count = exits.in + exits.out

\* When the guest runs, the registers are consistent with each other (a
\* processor refuses others), its mode is the one the copied payload was
\* built for, and cr3 holds tables of that mode.
CpuBits == IF ~sregs.pe THEN 16 ELSE IF sregs.lma /\ sregs.cs = "code64" THEN 64 ELSE 32
GuestFitsCpu ==
    pc = "kvm_run" =>
        /\ sregs.pg => sregs.pe
        /\ sregs.lma <=> sregs.lme /\ sregs.pg
        /\ sregs.lma => sregs.pae
        /\ CpuBits = code /\ sz * 8 = code
        /\ sregs.cs = CASE code = 16 -> "zero" [] code = 32 -> "code32" [] code = 64 -> "code64"
        /\ sregs.cr3 = IF ~sregs.pg THEN "none" ELSE IF sregs.lma THEN "pml4" ELSE "pd"

\* Before KVM_RUN no guest has run, on registers nobody has set.
NotBooted ==
    pc \in {"options", "vm_init", "vcpu_init", "mode"} =>
        sregs = ResetSregs /\ program = <<>> /\ log = <<>> /\ instr = "out"

\* Between the two exits of a translation its answer is in eax, and the call is
\* counted as an output.
AnswerInRax == Translating => rax = Hva(Head(program).arg) /\ io_out_count > 0

\* The inductive invariant.
IInv == TypeOK /\ CallsAreCounted /\ GuestFitsCpu /\ NotBooted /\ AnswerInRax

\* The guest cannot tell that a hypercall is made of two exits: it is served
\* as if at once, with an answer that belongs to its own argument.
Service == INSTANCE Hypercalls WITH
    served <- [in |-> io_in_count, out |-> io_out_count - (IF Translating THEN 1 ELSE 0)]
ImplementsHypercalls == Service!Spec
=============================================================================
