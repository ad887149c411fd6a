----------------------------- MODULE EmuThreads -----------------------------
(***************************************************************************)
(* part2/emu.c, the program the problems of assignment 2 start from: main  *)
(* sets up two VMs, runs each in a thread of its own, joins the threads    *)
(* and cleans up.  exit(1) and a crash end main and both threads at once.  *)
(*                                                                         *)
(* A guest is what its exits are: KVM_RUN may return for any reason.       *)
(***************************************************************************)
EXTENDS Naturals

VM == {1, 2}
Reasons == {"unknown", "debug", "io", "mmio", "intr", "shutdown", "other"}

VARIABLES
    step,      \* main: the call it is about to make, or how the process ended
    v,         \* the VM this call is for
    ram,       \* ram[w]: "none", "registered", "loaded" or "unmapped"
    vcpus,     \* vcpus[w]: "none", "null", "ready" or "unmapped"
    thread,    \* thread[w]: "none", "reset", "kvm_run", "exit", "ended"
    reason,    \* reason[w]: exit_reason in the kvm_run page
    ret        \* ret[w]: 0, or 1 if KVM_RUN returned -1

main == <<step, v>>
memory == <<ram, vcpus>>
threads == <<thread, reason, ret>>
threadVars == <<main, memory, threads>>

SetUp == {"kvm_init", "kvm_create_vm", "load_binary", "kvm_init_vcpu"}
CleanUp == {"kvm_clean_vm", "kvm_clean_vcpu", "kvm_clean"}
Final == {"done", "failed", "crashed"}   \* main has returned 0; exit(1) or -1; SIGSEGV

ThreadsInit ==
    /\ step = "kvm_init" /\ v = 1
    /\ ram = [w \in VM |-> "none"] /\ vcpus = [w \in VM |-> "none"]
    /\ thread = [w \in VM |-> "none"]
    /\ reason = [w \in VM |-> "unknown"] /\ ret = [w \in VM |-> 0]

-----------------------------------------------------------------------------
(* main                                                                    *)

\* main makes the call `from' for VM 1, then for VM 2, then goes on to `to'.
Call(from, to) ==
    /\ step = from
    /\ IF v = 1 THEN step' = from /\ v' = 2 ELSE step' = to /\ v' = 1

Dies(end) == step' = end /\ UNCHANGED <<v, memory, threads>>

\* One descriptor of /dev/kvm for both VMs.
KvmInit ==
    /\ step = "kvm_init" /\ step' = "kvm_create_vm"
    /\ UNCHANGED <<v, memory, threads>>

KvmCreateVm ==
    /\ Call("kvm_create_vm", "load_binary")
    /\ ram' = [ram EXCEPT ![v] = "registered"]
    /\ UNCHANGED <<vcpus, threads>>

LoadBinary ==
    /\ Call("load_binary", "kvm_init_vcpu")
    /\ ram' = [ram EXCEPT ![v] = "loaded"]
    /\ UNCHANGED <<vcpus, threads>>

\* NULL if one of its three calls fails; main does not look.
KvmInitVcpu ==
    /\ Call("kvm_init_vcpu", "pthread_create")
    /\ \E r \in {"ready", "null"} : vcpus' = [vcpus EXCEPT ![v] = r]
    /\ UNCHANGED <<ram, threads>>

\* pthread_create is given vm->vcpus->vcpu_thread_func.
PthreadCreate ==
    /\ vcpus[v] = "ready"
    /\ Call("pthread_create", "pthread_join")
    /\ thread' = [thread EXCEPT ![v] = "reset"]
    /\ UNCHANGED <<memory, reason, ret>>

Dereferences == step = "pthread_create" /\ vcpus[v] = "null" /\ Dies("crashed")

JoinsTheFirstOnly == (v = 1 => thread[v] = "ended") /\ Call("pthread_join", "kvm_clean_vm")
                     /\ UNCHANGED <<memory, threads>>
PthreadJoin == thread[v] = "ended" /\ Call("pthread_join", "kvm_clean_vm")
               /\ UNCHANGED <<memory, threads>>

KvmCleanVm ==
    /\ Call("kvm_clean_vm", "kvm_clean_vcpu")
    /\ ram' = [ram EXCEPT ![v] = "unmapped"]
    /\ UNCHANGED <<vcpus, threads>>

KvmCleanVcpu ==
    /\ Call("kvm_clean_vcpu", "kvm_clean")
    /\ vcpus' = [vcpus EXCEPT ![v] = "unmapped"]
    /\ UNCHANGED <<ram, threads>>

\* The second of the two closes a descriptor that is no longer open.
KvmClean == Call("kvm_clean", "done") /\ UNCHANGED <<memory, threads>>

\* exit(1), or main returns -1.
SetUpFails ==
    /\ step \in {"kvm_init", "kvm_create_vm", "load_binary", "pthread_create"}
    /\ Dies("failed")

-----------------------------------------------------------------------------
(* kvm_cpu_thread for VM w                                                 *)

Runs(w, at) == step \notin Final /\ thread[w] = at

KvmResetVcpu(w) ==
    /\ Runs(w, "reset")
    /\ thread' = [thread EXCEPT ![w] = "kvm_run"]
    /\ UNCHANGED <<main, memory, reason, ret>>

\* KVM says "intr" exactly when it was interrupted; another failure leaves in
\* the page whatever reason.
KvmRun(w) ==
    /\ Runs(w, "kvm_run")
    /\ \E r \in Reasons, x \in {0, 1} :
           /\ r = "intr" => x = 1
           /\ reason' = [reason EXCEPT ![w] = r] /\ ret' = [ret EXCEPT ![w] = x]
    /\ thread' = [thread EXCEPT ![w] = "exit"]
    /\ UNCHANGED <<main, memory>>

\* The reasons kvm_cpu_thread leaves its loop for.
Panics(w) == reason[w] = "other"
Leaves(w) == reason[w] \in {"shutdown", "other"}

EndsThread(w) ==
    /\ Runs(w, "exit") /\ Leaves(w)
    /\ thread' = [thread EXCEPT ![w] = "ended"]
    /\ UNCHANGED <<main, memory, reason, ret>>

Continues(w) ==
    /\ Runs(w, "exit") /\ ~Leaves(w) /\ (ret[w] = 0 \/ reason[w] = "intr")
    /\ thread' = [thread EXCEPT ![w] = "kvm_run"]
    /\ UNCHANGED <<main, memory, reason, ret>>

\* KVM_RUN has failed, or so has kvm_reset_vcpu.
Exits(w) ==
    /\ \/ Runs(w, "exit") /\ ~Leaves(w) /\ ret[w] # 0 /\ reason[w] # "intr"
       \/ Runs(w, "reset")
    /\ Dies("failed")

Thread(w) == KvmResetVcpu(w) \/ KvmRun(w) \/ EndsThread(w) \/ Continues(w) \/ Exits(w)

Main ==
    \/ KvmInit \/ KvmCreateVm \/ LoadBinary \/ KvmInitVcpu \/ PthreadCreate \/ Dereferences
    \/ PthreadJoin \/ KvmCleanVm \/ KvmCleanVcpu \/ KvmClean \/ SetUpFails

Ended == step \in Final /\ UNCHANGED threadVars

ThreadsNext == Main \/ (\E w \in VM : Thread(w)) \/ Ended

ThreadsSpec == ThreadsInit /\ [][ThreadsNext]_threadVars

\* Neither main nor a thread is denied the processor for ever, and KVM_RUN
\* returns.
FairSpec == ThreadsSpec /\ WF_threadVars(Main) /\ \A w \in VM : WF_threadVars(Thread(w))

-----------------------------------------------------------------------------
(* Properties                                                              *)

\* Type invariant.
ThreadsTyped ==
    /\ step \in Final \cup SetUp \cup {"pthread_create", "pthread_join"} \cup CleanUp
    /\ v \in VM
    /\ ram \in [VM -> {"none", "registered", "loaded", "unmapped"}]
    /\ vcpus \in [VM -> {"none", "null", "ready", "unmapped"}]
    /\ thread \in [VM -> {"none", "reset", "kvm_run", "exit", "ended"}]
    /\ reason \in [VM -> Reasons] /\ ret \in [VM -> {0, 1}]

\* A thread that has not returned has its guest's memory, loaded, and its
\* kvm_run page, whatever main and the other thread are doing: the clean-up
\* never comes before the end of both.
RunsOnItsMemory ==
    \A w \in VM :
        step \notin Final /\ thread[w] \in {"reset", "kvm_run", "exit"} =>
            ram[w] = "loaded" /\ vcpus[w] = "ready"

\* What main has done so far: there is no thread before all memory is loaded, none
\* without its vCPU, none that main has joined and that runs, and no clean-up
\* before it has joined both.
MainInStep ==
    /\ step \in SetUp => \A w \in VM : thread[w] = "none"
    /\ step = "load_binary" => \A w \in VM : w < v => ram[w] = "loaded"
    /\ step \in {"kvm_init_vcpu", "pthread_create", "pthread_join"} =>
          \A w \in VM : ram[w] = "loaded"
    /\ step = "pthread_create" => \A w \in VM : v <= w => thread[w] = "none"
    /\ step \in {"pthread_create", "pthread_join"} =>
          \A w \in VM : thread[w] # "none" => vcpus[w] = "ready"
    /\ step = "pthread_join" => \A w \in VM : w < v => thread[w] = "ended"
    /\ step \in CleanUp => \A w \in VM : thread[w] = "ended"

\* The invariant of the run, which is inductive: the types, how far main is, and
\* the memory under the threads.
ThreadsSound == ThreadsTyped /\ MainInStep /\ RunsOnItsMemory

\* When both VMs have shut down at last the program ends: neither thread runs
\* its VM again, and main gets past both joins.
EndsAfterBoth == (\A w \in VM : thread[w] # "none" /\ reason[w] \in {"shutdown", "other"}) ~> step \in Final
=============================================================================
