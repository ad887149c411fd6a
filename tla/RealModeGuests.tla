--------------------------- MODULE RealModeGuests ---------------------------
(***************************************************************************)
(* The guests of problems 1 and 2 of assignment 2 (guest1a.s and guest2a.s *)
(* are the same program, and so are guest1b.s and guest2b.s) and what a    *)
(* KVM_RUN on their vCPUs does.  VM 1 is the producer: it counts in a      *)
(* 16-bit register and hands every count out.  VM 2 is the consumer: it    *)
(* reads a number in and hands it out again.                               *)
(*                                                                         *)
(* A vCPU may also shut down; it then stays down.                          *)
(***************************************************************************)
EXTENDS Naturals

CONSTANTS
    W,             \* number of values of the register ax (2^16 in the code)
    MayShutDown    \* the VMs that may shut down

ASSUME GuestAssumption == W \in Nat \ {0} /\ MayShutDown \subseteq {1, 2}

VARIABLES
    ax,     \* ax[v]: the register the guest computes in
    at,     \* at[v]: the I/O instruction the guest last stopped at
    run     \* run[v]: the kvm_run page the hypervisor shares with the vCPU

guestVars == <<ax, at, run>>

Words == 0 .. W - 1

Page == [reason : {"none", "io", "shutdown"}, direction : {"none", "in", "out"},
         port : {"none", "10", "11", "12"}, data : Words]

GuestTypeOK ==
    /\ ax \in [{1, 2} -> Words]
    /\ at \in [{1, 2} -> {"boot", "in", "out", "down"}]
    /\ run \in [{1, 2} -> Page]

GuestInit ==
    /\ ax = [v \in {1, 2} |-> 0]
    /\ at = [v \in {1, 2} |-> "boot"]
    /\ run = [v \in {1, 2} |->
                [reason |-> "none", direction |-> "none", port |-> "none", data |-> 0]]

IoExit(v, dir, port) ==
    run[v].reason = "io" /\ run[v].direction = dir /\ run[v].port = port

IsDown(v) == run[v].reason = "shutdown"

Exits(v, dir, port, word) ==
    /\ ax' = [ax EXCEPT ![v] = word]
    /\ at' = [at EXCEPT ![v] = dir]
    /\ run' = [run EXCEPT ![v] =
                 [reason |-> "io", direction |-> dir, port |-> port,
                  data |-> IF dir = "out" THEN word ELSE run[v].data]]

\* inc %ax, unless the guest has just set ax to 0
NextCount == IF at[1] = "boot" THEN 0 ELSE (ax[1] + 1) % W

\* out %ax, $0x10; inc %ax
CountOut == at[1] # "down" /\ Exits(1, "out", "10", NextCount)

\* in $0x11, %ax: the exit asks the hypervisor to fill in the data
ReadIn == at[2] \in {"boot", "out"} /\ Exits(2, "in", "11", ax[2])

\* out %ax, $0x12, with what the hypervisor left for the instruction before
WriteOut == at[2] = "in" /\ Exits(2, "out", "12", run[2].data)

ShutDown(v) ==
    /\ v \in MayShutDown \/ at[v] = "down"
    /\ at' = [at EXCEPT ![v] = "down"]
    /\ run' = [run EXCEPT ![v].reason = "shutdown"]
    /\ UNCHANGED ax

\* A successful KVM_RUN of each vCPU.
KvmRun1 == CountOut \/ ShutDown(1)
KvmRun2 == ReadIn \/ WriteOut \/ ShutDown(2)
=============================================================================
