-------------------------------- MODULE Emu3 --------------------------------
(***************************************************************************)
(* Problem 3 of assignment 2: run_vm of part2/emu3.c with the guests       *)
(* guest3a.c (the producer) and guest3b.c (the consumer).                  *)
(*                                                                         *)
(* Both guests first register the address of an array.  Then, in turns,    *)
(* the producer fills its array without an exit and signals, the           *)
(* hypervisor copies the array into the consumer's, and the consumer       *)
(* signals.  The hypervisor waits in every phase for one exit and runs the *)
(* vCPU again after any other, so a guest that shuts down keeps it waiting *)
(* for ever.                                                               *)
(***************************************************************************)
EXTENDS Naturals, Sequences

CONSTANTS
    Size,          \* items of an array (5)
    W,             \* values of the producer's counter (2^32)
    MayShutDown,   \* the VMs that may shut down
    MaxArrays      \* bound of the model: arrays produced in a behaviour

ASSUME Emu3Assumption ==
    /\ Size \in Nat \ {0} /\ W \in Nat \ {0} /\ MaxArrays \in Nat
    /\ MayShutDown \subseteq {1, 2}

VARIABLES
    phase,      \* "register1", "register2", "produce", "consume", "failed"
    arrays,     \* arrays the producer has signalled
    exit,       \* the port of the last exit, or "other" or "none" before any
    at,         \* at[v]: the exit guest v last made
    counter,    \* the producer's counter
    buff,       \* buff[v]: the array in the memory of v
    base,       \* base[v]: where the hypervisor believes that array to be
    produced,   \* the values printed as "Produced Values"
    consumed    \* the values printed as "Consumed Values"

guests == <<at, counter, buff>>
vars == <<phase, arrays, exit, guests, base, produced, consumed>>

Values == 0 .. W - 1
Index == 0 .. Size - 1
Printed(array) == [k \in 1 .. Size |-> array[k - 1]]

Init ==
    /\ phase = "register1"
    /\ arrays = 0
    /\ exit = "none"
    /\ at = [v \in {1, 2} |-> "boot"]
    /\ counter = 0
    /\ buff = [v \in {1, 2} |-> [k \in Index |-> 0]]
    /\ base = [v \in {1, 2} |-> "NULL"]
    /\ produced = <<>>
    /\ consumed = <<>>

-----------------------------------------------------------------------------
(* KVM_RUN                                                                 *)

\* The vCPU that the current phase runs, and the exit it waits for.
Current == IF phase \in {"register1", "produce"} THEN 1 ELSE 2
ExpectedRegistration ==
    IF Current = 1 THEN (IF phase = "produce" THEN "F2" ELSE "F0") ELSE "F1"
Expected ==
    CASE phase = "register1" -> "F0"
      [] phase = "register2" -> "F1"
      [] phase = "produce"   -> "F2"
      [] phase = "consume"   -> "F3"

Running == phase # "failed" /\ exit \in {"none", "other"}
Bounded == phase = "produce" => arrays < MaxArrays

\* The guests' first instructions: hand out the address of the array.
GuestRegisters ==
    /\ Running /\ at[Current] = "boot"
    /\ exit' = IF Current = 1 THEN "F0" ELSE "F1"
    /\ at' = [at EXCEPT ![Current] = exit']
    /\ UNCHANGED <<phase, arrays, counter, buff, base, produced, consumed>>

\* prod_buff[i] = counter++ for the whole array, then the signal
Fill == buff' = [buff EXCEPT ![1] = [k \in Index |-> (counter + k) % W]]

GuestProduces ==
    /\ Running /\ Current = 1 /\ at[1] \in {"F0", "F2"} /\ Bounded
    /\ Fill
    /\ counter' = (counter + Size) % W
    /\ exit' = "F2"
    /\ at' = [at EXCEPT ![1] = "F2"]
    /\ UNCHANGED <<phase, arrays, base, produced, consumed>>

\* The consumer's guest only signals.
GuestConsumes ==
    /\ Running /\ Current = 2 /\ at[2] \in {"F1", "F3"}
    /\ exit' = "F3"
    /\ at' = [at EXCEPT ![2] = "F3"]
    /\ UNCHANGED <<phase, arrays, counter, buff, base, produced, consumed>>

\* Some exit that no phase waits for, now and at every later KVM_RUN.
ShutDown ==
    /\ Running /\ Bounded
    /\ Current \in MayShutDown \/ at[Current] = "down"
    /\ exit' = "other"
    /\ at' = [at EXCEPT ![Current] = "down"]
    /\ UNCHANGED <<phase, arrays, counter, buff, base, produced, consumed>>

RunFails ==
    /\ Running /\ Bounded
    /\ phase' = "failed"
    /\ UNCHANGED <<arrays, exit, guests, base, produced, consumed>>

-----------------------------------------------------------------------------
(* The hypervisor's handling of the exit it waits for                      *)

Got(p) == phase = p /\ exit = Expected

Register(v, next) ==
    /\ base' = [base EXCEPT ![v] = "array"]
    /\ phase' = next
    /\ exit' = "none"
    /\ UNCHANGED <<arrays, guests, produced, consumed>>

Register1 == Got("register1") /\ Register(1, "register2")
Register2 == Got("register2") /\ Register(2, "produce")

CopyLate == buff' = buff
Copy == buff' = [buff EXCEPT ![2] = buff[1]]

ArrayProduced ==
    /\ Got("produce")
    /\ Copy
    /\ produced' = produced \o Printed(buff[1])
    /\ arrays' = arrays + 1
    /\ phase' = "consume"
    /\ exit' = "none"
    /\ UNCHANGED <<at, counter, base, consumed>>

ArrayConsumed ==
    /\ Got("consume")
    /\ consumed' = consumed \o Printed(buff[2])
    /\ phase' = "produce"
    /\ exit' = "none"
    /\ UNCHANGED <<arrays, guests, base, produced>>

\* exit(1) has been called, or the model's bound is reached.
Stopped ==
    /\ phase = "failed" \/ ~Bounded
    /\ UNCHANGED vars

Next ==
    \/ GuestRegisters \/ GuestProduces \/ GuestConsumes \/ ShutDown \/ RunFails
    \/ Register1 \/ Register2 \/ ArrayProduced \/ ArrayConsumed
    \/ Stopped

Spec == Init /\ [][Next]_vars

\* One thread, which is never denied the processor for ever.
FairSpec == Spec /\ WF_vars(Next)

-----------------------------------------------------------------------------
(* Properties                                                              *)

\* Type invariant.
TypeOK ==
    /\ phase \in {"register1", "register2", "produce", "consume", "failed"}
    /\ arrays \in 0 .. MaxArrays
    /\ exit \in {"none", "other", "F0", "F1", "F2", "F3"}
    /\ at \in [{1, 2} -> {"boot", "down", "F0", "F1", "F2", "F3"}]
    /\ counter \in Values
    /\ buff \in [{1, 2} -> [Index -> Values]]
    /\ base \in [{1, 2} -> {"NULL", "array"}]
    /\ produced \in Seq(Values) /\ consumed \in Seq(Values)

\* No array is copied before both guests have said where theirs is, and from
\* then on each phase is entered with the exits of both guests in step.
PhasesInStep ==
    /\ phase \in {"produce", "consume"} => base = [v \in {1, 2} |-> "array"]
    /\ phase = "produce" /\ exit = "none" => at[1] \in {"F0", "F2", "down"}
    /\ phase = "consume" => at[1] = "F2" /\ Printed(buff[2]) = Printed(buff[1])

\* Outside the consumer's phase every array has been consumed, and inside it
\* exactly the one that still stands in the producer's memory has not.
ArrayInFlight ==
    /\ phase \in {"register1", "register2", "produce"} => produced = consumed
    /\ phase = "consume" => produced = consumed \o Printed(buff[1])

\* The producer's last exit fits the phase.
ProducerFits ==
    /\ phase = "register1" /\ exit = "F0" => at[1] = "F0"
    /\ phase = "register2" => at[1] = "F0" /\ base[1] = "array"
    /\ phase = "produce" => at[1] \in {"F0", "F2", "down"}
    /\ phase = "produce" /\ exit = "F2" => at[1] = "F2" /\ arrays < MaxArrays

\* The inductive invariant: the type, and where the arrays are in every phase.
IInv == TypeOK /\ PhasesInStep /\ ArrayInFlight /\ ProducerFits

\* A channel for one array.
FIFO == INSTANCE FifoChannel
            WITH Items <- Values, Capacity <- Size, PutSizes <- {Size}, TakeSizes <- {Size}
ImplementsFifo == FIFO!Spec

\* Every array is consumed, unless KVM_RUN fails or the consumer shuts down.
EveryArrayConsumed ==
    \A k \in 1 .. MaxArrays :
        Len(produced) >= k * Size
            ~> Len(consumed) >= k * Size \/ phase = "failed" \/ at[2] = "down"
=============================================================================
