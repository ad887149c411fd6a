-------------------------------- MODULE Emu1 --------------------------------
(***************************************************************************)
(* Problem 1 of assignment 2, kvm_run_vm of part2/emu1.c: one thread runs  *)
(* the producer until it hands a number out, and then the consumer twice,  *)
(* once for the number it reads and once for the number it hands out.      *)
(***************************************************************************)
EXTENDS RealModeGuests, Sequences

CONSTANT MaxValues   \* bound of the model: numbers produced in a behaviour

ASSUME Emu1Assumption == MaxValues \in Nat

VARIABLES
    pc,              \* "vm1", "exit1", "vm2", "exit2", "returned", "failed"
    shared_val,      \* the number on its way from VM 1 to VM 2
    vm2_run_count,   \* exits of VM 2 in this round
    produced,        \* the numbers printed as "Produced value"
    consumed         \* the numbers printed as "Consumed value"

vars == <<guestVars, pc, shared_val, vm2_run_count, produced, consumed>>

Init ==
    /\ GuestInit
    /\ pc = "vm1"
    /\ shared_val = 0
    /\ vm2_run_count = 0
    /\ produced = <<>>
    /\ consumed = <<>>

-----------------------------------------------------------------------------
(* VM 1                                                                    *)

RunVm1 ==
    /\ pc = "vm1" /\ Len(produced) < MaxValues
    /\ KvmRun1
    /\ pc' = "exit1"
    /\ UNCHANGED <<shared_val, vm2_run_count, produced, consumed>>

KeepShared == shared_val' = shared_val
TakeShared == shared_val' = run[1].data

Produced ==
    /\ pc = "exit1" /\ IoExit(1, "out", "10")
    /\ produced' = Append(produced, run[1].data)
    /\ TakeShared
    /\ vm2_run_count' = 0
    /\ pc' = "vm2"
    /\ UNCHANGED <<guestVars, consumed>>

\* The only way out of kvm_run_vm.
Shutdown1 ==
    /\ pc = "exit1" /\ IsDown(1)
    /\ pc' = "returned"
    /\ UNCHANGED <<guestVars, shared_val, vm2_run_count, produced, consumed>>

-----------------------------------------------------------------------------
(* VM 2                                                                    *)

MoreExitsOnce == vm2_run_count < 1
MoreExits == vm2_run_count < 2

RunVm2 ==
    /\ pc = "vm2" /\ MoreExits
    /\ KvmRun2
    /\ pc' = "exit2"
    /\ UNCHANGED <<shared_val, vm2_run_count, produced, consumed>>

Consumed ==
    /\ pc = "exit2" /\ IoExit(2, "out", "12")
    /\ consumed' = Append(consumed, run[2].data)
    /\ vm2_run_count' = vm2_run_count + 1
    /\ pc' = "vm2"
    /\ UNCHANGED <<guestVars, shared_val, produced>>

Consuming ==
    /\ pc = "exit2" /\ IoExit(2, "in", "11")
    /\ run' = [run EXCEPT ![2].data = shared_val]
    /\ vm2_run_count' = vm2_run_count + 1
    /\ pc' = "vm2"
    /\ UNCHANGED <<ax, at, shared_val, produced, consumed>>

\* The break leaves the inner loop only: the next round starts.
Shutdown2 ==
    /\ pc = "exit2" /\ IsDown(2)
    /\ pc' = "vm1"
    /\ UNCHANGED <<guestVars, shared_val, vm2_run_count, produced, consumed>>

RoundDone ==
    /\ pc = "vm2" /\ ~MoreExits
    /\ pc' = "vm1"
    /\ UNCHANGED <<guestVars, shared_val, vm2_run_count, produced, consumed>>

-----------------------------------------------------------------------------
\* KVM_RUN fails, or its exit is none of those above: exit(1).
RunFails ==
    /\ pc \in {"vm1", "vm2"}
    /\ pc = "vm1" => Len(produced) < MaxValues
    /\ pc' = "failed"
    /\ UNCHANGED <<guestVars, shared_val, vm2_run_count, produced, consumed>>

\* The program is over, or the model's bound is reached.
Stopped ==
    /\ pc \in {"returned", "failed"} \/ (pc = "vm1" /\ Len(produced) >= MaxValues)
    /\ UNCHANGED vars

Next ==
    \/ RunVm1 \/ Produced \/ Shutdown1
    \/ RunVm2 \/ Consumed \/ Consuming \/ Shutdown2 \/ RoundDone
    \/ RunFails \/ Stopped

Spec == Init /\ [][Next]_vars

\* One thread, which is never denied the processor for ever.
FairSpec == Spec /\ WF_vars(Next)

-----------------------------------------------------------------------------
(* Properties                                                              *)

\* Type invariant.
TypeOK ==
    /\ GuestTypeOK
    /\ pc \in {"vm1", "exit1", "vm2", "exit2", "returned", "failed"}
    /\ shared_val \in Words
    /\ vm2_run_count \in 0 .. 2
    /\ produced \in Seq(Words) /\ consumed \in Seq(Words)
    /\ Len(produced) <= MaxValues

\* Before VM 1 runs again every number it produced has been consumed, and the
\* consumer stands before its in instruction: the two exits of a round are
\* always the read and the write of the same number, never one of each of two.
LockStep ==
    pc \in {"vm1", "exit1"} /\ at[2] # "down" =>
        consumed = produced /\ at[2] \in {"boot", "out"}

\* Where the consumer stands in its round, and where the number on its way is:
\* in shared_val until the in instruction takes it over, and then in the kvm_run
\* page until the out instruction has handed it out.
Awaited == produced = Append(consumed, shared_val)

Stage ==
    \/ /\ pc = "vm2" /\ vm2_run_count = 0 /\ at[2] \in {"boot", "out"}
       /\ Awaited
    \/ /\ pc = "exit2" /\ vm2_run_count = 0 /\ at[2] = "in"
       /\ IoExit(2, "in", "11") /\ Awaited
    \/ /\ pc = "vm2" /\ vm2_run_count = 1 /\ at[2] = "in"
       /\ run[2].data = shared_val /\ Awaited
    \/ /\ pc = "exit2" /\ vm2_run_count = 1 /\ at[2] = "out"
       /\ IoExit(2, "out", "12") /\ run[2].data = shared_val /\ Awaited
    \/ /\ pc = "vm2" /\ vm2_run_count = 2 /\ at[2] = "out"
       /\ consumed = produced

InRound ==
    /\ at[2] = "down" <=> IsDown(2)
    /\ pc \in {"vm2", "exit2"} /\ at[2] # "down" => Stage
    /\ pc = "exit1" => Len(produced) < MaxValues
    /\ pc = "exit2" => MoreExits

\* The inductive invariant: the type, and the round in all its steps.
IInv == TypeOK /\ LockStep /\ InRound

\* A channel for one number at a time, in order, as long as the consumer is up.
\* The producer, which nobody stops, goes on when it is not.
FIFO == INSTANCE FifoChannel
            WITH Items <- Words, Capacity <- 1, PutSizes <- {1}, TakeSizes <- {1}
ImplementsFifo ==
    FIFO!Init /\ [][FIFO!Next \/ (at[2] = "down" /\ UNCHANGED consumed)]_FIFO!vars

\* Every number produced is consumed in the end, unless the consumer shuts down
\* or KVM_RUN fails first.
EveryNumberConsumed ==
    \A k \in 1 .. MaxValues :
        Len(produced) >= k ~> Len(consumed) >= k \/ at[2] = "down" \/ pc = "failed"
=============================================================================
