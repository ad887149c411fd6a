-------------------------------- MODULE Emu2 --------------------------------
(***************************************************************************)
(* Problem 2 of assignment 2, kvm_run_vm of part2/emu2.c: the producer     *)
(* runs until it has handed out a burst of numbers, then the consumer      *)
(* reads and hands out each of them.  When the producer shuts down in the  *)
(* middle of a burst, what it produced until then is still consumed, and   *)
(* the loop goes round for ever with empty bursts.                         *)
(***************************************************************************)
EXTENDS RealModeGuests, Sequences

CONSTANTS
    Burst,       \* numbers per burst (3)
    MaxRounds    \* bound of the model: bursts begun in a behaviour

ASSUME Emu2Assumption == Burst \in Nat \ {0} /\ MaxRounds \in Nat

VARIABLES
    pc,              \* "round", "vm1", "exit1", "vm2", "exit2", "failed"
    shared_val,      \* the burst on its way from VM 1 to VM 2
    prod_count,      \* numbers of it that VM 1 produced
    i,               \* numbers of it that VM 2 is done with
    vm2_run_count,   \* exits of VM 2 for the current number
    rounds,          \* bursts begun
    produced,        \* the numbers printed as "Produced value"
    consumed         \* the numbers printed as "Consumed value"

vars == <<guestVars, pc, shared_val, prod_count, i, vm2_run_count, rounds,
          produced, consumed>>

\* shared_val starts out uninitialised; whatever it holds is never read before
\* it is written, so one value stands for all.
Init ==
    /\ GuestInit
    /\ pc = "round"
    /\ shared_val = [k \in 0 .. Burst - 1 |-> 0]
    /\ prod_count = 0
    /\ i = 0
    /\ vm2_run_count = 0
    /\ rounds = 0
    /\ produced = <<>>
    /\ consumed = <<>>

NewRound ==
    /\ pc = "round" /\ rounds < MaxRounds
    /\ rounds' = rounds + 1
    /\ prod_count' = 0
    /\ pc' = "vm1"
    /\ UNCHANGED <<guestVars, shared_val, i, vm2_run_count, produced, consumed>>

-----------------------------------------------------------------------------
(* VM 1                                                                    *)

RunVm1 ==
    /\ pc = "vm1" /\ prod_count < Burst
    /\ KvmRun1
    /\ pc' = "exit1"
    /\ UNCHANGED <<shared_val, prod_count, i, vm2_run_count, rounds, produced, consumed>>

StoreAtFront == shared_val' = [shared_val EXCEPT ![0] = run[1].data]
StoreShared == shared_val' = [shared_val EXCEPT ![prod_count] = run[1].data]

Produced ==
    /\ pc = "exit1" /\ IoExit(1, "out", "10")
    /\ produced' = Append(produced, run[1].data)
    /\ StoreShared
    /\ prod_count' = prod_count + 1
    /\ pc' = "vm1"
    /\ UNCHANGED <<guestVars, i, vm2_run_count, rounds, consumed>>

StartConsuming ==
    /\ i' = 0
    /\ vm2_run_count' = 0
    /\ pc' = "vm2"

BurstDone ==
    /\ pc = "vm1" /\ prod_count >= Burst
    /\ StartConsuming
    /\ UNCHANGED <<guestVars, shared_val, prod_count, rounds, produced, consumed>>

\* The break leaves the burst, not the program.
Shutdown1 ==
    /\ pc = "exit1" /\ IsDown(1)
    /\ StartConsuming
    /\ UNCHANGED <<guestVars, shared_val, prod_count, rounds, produced, consumed>>

-----------------------------------------------------------------------------
(* VM 2                                                                    *)

AllOfTheBurst == i < Burst
MissesTheLast == i + 1 < prod_count
MoreToConsume == i < prod_count

RunVm2 ==
    /\ pc = "vm2" /\ MoreToConsume /\ vm2_run_count < 2
    /\ KvmRun2
    /\ pc' = "exit2"
    /\ UNCHANGED <<shared_val, prod_count, i, vm2_run_count, rounds, produced, consumed>>

Consumed ==
    /\ pc = "exit2" /\ IoExit(2, "out", "12")
    /\ consumed' = Append(consumed, run[2].data)
    /\ vm2_run_count' = vm2_run_count + 1
    /\ pc' = "vm2"
    /\ UNCHANGED <<guestVars, shared_val, prod_count, i, rounds, produced>>

Consuming ==
    /\ pc = "exit2" /\ IoExit(2, "in", "11")
    /\ run' = [run EXCEPT ![2].data = shared_val[i]]
    /\ vm2_run_count' = vm2_run_count + 1
    /\ pc' = "vm2"
    /\ UNCHANGED <<ax, at, shared_val, prod_count, i, rounds, produced, consumed>>

NextNumber ==
    /\ i' = i + 1
    /\ vm2_run_count' = 0
    /\ pc' = "vm2"
    /\ UNCHANGED <<guestVars, shared_val, prod_count, rounds, produced, consumed>>

\* The break leaves the exits of this number; VM 2 is run for the next one.
Shutdown2 == pc = "exit2" /\ IsDown(2) /\ NextNumber

NumberDone == pc = "vm2" /\ MoreToConsume /\ vm2_run_count >= 2 /\ NextNumber

RoundDone ==
    /\ pc = "vm2" /\ ~MoreToConsume
    /\ pc' = "round"
    /\ UNCHANGED <<guestVars, shared_val, prod_count, i, vm2_run_count, rounds,
                   produced, consumed>>

-----------------------------------------------------------------------------
\* KVM_RUN fails, or its exit is none of those above: exit(1).
RunFails ==
    /\ \/ pc = "vm1" /\ prod_count < Burst
       \/ pc = "vm2" /\ MoreToConsume /\ vm2_run_count < 2
    /\ pc' = "failed"
    /\ UNCHANGED <<guestVars, shared_val, prod_count, i, vm2_run_count, rounds,
                   produced, consumed>>

\* The program is over, or the model's bound is reached.
Stopped ==
    /\ pc = "failed" \/ (pc = "round" /\ rounds >= MaxRounds)
    /\ UNCHANGED vars

Next ==
    \/ NewRound
    \/ RunVm1 \/ Produced \/ BurstDone \/ Shutdown1
    \/ RunVm2 \/ Consumed \/ Consuming \/ NumberDone \/ Shutdown2 \/ RoundDone
    \/ RunFails \/ Stopped

Spec == Init /\ [][Next]_vars

\* One thread, which is never denied the processor for ever.
FairSpec == Spec /\ WF_vars(Next)

-----------------------------------------------------------------------------
(* Properties                                                              *)

\* Type invariant; the index into the burst stays inside it.
TypeOK ==
    /\ GuestTypeOK
    /\ pc \in {"round", "vm1", "exit1", "vm2", "exit2", "failed"}
    /\ shared_val \in [0 .. Burst - 1 -> Words]
    /\ prod_count \in 0 .. Burst
    /\ i \in 0 .. Burst
    /\ vm2_run_count \in 0 .. 2
    /\ rounds \in 0 .. MaxRounds
    /\ produced \in Seq(Words) /\ consumed \in Seq(Words)

\* At the end of every round all numbers produced so far have been consumed and
\* the consumer stands before its in instruction, also after a burst that the
\* producer's shutdown cut short.
BurstConsumed ==
    pc \in {"round", "vm1", "exit1"} /\ at[2] # "down" =>
        /\ at[2] \in {"boot", "out"}
        /\ consumed = SubSeq(produced, 1,
                             Len(produced) - (IF pc = "round" THEN 0 ELSE prod_count))

\* Of the burst, how many numbers the consumer has handed out.
Done ==
    IF pc = "round" THEN prod_count
    ELSE IF pc \in {"vm1", "exit1"} THEN 0
    ELSE IF vm2_run_count = 2 THEN i + 1 ELSE i

\* What was consumed is what was produced first, and the rest of what was
\* produced is the rest of the burst.
InFlight ==
    /\ Len(produced) = Len(consumed) + (prod_count - Done)
    /\ \A k \in 1 .. Len(consumed) : consumed[k] = produced[k]
    /\ \A k \in Done .. prod_count - 1 :
          produced[Len(consumed) + (k - Done) + 1] = shared_val[k]

\* Where the consumer stands in its two exits for a number.
Stage ==
    \/ pc \in {"round", "vm1", "exit1"} /\ at[2] \in {"boot", "out"}
    \/ pc = "vm2" /\ vm2_run_count = 0 /\ at[2] \in {"boot", "out"}
    \/ /\ pc = "exit2" /\ vm2_run_count = 0 /\ at[2] = "in"
       /\ IoExit(2, "in", "11")
    \/ /\ pc = "vm2" /\ vm2_run_count = 1 /\ at[2] = "in"
       /\ MoreToConsume /\ run[2].data = shared_val[i]
    \/ /\ pc = "exit2" /\ vm2_run_count = 1 /\ at[2] = "out"
       /\ IoExit(2, "out", "12") /\ run[2].data = shared_val[i]
    \/ pc = "vm2" /\ vm2_run_count = 2 /\ at[2] = "out" /\ MoreToConsume

Bounds ==
    /\ at[2] = "down" <=> IsDown(2)
    /\ pc = "vm2" => i <= prod_count
    /\ pc = "exit2" => MoreToConsume /\ vm2_run_count < 2
    /\ pc = "exit1" => prod_count < Burst

\* The inductive invariant: the type, and a round in all its steps.
IInv ==
    /\ TypeOK /\ Bounds
    /\ at[2] # "down" /\ pc # "failed" => InFlight /\ Stage

\* A channel for one burst, in order, as long as the consumer is up.  The
\* producer, which nobody stops, goes on when it is not.
FIFO == INSTANCE FifoChannel
            WITH Items <- Words, Capacity <- Burst, PutSizes <- {1}, TakeSizes <- {1}
ImplementsFifo ==
    FIFO!Init /\ [][FIFO!Next \/ (at[2] = "down" /\ UNCHANGED consumed)]_FIFO!vars

\* A burst once begun is consumed to its last number, unless the consumer shuts
\* down or KVM_RUN fails first; the producer's shutdown is no excuse.
EveryNumberConsumed ==
    \A k \in 1 .. Burst * MaxRounds :
        Len(produced) >= k ~> Len(consumed) >= k \/ at[2] = "down" \/ pc = "failed"
=============================================================================
