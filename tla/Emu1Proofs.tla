----------------------------- MODULE Emu1Proofs -----------------------------
(***************************************************************************)
(* Proofs about Emu1, for every size of the guests' register and whichever *)
(* VMs may shut down: the rounds stay aligned, and the hypervisor and its  *)
(* guests implement a channel for one number.                              *)
(***************************************************************************)
EXTENDS Emu1, Integers, SequenceTheorems, TLAPS

USE GuestAssumption, Emu1Assumption

-----------------------------------------------------------------------------
(* The guests: what a KVM_RUN leaves behind                                *)

\* The producer's count stays a word.
LEMMA CountIsWord == GuestTypeOK => NextCount \in Words
  <1> SUFFICES ASSUME GuestTypeOK PROVE NextCount \in Words
    OBVIOUS
  <1>1. ax[1] \in 0 .. W - 1
    BY DEF GuestTypeOK, Words
  <1>2. (ax[1] + 1) % W \in 0 .. W - 1
    BY <1>1
  <1> QED BY <1>2 DEF NextCount, Words

\* What an exit for an I/O instruction leaves behind.
LEMMA ExitsType ==
    ASSUME GuestTypeOK, NEW v \in {1, 2}, NEW dir \in {"in", "out"},
           NEW port \in {"10", "11", "12"}, NEW word \in Words,
           Exits(v, dir, port, word)
    PROVE  /\ GuestTypeOK'
           /\ IoExit(v, dir, port)' /\ at'[v] = dir /\ ~IsDown(v)'
           /\ dir = "out" => run'[v].data = word
           /\ \A o \in {1, 2} : o # v => at'[o] = at[o] /\ run'[o] = run[o]
  BY DEF GuestTypeOK, Exits, IoExit, IsDown, Page

\* What a shutdown leaves behind.
LEMMA ShutDownType ==
    ASSUME GuestTypeOK, NEW v \in {1, 2}, ShutDown(v)
    PROVE  /\ GuestTypeOK' /\ IsDown(v)' /\ at'[v] = "down"
           /\ \A o \in {1, 2} : o # v => at'[o] = at[o] /\ run'[o] = run[o]
  BY DEF GuestTypeOK, ShutDown, IsDown, Page

\* Running the producer leaves the consumer where it is.
LEMMA Run1Frame ==
    ASSUME GuestTypeOK, KvmRun1
    PROVE  GuestTypeOK' /\ at'[2] = at[2] /\ run'[2] = run[2]
  <1>1. CASE CountOut
    BY <1>1, ExitsType, CountIsWord DEF CountOut
  <1>2. CASE ShutDown(1)
    BY <1>2, ShutDownType
  <1> QED BY <1>1, <1>2 DEF KvmRun1

\* Running the consumer: it asks for a number, hands one out, or shuts down.
LEMMA Run2Cases ==
    ASSUME GuestTypeOK, KvmRun2
    PROVE  /\ GuestTypeOK'
           /\ \/ /\ at[2] \in {"boot", "out"} /\ at'[2] = "in"
                 /\ IoExit(2, "in", "11")' /\ ~IsDown(2)'
              \/ /\ at[2] = "in" /\ at'[2] = "out"
                 /\ IoExit(2, "out", "12")' /\ ~IsDown(2)'
                 /\ run'[2].data = run[2].data
              \/ at'[2] = "down" /\ IsDown(2)'
  <1>1. CASE ReadIn
    <2>1. ax[2] \in Words
      BY DEF GuestTypeOK
    <2> QED BY <1>1, <2>1, ExitsType DEF ReadIn
  <1>2. CASE WriteOut
    <2>1. run[2].data \in Words
      BY DEF GuestTypeOK, Page
    <2> QED BY <1>2, <2>1, ExitsType DEF WriteOut
  <1>3. CASE ShutDown(2)
    BY <1>3, ShutDownType
  <1> QED BY <1>1, <1>2, <1>3 DEF KvmRun2

\* Completing an in instruction changes nothing but the data of its exit.
LEMMA DataType ==
    ASSUME GuestTypeOK, NEW word \in Words,
           run' = [run EXCEPT ![2].data = word], UNCHANGED <<ax, at>>
    PROVE  GuestTypeOK' /\ run'[2].data = word /\ run'[2].reason = run[2].reason
  <1>1. /\ ax \in [{1, 2} -> Words] /\ run \in [{1, 2} -> Page]
        /\ at \in [{1, 2} -> {"boot", "in", "out", "down"}]
    BY DEF GuestTypeOK
  <1> DEFINE page == [run[2] EXCEPT !.data = word]
  <1>2. page \in Page /\ page.data = word /\ page.reason = run[2].reason
    BY <1>1 DEF Page
  <1>3. run' = [run EXCEPT ![2] = page]
    OBVIOUS
  <1> HIDE DEF page
  <1>4. run' \in [{1, 2} -> Page] /\ run'[2] = page
    BY <1>1, <1>2, <1>3
  <1> QED BY <1>1, <1>2, <1>4 DEF GuestTypeOK

-----------------------------------------------------------------------------
(* The invariant                                                           *)

\* The start.
LEMMA InitIInv == Init => IInv
  <1> SUFFICES ASSUME Init PROVE IInv
    OBVIOUS
  <1>1. TypeOK
    BY DEF Init, TypeOK, GuestInit, GuestTypeOK, Words, Page
  <1>2. LockStep /\ InRound
    BY DEF Init, GuestInit, LockStep, InRound, IsDown
  <1> QED BY <1>1, <1>2 DEF IInv

\* The producer runs.
LEMMA RunVm1IInv == ASSUME IInv, RunVm1 PROVE IInv'
  <1>1. GuestTypeOK' /\ at'[2] = at[2] /\ run'[2] = run[2]
    BY Run1Frame DEF IInv, TypeOK, RunVm1
  <1>2. TypeOK'
    BY <1>1 DEF IInv, TypeOK, RunVm1
  <1>3. LockStep' /\ InRound'
    BY <1>1 DEF IInv, LockStep, InRound, RunVm1, IsDown
  <1> QED BY <1>2, <1>3 DEF IInv

\* Its number is taken over into shared_val, and a round of the consumer begins.
LEMMA ProducedIInv == ASSUME IInv, Produced PROVE IInv'
  <1>1. run[1].data \in Words /\ Len(produced) \in Nat
    BY DEF IInv, TypeOK, GuestTypeOK, Page
  <1>2. TypeOK'
    BY <1>1 DEF IInv, TypeOK, LockStep, InRound, Produced, TakeShared, guestVars, GuestTypeOK
  <1>3. LockStep' /\ InRound'
    BY <1>1 DEF IInv, TypeOK, LockStep, InRound, Stage, Awaited, Produced, TakeShared,
                guestVars, IsDown
  <1> QED BY <1>2, <1>3 DEF IInv

\* The consumer runs for an exit of its round.
LEMMA RunVm2IInv == ASSUME IInv, RunVm2 PROVE IInv'
  <1> USE DEF IInv
  <1>1. GuestTypeOK' /\ pc = "vm2" /\ pc' = "exit2" /\ vm2_run_count < 2
        /\ UNCHANGED <<shared_val, vm2_run_count, produced, consumed>>
    BY Run2Cases DEF TypeOK, RunVm2, MoreExits
  <1>2. TypeOK' /\ LockStep'
    BY <1>1 DEF TypeOK, LockStep
  <1>3. CASE /\ at[2] \in {"boot", "out"} /\ at'[2] = "in"
             /\ IoExit(2, "in", "11")' /\ ~IsDown(2)'
    <2>1. Stage => Stage'
      BY <1>1, <1>3 DEF Stage, Awaited, TypeOK
    <2> QED BY <1>1, <1>2, <1>3, <2>1 DEF InRound, MoreExits
  <1>4. CASE /\ at[2] = "in" /\ at'[2] = "out"
             /\ IoExit(2, "out", "12")' /\ ~IsDown(2)'
             /\ run'[2].data = run[2].data
    <2>1. Stage => Stage'
      BY <1>1, <1>4 DEF Stage, Awaited, TypeOK
    <2> QED BY <1>1, <1>2, <1>4, <2>1 DEF InRound, MoreExits
  <1>5. CASE at'[2] = "down" /\ IsDown(2)'
    BY <1>1, <1>2, <1>5 DEF InRound, MoreExits
  <1> QED BY <1>3, <1>4, <1>5, Run2Cases DEF RunVm2, TypeOK

\* It has handed a number out: the one that was awaited.
LEMMA ConsumedStep ==
    ASSUME IInv, Consumed
    PROVE  /\ at[2] = "out" /\ vm2_run_count = 1
           /\ run[2].data = shared_val /\ Awaited /\ consumed' = produced
  BY DEF IInv, TypeOK, GuestTypeOK, InRound, Stage, Awaited, Consumed, IoExit, IsDown

\* The exit that hands a number out preserves the invariant.
LEMMA ConsumedIInv == ASSUME IInv, Consumed PROVE IInv'
  <1>1. /\ at[2] = "out" /\ vm2_run_count = 1 /\ consumed' = produced
        /\ produced \in Seq(Words)
    BY ConsumedStep DEF IInv, TypeOK
  <1>2. TypeOK'
    BY <1>1 DEF IInv, TypeOK, Consumed, guestVars, GuestTypeOK
  <1>3. LockStep' /\ InRound'
    BY <1>1 DEF IInv, LockStep, InRound, Stage, Consumed, guestVars, IsDown
  <1> QED BY <1>2, <1>3 DEF IInv

\* It has asked for a number, and is given the one that is awaited.
LEMMA ConsumingIInv == ASSUME IInv, Consuming PROVE IInv'
  <1>1. run' = [run EXCEPT ![2].data = shared_val] /\ shared_val \in Words
    BY DEF IInv, TypeOK, Consuming
  <1>2. GuestTypeOK' /\ run'[2].data = shared_val /\ run'[2].reason = run[2].reason
    BY <1>1, DataType DEF IInv, TypeOK, Consuming
  <1>3. at[2] = "in" /\ vm2_run_count = 0 /\ Awaited
    BY DEF IInv, TypeOK, GuestTypeOK, InRound, Stage, Consuming, IoExit, IsDown
  <1>4. TypeOK'
    BY <1>2, <1>3 DEF IInv, TypeOK, Consuming
  <1>5. LockStep' /\ InRound'
    BY <1>2, <1>3 DEF IInv, LockStep, InRound, Stage, Awaited, Consuming, IsDown
  <1> QED BY <1>4, <1>5 DEF IInv

\* The steps that only move the hypervisor on.
LEMMA ControlIInv ==
    ASSUME IInv, Shutdown1 \/ Shutdown2 \/ RoundDone \/ RunFails \/ UNCHANGED vars
    PROVE  IInv'
  <1> USE DEF IInv, TypeOK, GuestTypeOK, LockStep, InRound, Stage, Awaited, guestVars,
              IsDown, IoExit
  <1>1. CASE Shutdown1
    BY <1>1 DEF Shutdown1
  <1>2. CASE Shutdown2
    BY <1>2 DEF Shutdown2
  <1>3. CASE RoundDone
    BY <1>3 DEF RoundDone, MoreExits
  <1>4. CASE RunFails
    BY <1>4 DEF RunFails
  <1>5. CASE UNCHANGED vars
    BY <1>5 DEF vars, MoreExits
  <1> QED BY <1>1, <1>2, <1>3, <1>4, <1>5

\* The rounds of emu1 stay aligned, however its VMs and KVM_RUN behave.
THEOREM Invariance == Spec => []IInv
  <1>1. IInv /\ [Next]_vars => IInv'
    <2> SUFFICES ASSUME IInv, [Next]_vars PROVE IInv'
      OBVIOUS
    <2> QED BY RunVm1IInv, ProducedIInv, RunVm2IInv, ConsumedIInv, ConsumingIInv, ControlIInv
            DEF Next, Stopped
  <1> QED BY <1>1, InitIInv, PTL DEF Spec

\* In particular, no number is lost or paired with another one's exits.
THEOREM RoundsAligned == Spec => []LockStep
  BY Invariance, PTL DEF IInv

-----------------------------------------------------------------------------
(* The refinement                                                          *)

\* The producer's exit puts its number into the channel.
LEMMA ProducedPuts ==
    ASSUME IInv, Produced
    PROVE  FIFO!Put \/ (at[2] = "down" /\ UNCHANGED consumed)
  <1> SUFFICES ASSUME at[2] # "down" PROVE FIFO!Put
    BY DEF Produced
  <1>1. run[1].data \in Words /\ produced \in Seq(Words)
    BY DEF IInv, TypeOK, GuestTypeOK, Page
  <1>2. consumed = produced
    BY DEF IInv, LockStep, Produced
  <1>3. <<run[1].data>> \in [1 .. 1 -> Words] /\ produced' = produced \o <<run[1].data>>
    BY <1>1, AppendIsConcat DEF Produced
  <1>4. UNCHANGED consumed /\ FIFO!InTransit + 1 <= 1
    BY <1>1, <1>2 DEF Produced, FIFO!InTransit
  <1> QED BY <1>3, <1>4 DEF FIFO!Put

\* The consumer's exit takes it out.
LEMMA ConsumedTakes == ASSUME IInv, Consumed PROVE FIFO!Take
  <1>1. /\ produced = Append(consumed, shared_val) /\ consumed' = produced
        /\ produced \in Seq(Words) /\ consumed \in Seq(Words) /\ shared_val \in Words
    BY ConsumedStep DEF IInv, TypeOK, Awaited
  <1>2. Len(produced) = Len(consumed) + 1
    BY <1>1
  <1>3. produced = SubSeq(produced, 1, Len(produced))
    BY <1>1, SubSeqFull
  <1> QED BY <1>1, <1>2, <1>3 DEF FIFO!Take, FIFO!InTransit, Consumed

\* emu1 implements a channel for one number: each one produced while the consumer
\* is up is handed to it once, before the next, and none after it has gone down.
THEOREM Refinement == Spec => ImplementsFifo
  <1>1. Init => FIFO!Init
    BY DEF Init, FIFO!Init
  <1>2. IInv /\ [Next]_vars
            => [FIFO!Next \/ (at[2] = "down" /\ UNCHANGED consumed)]_(FIFO!vars)
    <2> SUFFICES ASSUME IInv, [Next]_vars, ~UNCHANGED <<produced, consumed>>
                 PROVE  FIFO!Next \/ (at[2] = "down" /\ UNCHANGED consumed)
      BY DEF FIFO!vars
    <2>1. Produced \/ Consumed
      BY DEF Next, vars, RunVm1, Shutdown1, RunVm2, Consuming, Shutdown2, RoundDone,
             RunFails, Stopped
    <2> QED BY <2>1, ProducedPuts, ConsumedTakes DEF FIFO!Next
  <1> QED BY <1>1, <1>2, Invariance, PTL DEF Spec, ImplementsFifo
=============================================================================
