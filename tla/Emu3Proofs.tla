----------------------------- MODULE Emu3Proofs -----------------------------
(***************************************************************************)
(* Proofs about Emu3, for every length of the arrays, every size of the    *)
(* producer's counter and whichever VMs may shut down: the arrays are      *)
(* handed over whole, once each and in order.                              *)
(***************************************************************************)
EXTENDS Emu3, Integers, SequenceTheorems, TLAPS

USE Emu3Assumption

\* What the hypervisor prints of an array is a burst of Size values.
LEMMA PrintedType ==
    ASSUME NEW array \in [Index -> Values]
    PROVE  Printed(array) \in [1 .. Size -> Values]
           /\ Printed(array) \in Seq(Values) /\ Len(Printed(array)) = Size
  <1>1. \A k \in 1 .. Size : k - 1 \in Index
    BY DEF Index
  <1>2. Printed(array) \in [1 .. Size -> Values]
    BY <1>1 DEF Printed
  <1> QED BY <1>2

\* The types that the steps below need.
LEMMA Types ==
    ASSUME IInv
    PROVE  /\ produced \in Seq(Values) /\ consumed \in Seq(Values)
           /\ at \in [{1, 2} -> {"boot", "down", "F0", "F1", "F2", "F3"}]
           /\ base \in [{1, 2} -> {"NULL", "array"}]
           /\ buff \in [{1, 2} -> [Index -> Values]]
           /\ buff[1] \in [Index -> Values] /\ buff[2] \in [Index -> Values]
           /\ counter \in Values /\ arrays \in 0 .. MaxArrays /\ Current \in {1, 2}
           /\ phase \in {"register1", "register2", "produce", "consume", "failed"}
           /\ exit \in {"none", "other", "F0", "F1", "F2", "F3"}
  BY DEF IInv, TypeOK, Current

\* The values that the producer's guest computes with stay in range.
LEMMA CounterType ==
    ASSUME NEW k \in Nat, counter \in Values
    PROVE  (counter + k) % W \in Values
  <1>1. counter + k \in Nat
    BY DEF Values
  <1> QED BY <1>1 DEF Values

-----------------------------------------------------------------------------
(* The invariant                                                           *)

\* The start.
LEMMA InitIInv == Init => IInv
  <1> SUFFICES ASSUME Init PROVE IInv
    OBVIOUS
  <1>1. TypeOK
    BY DEF Init, TypeOK, Values
  <1>2. PhasesInStep /\ ArrayInFlight /\ ProducerFits
    BY DEF Init, PhasesInStep, ArrayInFlight, ProducerFits
  <1> QED BY <1>1, <1>2 DEF IInv

\* A guest registers its array.
LEMMA GuestRegistersIInv == ASSUME IInv, GuestRegisters PROVE IInv'
  <1>1. /\ at[Current] = "boot" /\ exit' \in {"F0", "F1"}
        /\ at' = [at EXCEPT ![Current] = exit']
        /\ exit' = (IF Current = 1 THEN "F0" ELSE "F1")
        /\ UNCHANGED <<phase, arrays, counter, buff, base, produced, consumed>>
    BY DEF GuestRegisters
  <1>2. TypeOK'
    BY <1>1, Types DEF IInv, TypeOK
  <1>3. PhasesInStep' /\ ArrayInFlight' /\ ProducerFits'
    BY <1>1, Types DEF IInv, PhasesInStep, ArrayInFlight, ProducerFits, Current
  <1> QED BY <1>2, <1>3 DEF IInv

\* The producer's guest fills its array, which has been consumed before.
LEMMA GuestProducesIInv == ASSUME IInv, GuestProduces PROVE IInv'
  <1>1. /\ at[1] \in {"F0", "F2"} /\ exit' = "F2" /\ at' = [at EXCEPT ![1] = "F2"]
        /\ phase \in {"register1", "produce"}
        /\ UNCHANGED <<phase, arrays, base, produced, consumed>>
    BY Types DEF GuestProduces, Current, Running
  <1>2. counter' \in Values
    BY CounterType, Types DEF GuestProduces
  <1>3. buff' \in [{1, 2} -> [Index -> Values]]
    <2>1. [k \in Index |-> (counter + k) % W] \in [Index -> Values]
      BY CounterType, Types DEF Index
    <2> DEFINE filled == [k \in Index |-> (counter + k) % W]
    <2>2. filled \in [Index -> Values] /\ buff' = [buff EXCEPT ![1] = filled]
      BY <2>1 DEF GuestProduces, Fill
    <2> HIDE DEF filled
    <2> QED BY <2>2, Types
  <1>4. TypeOK'
    BY <1>1, <1>2, <1>3, Types DEF IInv, TypeOK
  <1>5. phase' = "produce" => arrays' < MaxArrays
    BY <1>1 DEF GuestProduces, Bounded
  <1>6. at'[1] = "F2"
    BY <1>1, Types
  <1>7. PhasesInStep' /\ ArrayInFlight' /\ ProducerFits'
    BY <1>1, <1>5, <1>6 DEF IInv, PhasesInStep, ArrayInFlight, ProducerFits
  <1> QED BY <1>4, <1>7 DEF IInv

\* The consumer's guest signals, a vCPU shuts down, or KVM_RUN fails.
LEMMA RunIInv == ASSUME IInv, GuestConsumes \/ ShutDown \/ RunFails PROVE IInv'
  <1>1. CASE GuestConsumes
    <2>1. TypeOK'
      BY <1>1, Types DEF IInv, TypeOK, GuestConsumes
    <2>2. PhasesInStep' /\ ArrayInFlight' /\ ProducerFits'
      BY <1>1, Types DEF IInv, PhasesInStep, ArrayInFlight, ProducerFits, GuestConsumes,
                         Current
    <2> QED BY <2>1, <2>2 DEF IInv
  <1>2. CASE ShutDown
    <2>1. TypeOK'
      BY <1>2, Types DEF IInv, TypeOK, ShutDown
    <2>2. PhasesInStep' /\ ArrayInFlight' /\ ProducerFits'
      BY <1>2, Types DEF IInv, PhasesInStep, ArrayInFlight, ProducerFits, ShutDown, Current
    <2> QED BY <2>1, <2>2 DEF IInv
  <1>3. CASE RunFails
    BY <1>3 DEF IInv, TypeOK, PhasesInStep, ArrayInFlight, ProducerFits, RunFails, guests
  <1> QED BY <1>1, <1>2, <1>3

\* The hypervisor notes where the arrays are.
LEMMA RegisterIInv == ASSUME IInv, Register1 \/ Register2 PROVE IInv'
  <1>1. CASE Register1
    <2>1. TypeOK'
      BY <1>1, Types DEF IInv, TypeOK, Register1, Register, guests
    <2>2. at[1] = "F0" /\ base' = [base EXCEPT ![1] = "array"]
      BY <1>1 DEF IInv, ProducerFits, Register1, Register, Got, Expected
    <2>3. PhasesInStep' /\ ArrayInFlight' /\ ProducerFits'
      BY <1>1, <2>2, Types DEF IInv, PhasesInStep, ArrayInFlight, ProducerFits, Register1,
                               Register, Got, guests
    <2> QED BY <2>1, <2>3 DEF IInv
  <1>2. CASE Register2
    <2>1. TypeOK'
      BY <1>2, Types DEF IInv, TypeOK, Register2, Register, guests
    <2>2. /\ base' = [base EXCEPT ![2] = "array"] /\ base[1] = "array" /\ at[1] = "F0"
      BY <1>2 DEF IInv, ProducerFits, Register2, Register, Got
    <2>3. base' = [v \in {1, 2} |-> "array"]
      BY <2>2, Types
    <2>4. PhasesInStep' /\ ArrayInFlight' /\ ProducerFits'
      BY <1>2, <2>2, <2>3, Types DEF IInv, PhasesInStep, ArrayInFlight, ProducerFits,
                                     Register2, Register, Got, guests
    <2> QED BY <2>1, <2>4 DEF IInv
  <1> QED BY <1>1, <1>2

\* The hypervisor copies the array that the producer has signalled.
LEMMA ArrayProducedIInv == ASSUME IInv, ArrayProduced PROVE IInv'
  <1>1. /\ phase = "produce" /\ exit = "F2" /\ at[1] = "F2" /\ produced = consumed
        /\ base = [v \in {1, 2} |-> "array"]
    BY DEF IInv, PhasesInStep, ArrayInFlight, ProducerFits, ArrayProduced, Got, Expected
  <1>2. /\ phase' = "consume" /\ exit' = "none" /\ arrays' = arrays + 1
        /\ produced' = produced \o Printed(buff[1])
        /\ buff' = [buff EXCEPT ![2] = buff[1]]
        /\ UNCHANGED <<at, counter, base, consumed>>
    BY DEF ArrayProduced, Copy
  <1>3. buff' \in [{1, 2} -> [Index -> Values]] /\ buff'[1] = buff[1] /\ buff'[2] = buff[1]
    BY <1>2, Types
  <1>4. produced' \in Seq(Values)
    BY <1>2, PrintedType, ConcatProperties, Types
  <1>5. arrays' \in 0 .. MaxArrays
    BY <1>1, <1>2, Types DEF IInv, ProducerFits
  <1>6. TypeOK'
    BY <1>2, <1>3, <1>4, <1>5 DEF IInv, TypeOK
  <1>7. PhasesInStep' /\ ArrayInFlight' /\ ProducerFits'
    BY <1>1, <1>2, <1>3 DEF PhasesInStep, ArrayInFlight, ProducerFits
  <1> QED BY <1>6, <1>7 DEF IInv

\* The consumer has signalled: the array that was pending has been consumed.
LEMMA ArrayConsumedStep ==
    ASSUME IInv, ArrayConsumed
    PROVE  /\ phase = "consume" /\ at[1] = "F2" /\ base = [v \in {1, 2} |-> "array"]
           /\ Printed(buff[2]) = Printed(buff[1]) /\ consumed' = produced
           /\ produced = consumed \o Printed(buff[1])
  BY DEF IInv, PhasesInStep, ArrayInFlight, ArrayConsumed, Got

\* That step preserves the invariant.
LEMMA ArrayConsumedIInv == ASSUME IInv, ArrayConsumed PROVE IInv'
  <1>1. TypeOK'
    BY ArrayConsumedStep, Types DEF IInv, TypeOK, ArrayConsumed, guests
  <1>2. PhasesInStep' /\ ArrayInFlight' /\ ProducerFits'
    BY ArrayConsumedStep DEF PhasesInStep, ArrayInFlight, ProducerFits, ArrayConsumed, guests
  <1> QED BY <1>1, <1>2 DEF IInv

\* Whatever the guests do, no array is copied before it is complete, overwritten
\* before it is consumed, or shown twice.
THEOREM Invariance == Spec => []IInv
  <1>1. IInv /\ [Next]_vars => IInv'
    <2> SUFFICES ASSUME IInv, [Next]_vars PROVE IInv'
      OBVIOUS
    <2>1. CASE UNCHANGED vars
      BY <2>1 DEF vars, guests, IInv, TypeOK, PhasesInStep, ArrayInFlight, ProducerFits
    <2> QED BY <2>1, GuestRegistersIInv, GuestProducesIInv, RunIInv, RegisterIInv,
               ArrayProducedIInv, ArrayConsumedIInv DEF Next, Stopped
  <1> QED BY <1>1, InitIInv, PTL DEF Spec

-----------------------------------------------------------------------------
(* The refinement                                                          *)

\* The producer's signal puts an array into the channel.
LEMMA ArrayProducedPuts == ASSUME IInv, ArrayProduced PROVE FIFO!Put
  <1>1. Printed(buff[1]) \in [1 .. Size -> Values]
    BY PrintedType, Types
  <1>2. produced = consumed
    BY DEF IInv, ArrayInFlight, ArrayProduced, Got
  <1>3. FIFO!InTransit + Size <= Size
    BY <1>2, Types DEF FIFO!InTransit
  <1> QED BY <1>1, <1>3 DEF FIFO!Put, ArrayProduced

\* The consumer's signal takes one out.
LEMMA ArrayConsumedTakes == ASSUME IInv, ArrayConsumed PROVE FIFO!Take
  <1>1. Len(produced) = Len(consumed) + Size
    BY ArrayConsumedStep, PrintedType, ConcatProperties, Types
  <1>2. produced = SubSeq(produced, 1, Len(produced))
    BY SubSeqFull, Types
  <1>3. consumed' = SubSeq(produced, 1, Len(consumed) + Size) /\ UNCHANGED produced
    BY <1>1, <1>2, ArrayConsumedStep DEF ArrayConsumed
  <1>4. Len(consumed) \in Nat /\ Size \in Nat
    BY Types
  <1>5. Size <= FIFO!InTransit
    BY <1>1, <1>4 DEF FIFO!InTransit
  <1> QED BY <1>3, <1>5 DEF FIFO!Take

\* emu3 implements a channel for one array.
THEOREM Refinement == Spec => ImplementsFifo
  <1>1. Init => FIFO!Init
    BY DEF Init, FIFO!Init
  <1>2. IInv /\ [Next]_vars => [FIFO!Next]_(FIFO!vars)
    <2> SUFFICES ASSUME IInv, [Next]_vars, ~UNCHANGED <<produced, consumed>>
                 PROVE  FIFO!Next
      BY DEF FIFO!vars
    <2>1. ArrayProduced \/ ArrayConsumed
      BY DEF Next, vars, GuestRegisters, GuestProduces, GuestConsumes, ShutDown, RunFails,
             Register1, Register2, Register, Stopped
    <2> QED BY <2>1, ArrayProducedPuts, ArrayConsumedTakes DEF FIFO!Next
  <1> QED BY <1>1, <1>2, Invariance, PTL DEF Spec, ImplementsFifo, FIFO!Spec
=============================================================================
