----------------------------- MODULE Emu2Proofs -----------------------------
(***************************************************************************)
(* Proofs about Emu2, for every length of a burst, every size of the       *)
(* guests' register and whichever VMs may shut down: what was consumed is  *)
(* a prefix of what was produced, and what is missing from it is the rest  *)
(* of the burst in shared_val.                                             *)
(***************************************************************************)
EXTENDS Emu2, Integers, SequenceTheorems, TLAPS

USE GuestAssumption, Emu2Assumption

-----------------------------------------------------------------------------
(* The guests: what a KVM_RUN leaves behind                                *)

\* The producer's count stays a word.
LEMMA CountIsWord == GuestTypeOK => NextCount \in Words
  <1> SUFFICES ASSUME GuestTypeOK PROVE NextCount \in Words
    OBVIOUS
  <1>1. ax[1] \in 0 .. W - 1
    BY DEF GuestTypeOK, Words
  <1>2. (ax[1] + 1) % W \in 0 .. W - 1
    BY <1>1
  <1> QED BY <1>2 DEF NextCount, Words

\* What an exit for an I/O instruction leaves behind.
LEMMA ExitsType ==
    ASSUME GuestTypeOK, NEW v \in {1, 2}, NEW dir \in {"in", "out"},
           NEW port \in {"10", "11", "12"}, NEW word \in Words,
           Exits(v, dir, port, word)
    PROVE  /\ GuestTypeOK'
           /\ IoExit(v, dir, port)' /\ at'[v] = dir /\ ~IsDown(v)'
           /\ dir = "out" => run'[v].data = word
           /\ \A o \in {1, 2} : o # v => at'[o] = at[o] /\ run'[o] = run[o]
  BY DEF GuestTypeOK, Exits, IoExit, IsDown, Page

\* What a shutdown leaves behind.
LEMMA ShutDownType ==
    ASSUME GuestTypeOK, NEW v \in {1, 2}, ShutDown(v)
    PROVE  /\ GuestTypeOK' /\ IsDown(v)' /\ at'[v] = "down"
           /\ \A o \in {1, 2} : o # v => at'[o] = at[o] /\ run'[o] = run[o]
  BY DEF GuestTypeOK, ShutDown, IsDown, Page

\* Running the producer leaves the consumer where it is.
LEMMA Run1Frame ==
    ASSUME GuestTypeOK, KvmRun1
    PROVE  GuestTypeOK' /\ at'[2] = at[2] /\ run'[2] = run[2]
  <1>1. CASE CountOut
    BY <1>1, ExitsType, CountIsWord DEF CountOut
  <1>2. CASE ShutDown(1)
    BY <1>2, ShutDownType
  <1> QED BY <1>1, <1>2 DEF KvmRun1

\* Running the consumer: it asks for a number, hands one out, or shuts down.
LEMMA Run2Cases ==
    ASSUME GuestTypeOK, KvmRun2
    PROVE  /\ GuestTypeOK'
           /\ \/ /\ at[2] \in {"boot", "out"} /\ at'[2] = "in"
                 /\ IoExit(2, "in", "11")' /\ ~IsDown(2)'
              \/ /\ at[2] = "in" /\ at'[2] = "out"
                 /\ IoExit(2, "out", "12")' /\ ~IsDown(2)'
                 /\ run'[2].data = run[2].data
              \/ at'[2] = "down" /\ IsDown(2)'
  <1>1. CASE ReadIn
    <2>1. ax[2] \in Words
      BY DEF GuestTypeOK
    <2> QED BY <1>1, <2>1, ExitsType DEF ReadIn
  <1>2. CASE WriteOut
    <2>1. run[2].data \in Words
      BY DEF GuestTypeOK, Page
    <2> QED BY <1>2, <2>1, ExitsType DEF WriteOut
  <1>3. CASE ShutDown(2)
    BY <1>3, ShutDownType
  <1> QED BY <1>1, <1>2, <1>3 DEF KvmRun2

\* Completing an in instruction changes nothing but the data of its exit.
LEMMA DataType ==
    ASSUME GuestTypeOK, NEW word \in Words,
           run' = [run EXCEPT ![2].data = word], UNCHANGED <<ax, at>>
    PROVE  GuestTypeOK' /\ run'[2].data = word /\ run'[2].reason = run[2].reason
  <1>1. /\ ax \in [{1, 2} -> Words] /\ run \in [{1, 2} -> Page]
        /\ at \in [{1, 2} -> {"boot", "in", "out", "down"}]
    BY DEF GuestTypeOK
  <1> DEFINE page == [run[2] EXCEPT !.data = word]
  <1>2. page \in Page /\ page.data = word /\ page.reason = run[2].reason
    BY <1>1 DEF Page
  <1>3. run' = [run EXCEPT ![2] = page]
    OBVIOUS
  <1> HIDE DEF page
  <1>4. run' \in [{1, 2} -> Page] /\ run'[2] = page
    BY <1>1, <1>2, <1>3
  <1> QED BY <1>1, <1>2, <1>4 DEF GuestTypeOK

\* A sequence that agrees with another as far as it goes is a prefix of it.
LEMMA PrefixIsSubSeq ==
    ASSUME NEW S, NEW s \in Seq(S), NEW t \in Seq(S),
           Len(s) <= Len(t), \A k \in 1 .. Len(s) : s[k] = t[k]
    PROVE  s = SubSeq(t, 1, Len(s))
  <1>1. Len(s) \in Nat /\ Len(t) \in Nat
    OBVIOUS
  <1>2. \A k \in 1 .. Len(s) : t[k] \in S
    BY <1>1
  <1>3. /\ SubSeq(t, 1, Len(s)) \in Seq(S)
        /\ Len(SubSeq(t, 1, Len(s))) = Len(s)
        /\ \A k \in 1 .. Len(s) : SubSeq(t, 1, Len(s))[k] = t[k]
    <2>1. /\ SubSeq(t, 1, Len(s)) \in Seq(S)
          /\ Len(SubSeq(t, 1, Len(s))) = IF 1 <= Len(s) THEN Len(s) - 1 + 1 ELSE 0
          /\ \A k \in 1 .. Len(s) - 1 + 1 : SubSeq(t, 1, Len(s))[k] = t[1 + k - 1]
      BY <1>1, <1>2, SubSeqProperties
    <2> QED BY <1>1, <2>1
  <1> DEFINE u == SubSeq(t, 1, Len(s))
  <1>4. /\ u \in Seq(S) /\ Len(s) = Len(u)
        /\ \A k \in 1 .. Len(s) : s[k] = u[k]
    BY <1>3
  <1> HIDE DEF u
  <1>5. s = u
    BY <1>4, SeqEqual, ZenonT(60)
  <1> QED BY <1>5 DEF u

\* What the invariant says of a state, unless the consumer is down or KVM_RUN
\* has failed.
Working == at[2] # "down" /\ pc # "failed"

\* The types that the steps below need.
LEMMA Types ==
    ASSUME IInv
    PROVE  /\ produced \in Seq(Words) /\ consumed \in Seq(Words)
           /\ Len(produced) \in Nat /\ Len(consumed) \in Nat
           /\ prod_count \in Nat /\ prod_count <= Burst /\ i \in Nat /\ i <= Burst
           /\ vm2_run_count \in {0, 1, 2} /\ rounds \in 0 .. MaxRounds
           /\ shared_val \in [0 .. Burst - 1 -> Words]
           /\ GuestTypeOK /\ run[1].data \in Words /\ run[2].data \in Words
  <1>1. produced \in Seq(Words) /\ consumed \in Seq(Words) /\ GuestTypeOK
    BY DEF IInv, TypeOK
  <1>2. run[1] \in Page /\ run[2] \in Page
    BY <1>1 DEF GuestTypeOK
  <1> QED BY <1>1, <1>2 DEF IInv, TypeOK, Page

-----------------------------------------------------------------------------
(* The invariant                                                           *)

\* The start.
LEMMA InitIInv == Init => IInv
  <1> SUFFICES ASSUME Init PROVE IInv
    OBVIOUS
  <1>1. TypeOK
    BY DEF Init, TypeOK, GuestInit, GuestTypeOK, Words, Page
  <1>2. Bounds
    BY DEF Init, GuestInit, Bounds, IsDown
  <1>3. InFlight /\ Stage
    BY DEF Init, GuestInit, InFlight, Done, Stage
  <1> QED BY <1>1, <1>2, <1>3 DEF IInv

\* A burst begins: nothing of it has been produced.
LEMMA NewRoundIInv == ASSUME IInv, NewRound PROVE IInv'
  <1>1. TypeOK' /\ Bounds'
    BY DEF IInv, TypeOK, Bounds, NewRound, guestVars, GuestTypeOK, IsDown
  <1>2. ASSUME Working PROVE InFlight' /\ Stage'
    BY <1>2, Types DEF Working, IInv, InFlight, Done, Stage, NewRound, guestVars
  <1> QED BY <1>1, <1>2 DEF IInv, Working, NewRound, guestVars

\* The producer runs.
LEMMA RunVm1IInv == ASSUME IInv, RunVm1 PROVE IInv'
  <1>1. GuestTypeOK' /\ at'[2] = at[2] /\ run'[2] = run[2]
    BY Run1Frame, Types DEF RunVm1
  <1>2. TypeOK' /\ Bounds'
    BY <1>1 DEF IInv, TypeOK, Bounds, RunVm1, IsDown
  <1>3. ASSUME Working PROVE InFlight' /\ Stage'
    BY <1>1, <1>3 DEF Working, IInv, InFlight, Done, Stage, RunVm1
  <1> QED BY <1>1, <1>2, <1>3 DEF IInv, Working, RunVm1

\* Its number becomes the last of the burst.
LEMMA ProducedIInv == ASSUME IInv, Produced PROVE IInv'
  <1>1. pc = "exit1" /\ prod_count < Burst
    BY DEF IInv, Bounds, Produced
  <1>2. /\ produced' = Append(produced, run[1].data)
        /\ produced' \in Seq(Words) /\ Len(produced') = Len(produced) + 1
        /\ \A k \in 1 .. Len(produced) : produced'[k] = produced[k]
        /\ produced'[Len(produced) + 1] = run[1].data
    BY Types, AppendProperties DEF Produced
  <1>3. /\ shared_val' \in [0 .. Burst - 1 -> Words]
        /\ shared_val'[prod_count] = run[1].data
        /\ \A k \in 0 .. prod_count - 1 : shared_val'[k] = shared_val[k]
    BY <1>1, Types DEF Produced, StoreShared
  <1>4. TypeOK' /\ Bounds'
    BY <1>1, <1>2, <1>3, Types
       DEF IInv, TypeOK, Bounds, Produced, guestVars, GuestTypeOK, IsDown
  <1>5. ASSUME Working PROVE InFlight' /\ Stage'
    <2>1. /\ Done = 0 /\ Done' = 0 /\ prod_count' = prod_count + 1
          /\ UNCHANGED consumed
      BY <1>1 DEF Done, Produced
    <2>2. /\ Len(produced) = Len(consumed) + prod_count
          /\ \A k \in 1 .. Len(consumed) : consumed[k] = produced[k]
          /\ \A k \in 0 .. prod_count - 1 :
                produced[Len(consumed) + k + 1] = shared_val[k]
      BY <1>5, <2>1, Types DEF Working, IInv, InFlight
    <2>3. Len(produced') = Len(consumed) + prod_count'
      BY <1>2, <2>1, <2>2, Types
    <2>4. \A k \in 1 .. Len(consumed) : consumed[k] = produced'[k]
      BY <1>2, <2>2, Types
    <2>5. \A k \in 0 .. prod_count : produced'[Len(consumed) + k + 1] = shared_val'[k]
      <3> SUFFICES ASSUME NEW k \in 0 .. prod_count
                   PROVE  produced'[Len(consumed) + k + 1] = shared_val'[k]
        OBVIOUS
      <3>1. CASE k = prod_count
        <4>1. Len(consumed) + k + 1 = Len(produced) + 1
          BY <2>2, <3>1, Types
        <4> QED BY <1>2, <1>3, <3>1, <4>1
      <3>2. CASE k \in 0 .. prod_count - 1
        <4>1. Len(consumed) + k + 1 \in 1 .. Len(produced)
          BY <2>2, <3>2, Types
        <4> QED BY <1>2, <1>3, <2>2, <3>2, <4>1
      <3> QED BY <3>1, <3>2, Types
    <2>6. Stage'
      BY <1>1, <1>5 DEF Working, IInv, Stage, Produced, guestVars
    <2> QED BY <2>1, <2>3, <2>4, <2>5, <2>6, Types, SMTT(60) DEF InFlight
  <1> QED BY <1>4, <1>5 DEF IInv, Working, Produced, guestVars

\* The burst is complete, or the producer's shutdown has cut it short: its
\* numbers are all still to be consumed.
LEMMA StartConsumingIInv == ASSUME IInv, BurstDone \/ Shutdown1 PROVE IInv'
  <1>1. /\ pc \in {"vm1", "exit1"} /\ pc' = "vm2" /\ i' = 0 /\ vm2_run_count' = 0
        /\ UNCHANGED <<ax, at, run, shared_val, prod_count, rounds, produced, consumed>>
    BY DEF BurstDone, Shutdown1, StartConsuming, guestVars
  <1>2. TypeOK' /\ Bounds'
    BY <1>1, Types DEF IInv, TypeOK, Bounds, GuestTypeOK, IsDown
  <1>3. ASSUME Working PROVE InFlight' /\ Stage'
    BY <1>1, <1>3 DEF Working, IInv, InFlight, Done, Stage
  <1> QED BY <1>1, <1>2, <1>3 DEF IInv, Working

\* The consumer runs for one of its two exits for a number.
LEMMA RunVm2IInv == ASSUME IInv, RunVm2 PROVE IInv'
  <1>1. /\ pc = "vm2" /\ pc' = "exit2" /\ vm2_run_count < 2 /\ MoreToConsume
        /\ UNCHANGED <<shared_val, prod_count, i, vm2_run_count, rounds,
                       produced, consumed>>
    BY DEF RunVm2
  <1>2. TypeOK'
    BY <1>1, Run2Cases, Types DEF IInv, TypeOK, RunVm2
  <1>3. (at'[2] = "down" <=> IsDown(2)') /\ (at'[2] # "down" => at[2] # "down")
    BY Run2Cases, Types DEF RunVm2
  <1>4. Bounds'
    BY <1>1, <1>3, Types DEF Bounds, MoreToConsume
  <1>5. ASSUME Working' PROVE InFlight' /\ Stage'
    <2>1. InFlight /\ Stage
      BY <1>1, <1>3, <1>5 DEF IInv, Working
    <2>2. InFlight'
      BY <1>1, <2>1, Types DEF InFlight, Done
    <2>3. CASE /\ at[2] \in {"boot", "out"} /\ at'[2] = "in"
               /\ IoExit(2, "in", "11")' /\ ~IsDown(2)'
      BY <1>1, <2>1, <2>2, <2>3 DEF Stage
    <2>4. CASE /\ at[2] = "in" /\ at'[2] = "out"
               /\ IoExit(2, "out", "12")' /\ ~IsDown(2)'
               /\ run'[2].data = run[2].data
      BY <1>1, <2>1, <2>2, <2>4 DEF Stage
    <2> QED BY <1>5, <2>2, <2>3, <2>4, Run2Cases, Types DEF RunVm2, Working
  <1> QED BY <1>2, <1>4, <1>5 DEF IInv, Working

\* It has handed a number out: the next of the burst.
LEMMA ConsumedStep ==
    ASSUME IInv, Consumed
    PROVE  /\ Working /\ InFlight
           /\ at[2] = "out" /\ vm2_run_count = 1 /\ i < prod_count
           /\ Len(produced) = Len(consumed) + (prod_count - i)
           /\ run[2].data = produced[Len(consumed) + 1]
  <1>1. pc = "exit2" /\ IoExit(2, "out", "12") /\ at[2] # "down"
    BY DEF IInv, Bounds, Consumed, IoExit, IsDown
  <1>2. InFlight /\ Stage /\ i < prod_count
    BY <1>1 DEF IInv, Bounds, MoreToConsume
  <1>3. at[2] = "out" /\ vm2_run_count = 1 /\ run[2].data = shared_val[i]
    BY <1>1, <1>2 DEF Stage, IoExit
  <1>4. Done = i
    BY <1>1, <1>3 DEF Done
  <1>5. produced[Len(consumed) + 1] = shared_val[i]
    <2>1. Len(consumed) \in Nat /\ i \in Nat /\ prod_count \in Nat
      BY Types
    <2>2. i \in i .. prod_count - 1 /\ Len(consumed) + (i - i) + 1 = Len(consumed) + 1
      BY <1>2, <2>1
    <2>3. produced[Len(consumed) + (i - i) + 1] = shared_val[i]
      BY <1>2, <1>4, <2>2 DEF InFlight
    <2> QED BY <2>2, <2>3
  <1> QED BY <1>1, <1>2, <1>3, <1>4, <1>5 DEF Working, InFlight

\* The exit that hands a number out preserves the invariant.
LEMMA ConsumedIInv == ASSUME IInv, Consumed PROVE IInv'
  <1>1. /\ pc = "exit2" /\ pc' = "vm2" /\ vm2_run_count = 1 /\ vm2_run_count' = 2
        /\ at[2] = "out" /\ i < prod_count /\ InFlight
        /\ UNCHANGED <<ax, at, run, shared_val, prod_count, i, rounds, produced>>
    BY ConsumedStep DEF Consumed, guestVars
  <1>2. /\ consumed' \in Seq(Words) /\ Len(consumed') = Len(consumed) + 1
        /\ \A k \in 1 .. Len(consumed) : consumed'[k] = consumed[k]
        /\ consumed'[Len(consumed) + 1] = produced[Len(consumed) + 1]
    BY ConsumedStep, Types, AppendProperties DEF Consumed
  <1>3. TypeOK' /\ Bounds'
    BY <1>1, <1>2, Types DEF IInv, TypeOK, Bounds, GuestTypeOK, IsDown
  <1>4. Done = i /\ Done' = i + 1
    BY <1>1 DEF Done
  <1>5. InFlight'
    <2>1. Len(produced') = Len(consumed') + (prod_count' - Done')
      BY <1>1, <1>2, <1>4, ConsumedStep, Types
    <2>2. \A k \in 1 .. Len(consumed') : consumed'[k] = produced'[k]
      <3>1. \A k \in 1 .. Len(consumed) : consumed[k] = produced[k]
        BY <1>1 DEF InFlight
      <3> SUFFICES ASSUME NEW k \in 1 .. Len(consumed) + 1
                   PROVE  consumed'[k] = produced[k]
        BY <1>1, <1>2
      <3>2. CASE k = Len(consumed) + 1
        BY <1>2, <3>2
      <3>3. CASE k \in 1 .. Len(consumed)
        BY <1>2, <3>1, <3>3
      <3> QED BY <3>2, <3>3, Types
    <2>3. \A k \in Done' .. prod_count' - 1 :
             produced'[Len(consumed') + (k - Done') + 1] = shared_val'[k]
      <3>1. \A k \in i .. prod_count - 1 :
               produced[Len(consumed) + (k - i) + 1] = shared_val[k]
        BY <1>1, <1>4 DEF InFlight
      <3>2. /\ Done' = i + 1 /\ Len(consumed') = Len(consumed) + 1
            /\ UNCHANGED <<produced, shared_val, prod_count>>
        BY <1>1, <1>2, <1>4
      <3> SUFFICES ASSUME NEW k \in i + 1 .. prod_count - 1
                   PROVE  produced[Len(consumed) + 1 + (k - (i + 1)) + 1] = shared_val[k]
        BY <3>2
      <3>3. Len(consumed) \in Nat /\ i \in Nat /\ prod_count \in Nat
        BY Types
      <3>4. Len(consumed) + 1 + (k - (i + 1)) + 1 = Len(consumed) + (k - i) + 1
        BY <3>3
      <3>5. k \in i .. prod_count - 1
        BY <3>3
      <3> QED BY <3>1, <3>4, <3>5
    <2> QED BY <2>1, <2>2, <2>3 DEF InFlight
  <1>6. Stage'
    BY <1>1 DEF Stage, MoreToConsume
  <1> QED BY <1>3, <1>5, <1>6 DEF IInv

\* It has asked for a number, and is given the next of the burst.
LEMMA ConsumingIInv == ASSUME IInv, Consuming PROVE IInv'
  <1>1. /\ pc = "exit2" /\ pc' = "vm2" /\ vm2_run_count' = vm2_run_count + 1
        /\ i < prod_count /\ vm2_run_count < 2
        /\ UNCHANGED <<ax, at, shared_val, prod_count, i, rounds, produced, consumed>>
    BY DEF IInv, Bounds, MoreToConsume, Consuming
  <1>2. shared_val[i] \in Words
    BY <1>1, Types
  <1>3. GuestTypeOK' /\ run'[2].data = shared_val[i] /\ run'[2].reason = run[2].reason
    BY <1>2, DataType, Types DEF Consuming
  <1>4. at[2] # "down" /\ InFlight /\ Stage
    BY <1>1 DEF IInv, Bounds, Consuming, IoExit, IsDown
  <1>5. vm2_run_count = 0 /\ at[2] = "in"
    BY <1>1, <1>4 DEF Stage, Consuming, IoExit
  <1>6. TypeOK' /\ Bounds'
    BY <1>1, <1>3, <1>5, Types DEF IInv, TypeOK, Bounds, IsDown
  <1>7. InFlight' /\ Stage'
    BY <1>1, <1>3, <1>4, <1>5 DEF InFlight, Done, Stage, MoreToConsume
  <1> QED BY <1>6, <1>7 DEF IInv

\* It is done with a number, or has shut down.
LEMMA NextNumberIInv == ASSUME IInv, Shutdown2 \/ NumberDone PROVE IInv'
  <1>1. /\ pc \in {"exit2", "vm2"} /\ pc' = "vm2" /\ i' = i + 1 /\ vm2_run_count' = 0
        /\ i < prod_count
        /\ UNCHANGED <<ax, at, run, shared_val, prod_count, rounds, produced, consumed>>
    BY DEF IInv, Bounds, Shutdown2, NumberDone, NextNumber, guestVars, MoreToConsume
  <1>2. TypeOK' /\ Bounds'
    BY <1>1, Types DEF IInv, TypeOK, Bounds, GuestTypeOK, IsDown
  <1>3. ASSUME Working PROVE InFlight' /\ Stage'
    <2>1. InFlight /\ Stage /\ pc = "vm2" /\ vm2_run_count = 2
      BY <1>1, <1>3, Types DEF Working, IInv, Bounds, Shutdown2, NumberDone
    <2> QED BY <1>1, <2>1 DEF InFlight, Done, Stage
  <1> QED BY <1>1, <1>2, <1>3 DEF IInv, Working

\* The round is over: the whole burst has been consumed.
LEMMA RoundDoneIInv == ASSUME IInv, RoundDone PROVE IInv'
  <1>1. /\ pc = "vm2" /\ pc' = "round" /\ i = prod_count
        /\ UNCHANGED <<ax, at, run, shared_val, prod_count, i, vm2_run_count, rounds,
                       produced, consumed>>
    BY Types DEF IInv, Bounds, RoundDone, guestVars, MoreToConsume
  <1>2. TypeOK' /\ Bounds'
    BY <1>1 DEF IInv, TypeOK, Bounds, GuestTypeOK, IsDown
  <1>3. ASSUME Working PROVE InFlight' /\ Stage'
    <2>1. InFlight /\ Stage /\ vm2_run_count = 0
      BY <1>1, <1>3, Types DEF Working, IInv, Stage, MoreToConsume
    <2> QED BY <1>1, <2>1 DEF InFlight, Done, Stage
  <1> QED BY <1>1, <1>2, <1>3 DEF IInv, Working

\* KVM_RUN fails, or nothing changes.
LEMMA StopIInv == ASSUME IInv, RunFails \/ UNCHANGED vars PROVE IInv'
  <1>1. CASE RunFails
    BY <1>1 DEF RunFails, IInv, TypeOK, Bounds, guestVars, GuestTypeOK, IsDown
  <1>2. CASE UNCHANGED vars
    BY <1>2 DEF vars, guestVars, IInv, TypeOK, Bounds, GuestTypeOK, IsDown, InFlight,
                Done, Stage, IoExit, MoreToConsume
  <1> QED BY <1>1, <1>2

\* No number of a burst is lost, doubled or taken from another burst, wherever
\* the producer or the consumer shuts down.
THEOREM Invariance == Spec => []IInv
  <1>1. IInv /\ [Next]_vars => IInv'
    <2> SUFFICES ASSUME IInv, [Next]_vars PROVE IInv'
      OBVIOUS
    <2> QED BY NewRoundIInv, RunVm1IInv, ProducedIInv, StartConsumingIInv, RunVm2IInv,
               ConsumedIInv, ConsumingIInv, NextNumberIInv, RoundDoneIInv, StopIInv
            DEF Next, Stopped
  <1> QED BY <1>1, InitIInv, PTL DEF Spec

\* At the end of every round the whole burst has been consumed.
THEOREM BurstsArrive == Spec => []BurstConsumed
  <1>1. IInv => BurstConsumed
    <2> SUFFICES ASSUME IInv, pc \in {"round", "vm1", "exit1"}, at[2] # "down"
                 PROVE  BurstConsumed
      BY DEF BurstConsumed
    <2>1. InFlight /\ Stage
      BY DEF IInv
    <2>2. Len(produced) - (IF pc = "round" THEN 0 ELSE prod_count) = Len(consumed)
      BY <2>1, Types DEF InFlight, Done
    <2>3. consumed = SubSeq(produced, 1, Len(consumed))
      <3>1. /\ Len(consumed) <= Len(produced)
            /\ \A k \in 1 .. Len(consumed) : consumed[k] = produced[k]
        BY <2>1, <2>2, Types DEF InFlight
      <3> QED BY <3>1, Types, PrefixIsSubSeq
    <2> QED BY <2>1, <2>2, <2>3 DEF BurstConsumed, Stage
  <1> QED BY <1>1, Invariance, PTL

-----------------------------------------------------------------------------
(* The refinement                                                          *)

\* The producer's exit puts its number into the channel.
LEMMA ProducedPuts ==
    ASSUME IInv, Produced
    PROVE  FIFO!Put \/ (at[2] = "down" /\ UNCHANGED consumed)
  <1> SUFFICES ASSUME at[2] # "down" PROVE FIFO!Put
    BY DEF Produced
  <1>1. <<run[1].data>> \in [1 .. 1 -> Words] /\ produced' = produced \o <<run[1].data>>
    BY Types, AppendIsConcat DEF Produced
  <1>2. pc = "exit1" /\ prod_count < Burst
    BY DEF IInv, Bounds, Produced
  <1>3. Len(produced) = Len(consumed) + prod_count
    BY <1>2, Types DEF IInv, InFlight, Done
  <1>4. UNCHANGED consumed /\ FIFO!InTransit + 1 <= Burst
    BY <1>2, <1>3, Types DEF Produced, FIFO!InTransit
  <1> QED BY <1>1, <1>4 DEF FIFO!Put

\* The consumer's exit takes it out.
LEMMA ConsumedTakes == ASSUME IInv, Consumed PROVE FIFO!Take
  <1>1. /\ consumed' \in Seq(Words) /\ Len(consumed') = Len(consumed) + 1
        /\ \A k \in 1 .. Len(consumed) : consumed'[k] = consumed[k]
        /\ consumed'[Len(consumed) + 1] = produced[Len(consumed) + 1]
    BY ConsumedStep, Types, AppendProperties DEF Consumed
  <1>2. Len(consumed) + 1 <= Len(produced)
    BY ConsumedStep, Types
  <1>3. \A k \in 1 .. Len(consumed') : consumed'[k] = produced[k]
    <2>1. \A k \in 1 .. Len(consumed) : consumed[k] = produced[k]
      BY ConsumedStep DEF InFlight
    <2> QED BY <1>1, <2>1, Types
  <1> DEFINE s == consumed'
  <1>4. /\ s \in Seq(Words) /\ Len(s) <= Len(produced)
        /\ \A k \in 1 .. Len(s) : s[k] = produced[k]
    BY <1>1, <1>2, <1>3
  <1> HIDE DEF s
  <1>5. s = SubSeq(produced, 1, Len(s))
    BY <1>4, PrefixIsSubSeq, Types
  <1>6. consumed' = SubSeq(produced, 1, Len(consumed) + 1)
    BY <1>1, <1>5 DEF s
  <1> QED BY <1>2, <1>6, Types DEF FIFO!Take, FIFO!InTransit, Consumed

\* emu2 implements a channel for one burst, as long as the consumer is up.
THEOREM Refinement == Spec => ImplementsFifo
  <1>1. Init => FIFO!Init
    BY DEF Init, FIFO!Init
  <1>2. IInv /\ [Next]_vars
            => [FIFO!Next \/ (at[2] = "down" /\ UNCHANGED consumed)]_(FIFO!vars)
    <2> SUFFICES ASSUME IInv, [Next]_vars, ~UNCHANGED <<produced, consumed>>
                 PROVE  FIFO!Next \/ (at[2] = "down" /\ UNCHANGED consumed)
      BY DEF FIFO!vars
    <2>1. Produced \/ Consumed
      BY DEF Next, vars, NewRound, RunVm1, BurstDone, Shutdown1, RunVm2, Consuming,
             NextNumber, NumberDone, Shutdown2, RoundDone, RunFails, Stopped
    <2> QED BY <2>1, ProducedPuts, ConsumedTakes DEF FIFO!Next
  <1> QED BY <1>1, <1>2, Invariance, PTL DEF Spec, ImplementsFifo
=============================================================================
