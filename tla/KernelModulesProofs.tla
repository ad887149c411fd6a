------------------------- MODULE KernelModulesProofs -------------------------
(***************************************************************************)
(* The properties of the drivers of assignment 1, for every value of the   *)
(* constants.  Each part has an inductive invariant, IInv of its module,   *)
(* which a step of its own keeps by the lemmas of its section, and a step  *)
(* of another driver because it leaves the variables alone.                *)
(*                                                                         *)
(*   Numbers                  least elements, and counting up to a number  *)
(*   Loading and unloading    ModuleLife: what is held is what was needed  *)
(*   Address translation      IoctlDriver: values and whose they are       *)
(*   get_memstats             MemStats: sums bounded by what is left       *)
(*   get_pgfaults             PgFaults: sums of the first processors       *)
(*   The lists of children    SiblingLists: positions in the two rings     *)
(*   All of them              the types together                           *)
(***************************************************************************)
EXTENDS KernelModules, FiniteSetTheorems, SequenceTheorems, WellFoundedInduction, TLAPS

-----------------------------------------------------------------------------
(* Numbers                                                                 *)

\* A set of numbers has a least one: the intervals up to them are finite sets, and
\* one of those has none below it.
LEMMA LeastNatural ==
    ASSUME NEW T, T \subseteq Nat, T # {}
    PROVE  \E n \in T : \A m \in T : n <= m
  <1> DEFINE U == {0 .. n : n \in T}
  <1>1. \A n \in Nat : IsFiniteSet(0 .. n)
    BY FS_Interval
  <1>2. U \subseteq FiniteSubsetsOf(Nat)
    BY <1>1 DEF FiniteSubsetsOf
  <1>3. U # {}
    OBVIOUS
  <1>4. PICK u \in U : \A v \in U : <<v, u>> \notin StrictSubsetOrdering(Nat)
    <2> HIDE DEF U
    <2> QED BY <1>2, <1>3, WFMin, FS_StrictSubsetOrderingWellFounded
  <1>5. PICK n \in T : u = 0 .. n
    OBVIOUS
  <1>6. ASSUME NEW m \in T, ~ n <= m PROVE FALSE
    <2>1. 0 .. m \subseteq 0 .. n /\ n \in 0 .. n /\ n \notin 0 .. m
      BY <1>6
    <2>2. <<0 .. m, u>> \in StrictSubsetOrdering(Nat)
      BY <1>5, <2>1 DEF StrictSubsetOrdering
    <2> QED BY <1>4, <2>2
  <1> QED BY <1>6

\* Induction over the numbers up to N, for a set of them.
LEMMA UpToN ==
    ASSUME NEW N \in Nat, NEW T, 0 \in T, \A n \in 1 .. N : n - 1 \in T => n \in T
    PROVE  \A n \in 0 .. N : n \in T
  <1> DEFINE R == {n \in 0 .. N : n \notin T}
  <1> SUFFICES ASSUME R # {} PROVE FALSE
    OBVIOUS
  <1>1. R \subseteq Nat
    OBVIOUS
  <1>2. PICK n \in R : \A m \in R : n <= m
    <2> HIDE DEF R
    <2> QED BY <1>1, LeastNatural
  <1>3. n \in 0 .. N /\ n \notin T /\ n # 0
    OBVIOUS
  <1>5. n \in 1 .. N /\ n - 1 \in 0 .. N /\ ~ n <= n - 1
    BY <1>3
  <1>6. n - 1 \in R
    BY <1>3, <1>5
  <1> QED BY <1>2, <1>5, <1>6

-----------------------------------------------------------------------------
(* Loading and unloading                                                   *)

\* A function on 1 .. m as a sequence.
LEMMA FunctionIsSeq ==
    ASSUME NEW S, NEW m \in Nat, NEW f \in [1 .. m -> S]
    PROVE  /\ f \in Seq(S) /\ Len(f) = m /\ (f = <<>> <=> m = 0)
           /\ m # 0 => /\ Head(f) = f[1] /\ Tail(f) \in [1 .. m - 1 -> S]
                       /\ \A j \in 1 .. m - 1 : Tail(f)[j] = f[j + 1]
  <1>1. f \in Seq(S) /\ Len(f) = m
    OBVIOUS
  <1>2. f = <<>> <=> m = 0
    BY <1>1
  <1>3. ASSUME m # 0
        PROVE /\ Head(f) = f[1] /\ Tail(f) \in [1 .. m - 1 -> S]
              /\ \A j \in 1 .. m - 1 : Tail(f)[j] = f[j + 1]
    <2>1. f # <<>>
      BY <1>2, <1>3
    <2> DEFINE t == Tail(f)
    <2>2. /\ Head(f) = f[1] /\ t \in Seq(S) /\ Len(t) = m - 1
          /\ \A j \in 1 .. Len(t) : t[j] = f[j + 1]
      BY <1>1, <2>1, HeadTailProperties
    <2> HIDE DEF t
    <2>3. t \in [1 .. Len(t) -> S]
      BY <2>2, LenProperties
    <2> QED BY <2>2, <2>3 DEF t
  <1> QED BY <1>1, <1>2, <1>3

\* What a driver needs, from the first to the last and backwards.
LEMMA NeedsFacts ==
    ASSUME NEW m \in Life!Names
    PROVE  /\ Life!Needs[m] = [j \in 1 .. Len(Life!Needs[m]) |-> Life!Needs[m][j]]
           /\ Len(Life!Needs[m]) \in 1 .. 3
           /\ \A j, l \in 1 .. Len(Life!Needs[m]) : Life!Needs[m][j] = Life!Needs[m][l] => j = l
           /\ Life!ExitOrder[m] = Life!FirstBackwards(Life!Needs[m], Len(Life!Needs[m]))
           /\ \A n \in 0 .. Len(Life!Needs[m]) - 1 :
                 Life!OnError(Life!Needs[m][n + 1]) = Life!FirstBackwards(Life!Needs[m], n)
  <1> USE DEF Life!FirstBackwards
  <1>1. CASE m = "ioctl_driver"
    <2> DEFINE needs == <<"chrdev", "class", "device">>
    <2>1. Life!Needs[m] = needs /\ Life!ExitOrder[m] = <<"device", "class", "chrdev">>
      BY <1>1 DEF Life!Needs, Life!ExitOrder
    <2>2. /\ Len(needs) = 3 /\ needs = [j \in 1 .. 3 |-> needs[j]]
          /\ needs[1] = "chrdev" /\ needs[2] = "class" /\ needs[3] = "device"
      OBVIOUS
    <2>3. /\ Life!OnError("chrdev") = <<>> /\ Life!OnError("class") = <<"chrdev">>
          /\ Life!OnError("device") = <<"class", "chrdev">>
      BY DEF Life!OnError
    <2>4. /\ <<>> = [j \in 1 .. 0 |-> needs[0 + 1 - j]]
          /\ <<"chrdev">> = [j \in 1 .. 1 |-> needs[1 + 1 - j]]
          /\ <<"class", "chrdev">> = [j \in 1 .. 2 |-> needs[2 + 1 - j]]
          /\ <<"device", "class", "chrdev">> = [j \in 1 .. 3 |-> needs[3 + 1 - j]]
      OBVIOUS
    <2>5. ASSUME NEW n \in 0 .. 2
          PROVE  Life!OnError(needs[n + 1]) = [j \in 1 .. n |-> needs[n + 1 - j]]
      <3> HIDE DEF needs
      <3>1. CASE n = 0
        BY <3>1, <2>2, <2>3, <2>4
      <3>2. CASE n = 1
        BY <3>2, <2>2, <2>3, <2>4
      <3>3. CASE n = 2
        BY <3>3, <2>2, <2>3, <2>4
      <3> QED BY <3>1, <3>2, <3>3
    <2>6. \A j, l \in 1 .. 3 : needs[j] = needs[l] => j = l
      <3>1. \A j \in 1 .. 3 : j = 1 \/ j = 2 \/ j = 3
        OBVIOUS
      <3> HIDE DEF needs
      <3> QED BY <2>2, <3>1
    <2> HIDE DEF needs
    <2> QED BY <2>1, <2>2, <2>4, <2>5, <2>6
  <1>2. CASE m = "get_memstats"
    <2> DEFINE needs == <<"kobject", "group">>
    <2>1. Life!Needs[m] = needs /\ Life!ExitOrder[m] = <<"group", "kobject">>
      BY <1>2 DEF Life!Needs, Life!ExitOrder
    <2>2. /\ Len(needs) = 2 /\ needs = [j \in 1 .. 2 |-> needs[j]]
          /\ needs[1] = "kobject" /\ needs[2] = "group"
      OBVIOUS
    <2>3. Life!OnError("kobject") = <<>> /\ Life!OnError("group") = <<"kobject">>
      BY DEF Life!OnError
    <2>4. /\ <<>> = [j \in 1 .. 0 |-> needs[0 + 1 - j]]
          /\ <<"kobject">> = [j \in 1 .. 1 |-> needs[1 + 1 - j]]
          /\ <<"group", "kobject">> = [j \in 1 .. 2 |-> needs[2 + 1 - j]]
      OBVIOUS
    <2>5. \A n \in 0 .. 1 : n = 0 \/ n = 1
      OBVIOUS
    <2>6. \A j \in 1 .. 2 : j = 1 \/ j = 2
      OBVIOUS
    <2> HIDE DEF needs
    <2>7. ASSUME NEW n \in 0 .. 1
          PROVE  Life!OnError(needs[n + 1]) = [j \in 1 .. n |-> needs[n + 1 - j]]
      <3>1. CASE n = 0
        BY <3>1, <2>2, <2>3, <2>4
      <3>2. CASE n = 1
        BY <3>2, <2>2, <2>3, <2>4
      <3> QED BY <3>1, <3>2, <2>5
    <2> QED BY <2>1, <2>2, <2>4, <2>6, <2>7
  <1>3. CASE m \in {"get_pgfaults", "chardev"}
    <2> DEFINE needs == Life!Needs[m]
               r == IF m = "chardev" THEN "misc device" ELSE "proc entry"
    <2>1. needs = <<r>> /\ Life!ExitOrder[m] = <<r>>
      <3>1. CASE m = "get_pgfaults"
        BY <3>1 DEF Life!Needs, Life!ExitOrder
      <3>2. CASE m = "chardev"
        BY <3>2 DEF Life!Needs, Life!ExitOrder
      <3> QED BY <1>3, <3>1, <3>2
    <2> HIDE DEF needs, r
    <2>2. /\ <<>> = [j \in 1 .. 0 |-> needs[0 + 1 - j]]
          /\ needs = [j \in 1 .. 1 |-> needs[j]] /\ Len(needs) = 1 /\ needs[1] = r
          /\ <<r>> = [j \in 1 .. 1 |-> needs[1 + 1 - j]]
      BY <2>1
    <2>3. (\A n \in 0 .. 1 - 1 : n = 0) /\ (\A j \in 1 .. 1 : j = 1) /\ 1 \in 1 .. 3
      OBVIOUS
    <2>4. Life!OnError(r) = <<>>
      BY DEF Life!OnError, r
    <2>5. ASSUME NEW n \in 0 .. 1 - 1
          PROVE  Life!OnError(needs[n + 1]) = [j \in 1 .. n |-> needs[n + 1 - j]]
      <3>1. n = 0
        BY <2>3
      <3> QED BY <2>2, <2>4, <3>1
    <2> QED BY <2>1, <2>2, <2>3, <2>5 DEF needs
  <1> QED BY <1>1, <1>2, <1>3 DEF Life!Names

\* The first n needs of a module, as a set.
FirstNeeds(m, n) == {Life!Needs[m][j] : j \in 1 .. n}

\* One more need, and one less.
LEMMA FirstNeedsFacts ==
    ASSUME NEW m \in Life!Names, NEW n \in 0 .. Len(Life!Needs[m])
    PROVE  /\ n < Len(Life!Needs[m]) =>
                 /\ Life!Needs[m][n + 1] \notin FirstNeeds(m, n)
                 /\ FirstNeeds(m, n + 1) = FirstNeeds(m, n) \cup {Life!Needs[m][n + 1]}
           /\ n # 0 => FirstNeeds(m, n - 1) = FirstNeeds(m, n) \ {Life!Needs[m][n]}
           /\ FirstNeeds(m, n) = {} <=> n = 0
           /\ FirstNeeds(m, Len(Life!Needs[m])) = Life!ToSet(Life!Needs[m])
           /\ FirstNeeds(m, n) \subseteq Life!ToSet(Life!Needs[m])
  <1> DEFINE needs == Life!Needs[m]
             N == Len(needs)
  <1>1. /\ N \in 1 .. 3 /\ \A j, l \in 1 .. N : needs[j] = needs[l] => j = l
        /\ needs = [j \in 1 .. N |-> needs[j]] /\ n \in 0 .. N
    BY NeedsFacts
  <1>2. Life!ToSet(needs) = {needs[j] : j \in 1 .. N}
    BY <1>1 DEF Life!ToSet
  <1>3. \A l : FirstNeeds(m, l) = {needs[j] : j \in 1 .. l}
    BY DEF FirstNeeds
  <1> HIDE DEF needs, N
  <1>4. n < N => needs[n + 1] \notin FirstNeeds(m, n) /\ FirstNeeds(m, n + 1) = FirstNeeds(m, n) \cup {needs[n + 1]}
    BY <1>1, <1>3 DEF N
  <1>5. n # 0 => FirstNeeds(m, n - 1) = FirstNeeds(m, n) \ {needs[n]}
    BY <1>1, <1>3 DEF N
  <1>6. FirstNeeds(m, n) = {} <=> n = 0
    <2>1. n # 0 => needs[1] \in FirstNeeds(m, n)
      BY <1>1, <1>3
    <2>2. n = 0 => FirstNeeds(m, n) = {}
      BY <1>3
    <2> QED BY <2>1, <2>2
  <1> QED BY <1>1, <1>2, <1>3, <1>4, <1>5, <1>6 DEF needs, N

\* What is done and what is left are sequences of their lengths.
LEMMA LeftFacts ==
    ASSUME NEW m \in Life!Names, NEW n \in 0 .. Len(Life!Needs[m])
    PROVE  LET needs == Life!Needs[m] IN
           /\ Life!After(needs, n) = <<>> <=> n = Len(needs)
           /\ n < Len(needs) => /\ Head(Life!After(needs, n)) = needs[n + 1]
                                /\ Tail(Life!After(needs, n)) = Life!After(needs, n + 1)
           /\ Life!FirstBackwards(needs, n) = <<>> <=> n = 0
           /\ n # 0 => /\ Head(Life!FirstBackwards(needs, n)) = needs[n]
                       /\ Tail(Life!FirstBackwards(needs, n)) = Life!FirstBackwards(needs, n - 1)
           /\ Life!ToSet(Life!After(needs, n)) \subseteq Life!ToSet(needs)
           /\ Life!ToSet(Life!FirstBackwards(needs, n)) \subseteq Life!ToSet(needs)
  <1> DEFINE needs == Life!Needs[m]
             N == Len(needs)
             S == Life!ToSet(needs)
             after == Life!After(needs, n)
             back == Life!FirstBackwards(needs, n)
  <1>1. /\ N \in 1 .. 3 /\ n \in 0 .. N /\ \A j \in 1 .. N : needs[j] \in S
        /\ needs = [j \in 1 .. N |-> needs[j]]
    BY NeedsFacts DEF Life!ToSet
  <1>2. /\ after = [j \in 1 .. N - n |-> needs[n + j]]
        /\ Life!After(needs, n + 1) = [j \in 1 .. N - (n + 1) |-> needs[n + 1 + j]]
        /\ back = [j \in 1 .. n |-> needs[n + 1 - j]]
        /\ Life!FirstBackwards(needs, n - 1) = [j \in 1 .. n - 1 |-> needs[n - j]]
    BY <1>1 DEF Life!After, Life!FirstBackwards
  <1> HIDE DEF needs, N, S, after, back
  <1>3. after \in [1 .. N - n -> S] /\ back \in [1 .. n -> S] /\ N - n \in Nat /\ n \in Nat
    <2>1. /\ \A j \in 1 .. N - n : n + j \in 1 .. N
          /\ \A j \in 1 .. n : n + 1 - j \in 1 .. N
          /\ N - n \in Nat /\ n \in Nat
      BY <1>1
    <2> QED BY <1>1, <1>2, <2>1
  <1>4. Life!ToSet(after) \subseteq S /\ Life!ToSet(back) \subseteq S
    BY <1>3 DEF Life!ToSet
  <1>5. n < N => Head(after) = needs[n + 1] /\ Tail(after) = Life!After(needs, n + 1)
    <2> SUFFICES ASSUME n < N PROVE Head(after) = needs[n + 1] /\ Tail(after) = Life!After(needs, n + 1)
      OBVIOUS
    <2> DEFINE M == N - n
    <2>0. M \in Nat /\ M # 0 /\ after \in [1 .. M -> S]
      BY <1>1, <1>3
    <2> HIDE DEF M
    <2>1. /\ Head(after) = after[1] /\ Tail(after) \in [1 .. M - 1 -> S]
          /\ \A j \in 1 .. M - 1 : Tail(after)[j] = after[j + 1]
      BY <2>0, FunctionIsSeq
    <2> USE DEF M
    <2>2. after[1] = needs[n + 1] /\ \A j \in 1 .. N - n - 1 : after[j + 1] = needs[n + 1 + j]
      <3>1. 1 \in 1 .. N - n /\ \A j \in 1 .. N - n - 1 : j + 1 \in 1 .. N - n /\ n + (j + 1) = n + 1 + j
        BY <1>1
      <3> QED BY <1>2, <3>1
    <2>3. 1 .. N - (n + 1) = 1 .. N - n - 1
      BY <1>1
    <2> QED BY <1>2, <2>1, <2>2, <2>3
  <1>6. n # 0 => Head(back) = needs[n] /\ Tail(back) = Life!FirstBackwards(needs, n - 1)
    <2> SUFFICES ASSUME n # 0 PROVE Head(back) = needs[n] /\ Tail(back) = Life!FirstBackwards(needs, n - 1)
      OBVIOUS
    <2>1. /\ Head(back) = back[1] /\ Tail(back) \in [1 .. n - 1 -> S]
          /\ \A j \in 1 .. n - 1 : Tail(back)[j] = back[j + 1]
      BY <1>3, FunctionIsSeq
    <2>2. back[1] = needs[n] /\ \A j \in 1 .. n - 1 : back[j + 1] = needs[n - j]
      <3>1. /\ 1 \in 1 .. n /\ n + 1 - 1 = n
            /\ \A j \in 1 .. n - 1 : j + 1 \in 1 .. n /\ n + 1 - (j + 1) = n - j
        BY <1>1
      <3> QED BY <1>2, <3>1
    <2> QED BY <1>2, <2>1, <2>2
  <1>7. (after = <<>> <=> n = N) /\ (back = <<>> <=> n = 0)
    <2>1. (after = <<>> <=> N - n = 0) /\ (back = <<>> <=> n = 0)
      BY <1>1, <1>3, FunctionIsSeq
    <2> QED BY <1>1, <2>1
  <1> QED BY <1>4, <1>5, <1>6, <1>7 DEF needs, N, S, after, back

\* InStep, of a module m in state st with n needs, those in h, and t to do.
LifeAt(m, st, t, h, n) ==
    /\ h = FirstNeeds(m, n)
    /\ st = "out" => n = 0 /\ t = <<>>
    /\ st = "init" => t = Life!After(Life!Needs[m], n)
    /\ st = "live" => n = Len(Life!Needs[m]) /\ t = <<>>
    /\ st = "unwind" => n < Len(Life!Needs[m])
    /\ st \in {"unwind", "exit"} => t = Life!FirstBackwards(Life!Needs[m], n)

\* InStep says that the module stands at one of its needs.
LEMMA InStepIsAt ==
    ASSUME state \in {"out", "init", "unwind", "live", "exit"}, Life!InStep
    PROVE  \E n \in 0 .. Len(Life!Needs[module]) : LifeAt(module, state, todo, have, n)
  BY DEF LifeAt, FirstNeeds, Life!InStep

\* And a state in which the module stands at one of its needs is InStep.
LEMMA AtIsInStep ==
    ASSUME state' \in {"out", "init", "unwind", "live", "exit"},
           NEW n \in 0 .. Len(Life!Needs[module']), LifeAt(module', state', todo', have', n)
    PROVE  Life!InStep'
  BY DEF LifeAt, FirstNeeds, Life!InStep

\* Every step of an init or an exit moves on by one need, or turns round.
LEMMA LifeInStep ==
    ASSUME Life!IInv, Life!Next
    PROVE  /\ Life!InStep' /\ module' = module
           /\ \E n \in 0 .. Len(Life!Needs[module]) : LifeAt(module, state', todo', have', n)
  <1> DEFINE m == module
             N == Len(Life!Needs[m])
             F(n) == FirstNeeds(m, n)
             A(n) == Life!After(Life!Needs[m], n)
             B(n) == Life!FirstBackwards(Life!Needs[m], n)
  <1>1. /\ module \in Life!Names /\ state \in {"out", "init", "unwind", "live", "exit"}
        /\ \E n \in 0 .. N : LifeAt(m, state, todo, have, n)
    BY LifeAssumption, InStepIsAt DEF Life!ModulesAssumption, Life!IInv, Life!TypeOK
  <1>2. PICK n \in 0 .. N : LifeAt(m, state, todo, have, n)
    BY <1>1
  <1>3. module' = module /\ state' \in {"out", "init", "unwind", "live", "exit"}
    BY <1>1 DEF Life!Next, Life!Insmod, Life!Acquires, Life!AcquireFails, Life!InitReturns, Life!Rmmod,
                Life!Releases, Life!Freed, Life!Open, Life!Call, Life!Return, Life!Close
  <1>4. SUFFICES \E l \in 0 .. N : LifeAt(m, state', todo', have', l)
    BY <1>3, AtIsInStep
  <1>5. /\ N \in 1 .. 3 /\ Life!Needs[m] = A(0) /\ F(0) = {}
        /\ Life!ExitOrder[m] = B(N)
        /\ \A l \in 0 .. N - 1 : Life!OnError(Life!Needs[m][l + 1]) = B(l)
    <2>1. N \in 1 .. 3 /\ A(0) = [j \in 1 .. N - 0 |-> Life!Needs[m][0 + j]] /\ F(0) = {}
      <3>1. N \in 1 .. 3
        BY <1>1, NeedsFacts, Zenon
      <3>2. F(0) = {}
        <4>1. 0 \in 0 .. N
          BY <3>1
        <4> QED BY <1>1, <4>1, FirstNeedsFacts
      <3> QED BY <3>1, <3>2 DEF Life!After
    <2>2. [j \in 1 .. N - 0 |-> Life!Needs[m][0 + j]] = [j \in 1 .. N |-> Life!Needs[m][j]]
      BY <2>1
    <2> QED BY <1>1, <2>1, <2>2, NeedsFacts
  <1>6. /\ n < N => /\ Life!Needs[m][n + 1] \notin F(n)
                     /\ F(n + 1) = F(n) \cup {Life!Needs[m][n + 1]}
        /\ n # 0 => F(n - 1) = F(n) \ {Life!Needs[m][n]}
    BY <1>1, FirstNeedsFacts
  <1>7. /\ A(n) = <<>> <=> n = N
        /\ n < N => Head(A(n)) = Life!Needs[m][n + 1] /\ Tail(A(n)) = A(n + 1)
        /\ B(n) = <<>> <=> n = 0
        /\ n # 0 => Head(B(n)) = Life!Needs[m][n] /\ Tail(B(n)) = B(n - 1)
    BY <1>1, LeftFacts
  <1>8. \A st, t, h, l : LifeAt(m, st, t, h, l) <=>
          /\ h = F(l)
          /\ st = "out" => l = 0 /\ t = <<>>
          /\ st = "init" => t = A(l)
          /\ st = "live" => l = N /\ t = <<>>
          /\ st = "unwind" => l < N
          /\ st \in {"unwind", "exit"} => t = B(l)
    BY DEF LifeAt
  <1> HIDE DEF m, N, F, A, B
  <1>9. CASE Life!Insmod
    <2>1. LifeAt(m, state', todo', have', 0)
      BY <1>2, <1>5, <1>8, <1>9 DEF Life!Insmod, m
    <2> QED BY <1>5, <2>1
  <1>10. CASE Life!Acquires
    <2>1. todo = A(n) /\ n < N /\ have = F(n)
      BY <1>2, <1>5, <1>7, <1>8, <1>10 DEF Life!Acquires
    <2>2. todo' = A(n + 1) /\ have' = F(n + 1) /\ state' = "init"
      BY <2>1, <1>6, <1>7, <1>10 DEF Life!Acquires
    <2>3. n < N /\ LifeAt(m, state', todo', have', n + 1)
      BY <2>1, <2>2, <1>8
    <2> QED BY <1>5, <2>3
  <1>11. CASE Life!AcquireFails
    <2>1. LifeAt(m, state', todo', have', n)
      BY <1>2, <1>5, <1>7, <1>8, <1>11 DEF Life!AcquireFails
    <2> QED BY <2>1
  <1>12. CASE Life!InitReturns
    BY <1>2, <1>5, <1>7, <1>8, <1>12 DEF Life!InitReturns
  <1>13. CASE Life!Rmmod
    BY <1>2, <1>5, <1>8, <1>13 DEF Life!Rmmod, m
  <1>14. CASE Life!Releases
    <2>1. todo = B(n) /\ n # 0 /\ have = F(n) /\ (state = "unwind" => n < N)
      BY <1>2, <1>5, <1>7, <1>8, <1>14 DEF Life!Releases
    <2>2. todo' = B(n - 1) /\ have' = F(n - 1) /\ state' = state /\ state \in {"unwind", "exit"}
      BY <2>1, <1>6, <1>7, <1>14 DEF Life!Releases
    <2>3. n # 0 /\ LifeAt(m, state', todo', have', n - 1)
      BY <2>1, <2>2, <1>5, <1>8
    <2> QED BY <1>5, <2>3
  <1>15. CASE Life!Freed
    <2>1. n = 0 /\ todo' = <<>>
      BY <1>2, <1>7, <1>8, <1>15 DEF Life!Freed
    <2> QED BY <1>2, <1>8, <1>15, <2>1 DEF Life!Freed
  <1>16. ASSUME NEW u, Life!Open(u) \/ Life!Call(u) \/ Life!Return(u) \/ Life!Close(u)
         PROVE  UNCHANGED <<state, todo, have>>
    BY <1>16 DEF Life!Open, Life!Call, Life!Return, Life!Close
  <1> QED BY <1>2, <1>9, <1>10, <1>11, <1>12, <1>13, <1>14, <1>15, <1>16 DEF Life!Next

\* What users do, and what is done to them.
LEMMA LifeUsers ==
    ASSUME Life!IInv, Life!Next
    PROVE  Life!UsersKnown' /\ inside' \subseteq file' /\ file' \subseteq Users /\ stale' \subseteq file'
  <1>1. /\ module \in Life!Names /\ state \in {"out", "init", "unwind", "live", "exit"}
        /\ \E n \in 0 .. Len(Life!Needs[module]) : LifeAt(module, state, todo, have, n)
    BY LifeAssumption, InStepIsAt DEF Life!ModulesAssumption, Life!IInv, Life!TypeOK
  <1>2. PICK n \in 0 .. Len(Life!Needs[module]) : LifeAt(module, state, todo, have, n)
    BY <1>1
  <1>3. /\ state = "out" => have = {}
        /\ state = "init" /\ todo # <<>> /\ module = "chardev" => have = {}
        /\ state = "unwind" /\ module = "chardev" => have = {}
        /\ have = {} => todo = <<>> \/ state \in {"init", "live"}
        /\ todo = <<>> /\ state \in {"unwind", "exit"} => have = {}
    <2>1. Len(Life!Needs[module]) \in 1 .. 3
      BY <1>1, NeedsFacts, Zenon
    <2>2. module = "chardev" => Len(Life!Needs[module]) = 1
      <3>1. Len(<<"misc device">>) = 1
        OBVIOUS
      <3>2. Life!Needs["chardev"] = <<"misc device">>
        BY DEF Life!Needs
      <3> QED BY <3>1, <3>2, Zenon
    <2>3. /\ FirstNeeds(module, n) = {} <=> n = 0
          /\ Life!After(Life!Needs[module], n) = <<>> <=> n = Len(Life!Needs[module])
          /\ Life!FirstBackwards(Life!Needs[module], n) = <<>> <=> n = 0
      BY <1>1, FirstNeedsFacts, LeftFacts
    <2>4. /\ have = {} <=> n = 0
          /\ state = "out" => n = 0 /\ todo = <<>>
          /\ state = "init" => (todo = <<>> <=> n = Len(Life!Needs[module]))
          /\ state = "unwind" => n < Len(Life!Needs[module])
          /\ state \in {"unwind", "exit"} => (todo = <<>> <=> n = 0)
      BY <1>2, <2>3 DEF LifeAt
    <2> QED BY <1>1, <1>2, <2>1, <2>2, <2>4
  <1>4. /\ inside \subseteq file /\ file \subseteq Users /\ stale \subseteq file /\ Life!UsersKnown
    BY DEF Life!IInv, Life!TypeOK
  <1> USE <1>1, <1>3, <1>4 DEF Life!UsersKnown, Life!Reachable, Life!Pinned, Life!Drained
  <1>5. CASE Life!Insmod \/ Life!InitReturns
    BY <1>5 DEF Life!Insmod, Life!InitReturns
  <1>6. CASE Life!Acquires
    BY <1>6 DEF Life!Acquires
  <1>7. CASE Life!AcquireFails
    BY <1>7 DEF Life!AcquireFails
  <1>8. CASE Life!Rmmod
    BY <1>8 DEF Life!Rmmod
  <1>9. CASE Life!Releases
    BY <1>9 DEF Life!Releases
  <1>10. CASE Life!Freed
    BY <1>10 DEF Life!Freed
  <1>11. ASSUME NEW u \in Users, Life!Open(u) \/ Life!Call(u) \/ Life!Return(u) \/ Life!Close(u)
         PROVE  Life!UsersKnown' /\ inside' \subseteq file' /\ file' \subseteq Users /\ stale' \subseteq file'
    BY <1>11 DEF Life!Open, Life!Call, Life!Return, Life!Close
  <1> QED BY <1>5, <1>6, <1>7, <1>8, <1>9, <1>10, <1>11 DEF Life!Next

\* A module that is in step has its types, and what it has is a beginning of
\* what it needs.
LEMMA LifeAtTypes ==
    ASSUME NEW m \in Life!Names, NEW n \in 0 .. Len(Life!Needs[m]), NEW h, NEW t,
           NEW st \in {"out", "init", "unwind", "live", "exit"}, LifeAt(m, st, t, h, n)
    PROVE  /\ Life!ToSet(t) \subseteq Life!ToSet(Life!Needs[m])
           /\ h \subseteq Life!ToSet(Life!Needs[m])
           /\ st = "live" => h = Life!ToSet(Life!Needs[m])
           /\ st = "out" => h = {}
           /\ \A j \in 1 .. Len(Life!Needs[m]) : Life!Needs[m][j] \in h =>
                 \A l \in 1 .. j : Life!Needs[m][l] \in h
  <1> DEFINE needs == Life!Needs[m]
  <1>2. /\ FirstNeeds(m, n) = {} <=> n = 0
        /\ FirstNeeds(m, Len(needs)) = Life!ToSet(needs)
        /\ FirstNeeds(m, n) \subseteq Life!ToSet(needs)
    BY FirstNeedsFacts
  <1>3. /\ Life!ToSet(Life!After(needs, n)) \subseteq Life!ToSet(needs)
        /\ Life!ToSet(Life!FirstBackwards(needs, n)) \subseteq Life!ToSet(needs)
    BY LeftFacts
  <1>4. Life!ToSet(<<>>) = {}
    BY DEF Life!ToSet
  <1>5. \A j \in 1 .. Len(needs) : needs[j] \in h => \A l \in 1 .. j : needs[l] \in h
    <2>1. h = {needs[j] : j \in 1 .. n}
      BY DEF LifeAt, FirstNeeds
    <2>2. \A j, l \in 1 .. Len(needs) : needs[j] = needs[l] => j = l
      BY NeedsFacts, Zenon
    <2> HIDE DEF needs
    <2>3. ASSUME NEW j \in 1 .. Len(needs), needs[j] \in h, NEW l \in 1 .. j
          PROVE  needs[l] \in h
      <3>1. j \in 1 .. n
        BY <2>1, <2>2, <2>3
      <3>2. l \in 1 .. n
        BY <3>1
      <3> QED BY <2>1, <3>2
    <2> QED BY <2>3
  <1> HIDE DEF needs
  <1> QED BY <1>2, <1>3, <1>4, <1>5 DEF LifeAt, needs

\* The invariant of loading and unloading.
LEMMA LifeInit == Life!Init => Life!IInv
  <1> SUFFICES ASSUME Life!Init PROVE Life!IInv
    OBVIOUS
  <1>1. module \in Life!Names /\ state = "out" /\ todo = <<>> /\ have = {}
    BY LifeAssumption DEF Life!Init, Life!ModulesAssumption
  <1>2. Life!InStep
    <2>1. Len(Life!Needs[module]) \in 1 .. 3
      BY <1>1, NeedsFacts, Zenon
    <2>2. 0 \in 0 .. Len(Life!Needs[module]) /\ {Life!Needs[module][j] : j \in 1 .. 0} = {}
      BY <2>1
    <2> QED BY <1>1, <2>2 DEF Life!InStep
  <1>3. Life!TypeOK
    BY <1>1, <1>2, InStepIsAt, LifeAtTypes DEF Life!Init, Life!TypeOK
  <1>4. Life!UsersKnown
    BY DEF Life!Init, Life!UsersKnown
  <1> QED BY <1>2, <1>3, <1>4 DEF Life!IInv

\* The invariant of loading and unloading survives each step, of a module, of its
\* users or of another driver.
LEMMA LifeStepIInv == ASSUME Life!IInv, [Life!Next]_lifeVars PROVE Life!IInv'
  <1>1. CASE UNCHANGED lifeVars
    <2>1. Life!InStep'
      BY <1>1, InStepIsAt, AtIsInStep DEF lifeVars, Life!IInv, Life!TypeOK
    <2>2. Life!TypeOK' /\ Life!UsersKnown'
      BY <1>1 DEF lifeVars, Life!IInv, Life!TypeOK, Life!UsersKnown, Life!Reachable
    <2> QED BY <2>1, <2>2 DEF Life!IInv
  <1>2. CASE Life!Next
    <2>1. /\ Life!InStep' /\ Life!UsersKnown' /\ module' = module
          /\ inside' \subseteq file' /\ file' \subseteq Users /\ stale' \subseteq file'
          /\ \E n \in 0 .. Len(Life!Needs[module]) : LifeAt(module, state', todo', have', n)
      BY <1>2, LifeInStep, LifeUsers
    <2>2. /\ module \in Modules /\ module \in Life!Names
          /\ state' \in {"out", "init", "unwind", "live", "exit"}
      BY <1>2, LifeAssumption
      DEF Life!ModulesAssumption, Life!IInv, Life!TypeOK, Life!Next, Life!Insmod, Life!Acquires,
          Life!AcquireFails, Life!InitReturns, Life!Rmmod, Life!Releases, Life!Freed, Life!Open,
          Life!Call, Life!Return, Life!Close
    <2>3. /\ Life!ToSet(todo') \subseteq Life!ToSet(Life!Needs[module])
          /\ have' \subseteq Life!ToSet(Life!Needs[module])
          /\ state' = "live" => have' = Life!ToSet(Life!Needs[module])
      BY <2>1, <2>2, LifeAtTypes
    <2> QED BY <2>1, <2>2, <2>3 DEF Life!IInv, Life!TypeOK
  <1> QED BY <1>1, <1>2

\* For every set of modules and users: between any two steps of init and exit
\* (ioctl_driver.c:70-113 and the others) a module holds exactly the first of its
\* needs, and it acquires and releases them in order.
THEOREM LifeInvariance == Spec => []Life!IInv
  <1>1. Init => Life!IInv
    BY LifeInit DEF Init
  <1>2. Life!IInv /\ [Next]_vars => Life!IInv'
    <2>1. [Next]_vars => [Life!Next]_lifeVars
      BY DEF Next, vars, ListsStep, IoctlStep, StatsStep, FaultsStep, LifeStep
    <2> QED BY <2>1, LifeStepIInv
  <1> QED BY <1>1, <1>2, PTL DEF Spec

\* No way of loading, failing to load and unloading a driver, with users that
\* come and go, leaves anything behind.
THEOREM DriversComeAndGo == Spec => []LifeSound
  <1>1. Life!IInv => LifeSound
    <2> SUFFICES ASSUME Life!IInv PROVE LifeSound
      OBVIOUS
    <2>1. /\ state = "out" => have = {}
          /\ Life!DependenciesKept
      BY LifeAssumption, InStepIsAt, LifeAtTypes
      DEF Life!ModulesAssumption, Life!IInv, Life!TypeOK, Life!DependenciesKept
    <2>2. Life!NobodyInFreedModule
      <3>1. module \in Life!Names
        BY LifeAssumption DEF Life!ModulesAssumption, Life!IInv, Life!TypeOK
      <3> QED BY <2>1, <3>1 DEF Life!NobodyInFreedModule, Life!IInv, Life!TypeOK, Life!UsersKnown,
                                Life!Reachable, Life!Drained, Life!Pinned, Life!Names
    <2> QED BY <2>1, <2>2 DEF LifeSound, Life!NothingLeaked
  <1> QED BY <1>1, LifeInvariance, PTL

-----------------------------------------------------------------------------
(* Address translation                                                     *)

\* Remainders by a width M of what is below 2 * M.
LEMMA ModSmall ==
    ASSUME NEW M \in Nat \ {0}, NEW a \in 0 .. M - 1
    PROVE  a % M = a /\ (a + M) % M = a
  OBVIOUS

\* The first bytes of an address make an address.
LEMMA CutDown ==
    ASSUME NEW M \in Nat \ {0}, NEW a \in 0 .. M - 1, NEW n \in Nat \ {0}
    PROVE  a % n \in 0 .. M - 1
  <1>1. a \in Nat /\ a = n * (a \div n) + (a % n) /\ a % n \in Nat /\ a \div n \in Nat
    OBVIOUS
  <1>2. n * (a \div n) \in Nat
    BY <1>1
  <1>3. a % n <= a
    BY <1>1, <1>2
  <1> QED BY <1>1, <1>3

\* phys_to_virt leads back from where virt_to_phys has led.
LEMMA ThereAndBack ==
    ASSUME NEW v \in Ioctl!Addresses
    PROVE  /\ Ioctl!VirtToPhys(v) \in Ioctl!Addresses
           /\ Ioctl!PhysToVirt(Ioctl!VirtToPhys(v)) = v
  <1>1. W \in Nat \ {0} /\ PageOffset \in 0 .. W - 1 /\ v \in 0 .. W - 1
    BY IoctlAssumption DEF Ioctl!AddressAssumption, Ioctl!Addresses
  <1>2. CASE v < PageOffset
    <2>1. v + (W - PageOffset) \in 0 .. W - 1 /\ (v + (W - PageOffset)) + PageOffset = v + W
      BY <1>1, <1>2
    <2>2. Ioctl!VirtToPhys(v) = v + (W - PageOffset)
      BY <1>1, <2>1, ModSmall DEF Ioctl!VirtToPhys
    <2> QED BY <1>1, <2>1, <2>2, ModSmall DEF Ioctl!PhysToVirt, Ioctl!Addresses
  <1>3. CASE ~ v < PageOffset
    <2>1. /\ v - PageOffset \in 0 .. W - 1
          /\ v + (W - PageOffset) = (v - PageOffset) + W /\ (v - PageOffset) + PageOffset = v
      BY <1>1, <1>3
    <2>2. Ioctl!VirtToPhys(v) = v - PageOffset
      BY <1>1, <2>1, ModSmall DEF Ioctl!VirtToPhys
    <2> QED BY <1>1, <2>1, <2>2, ModSmall DEF Ioctl!PhysToVirt, Ioctl!Addresses
  <1> QED BY <1>2, <1>3

\* The start.
LEMMA IoctlInit == Ioctl!Init => Ioctl!IInv
  <1> SUFFICES ASSUME Ioctl!Init PROVE Ioctl!IInv
    OBVIOUS
  <1> USE IoctlAssumption DEF Ioctl!AddressAssumption, Ioctl!Init, Ioctl!Procs, Ioctl!Index
  <1>1. Ioctl!TypeOK
    BY DEF Ioctl!TypeOK, Ioctl!Addresses
  <1>2. Ioctl!VariablesKnown /\ Ioctl!AloneInDriver
    BY DEF Ioctl!VariablesKnown, Ioctl!AloneInDriver, Ioctl!InHandler
  <1>3. \A p \in Testers, j \in Ioctl!Index : ~Ioctl!Answered(p, j)
    BY DEF Ioctl!Answered
  <1>4. Ioctl!AnswersAreTranslations /\ Ioctl!LoneTesterUpdates
    BY <1>3 DEF Ioctl!AnswersAreTranslations, Ioctl!LoneTesterUpdates
  <1> QED BY <1>1, <1>2, <1>4 DEF Ioctl!IInv

\* A call begins: it overlaps the calls under way.
LEMMA IoctlCopies ==
    ASSUME Ioctl!IInv, NEW p \in Ioctl!Procs, NEW v \in Ioctl!Addresses,
           call[p] = "ask", Ioctl!Copies(p, v),
           \/ asked' = asked \cup {v} /\ left' = left
           \/ asked' = asked /\ left' = left \cup {v},
           \/ call' = call
           \/ /\ call' = [call EXCEPT ![p] = "copied"]
              /\ p \in Testers => v = pa[p][i[p]]
    PROVE  Ioctl!IInv'
  <1> USE DEF Ioctl!Procs, Ioctl!Copies, Ioctl!Overlaps
  <1>1. /\ call \in [Ioctl!Procs -> {"ask", "copied", "translated", "write", "done", "killed"}]
        /\ i \in [Testers -> Ioctl!Index] /\ calls_alone \subseteq Testers
    BY DEF Ioctl!IInv, Ioctl!TypeOK
  <1>2. Ioctl!TypeOK'
    BY DEF Ioctl!IInv, Ioctl!TypeOK
  <1>3. /\ calls_alone' \subseteq calls_alone
        /\ \A q \in calls_alone' : q # p => ~Ioctl!InHandler(q)
        /\ p \in calls_alone' => \A q \in Ioctl!Procs \ {p} : ~Ioctl!InHandler(q)
    BY <1>1
  <1>4. \A q \in Ioctl!Procs : q # p => call'[q] = call[q]
    BY <1>1
  <1>5. \A q \in Testers, j \in Ioctl!Index : Ioctl!Answered(q, j)' <=> Ioctl!Answered(q, j)
    BY <1>1, <1>4 DEF Ioctl!Answered
  <1>6. Ioctl!VariablesKnown'
    BY <1>1, <1>4, <1>5 DEF Ioctl!IInv, Ioctl!VariablesKnown
  <1>7. Ioctl!AloneInDriver'
    BY <1>1, <1>3, <1>4 DEF Ioctl!IInv, Ioctl!VariablesKnown, Ioctl!AloneInDriver, Ioctl!InHandler,
                            Ioctl!Answered, Ioctl!Index
  <1>8. Ioctl!AnswersAreTranslations' /\ Ioctl!LoneTesterUpdates'
    BY <1>1, <1>3, <1>4, <1>5
    DEF Ioctl!IInv, Ioctl!AnswersAreTranslations, Ioctl!LoneTesterUpdates
  <1> QED BY <1>2, <1>6, <1>7, <1>8 DEF Ioctl!IInv

\* The translation.
LEMMA IoctlTranslates ==
    ASSUME Ioctl!IInv, NEW p \in Ioctl!Procs, Ioctl!Translates(p)
    PROVE  Ioctl!IInv'
  <1> USE DEF Ioctl!Procs, Ioctl!Translates, Ioctl!At
  <1>1. /\ call \in [Ioctl!Procs -> {"ask", "copied", "translated", "write", "done", "killed"}]
        /\ vaddress \in Ioctl!Addresses /\ calls_alone \subseteq Testers
    BY DEF Ioctl!IInv, Ioctl!TypeOK
  <1>2. Ioctl!TypeOK'
    BY <1>1, ThereAndBack DEF Ioctl!IInv, Ioctl!TypeOK
  <1>3. call'[p] = "translated" /\ \A q \in Ioctl!Procs : q # p => call'[q] = call[q]
    BY <1>1
  <1>4. \A q \in Testers, j \in Ioctl!Index : Ioctl!Answered(q, j)' <=> Ioctl!Answered(q, j)
    BY <1>1, <1>3 DEF Ioctl!Answered
  <1>5. Ioctl!VariablesKnown'
    BY <1>1, <1>3, <1>4 DEF Ioctl!IInv, Ioctl!VariablesKnown
  <1>6. Ioctl!AloneInDriver'
    BY <1>1, <1>3 DEF Ioctl!IInv, Ioctl!AloneInDriver, Ioctl!InHandler
  <1>7. Ioctl!AnswersAreTranslations' /\ Ioctl!LoneTesterUpdates'
    BY <1>1, <1>3, <1>4 DEF Ioctl!IInv, Ioctl!AnswersAreTranslations, Ioctl!LoneTesterUpdates
  <1> QED BY <1>2, <1>5, <1>6, <1>7 DEF Ioctl!IInv

\* Whether answers are there or not, they are for the first element, then for both.
LEMMA IoctlAnswered ==
    ASSUME Ioctl!TypeOK, NEW q \in Testers
    PROVE  /\ call[q] \in {"ask", "copied", "translated"} =>
                 (Ioctl!Answered(q, 1) <=> i[q] = 2) /\ ~Ioctl!Answered(q, 2)
           /\ call[q] \in {"write", "done", "killed"} =>
                 Ioctl!Answered(q, 1) /\ Ioctl!Answered(q, 2)
           /\ i[q] = 1 \/ i[q] = 2
  BY DEF Ioctl!TypeOK, Ioctl!Answered, Ioctl!Index

\* A tester is told.
LEMMA IoctlTold ==
    ASSUME Ioctl!IInv, NEW p \in Testers, Ioctl!TesterIsTold(p)
    PROVE  Ioctl!IInv'
  <1> USE DEF Ioctl!Procs, Ioctl!TesterIsTold, Ioctl!Loops, Ioctl!Index
  <1>1. /\ call \in [Ioctl!Procs -> {"ask", "copied", "translated", "write", "done", "killed"}]
        /\ i \in [Testers -> Ioctl!Index] /\ pa \in [Testers -> [Ioctl!Index -> Ioctl!Addresses]]
        /\ paddress \in Ioctl!Addresses /\ calls_alone \subseteq Testers /\ Ioctl!TypeOK
    BY DEF Ioctl!IInv, Ioctl!TypeOK
  <1>2. /\ call[p] = "translated" /\ i[p] \in {1, 2}
        /\ i[p] = 1 => call'[p] = "ask" /\ i'[p] = 2
        /\ i[p] = 2 => call'[p] = "write" /\ i'[p] = 1
        /\ pa'[p][i[p]] = paddress
        /\ \A j \in Ioctl!Index : j # i[p] => pa'[p][j] = pa[p][j]
        /\ \A q \in Ioctl!Procs : q # p => call'[q] = call[q]
        /\ \A q \in Testers : q # p => i'[q] = i[q] /\ pa'[q] = pa[q]
        /\ pa' \in [Testers -> [Ioctl!Index -> Ioctl!Addresses]]
    BY <1>1
  <1>3. Ioctl!TypeOK'
    <2>1. call' \in [Ioctl!Procs -> {"ask", "copied", "translated", "write", "done", "killed"}]
      BY <1>1
    <2>2. i' \in [Testers -> Ioctl!Index]
      <3>1. i' = [i EXCEPT ![p] = 1] \/ i' = [i EXCEPT ![p] = 2]
        OBVIOUS
      <3> QED BY <1>1, <3>1
    <2> QED BY <1>1, <1>2, <2>1, <2>2 DEF Ioctl!TypeOK
  <1>4. /\ \A q \in Testers, j \in Ioctl!Index :
              q # p => (Ioctl!Answered(q, j)' <=> Ioctl!Answered(q, j))
        /\ \A j \in Ioctl!Index : Ioctl!Answered(p, j)' <=> Ioctl!Answered(p, j) \/ j = i[p]
    BY <1>1, <1>2 DEF Ioctl!Answered
  <1>5. Ioctl!VariablesKnown'
    BY <1>1, <1>2, <1>4 DEF Ioctl!IInv, Ioctl!VariablesKnown
  <1>6. Ioctl!AloneInDriver'
    <2>1. \A j \in 1 .. 1 - 1 : FALSE
      OBVIOUS
    <2> QED BY <1>1, <1>2, <2>1 DEF Ioctl!IInv, Ioctl!AloneInDriver, Ioctl!InHandler
  <1>7. Ioctl!AnswersAreTranslations'
    BY <1>1, <1>2, <1>4 DEF Ioctl!IInv, Ioctl!AnswersAreTranslations, Ioctl!VariablesKnown
  <1>8. Ioctl!LoneTesterUpdates'
    BY <1>1, <1>2, <1>4 DEF Ioctl!IInv, Ioctl!LoneTesterUpdates, Ioctl!AloneInDriver
  <1> QED BY <1>3, <1>5, <1>6, <1>7, <1>8 DEF Ioctl!IInv

\* Another process is told, or a tester is killed where it has written elsewhere:
\* not one that was alone.
LEMMA IoctlLeaves ==
    ASSUME Ioctl!IInv, NEW p \in Ioctl!Procs,
           \/ p \in Others /\ Ioctl!OtherIsTold(p)
           \/ p \in Testers /\ Ioctl!WritesElsewhere(p)
    PROVE  Ioctl!IInv'
  <1> USE DEF Ioctl!Procs, Ioctl!OtherIsTold, Ioctl!WritesElsewhere, Ioctl!At
  <1>1. /\ call \in [Ioctl!Procs -> {"ask", "copied", "translated", "write", "done", "killed"}]
        /\ calls_alone \subseteq Testers /\ Ioctl!TypeOK
    BY DEF Ioctl!IInv, Ioctl!TypeOK
  <1>2. /\ UNCHANGED <<vaddress, paddress, i, pa, val, calls_alone, asked, left>>
        /\ call'[p] \in {"ask", "killed"} /\ call'[p] = "killed" => p \in Testers /\ call[p] = "write"
        /\ \A q \in Ioctl!Procs : q # p => call'[q] = call[q]
        /\ p \in Testers => call'[p] = "killed"
    BY <1>1, IoctlAssumption DEF Ioctl!ProcsAssumption
  <1>3. Ioctl!TypeOK'
    BY <1>1, <1>2 DEF Ioctl!TypeOK
  <1>4. \A q \in Testers, j \in Ioctl!Index : Ioctl!Answered(q, j)' <=> Ioctl!Answered(q, j)
    BY <1>1, <1>2 DEF Ioctl!Answered
  <1>5. p \notin calls_alone
    <2> SUFFICES ASSUME p \in calls_alone PROVE FALSE
      OBVIOUS
    <2>1. p \in Testers /\ Ioctl!WritesElsewhere(p) /\ call[p] = "write" /\ i[p] \in Ioctl!Index
      BY <1>1, IoctlAssumption DEF Ioctl!ProcsAssumption, Ioctl!TypeOK
    <2>2. pa[p][i[p]] = Ioctl!VirtToPhys(Va(p, i[p]))
      BY <2>1 DEF Ioctl!IInv, Ioctl!LoneTesterUpdates, Ioctl!Answered
    <2>3. Ioctl!PhysToVirt(pa[p][i[p]]) = Va(p, i[p])
      BY <2>1, <2>2, ThereAndBack, IoctlAssumption DEF Ioctl!AddressAssumption
    <2> QED BY <2>1, <2>3
  <1>6. Ioctl!VariablesKnown'
    BY <1>1, <1>2, <1>4 DEF Ioctl!IInv, Ioctl!VariablesKnown
  <1>7. Ioctl!AloneInDriver'
    BY <1>1, <1>2, <1>5 DEF Ioctl!IInv, Ioctl!AloneInDriver, Ioctl!InHandler
  <1>8. Ioctl!AnswersAreTranslations' /\ Ioctl!LoneTesterUpdates'
    BY <1>1, <1>2, <1>4, <1>5
    DEF Ioctl!IInv, Ioctl!AnswersAreTranslations, Ioctl!LoneTesterUpdates
  <1> QED BY <1>3, <1>6, <1>7, <1>8 DEF Ioctl!IInv

\* A tester that writes to what it was told, where it is its own.
LEMMA IoctlWrites ==
    ASSUME Ioctl!IInv, NEW p \in Testers, NEW j \in Ioctl!Index, Ioctl!Writes(p, j)
    PROVE  Ioctl!IInv'
  <1> USE DEF Ioctl!Procs, Ioctl!Writes, Ioctl!Loops, Ioctl!Index
  <1>1. /\ call \in [Ioctl!Procs -> {"ask", "copied", "translated", "write", "done", "killed"}]
        /\ i \in [Testers -> Ioctl!Index] /\ calls_alone \subseteq Testers
        /\ val \in [Testers -> [Ioctl!Index -> {104, 105, 53, 54}]]
        /\ Ioctl!TypeOK
    BY DEF Ioctl!IInv, Ioctl!TypeOK
  <1>2. /\ call[p] = "write" /\ i[p] \in {1, 2}
        /\ UNCHANGED <<vaddress, paddress, pa, calls_alone, asked, left>>
        /\ i[p] = 1 => call'[p] = "write" /\ i'[p] = 2
        /\ i[p] = 2 => call'[p] = "done" /\ i'[p] = 1
        /\ val'[p][j] = 53 + i[p] - 1
        /\ \A n \in Ioctl!Index : n # j => val'[p][n] = val[p][n]
        /\ \A q \in Ioctl!Procs : q # p => call'[q] = call[q]
        /\ \A q \in Testers : q # p => i'[q] = i[q] /\ val'[q] = val[q]
    BY <1>1
  <1>3. Ioctl!TypeOK'
    <2>1. call' \in [Ioctl!Procs -> {"ask", "copied", "translated", "write", "done", "killed"}]
      BY <1>1
    <2>2. i' \in [Testers -> Ioctl!Index]
      <3>1. i' = [i EXCEPT ![p] = 1] \/ i' = [i EXCEPT ![p] = 2]
        OBVIOUS
      <3> QED BY <1>1, <3>1
    <2>3. val' \in [Testers -> [Ioctl!Index -> {104, 105, 53, 54}]]
      <3>1. 53 + i[p] - 1 \in {53, 54}
        BY <1>2
      <3> QED BY <1>1, <3>1
    <2> QED BY <1>1, <1>2, <2>1, <2>2, <2>3 DEF Ioctl!TypeOK
  <1>4. \A q \in Testers, n \in Ioctl!Index : Ioctl!Answered(q, n)' <=> Ioctl!Answered(q, n)
    BY <1>1, <1>2 DEF Ioctl!Answered
  <1>5. Ioctl!VariablesKnown'
    BY <1>1, <1>2, <1>4 DEF Ioctl!IInv, Ioctl!VariablesKnown
  \* An element's address is its own.
  <1>6. p \in calls_alone => j = i[p]
    <2> SUFFICES ASSUME p \in calls_alone PROVE j = i[p]
      OBVIOUS
    <2>1. pa[p][i[p]] = Ioctl!VirtToPhys(Va(p, i[p]))
      BY <1>1, <1>2 DEF Ioctl!IInv, Ioctl!LoneTesterUpdates, Ioctl!Answered
    <2>2. Ioctl!PhysToVirt(pa[p][i[p]]) = Va(p, i[p])
      BY <1>1, <1>2, <2>1, ThereAndBack, IoctlAssumption DEF Ioctl!AddressAssumption
    <2>3. Va(p, j) = Va(p, i[p])
      BY <2>2
    <2> QED BY <1>2, <2>3, IoctlAssumption DEF Ioctl!AddressAssumption
  <1>7. Ioctl!AloneInDriver'
    <2>1. \A n \in 1 .. 1 - 1 : FALSE
      OBVIOUS
    <2>2. \A n \in 1 .. 2 - 1 : n = 1
      OBVIOUS
    <2> QED BY <1>1, <1>2, <1>6, <2>1, <2>2, SMTT(20)
            DEF Ioctl!IInv, Ioctl!AloneInDriver, Ioctl!InHandler
  <1>8. Ioctl!AnswersAreTranslations'
    BY <1>1, <1>2, <1>4 DEF Ioctl!IInv, Ioctl!AnswersAreTranslations
  <1>9. Ioctl!LoneTesterUpdates'
    <2>1. i[p] = 2 /\ p \in calls_alone => val[p][1] = 53
      BY <1>2 DEF Ioctl!IInv, Ioctl!AloneInDriver
    <2> QED BY <1>1, <1>2, <1>4, <1>6, <2>1 DEF Ioctl!IInv, Ioctl!LoneTesterUpdates
  <1> QED BY <1>3, <1>5, <1>7, <1>8, <1>9 DEF Ioctl!IInv

\* No step of the driver and its callers breaks the invariant.
LEMMA IoctlStepIInv == ASSUME Ioctl!IInv, [Ioctl!Next]_ioctlVars PROVE Ioctl!IInv'
  <1>1. CASE UNCHANGED ioctlVars \/ Ioctl!Over
    <2>1. UNCHANGED <<vaddress, paddress, call, i, pa, val, calls_alone, asked, left>>
      BY <1>1 DEF ioctlVars, Ioctl!Over, Ioctl!vars
    <2> QED BY <2>1 DEF Ioctl!IInv, Ioctl!TypeOK, Ioctl!VariablesKnown, Ioctl!AloneInDriver,
                        Ioctl!AnswersAreTranslations, Ioctl!LoneTesterUpdates, Ioctl!Answered,
                        Ioctl!InHandler
  <1>2. ASSUME NEW p \in Testers, Ioctl!Tester(p) PROVE Ioctl!IInv'
    <2>1. p \in Ioctl!Procs
      BY DEF Ioctl!Procs
    <2>2. CASE Ioctl!TesterAsks(p)
      <3>1. pa[p][i[p]] \in Ioctl!Addresses
        BY DEF Ioctl!IInv, Ioctl!TypeOK
      <3> QED BY <2>1, <2>2, <3>1, IoctlCopies DEF Ioctl!TesterAsks, Ioctl!CopyFromUser, Ioctl!At
    <2>3. CASE Ioctl!Translates(p)
      BY <2>1, <2>3, IoctlTranslates
    <2>4. CASE Ioctl!TesterIsTold(p)
      BY <2>4, IoctlTold
    <2>5. CASE Ioctl!WritesElsewhere(p)
      BY <2>1, <2>5, IoctlLeaves
    <2>6. CASE \E j \in Ioctl!Index : Ioctl!Writes(p, j)
      BY <2>6, IoctlWrites
    <2> QED BY <1>2, <2>2, <2>3, <2>4, <2>5, <2>6 DEF Ioctl!Tester
  <1>3. ASSUME NEW p \in Others, Ioctl!Other(p) PROVE Ioctl!IInv'
    <2>1. p \in Ioctl!Procs /\ p \notin Testers
      BY IoctlAssumption DEF Ioctl!Procs, Ioctl!ProcsAssumption
    <2>2. CASE Ioctl!OtherAsks(p)
      <3>1. OtherVas \subseteq Ioctl!Addresses
        BY IoctlAssumption DEF Ioctl!AddressAssumption
      <3> QED BY <2>1, <2>2, <3>1, IoctlCopies DEF Ioctl!OtherAsks, Ioctl!CopyFromUser, Ioctl!At
    <2>3. CASE Ioctl!AsksWithBadPointer(p)
      <3>1. PICK v \in OtherVas, size \in Cuts :
               /\ Ioctl!At(p, "ask", "ask") /\ Ioctl!Copies(p, v % size)
               /\ left' = left \cup {v % size} /\ UNCHANGED asked
        BY <2>3 DEF Ioctl!AsksWithBadPointer
      <3>2. v % size \in Ioctl!Addresses
        BY IoctlAssumption, CutDown DEF Ioctl!AddressAssumption, Ioctl!Addresses
      <3>3. call[p] = "ask" /\ call' = call
        BY <2>1, <3>1 DEF Ioctl!At, Ioctl!IInv, Ioctl!TypeOK
      <3> QED BY <2>1, <3>1, <3>2, <3>3, IoctlCopies
    <2>4. CASE Ioctl!Translates(p)
      BY <2>1, <2>4, IoctlTranslates
    <2>5. CASE Ioctl!OtherIsTold(p)
      BY <2>1, <2>5, IoctlLeaves
    <2> QED BY <1>3, <2>2, <2>3, <2>4, <2>5 DEF Ioctl!Other
  <1> QED BY <1>1, <1>2, <1>3 DEF Ioctl!Next

\* The invariant of address translation holds in every state.
THEOREM IoctlInvariance == Spec => []Ioctl!IInv
  <1>1. Init => Ioctl!IInv
    BY IoctlInit DEF Init
  <1>2. Ioctl!IInv /\ [Next]_vars => Ioctl!IInv'
    <2>1. [Next]_vars => [Ioctl!Next]_ioctlVars
      BY DEF Next, vars, ListsStep, IoctlStep, StatsStep, FaultsStep, LifeStep
    <2> QED BY <2>1, IoctlStepIInv
  <1> QED BY <1>1, <1>2, PTL DEF Spec

\* A tester no other call overlaps has both its values updated and survives,
\* whatever earlier calls have left in the driver's static variables.
THEOREM LoneTestersUpdate == Spec => []LoneTesterUpdates
  <1>1. Ioctl!IInv => LoneTesterUpdates
    BY DEF Ioctl!IInv, LoneTesterUpdates
  <1> QED BY <1>1, IoctlInvariance, PTL

\* However calls overlap, every answer is the translation of an address some call
\* asked for or of the bytes a failed copy has left, and of nothing else.
THEOREM EveryAnswerIsATranslation == Spec => []AnswersAreTranslations
  <1>1. Ioctl!IInv => AnswersAreTranslations
    BY DEF Ioctl!IInv, AnswersAreTranslations
  <1> QED BY <1>1, IoctlInvariance, PTL

-----------------------------------------------------------------------------
(* get_memstats                                                            *)

\* MemStats counts as FiniteSets does.
LEMMA StatsCounts ==
    ASSUME NEW S
    PROVE  /\ Stats!Cardinality(S) = Cardinality(S)
           /\ Stats!IsFiniteSet(S) <=> IsFiniteSet(S)
  <1>1. Stats!Cardinality(S) = Cardinality(S)
    BY Zenon DEF Stats!Cardinality, Cardinality
  <1>2. Stats!IsFiniteSet(S) <=> IsFiniteSet(S)
    BY DEF Stats!IsFiniteSet, IsFiniteSet
  <1> QED BY <1>1, <1>2

\* There are finitely many readers and pages.
LEMMA StatsFinite == IsFiniteSet(Readers) /\ IsFiniteSet(Pages)
  BY StatsAssumption, StatsCounts DEF Stats!ShowsAssumption

\* What WellFormed says of the areas of a process.
LEMMA AreaFacts ==
    ASSUME NEW t \in Pids
    PROVE  /\ Len(Space(t).vmas) \in Nat
           /\ \A j \in 1 .. Len(Space(t).vmas) :
                 /\ Space(t).vmas[j].start \in Nat /\ Space(t).vmas[j].end \in Nat
                 /\ Space(t).vmas[j].start < Space(t).vmas[j].end
                 /\ Stats!VmaPages(Space(t), j) \subseteq Pages
           /\ \A l, j \in 1 .. Len(Space(t).vmas) :
                 l < j => Space(t).vmas[l].end <= Space(t).vmas[j].start
  <1> DEFINE areas == Space(t).vmas
  <1>1. Stats!WellFormed(Space(t)) /\ Pages \subseteq Nat
    BY StatsAssumption DEF Stats!ShowsAssumption
  <1>2. areas \in Seq([start : Pages, end : Nat])
    BY <1>1 DEF Stats!WellFormed
  <1>3. \A j \in 1 .. Len(areas) :
           areas[j].start < areas[j].end /\ Stats!VmaPages(Space(t), j) \subseteq Pages
    BY <1>1 DEF Stats!WellFormed
  <1>4. \A l, j \in 1 .. Len(areas) : l < j => areas[l].end <= areas[j].start
    BY <1>1, Zenon DEF Stats!WellFormed
  <1> HIDE DEF areas
  <1>5. \A j \in 1 .. Len(areas) : areas[j] \in [start : Pages, end : Nat]
    BY <1>2, ElementOfSeq
  <1>6. \A j \in 1 .. Len(areas) : areas[j].start \in Nat /\ areas[j].end \in Nat
    BY <1>1, <1>5
  <1>7. Len(areas) \in Nat
    BY <1>2
  <1> QED BY <1>3, <1>4, <1>6, <1>7 DEF areas

\* The pages of the areas begun before area j lie below it.
LEMMA AreasBelow ==
    ASSUME NEW t \in Pids, NEW j \in 1 .. Len(Space(t).vmas),
           NEW x \in Stats!AreasUpTo(Space(t), j - 1)
    PROVE  x \in Nat /\ x < Space(t).vmas[j].start
  <1>1. PICK l \in 1 .. j - 1 : x \in Stats!VmaPages(Space(t), l)
    BY DEF Stats!AreasUpTo
  <1>2. /\ l \in 1 .. Len(Space(t).vmas) /\ l < j
        /\ Space(t).vmas[l].start \in Nat /\ Space(t).vmas[l].end \in Nat
        /\ Space(t).vmas[j].start \in Nat /\ Space(t).vmas[l].end <= Space(t).vmas[j].start
    BY <1>1, AreaFacts
  <1> QED BY <1>1, <1>2 DEF Stats!VmaPages

\* The areas begun are finitely many pages.
LEMMA AreasFinite ==
    ASSUME NEW t \in Pids, NEW j \in 0 .. Len(Space(t).vmas)
    PROVE  /\ Stats!AreasUpTo(Space(t), j) \subseteq Pages
           /\ IsFiniteSet(Stats!AreasUpTo(Space(t), j))
           /\ Cardinality(Stats!AreasUpTo(Space(t), j)) \in Nat
  <1>1. Stats!AreasUpTo(Space(t), j) \subseteq Pages
    BY AreaFacts DEF Stats!AreasUpTo
  <1>2. IsFiniteSet(Stats!AreasUpTo(Space(t), j))
    BY <1>1, StatsFinite, FS_Subset
  <1> QED BY <1>1, <1>2, FS_CardinalityType

\* Area j adds its pages to those of the areas before, which are others.
LEMMA NextArea ==
    ASSUME NEW t \in Pids, NEW j \in 1 .. Len(Space(t).vmas)
    PROVE  /\ Stats!AreasUpTo(Space(t), j) =
                 Stats!AreasUpTo(Space(t), j - 1) \cup Stats!VmaPages(Space(t), j)
           /\ Stats!AreasUpTo(Space(t), j - 1) \cap Stats!VmaPages(Space(t), j) = {}
           /\ Cardinality(Stats!VmaPages(Space(t), j)) =
                 Space(t).vmas[j].end - Space(t).vmas[j].start
           /\ Cardinality(Stats!AreasUpTo(Space(t), j)) =
                 Cardinality(Stats!AreasUpTo(Space(t), j - 1))
                    + (Space(t).vmas[j].end - Space(t).vmas[j].start)
  <1> DEFINE before == Stats!AreasUpTo(Space(t), j - 1)
             area == Stats!VmaPages(Space(t), j)
             size == Space(t).vmas[j].end - Space(t).vmas[j].start
  <1>1. /\ Len(Space(t).vmas) \in Nat /\ j - 1 \in 0 .. Len(Space(t).vmas)
        /\ Space(t).vmas[j].start \in Nat /\ Space(t).vmas[j].end \in Nat
        /\ Space(t).vmas[j].start < Space(t).vmas[j].end
    BY AreaFacts
  <1>2. 1 .. j = (1 .. j - 1) \cup {j}
    BY <1>1
  <1>3. Stats!AreasUpTo(Space(t), j) = before \cup area
    BY <1>2 DEF Stats!AreasUpTo
  <1>4. before \cap area = {}
    <2> SUFFICES ASSUME NEW x \in before, x \in area PROVE FALSE
      OBVIOUS
    <2>1. x \in Nat /\ x < Space(t).vmas[j].start
      BY AreasBelow
    <2> QED BY <1>1, <2>1 DEF Stats!VmaPages
  <1>5. IsFiniteSet(area) /\ Cardinality(area) = size
    <2> DEFINE a == Space(t).vmas[j].start
               b == Space(t).vmas[j].end - 1
    <2>2. a \in Int /\ b \in Int /\ a <= b
      BY <1>1
    <2> HIDE DEF a, b
    <2>3. IsFiniteSet(a .. b) /\ Cardinality(a .. b) = b - a + 1
      BY <2>2, FS_Interval
    <2> QED BY <1>1, <2>3 DEF a, b, Stats!VmaPages
  <1>6. IsFiniteSet(before) /\ Cardinality(before) \in Nat /\ size \in Int
    BY <1>1, AreasFinite
  <1> HIDE DEF before, area, size
  <1>7. Cardinality(before \cap area) = 0
    BY <1>4, FS_EmptySet
  <1>8. Cardinality(before \cup area) = Cardinality(before) + Cardinality(area) - Cardinality(before \cap area)
    BY <1>5, <1>6, FS_Union
  <1>9. Cardinality(before \cup area) = Cardinality(before) + size
    BY <1>5, <1>6, <1>7, <1>8
  <1> QED BY <1>3, <1>4, <1>5, <1>9 DEF before, area, size

\* The pages below p of the areas up to j, where p is in area j or at its end.
LEMMA PagesBelow ==
    ASSUME NEW t \in Pids, NEW j \in 1 .. Len(Space(t).vmas), NEW p \in Nat,
           Space(t).vmas[j].start <= p
    PROVE  /\ p = Space(t).vmas[j].start =>
                 {x \in Stats!AreasUpTo(Space(t), j) : x < p} = Stats!AreasUpTo(Space(t), j - 1)
           /\ p < Space(t).vmas[j].end =>
                 /\ p \in Stats!AreasUpTo(Space(t), j)
                 /\ {x \in Stats!AreasUpTo(Space(t), j) : x < p + 1} =
                       {x \in Stats!AreasUpTo(Space(t), j) : x < p} \cup {p}
           /\ p >= Space(t).vmas[j].end =>
                 {x \in Stats!AreasUpTo(Space(t), j) : x < p} = Stats!AreasUpTo(Space(t), j)
  <1>1. /\ Space(t).vmas[j].start \in Nat /\ Space(t).vmas[j].end \in Nat
        /\ Space(t).vmas[j].start < Space(t).vmas[j].end
        /\ \A x \in Stats!AreasUpTo(Space(t), j - 1) : x \in Nat /\ x < Space(t).vmas[j].start
    BY AreaFacts, AreasBelow
  <1>2. Stats!AreasUpTo(Space(t), j) =
           Stats!AreasUpTo(Space(t), j - 1) \cup Stats!VmaPages(Space(t), j)
    BY NextArea
  <1>3. \A x : x \in Stats!VmaPages(Space(t), j) <=>
                  x \in Nat /\ Space(t).vmas[j].start <= x /\ x < Space(t).vmas[j].end
    BY <1>1 DEF Stats!VmaPages
  <1>4. \A x \in Stats!AreasUpTo(Space(t), j) : x \in Nat /\ x < Space(t).vmas[j].end
    BY <1>1, <1>2, <1>3
  <1>5. ASSUME p = Space(t).vmas[j].start
        PROVE {x \in Stats!AreasUpTo(Space(t), j) : x < p} = Stats!AreasUpTo(Space(t), j - 1)
    BY <1>1, <1>2, <1>3, <1>5
  <1>6. ASSUME p < Space(t).vmas[j].end
        PROVE  /\ p \in Stats!AreasUpTo(Space(t), j)
               /\ {x \in Stats!AreasUpTo(Space(t), j) : x < p + 1} =
                     {x \in Stats!AreasUpTo(Space(t), j) : x < p} \cup {p}
    <2>1. p \in Stats!AreasUpTo(Space(t), j)
      BY <1>2, <1>3, <1>6
    <2>2. \A x \in Nat : x < p + 1 <=> x < p \/ x = p
      OBVIOUS
    <2> QED BY <1>4, <2>1, <2>2
  <1>7. ASSUME p >= Space(t).vmas[j].end
        PROVE {x \in Stats!AreasUpTo(Space(t), j) : x < p} = Stats!AreasUpTo(Space(t), j)
    BY <1>1, <1>4, <1>7
  <1> QED BY <1>5, <1>6, <1>7

-----------------------------------------------------------------------------
\* Sets of readers with pages: finite, and smaller when a part is taken away.
LEMMA LeftFinite ==
    ASSUME NEW A \in SUBSET (Readers \X Pages)
    PROVE  /\ IsFiniteSet(A) /\ Cardinality(A) \in Nat /\ Cardinality(Pages) \in Nat
           /\ \A B \in SUBSET A : Cardinality(B) \in Nat /\ Cardinality(B) <= Cardinality(A)
  <1>1. IsFiniteSet(Readers \X Pages) /\ IsFiniteSet(Pages)
    BY StatsFinite, FS_Product
  <1>2. IsFiniteSet(A)
    BY <1>1, FS_Subset
  <1>3. \A B \in SUBSET A : IsFiniteSet(B) /\ Cardinality(B) <= Cardinality(A)
    BY <1>2, FS_Subset
  <1> QED BY <1>1, <1>2, <1>3, FS_CardinalityType

\* What is left to add grows and shrinks by the pages of one show.
LEMMA LeftWithout ==
    ASSUME NEW A \in SUBSET (Readers \X Pages), NEW r \in Readers, NEW X \in SUBSET Pages
    PROVE  /\ \A B : A \cap ({r} \X X) = {} /\ B = A \cup ({r} \X X) =>
                        Cardinality(B) = Cardinality(A) + Cardinality(X)
           /\ \A B : {r} \X X \subseteq A /\ B = A \ ({r} \X X) =>
                        Cardinality(B) = Cardinality(A) - Cardinality(X)
           /\ Cardinality(X) \in Nat
  <1> DEFINE part == {r} \X X
  <1>1. IsFiniteSet(X) /\ Cardinality(X) \in Nat /\ IsFiniteSet({r}) /\ Cardinality({r}) = 1
    BY StatsFinite, FS_Subset, FS_CardinalityType, FS_Singleton
  <1>2. IsFiniteSet(part) /\ Cardinality(part) = 1 * Cardinality(X)
    BY <1>1, FS_Product
  <1>3. Cardinality(part) = Cardinality(X)
    BY <1>1, <1>2
  <1>4. IsFiniteSet(A) /\ Cardinality(A) \in Nat
    BY LeftFinite
  <1> HIDE DEF part
  <1>5. ASSUME A \cap part = {} PROVE Cardinality(A \cup part) = Cardinality(A) + Cardinality(X)
    <2>1. Cardinality(A \cap part) = 0
      BY <1>5, FS_EmptySet
    <2>2. Cardinality(A \cup part) = Cardinality(A) + Cardinality(part) - Cardinality(A \cap part)
      BY <1>2, <1>4, FS_Union
    <2> QED BY <1>1, <1>3, <1>4, <2>1, <2>2
  <1>6. ASSUME part \subseteq A PROVE Cardinality(A \ part) = Cardinality(A) - Cardinality(X)
    <2>1. A \cap part = part
      BY <1>6
    <2>2. Cardinality(A \ part) = Cardinality(A) - Cardinality(A \cap part)
      BY <1>4, FS_Difference
    <2> QED BY <1>3, <2>1, <2>2
  <1> QED BY <1>1, <1>5, <1>6 DEF part

\* The room that n shows with A left to add leave for a sum.
Room(n, A) == n * Cardinality(Pages) - Cardinality(A)

\* MemStats' bound on its sums, in terms of the room.
LEMMA MostIsRoom ==
    /\ Stats!Most(Stats!LeftVm) = Room(shows, Stats!LeftVm)
    /\ Stats!Most(Stats!LeftPm) = Room(shows, Stats!LeftPm)
    /\ Stats!Most(Stats!LeftVm)' = Room(shows', Stats!LeftVm')
    /\ Stats!Most(Stats!LeftPm)' = Room(shows', Stats!LeftPm')
  BY StatsCounts DEF Stats!Most, Room

\* It grows by what is taken from A, and it is the same when a show begins that
\* has all pages to add.
LEMMA RoomFacts ==
    ASSUME NEW n \in Nat, NEW A \in SUBSET (Readers \X Pages)
    PROVE  /\ Room(n, A) \in Int /\ Room(n, A) <= n * Cardinality(Pages)
           /\ n * Cardinality(Pages) \in Nat
           /\ \A B \in SUBSET A : Room(n, B) \in Int /\ Room(n, A) <= Room(n, B)
           /\ Room(n, A) <= Room(n + 1, A) /\ Room(n + 1, A) \in Int
           /\ \A r \in Readers, X \in SUBSET Pages :
                 /\ Cardinality(X) \in Nat
                 /\ \A B : {r} \X X \subseteq A /\ B = A \ ({r} \X X) =>
                              Room(n, B) = Room(n, A) + Cardinality(X)
           /\ \A r \in Readers : \A B : A \cap ({r} \X Pages) = {} /\ B = A \cup ({r} \X Pages) =>
                              Room(n + 1, B) = Room(n, A)
  <1> DEFINE c == Cardinality(Pages)
  <1>1. /\ c \in Nat /\ Cardinality(A) \in Nat /\ n * c \in Nat /\ (n + 1) * c = n * c + c
        /\ \A B \in SUBSET A : Cardinality(B) \in Nat /\ Cardinality(B) <= Cardinality(A)
    <2>1. /\ c \in Nat /\ Cardinality(A) \in Nat
          /\ \A B \in SUBSET A : Cardinality(B) \in Nat /\ Cardinality(B) <= Cardinality(A)
      BY LeftFinite
    <2> HIDE DEF c
    <2>2. n * c \in Nat /\ (n + 1) * c = n * c + c
      BY <2>1
    <2> QED BY <2>1, <2>2
  <1> DEFINE m == n * c
             m1 == (n + 1) * c
  <1>2. c \in Nat /\ m \in Nat /\ m1 = m + c
    BY <1>1
  <1> USE DEF Room
  <1>3. ASSUME NEW B \in SUBSET A PROVE Room(n, B) \in Int /\ Room(n, A) <= Room(n, B)
    <2>1. Cardinality(B) \in Nat /\ Cardinality(B) <= Cardinality(A)
      BY <1>1
    <2> HIDE DEF m, c
    <2>2. Room(n, B) = m - Cardinality(B) /\ Room(n, A) = m - Cardinality(A)
      BY DEF m, c
    <2> HIDE DEF Room
    <2> QED BY <1>1, <1>2, <2>1, <2>2
  <1>4. ASSUME NEW r \in Readers, NEW X \in SUBSET Pages
        PROVE  /\ Cardinality(X) \in Nat
               /\ \A B : {r} \X X \subseteq A /\ B = A \ ({r} \X X) =>
                            Room(n, B) = Room(n, A) + Cardinality(X)
    <2>1. /\ Cardinality(X) \in Nat
          /\ \A B : {r} \X X \subseteq A /\ B = A \ ({r} \X X) =>
                       Cardinality(B) = Cardinality(A) - Cardinality(X)
      BY LeftWithout
    <2> HIDE DEF m, c
    <2>2. \A B : Room(n, B) = m - Cardinality(B)
      BY DEF m, c
    <2> HIDE DEF Room
    <2> QED BY <1>1, <1>2, <2>1, <2>2
  <1>5. ASSUME NEW r \in Readers, NEW B, A \cap ({r} \X Pages) = {}, B = A \cup ({r} \X Pages)
        PROVE  Room(n + 1, B) = Room(n, A)
    <2>1. Cardinality(B) = Cardinality(A) + c
      BY <1>5, LeftWithout
    <2> HIDE DEF m, c, m1
    <2>2. Room(n + 1, B) = m1 - Cardinality(B) /\ Room(n, A) = m - Cardinality(A)
      BY DEF m, c, m1
    <2> HIDE DEF Room
    <2> QED BY <1>1, <1>2, <2>1, <2>2
  <1>6. /\ Room(n, A) \in Int /\ Room(n, A) <= n * Cardinality(Pages)
        /\ Room(n, A) <= Room(n + 1, A) /\ Room(n + 1, A) \in Int
    <2> HIDE DEF m, c, m1
    <2>1. /\ Room(n + 1, A) = m1 - Cardinality(A) /\ Room(n, A) = m - Cardinality(A)
          /\ n * Cardinality(Pages) = m
      BY DEF m, c, m1
    <2> HIDE DEF Room
    <2> QED BY <1>1, <1>2, <2>1
  <1> QED BY <1>1, <1>3, <1>4, <1>5, <1>6

-----------------------------------------------------------------------------
\* Where reader r is in its walk.
LEMMA StatsWhere ==
    ASSUME Stats!IInv, NEW r \in Readers, Stats!Walking(r)
    PROVE  /\ task[r] \in Pids /\ k[r] \in 0 .. Len(Space(task[r]).vmas)
           /\ Len(Space(task[r]).vmas) \in Nat
           /\ start[r] \in Nat /\ end[r] \in Nat /\ start[r] <= end[r]
           /\ k[r] = 0 => start[r] = 0 /\ end[r] = 0
           /\ k[r] # 0 => /\ k[r] \in 1 .. Len(Space(task[r]).vmas)
                          /\ Space(task[r]).vmas[k[r]].start <= start[r]
                          /\ end[r] = Space(task[r]).vmas[k[r]].end
           /\ Stats!Passed(r) \subseteq Pages /\ Stats!Summed(r) \subseteq Pages
  <1>1. /\ task[r] \in Pids /\ k[r] \in 0 .. Len(Space(task[r]).vmas) /\ start[r] <= end[r]
        /\ start[r] \in Nat /\ end[r] \in Nat
        /\ k[r] = 0 => start[r] = 0 /\ end[r] = 0
        /\ k[r] # 0 => /\ Space(task[r]).vmas[k[r]].start <= start[r]
                       /\ end[r] = Space(task[r]).vmas[k[r]].end
    BY DEF Stats!IInv, Stats!TypeOK, Stats!WalksKnown, Stats!Place, Stats!Walking
  <1>2. Len(Space(task[r]).vmas) \in Nat
    BY <1>1, AreaFacts
  <1>3. Stats!Passed(r) \subseteq Pages
    BY <1>1, AreasFinite DEF Stats!Passed
  <1>4. Stats!Summed(r) \subseteq Pages
    <2>1. show[r] = "add_vm" => k[r] - 1 \in 0 .. Len(Space(task[r]).vmas)
      BY <1>1, <1>2 DEF Stats!IInv, Stats!WalksKnown, Stats!Place
    <2> QED BY <1>1, <2>1, AreasFinite DEF Stats!Summed
  <1> QED BY <1>1, <1>2, <1>3, <1>4

\* A step of r leaves the others where they are.
LEMMA StatsElsewhere ==
    ASSUME NEW r \in Readers,
           \A q \in Readers : q # r =>
              /\ show'[q] = show[q] /\ task'[q] = task[q] /\ k'[q] = k[q] /\ start'[q] = start[q]
    PROVE  \A q \in Readers : q # r =>
              /\ Stats!Walking(q)' <=> Stats!Walking(q)
              /\ Stats!Summed(q)' = Stats!Summed(q) /\ Stats!Passed(q)' = Stats!Passed(q)
  BY DEF Stats!Walking, Stats!Summed, Stats!Passed

\* What is left for r to add, before and after its step, is what changes.
LEMMA StatsLeft ==
    ASSUME NEW r \in Readers,
           \A q \in Readers : q # r =>
              /\ show'[q] = show[q] /\ task'[q] = task[q] /\ k'[q] = k[q] /\ start'[q] = start[q]
    PROVE  /\ Stats!LeftVm \in SUBSET (Readers \X Pages) /\ Stats!LeftPm \in SUBSET (Readers \X Pages)
           /\ \A q \in Readers, x \in Pages :
                 /\ q # r => (<<q, x>> \in Stats!LeftVm' <=> <<q, x>> \in Stats!LeftVm)
                 /\ q # r => (<<q, x>> \in Stats!LeftPm' <=> <<q, x>> \in Stats!LeftPm)
           /\ \A x \in Pages :
                 /\ <<r, x>> \in Stats!LeftVm <=>
                       show[r] # "idle" /\ (Stats!Walking(r) => x \notin Stats!Summed(r))
                 /\ <<r, x>> \in Stats!LeftVm' <=>
                       show'[r] # "idle" /\ (Stats!Walking(r)' => x \notin Stats!Summed(r)')
                 /\ <<r, x>> \in Stats!LeftPm <=>
                       show[r] # "idle" /\ (Stats!Walking(r) => x \notin Stats!Passed(r))
                 /\ <<r, x>> \in Stats!LeftPm' <=>
                       show'[r] # "idle" /\ (Stats!Walking(r)' => x \notin Stats!Passed(r)')
           /\ Stats!LeftVm' \in SUBSET (Readers \X Pages) /\ Stats!LeftPm' \in SUBSET (Readers \X Pages)
  <1>1. \A q \in Readers : q # r =>
           /\ Stats!Walking(q)' <=> Stats!Walking(q)
           /\ Stats!Summed(q)' = Stats!Summed(q) /\ Stats!Passed(q)' = Stats!Passed(q)
    BY StatsElsewhere
  <1>2. \A q \in Readers, x \in Pages :
           /\ <<q, x>> \in Stats!LeftVm <=>
                 show[q] # "idle" /\ (Stats!Walking(q) => x \notin Stats!Summed(q))
           /\ <<q, x>> \in Stats!LeftPm <=>
                 show[q] # "idle" /\ (Stats!Walking(q) => x \notin Stats!Passed(q))
    BY DEF Stats!LeftVm, Stats!LeftPm
  <1>3. \A q \in Readers, x \in Pages :
           /\ <<q, x>> \in Stats!LeftVm' <=>
                 show'[q] # "idle" /\ (Stats!Walking(q)' => x \notin Stats!Summed(q)')
           /\ <<q, x>> \in Stats!LeftPm' <=>
                 show'[q] # "idle" /\ (Stats!Walking(q)' => x \notin Stats!Passed(q)')
    BY DEF Stats!LeftVm, Stats!LeftPm
  <1>4. /\ Stats!LeftVm \in SUBSET (Readers \X Pages) /\ Stats!LeftPm \in SUBSET (Readers \X Pages)
        /\ Stats!LeftVm' \in SUBSET (Readers \X Pages) /\ Stats!LeftPm' \in SUBSET (Readers \X Pages)
    BY DEF Stats!LeftVm, Stats!LeftPm
  <1>5. \A q \in Readers, x \in Pages :
                 /\ q # r => (<<q, x>> \in Stats!LeftVm' <=> <<q, x>> \in Stats!LeftVm)
                 /\ q # r => (<<q, x>> \in Stats!LeftPm' <=> <<q, x>> \in Stats!LeftPm)
    BY <1>1, <1>2, <1>3
  <1> QED BY <1>2, <1>3, <1>4, <1>5

\* A show that does not move stays where it is.
LEMMA PlaceKept ==
    ASSUME Stats!IInv, NEW q \in Readers, show'[q] = show[q], task'[q] = task[q],
           k'[q] = k[q], start'[q] = start[q], end'[q] = end[q]
    PROVE  Stats!Place(q)'
  <1>1. Stats!Place(q)
    BY DEF Stats!IInv, Stats!WalksKnown
  <1> QED BY <1>1 DEF Stats!Place, Stats!Walking

\* A step of a show r under way keeps the invariant if it leaves what the others
\* have alone, keeps its place and takes what it adds to the sums from what it has
\* left; the other shows, if any, are not alone.
LEMMA StatsMoves ==
    ASSUME Stats!IInv, NEW r \in Readers, show[r] # "idle",
           UNCHANGED <<pid, unit, attr, shows_alone, shows>>,
           show' \in [Readers -> {"idle", "reset", "find", "walk", "add_vm", "add_pm"}],
           task' \in [Readers -> Pids \cup {Stats!None}],
           Stats!WalksKnown',
           Stats!Walking(r)' => /\ task'[r] \in Pids /\ k'[r] \in 0 .. Len(Space(task'[r]).vmas)
                                /\ start'[r] <= end'[r],
           \A q \in Readers : q # r =>
              /\ show'[q] = show[q] /\ task'[q] = task[q] /\ k'[q] = k[q] /\ start'[q] = start[q]
              /\ end'[q] = end[q] /\ reg'[q] = reg[q] /\ exact'[q] = exact[q],
           Stats!LeftVm' \subseteq Stats!LeftVm, Stats!LeftPm' \subseteq Stats!LeftPm,
           vm' \in 0 .. Room(shows, Stats!LeftVm'), pm' \in 0 .. Room(shows, Stats!LeftPm'),
           show'[r] = "add_vm" => reg'[r] \in 0 .. Room(shows, Stats!LeftVm'),
           show'[r] = "add_pm" => reg'[r] \in 0 .. Room(shows, Stats!LeftPm'),
           shows_alone[r] =>
              /\ show'[r] = "idle" => exact'[r]
              /\ show'[r] = "find" => vm' = 0 /\ pm' = 0
              /\ Stats!Walking(r)' => /\ vm' = Cardinality(Stats!Summed(r)')
                                      /\ pm' = Cardinality(Present(task'[r]) \cap Stats!Passed(r)')
              /\ show'[r] = "add_vm" => reg'[r] = vm'
              /\ show'[r] = "add_pm" => reg'[r] = pm'
    PROVE  Stats!IInv'
  <1>1. /\ Stats!TypeOK /\ Stats!WalksKnown /\ Stats!SumsBounded /\ Stats!AloneSums
        /\ Stats!AloneExact /\ shows \in Nat
    BY StatsAssumption DEF Stats!IInv, Stats!TypeOK, Stats!ShowsAssumption
  <1>2. /\ Stats!LeftVm \in SUBSET (Readers \X Pages) /\ Stats!LeftPm \in SUBSET (Readers \X Pages)
        /\ Stats!LeftVm' \in SUBSET (Readers \X Pages) /\ Stats!LeftPm' \in SUBSET (Readers \X Pages)
    BY StatsLeft
  <1>3. /\ Room(shows, Stats!LeftVm) \in Int /\ Room(shows, Stats!LeftPm) \in Int
        /\ Room(shows, Stats!LeftVm') \in Int /\ Room(shows, Stats!LeftPm') \in Int
        /\ Room(shows, Stats!LeftVm) <= Room(shows, Stats!LeftVm')
        /\ Room(shows, Stats!LeftPm) <= Room(shows, Stats!LeftPm')
        /\ Room(shows, Stats!LeftVm') <= shows * Cardinality(Pages)
        /\ Room(shows, Stats!LeftPm') <= shows * Cardinality(Pages)
        /\ shows * Cardinality(Pages) \in Nat
    BY <1>1, <1>2, RoomFacts
  <1> DEFINE m == shows * Cardinality(Pages)
  <1>4. vm' \in 0 .. m /\ pm' \in 0 .. m
    <2> HIDE DEF m
    <2> QED BY <1>3 DEF m
  <1>5. Stats!TypeOK'
    <2>1. /\ vm' \in 0 .. shows' * Stats!Cardinality(Pages)
          /\ pm' \in 0 .. shows' * Stats!Cardinality(Pages)
      BY <1>4, StatsCounts
    <2>2. \A q \in Readers : show'[q] \in {"walk", "add_vm", "add_pm"} =>
              /\ task'[q] \in Pids /\ k'[q] \in 0 .. Len(Space(task'[q]).vmas)
              /\ start'[q] <= end'[q]
      BY <1>1 DEF Stats!TypeOK, Stats!Walking
    <2> QED BY <1>1, <2>1, <2>2 DEF Stats!TypeOK
  <1>6. Stats!SumsBounded'
    <2>1. /\ Stats!Most(Stats!LeftVm)' = Room(shows, Stats!LeftVm')
          /\ Stats!Most(Stats!LeftPm)' = Room(shows, Stats!LeftPm')
          /\ Stats!Most(Stats!LeftVm) = Room(shows, Stats!LeftVm)
          /\ Stats!Most(Stats!LeftPm) = Room(shows, Stats!LeftPm)
      BY MostIsRoom
    <2>2. \A q \in Readers : q # r =>
             /\ show[q] = "add_vm" => reg[q] \in 0 .. Room(shows, Stats!LeftVm')
             /\ show[q] = "add_pm" => reg[q] \in 0 .. Room(shows, Stats!LeftPm')
      BY <1>1, <1>3, <2>1 DEF Stats!SumsBounded
    <2> QED BY <2>1, <2>2 DEF Stats!SumsBounded
  <1>7. \A q \in Readers : q # r => ~(show'[q] # "idle" /\ shows_alone'[q])
    BY <1>1 DEF Stats!AloneSums
  <1>8. Stats!AloneSums'
    <2>1. shows_alone[r] => \A q \in Readers \ {r} : show'[q] = "idle"
      BY <1>1 DEF Stats!AloneSums
    <2>2. /\ Stats!Cardinality(Stats!Summed(r)') = Cardinality(Stats!Summed(r)')
          /\ Stats!Cardinality(Present(task'[r]) \cap Stats!Passed(r)') =
                Cardinality(Present(task'[r]) \cap Stats!Passed(r)')
      BY StatsCounts
    <2>3. ASSUME NEW q \in Readers, show'[q] # "idle", shows_alone'[q]
          PROVE  q = r /\ shows_alone[r]
      BY <1>7, <2>3
    <2>4. shows_alone[r] =>
             /\ show'[r] = "find" => vm' = 0 /\ pm' = 0
             /\ Stats!Walking(r)' =>
                   /\ vm' = Stats!Cardinality(Stats!Summed(r)')
                   /\ pm' = Stats!Cardinality(Present(task'[r]) \cap Stats!Passed(r)')
             /\ show'[r] = "add_vm" => reg'[r] = vm'
             /\ show'[r] = "add_pm" => reg'[r] = pm'
      BY <2>2
    <2> QED BY <2>1, <2>3, <2>4 DEF Stats!AloneSums
  <1>9. Stats!AloneExact'
    BY <1>1 DEF Stats!AloneExact
  <1> QED BY <1>5, <1>6, <1>8, <1>9 DEF Stats!IInv

\* The invariant, as the steps need it.
LEMMA StatsKnown ==
    ASSUME Stats!IInv
    PROVE  /\ show \in [Readers -> {"idle", "reset", "find", "walk", "add_vm", "add_pm"}]
           /\ task \in [Readers -> Pids \cup {Stats!None}]
           /\ k \in [Readers -> Nat] /\ start \in [Readers -> Nat] /\ end \in [Readers -> Nat]
           /\ reg \in [Readers -> Nat] /\ exact \in [Readers -> BOOLEAN]
           /\ vm \in Nat /\ pm \in Nat
           /\ vm \in 0 .. Room(shows, Stats!LeftVm) /\ pm \in 0 .. Room(shows, Stats!LeftPm)
           /\ \A r \in Readers :
                 /\ show[r] = "add_vm" => reg[r] \in 0 .. Room(shows, Stats!LeftVm)
                 /\ show[r] = "add_pm" => reg[r] \in 0 .. Room(shows, Stats!LeftPm)
                 /\ ~Stats!Walking(r) => k[r] = 0 /\ start[r] = 0 /\ end[r] = 0
                 /\ show[r] # "idle" => exact[r]
           /\ \A r \in Readers : show[r] # "idle" /\ shows_alone[r] =>
                 /\ show[r] = "find" => vm = 0 /\ pm = 0
                 /\ Stats!Walking(r) => /\ vm = Cardinality(Stats!Summed(r))
                                        /\ pm = Cardinality(Present(task[r]) \cap Stats!Passed(r))
                 /\ show[r] = "add_vm" => reg[r] = vm
                 /\ show[r] = "add_pm" => reg[r] = pm
           /\ shows \in Nat
  <1>1. /\ Stats!TypeOK /\ Stats!WalksKnown /\ Stats!SumsBounded /\ Stats!AloneSums
    BY DEF Stats!IInv
  <1>2. /\ vm \in 0 .. Room(shows, Stats!LeftVm) /\ pm \in 0 .. Room(shows, Stats!LeftPm)
        /\ \A r \in Readers :
              /\ show[r] = "add_vm" => reg[r] \in 0 .. Room(shows, Stats!LeftVm)
              /\ show[r] = "add_pm" => reg[r] \in 0 .. Room(shows, Stats!LeftPm)
    BY <1>1, MostIsRoom DEF Stats!SumsBounded
  <1>3. vm \in Nat /\ pm \in Nat
    BY <1>2
  <1>4. ASSUME NEW r \in Readers, show[r] # "idle", shows_alone[r]
        PROVE  /\ show[r] = "find" => vm = 0 /\ pm = 0
               /\ Stats!Walking(r) => /\ vm = Cardinality(Stats!Summed(r))
                                      /\ pm = Cardinality(Present(task[r]) \cap Stats!Passed(r))
               /\ show[r] = "add_vm" => reg[r] = vm
               /\ show[r] = "add_pm" => reg[r] = pm
    <2>1. /\ Stats!Cardinality(Stats!Summed(r)) = Cardinality(Stats!Summed(r))
          /\ Stats!Cardinality(Present(task[r]) \cap Stats!Passed(r)) =
                Cardinality(Present(task[r]) \cap Stats!Passed(r))
      BY StatsCounts
    <2> QED BY <1>1, <1>4, <2>1 DEF Stats!AloneSums
  <1>5. shows \in Nat
    BY <1>1, StatsAssumption DEF Stats!TypeOK, Stats!ShowsAssumption
  <1>6. /\ show \in [Readers -> {"idle", "reset", "find", "walk", "add_vm", "add_pm"}]
        /\ task \in [Readers -> Pids \cup {Stats!None}]
    BY <1>1 DEF Stats!TypeOK
  <1>7. /\ k \in [Readers -> Nat] /\ start \in [Readers -> Nat] /\ end \in [Readers -> Nat]
        /\ reg \in [Readers -> Nat] /\ exact \in [Readers -> BOOLEAN]
        /\ \A r \in Readers : /\ ~Stats!Walking(r) => k[r] = 0 /\ start[r] = 0 /\ end[r] = 0
                              /\ show[r] # "idle" => exact[r]
    BY <1>1 DEF Stats!WalksKnown, Stats!Place
  <1> QED BY <1>2, <1>3, <1>4, <1>5, <1>6, <1>7

\* When less is left to add, there is room for what there was room for.
LEMMA StatsRoom ==
    ASSUME Stats!IInv, Stats!LeftVm' \subseteq Stats!LeftVm, Stats!LeftPm' \subseteq Stats!LeftPm
    PROVE  /\ vm \in 0 .. Room(shows, Stats!LeftVm') /\ pm \in 0 .. Room(shows, Stats!LeftPm')
           /\ 0 \in 0 .. Room(shows, Stats!LeftVm') /\ 0 \in 0 .. Room(shows, Stats!LeftPm')
           /\ \A r \in Readers :
                 /\ show[r] = "add_vm" => reg[r] \in 0 .. Room(shows, Stats!LeftVm')
                 /\ show[r] = "add_pm" => reg[r] \in 0 .. Room(shows, Stats!LeftPm')
  <1>1. /\ Stats!LeftVm \in SUBSET (Readers \X Pages) /\ Stats!LeftPm \in SUBSET (Readers \X Pages)
    BY DEF Stats!LeftVm, Stats!LeftPm
  <1>2. shows \in Nat
    BY StatsKnown
  <1>3. /\ Room(shows, Stats!LeftVm) \in Int /\ Room(shows, Stats!LeftPm) \in Int
        /\ Room(shows, Stats!LeftVm') \in Int /\ Room(shows, Stats!LeftPm') \in Int
        /\ Room(shows, Stats!LeftVm) <= Room(shows, Stats!LeftVm')
        /\ Room(shows, Stats!LeftPm) <= Room(shows, Stats!LeftPm')
    BY <1>1, <1>2, RoomFacts
  <1> QED BY <1>3, StatsKnown

\* The sums are set to zero.
LEMMA StatsReset == ASSUME Stats!IInv, NEW r \in Readers, Stats!Reset(r) PROVE Stats!IInv'
  <1> USE DEF Stats!Reset, Stats!At, Stats!settings, Stats!walks
  <1>1. /\ show[r] = "reset" /\ show'[r] = "find"
        /\ \A q \in Readers : q # r => show'[q] = show[q]
        /\ show' \in [Readers -> {"idle", "reset", "find", "walk", "add_vm", "add_pm"}]
    BY StatsKnown
  <1>2. ~Stats!Walking(r) /\ ~Stats!Walking(r)'
    BY <1>1 DEF Stats!Walking
  <1>3. Stats!WalksKnown'
    BY <1>1, <1>2 DEF Stats!IInv, Stats!WalksKnown, Stats!Place, Stats!Walking
  <1>4. Stats!LeftVm' \subseteq Stats!LeftVm /\ Stats!LeftPm' \subseteq Stats!LeftPm
    BY <1>1, <1>2, StatsLeft
  <1>5. 0 \in 0 .. Room(shows, Stats!LeftVm') /\ 0 \in 0 .. Room(shows, Stats!LeftPm')
    BY <1>4, StatsRoom
  <1>6. UNCHANGED <<pid, unit, attr, shows_alone, shows, task, k, start, end, reg, exact>>
        /\ vm' = 0 /\ pm' = 0
    OBVIOUS
  <1>7. task' \in [Readers -> Pids \cup {Stats!None}]
    BY <1>6, StatsKnown
  <1> QED BY <1>1, <1>2, <1>3, <1>4, <1>5, <1>6, <1>7, StatsMoves

\* The process is found, or there is none.
LEMMA StatsFind ==
    ASSUME Stats!IInv, NEW r \in Readers, Stats!FindTask(r) \/ Stats!NoTask(r)
    PROVE  Stats!IInv'
  <1> USE DEF Stats!FindTask, Stats!NoTask, Stats!At, Stats!settings, Stats!walks
  <1>1. /\ show[r] = "find"
        /\ \/ show'[r] = "walk" /\ task'[r] \in Pids /\ task'[r] = pid
           \/ show'[r] = "idle" /\ task'[r] = task[r]
        /\ \A q \in Readers : q # r => show'[q] = show[q] /\ task'[q] = task[q]
        /\ show' \in [Readers -> {"idle", "reset", "find", "walk", "add_vm", "add_pm"}]
        /\ task' \in [Readers -> Pids \cup {Stats!None}]
    BY StatsKnown
  <1>2. UNCHANGED <<vm, pm, pid, unit, attr, shows_alone, shows, k, start, end, reg, exact>>
    OBVIOUS
  <1>3. ~Stats!Walking(r) /\ k[r] = 0 /\ start[r] = 0 /\ end[r] = 0 /\ exact[r]
    BY <1>1, StatsKnown DEF Stats!Walking
  <1>4. Stats!Summed(r)' = {} /\ Stats!Passed(r)' = {}
    <2>1. Stats!AreasUpTo(Space(task'[r]), 0) = {}
      BY DEF Stats!AreasUpTo
    <2> QED BY <1>1, <1>2, <1>3, <2>1 DEF Stats!Summed, Stats!Passed
  <1>5. Stats!WalksKnown'
    <2>1. \A q \in Readers : q # r => (Stats!Walking(q)' <=> Stats!Walking(q))
      BY <1>1 DEF Stats!Walking
    <2> QED BY <1>1, <1>2, <1>3, <2>1 DEF Stats!IInv, Stats!WalksKnown, Stats!Place
  <1>6. Stats!LeftVm' \subseteq Stats!LeftVm /\ Stats!LeftPm' \subseteq Stats!LeftPm
    BY <1>1, <1>2, <1>3, <1>4, StatsLeft
  <1>7. vm \in 0 .. Room(shows, Stats!LeftVm') /\ pm \in 0 .. Room(shows, Stats!LeftPm')
    BY <1>6, StatsRoom
  <1>8. shows_alone[r] => vm = 0 /\ pm = 0
    BY <1>1, StatsKnown
  <1>9. /\ Cardinality(Stats!Summed(r)') = 0
        /\ Cardinality(Present(task'[r]) \cap Stats!Passed(r)') = 0
    <2>1. Present(task'[r]) \cap Stats!Passed(r)' = {}
      BY <1>4
    <2> QED BY <1>4, <2>1, FS_EmptySet
  <1>10. Stats!Walking(r)' => /\ task'[r] \in Pids /\ k'[r] \in 0 .. Len(Space(task'[r]).vmas)
                              /\ start'[r] <= end'[r]
    BY <1>1, <1>2, <1>3, AreaFacts DEF Stats!Walking
  <1> QED BY <1>1, <1>2, <1>3, <1>5, <1>6, <1>7, <1>8, <1>9, <1>10, StatsMoves

\* The walk comes to the next area and loads vm.
LEMMA StatsAddsArea ==
    ASSUME Stats!IInv, NEW r \in Readers, Stats!AddsArea(r) PROVE Stats!IInv'
  <1> DEFINE areas == Space(task[r]).vmas
             j == k[r] + 1
  <1>1. /\ show[r] = "walk" /\ show'[r] = "add_vm" /\ start[r] >= end[r] /\ k[r] < Len(areas)
        /\ \A q \in Readers : q # r =>
              /\ show'[q] = show[q] /\ k'[q] = k[q] /\ start'[q] = start[q] /\ end'[q] = end[q]
              /\ reg'[q] = reg[q]
        /\ k'[r] = j /\ start'[r] = areas[j].start /\ end'[r] = areas[j].end /\ reg'[r] = vm
        /\ show' \in [Readers -> {"idle", "reset", "find", "walk", "add_vm", "add_pm"}]
        /\ UNCHANGED <<vm, pm, pid, unit, attr, shows_alone, shows, task, exact>>
    BY StatsKnown DEF Stats!AddsArea, Stats!At, Stats!settings
  <1>2. /\ Stats!Walking(r) /\ Stats!Walking(r)'
        /\ \A q \in Readers : q # r => (Stats!Walking(q)' <=> Stats!Walking(q))
    BY <1>1 DEF Stats!Walking
  <1>3. /\ task[r] \in Pids /\ k[r] \in Nat /\ Len(areas) \in Nat /\ start[r] \in Nat /\ end[r] \in Nat
        /\ j \in 1 .. Len(areas) /\ j - 1 = k[r] /\ j # 0
        /\ k[r] # 0 => /\ k[r] \in 1 .. Len(areas) /\ areas[k[r]].start <= start[r]
                       /\ start[r] >= areas[k[r]].end
    <2>1. /\ task[r] \in Pids /\ k[r] \in 0 .. Len(areas) /\ Len(areas) \in Nat
          /\ start[r] \in Nat /\ end[r] \in Nat
          /\ k[r] # 0 => k[r] \in 1 .. Len(areas) /\ areas[k[r]].start <= start[r] /\ end[r] = areas[k[r]].end
      BY <1>2, StatsWhere
    <2> HIDE DEF areas
    <2> QED BY <1>1, <2>1
  <1>4. /\ areas[j].start \in Nat /\ areas[j].end \in Nat /\ areas[j].start < areas[j].end
    BY <1>3, AreaFacts
  <1>5. k' \in [Readers -> Nat] /\ start' \in [Readers -> Nat] /\ end' \in [Readers -> Nat]
        /\ reg' \in [Readers -> Nat]
    BY <1>3, <1>4, StatsKnown DEF Stats!AddsArea, Stats!At
  \* So far it has passed the areas before.
  <1>6. Stats!Summed(r) = Stats!AreasUpTo(Space(task[r]), k[r])
        /\ Stats!Passed(r) = Stats!AreasUpTo(Space(task[r]), k[r])
    <2>1. Stats!Summed(r) = Stats!AreasUpTo(Space(task[r]), k[r])
      BY <1>1 DEF Stats!Summed
    <2>2. CASE k[r] = 0
      <3>1. Stats!AreasUpTo(Space(task[r]), 0) = {}
        BY DEF Stats!AreasUpTo
      <3> QED BY <2>1, <2>2, <3>1 DEF Stats!Passed
    <2>3. CASE k[r] # 0
      <3>1. k[r] \in 1 .. Len(Space(task[r]).vmas) /\ Space(task[r]).vmas[k[r]].start <= start[r]
            /\ start[r] >= Space(task[r]).vmas[k[r]].end
        BY <1>3, <2>3
      <3>2. {x \in Stats!AreasUpTo(Space(task[r]), k[r]) : x < start[r]} =
               Stats!AreasUpTo(Space(task[r]), k[r])
        BY <1>3, <3>1, PagesBelow
      <3> QED BY <2>1, <3>2 DEF Stats!Passed
    <2> QED BY <2>1, <2>2, <2>3
  <1>7. Stats!Summed(r)' = Stats!Summed(r) /\ Stats!Passed(r)' = Stats!Passed(r)
    <2>1. Stats!Summed(r)' = Stats!AreasUpTo(Space(task[r]), j - 1)
      BY <1>1 DEF Stats!Summed
    <2>2. Stats!Passed(r)' = {x \in Stats!AreasUpTo(Space(task[r]), j) : x < areas[j].start}
      BY <1>1 DEF Stats!Passed
    <2>3. Stats!Passed(r)' = Stats!AreasUpTo(Space(task[r]), j - 1)
      <3>1. /\ task[r] \in Pids /\ j \in 1 .. Len(Space(task[r]).vmas)
            /\ Space(task[r]).vmas[j].start \in Nat
            /\ Space(task[r]).vmas[j].start <= Space(task[r]).vmas[j].start
        BY <1>3, <1>4
      <3> HIDE DEF j
      <3>2. {x \in Stats!AreasUpTo(Space(task[r]), j) : x < Space(task[r]).vmas[j].start} =
               Stats!AreasUpTo(Space(task[r]), j - 1)
        BY <3>1, PagesBelow
      <3> QED BY <2>2, <3>2
    <2> QED BY <1>3, <1>6, <2>1, <2>3
  <1>8. Stats!WalksKnown'
    <2>1. /\ k'[r] # 0 /\ start'[r] = Space(task'[r]).vmas[k'[r]].start
          /\ end'[r] = Space(task'[r]).vmas[k'[r]].end
          /\ Space(task'[r]).vmas[k'[r]].start <= start'[r] /\ exact'[r]
      BY <1>1, <1>3, <1>4, StatsKnown
    <2> HIDE DEF j, areas
    <2>2. \A q \in Readers : q # r => Stats!Place(q)'
      BY <1>1, PlaceKept
    <2>3. Stats!Place(r)'
      BY <1>1, <1>2, <2>1 DEF Stats!Place
    <2>4. exact' = exact /\ shows_alone' = shows_alone /\ exact \in [Readers -> BOOLEAN]
          /\ shows_alone \in [Readers -> BOOLEAN]
          /\ \A q \in Readers : show'[q] # "idle" => exact[q]
      BY <1>1, <2>1 DEF Stats!IInv, Stats!WalksKnown
    <2> QED BY <1>5, <2>2, <2>3, <2>4 DEF Stats!WalksKnown
  <1>9. Stats!LeftVm' \subseteq Stats!LeftVm /\ Stats!LeftPm' \subseteq Stats!LeftPm
    BY <1>1, <1>2, <1>7, StatsLeft
  <1>10. vm \in 0 .. Room(shows, Stats!LeftVm') /\ pm \in 0 .. Room(shows, Stats!LeftPm')
    BY <1>9, StatsRoom
  <1>11. shows_alone[r] => /\ vm = Cardinality(Stats!Summed(r))
                           /\ pm = Cardinality(Present(task[r]) \cap Stats!Passed(r))
    BY <1>1, <1>2, StatsKnown
  <1>12. task' \in [Readers -> Pids \cup {Stats!None}] /\ \A q \in Readers : task'[q] = task[q] /\ exact'[q] = exact[q]
    BY <1>1, StatsKnown
  <1>13. task'[r] \in Pids /\ k'[r] \in 0 .. Len(Space(task'[r]).vmas) /\ start'[r] <= end'[r]
    BY <1>1, <1>3, <1>4
  <1> HIDE DEF areas, j
  <1>14. /\ show[r] # "idle" /\ UNCHANGED <<pid, unit, attr, shows_alone, shows>>
         /\ \A q \in Readers : q # r =>
               /\ show'[q] = show[q] /\ task'[q] = task[q] /\ k'[q] = k[q] /\ start'[q] = start[q]
               /\ end'[q] = end[q] /\ reg'[q] = reg[q] /\ exact'[q] = exact[q]
         /\ vm' \in 0 .. Room(shows, Stats!LeftVm') /\ pm' \in 0 .. Room(shows, Stats!LeftPm')
         /\ show'[r] = "add_vm" => reg'[r] \in 0 .. Room(shows, Stats!LeftVm')
         /\ show'[r] = "add_pm" => reg'[r] \in 0 .. Room(shows, Stats!LeftPm')
    BY <1>1, <1>10, <1>12
  <1>15. shows_alone[r] =>
            /\ show'[r] = "idle" => exact'[r]
            /\ show'[r] = "find" => vm' = 0 /\ pm' = 0
            /\ Stats!Walking(r)' => /\ vm' = Cardinality(Stats!Summed(r)')
                                    /\ pm' = Cardinality(Present(task'[r]) \cap Stats!Passed(r)')
            /\ show'[r] = "add_vm" => reg'[r] = vm'
            /\ show'[r] = "add_pm" => reg'[r] = pm'
    BY <1>1, <1>7, <1>11, <1>12
  <1> QED BY <1>1, <1>8, <1>9, <1>12, <1>13, <1>14, <1>15, StatsMoves

\* The size of the area is added to what was loaded.
LEMMA StatsStoresVm ==
    ASSUME Stats!IInv, NEW r \in Readers, Stats!StoresVm(r) PROVE Stats!IInv'
  <1> DEFINE areas == Space(task[r]).vmas
             j == k[r]
             area == Stats!VmaPages(Space(task[r]), j)
             size == areas[j].end - areas[j].start
  <1>1. /\ show[r] = "add_vm" /\ show'[r] = "walk"
        /\ \A q \in Readers : q # r => show'[q] = show[q]
        /\ vm' = reg[r] + (end[r] - start[r])
        /\ show' \in [Readers -> {"idle", "reset", "find", "walk", "add_vm", "add_pm"}]
        /\ UNCHANGED <<pm, pid, unit, attr, shows_alone, shows, task, exact, k, start, end, reg>>
    BY StatsKnown DEF Stats!StoresVm, Stats!At, Stats!settings, Stats!walks
  <1>2. /\ Stats!Walking(r) /\ Stats!Walking(r)'
        /\ \A q \in Readers : q # r => (Stats!Walking(q)' <=> Stats!Walking(q))
    BY <1>1 DEF Stats!Walking
  <1>3. /\ task[r] \in Pids /\ j \in 1 .. Len(areas) /\ j \in 0 .. Len(areas)
        /\ start[r] = areas[j].start /\ end[r] = areas[j].end /\ start[r] <= end[r]
    BY <1>1, <1>2, StatsWhere DEF Stats!IInv, Stats!WalksKnown, Stats!Place
  <1>4. /\ area \in SUBSET Pages /\ Cardinality(area) = size
        /\ Stats!AreasUpTo(Space(task[r]), j) = Stats!AreasUpTo(Space(task[r]), j - 1) \cup area
        /\ Stats!AreasUpTo(Space(task[r]), j - 1) \cap area = {}
        /\ Cardinality(Stats!AreasUpTo(Space(task[r]), j)) =
              Cardinality(Stats!AreasUpTo(Space(task[r]), j - 1)) + size
    BY <1>3, NextArea, AreaFacts
  <1>5. /\ Stats!Summed(r) = Stats!AreasUpTo(Space(task[r]), j - 1)
        /\ Stats!Summed(r)' = Stats!AreasUpTo(Space(task[r]), j)
        /\ Stats!Passed(r)' = Stats!Passed(r)
    BY <1>1 DEF Stats!Summed, Stats!Passed
  <1>6. vm' = reg[r] + Cardinality(area)
    BY <1>1, <1>3, <1>4
  <1> HIDE DEF area, size, areas, j
  <1>7. {r} \X area \subseteq Stats!LeftVm /\ Stats!LeftVm' = Stats!LeftVm \ ({r} \X area)
        /\ Stats!LeftPm' \subseteq Stats!LeftPm
    <2>1. /\ Stats!LeftVm \in SUBSET (Readers \X Pages) /\ Stats!LeftVm' \in SUBSET (Readers \X Pages)
          /\ Stats!LeftPm \in SUBSET (Readers \X Pages) /\ Stats!LeftPm' \in SUBSET (Readers \X Pages)
      BY DEF Stats!LeftVm, Stats!LeftPm
    <2>2. \A q \in Readers, x \in Pages : /\ <<q, x>> \in Stats!LeftVm' <=>
                                               <<q, x>> \in Stats!LeftVm /\ ~(q = r /\ x \in area)
                                          /\ q = r /\ x \in area => <<q, x>> \in Stats!LeftVm
                                          /\ <<q, x>> \in Stats!LeftPm' => <<q, x>> \in Stats!LeftPm
      <3>1. \A q \in Readers : q # r =>
               /\ show'[q] = show[q] /\ task'[q] = task[q] /\ k'[q] = k[q] /\ start'[q] = start[q]
        BY <1>1
      <3>2. /\ \A q \in Readers, x \in Pages :
                  /\ q # r => (<<q, x>> \in Stats!LeftVm' <=> <<q, x>> \in Stats!LeftVm)
                  /\ q # r => (<<q, x>> \in Stats!LeftPm' <=> <<q, x>> \in Stats!LeftPm)
            /\ \A x \in Pages :
                  /\ <<r, x>> \in Stats!LeftVm <=> x \notin Stats!Summed(r)
                  /\ <<r, x>> \in Stats!LeftVm' <=> x \notin Stats!Summed(r)'
                  /\ <<r, x>> \in Stats!LeftPm <=> x \notin Stats!Passed(r)
                  /\ <<r, x>> \in Stats!LeftPm' <=> x \notin Stats!Passed(r)'
        BY <1>1, <1>2, <3>1, StatsLeft
      <3> QED BY <1>4, <1>5, <3>2
    <2>3. {r} \X area \subseteq Stats!LeftVm
      BY <1>4, <2>2
    <2>4. Stats!LeftVm' = Stats!LeftVm \ ({r} \X area)
      BY <1>4, <2>1, <2>2
    <2> QED BY <2>1, <2>2, <2>3, <2>4
  <1>8. vm' \in 0 .. Room(shows, Stats!LeftVm')
    <2>1. /\ Cardinality(area) \in Nat
          /\ Room(shows, Stats!LeftVm') = Room(shows, Stats!LeftVm) + Cardinality(area)
          /\ Room(shows, Stats!LeftVm) \in Int
      <3>1. Stats!LeftVm \in SUBSET (Readers \X Pages) /\ shows \in Nat
        BY StatsKnown DEF Stats!LeftVm
      <3> QED BY <1>4, <1>7, <3>1, RoomFacts
    <2>2. reg[r] \in 0 .. Room(shows, Stats!LeftVm)
      BY <1>1, StatsKnown
    <2> QED BY <1>6, <2>1, <2>2
  <1>9. pm' \in 0 .. Room(shows, Stats!LeftPm')
    BY <1>1, <1>7, StatsRoom
  <1>10. Stats!WalksKnown'
    BY <1>1, <1>2 DEF Stats!IInv, Stats!WalksKnown, Stats!Place
  <1>11. shows_alone[r] => /\ vm' = Cardinality(Stats!Summed(r)')
                           /\ pm' = Cardinality(Present(task'[r]) \cap Stats!Passed(r)')
    <2>1. shows_alone[r] => /\ reg[r] = vm /\ vm = Cardinality(Stats!Summed(r))
                            /\ pm = Cardinality(Present(task[r]) \cap Stats!Passed(r))
      BY <1>1, <1>2, StatsKnown
    <2> QED BY <1>1, <1>4, <1>5, <1>6, <2>1
  <1>12. task' \in [Readers -> Pids \cup {Stats!None}]
         /\ \A q \in Readers : /\ task'[q] = task[q] /\ exact'[q] = exact[q] /\ reg'[q] = reg[q]
                               /\ k'[q] = k[q] /\ start'[q] = start[q] /\ end'[q] = end[q]
    BY <1>1, StatsKnown
  <1>13. task'[r] \in Pids /\ k'[r] \in 0 .. Len(Space(task'[r]).vmas) /\ start'[r] <= end'[r]
    BY <1>3, <1>12 DEF areas, j
  <1> QED BY <1>1, <1>2, <1>7, <1>8, <1>9, <1>10, <1>11, <1>12, <1>13, StatsMoves

\* A page that is present: pm is loaded.
LEMMA StatsAddsPage ==
    ASSUME Stats!IInv, NEW r \in Readers, Stats!AddsPage(r) PROVE Stats!IInv'
  <1>1. /\ show[r] = "walk" /\ show'[r] = "add_pm" /\ start[r] < end[r] /\ start[r] \in Present(task[r])
        /\ \A q \in Readers : q # r => show'[q] = show[q] /\ reg'[q] = reg[q]
        /\ reg'[r] = pm /\ reg' \in [Readers -> Nat]
        /\ show' \in [Readers -> {"idle", "reset", "find", "walk", "add_vm", "add_pm"}]
        /\ UNCHANGED <<vm, pm, pid, unit, attr, shows_alone, shows, task, exact, k, start, end>>
    BY StatsKnown DEF Stats!AddsPage, Stats!InTable, Stats!At, Stats!settings, Stats!walks
  <1>2. /\ Stats!Walking(r) /\ Stats!Walking(r)'
        /\ \A q \in Readers : q # r => (Stats!Walking(q)' <=> Stats!Walking(q))
    BY <1>1 DEF Stats!Walking
  <1>3. Stats!Summed(r)' = Stats!Summed(r) /\ Stats!Passed(r)' = Stats!Passed(r)
    BY <1>1 DEF Stats!Summed, Stats!Passed
  <1>4. Stats!WalksKnown'
    BY <1>1, <1>2 DEF Stats!IInv, Stats!WalksKnown, Stats!Place
  <1>5. Stats!LeftVm' \subseteq Stats!LeftVm /\ Stats!LeftPm' \subseteq Stats!LeftPm
    BY <1>1, <1>2, <1>3, StatsLeft
  <1>6. vm \in 0 .. Room(shows, Stats!LeftVm') /\ pm \in 0 .. Room(shows, Stats!LeftPm')
    BY <1>5, StatsRoom
  <1>7. shows_alone[r] => /\ vm = Cardinality(Stats!Summed(r))
                          /\ pm = Cardinality(Present(task[r]) \cap Stats!Passed(r))
    BY <1>1, <1>2, StatsKnown
  <1>8. /\ task' \in [Readers -> Pids \cup {Stats!None}]
        /\ \A q \in Readers : /\ task'[q] = task[q] /\ exact'[q] = exact[q]
                              /\ k'[q] = k[q] /\ start'[q] = start[q] /\ end'[q] = end[q]
    BY <1>1, StatsKnown
  <1>9. task'[r] \in Pids /\ k'[r] \in 0 .. Len(Space(task'[r]).vmas) /\ start'[r] <= end'[r]
    BY <1>1, <1>2, <1>8, StatsWhere
  <1>10. /\ show[r] # "idle" /\ UNCHANGED <<pid, unit, attr, shows_alone, shows>>
         /\ \A q \in Readers : q # r =>
               /\ show'[q] = show[q] /\ task'[q] = task[q] /\ k'[q] = k[q] /\ start'[q] = start[q]
               /\ end'[q] = end[q] /\ reg'[q] = reg[q] /\ exact'[q] = exact[q]
         /\ vm' \in 0 .. Room(shows, Stats!LeftVm') /\ pm' \in 0 .. Room(shows, Stats!LeftPm')
         /\ show'[r] = "add_vm" => reg'[r] \in 0 .. Room(shows, Stats!LeftVm')
         /\ show'[r] = "add_pm" => reg'[r] \in 0 .. Room(shows, Stats!LeftPm')
    BY <1>1, <1>6, <1>8
  <1>11. shows_alone[r] =>
            /\ show'[r] = "idle" => exact'[r]
            /\ show'[r] = "find" => vm' = 0 /\ pm' = 0
            /\ Stats!Walking(r)' => /\ vm' = Cardinality(Stats!Summed(r)')
                                    /\ pm' = Cardinality(Present(task'[r]) \cap Stats!Passed(r)')
            /\ show'[r] = "add_vm" => reg'[r] = vm'
            /\ show'[r] = "add_pm" => reg'[r] = pm'
    BY <1>1, <1>3, <1>7, <1>8
  <1> QED BY <1>1, <1>4, <1>5, <1>8, <1>9, <1>10, <1>11, StatsMoves

\* The walk goes past a page: one that is not present, or one that is added.
LEMMA StatsGoesOn ==
    ASSUME Stats!IInv, NEW r \in Readers, Stats!SkipsPage(r) \/ Stats!StoresPm(r)
    PROVE  Stats!IInv'
  <1> DEFINE p == start[r]
  \* What has no table is not present.
  <1>0. Stats!SkipsPage(r) => p \notin Present(task[r])
    <2> SUFFICES ASSUME Stats!SkipsPage(r), p \in Present(task[r]) PROVE FALSE
      OBVIOUS
    <2>1. show[r] = "walk" /\ ~Stats!HasTable(Space(task[r]), p)
      BY DEF Stats!SkipsPage, Stats!At, Stats!InTable
    <2>2. task[r] \in Pids
      BY <2>1 DEF Stats!IInv, Stats!TypeOK
    <2>3. p \in Stats!TablePages(Space(task[r]))
      BY <2>2, StatsAssumption DEF Stats!ShowsAssumption
    <2> QED BY <2>1, <2>3 DEF Stats!TablePages
  <1>1. /\ \/ show[r] = "walk" /\ p \notin Present(task[r]) /\ pm' = pm
           \/ show[r] = "add_pm" /\ p \in Present(task[r]) /\ pm' = reg[r] + 1
        /\ show'[r] = "walk" /\ p < end[r]
        /\ \A q \in Readers : q # r => show'[q] = show[q] /\ start'[q] = start[q]
        /\ start'[r] = p + 1 /\ start' \in [Readers -> Nat]
        /\ show' \in [Readers -> {"idle", "reset", "find", "walk", "add_vm", "add_pm"}]
        /\ UNCHANGED <<vm, pid, unit, attr, shows_alone, shows, task, exact, k, end, reg>>
    BY <1>0, StatsKnown DEF Stats!SkipsPage, Stats!StoresPm, Stats!At, Stats!settings, Stats!IInv,
                      Stats!WalksKnown, Stats!Place
  <1>2. /\ Stats!Walking(r) /\ Stats!Walking(r)' /\ show[r] # "add_vm"
        /\ \A q \in Readers : q # r => (Stats!Walking(q)' <=> Stats!Walking(q))
    BY <1>1 DEF Stats!Walking
  <1>3. /\ task[r] \in Pids /\ k[r] \in 1 .. Len(Space(task[r]).vmas) /\ p \in Nat /\ end[r] \in Nat
        /\ Space(task[r]).vmas[k[r]].start <= p /\ end[r] = Space(task[r]).vmas[k[r]].end
        /\ Space(task[r]).vmas[k[r]].start \in Nat /\ k[r] # 0 /\ k[r] \in 0 .. Len(Space(task[r]).vmas)
    <2>1. k[r] # 0
      BY <1>1, <1>2, StatsWhere
    <2> QED BY <1>2, <2>1, StatsWhere, AreaFacts
  <1>4. /\ Stats!Summed(r)' = Stats!Summed(r)
        /\ Stats!Passed(r)' = Stats!Passed(r) \cup {p} /\ p \notin Stats!Passed(r)
        /\ p \in Pages
    <2> HIDE DEF p
    <2>1. p < Space(task[r]).vmas[k[r]].end
      BY <1>1, <1>3
    <2>2. /\ p \in Stats!AreasUpTo(Space(task[r]), k[r])
          /\ {x \in Stats!AreasUpTo(Space(task[r]), k[r]) : x < p + 1} =
                {x \in Stats!AreasUpTo(Space(task[r]), k[r]) : x < p} \cup {p}
      BY <1>3, <2>1, PagesBelow
    <2>3. p \in Pages
      BY <1>3, <2>2, AreasFinite
    <2>4. Stats!Summed(r)' = Stats!Summed(r)
      BY <1>1, <1>2 DEF Stats!Summed
    <2>5. Stats!Passed(r)' = {x \in Stats!AreasUpTo(Space(task[r]), k[r]) : x < p + 1}
      BY <1>1 DEF Stats!Passed
    <2>6. Stats!Passed(r) = {x \in Stats!AreasUpTo(Space(task[r]), k[r]) : x < p}
      BY DEF Stats!Passed, p
    <2> QED BY <1>3, <2>2, <2>3, <2>4, <2>5, <2>6
  <1>5. Stats!WalksKnown'
    <2>1. \A q \in Readers : q # r => Stats!Place(q)'
      BY <1>1, <1>2 DEF Stats!IInv, Stats!WalksKnown, Stats!Place
    <2>2. Space(task[r]).vmas[k[r]].start <= p + 1
      <3> HIDE DEF p
      <3> QED BY <1>3
    <2>3. Stats!Place(r)'
      BY <1>1, <1>2, <1>3, <2>2 DEF Stats!Place
    <2>4. \A q \in Readers : show'[q] # "idle" => show[q] # "idle"
      BY <1>1
    <2> QED BY <1>1, <2>1, <2>3, <2>4 DEF Stats!IInv, Stats!WalksKnown
  <1> HIDE DEF p
  <1>6. /\ Stats!LeftVm' \subseteq Stats!LeftVm /\ Stats!LeftPm' \subseteq Stats!LeftPm
        /\ {r} \X {p} \subseteq Stats!LeftPm /\ Stats!LeftPm' = Stats!LeftPm \ ({r} \X {p})
    <2>1. /\ Stats!LeftVm \in SUBSET (Readers \X Pages) /\ Stats!LeftVm' \in SUBSET (Readers \X Pages)
          /\ Stats!LeftPm \in SUBSET (Readers \X Pages) /\ Stats!LeftPm' \in SUBSET (Readers \X Pages)
      BY DEF Stats!LeftVm, Stats!LeftPm
    <2>2. \A q \in Readers, x \in Pages : /\ <<q, x>> \in Stats!LeftPm' <=>
                                               <<q, x>> \in Stats!LeftPm /\ ~(q = r /\ x = p)
                                          /\ <<q, x>> \in Stats!LeftVm' => <<q, x>> \in Stats!LeftVm
      <3>1. \A q \in Readers : q # r =>
               /\ show'[q] = show[q] /\ task'[q] = task[q] /\ k'[q] = k[q] /\ start'[q] = start[q]
        BY <1>1
      <3>2. /\ \A q \in Readers, x \in Pages :
                  /\ q # r => (<<q, x>> \in Stats!LeftVm' <=> <<q, x>> \in Stats!LeftVm)
                  /\ q # r => (<<q, x>> \in Stats!LeftPm' <=> <<q, x>> \in Stats!LeftPm)
            /\ \A x \in Pages :
                  /\ <<r, x>> \in Stats!LeftVm <=> x \notin Stats!Summed(r)
                  /\ <<r, x>> \in Stats!LeftVm' <=> x \notin Stats!Summed(r)'
                  /\ <<r, x>> \in Stats!LeftPm <=> x \notin Stats!Passed(r)
                  /\ <<r, x>> \in Stats!LeftPm' <=> x \notin Stats!Passed(r)'
            /\ <<r, p>> \in Stats!LeftPm
        BY <1>1, <1>2, <1>4, <3>1, StatsLeft
      <3> QED BY <1>4, <3>2
    <2>3. <<r, p>> \in Stats!LeftPm
      <3>1. p \in Pages /\ p \notin Stats!Passed(r) /\ show[r] # "idle"
        BY <1>1, <1>4
      <3> QED BY <1>1, <3>1, StatsLeft
    <2>4. Stats!LeftPm' = Stats!LeftPm \ ({r} \X {p})
      BY <2>1, <2>2
    <2> QED BY <2>1, <2>2, <2>3, <2>4
  <1>7. pm' \in 0 .. Room(shows, Stats!LeftPm') /\ vm' \in 0 .. Room(shows, Stats!LeftVm')
    <2>1. /\ vm \in 0 .. Room(shows, Stats!LeftVm') /\ pm \in 0 .. Room(shows, Stats!LeftPm')
      BY <1>6, StatsRoom
    <2>2. CASE show[r] = "walk"
      BY <1>1, <2>1, <2>2
    <2>3. CASE show[r] = "add_pm"
      <3>1. Stats!LeftPm \in SUBSET (Readers \X Pages) /\ shows \in Nat /\ {p} \in SUBSET Pages
        BY <1>4, StatsKnown DEF Stats!LeftPm
      <3>2. /\ Room(shows, Stats!LeftPm') = Room(shows, Stats!LeftPm) + Cardinality({p})
            /\ Room(shows, Stats!LeftPm) \in Int
        BY <1>6, <3>1, RoomFacts
      <3>3. reg[r] \in 0 .. Room(shows, Stats!LeftPm)
        BY <2>3, StatsKnown
      <3>4. pm' = reg[r] + 1
        BY <1>1, <2>3
      <3>5. Cardinality({p}) = 1
        BY FS_Singleton
      <3>6. pm' \in 0 .. Room(shows, Stats!LeftPm')
        BY <3>2, <3>3, <3>4, <3>5
      <3> QED BY <1>1, <2>1, <3>6
    <2> QED BY <1>1, <2>2, <2>3
  <1>8. shows_alone[r] => /\ vm' = Cardinality(Stats!Summed(r)')
                          /\ pm' = Cardinality(Present(task'[r]) \cap Stats!Passed(r)')
    <2> SUFFICES ASSUME shows_alone[r]
                 PROVE  /\ vm' = Cardinality(Stats!Summed(r)')
                        /\ pm' = Cardinality(Present(task'[r]) \cap Stats!Passed(r)')
      OBVIOUS
    <2>1. /\ vm = Cardinality(Stats!Summed(r))
          /\ pm = Cardinality(Present(task[r]) \cap Stats!Passed(r))
          /\ show[r] = "add_pm" => reg[r] = pm
      BY <1>1, <1>2, StatsKnown
    <2> DEFINE A == Present(task[r]) \cap Stats!Passed(r)
    <2>2. IsFiniteSet(A)
      <3>1. A \subseteq Pages
        BY <1>2, StatsWhere
      <3> QED BY <3>1, StatsFinite, FS_Subset
    <2>3. CASE show[r] = "walk"
      <3>1. Present(task'[r]) \cap Stats!Passed(r)' = A
        BY <1>1, <1>4, <2>3
      <3> QED BY <1>1, <1>4, <2>1, <2>3, <3>1
    <2>4. CASE show[r] = "add_pm"
      <3>1. Present(task'[r]) \cap Stats!Passed(r)' = A \cup {p} /\ p \notin A
        BY <1>1, <1>4, <2>4
      <3> HIDE DEF A
      <3>2. Cardinality(A \cup {p}) = Cardinality(A) + 1
        BY <2>2, <3>1, FS_AddElement
      <3> QED BY <1>1, <1>4, <2>1, <2>4, <3>1, <3>2 DEF A
    <2> QED BY <1>1, <2>3, <2>4
  <1>9. /\ task' \in [Readers -> Pids \cup {Stats!None}]
        /\ \A q \in Readers : /\ task'[q] = task[q] /\ exact'[q] = exact[q] /\ reg'[q] = reg[q]
                              /\ k'[q] = k[q] /\ end'[q] = end[q]
    BY <1>1, StatsKnown
  <1>10. task'[r] \in Pids /\ k'[r] \in 0 .. Len(Space(task'[r]).vmas) /\ start'[r] <= end'[r]
    BY <1>1, <1>3, <1>9
  <1> QED BY <1>1, <1>2, <1>5, <1>6, <1>7, <1>8, <1>9, <1>10, StatsMoves

\* The show returns: what is summed up is the size of the process.
LEMMA StatsReturns ==
    ASSUME Stats!IInv, NEW r \in Readers, Stats!Returns(r) PROVE Stats!IInv'
  <1>1. /\ show[r] = "walk" /\ show'[r] = "idle" /\ start[r] >= end[r]
        /\ k[r] = Len(Space(task[r]).vmas)
        /\ \A q \in Readers : q # r =>
              /\ show'[q] = show[q] /\ task'[q] = task[q] /\ k'[q] = k[q] /\ start'[q] = start[q]
              /\ end'[q] = end[q] /\ reg'[q] = reg[q] /\ exact'[q] = exact[q]
        /\ task' \in [Readers -> Pids \cup {Stats!None}]
        /\ k'[r] = 0 /\ start'[r] = 0 /\ end'[r] = 0
        /\ k' \in [Readers -> Nat] /\ start' \in [Readers -> Nat] /\ end' \in [Readers -> Nat]
        /\ reg' \in [Readers -> Nat]
        /\ show' \in [Readers -> {"idle", "reset", "find", "walk", "add_vm", "add_pm"}]
        /\ UNCHANGED <<vm, pm, pid, unit, attr, shows_alone, shows>>
    BY StatsKnown DEF Stats!Returns, Stats!At, Stats!settings
  <1>2. /\ exact' \in [Readers -> BOOLEAN]
        /\ (IF attr[r] = "vm" THEN vm ELSE pm) = Stats!Size(r) => exact'[r]
    <2>1. exact' = [exact EXCEPT ![r] = Stats!Convert(IF attr[r] = "vm" THEN vm ELSE pm)
                                           = Stats!Convert(Stats!Size(r))]
      BY DEF Stats!Returns
    <2>2. exact \in [Readers -> BOOLEAN]
      BY StatsKnown
    <2> QED BY <2>1, <2>2
  <1>3. /\ Stats!Walking(r) /\ ~Stats!Walking(r)' /\ show[r] # "add_vm"
        /\ \A q \in Readers : q # r => (Stats!Walking(q)' <=> Stats!Walking(q))
    BY <1>1 DEF Stats!Walking
  <1>4. shows_alone[r] => exact'[r]
    <2> SUFFICES ASSUME shows_alone[r] PROVE (IF attr[r] = "vm" THEN vm ELSE pm) = Stats!Size(r)
      BY <1>2
    <2>1. /\ vm = Cardinality(Stats!Summed(r))
          /\ pm = Cardinality(Present(task[r]) \cap Stats!Passed(r))
      BY <1>1, <1>3, StatsKnown
    <2>2. /\ task[r] \in Pids /\ start[r] \in Nat /\ end[r] \in Nat
          /\ k[r] # 0 => /\ k[r] \in 1 .. Len(Space(task[r]).vmas)
                         /\ Space(task[r]).vmas[k[r]].start <= start[r]
                         /\ end[r] = Space(task[r]).vmas[k[r]].end
      BY <1>3, StatsWhere
    <2>3. Stats!Summed(r) = Stats!AllAreas(Space(task[r]))
      BY <1>1, <1>3 DEF Stats!Summed, Stats!AllAreas
    <2>4. Stats!Passed(r) = Stats!AllAreas(Space(task[r]))
      <3>1. CASE k[r] = 0
        <4>1. Stats!AreasUpTo(Space(task[r]), 0) = {}
          BY DEF Stats!AreasUpTo
        <4> QED BY <1>1, <3>1, <4>1 DEF Stats!Passed, Stats!AllAreas
      <3>2. CASE k[r] # 0
        <4>1. /\ k[r] \in 1 .. Len(Space(task[r]).vmas)
              /\ Space(task[r]).vmas[k[r]].start <= start[r]
              /\ start[r] >= Space(task[r]).vmas[k[r]].end
          BY <1>1, <2>2, <3>2
        <4>2. {x \in Stats!AreasUpTo(Space(task[r]), k[r]) : x < start[r]} =
                 Stats!AreasUpTo(Space(task[r]), k[r])
          BY <2>2, <4>1, PagesBelow
        <4> QED BY <1>1, <4>2 DEF Stats!Passed, Stats!AllAreas
      <3> QED BY <3>1, <3>2
    <2>5. Present(task[r]) \cap Stats!Passed(r) = Present(task[r])
      <3>1. Present(task[r]) \subseteq Stats!AllAreas(Space(task[r]))
        BY <2>2, StatsAssumption DEF Stats!ShowsAssumption, Stats!TablePages
      <3> QED BY <2>4, <3>1
    <2>6. /\ Stats!Cardinality(Stats!AllAreas(Space(task[r]))) = Cardinality(Stats!AllAreas(Space(task[r])))
          /\ Stats!Cardinality(Present(task[r])) = Cardinality(Present(task[r]))
      BY StatsCounts
    <2> QED BY <2>1, <2>3, <2>5, <2>6 DEF Stats!Size
  <1>5. Stats!WalksKnown'
    <2>1. \A q \in Readers : q # r => Stats!Place(q)'
      BY <1>1, PlaceKept
    <2>2. Stats!Place(r)'
      BY <1>1, <1>3 DEF Stats!Place
    <2>3. shows_alone' \in [Readers -> BOOLEAN] /\ \A q \in Readers : show'[q] # "idle" => exact'[q]
      BY <1>1 DEF Stats!IInv, Stats!WalksKnown
    <2> QED BY <1>1, <1>2, <2>1, <2>2, <2>3 DEF Stats!WalksKnown
  <1>6. Stats!LeftVm' \subseteq Stats!LeftVm /\ Stats!LeftPm' \subseteq Stats!LeftPm
    <2>1. \A q \in Readers : q # r =>
             /\ show'[q] = show[q] /\ task'[q] = task[q] /\ k'[q] = k[q] /\ start'[q] = start[q]
      BY <1>1
    <2>2. /\ \A q \in Readers, x \in Pages :
                /\ <<q, x>> \in Stats!LeftVm' => <<q, x>> \in Stats!LeftVm
                /\ <<q, x>> \in Stats!LeftPm' => <<q, x>> \in Stats!LeftPm
          /\ Stats!LeftVm' \in SUBSET (Readers \X Pages) /\ Stats!LeftPm' \in SUBSET (Readers \X Pages)
      BY <1>1, <2>1, StatsLeft
    <2> QED BY <2>2
  <1>7. vm \in 0 .. Room(shows, Stats!LeftVm') /\ pm \in 0 .. Room(shows, Stats!LeftPm')
    BY <1>6, StatsRoom
  <1> QED BY <1>1, <1>3, <1>4, <1>5, <1>6, <1>7, StatsMoves

\* A show begins; it overlaps those under way.
LEMMA StatsShow ==
    ASSUME Stats!IInv, NEW r \in Readers, Stats!Show(r) PROVE Stats!IInv'
  <1>1. /\ show[r] = "idle" /\ shows' = shows + 1 /\ shows < MaxShows
        /\ \A q \in Readers : q # r => show'[q] = show[q]
        /\ show'[r] = "reset" \/ show' = show
        /\ show' \in [Readers -> {"idle", "reset", "find", "walk", "add_vm", "add_pm"}]
        /\ UNCHANGED <<vm, pm, pid, unit, task, k, start, end, reg>>
    BY StatsKnown DEF Stats!Show, Stats!At, Stats!settings, Stats!walks
  <1>2. /\ exact' \in [Readers -> BOOLEAN] /\ exact'[r]
        /\ \A q \in Readers : q # r => exact'[q] = exact[q]
    BY StatsKnown DEF Stats!Show
  <1>3. attr' \in [Readers -> {"vm", "pm"}]
    BY DEF Stats!Show, Stats!IInv, Stats!TypeOK
  <1>4. /\ shows_alone' \in [Readers -> BOOLEAN]
        /\ shows_alone'[r] => \A x \in Readers : show[x] = "idle"
        /\ \A q \in Readers : q # r /\ shows_alone'[q] => shows_alone[q] /\ show[q] = "idle"
    BY DEF Stats!Show, Stats!IInv, Stats!WalksKnown
  <1>5. /\ ~Stats!Walking(r) /\ ~Stats!Walking(r)'
        /\ \A q \in Readers : q # r => (Stats!Walking(q)' <=> Stats!Walking(q))
    BY <1>1 DEF Stats!Walking
  <1>6. Stats!WalksKnown'
    <2>1. /\ k \in [Readers -> Nat] /\ start \in [Readers -> Nat] /\ end \in [Readers -> Nat]
          /\ reg \in [Readers -> Nat] /\ k[r] = 0 /\ start[r] = 0 /\ end[r] = 0
      BY <1>5, StatsKnown
    <2>2. Stats!Place(r)'
      BY <1>1, <1>5, <2>1 DEF Stats!Place
    <2>3. \A q \in Readers : q # r => Stats!Place(q)'
      BY <1>1, <1>5 DEF Stats!IInv, Stats!WalksKnown, Stats!Place
    <2>4. \A q \in Readers : show'[q] # "idle" => exact'[q]
      BY <1>1, <1>2, StatsKnown
    <2> QED BY <1>1, <1>2, <1>4, <2>1, <2>2, <2>3, <2>4 DEF Stats!WalksKnown
  <1>7. shows \in Nat /\ shows' \in Nat /\ shows' \in 0 .. MaxShows
    <2>1. shows \in 0 .. MaxShows /\ MaxShows \in Nat
      BY StatsAssumption DEF Stats!ShowsAssumption, Stats!IInv, Stats!TypeOK
    <2> QED BY <1>1, <2>1
  <1>8. /\ Stats!LeftVm \in SUBSET (Readers \X Pages) /\ Stats!LeftPm \in SUBSET (Readers \X Pages)
        /\ Stats!LeftVm' \in SUBSET (Readers \X Pages) /\ Stats!LeftPm' \in SUBSET (Readers \X Pages)
    BY DEF Stats!LeftVm, Stats!LeftPm
  \* It has all pages to add, if it does not return an error.
  <1>9. /\ \A q \in Readers, x \in Pages :
              /\ q # r => (<<q, x>> \in Stats!LeftVm' <=> <<q, x>> \in Stats!LeftVm)
              /\ q # r => (<<q, x>> \in Stats!LeftPm' <=> <<q, x>> \in Stats!LeftPm)
        /\ \A x \in Pages : /\ <<r, x>> \notin Stats!LeftVm /\ <<r, x>> \notin Stats!LeftPm
                            /\ <<r, x>> \in Stats!LeftVm' <=> show'[r] # "idle"
                            /\ <<r, x>> \in Stats!LeftPm' <=> show'[r] # "idle"
    <2>1. \A q \in Readers : q # r =>
             /\ show'[q] = show[q] /\ task'[q] = task[q] /\ k'[q] = k[q] /\ start'[q] = start[q]
      BY <1>1
    <2> QED BY <1>1, <1>5, <2>1, StatsLeft
  <1>10. /\ Room(shows, Stats!LeftVm) \in Int /\ Room(shows', Stats!LeftVm') \in Int
         /\ Room(shows, Stats!LeftVm) <= Room(shows', Stats!LeftVm')
         /\ Room(shows, Stats!LeftPm) \in Int /\ Room(shows', Stats!LeftPm') \in Int
         /\ Room(shows, Stats!LeftPm) <= Room(shows', Stats!LeftPm')
    <2>1. CASE show'[r] = "idle"
      <3>1. Stats!LeftVm' = Stats!LeftVm /\ Stats!LeftPm' = Stats!LeftPm
        BY <1>8, <1>9, <2>1
      <3> QED BY <1>1, <1>7, <1>8, <3>1, RoomFacts
    <2>2. CASE show'[r] # "idle"
      <3>1. /\ Stats!LeftVm' = Stats!LeftVm \cup ({r} \X Pages)
            /\ Stats!LeftPm' = Stats!LeftPm \cup ({r} \X Pages)
        BY <1>8, <1>9, <2>2
      <3>2. /\ Stats!LeftVm \cap ({r} \X Pages) = {} /\ Stats!LeftPm \cap ({r} \X Pages) = {}
        BY <1>9
      <3>3. /\ Room(shows + 1, Stats!LeftVm') = Room(shows, Stats!LeftVm)
            /\ Room(shows + 1, Stats!LeftPm') = Room(shows, Stats!LeftPm)
            /\ Room(shows, Stats!LeftVm) \in Int /\ Room(shows, Stats!LeftPm) \in Int
        BY <1>7, <1>8, <3>1, <3>2, RoomFacts
      <3> QED BY <1>1, <3>3
    <2> QED BY <2>1, <2>2
  <1>11. Stats!SumsBounded'
    <2>1. /\ Stats!Most(Stats!LeftVm)' = Room(shows', Stats!LeftVm')
          /\ Stats!Most(Stats!LeftPm)' = Room(shows', Stats!LeftPm')
      BY MostIsRoom
    <2>2. /\ vm' \in 0 .. Room(shows', Stats!LeftVm') /\ pm' \in 0 .. Room(shows', Stats!LeftPm')
          /\ \A q \in Readers :
                /\ show[q] = "add_vm" => reg[q] \in 0 .. Room(shows', Stats!LeftVm')
                /\ show[q] = "add_pm" => reg[q] \in 0 .. Room(shows', Stats!LeftPm')
      BY <1>1, <1>10, StatsKnown
    <2>3. \A q \in Readers : /\ show'[q] = "add_vm" => show[q] = "add_vm" /\ reg'[q] = reg[q]
                             /\ show'[q] = "add_pm" => show[q] = "add_pm" /\ reg'[q] = reg[q]
      BY <1>1
    <2> QED BY <2>1, <2>2, <2>3 DEF Stats!SumsBounded
  <1>12. Stats!TypeOK'
    <2> DEFINE m == shows' * Cardinality(Pages)
    <2>1. /\ Room(shows', Stats!LeftVm') <= m /\ Room(shows', Stats!LeftPm') <= m /\ m \in Nat
          /\ Room(shows', Stats!LeftVm') \in Int /\ Room(shows', Stats!LeftPm') \in Int
      BY <1>7, <1>8, RoomFacts
    <2>2. vm' \in 0 .. Room(shows', Stats!LeftVm') /\ pm' \in 0 .. Room(shows', Stats!LeftPm')
      BY <1>11, MostIsRoom DEF Stats!SumsBounded
    <2>3. vm' \in 0 .. m /\ pm' \in 0 .. m
      <3> HIDE DEF m
      <3> QED BY <2>1, <2>2
    <2>4. vm' \in 0 .. shows' * Stats!Cardinality(Pages) /\ pm' \in 0 .. shows' * Stats!Cardinality(Pages)
      BY <2>3, StatsCounts
    <2>5. \A q \in Readers : show'[q] \in {"walk", "add_vm", "add_pm"} =>
              /\ task'[q] \in Pids /\ k'[q] \in 0 .. Len(Space(task'[q]).vmas)
              /\ start'[q] <= end'[q]
      BY <1>1 DEF Stats!IInv, Stats!TypeOK
    <2> QED BY <1>1, <1>3, <1>7, <2>4, <2>5 DEF Stats!IInv, Stats!TypeOK
  <1>13. \A q \in Readers : show'[q] # "idle" /\ shows_alone'[q] =>
            /\ q = r /\ show'[r] = "reset" /\ \A x \in Readers : x # r => show'[x] = "idle"
    BY <1>1, <1>4
  <1>14. Stats!AloneSums'
    BY <1>5, <1>13 DEF Stats!AloneSums
  <1>15. Stats!AloneExact'
    BY <1>1, <1>2, <1>4 DEF Stats!IInv, Stats!AloneExact
  <1> QED BY <1>6, <1>11, <1>12, <1>14, <1>15 DEF Stats!IInv

\* Another pid or unit, or nothing.
LEMMA StatsSettings ==
    ASSUME Stats!IInv,
           UNCHANGED <<vm, pm, show, attr, task, k, start, end, reg, shows_alone, shows, exact>>,
           pid' = pid \/ pid' \in PidInputs, unit' = unit \/ unit' \in DOMAIN UnitSize
    PROVE  Stats!IInv'
  <1>1. Stats!TypeOK'
    BY DEF Stats!IInv, Stats!TypeOK
  <1>2. \A r \in Readers : /\ Stats!Walking(r)' <=> Stats!Walking(r)
                           /\ Stats!Summed(r)' = Stats!Summed(r) /\ Stats!Passed(r)' = Stats!Passed(r)
                           /\ Stats!Place(r)' <=> Stats!Place(r)
    BY DEF Stats!Walking, Stats!Summed, Stats!Passed, Stats!Place
  <1>3. Stats!WalksKnown' /\ Stats!AloneSums' /\ Stats!AloneExact'
    BY <1>2 DEF Stats!IInv, Stats!WalksKnown, Stats!AloneSums, Stats!AloneExact
  <1>4. Stats!LeftVm' = Stats!LeftVm /\ Stats!LeftPm' = Stats!LeftPm
    BY <1>2 DEF Stats!LeftVm, Stats!LeftPm
  <1>5. Stats!SumsBounded'
    BY <1>4 DEF Stats!IInv, Stats!SumsBounded, Stats!Most
  <1> QED BY <1>1, <1>3, <1>5 DEF Stats!IInv

\* The start.
LEMMA StatsInit == Stats!Init => Stats!IInv
  <1> SUFFICES ASSUME Stats!Init PROVE Stats!IInv
    OBVIOUS
  <1> USE DEF Stats!Init
  <1>1. Stats!LeftVm = {} /\ Stats!LeftPm = {}
    BY DEF Stats!LeftVm, Stats!LeftPm
  <1>2. Stats!Most({}) = 0 /\ 0 * Stats!Cardinality(Pages) = 0
    <2>1. Cardinality(Pages) \in Nat /\ Cardinality({}) = 0
      BY StatsFinite, FS_CardinalityType, FS_EmptySet
    <2>2. Stats!Cardinality(Pages) = Cardinality(Pages) /\ Stats!Cardinality({}) = Cardinality({})
      BY StatsCounts
    <2> QED BY <2>1, <2>2 DEF Stats!Most
  <1>3. Stats!TypeOK
    BY <1>2, StatsAssumption DEF Stats!TypeOK, Stats!ShowsAssumption
  <1>4. Stats!WalksKnown
    BY DEF Stats!WalksKnown, Stats!Place, Stats!Walking
  <1>5. Stats!SumsBounded
    BY <1>1, <1>2 DEF Stats!SumsBounded
  <1>6. Stats!AloneSums /\ Stats!AloneExact
    BY DEF Stats!AloneSums, Stats!AloneExact
  <1> QED BY <1>3, <1>4, <1>5, <1>6 DEF Stats!IInv

\* No step of a reader or a writer breaks the invariant.
LEMMA StatsStepIInv == ASSUME Stats!IInv, [Stats!Next]_statsVars PROVE Stats!IInv'
  <1>1. CASE UNCHANGED statsVars \/ Stats!PidStore \/ Stats!UnitStore
    BY <1>1, StatsSettings DEF statsVars, Stats!PidStore, Stats!UnitStore, Stats!walks
  <1>2. ASSUME NEW r \in Readers, Stats!Show(r) \/ Stats!Continues(r) PROVE Stats!IInv'
    BY <1>2, StatsShow, StatsReset, StatsFind, StatsAddsArea, StatsStoresVm, StatsAddsPage,
       StatsGoesOn, StatsReturns DEF Stats!Continues
  <1> QED BY <1>1, <1>2 DEF Stats!Next

\* The invariant of get_memstats holds in every state.
THEOREM StatsInvariance == Spec => []Stats!IInv
  <1>1. Init => Stats!IInv
    BY StatsInit DEF Init
  <1>2. Stats!IInv /\ [Next]_vars => Stats!IInv'
    <2>1. [Next]_vars => [Stats!Next]_statsVars
      BY DEF Next, vars, ListsStep, IoctlStep, StatsStep, FaultsStep, LifeStep
    <2> QED BY <2>1, StatsStepIInv
  <1> QED BY <1>1, <1>2, PTL DEF Spec

\* A show no other show overlaps returns the whole size of one process, whatever
\* is written to pid and unit meanwhile and whatever is left in the globals.
THEOREM LoneShowsAreExact == Spec => []AloneExact
  <1>1. Stats!IInv => AloneExact
    BY DEF Stats!IInv, AloneExact
  <1> QED BY <1>1, StatsInvariance, PTL

-----------------------------------------------------------------------------
(* get_pgfaults                                                            *)

\* Induction over the numbers up to Cpus.
LEMMA UpToCpus ==
    ASSUME NEW T, 0 \in T, \A n \in 1 .. Cpus : n - 1 \in T => n \in T
    PROVE  \A n \in 0 .. Cpus : n \in T
  <1>1. Cpus \in Nat
    BY FaultsAssumption DEF Faults!SizesAssumption
  <1> QED BY <1>1, UpToN

\* The sums over the first processors.
IsSums(g, f, n) ==
    /\ g \in [0 .. n -> Nat] /\ g[0] = 0
    /\ \A c \in 1 .. n : g[c] = g[c - 1] + f[c]

\* The sums of all_vm_events over the processors exist for every count of events:
\* those over the first n - 1 extend to the first n.
LEMMA SumsExist ==
    ASSUME NEW f \in [1 .. Cpus -> Nat]
    PROVE  \E g : IsSums(g, f, Cpus)
  <1> DEFINE T == {n \in 0 .. Cpus : \E g : IsSums(g, f, n)}
  <1>1. Cpus \in Nat /\ 0 \in 0 .. Cpus
    BY FaultsAssumption DEF Faults!SizesAssumption
  <1>2. 0 \in T
    <2> DEFINE g == [c \in 0 .. 0 |-> 0]
    <2>1. IsSums(g, f, 0)
      BY DEF IsSums
    <2> HIDE DEF g
    <2> QED BY <1>1, <2>1
  <1>3. ASSUME NEW n \in 1 .. Cpus, n - 1 \in T PROVE n \in T
    <2>1. PICK g : IsSums(g, f, n - 1)
      BY <1>3
    <2> DEFINE h == [c \in 0 .. n |-> IF c = n THEN g[n - 1] + f[n] ELSE g[c]]
    <2>2. /\ n \in Nat /\ n - 1 \in 0 .. n - 1 /\ n # 0 /\ n \in 0 .. Cpus
          /\ \A c \in 0 .. n : c # n => c \in 0 .. n - 1
          /\ \A c \in 1 .. n : c - 1 \in 0 .. n /\ c - 1 # n /\ c \in 0 .. n /\ (c # n => c \in 1 .. n - 1)
          /\ 0 \in 0 .. n
      BY <1>1
    <2>3. g[n - 1] \in Nat /\ f[n] \in Nat /\ g \in [0 .. n - 1 -> Nat] /\ g[0] = 0
          /\ \A c \in 1 .. n - 1 : g[c] = g[c - 1] + f[c]
      BY <2>1, <2>2 DEF IsSums
    <2>4. h \in [0 .. n -> Nat]
      BY <2>2, <2>3
    <2>5. h[0] = 0
      BY <2>2, <2>3
    <2>6. ASSUME NEW c \in 1 .. n PROVE h[c] = h[c - 1] + f[c]
      <3>1. h[c - 1] = g[c - 1] /\ h[c] = IF c = n THEN g[n - 1] + f[n] ELSE g[c]
        BY <2>2
      <3> HIDE DEF h
      <3> QED BY <2>2, <2>3, <3>1
    <2> HIDE DEF h
    <2>7. IsSums(h, f, n)
      BY <2>4, <2>5, <2>6 DEF IsSums
    <2> QED BY <2>2, <2>7
  <1> HIDE DEF T
  <1>4. Cpus \in T
    BY <1>1, <1>2, <1>3, UpToCpus
  <1> QED BY <1>4 DEF T

\* So the function that PgFaults chooses is the one of the sums.
LEMMA UpToIsSums ==
    ASSUME NEW f \in [1 .. Cpus -> Nat]
    PROVE  IsSums(Faults!UpTo(f), f, Cpus)
  <1> DEFINE Body(g) == [c \in 0 .. Cpus |-> IF c = 0 THEN 0 ELSE g[c - 1] + f[c]]
  <1>1. Faults!UpTo(f) = CHOOSE g : g = Body(g)
    BY Zenon DEF Faults!UpTo
  <1>2. Cpus \in Nat
    BY FaultsAssumption DEF Faults!SizesAssumption
  <1>3. PICK g : IsSums(g, f, Cpus)
    BY SumsExist
  <1>4. g = Body(g)
    BY <1>2, <1>3 DEF IsSums
  <1> HIDE DEF Body
  <1> DEFINE u == Faults!UpTo(f)
  <1>5. u = Body(u)
    BY <1>1, <1>4
  <1> HIDE DEF u
  <1>6. u[0] = 0 /\ \A c \in 1 .. Cpus : u[c] = u[c - 1] + f[c]
    BY <1>2, <1>5 DEF Body
  <1> DEFINE T == {n \in 0 .. Cpus : u[n] \in Nat}
  <1>7. \A n \in 0 .. Cpus : n \in T
    <2>1. 0 \in T
      BY <1>2, <1>6
    <2>2. \A n \in 1 .. Cpus : n - 1 \in T => n \in T
      BY <1>2, <1>6
    <2> HIDE DEF T
    <2> QED BY <2>1, <2>2, UpToCpus
  <1>8. u \in [0 .. Cpus -> Nat]
    <2>1. u = [c \in 0 .. Cpus |-> u[c]]
      BY <1>5 DEF Body
    <2> QED BY <1>7, <2>1
  <1> QED BY <1>6, <1>8 DEF IsSums, u

\* What a page fault does to the sums.
LEMMA OneMore ==
    ASSUME NEW f \in [1 .. Cpus -> Nat], NEW d \in 1 .. Cpus, NEW h,
           h = [f EXCEPT ![d] = @ + 1]
    PROVE  /\ h \in [1 .. Cpus -> Nat]
           /\ \A n \in 0 .. Cpus :
                 Faults!UpTo(h)[n] = IF n < d THEN Faults!UpTo(f)[n] ELSE Faults!UpTo(f)[n] + 1
  <1> DEFINE u == Faults!UpTo(f)
             v == Faults!UpTo(h)
             T == {n \in 0 .. Cpus : v[n] = IF n < d THEN u[n] ELSE u[n] + 1}
  <1>1. h \in [1 .. Cpus -> Nat]
    OBVIOUS
  <1>2. IsSums(u, f, Cpus) /\ IsSums(v, h, Cpus)
    BY <1>1, UpToIsSums
  <1>3. Cpus \in Nat
    BY FaultsAssumption DEF Faults!SizesAssumption
  <1> HIDE DEF u, v
  <1>4. 0 \in T
    BY <1>2, <1>3 DEF IsSums
  <1>5. ASSUME NEW n \in 1 .. Cpus, n - 1 \in T PROVE n \in T
    <2>1. /\ n - 1 \in 0 .. Cpus /\ n \in 0 .. Cpus
          /\ u[n - 1] \in Nat /\ u[n] = u[n - 1] + f[n] /\ v[n] = v[n - 1] + h[n]
      <3> HIDE DEF T
      <3>1. /\ u \in [0 .. Cpus -> Nat] /\ \A c \in 1 .. Cpus : u[c] = u[c - 1] + f[c]
            /\ \A c \in 1 .. Cpus : v[c] = v[c - 1] + h[c]
        BY <1>2 DEF IsSums
      <3>2. n - 1 \in 0 .. Cpus /\ n \in 0 .. Cpus
        BY <1>3
      <3> QED BY <3>1, <3>2
    <2>2. v[n - 1] = IF n - 1 < d THEN u[n - 1] ELSE u[n - 1] + 1
      BY <1>5
    <2>3. f[n] \in Nat /\ h[n] = IF n = d THEN f[n] + 1 ELSE f[n]
      OBVIOUS
    <2>4. v[n] = IF n < d THEN u[n] ELSE u[n] + 1
      BY <2>1, <2>2, <2>3
    <2> QED BY <2>1, <2>4
  <1>6. \A n \in 0 .. Cpus : n \in T
    <2> HIDE DEF T
    <2> QED BY <1>4, <1>5, UpToCpus
  <1> QED BY <1>1, <1>6 DEF u, v

-----------------------------------------------------------------------------
\* The sums that are now, as the steps need them.
LEMMA SumsNow ==
    ASSUME Faults!TypeOK
    PROVE  /\ Faults!UpTo(faults)[0] = 0 /\ Faults!Sum \in Nat
           /\ Faults!Sum = Faults!UpTo(faults)[Cpus]
           /\ \A c \in 0 .. Cpus : Faults!UpTo(faults)[c] \in Nat
           /\ \A c \in 1 .. Cpus : /\ faults[c] \in Nat
                                  /\ Faults!UpTo(faults)[c] = Faults!UpTo(faults)[c - 1] + faults[c]
  <1>1. faults \in [1 .. Cpus -> Nat] /\ Cpus \in Nat
    BY FaultsAssumption DEF Faults!SizesAssumption, Faults!TypeOK
  <1>2. IsSums(Faults!UpTo(faults), faults, Cpus)
    BY <1>1, UpToIsSums
  <1> QED BY <1>1, <1>2 DEF IsSums, Faults!Sum

\* A line is no longer than MaxLine.
LEMMA LineFits ==
    ASSUME NEW n \in Nat
    PROVE  Len(Faults!Line(n)) \in Nat /\ Len(Faults!Line(n)) <= Faults!MaxLine
  <1>1. Faults!Digits(n) \in Seq(Nat) /\ Len(Faults!Digits(n)) \in 1 .. 2
    <2>1. n \div 10 \in Nat /\ n % 10 \in Nat
      OBVIOUS
    <2>2. <<n>> \in Seq(Nat) /\ Len(<<n>>) = 1
      OBVIOUS
    <2>3. <<n \div 10>> \in Seq(Nat) /\ Len(<<n \div 10>>) = 1
      BY <2>1
    <2>4. /\ Append(<<n \div 10>>, n % 10) \in Seq(Nat)
          /\ Len(Append(<<n \div 10>>, n % 10)) = 2
      BY <2>1, <2>3, AppendProperties
    <2> QED BY <2>2, <2>4 DEF Faults!Digits
  <1>2. <<Faults!Label>> \in Seq(Nat) /\ Len(<<Faults!Label>>) = 1
    BY DEF Faults!Label
  <1>3. <<Faults!Newline>> \in Seq(Nat) /\ Len(<<Faults!Newline>>) = 1
    BY DEF Faults!Newline
  <1> DEFINE l == <<Faults!Label>>
             d == Faults!Digits(n)
             e == <<Faults!Newline>>
  <1>4. /\ l \in Seq(Nat) /\ d \in Seq(Nat) /\ e \in Seq(Nat)
        /\ Len(l) = 1 /\ Len(d) \in 1 .. 2 /\ Len(e) = 1
    BY <1>1, <1>2, <1>3
  <1>5. Faults!Line(n) = (l \o d) \o e
    BY DEF Faults!Line
  <1> HIDE DEF l, d, e
  <1>6. l \o d \in Seq(Nat) /\ Len(l \o d) = Len(l) + Len(d)
    BY <1>4, ConcatProperties
  <1>7. Len((l \o d) \o e) = Len(l \o d) + Len(e)
    BY <1>4, <1>6, ConcatProperties
  <1> DEFINE m == Len((l \o d) \o e)
             x == Len(d)
  <1>8. m = (1 + x) + 1 /\ x \in 1 .. 2
    BY <1>4, <1>6, <1>7, Zenon
  <1> HIDE DEF m, x
  <1>9. m \in 3 .. 4
    BY <1>8
  <1>10. m \in Nat /\ m <= 4
    BY <1>9
  <1> QED BY <1>5, <1>10 DEF m, Faults!MaxLine

\* The start.
LEMMA FaultsInit == Faults!Init => Faults!IInv
  <1> SUFFICES ASSUME Faults!Init PROVE Faults!IInv
    OBVIOUS
  <1>1. Cpus \in Nat /\ FirstFaults \in [1 .. Cpus -> Nat]
    BY FaultsAssumption DEF Faults!SizesAssumption
  <1> QED BY <1>1 DEF Faults!Init, Faults!IInv, Faults!TypeOK, Faults!AloneSums,
                      Faults!LonePieceTrue, Faults!Reading, Faults!MaxLine

\* A page fault raises the number of page faults, and maybe what a reader has
\* passed of it.
LEMMA FaultsFault == ASSUME Faults!IInv, Faults!Fault PROVE Faults!IInv'
  <1>1. /\ Faults!TypeOK /\ low \in [Readers -> Nat] /\ Cpus \in Nat
        /\ faults \in [1 .. Cpus -> Nat] /\ ev \in Nat /\ total_pgfaults \in Nat
        /\ cpu \in [Readers -> 0 .. Cpus]
    BY FaultsAssumption DEF Faults!SizesAssumption, Faults!IInv, Faults!TypeOK
  <1>2. PICK d \in 1 .. Cpus : faults' = [faults EXCEPT ![d] = @ + 1]
    BY DEF Faults!Fault
  <1>3. UNCHANGED <<ev, total_pgfaults, read, cpu, count, offset, low, reads_alone, honest>>
    BY DEF Faults!Fault, Faults!file, Faults!history
  <1>4. /\ faults' \in [1 .. Cpus -> Nat]
        /\ \A n \in 0 .. Cpus :
              Faults!UpTo(faults')[n] =
                 IF n < d THEN Faults!UpTo(faults)[n] ELSE Faults!UpTo(faults)[n] + 1
    <2>1. \A h : h = [faults EXCEPT ![d] = @ + 1] =>
             /\ h \in [1 .. Cpus -> Nat]
             /\ \A n \in 0 .. Cpus :
                   Faults!UpTo(h)[n] =
                      IF n < d THEN Faults!UpTo(faults)[n] ELSE Faults!UpTo(faults)[n] + 1
      BY <1>1, OneMore, Zenon
    <2> QED BY <1>2, <2>1, Zenon
  <1>5. Faults!TypeOK'
    BY <1>3, <1>4 DEF Faults!IInv, Faults!TypeOK
  <1>6. Faults!Sum = Faults!UpTo(faults)[Cpus] /\ Faults!Sum' = Faults!UpTo(faults')[Cpus]
        /\ Faults!Sum \in Nat
    BY <1>1, SumsNow DEF Faults!Sum
  <1>7. Faults!Sum' = Faults!Sum + 1
    BY <1>1, <1>4, <1>6
  <1>8. Faults!AloneSums'
    <2> SUFFICES ASSUME NEW r \in Readers, Faults!Reading(r)', reads_alone'[r]
                 PROVE  /\ \A q \in Readers \ {r} : ~Faults!Reading(q)'
                        /\ read'[r] = "events" =>
                              /\ ev' <= Faults!UpTo(faults')[cpu'[r]]
                              /\ low'[r] + Faults!UpTo(faults')[cpu'[r]] <= ev' + Faults!Sum'
                        /\ read'[r] = "total" => total_pgfaults' \in low'[r] .. Faults!Sum'
      BY DEF Faults!AloneSums
    <2>1. Faults!Reading(r) /\ reads_alone[r] /\ \A q \in Readers : Faults!Reading(q)' <=> Faults!Reading(q)
      BY <1>3 DEF Faults!Reading
    <2>2. /\ \A q \in Readers \ {r} : ~Faults!Reading(q)
          /\ read[r] = "events" => /\ ev <= Faults!UpTo(faults)[cpu[r]]
                                   /\ low[r] + Faults!UpTo(faults)[cpu[r]] <= ev + Faults!Sum
          /\ read[r] = "total" => total_pgfaults \in low[r] .. Faults!Sum
      BY <2>1 DEF Faults!IInv, Faults!AloneSums
    <2> DEFINE c == cpu[r]
               x == Faults!UpTo(faults)[c]
               y == Faults!UpTo(faults')[c]
    <2>3. c \in 0 .. Cpus /\ low[r] \in Nat
      BY <1>1
    <2>4. x \in Nat /\ (y = x \/ y = x + 1)
      BY <1>1, <1>4, <2>3, SumsNow
    <2> HIDE DEF c, x, y
    <2>5. /\ ev <= x => ev <= y
          /\ low[r] + x <= ev + Faults!Sum => low[r] + y <= ev + Faults!Sum'
          /\ total_pgfaults \in low[r] .. Faults!Sum => total_pgfaults \in low[r] .. Faults!Sum'
      <3> DEFINE l == low[r]
                 s == Faults!Sum
                 t == Faults!Sum'
      <3>1. l \in Nat /\ s \in Nat /\ t = s + 1 /\ ev \in Nat /\ total_pgfaults \in Nat
        BY <1>1, <1>6, <1>7, <2>3
      <3> HIDE DEF l, s, t
      <3>2. /\ ev <= x => ev <= y
            /\ l + x <= ev + s => l + y <= ev + t
            /\ total_pgfaults \in l .. s => total_pgfaults \in l .. t
        BY <2>4, <3>1
      <3> QED BY <3>2 DEF l, s, t
    <2> QED BY <1>3, <2>1, <2>2, <2>5 DEF c, x, y
  <1> QED BY <1>3, <1>5, <1>8 DEF Faults!IInv, Faults!LonePieceTrue

\* A read begins; it overlaps those under way.
LEMMA FaultsRead == ASSUME Faults!IInv, NEW r \in Readers, Faults!Read(r) PROVE Faults!IInv'
  <1>1. /\ Faults!TypeOK /\ low \in [Readers -> Nat] /\ count \in [Readers -> Nat]
        /\ Counts \subseteq Nat /\ Cpus \in Nat
        /\ read \in [Readers -> {"user", "events", "total", "eof"}] /\ cpu \in [Readers -> 0 .. Cpus]
        /\ reads_alone \in [Readers -> BOOLEAN]
    BY FaultsAssumption DEF Faults!SizesAssumption, Faults!IInv, Faults!TypeOK
  <1>2. Faults!UpTo(faults)[0] = 0 /\ Faults!Sum \in Nat
    BY <1>1, SumsNow
  <1>3. /\ read[r] = "user" /\ read'[r] = "events" /\ cpu'[r] = 0 /\ ev' = 0 /\ low'[r] = Faults!Sum
        /\ UNCHANGED <<faults, total_pgfaults, offset, honest>>
        /\ \A q \in Readers : q # r => read'[q] = read[q]
        /\ \A q \in Readers : q # r /\ reads_alone'[q] => reads_alone[q] /\ ~Faults!Reading(q)
        /\ reads_alone'[r] => \A q \in Readers : ~Faults!Reading(q)
    BY <1>1 DEF Faults!Read, Faults!At, Faults!ClearedEvents
  <1>4. /\ read' \in [Readers -> {"user", "events", "total", "eof"}] /\ cpu' \in [Readers -> 0 .. Cpus]
        /\ count' \in [Readers -> Nat] /\ low' \in [Readers -> Nat]
        /\ reads_alone' \in [Readers -> BOOLEAN]
    <2>1. reads_alone' \in [Readers -> BOOLEAN]
      <3>1. (\A x \in Readers : ~Faults!Reading(x)) \in BOOLEAN
        OBVIOUS
      <3>2. \A q \in Readers : (reads_alone[q] /\ ~Faults!Reading(q)) \in BOOLEAN
        OBVIOUS
      <3> QED BY <3>1, <3>2 DEF Faults!Read
    <2>2. count' \in [Readers -> Nat]
      <3>1. PICK n \in Counts : count' = [count EXCEPT ![r] = n]
        BY DEF Faults!Read
      <3> QED BY <1>1, <3>1
    <2>3. low' = [low EXCEPT ![r] = Faults!Sum] /\ cpu' = [cpu EXCEPT ![r] = 0]
          /\ read' = [read EXCEPT ![r] = "events"] /\ 0 \in 0 .. Cpus
      BY <1>1 DEF Faults!Read, Faults!At
    <2> QED BY <1>1, <1>2, <2>1, <2>2, <2>3
  <1>5. Faults!TypeOK'
    BY <1>3, <1>4 DEF Faults!IInv, Faults!TypeOK
  <1>6. Faults!UpTo(faults)' = Faults!UpTo(faults) /\ Faults!Sum' = Faults!Sum
    BY <1>3 DEF Faults!Sum, Faults!UpTo
  <1>7. \A q \in Readers : q # r => (Faults!Reading(q)' <=> Faults!Reading(q))
    BY <1>3 DEF Faults!Reading
  <1>8. Faults!AloneSums'
    <2>1. 0 <= 0 /\ Faults!Sum + 0 <= 0 + Faults!Sum
      BY <1>2
    <2> QED BY <1>2, <1>3, <1>6, <1>7, <2>1 DEF Faults!AloneSums
  <1>9. Faults!LonePieceTrue'
    BY <1>3 DEF Faults!IInv, Faults!LonePieceTrue
  <1> QED BY <1>3, <1>4, <1>5, <1>8, <1>9 DEF Faults!IInv

\* Of the next processor, what it has counted is added.
LEMMA FaultsAddsCpu == ASSUME Faults!IInv, NEW r \in Readers, Faults!AddsCpu(r) PROVE Faults!IInv'
  <1> DEFINE c == cpu[r]
  <1>1. /\ Faults!TypeOK /\ low \in [Readers -> Nat] /\ Cpus \in Nat
        /\ ev \in Nat /\ faults \in [1 .. Cpus -> Nat] /\ cpu \in [Readers -> 0 .. Cpus]
    BY FaultsAssumption DEF Faults!SizesAssumption, Faults!IInv, Faults!TypeOK
  <1>2. /\ read[r] = "events" /\ c < Cpus /\ cpu'[r] = c + 1 /\ ev' = ev + faults[c + 1]
        /\ cpu' = [cpu EXCEPT ![r] = c + 1]
        /\ UNCHANGED <<faults, total_pgfaults, read, count, offset, low, reads_alone, honest>>
    <2>1. /\ read[r] = "events" /\ c < Cpus /\ ev' = ev + faults[cpu'[r]]
          /\ cpu' = [cpu EXCEPT ![r] = c + 1]
          /\ UNCHANGED <<faults, total_pgfaults, read, count, offset, low, reads_alone, honest>>
      BY DEF Faults!AddsCpu, Faults!file, Faults!history
    <2>2. cpu'[r] = c + 1
      BY <1>1, <2>1
    <2> QED BY <2>1, <2>2
  <1>3. c \in 0 .. Cpus /\ c + 1 \in 1 .. Cpus /\ c + 1 \in 0 .. Cpus /\ (c + 1) - 1 = c
    BY <1>1, <1>2
  <1>4. /\ faults[c + 1] \in Nat /\ Faults!UpTo(faults)[c] \in Nat /\ Faults!Sum \in Nat
        /\ Faults!UpTo(faults)[c + 1] = Faults!UpTo(faults)[c] + faults[c + 1]
    <2> HIDE DEF c
    <2> QED BY <1>1, <1>3, SumsNow
  <1>5. Faults!TypeOK'
    <2>1. ev' \in Nat /\ cpu' \in [Readers -> 0 .. Cpus]
      BY <1>1, <1>2, <1>3, <1>4
    <2> QED BY <1>2, <2>1 DEF Faults!IInv, Faults!TypeOK
  <1>6. Faults!UpTo(faults)' = Faults!UpTo(faults) /\ Faults!Sum' = Faults!Sum
    BY <1>2 DEF Faults!Sum, Faults!UpTo
  <1>7. \A q \in Readers : Faults!Reading(q)' <=> Faults!Reading(q)
    BY <1>2 DEF Faults!Reading
  <1>8. Faults!Reading(r)
    BY <1>2 DEF Faults!Reading
  <1>9. Faults!AloneSums'
    <2> SUFFICES ASSUME reads_alone[r]
                 PROVE  /\ \A q \in Readers \ {r} : ~Faults!Reading(q)
                        /\ ev' <= Faults!UpTo(faults)[c + 1]
                        /\ low[r] + Faults!UpTo(faults)[c + 1] <= ev' + Faults!Sum
      BY <1>2, <1>6, <1>7, <1>8 DEF Faults!IInv, Faults!AloneSums
    <2>1. /\ \A q \in Readers \ {r} : ~Faults!Reading(q)
          /\ ev <= Faults!UpTo(faults)[c] /\ low[r] + Faults!UpTo(faults)[c] <= ev + Faults!Sum
      BY <1>2, <1>8 DEF Faults!IInv, Faults!AloneSums
    <2> DEFINE x == Faults!UpTo(faults)[c]
               z == Faults!UpTo(faults)[c + 1]
               n == faults[c + 1]
    <2>2. x \in Nat /\ n \in Nat /\ z = x + n /\ low[r] \in Nat /\ ev' = ev + n
          /\ ev <= x /\ low[r] + x <= ev + Faults!Sum
      BY <1>1, <1>2, <1>4, <2>1
    <2> HIDE DEF x, n, z, c
    <2>3. ev' <= z /\ low[r] + z <= ev' + Faults!Sum
      BY <1>1, <1>4, <2>2
    <2> QED BY <2>1, <2>3 DEF z
  <1> QED BY <1>2, <1>5, <1>9 DEF Faults!IInv, Faults!LonePieceTrue

\* All processors are added up.
LEMMA FaultsTakesTotal ==
    ASSUME Faults!IInv, NEW r \in Readers, Faults!TakesTotal(r) PROVE Faults!IInv'
  <1>1. /\ Faults!TypeOK /\ low \in [Readers -> Nat] /\ Cpus \in Nat /\ ev \in Nat
        /\ read \in [Readers -> {"user", "events", "total", "eof"}]
    BY FaultsAssumption DEF Faults!SizesAssumption, Faults!IInv, Faults!TypeOK
  <1>2. /\ read[r] = "events" /\ cpu[r] = Cpus /\ read'[r] = "total" /\ total_pgfaults' = ev
        /\ read' = [read EXCEPT ![r] = "total"]
        /\ UNCHANGED <<faults, ev, cpu, count, offset, low, reads_alone, honest>>
        /\ \A q \in Readers : q # r => read'[q] = read[q]
    BY <1>1 DEF Faults!TakesTotal, Faults!At, Faults!file, Faults!history
  <1>3. Faults!TypeOK'
    BY <1>1, <1>2 DEF Faults!IInv, Faults!TypeOK
  <1>4. Faults!UpTo(faults)' = Faults!UpTo(faults) /\ Faults!Sum' = Faults!Sum
    BY <1>2 DEF Faults!Sum, Faults!UpTo
  <1>5. Faults!Reading(r) /\ \A q \in Readers : Faults!Reading(q)' <=> Faults!Reading(q)
    BY <1>2 DEF Faults!Reading
  <1>6. Faults!AloneSums'
    <2>1. ASSUME reads_alone[r]
          PROVE  /\ \A q \in Readers \ {r} : ~Faults!Reading(q)
                 /\ ev \in low[r] .. Faults!Sum
      <3>1. /\ \A q \in Readers \ {r} : ~Faults!Reading(q)
            /\ ev <= Faults!Sum /\ low[r] + Faults!Sum <= ev + Faults!Sum
        BY <1>2, <1>5, <2>1 DEF Faults!IInv, Faults!AloneSums, Faults!Sum
      <3>2. Faults!Sum \in Nat /\ low[r] \in Nat
        BY <1>1, SumsNow
      <3>3. ev \in low[r] .. Faults!Sum
        BY <1>1, <3>1, <3>2
      <3> QED BY <3>1, <3>3
    <2>2. \A q \in Readers : q # r /\ Faults!Reading(q) => ~reads_alone[q]
      BY <1>5 DEF Faults!IInv, Faults!AloneSums
    <2> QED BY <1>2, <1>4, <1>5, <2>1, <2>2 DEF Faults!AloneSums
  <1>7. Faults!LonePieceTrue'
    BY <1>2 DEF Faults!IInv, Faults!LonePieceTrue
  <1> QED BY <1>2, <1>3, <1>6, <1>7 DEF Faults!IInv

\* The read returns, at the end of the file or with a piece of the line.
LEMMA FaultsReturns ==
    ASSUME Faults!IInv, NEW r \in Readers, Faults!AtEnd(r) \/ Faults!Copies(r) PROVE Faults!IInv'
  <1>1. /\ Faults!TypeOK /\ low \in [Readers -> Nat] /\ Cpus \in Nat /\ total_pgfaults \in Nat
        /\ read \in [Readers -> {"user", "events", "total", "eof"}] /\ count \in [Readers -> Nat]
        /\ offset \in [Readers -> 0 .. Faults!MaxLine] /\ honest \in [Readers -> BOOLEAN]
        /\ cpu \in [Readers -> 0 .. Cpus]
    BY FaultsAssumption DEF Faults!SizesAssumption, Faults!IInv, Faults!TypeOK
  <1>2. /\ read[r] = "total" /\ read'[r] \in {"user", "eof"}
        /\ read' \in [Readers -> {"user", "events", "total", "eof"}]
        /\ count' = [count EXCEPT ![r] = 0] /\ cpu' = [cpu EXCEPT ![r] = 0]
        /\ low' = [low EXCEPT ![r] = 0]
        /\ UNCHANGED <<faults, ev, total_pgfaults, reads_alone>>
        /\ \A q \in Readers : q # r => read'[q] = read[q]
    BY <1>1 DEF Faults!AtEnd, Faults!Copies, Faults!Copied, Faults!Returns
  <1>3. count' \in [Readers -> Nat] /\ cpu' \in [Readers -> 0 .. Cpus] /\ low' \in [Readers -> Nat]
    BY <1>1, <1>2
  <1>4. /\ Faults!Reading(r) /\ ~Faults!Reading(r)'
        /\ \A q \in Readers : q # r => (Faults!Reading(q)' <=> Faults!Reading(q))
    BY <1>2 DEF Faults!Reading
  \* A reader that was alone was alone in the kernel.
  <1>5. Faults!AloneSums'
    <2>1. \A q \in Readers : q # r /\ Faults!Reading(q) => ~reads_alone[q]
      BY <1>4 DEF Faults!IInv, Faults!AloneSums
    <2> QED BY <1>2, <1>4, <2>1 DEF Faults!AloneSums
  <1>6. CASE Faults!AtEnd(r)
    <2>1. UNCHANGED <<offset, honest>> /\ read'[r] = "eof"
      BY <1>1, <1>6 DEF Faults!AtEnd, Faults!Returns
    <2>2. Faults!TypeOK'
      BY <1>2, <1>3, <2>1 DEF Faults!IInv, Faults!TypeOK
    <2>3. Faults!LonePieceTrue'
      BY <1>2, <2>1 DEF Faults!IInv, Faults!LonePieceTrue
    <2> QED BY <1>1, <1>3, <1>5, <2>1, <2>2, <2>3 DEF Faults!IInv
  <1>7. CASE Faults!Copies(r)
    <2> DEFINE n == Faults!Given(r)
               len == Len(Faults!Line(total_pgfaults))
    <2>1. len \in Nat /\ len <= Faults!MaxLine
      BY <1>1, LineFits
    <2>2. n \in Nat /\ offset[r] + n \in 0 .. Faults!MaxLine
      <3>1. ~(offset[r] >= len) /\ n = IF count[r] > len - offset[r] THEN len - offset[r] ELSE count[r]
        BY <1>7 DEF Faults!Copies, Faults!Copied, Faults!Ended, Faults!Given
      <3>2. count[r] \in Nat /\ offset[r] \in Nat /\ Faults!MaxLine = 4
        BY <1>1 DEF Faults!MaxLine
      <3> HIDE DEF n, len
      <3> QED BY <2>1, <3>1, <3>2
    <2> HIDE DEF n, len
    <2>3. offset' = [offset EXCEPT ![r] = offset[r] + n]
      BY <1>7 DEF Faults!Copies, Faults!Copied, n
    <2>4. offset' \in [Readers -> 0 .. Faults!MaxLine]
      BY <1>1, <2>2, <2>3
    <2>5. /\ honest' \in [Readers -> BOOLEAN] /\ \A q \in Readers : q # r => honest'[q] = honest[q]
          /\ (\E m \in low[r] .. Faults!Sum : Faults!Piece(r, m) = Faults!Piece(r, total_pgfaults))
                => honest'[r]
      <3> DEFINE h == \E m \in low[r] .. Faults!Sum : Faults!Piece(r, m) = Faults!Piece(r, total_pgfaults)
      <3>1. honest' = [honest EXCEPT ![r] = h] /\ h \in BOOLEAN
        BY <1>7 DEF Faults!Copies, Faults!Copied
      <3> HIDE DEF h
      <3>2. honest' \in [Readers -> BOOLEAN] /\ honest'[r] = h
            /\ \A q \in Readers : q # r => honest'[q] = honest[q]
        BY <1>1, <3>1
      <3> QED BY <3>2 DEF h
    <2>6. Faults!TypeOK'
      BY <1>1, <1>2, <1>3, <2>4, <2>5 DEF Faults!TypeOK
    <2>7. reads_alone[r] => honest'[r]
      <3> SUFFICES ASSUME reads_alone[r] PROVE honest'[r]
        OBVIOUS
      <3>1. total_pgfaults \in low[r] .. Faults!Sum
        BY <1>2, <1>4 DEF Faults!IInv, Faults!AloneSums
      <3> QED BY <2>5, <3>1
    <2>8. Faults!LonePieceTrue'
      BY <1>2, <2>5, <2>7 DEF Faults!IInv, Faults!LonePieceTrue
    <2> QED BY <1>3, <1>5, <2>6, <2>8 DEF Faults!IInv
  <1> QED BY <1>6, <1>7

\* No page fault and no step of a reader breaks the invariant.
LEMMA FaultsStepIInv == ASSUME Faults!IInv, [Faults!Next]_faultsVars PROVE Faults!IInv'
  <1>1. CASE UNCHANGED faultsVars \/ Faults!Over
    <2>1. UNCHANGED <<faults, ev, total_pgfaults, read, cpu, count, offset, low,
                      reads_alone, honest>>
      BY <1>1 DEF faultsVars, Faults!Over, Faults!vars, Faults!file, Faults!history
    <2>2. Faults!Sum' = Faults!Sum /\ Faults!UpTo(faults)' = Faults!UpTo(faults)
      BY <2>1 DEF Faults!Sum, Faults!UpTo
    <2>3. Faults!AloneSums'
      BY <2>1, <2>2 DEF Faults!IInv, Faults!AloneSums, Faults!Reading
    <2> QED BY <2>1, <2>3 DEF Faults!IInv, Faults!TypeOK, Faults!LonePieceTrue
  <1> QED BY <1>1, FaultsFault, FaultsRead, FaultsAddsCpu, FaultsTakesTotal, FaultsReturns
          DEF Faults!Next, Faults!Reader

\* The invariant of get_pgfaults holds in every state.
THEOREM FaultsInvariance == Spec => []Faults!IInv
  <1>1. Init => Faults!IInv
    BY FaultsInit DEF Init
  <1>2. Faults!IInv /\ [Next]_vars => Faults!IInv'
    <2>1. [Next]_vars => [Faults!Next]_faultsVars
      BY DEF Next, vars, ListsStep, IoctlStep, StatsStep, FaultsStep, LifeStep
    <2> QED BY <2>1, FaultsStepIInv
  <1> QED BY <1>1, <1>2, PTL DEF Spec

\* A read no other read overlaps hands out a piece of the line of a number of page
\* faults there was between its beginning and its end.
THEOREM LonePiecesAreTrue == Spec => []LonePieceTrue
  <1>1. Faults!IInv => LonePieceTrue
    BY DEF Faults!IInv, LonePieceTrue
  <1> QED BY <1>1, FaultsInvariance, PTL

-----------------------------------------------------------------------------
(* The lists of children                                                   *)

\* Positions read from the other end.
LEMMA BackTwice ==
    ASSUME NEW pos \in [Soldiers -> Int]
    PROVE  /\ Lists!Back(pos) \in [Soldiers -> Int]
           /\ \A s \in Soldiers : Lists!Back(pos)[s] = -pos[s]
           /\ Lists!Back(Lists!Back(pos)) = pos
  BY DEF Lists!Back

\* Only the links of the members and of the head count, and the positions of the members.
LEMMA LinkedAlike ==
    ASSUME NEW M \in SUBSET Soldiers, NEW h, h \notin M,
           NEW pos \in [Soldiers -> Int], NEW pos2 \in [Soldiers -> Int], NEW f, NEW f2,
           \A s \in M : pos2[s] = pos[s],
           \A x \in M \cup {h} : f2[x] = f[x],
           Lists!Linked(f, h, M, pos)
    PROVE  Lists!Linked(f2, h, M, pos2)
  <1>1. \A x \in M \cup {h} : f2[x] \in M \cup {h}
    BY DEF Lists!Linked
  <1>2. \A x \in M : f2[x] \in M => pos2[x] < pos2[f2[x]]
    BY DEF Lists!Linked
  <1>3. \A x \in M \cup {h}, m \in M :
          x = h \/ pos2[x] < pos2[m] => f2[x] \in M /\ pos2[f2[x]] <= pos2[m]
    BY DEF Lists!Linked
  <1> QED BY <1>1, <1>2, <1>3 DEF Lists!Linked

\* A member is taken out: the one who was linked to it (nobody else was, or
\* the order would go back) is linked to what follows it.
LEMMA LinkedWithout ==
    ASSUME NEW M \in SUBSET Soldiers, NEW h, h \notin M, NEW pos \in [Soldiers -> Int], NEW f, NEW f2,
           \A s, t \in M : pos[s] = pos[t] => s = t,
           Lists!Linked(f, h, M, pos),
           NEW s \in M, NEW y \in M \cup {h}, f[y] = s,
           \A x \in (M \ {s}) \cup {h} : f2[x] = IF x = y THEN f[s] ELSE f[x]
    PROVE  Lists!Linked(f2, h, M \ {s}, pos)
  <1> DEFINE N == M \ {s}
  <1>1. ASSUME NEW x \in M \cup {h}, f[x] = s, x # y PROVE FALSE
    <2>1. ASSUME NEW u \in M \cup {h}, NEW v \in M, f[u] = s, f[v] = s, u = h \/ pos[u] < pos[v]
          PROVE  FALSE
      <3>1. pos[s] <= pos[v] /\ pos[v] < pos[s]
        BY <2>1 DEF Lists!Linked
      <3>2. pos[s] \in Int /\ pos[v] \in Int
        BY <2>1
      <3> QED BY <3>1, <3>2
    <2>2. CASE x \in M /\ y \in M
      <3>1. pos[x] \in Int /\ pos[y] \in Int /\ pos[x] # pos[y]
        BY <1>1, <2>2
      <3>2. pos[x] < pos[y] \/ pos[y] < pos[x]
        BY <3>1
      <3> QED BY <1>1, <2>1, <2>2, <3>2
    <2> QED BY <1>1, <2>1, <2>2
  <1>2. f[s] # s /\ f[s] \in M \cup {h} /\ y # s
    BY DEF Lists!Linked
  <1>3. \A x \in M : pos[x] \in Int
    OBVIOUS
  <1>4. \A x \in N \cup {h} : f2[x] \in N \cup {h}
    BY <1>1, <1>2 DEF Lists!Linked
  <1>5. \A x \in N : f2[x] \in N => pos[x] < pos[f2[x]]
    <2> SUFFICES ASSUME NEW x \in N, f2[x] \in N PROVE pos[x] < pos[f2[x]]
      OBVIOUS
    <2>1. CASE x = y
      <3>1. pos[y] < pos[s] /\ pos[s] < pos[f[s]]
        BY <2>1, <1>2 DEF Lists!Linked
      <3> QED BY <2>1, <3>1, <1>3
    <2>2. CASE x # y
      BY <2>2 DEF Lists!Linked
    <2> QED BY <2>1, <2>2
  <1>6. ASSUME NEW x \in N \cup {h}, NEW m \in N, x = h \/ pos[x] < pos[m]
        PROVE  f2[x] \in N /\ pos[f2[x]] <= pos[m]
    <2>1. f[x] \in M /\ pos[f[x]] <= pos[m]
      BY <1>6 DEF Lists!Linked
    <2>2. CASE x = y
      <3>1. pos[s] < pos[m]
        BY <2>1, <2>2, <1>3, <1>6
      <3>2. f[s] \in M /\ pos[f[s]] <= pos[m]
        BY <3>1 DEF Lists!Linked
      <3> QED BY <2>2, <3>2, <1>2, <1>6
    <2>3. CASE x # y
      BY <2>1, <2>3, <1>1, <1>6
    <2> QED BY <2>2, <2>3
  <1> HIDE DEF N
  <1>7. Lists!Linked(f2, h, N, pos)
    BY <1>4, <1>5, <1>6 DEF Lists!Linked
  <1> QED BY <1>7 DEF N

\* A soldier is put in front.
LEMMA LinkedInFront ==
    ASSUME NEW M \in SUBSET Soldiers, NEW h, h \notin Soldiers, NEW pos \in [Soldiers -> Int], NEW f, NEW f2,
           Lists!Linked(f, h, M, pos),
           NEW s \in Soldiers \ M, \A t \in M : pos[s] < pos[t],
           \A x \in M : f2[x] = f[x], f2[s] = f[h], f2[h] = s
    PROVE  Lists!Linked(f2, h, M \cup {s}, pos)
  <1> DEFINE N == M \cup {s}
  <1>1. \A x \in N : pos[x] \in Int
    OBVIOUS
  <1>2. \A x \in N \cup {h} : f2[x] \in N \cup {h}
    BY DEF Lists!Linked
  <1>3. \A x \in N : f2[x] \in N => pos[x] < pos[f2[x]]
    <2>1. f[h] \in M \cup {h} /\ h \notin N /\ \A x \in M : f[x] \in M \cup {h}
      BY DEF Lists!Linked
    <2> QED BY <2>1 DEF Lists!Linked
  <1>4. ASSUME NEW x \in N \cup {h}, NEW m \in N, x = h \/ pos[x] < pos[m]
        PROVE  f2[x] \in N /\ pos[f2[x]] <= pos[m]
    <2>1. CASE x = h
      <3>1. pos[s] <= pos[m]
        BY <1>1
      <3> QED BY <2>1, <3>1
    <2>2. CASE x = s
      <3>1. m \in M
        BY <1>1, <1>4, <2>2
      <3> QED BY <2>2, <3>1 DEF Lists!Linked
    <2>3. CASE x \in M
      <3>1. m \in M
        <4>1. ASSUME m = s PROVE FALSE
          BY <4>1, <2>3, <1>4, <1>1
        <4> QED BY <4>1, <1>4
      <3>2. x # h /\ pos[x] < pos[m]
        BY <2>3, <1>4
      <3> QED BY <2>3, <3>1, <3>2 DEF Lists!Linked
    <2> QED BY <2>1, <2>2, <2>3
  <1> HIDE DEF N
  <1>5. Lists!Linked(f2, h, N, pos)
    BY <1>2, <1>3, <1>4 DEF Lists!Linked
  <1> QED BY <1>5 DEF N

\* A soldier is put at the end.
LEMMA LinkedAtEnd ==
    ASSUME NEW M \in SUBSET Soldiers, NEW h, h \notin Soldiers, NEW pos \in [Soldiers -> Int], NEW f, NEW f2,
           \A s, t \in M : pos[s] = pos[t] => s = t,
           Lists!Linked(f, h, M, pos),
           NEW s \in Soldiers \ M, \A t \in M : pos[t] < pos[s],
           NEW y \in M \cup {h}, f[y] = h,
           \A x \in M \cup {h} : f2[x] = IF x = y THEN s ELSE f[x], f2[s] = h
    PROVE  Lists!Linked(f2, h, M \cup {s}, pos)
  <1> DEFINE N == M \cup {s}
  <1>1. \A x \in N : pos[x] \in Int
    OBVIOUS
  <1>2. \A x \in N \cup {h} : f2[x] \in N \cup {h}
    BY DEF Lists!Linked
  <1>3. \A x \in N : f2[x] \in N => pos[x] < pos[f2[x]]
    <2>1. h \notin N /\ \A x \in M : f[x] \in M \cup {h}
      BY DEF Lists!Linked
    <2> QED BY <2>1 DEF Lists!Linked
  <1>4. ASSUME NEW x \in N \cup {h}, NEW m \in N, x = h \/ pos[x] < pos[m]
        PROVE  f2[x] \in N /\ pos[f2[x]] <= pos[m]
    <2>1. x # s
      <3>1. ASSUME x = s PROVE FALSE
        <4>1. x # h /\ pos[s] < pos[m]
          BY <3>1, <1>4
        <4> QED BY <4>1, <1>1, <1>4
      <3> QED BY <3>1
    <2>2. x \in M \cup {h}
      BY <2>1
    <2>3. CASE x = y
      <3>1. m = s
        <4>1. ASSUME m \in M PROVE FALSE
          <5>1. f[x] \in M
            BY <4>1, <2>2, <1>4 DEF Lists!Linked
          <5> QED BY <5>1, <2>3
        <4> QED BY <4>1
      <3> QED BY <2>3, <3>1, <1>1
    <2>4. CASE x # y /\ m \in M
      BY <2>2, <2>4, <1>4 DEF Lists!Linked
    <2>5. CASE x # y /\ m = s
      <3>1. f[x] \in M
        <4>1. CASE y = h
          <5>1. x \in M /\ f[h] \in M
            BY <4>1, <2>2, <2>5 DEF Lists!Linked
          <5> QED BY <5>1, <4>1
        <4>2. CASE y \in M /\ x = h
          BY <4>2 DEF Lists!Linked
        <4>3. CASE y \in M /\ x \in M
          <5>1. pos[x] < pos[y] \/ pos[y] < pos[x]
            BY <4>3, <2>5, <1>1
          <5>2. CASE pos[y] < pos[x]
            BY <4>3, <5>2 DEF Lists!Linked
          <5>3. CASE pos[x] < pos[y]
            BY <4>3, <5>3 DEF Lists!Linked
          <5> QED BY <5>1, <5>2, <5>3
        <4> QED BY <2>2, <4>1, <4>2, <4>3
      <3> QED BY <2>2, <2>5, <3>1, <1>1
    <2> QED BY <2>3, <2>4, <2>5
  <1> HIDE DEF N
  <1>5. Lists!Linked(f2, h, N, pos)
    BY <1>2, <1>3, <1>4 DEF Lists!Linked
  <1> QED BY <1>5 DEF N

\* The two directions of a ring agree.
LEMMA LinkedBothWays ==
    ASSUME NEW M \in SUBSET Soldiers, NEW h, h \notin Soldiers, NEW pos \in [Soldiers -> Int], NEW f, NEW b,
           \A s, t \in M : pos[s] = pos[t] => s = t,
           Lists!Linked(f, h, M, pos), Lists!Linked(b, h, M, Lists!Back(pos)),
           NEW x \in M \cup {h}
    PROVE  b[f[x]] = x
  <1> DEFINE y == f[x]
  <1>1. /\ h \notin M /\ y \in M \cup {h} /\ b[y] \in M \cup {h}
        /\ \A s \in M : Lists!Back(pos)[s] = -pos[s] /\ pos[s] \in Int
    BY BackTwice DEF Lists!Linked
  <1>f. /\ \A u \in M : f[u] \in M => pos[u] < pos[f[u]]
        /\ \A u \in M \cup {h}, m \in M :
              u = h \/ pos[u] < pos[m] => f[u] \in M /\ pos[f[u]] <= pos[m]
    BY DEF Lists!Linked
  <1>b. /\ \A u \in M : b[u] \in M => pos[b[u]] < pos[u]
        /\ \A u \in M \cup {h}, m \in M :
              u = h \/ pos[m] < pos[u] => b[u] \in M /\ pos[m] <= pos[b[u]]
    <2>1. /\ \A u \in M : b[u] \in M => -pos[u] < -pos[b[u]]
          /\ \A u \in M \cup {h}, m \in M :
                u = h \/ -pos[u] < -pos[m] => b[u] \in M /\ -pos[b[u]] <= -pos[m]
      <3> DEFINE n == Lists!Back(pos)
      <3>1. \A s \in M : n[s] = -pos[s]
        BY <1>1
      <3>2. /\ \A u \in M : b[u] \in M => n[u] < n[b[u]]
            /\ \A u \in M \cup {h}, m \in M :
                  u = h \/ n[u] < n[m] => b[u] \in M /\ n[b[u]] <= n[m]
        BY DEF Lists!Linked
      <3> HIDE DEF n
      <3>3. \A u \in M : b[u] \in M => -pos[u] < -pos[b[u]]
        BY <3>1, <3>2
      <3>4. ASSUME NEW u \in M \cup {h}, NEW m \in M, u = h \/ -pos[u] < -pos[m]
            PROVE  b[u] \in M /\ -pos[b[u]] <= -pos[m]
        <4>1. u = h \/ n[u] < n[m]
          BY <3>1, <3>4
        <4>2. b[u] \in M /\ n[b[u]] <= n[m]
          BY <4>1, <3>2
        <4> QED BY <4>2, <3>1
      <3> QED BY <3>3, <3>4
    <2>2. \A s \in M : pos[s] \in Int
      BY <1>1
    <2>3. ASSUME NEW u \in M, b[u] \in M PROVE pos[b[u]] < pos[u]
      BY <2>1, <2>2, <2>3
    <2>4. ASSUME NEW u \in M \cup {h}, NEW m \in M, u = h \/ pos[m] < pos[u]
          PROVE  b[u] \in M /\ pos[m] <= pos[b[u]]
      <3>1. u = h \/ -pos[u] < -pos[m]
        BY <2>2, <2>4
      <3>2. b[u] \in M /\ -pos[b[u]] <= -pos[m]
        BY <2>1, <3>1
      <3> QED BY <3>2, <2>2
    <2> QED BY <2>3, <2>4
  <1> HIDE DEF y
  <1>y. y = f[x]
    BY DEF y
  <1>2. CASE y = h /\ x = h
    <2>1. M = {}
      <3>1. ASSUME NEW m \in M PROVE FALSE
        BY <1>2, <1>f, <1>1, <1>y, <3>1
      <3> QED BY <3>1
    <2> QED BY <1>1, <1>2, <1>y, <2>1
  <1>3. CASE y = h /\ x \in M
    <2>1. b[y] \in M /\ pos[x] <= pos[b[y]]
      BY <1>3, <1>b
    <2>2. ~(pos[x] < pos[b[y]])
      BY <2>1, <1>3, <1>f, <1>1, <1>y
    <2> QED BY <2>1, <2>2, <1>1, <1>3, <1>y
  <1>4. CASE y \in M /\ x \in M
    <2>1. pos[x] < pos[y]
      BY <1>4, <1>f, <1>y
    <2>2. b[y] \in M /\ pos[x] <= pos[b[y]]
      BY <2>1, <1>4, <1>b
    <2>3. pos[b[y]] < pos[y]
      BY <2>2, <1>4, <1>b
    <2>4. ~(pos[x] < pos[b[y]])
      <3>1. ASSUME pos[x] < pos[b[y]] PROVE pos[y] <= pos[b[y]]
        BY <3>1, <2>2, <1>4, <1>f, <1>y
      <3> QED BY <3>1, <2>2, <2>3, <1>4, <1>1
    <2> QED BY <2>2, <2>4, <1>1, <1>4, <1>y
  <1>5. CASE y \in M /\ x = h
    <2>1. ASSUME b[y] \in M PROVE FALSE
      <3>1. pos[b[y]] < pos[y]
        BY <2>1, <1>5, <1>b
      <3>2. pos[y] <= pos[b[y]]
        BY <2>1, <1>5, <1>f, <1>y
      <3> QED BY <3>1, <3>2, <2>1, <1>5, <1>1
    <2> QED BY <2>1, <1>1, <1>5, <1>y
  <1> QED BY <1>1, <1>2, <1>3, <1>4, <1>5

\* The same of any two links.
LEMMA BothWays ==
    ASSUME NEW M \in SUBSET Soldiers, NEW h, h \notin Soldiers, NEW pos \in [Soldiers -> Int],
           \A s, t \in M : pos[s] = pos[t] => s = t
    PROVE  \A f, b : Lists!Linked(f, h, M, pos) /\ Lists!Linked(b, h, M, Lists!Back(pos)) =>
                        \A x \in M \cup {h} : b[f[x]] = x
  <1> TAKE f, b
  <1> HAVE Lists!Linked(f, h, M, pos) /\ Lists!Linked(b, h, M, Lists!Back(pos))
  <1> TAKE x \in M \cup {h}
  <1> QED BY LinkedBothWays

\* SiblingLists has its own copies of the operators of FiniteSets.
LEMMA ListsCounts ==
    ASSUME NEW S
    PROVE  Lists!Cardinality(S) = Cardinality(S) /\ Lists!IsFiniteSet(S) = IsFiniteSet(S)
  <1>1. Lists!IsFiniteSet(S) = IsFiniteSet(S)
    BY Zenon DEF Lists!IsFiniteSet, IsFiniteSet
  <1>2. Lists!Cardinality(S) = Cardinality(S)
    BY Zenon DEF Lists!Cardinality, Cardinality, Lists!IsFiniteSet, IsFiniteSet
  <1> QED BY <1>1, <1>2

\* What the names of the places are.
LEMMA ListsFacts ==
    /\ IsFiniteSet(Lists!Nodes) /\ IsFiniteSet(Soldiers) /\ Cardinality(Lists!Nodes) \in Nat
    /\ Unborn \subseteq Soldiers
    /\ \A s \in Soldiers : s \notin {"shell", "station", "none", "emergency", "poison", "idle", "done"}
  <1>1. IsFiniteSet(Soldiers)
    BY ListsAssumption, ListsCounts, Zenon DEF Lists!SoldiersAssumption
  <1>2. IsFiniteSet(Lists!Heads)
    <2>1. {"shell", "station"} = {"shell"} \cup {"station"}
      OBVIOUS
    <2>2. IsFiniteSet({"shell"}) /\ IsFiniteSet({"station"})
      BY FS_Singleton
    <2>3. IsFiniteSet({"shell"} \cup {"station"})
      BY <2>2, FS_Union
    <2> QED BY <2>1, <2>3 DEF Lists!Heads
  <1>3. IsFiniteSet(Lists!Nodes) /\ Cardinality(Lists!Nodes) \in Nat
    BY <1>1, <1>2, FS_Union, FS_CardinalityType DEF Lists!Nodes
  <1> QED BY <1>1, <1>3, ListsAssumption DEF Lists!SoldiersAssumption, Lists!Heads

\* The nodes of a walk of n steps along next that starts after node x.
IsWalk(g, x, n) ==
    /\ g \in [0 .. n -> Lists!Nodes] /\ g[0] = next[x]
    /\ \A k1 \in 1 .. n : g[k1] = IF g[k1 - 1] \in Lists!Heads THEN g[k1 - 1] ELSE next[g[k1 - 1]]

\* A walk of any number of steps exists: one of n - 1 steps extends by one.
LEMMA WalksExist ==
    ASSUME next \in [Lists!Nodes -> Lists!Nodes], NEW x \in Lists!Nodes, NEW N \in Nat
    PROVE  \E g : IsWalk(g, x, N)
  <1> DEFINE T == {n \in 0 .. N : \E g : IsWalk(g, x, n)}
  <1>1. 0 \in 0 .. N
    OBVIOUS
  <1>2. 0 \in T
    <2> DEFINE g == [c \in 0 .. 0 |-> next[x]]
    <2>1. IsWalk(g, x, 0)
      BY DEF IsWalk
    <2> HIDE DEF g
    <2> QED BY <1>1, <2>1
  <1>3. ASSUME NEW n \in 1 .. N, n - 1 \in T PROVE n \in T
    <2>1. PICK g : IsWalk(g, x, n - 1)
      BY <1>3
    <2> DEFINE last == IF g[n - 1] \in Lists!Heads THEN g[n - 1] ELSE next[g[n - 1]]
               h == [c \in 0 .. n |-> IF c = n THEN last ELSE g[c]]
    <2>2. /\ n \in Nat /\ n - 1 \in 0 .. n - 1 /\ n # 0 /\ n \in 0 .. N /\ 0 \in 0 .. n - 1
          /\ \A c \in 0 .. n : c # n => c \in 0 .. n - 1
          /\ \A c \in 1 .. n : c - 1 \in 0 .. n /\ c - 1 # n /\ c \in 0 .. n /\ (c # n => c \in 1 .. n - 1)
          /\ 0 \in 0 .. n
      BY <1>1
    <2>3. g \in [0 .. n - 1 -> Lists!Nodes] /\ g[0] = next[x] /\ last \in Lists!Nodes
          /\ \A k1 \in 1 .. n - 1 : g[k1] = IF g[k1 - 1] \in Lists!Heads THEN g[k1 - 1] ELSE next[g[k1 - 1]]
      BY <2>1, <2>2 DEF IsWalk
    <2>l. last = IF g[n - 1] \in Lists!Heads THEN g[n - 1] ELSE next[g[n - 1]]
      OBVIOUS
    <2> HIDE DEF last
    <2>4. h \in [0 .. n -> Lists!Nodes]
      BY <2>2, <2>3
    <2>5. h[0] = next[x]
      BY <2>2, <2>3
    <2>6. ASSUME NEW c \in 1 .. n
          PROVE  h[c] = IF h[c - 1] \in Lists!Heads THEN h[c - 1] ELSE next[h[c - 1]]
      <3>1. h[c - 1] = g[c - 1] /\ h[c] = IF c = n THEN last ELSE g[c]
        BY <2>2
      <3> HIDE DEF h
      <3> QED BY <2>2, <2>3, <2>l, <3>1
    <2> HIDE DEF h
    <2>7. IsWalk(h, x, n)
      BY <2>4, <2>5, <2>6 DEF IsWalk
    <2> QED BY <2>2, <2>7
  <1> HIDE DEF T
  <1>4. N \in 0 .. N
    OBVIOUS
  <1>5. N \in T
    BY <1>4, <1>2, <1>3, UpToN
  <1> QED BY <1>5 DEF T

\* Walk(x) is the walk of as many steps as there are nodes.
LEMMA WalkIsWalk ==
    ASSUME next \in [Lists!Nodes -> Lists!Nodes], NEW x \in Lists!Nodes
    PROVE  IsWalk(Lists!Walk(x), x, Cardinality(Lists!Nodes))
  <1> DEFINE N == Cardinality(Lists!Nodes)
             Body(g) == [c \in 0 .. N |->
                            IF c = 0 THEN next[x]
                            ELSE IF g[c - 1] \in Lists!Heads THEN g[c - 1] ELSE next[g[c - 1]]]
  <1>0. Lists!Cardinality(Lists!Nodes) = Cardinality(Lists!Nodes)
    BY ListsCounts
  <1>1. Lists!Walk(x) = CHOOSE g : g = Body(g)
    BY <1>0, Zenon DEF Lists!Walk
  <1>2. N \in Nat
    BY ListsFacts
  <1> HIDE DEF N
  <1>3. PICK g : IsWalk(g, x, N)
    BY <1>2, WalksExist
  <1>4. g = Body(g)
    <2>1. /\ g \in [0 .. N -> Lists!Nodes] /\ g[0] = next[x]
          /\ \A k1 \in 1 .. N : g[k1] = IF g[k1 - 1] \in Lists!Heads THEN g[k1 - 1] ELSE next[g[k1 - 1]]
      BY <1>3 DEF IsWalk
    <2>2. \A c \in 0 .. N : g[c] = Body(g)[c]
      BY <1>2, <2>1
    <2> QED BY <2>1, <2>2
  <1> HIDE DEF Body
  <1> DEFINE u == Lists!Walk(x)
  <1>5. u = Body(u)
    BY <1>1, <1>4
  <1> HIDE DEF u
  <1>6. /\ u[0] = next[x]
        /\ \A k1 \in 1 .. N : u[k1] = IF u[k1 - 1] \in Lists!Heads THEN u[k1 - 1] ELSE next[u[k1 - 1]]
    BY <1>2, <1>5 DEF Body
  <1> DEFINE T == {n \in 0 .. N : u[n] \in Lists!Nodes}
  <1>7. \A n \in 0 .. N : n \in T
    <2>1. 0 \in T
      BY <1>2, <1>6
    <2>2. \A n \in 1 .. N : n - 1 \in T => n \in T
      BY <1>2, <1>6
    <2> HIDE DEF T
    <2> QED BY <1>2, <2>1, <2>2, UpToN
  <1>8. u \in [0 .. N -> Lists!Nodes]
    <2>1. u = [c \in 0 .. N |-> u[c]]
      BY <1>5 DEF Body
    <2> QED BY <1>7, <2>1
  <1> QED BY <1>6, <1>8 DEF IsWalk, u, N

\* A walk that comes to a member of a ring, or to its head, ends at its head: it
\* cannot go on to ever higher positions.  From the head it meets every member.
LEMMA WalkReturns ==
    ASSUME next \in [Lists!Nodes -> Lists!Nodes], NEW x \in Lists!Nodes,
           NEW h \in Lists!Heads, NEW M \in SUBSET Soldiers, NEW pos \in [Soldiers -> Int],
           \A s, t \in M : pos[s] = pos[t] => s = t,
           Lists!Linked(next, h, M, pos), next[x] \in M \cup {h}
    PROVE  /\ Lists!End(x) = h
           /\ x = h => Lists!Ring(h) = M
  <1> DEFINE N == Cardinality(Lists!Nodes)
             g == Lists!Walk(x)
  <1>1. /\ IsFiniteSet(Lists!Nodes) /\ N \in Nat
        /\ \A s \in Soldiers : s \notin Lists!Heads
        /\ Soldiers \subseteq Lists!Nodes
    BY ListsFacts DEF Lists!Heads, Lists!Nodes
  <1>2. /\ g \in [0 .. N -> Lists!Nodes] /\ g[0] = next[x]
        /\ \A k1 \in 1 .. N : g[k1] = IF g[k1 - 1] \in Lists!Heads THEN g[k1 - 1] ELSE next[g[k1 - 1]]
    BY WalkIsWalk DEF IsWalk
  <1>3. Lists!End(x) = g[N]
    <2>1. Lists!Cardinality(Lists!Nodes) = Cardinality(Lists!Nodes)
      BY ListsCounts
    <2> QED BY <2>1 DEF Lists!End
  <1>4. Lists!Ring(h) = {Lists!Walk(h)[k1] : k1 \in 0 .. N} \ Lists!Heads
    <2>1. Lists!Cardinality(Lists!Nodes) = Cardinality(Lists!Nodes)
      BY ListsCounts
    <2> QED BY <2>1 DEF Lists!Ring
  <1>5. x = h => Lists!Ring(h) = {g[k1] : k1 \in 0 .. N} \ Lists!Heads
    BY <1>4
  <1> HIDE DEF N, g
  <1>f. /\ \A u \in M \cup {h} : next[u] \in M \cup {h}
        /\ \A u \in M : next[u] \in M => pos[u] < pos[next[u]]
        /\ \A u \in M \cup {h}, m \in M :
              u = h \/ pos[u] < pos[m] => next[u] \in M /\ pos[next[u]] <= pos[m]
    BY DEF Lists!Linked
  <1>6. \A n \in 0 .. N : g[n] \in M \cup {h}
    <2> DEFINE T == {n \in 0 .. N : g[n] \in M \cup {h}}
    <2>1. 0 \in T
      BY <1>1, <1>2
    <2>2. \A n \in 1 .. N : n - 1 \in T => n \in T
      BY <1>1, <1>2, <1>f
    <2> HIDE DEF T
    <2>3. \A n \in 0 .. N : n \in T
      BY <1>1, <2>1, <2>2, UpToN
    <2> QED BY <2>3 DEF T
  <1>7. g[N] = h
    <2> SUFFICES ASSUME g[N] # h PROVE FALSE
      OBVIOUS
    <2>1. N \in 0 .. N
      BY <1>1
    <2>2. \A n \in 0 .. N : g[n] \in M
      <3> DEFINE T == {n \in 0 .. N : g[N - n] \in M}
      <3>1. 0 \in T
        <4>1. g[N] \in M /\ N - 0 = N
          BY <1>1, <1>6, <2>1
        <4> QED BY <1>1, <4>1
      <3>2. ASSUME NEW n \in 1 .. N, n - 1 \in T PROVE n \in T
        <4> DEFINE c == N - (n - 1)
        <4>1. c \in 1 .. N /\ c - 1 = N - n /\ g[c] \in M /\ c - 1 \in 0 .. N
          BY <3>2, <1>1
        <4> HIDE DEF c
        <4>2. g[c - 1] # h
          BY <4>1, <1>1, <1>2
        <4> QED BY <4>1, <4>2, <1>6
      <3> HIDE DEF T
      <3>3. \A n \in 0 .. N : n \in T
        <4>1. \A n \in 1 .. N : n - 1 \in T => n \in T
          BY <3>2
        <4> QED BY <1>1, <3>1, <4>1, UpToN
      <3>4. ASSUME NEW n \in 0 .. N PROVE g[n] \in M
        <4> DEFINE c == N - n
        <4>1. c \in 0 .. N /\ N - c = n
          BY <1>1
        <4>2. c \in T
          BY <4>1, <3>3
        <4> QED BY <4>1, <4>2 DEF T
      <3> QED BY <3>4
    <2>3. \A n \in 1 .. N : pos[g[n - 1]] < pos[g[n]]
      <3> SUFFICES ASSUME NEW n \in 1 .. N PROVE pos[g[n - 1]] < pos[g[n]]
        OBVIOUS
      <3>1. n - 1 \in 0 .. N /\ n \in 0 .. N
        BY <1>1
      <3>2. g[n - 1] \in M /\ g[n] \in M /\ g[n] = next[g[n - 1]]
        BY <3>1, <2>2, <1>2, <1>1
      <3> QED BY <3>2, <1>f
    <2>4. \A n \in 0 .. N : \A j \in 0 .. N : j < n => pos[g[j]] < pos[g[n]]
      <3> DEFINE T == {n \in 0 .. N : \A j \in 0 .. N : j < n => pos[g[j]] < pos[g[n]]}
      <3>1. 0 \in T
        BY <1>1
      <3>2. ASSUME NEW n \in 1 .. N, n - 1 \in T PROVE n \in T
        <4>1. n - 1 \in 0 .. N /\ n \in 0 .. N
          BY <1>1
        <4>2. ASSUME NEW j \in 0 .. N, j < n PROVE pos[g[j]] < pos[g[n]]
          <5>1. pos[g[n - 1]] < pos[g[n]] /\ (j = n - 1 \/ pos[g[j]] < pos[g[n - 1]])
            BY <4>1, <4>2, <3>2, <2>3, <1>1
          <5>2. pos[g[j]] \in Int /\ pos[g[n]] \in Int /\ pos[g[n - 1]] \in Int
            BY <4>1, <2>2
          <5> QED BY <5>1, <5>2
        <4> QED BY <4>1, <4>2
      <3> HIDE DEF T
      <3>3. \A n \in 1 .. N : n - 1 \in T => n \in T
        BY <3>2
      <3>4. \A n \in 0 .. N : n \in T
        BY <1>1, <3>1, <3>3, UpToN
      <3> QED BY <3>4 DEF T
    <2>5. IsFiniteSet(0 .. N) /\ Cardinality(0 .. N) = N + 1
      BY <1>1, FS_Interval
    <2>6. Cardinality(Lists!Nodes) < Cardinality(0 .. N)
      BY <2>5, <1>1 DEF N
    <2>7. PICK j, l \in 0 .. N : j # l /\ g[j] = g[l]
      <3>1. g \in [0 .. N -> Lists!Nodes]
        BY <1>2
      <3>2. \E j, l \in 0 .. N : j # l /\ g[j] = g[l]
        BY <1>1, <2>5, <2>6, <3>1, FS_PigeonHole
      <3> QED BY <3>2
    <2>8. pos[g[j]] \in Int /\ (j < l \/ l < j)
      BY <2>2, <2>7, <1>1
    <2>9. pos[g[j]] < pos[g[l]] \/ pos[g[l]] < pos[g[j]]
      BY <2>4, <2>8
    <2> QED BY <2>7, <2>8, <2>9
  <1>8. ASSUME x = h PROVE {g[k1] : k1 \in 0 .. N} \ Lists!Heads = M
    <2>1. {g[k1] : k1 \in 0 .. N} \ Lists!Heads \subseteq M
      BY <1>6
    <2>2. ASSUME NEW m \in M, \A n \in 0 .. N : g[n] # m PROVE FALSE
      <3> DEFINE T == {n \in 0 .. N : g[n] \in M /\ pos[g[n]] < pos[m]}
      <3>1. 0 \in T
        <4>1. 0 \in 0 .. N /\ g[0] \in M /\ pos[g[0]] <= pos[m]
          BY <1>1, <1>2, <1>8, <1>f, <2>2
        <4>2. g[0] # m /\ pos[g[0]] \in Int /\ pos[m] \in Int
          BY <4>1, <2>2
        <4> QED BY <4>1, <4>2
      <3>2. ASSUME NEW n \in 1 .. N, n - 1 \in T PROVE n \in T
        <4>1. n \in 0 .. N /\ g[n - 1] \in M /\ pos[g[n - 1]] < pos[m]
          BY <3>2, <1>1
        <4>2. g[n] = next[g[n - 1]]
          BY <4>1, <1>1, <1>2
        <4>3. g[n] \in M /\ pos[g[n]] <= pos[m]
          BY <4>1, <4>2, <1>f, <2>2
        <4>4. g[n] # m /\ pos[g[n]] \in Int /\ pos[m] \in Int
          BY <4>1, <4>3, <2>2
        <4> QED BY <4>1, <4>3, <4>4
      <3> HIDE DEF T
      <3>3. \A n \in 1 .. N : n - 1 \in T => n \in T
        BY <3>2
      <3>4. \A n \in 0 .. N : n \in T
        BY <1>1, <3>1, <3>3, UpToN
      <3>5. N \in 0 .. N /\ N \in T
        BY <1>1, <3>4
      <3> QED BY <3>5, <1>7, <1>1 DEF T
    <2> QED BY <2>1, <2>2, <1>1
  <1> QED BY <1>3, <1>5, <1>7, <1>8

\* The order Init picks numbers the soldiers there are from 1 on.
LEMMA AtFacts ==
    ASSUME NEW order \in [Soldiers \ Unborn -> 1 .. Lists!Cardinality(Soldiers \ Unborn)],
           \A s, t \in Soldiers \ Unborn : order[s] = order[t] => s = t
    PROVE  LET last == Lists!Cardinality(Soldiers \ Unborn) IN
           /\ last \in Nat
           /\ \A n \in 1 .. last : Lists!At(order, n) \in Soldiers \ Unborn /\ order[Lists!At(order, n)] = n
           /\ \A n \in Int : n \notin 1 .. last => Lists!At(order, n) = "shell"
           /\ \A s \in Soldiers \ Unborn : order[s] \in 1 .. last
  <1> DEFINE M == Soldiers \ Unborn
             last == Lists!Cardinality(M)
  <1>1. IsFiniteSet(M) /\ last = Cardinality(M) /\ last \in Nat
    <2>1. IsFiniteSet(M)
      <3>1. M \in SUBSET Soldiers /\ IsFiniteSet(Soldiers)
        BY ListsFacts
      <3> HIDE DEF M
      <3> QED BY <3>1, FS_Subset
    <2>2. last = Cardinality(M)
      BY ListsCounts
    <2> HIDE DEF M
    <2> QED BY <2>1, <2>2, FS_CardinalityType
  <1>2. order \in [M -> 1 .. last] /\ DOMAIN order = M
    OBVIOUS
  <1>d. \A n : Lists!At(order, n) = IF \E s \in M : order[s] = n THEN CHOOSE s \in M : order[s] = n
                                    ELSE "shell"
    BY <1>2 DEF Lists!At
  <1>3. order \in Injection(M, 1 .. last)
    BY <1>2 DEF Injection, IsInjective
  <1> HIDE DEF M, last
  <1>4. Cardinality(1 .. last) = last /\ IsFiniteSet(1 .. last)
    BY <1>1, FS_Interval
  <1>5. order \in Surjection(M, 1 .. last)
    BY <1>1, <1>3, <1>4, FS_Injection
  <1>6. \A n \in 1 .. last : \E s \in M : order[s] = n
    BY <1>5 DEF Surjection
  <1>7. \A n \in 1 .. last : Lists!At(order, n) \in M /\ order[Lists!At(order, n)] = n
    BY <1>d, <1>6, Zenon
  <1>8. ASSUME NEW n \in Int, n \notin 1 .. last PROVE Lists!At(order, n) = "shell"
    BY <1>d, <1>2, <1>8
  <1> QED BY <1>1, <1>2, <1>7, <1>8 DEF last, M

\* At first the soldiers there are are on the shell's list, in the order Init picks.
LEMMA ListsInit == Lists!Init => Lists!IInv
  <1> SUFFICES ASSUME Lists!Init PROVE Lists!IInv
    OBVIOUS
  <1> DEFINE M == Soldiers \ Unborn
             last == Lists!Cardinality(M)
  <1>1. PICK order \in [M -> 1 .. last] :
           /\ \A s, t \in M : order[s] = order[t] => s = t
           /\ next = [n \in Lists!Nodes |-> IF n \in DOMAIN order THEN Lists!At(order, order[n] + 1)
                                     ELSE IF n = "shell" THEN Lists!At(order, 1) ELSE n]
           /\ prev = [n \in Lists!Nodes |-> IF n \in DOMAIN order THEN Lists!At(order, order[n] - 1)
                                     ELSE IF n = "shell" THEN Lists!At(order, last) ELSE n]
    BY Zenon DEF Lists!Init
  <1>2. /\ parent = [s \in Soldiers |-> IF s \in Unborn THEN "none" ELSE "shell"]
        /\ move = [s \in Soldiers |-> IF s \in Unborn THEN "unborn" ELSE "started"]
        /\ links_reg = [s \in Soldiers |-> [prev |-> s, next |-> s]]
        /\ lock = "none" /\ cur = [w \in {"lkm2", "emergency"} |-> "idle"] /\ disturbed = FALSE
    BY DEF Lists!Init
  <1>3. /\ last \in Nat
        /\ \A n \in 1 .. last : Lists!At(order, n) \in M /\ order[Lists!At(order, n)] = n
        /\ \A n \in Int : n \notin 1 .. last => Lists!At(order, n) = "shell"
        /\ \A s \in M : order[s] \in 1 .. last
        /\ DOMAIN order = M
    BY <1>1, AtFacts
  <1>4. /\ \A s \in Soldiers : s \notin {"shell", "station", "none", "emergency", "poison", "idle", "done"}
        /\ M \subseteq Soldiers /\ Lists!Nodes = Soldiers \cup {"shell", "station"}
    BY ListsFacts DEF Lists!Nodes, Lists!Heads
  <1>m. \A s \in Soldiers : s \in M <=> s \notin Unborn
    OBVIOUS
  <1> HIDE DEF M, last
  <1>5. /\ \A n \in Int : Lists!At(order, n) \in Lists!Nodes
        /\ next["shell"] = Lists!At(order, 1) /\ prev["shell"] = Lists!At(order, last)
        /\ next["station"] = "station" /\ prev["station"] = "station"
        /\ \A s \in M : next[s] = Lists!At(order, order[s] + 1) /\ prev[s] = Lists!At(order, order[s] - 1)
    <2>1. "shell" \notin M /\ "station" \notin M
      BY <1>4
    <2>2. \A n \in Int : Lists!At(order, n) \in Lists!Nodes
      BY <1>3, <1>4
    <2> QED BY <1>1, <1>3, <1>4, <2>1, <2>2
  <1>6. Lists!TypeOK
    <2>e. next = [n \in Lists!Nodes |-> next[n]] /\ prev = [n \in Lists!Nodes |-> prev[n]]
      BY <1>1, Zenon
    <2>n. ASSUME NEW n \in Lists!Nodes PROVE next[n] \in Lists!Nodes /\ prev[n] \in Lists!Nodes
      <3>1. CASE n \in M
        <4>1. order[n] + 1 \in Int /\ order[n] - 1 \in Int
          BY <3>1, <1>3
        <4> QED BY <3>1, <4>1, <1>5
      <3>2. CASE n \notin M /\ n # "shell"
        <4>1. next[n] = n /\ prev[n] = n
          BY <3>2, <1>1, <1>3
        <4> QED BY <4>1
      <3>3. CASE n = "shell"
        BY <3>3, <1>3, <1>5
      <3> QED BY <3>1, <3>2, <3>3
    <2>1. next \in [Lists!Nodes -> Lists!Nodes]
      BY <2>e, <2>n
    <2>2. prev \in [Lists!Nodes -> Lists!Nodes \cup {"poison"}]
      BY <2>e, <2>n
    <2>3. /\ parent \in [Soldiers -> Lists!Heads \cup {"none"}] /\ move \in [Soldiers -> Lists!States]
          /\ links_reg \in [Soldiers -> [prev: Lists!Nodes \cup {"poison"}, next: Lists!Nodes]]
          /\ cur \in [{"lkm2", "emergency"} -> Lists!Nodes \cup {"idle", "done"}]
          /\ disturbed \in BOOLEAN
      BY <1>2, <1>4 DEF Lists!Heads, Lists!States
    <2>4. \A s \in Soldiers : lock = s <=> move[s] \in Lists!Moving
      BY <1>2, <1>4 DEF Lists!Moving
    <2>5. lock = "emergency" <=> cur["emergency"] \in Lists!Nodes
      BY <1>2, <1>4
    <2> QED BY <2>1, <2>2, <2>3, <2>4, <2>5 DEF Lists!TypeOK
  <1>7. Lists!Parents
    BY <1>2 DEF Lists!Parents
  <1>8. \A s \in Soldiers : move[s] \in {"unborn", "started"} /\ (move[s] = "started" <=> s \in M)
    BY <1>2, <1>m
  <1>9. /\ Lists!OnForward("shell") = M /\ Lists!OnBack("shell") = M
        /\ Lists!OnForward("station") = {} /\ Lists!OnBack("station") = {}
    BY <1>8, <1>4 DEF Lists!OnForward, Lists!OnBack
  <1> DEFINE pos == [s \in Soldiers |-> IF s \in M THEN order[s] ELSE 1]
  <1>10. /\ pos \in [Soldiers -> Int] /\ \A s \in M : pos[s] = order[s]
         /\ \A s \in Soldiers : 0 < pos[s] /\ pos[s] < last + 2
    <2>1. \A s \in Soldiers : pos[s] = IF s \in M THEN order[s] ELSE 1
      OBVIOUS
    <2>2. pos \in [Soldiers -> Int]
      BY <1>3
    <2> HIDE DEF pos
    <2>3. \A s \in M : pos[s] = order[s]
      BY <2>1, <1>4
    <2>4. ASSUME NEW s \in Soldiers PROVE 0 < pos[s] /\ pos[s] < last + 2
      <3>1. CASE s \in M
        <4>1. pos[s] = order[s] /\ order[s] \in 1 .. last
          BY <3>1, <2>3, <1>3
        <4> QED BY <4>1, <1>3
      <3>2. CASE s \notin M
        <4>1. pos[s] = 1
          BY <3>2, <2>1
        <4> QED BY <4>1, <1>3
      <3> QED BY <3>1, <3>2
    <2> QED BY <2>2, <2>3, <2>4
  <1> HIDE DEF pos
  <1>11. Lists!Linked(next, "shell", M, pos)
    <2>1. \A x \in M \cup {"shell"} : next[x] \in M \cup {"shell"}
      BY <1>3, <1>5
    <2>2. \A x \in M : next[x] \in M => pos[x] < pos[next[x]]
      <3> SUFFICES ASSUME NEW x \in M, next[x] \in M PROVE pos[x] < pos[next[x]]
        OBVIOUS
      <3>1. next[x] = Lists!At(order, order[x] + 1) /\ order[x] \in 1 .. last /\ "shell" \notin M
        BY <1>3, <1>4, <1>5
      <3>2. order[x] + 1 \in 1 .. last
        BY <3>1, <1>3
      <3>3. order[next[x]] = order[x] + 1
        BY <3>1, <3>2, <1>3
      <3> QED BY <3>1, <3>3, <1>10
    <2>3. ASSUME NEW x \in M \cup {"shell"}, NEW m \in M, x = "shell" \/ pos[x] < pos[m]
          PROVE  next[x] \in M /\ pos[next[x]] <= pos[m]
      <3>1. pos[m] = order[m] /\ order[m] \in 1 .. last /\ "shell" \notin M
        BY <1>3, <1>4, <1>10
      <3>2. CASE x = "shell"
        <4>1. 1 \in 1 .. last /\ next[x] = Lists!At(order, 1)
          BY <3>1, <3>2, <1>3, <1>5
        <4>2. next[x] \in M /\ pos[next[x]] = 1
          BY <4>1, <1>3, <1>10
        <4> QED BY <4>2, <3>1
      <3>3. CASE x \in M
        <4>1. order[x] \in 1 .. last /\ order[x] + 1 \in 1 .. last /\ next[x] = Lists!At(order, order[x] + 1)
          BY <2>3, <3>1, <3>3, <1>3, <1>5, <1>10
        <4>2. next[x] \in M /\ pos[next[x]] = order[x] + 1
          BY <4>1, <1>3, <1>10
        <4>3. order[x] < order[m]
          BY <2>3, <3>1, <3>3, <1>10
        <4> QED BY <4>1, <4>2, <4>3, <3>1
      <3> QED BY <3>2, <3>3
    <2> QED BY <2>1, <2>2, <2>3 DEF Lists!Linked
  <1>12. Lists!Linked(prev, "shell", M, Lists!Back(pos))
    <2> DEFINE back == Lists!Back(pos)
    <2>0. \A s \in M : back[s] = -order[s] /\ order[s] \in 1 .. last
      <3>1. \A s \in Soldiers : back[s] = -pos[s]
        BY <1>10, BackTwice, Zenon
      <3> HIDE DEF back
      <3> QED BY <3>1, <1>3, <1>4, <1>10
    <2> HIDE DEF back
    <2>1. \A x \in M \cup {"shell"} : prev[x] \in M \cup {"shell"}
      BY <1>3, <1>5
    <2>2. \A x \in M : prev[x] \in M => back[x] < back[prev[x]]
      <3> SUFFICES ASSUME NEW x \in M, prev[x] \in M PROVE back[x] < back[prev[x]]
        OBVIOUS
      <3>1. prev[x] = Lists!At(order, order[x] - 1) /\ order[x] \in 1 .. last /\ "shell" \notin M
        BY <1>3, <1>4, <1>5
      <3>2. order[x] - 1 \in 1 .. last
        BY <3>1, <1>3
      <3>3. order[prev[x]] = order[x] - 1
        BY <3>1, <3>2, <1>3
      <3>4. back[x] = -order[x] /\ back[prev[x]] = -(order[x] - 1)
        BY <3>3, <2>0
      <3> QED BY <3>1, <3>4
    <2>3. ASSUME NEW x \in M \cup {"shell"}, NEW m \in M, x = "shell" \/ back[x] < back[m]
          PROVE  prev[x] \in M /\ back[prev[x]] <= back[m]
      <3>1. back[m] = -order[m] /\ order[m] \in 1 .. last /\ "shell" \notin M
        BY <1>4, <2>0
      <3>2. CASE x = "shell"
        <4>1. last \in 1 .. last /\ prev[x] = Lists!At(order, last)
          BY <3>1, <3>2, <1>3, <1>5
        <4>2. prev[x] \in M /\ order[prev[x]] = last
          BY <4>1, <1>3
        <4>3. back[prev[x]] = -last
          BY <4>2, <2>0
        <4> QED BY <4>2, <4>3, <3>1, <1>3
      <3>3. CASE x \in M
        <4>1. order[x] \in 1 .. last /\ back[x] = -order[x] /\ x # "shell"
          BY <3>1, <3>3, <2>0
        <4>2. order[m] < order[x]
          BY <4>1, <2>3, <3>1
        <4>3. order[x] - 1 \in 1 .. last /\ prev[x] = Lists!At(order, order[x] - 1)
          BY <4>1, <4>2, <3>1, <3>3, <1>3, <1>5
        <4>4. prev[x] \in M /\ order[prev[x]] = order[x] - 1
          BY <4>3, <1>3
        <4>5. back[prev[x]] = -(order[x] - 1)
          BY <4>4, <2>0
        <4> QED BY <4>1, <4>2, <4>4, <4>5, <3>1
      <3> QED BY <3>2, <3>3
    <2>4. Lists!Linked(prev, "shell", M, back)
      BY <2>1, <2>2, <2>3 DEF Lists!Linked
    <2> QED BY <2>4 DEF back
  <1>13. Lists!Linked(next, "station", {}, pos) /\ Lists!Linked(prev, "station", {}, Lists!Back(pos))
    BY <1>5 DEF Lists!Linked
  <1>14. Lists!InOrder(pos, 0, last + 2)
    <2>1. \A s, t \in Soldiers : "unborn" \notin {move[s], move[t]} /\ pos[s] = pos[t] => s = t
      BY <1>1, <1>8, <1>10
    <2>2. \A s \in Soldiers : move[s] \notin {"published", "forking"}
      BY <1>8
    <2> QED BY <1>9, <1>10, <1>11, <1>12, <1>13, <2>1, <2>2 DEF Lists!InOrder, Lists!Heads
  <1>15. Lists!Whole
    <2>1. \E p \in [Soldiers -> Int], lo, high \in Int : Lists!InOrder(p, lo, high)
      <3>1. last + 2 \in Int /\ 0 \in Int
        BY <1>3
      <3> QED BY <1>10, <1>14, <3>1
    <2>2. \A s \in Soldiers : Lists!Halfway(s)
      BY <1>8 DEF Lists!Halfway
    <2>3. \A s, t \in Soldiers : {move[s], move[t]} \subseteq Lists!Moving \cup Lists!Tasklist => s = t
      BY <1>8 DEF Lists!Moving, Lists!Tasklist
    <2> QED BY <2>1, <2>2, <2>3 DEF Lists!Whole
  <1>16. Lists!Exclusive
    BY <1>8 DEF Lists!Exclusive, Lists!Overlap, Lists!Tasklist
  <1> QED BY <1>6, <1>7, <1>15, <1>16 DEF Lists!IInv

\* Whatever overlaps, links lead to nodes, and the lock is where it is held.
LEMMA ListsTypeStep ==
    ASSUME Lists!TypeOK, Lists!Parents, [Lists!Next]_listsVars
    PROVE  Lists!TypeOK' /\ Lists!Parents'
  <1> DEFINE Typed == /\ next \in [Lists!Nodes -> Lists!Nodes]
                      /\ prev \in [Lists!Nodes -> Lists!Nodes \cup {"poison"}]
                      /\ parent \in [Soldiers -> Lists!Heads \cup {"none"}]
                      /\ move \in [Soldiers -> Lists!States]
                      /\ links_reg \in [Soldiers -> [prev: Lists!Nodes \cup {"poison"}, next: Lists!Nodes]]
                      /\ cur \in [{"lkm2", "emergency"} -> Lists!Nodes \cup {"idle", "done"}]
                      /\ disturbed \in BOOLEAN
             Held == \A s \in Soldiers : lock = s <=> move[s] \in Lists!Moving
             Walked == lock = "emergency" <=> cur["emergency"] \in Lists!Nodes
  <1>1. Typed /\ Held /\ Walked /\ Lists!Parents
    BY DEF Lists!TypeOK
  <1>2. /\ \A s \in Soldiers : s \notin {"shell", "station", "none", "emergency", "poison", "idle", "done"}
        /\ Lists!Nodes = Soldiers \cup {"shell", "station"} /\ Lists!Heads = {"shell", "station"}
        /\ Soldiers \subseteq Lists!Nodes
    BY ListsFacts DEF Lists!Nodes, Lists!Heads
  <1>n. "idle" \notin Lists!Nodes /\ "done" \notin Lists!Nodes
    BY <1>2
  <1>t. /\ \A x \in Lists!Moving \cup Lists!Tasklist : x \in Lists!States
        /\ {"started", "asleep", "dead", "reaped"} \subseteq Lists!States
    BY DEF Lists!States, Lists!Moving, Lists!Tasklist
  <1> HIDE DEF Typed, Held, Walked
  <1> SUFFICES Typed' /\ Held' /\ Walked' /\ Lists!Parents'
    BY DEF Lists!TypeOK, Typed, Held, Walked
  <1>3. ASSUME NEW s \in Soldiers,
               Lists!Soldier(s) \/ Lists!ForkBack(s) \/ Lists!Die(s)
        PROVE  Typed' /\ Held' /\ Walked' /\ Lists!Parents'
    <2>0. /\ links_reg[s].next \in Lists!Nodes /\ next[s] \in Lists!Nodes
          /\ prev[s] \in Lists!Nodes \cup {"poison"} /\ next["station"] \in Lists!Nodes
          /\ prev["shell"] \in Lists!Nodes \cup {"poison"}
          /\ s \in Lists!Nodes /\ "shell" \in Lists!Nodes /\ "station" \in Lists!Nodes
          /\ {"shell", "station"} = Lists!Heads
      BY <1>1, <1>2 DEF Typed
    <2>a. ASSUME \A t \in Soldiers \ {s} : move'[t] = move[t] /\ parent'[t] = parent[t],
                 parent'[s] = IF move'[s] \in {"unborn", "reaped"} THEN "none"
                              ELSE IF move'[s] \in {"forking", "started", "locked", "unlinked back", "unlinked"}
                              THEN "shell" ELSE "station"
          PROVE  Lists!Parents'
      <3>1. ASSUME NEW t \in Soldiers, t # s
            PROVE  parent'[t] = IF move'[t] \in {"unborn", "reaped"} THEN "none"
                                ELSE IF move'[t] \in {"forking", "started", "locked", "unlinked back", "unlinked"}
                                THEN "shell" ELSE "station"
        <4>1. move'[t] = move[t] /\ parent'[t] = parent[t]
          BY <2>a, <3>1
        <4> QED BY <4>1, <1>1 DEF Lists!Parents
      <3> QED BY <2>a, <3>1, Zenon DEF Lists!Parents
    <2>l. ASSUME lock' = lock, move' \in [Soldiers -> Lists!States],
                 \A t \in Soldiers \ {s} : move'[t] = move[t],
                 move[s] \in Lists!Moving <=> move'[s] \in Lists!Moving
          PROVE  Held'
      <3>1. ASSUME NEW t \in Soldiers PROVE lock' = t <=> move'[t] \in Lists!Moving
        <4>1. CASE t = s
          BY <4>1, <2>l, <1>1 DEF Held
        <4>2. CASE t # s
          BY <4>2, <2>l, <1>1 DEF Held
        <4> QED BY <4>1, <4>2
      <3> QED BY <3>1, Zenon DEF Held
    <2>m. /\ Lists!Moving = {"locked", "unlinked back", "unlinked", "prepared", "published", "linked"}
          /\ Lists!States = Lists!Moving \cup {"forking", "reaping"}
                                \cup {"unborn", "started", "asleep", "dead", "reaped"}
          /\ move \in [Soldiers -> Lists!States] /\ parent \in [Soldiers -> Lists!Heads \cup {"none"}]
      BY <1>1 DEF Typed, Lists!States, Lists!Moving, Lists!Tasklist
    <2>p. parent[s] = IF move[s] \in {"unborn", "reaped"} THEN "none"
                      ELSE IF move[s] \in {"forking", "started", "locked", "unlinked back", "unlinked"}
                      THEN "shell" ELSE "station"
      BY <1>1 DEF Lists!Parents
    <2>1. CASE Lists!Lock(s)
      <3>1. /\ lock = "none" /\ move[s] = "started" /\ lock' = s
            /\ move' = [move EXCEPT ![s] = "locked"]
            /\ UNCHANGED <<next, prev, parent, links_reg, cur>>
            /\ disturbed' \in BOOLEAN
        BY <2>1 DEF Lists!Lock, Lists!MayLock, Lists!Goes
      <3>p. move' \in [Soldiers -> Lists!States]
        BY <3>1, <2>m
      <3>2. Typed'
        BY <3>1, <3>p, <2>0, <1>1 DEF Typed
      <3>3. Held'
        BY <3>1, <2>m, <1>1, <1>2 DEF Held
      <3>4. Walked'
        BY <3>1, <1>1, <1>2 DEF Walked
      <3>q. /\ \A t \in Soldiers \ {s} : move'[t] = move[t] /\ parent'[t] = parent[t]
            /\ parent'[s] = IF move'[s] \in {"unborn", "reaped"} THEN "none"
                            ELSE IF move'[s] \in {"forking", "started", "locked", "unlinked back", "unlinked"}
                            THEN "shell" ELSE "station"
        BY <3>1, <2>m, <2>p
      <3>5. Lists!Parents'
        BY <3>q, <2>a
      <3> QED BY <3>2, <3>3, <3>4, <3>5
    <2>2. CASE Lists!DelBack(s)
      <3>1. /\ move[s] = "locked" /\ move' = [move EXCEPT ![s] = "unlinked back"]
            /\ links_reg' = [links_reg EXCEPT ![s] = [prev |-> prev[s], next |-> next[s]]]
            /\ prev' = [prev EXCEPT ![next[s]] = prev[s]]
            /\ UNCHANGED <<next, parent, lock, cur, disturbed>>
        BY <2>2 DEF Lists!DelBack, Lists!Neighbours, Lists!Goes
      <3>p. move' \in [Soldiers -> Lists!States]
        BY <3>1, <2>m
      <3>2. Typed'
        BY <3>1, <3>p, <2>0, <1>1 DEF Typed
      <3>3. Held'
        BY <3>1, <3>p, <2>m, <2>l
      <3>q. /\ \A t \in Soldiers \ {s} : move'[t] = move[t] /\ parent'[t] = parent[t]
            /\ parent'[s] = IF move'[s] \in {"unborn", "reaped"} THEN "none"
                            ELSE IF move'[s] \in {"forking", "started", "locked", "unlinked back", "unlinked"}
                            THEN "shell" ELSE "station"
        BY <3>1, <2>m, <2>p
      <3>5. Lists!Parents'
        BY <3>q, <2>a
      <3>6. Walked'
        BY <3>1, <1>1 DEF Walked
      <3> QED BY <3>2, <3>3, <3>5, <3>6
    <2>3. CASE Lists!DelForward(s)
      <3>1. /\ move[s] = "unlinked back" /\ move' = [move EXCEPT ![s] = "unlinked"]
            /\ next' = [next EXCEPT ![links_reg[s].prev] = links_reg[s].next]
            /\ prev' = [prev EXCEPT ![s] = "poison"]
            /\ UNCHANGED <<parent, links_reg, lock, cur, disturbed>>
        BY <2>3 DEF Lists!DelForward, Lists!Goes
      <3>p. move' \in [Soldiers -> Lists!States]
        BY <3>1, <2>m
      <3>2. Typed'
        BY <3>1, <3>p, <2>0, <1>1 DEF Typed
      <3>3. Held'
        BY <3>1, <3>p, <2>m, <2>l
      <3>q. /\ \A t \in Soldiers \ {s} : move'[t] = move[t] /\ parent'[t] = parent[t]
            /\ parent'[s] = IF move'[s] \in {"unborn", "reaped"} THEN "none"
                            ELSE IF move'[s] \in {"forking", "started", "locked", "unlinked back", "unlinked"}
                            THEN "shell" ELSE "station"
        BY <3>1, <2>m, <2>p
      <3>5. Lists!Parents'
        BY <3>q, <2>a
      <3>6. Walked'
        BY <3>1, <1>1 DEF Walked
      <3> QED BY <3>2, <3>3, <3>5, <3>6
    <2>4. CASE Lists!AddPrepares(s)
      <3>1. /\ move[s] = "unlinked" /\ move' = [move EXCEPT ![s] = "prepared"]
            /\ parent' = [parent EXCEPT ![s] = "station"]
            /\ links_reg' = [links_reg EXCEPT ![s] = [prev |-> "station", next |-> next["station"]]]
            /\ next' = [next EXCEPT ![s] = next["station"]]
            /\ prev' = [prev EXCEPT ![s] = "station"]
            /\ UNCHANGED <<lock, cur, disturbed>>
        BY <2>4 DEF Lists!AddPrepares, Lists!Goes
      <3>p. move' \in [Soldiers -> Lists!States]
        BY <3>1, <2>m
      <3>2. Typed'
        BY <3>1, <3>p, <2>0, <1>1 DEF Typed
      <3>3. Held'
        BY <3>1, <3>p, <2>m, <2>l
      <3>q. /\ \A t \in Soldiers \ {s} : move'[t] = move[t] /\ parent'[t] = parent[t]
            /\ parent'[s] = IF move'[s] \in {"unborn", "reaped"} THEN "none"
                            ELSE IF move'[s] \in {"forking", "started", "locked", "unlinked back", "unlinked"}
                            THEN "shell" ELSE "station"
        BY <3>1, <2>m, <2>p
      <3>5. Lists!Parents'
        BY <3>q, <2>a
      <3>6. Walked'
        BY <3>1, <1>1 DEF Walked
      <3> QED BY <3>2, <3>3, <3>5, <3>6
    <2>5. CASE Lists!AddPublishes(s)
      <3>1. /\ move[s] = "prepared" /\ move' = [move EXCEPT ![s] = "published"]
            /\ next' = [next EXCEPT !["station"] = s]
            /\ UNCHANGED <<prev, parent, links_reg, lock, cur, disturbed>>
        BY <2>5 DEF Lists!AddPublishes, Lists!Goes
      <3>p. move' \in [Soldiers -> Lists!States]
        BY <3>1, <2>m
      <3>2. Typed'
        BY <3>1, <3>p, <2>0, <1>1 DEF Typed
      <3>3. Held'
        BY <3>1, <3>p, <2>m, <2>l
      <3>q. /\ \A t \in Soldiers \ {s} : move'[t] = move[t] /\ parent'[t] = parent[t]
            /\ parent'[s] = IF move'[s] \in {"unborn", "reaped"} THEN "none"
                            ELSE IF move'[s] \in {"forking", "started", "locked", "unlinked back", "unlinked"}
                            THEN "shell" ELSE "station"
        BY <3>1, <2>m, <2>p
      <3>5. Lists!Parents'
        BY <3>q, <2>a
      <3>6. Walked'
        BY <3>1, <1>1 DEF Walked
      <3> QED BY <3>2, <3>3, <3>5, <3>6
    <2>6. CASE Lists!AddBack(s)
      <3>1. /\ move[s] = "published" /\ move' = [move EXCEPT ![s] = "linked"]
            /\ prev' = [prev EXCEPT ![links_reg[s].next] = s]
            /\ UNCHANGED <<next, parent, links_reg, lock, cur, disturbed>>
        BY <2>6 DEF Lists!AddBack, Lists!Goes
      <3>p. move' \in [Soldiers -> Lists!States]
        BY <3>1, <2>m
      <3>2. Typed'
        BY <3>1, <3>p, <2>0, <1>1 DEF Typed
      <3>3. Held'
        BY <3>1, <3>p, <2>m, <2>l
      <3>q. /\ \A t \in Soldiers \ {s} : move'[t] = move[t] /\ parent'[t] = parent[t]
            /\ parent'[s] = IF move'[s] \in {"unborn", "reaped"} THEN "none"
                            ELSE IF move'[s] \in {"forking", "started", "locked", "unlinked back", "unlinked"}
                            THEN "shell" ELSE "station"
        BY <3>1, <2>m, <2>p
      <3>5. Lists!Parents'
        BY <3>q, <2>a
      <3>6. Walked'
        BY <3>1, <1>1 DEF Walked
      <3> QED BY <3>2, <3>3, <3>5, <3>6
    <2>7. CASE Lists!Unlock(s)
      <3>1. /\ move[s] = "linked" /\ move' = [move EXCEPT ![s] = "asleep"] /\ lock' = "none"
            /\ UNCHANGED <<next, prev, parent, links_reg, cur, disturbed>>
        BY <2>7 DEF Lists!Unlock, Lists!Goes
      <3>p. move' \in [Soldiers -> Lists!States]
        BY <3>1, <2>m
      <3>2. Typed'
        BY <3>1, <3>p, <2>0, <1>1 DEF Typed
      <3>3. lock = s
        BY <3>1, <2>m, <1>1 DEF Held
      <3>4. Held' /\ Walked'
        <4>1. \A t \in Soldiers : move'[t] \notin Lists!Moving
          BY <3>1, <3>3, <2>m, <1>1 DEF Held
        <4>2. Held'
          BY <3>1, <4>1, <1>2 DEF Held
        <4>3. Walked'
          BY <3>1, <3>3, <1>1, <1>2 DEF Walked
        <4> QED BY <4>2, <4>3
      <3>q. /\ \A t \in Soldiers \ {s} : move'[t] = move[t] /\ parent'[t] = parent[t]
            /\ parent'[s] = IF move'[s] \in {"unborn", "reaped"} THEN "none"
                            ELSE IF move'[s] \in {"forking", "started", "locked", "unlinked back", "unlinked"}
                            THEN "shell" ELSE "station"
        BY <3>1, <2>m, <2>p
      <3>5. Lists!Parents'
        BY <3>q, <2>a
      <3> QED BY <3>2, <3>4, <3>5
    <2>8. CASE Lists!ForkBack(s)
      <3>1. /\ move[s] = "unborn" /\ move' = [move EXCEPT ![s] = "forking"]
            /\ links_reg' = [links_reg EXCEPT ![s] = [prev |-> prev["shell"], next |-> "shell"]]
            /\ prev' = [prev EXCEPT !["shell"] = s, ![s] = prev["shell"]]
            /\ next' = [next EXCEPT ![s] = "shell"]
            /\ parent' = [parent EXCEPT ![s] = "shell"]
            /\ UNCHANGED <<lock, cur>> /\ disturbed' \in BOOLEAN
        BY <2>8 DEF Lists!ForkBack, Lists!MayChange, Lists!Goes
      <3>p. move' \in [Soldiers -> Lists!States]
        BY <3>1, <2>m
      <3>2. Typed'
        BY <3>1, <3>p, <2>0, <1>1 DEF Typed
      <3>3. Held'
        BY <3>1, <3>p, <2>m, <2>l
      <3>q. /\ \A t \in Soldiers \ {s} : move'[t] = move[t] /\ parent'[t] = parent[t]
            /\ parent'[s] = IF move'[s] \in {"unborn", "reaped"} THEN "none"
                            ELSE IF move'[s] \in {"forking", "started", "locked", "unlinked back", "unlinked"}
                            THEN "shell" ELSE "station"
        BY <3>1, <2>m, <2>p
      <3>5. Lists!Parents'
        BY <3>q, <2>a
      <3>6. Walked'
        BY <3>1, <1>1 DEF Walked
      <3> QED BY <3>2, <3>3, <3>5, <3>6
    <2>9. CASE Lists!ForkForward(s)
      <3>1. /\ move[s] = "forking" /\ move' = [move EXCEPT ![s] = "started"]
            /\ next' = [next EXCEPT ![links_reg[s].prev] = s]
            /\ UNCHANGED <<prev, parent, links_reg, lock, cur, disturbed>>
        BY <2>9 DEF Lists!ForkForward, Lists!Goes
      <3>p. move' \in [Soldiers -> Lists!States]
        BY <3>1, <2>m
      <3>2. Typed'
        BY <3>1, <3>p, <2>0, <1>1 DEF Typed
      <3>3. Held'
        BY <3>1, <3>p, <2>m, <2>l
      <3>q. /\ \A t \in Soldiers \ {s} : move'[t] = move[t] /\ parent'[t] = parent[t]
            /\ parent'[s] = IF move'[s] \in {"unborn", "reaped"} THEN "none"
                            ELSE IF move'[s] \in {"forking", "started", "locked", "unlinked back", "unlinked"}
                            THEN "shell" ELSE "station"
        BY <3>1, <2>m, <2>p
      <3>5. Lists!Parents'
        BY <3>q, <2>a
      <3>6. Walked'
        BY <3>1, <1>1 DEF Walked
      <3> QED BY <3>2, <3>3, <3>5, <3>6
    <2>10. CASE Lists!Die(s)
      <3>1. /\ move[s] = "asleep" /\ move' = [move EXCEPT ![s] = "dead"]
            /\ UNCHANGED <<next, prev, parent, links_reg, lock, cur, disturbed>>
        BY <2>10 DEF Lists!Die, Lists!Goes
      <3>p. move' \in [Soldiers -> Lists!States]
        BY <3>1, <2>m
      <3>2. Typed'
        BY <3>1, <3>p, <2>0, <1>1 DEF Typed
      <3>3. Held'
        BY <3>1, <3>p, <2>m, <2>l
      <3>q. /\ \A t \in Soldiers \ {s} : move'[t] = move[t] /\ parent'[t] = parent[t]
            /\ parent'[s] = IF move'[s] \in {"unborn", "reaped"} THEN "none"
                            ELSE IF move'[s] \in {"forking", "started", "locked", "unlinked back", "unlinked"}
                            THEN "shell" ELSE "station"
        BY <3>1, <2>m, <2>p
      <3>5. Lists!Parents'
        BY <3>q, <2>a
      <3>6. Walked'
        BY <3>1, <1>1 DEF Walked
      <3> QED BY <3>2, <3>3, <3>5, <3>6
    <2>11. CASE Lists!ReapBack(s)
      <3>1. /\ move[s] = "dead" /\ move' = [move EXCEPT ![s] = "reaping"]
            /\ links_reg' = [links_reg EXCEPT ![s] = [prev |-> prev[s], next |-> next[s]]]
            /\ prev' = [prev EXCEPT ![next[s]] = prev[s]]
            /\ UNCHANGED <<next, parent, lock, cur>> /\ disturbed' \in BOOLEAN
        BY <2>11 DEF Lists!ReapBack, Lists!MayChange, Lists!Neighbours, Lists!Goes
      <3>p. move' \in [Soldiers -> Lists!States]
        BY <3>1, <2>m
      <3>2. Typed'
        BY <3>1, <3>p, <2>0, <1>1 DEF Typed
      <3>3. Held'
        BY <3>1, <3>p, <2>m, <2>l
      <3>q. /\ \A t \in Soldiers \ {s} : move'[t] = move[t] /\ parent'[t] = parent[t]
            /\ parent'[s] = IF move'[s] \in {"unborn", "reaped"} THEN "none"
                            ELSE IF move'[s] \in {"forking", "started", "locked", "unlinked back", "unlinked"}
                            THEN "shell" ELSE "station"
        BY <3>1, <2>m, <2>p
      <3>5. Lists!Parents'
        BY <3>q, <2>a
      <3>6. Walked'
        BY <3>1, <1>1 DEF Walked
      <3> QED BY <3>2, <3>3, <3>5, <3>6
    <2>12. CASE Lists!ReapForward(s)
      <3>1. /\ move[s] = "reaping" /\ move' = [move EXCEPT ![s] = "reaped"]
            /\ next' = [next EXCEPT ![links_reg[s].prev] = links_reg[s].next, ![s] = s]
            /\ prev' = [prev EXCEPT ![s] = s]
            /\ parent' = [parent EXCEPT ![s] = "none"]
            /\ UNCHANGED <<links_reg, lock, cur, disturbed>>
        BY <2>12 DEF Lists!ReapForward, Lists!Goes
      <3>p. move' \in [Soldiers -> Lists!States]
        BY <3>1, <2>m
      <3>2. Typed'
        BY <3>1, <3>p, <2>0, <1>1 DEF Typed
      <3>3. Held'
        BY <3>1, <3>p, <2>m, <2>l
      <3>q. /\ \A t \in Soldiers \ {s} : move'[t] = move[t] /\ parent'[t] = parent[t]
            /\ parent'[s] = IF move'[s] \in {"unborn", "reaped"} THEN "none"
                            ELSE IF move'[s] \in {"forking", "started", "locked", "unlinked back", "unlinked"}
                            THEN "shell" ELSE "station"
        BY <3>1, <2>m, <2>p
      <3>5. Lists!Parents'
        BY <3>q, <2>a
      <3>6. Walked'
        BY <3>1, <1>1 DEF Walked
      <3> QED BY <3>2, <3>3, <3>5, <3>6
    <2> QED
      BY <1>3, <2>1, <2>2, <2>3, <2>4, <2>5, <2>6, <2>7, <2>8, <2>9, <2>10, <2>11, <2>12, Zenon
      DEF Lists!Soldier
  <1>4. CASE Lists!EmergencyBegins
    <2>1. /\ cur["emergency"] = "idle" /\ cur' = [cur EXCEPT !["emergency"] = next["station"]]
          /\ lock = "none" /\ lock' = "emergency"
          /\ UNCHANGED <<next, prev, parent, move, links_reg, disturbed>>
      BY <1>4 DEF Lists!EmergencyBegins, Lists!Begins, Lists!links
    <2>2. Typed'
      BY <2>1, <1>1, <1>2 DEF Typed
    <2>3. Held' /\ Walked'
      BY <2>1, <1>1, <1>2 DEF Held, Walked, Typed
    <2>4. Lists!Parents'
      BY <2>1, <1>1 DEF Lists!Parents
    <2> QED BY <2>2, <2>3, <2>4
  <1>5. CASE Lists!EmergencySteps
    <2>1. /\ cur["emergency"] \in Lists!Nodes /\ cur' = [cur EXCEPT !["emergency"] = next[cur["emergency"]]]
          /\ UNCHANGED <<next, prev, parent, move, links_reg, disturbed, lock>>
      BY <1>5 DEF Lists!EmergencySteps, Lists!Steps, Lists!links
    <2>2. Typed' /\ Held' /\ Walked'
      BY <2>1, <1>1, <1>2 DEF Typed, Held, Walked
    <2>3. Lists!Parents'
      BY <2>1, <1>1 DEF Lists!Parents
    <2> QED BY <2>2, <2>3
  <1>6. CASE Lists!EmergencyEnds
    <2>1. /\ cur["emergency"] = "station" /\ cur' = [cur EXCEPT !["emergency"] = "done"]
          /\ lock' = "none"
          /\ UNCHANGED <<next, prev, parent, move, links_reg, disturbed>>
      BY <1>6 DEF Lists!EmergencyEnds, Lists!Ends, Lists!links
    <2>2. lock = "emergency"
      BY <2>1, <1>1, <1>2 DEF Walked
    <2>3. Typed'
      BY <2>1, <1>1 DEF Typed
    <2>4. Held' /\ Walked'
      <3>1. Held'
        BY <2>1, <2>2, <1>1, <1>2 DEF Held
      <3>2. cur'["emergency"] = "done"
        BY <2>1, <1>1 DEF Typed
      <3> QED BY <2>1, <3>1, <3>2, <1>n DEF Walked
    <2>5. Lists!Parents'
      BY <2>1, <1>1 DEF Lists!Parents
    <2> QED BY <2>3, <2>4, <2>5
  <1>7. CASE Lists!Lkm2
    <2>1. /\ \/ cur' = [cur EXCEPT !["lkm2"] = next["shell"]]
             \/ cur["lkm2"] \in Lists!Nodes /\ cur' = [cur EXCEPT !["lkm2"] = next[cur["lkm2"]]]
             \/ cur' = [cur EXCEPT !["lkm2"] = "done"]
          /\ UNCHANGED <<next, prev, parent, move, links_reg, disturbed, lock>>
      BY <1>7 DEF Lists!Lkm2, Lists!Begins, Lists!Steps, Lists!Ends, Lists!links
    <2>2. cur' \in [{"lkm2", "emergency"} -> Lists!Nodes \cup {"idle", "done"}]
          /\ cur'["emergency"] = cur["emergency"]
      BY <2>1, <1>1, <1>2 DEF Typed
    <2>3. Typed' /\ Held' /\ Walked'
      BY <2>1, <2>2, <1>1 DEF Typed, Held, Walked
    <2>4. Lists!Parents'
      BY <2>1, <1>1 DEF Lists!Parents
    <2> QED BY <2>3, <2>4
  <1>8. CASE Lists!Over \/ UNCHANGED listsVars
    <2>1. UNCHANGED <<next, prev, parent, move, links_reg, disturbed, lock, cur>>
      BY <1>8 DEF Lists!Over, Lists!vars, listsVars
    <2> QED BY <2>1, <1>1 DEF Typed, Held, Walked, Lists!Parents
  <1>9. Lists!Next \/ UNCHANGED listsVars
    OBVIOUS
  <1>10. CASE \E s \in Soldiers : Lists!Soldier(s) \/ Lists!ForkBack(s) \/ Lists!Die(s)
    BY <1>10, <1>3, Zenon
  <1> QED BY <1>9, <1>10, <1>4, <1>5, <1>6, <1>7, <1>8 DEF Lists!Next

\* A change that overlaps no other: the other soldiers stay where they are, and
\* none of them is changed at the moment.
LEMMA ListsAlone ==
    ASSUME Lists!IInv, ~disturbed', NEW s \in Soldiers, Lists!Soldier(s) \/ Lists!ForkBack(s)
    PROVE  /\ ~disturbed /\ Lists!Whole
           /\ \A t \in Soldiers \ {s} : /\ move[t] \in {"unborn", "started", "asleep", "dead", "reaped"}
                                        /\ move'[t] = move[t]
           /\ \A t, u \in Soldiers :
                 {move'[t], move'[u]} \subseteq Lists!Moving \cup Lists!Tasklist => t = u
           /\ \A t \in Soldiers \ {s} : Lists!Halfway(t)'
  <1>1. /\ move \in [Soldiers -> Lists!States]
        /\ \A t \in Soldiers : lock = t <=> move[t] \in Lists!Moving
    BY DEF Lists!IInv, Lists!TypeOK
  <1>2. \A t \in Soldiers : t # "none"
    BY ListsFacts
  <1>g. \E from, to : Lists!Goes(s, from, to)
    <2> HIDE DEF Lists!Goes
    <2>1. \/ Lists!Goes(s, "started", "locked") \/ Lists!Goes(s, "locked", "unlinked back")
          \/ Lists!Goes(s, "unlinked back", "unlinked") \/ Lists!Goes(s, "unlinked", "prepared")
          \/ Lists!Goes(s, "prepared", "published") \/ Lists!Goes(s, "published", "linked")
          \/ Lists!Goes(s, "linked", "asleep") \/ Lists!Goes(s, "unborn", "forking")
          \/ Lists!Goes(s, "forking", "started") \/ Lists!Goes(s, "dead", "reaping")
          \/ Lists!Goes(s, "reaping", "reaped")
      BY DEF Lists!Soldier, Lists!Lock, Lists!DelBack, Lists!DelForward, Lists!AddPrepares,
             Lists!AddPublishes, Lists!AddBack, Lists!Unlock, Lists!ForkBack, Lists!ForkForward,
             Lists!ReapBack, Lists!ReapForward
    <2> QED BY <2>1, Zenon
  <1>3. \A t \in Soldiers \ {s} : move'[t] = move[t]
    BY <1>1, <1>g DEF Lists!Goes
  <1>4. ~disturbed
    BY DEF Lists!Soldier, Lists!Lock, Lists!DelBack, Lists!DelForward, Lists!AddPrepares,
           Lists!AddPublishes, Lists!AddBack, Lists!Unlock, Lists!ForkBack, Lists!ForkForward,
           Lists!ReapBack, Lists!ReapForward, Lists!MayChange
  <1>5. Lists!Whole
    BY <1>4 DEF Lists!IInv
  <1>6. \/ lock = "none" /\ Lists!TasklistFree
        \/ Lists!TasklistFree /\ \A t \in Soldiers : move[t] \notin Lists!Moving
        \/ move[s] \in Lists!Moving \cup Lists!Tasklist
    <2>1. CASE Lists!Lock(s)
      BY <2>1 DEF Lists!Lock, Lists!MayLock
    <2>2. CASE Lists!ForkBack(s) \/ Lists!ReapBack(s)
      BY <2>2 DEF Lists!ForkBack, Lists!ReapBack, Lists!MayChange
    <2>3. CASE \/ Lists!DelBack(s) \/ Lists!DelForward(s) \/ Lists!AddPrepares(s)
               \/ Lists!AddPublishes(s) \/ Lists!AddBack(s) \/ Lists!Unlock(s)
               \/ Lists!ForkForward(s) \/ Lists!ReapForward(s)
      BY <2>3 DEF Lists!DelBack, Lists!DelForward, Lists!AddPrepares, Lists!AddPublishes,
                  Lists!AddBack, Lists!Unlock, Lists!ForkForward, Lists!ReapForward,
                  Lists!Goes, Lists!Moving, Lists!Tasklist
    <2> QED BY <2>1, <2>2, <2>3 DEF Lists!Soldier
  <1>7. \A t \in Soldiers \ {s} : move[t] \notin Lists!Moving \cup Lists!Tasklist
    <2>1. CASE Lists!TasklistFree
      BY <2>1, <1>1, <1>2, <1>5, <1>6 DEF Lists!TasklistFree, Lists!Whole
    <2>2. CASE move[s] \in Lists!Moving \cup Lists!Tasklist
      BY <2>2, <1>5 DEF Lists!Whole
    <2> QED BY <1>6, <2>1, <2>2
  <1>8. \A t \in Soldiers \ {s} : /\ move[t] \in {"unborn", "started", "asleep", "dead", "reaped"}
                                  /\ move'[t] = move[t]
    BY <1>1, <1>3, <1>7 DEF Lists!States
  <1>9. \A t \in Soldiers \ {s} : Lists!Halfway(t)'
    BY <1>8 DEF Lists!Halfway
  <1>10. ASSUME NEW t \in Soldiers, NEW u \in Soldiers,
                {move'[t], move'[u]} \subseteq Lists!Moving \cup Lists!Tasklist
         PROVE  t = u
    BY <1>7, <1>8, <1>10
  <1> QED BY <1>4, <1>5, <1>8, <1>9, <1>10

\* What an order says of the two lists.
LEMMA OrderFacts ==
    ASSUME Lists!TypeOK, NEW pos \in [Soldiers -> Int], NEW lo \in Int, NEW high \in Int,
           Lists!InOrder(pos, lo, high), NEW h \in Lists!Heads
    PROVE  /\ h \notin Soldiers /\ h \in Lists!Nodes
           /\ Lists!OnForward(h) \in SUBSET Soldiers /\ Lists!OnBack(h) \in SUBSET Soldiers
           /\ \A s, t \in Lists!OnForward(h) : pos[s] = pos[t] => s = t
           /\ \A s, t \in Lists!OnBack(h) : pos[s] = pos[t] => s = t
           /\ \A s, t \in Lists!OnBack(h) : Lists!Back(pos)[s] = Lists!Back(pos)[t] => s = t
           /\ Lists!Linked(next, h, Lists!OnForward(h), pos)
           /\ Lists!Linked(prev, h, Lists!OnBack(h), Lists!Back(pos))
           /\ Lists!Back(pos) \in [Soldiers -> Int]
           /\ \A s \in Soldiers : pos[s] \in Int /\ Lists!Back(pos)[s] = -pos[s]
  <1>1. h \notin Soldiers /\ h \in Lists!Nodes
    BY ListsFacts DEF Lists!Heads, Lists!Nodes
  <1>2. Lists!OnForward(h) \in SUBSET Soldiers /\ Lists!OnBack(h) \in SUBSET Soldiers
    BY DEF Lists!OnForward, Lists!OnBack
  <1>3. \A s \in Lists!OnForward(h) \cup Lists!OnBack(h) : move[s] # "unborn"
    BY DEF Lists!OnForward, Lists!OnBack
  <1>4. \A s, t \in Lists!OnForward(h) \cup Lists!OnBack(h) : pos[s] = pos[t] => s = t
    BY <1>2, <1>3 DEF Lists!InOrder
  <1>5. /\ Lists!Back(pos) \in [Soldiers -> Int]
        /\ \A s \in Soldiers : pos[s] \in Int /\ Lists!Back(pos)[s] = -pos[s]
    BY BackTwice
  <1>6. \A s, t \in Lists!OnBack(h) : Lists!Back(pos)[s] = Lists!Back(pos)[t] => s = t
    BY <1>2, <1>4, <1>5
  <1>7. /\ Lists!Linked(next, h, Lists!OnForward(h), pos)
        /\ Lists!Linked(prev, h, Lists!OnBack(h), Lists!Back(pos))
    BY DEF Lists!InOrder
  <1> QED BY <1>1, <1>2, <1>4, <1>5, <1>6, <1>7

\* A ring whose members, their positions and links a step leaves alone.
LEMMA ListsSame ==
    ASSUME Lists!TypeOK, NEW pos \in [Soldiers -> Int], NEW lo \in Int, NEW high \in Int,
           Lists!InOrder(pos, lo, high), NEW h \in Lists!Heads, NEW pos2 \in [Soldiers -> Int]
    PROVE  /\ /\ Lists!OnForward(h)' = Lists!OnForward(h)
              /\ \A x \in Lists!OnForward(h) : pos2[x] = pos[x]
              /\ \A x \in Lists!OnForward(h) \cup {h} : next'[x] = next[x]
              => Lists!Linked(next', h, Lists!OnForward(h)', pos2)
           /\ /\ Lists!OnBack(h)' = Lists!OnBack(h)
              /\ \A x \in Lists!OnBack(h) : pos2[x] = pos[x]
              /\ \A x \in Lists!OnBack(h) \cup {h} : prev'[x] = prev[x]
              => Lists!Linked(prev', h, Lists!OnBack(h)', Lists!Back(pos2))
  <1>1. /\ h \notin Lists!OnForward(h) /\ h \notin Lists!OnBack(h)
        /\ Lists!OnForward(h) \in SUBSET Soldiers /\ Lists!OnBack(h) \in SUBSET Soldiers
        /\ Lists!Linked(next, h, Lists!OnForward(h), pos)
        /\ Lists!Linked(prev, h, Lists!OnBack(h), Lists!Back(pos))
        /\ Lists!Back(pos) \in [Soldiers -> Int] /\ Lists!Back(pos2) \in [Soldiers -> Int]
        /\ \A s \in Soldiers : Lists!Back(pos)[s] = -pos[s] /\ Lists!Back(pos2)[s] = -pos2[s]
    BY OrderFacts, BackTwice
  <1>2. ASSUME Lists!OnForward(h)' = Lists!OnForward(h),
               \A x \in Lists!OnForward(h) : pos2[x] = pos[x],
               \A x \in Lists!OnForward(h) \cup {h} : next'[x] = next[x]
        PROVE  Lists!Linked(next', h, Lists!OnForward(h)', pos2)
    <2>1. Lists!Linked(next', h, Lists!OnForward(h), pos2)
      BY <1>1, <1>2, LinkedAlike
    <2> QED BY <2>1, <1>2
  <1>3. ASSUME Lists!OnBack(h)' = Lists!OnBack(h),
               \A x \in Lists!OnBack(h) : pos2[x] = pos[x],
               \A x \in Lists!OnBack(h) \cup {h} : prev'[x] = prev[x]
        PROVE  Lists!Linked(prev', h, Lists!OnBack(h)', Lists!Back(pos2))
    <2>1. \A x \in Lists!OnBack(h) : Lists!Back(pos2)[x] = Lists!Back(pos)[x]
      BY <1>1, <1>3
    <2>2. Lists!Linked(prev', h, Lists!OnBack(h), Lists!Back(pos2))
      BY <1>1, <1>3, <2>1, LinkedAlike
    <2> QED BY <2>2, <1>3
  <1> QED BY <1>2, <1>3

\* How the invariant is shown after a step of s that overlaps no other: the changes
\* of the rings and of the positions, and where s is, are all that matters.
LEMMA WholeAgain ==
    ASSUME Lists!IInv, ~disturbed', NEW s \in Soldiers, Lists!Soldier(s) \/ Lists!ForkBack(s),
           Lists!Halfway(s)',
           NEW pos2 \in [Soldiers -> Int], NEW low2 \in Int, NEW high2 \in Int,
           \A t \in Soldiers : low2 < pos2[t] /\ pos2[t] < high2,
           \A t, u \in Soldiers : "unborn" \notin {move'[t], move'[u]} /\ pos2[t] = pos2[u] => t = u,
           \A h \in Lists!Heads : /\ Lists!Linked(next', h, Lists!OnForward(h)', pos2)
                                  /\ Lists!Linked(prev', h, Lists!OnBack(h)', Lists!Back(pos2)),
           move'[s] = "published" => \A t \in Lists!OnForward("station")' \ {s} : pos2[s] < pos2[t],
           move'[s] = "forking" => \A t \in Lists!OnForward("shell")' : pos2[t] < pos2[s]
    PROVE  Lists!Whole'
  <1>1. /\ \A t \in Soldiers \ {s} : move'[t] \in {"unborn", "started", "asleep", "dead", "reaped"}
        /\ \A t, u \in Soldiers :
              {move'[t], move'[u]} \subseteq Lists!Moving \cup Lists!Tasklist => t = u
        /\ \A t \in Soldiers \ {s} : Lists!Halfway(t)'
    <2>1. /\ \A t \in Soldiers \ {s} : /\ move[t] \in {"unborn", "started", "asleep", "dead", "reaped"}
                                       /\ move'[t] = move[t]
          /\ \A t, u \in Soldiers :
                {move'[t], move'[u]} \subseteq Lists!Moving \cup Lists!Tasklist => t = u
          /\ \A t \in Soldiers \ {s} : Lists!Halfway(t)'
      BY ListsAlone, Zenon
    <2> QED BY <2>1
  <1>2. \A t \in Soldiers : Lists!Halfway(t)'
    BY <1>1
  <1>3. \A t \in Soldiers :
           /\ move'[t] = "published" => \A u \in Lists!OnForward("station")' \ {t} : pos2[t] < pos2[u]
           /\ move'[t] = "forking" => \A u \in Lists!OnForward("shell")' : pos2[u] < pos2[t]
    BY <1>1
  <1>4. Lists!InOrder(pos2, low2, high2)'
    BY <1>3, Zenon DEF Lists!InOrder
  <1> HIDE DEF Lists!InOrder
  <1>5. (\E pos \in [Soldiers -> Int], lo, high \in Int : Lists!InOrder(pos, lo, high))'
    BY <1>4
  <1> QED BY <1>1, <1>2, <1>5 DEF Lists!Whole

\* A step that changes no ring.
LEMMA WholeStill ==
    ASSUME Lists!IInv, ~disturbed', NEW s \in Soldiers, Lists!Soldier(s), Lists!Halfway(s)',
           move[s] # "unborn", move'[s] \notin {"published", "forking"},
           \A h \in Lists!Heads :
              /\ Lists!OnForward(h)' = Lists!OnForward(h) /\ Lists!OnBack(h)' = Lists!OnBack(h)
              /\ \A x \in Lists!OnForward(h) \cup {h} : next'[x] = next[x]
              /\ \A x \in Lists!OnBack(h) \cup {h} : prev'[x] = prev[x]
    PROVE  Lists!Whole'
  <1>1. /\ Lists!Whole
        /\ \A t \in Soldiers \ {s} : move'[t] = move[t]
    BY ListsAlone, Zenon
  <1>2. PICK pos \in [Soldiers -> Int], lo, high \in Int : Lists!InOrder(pos, lo, high)
    BY <1>1 DEF Lists!Whole
  <1>3. /\ \A t \in Soldiers : lo < pos[t] /\ pos[t] < high
        /\ \A t, u \in Soldiers : "unborn" \notin {move'[t], move'[u]} /\ pos[t] = pos[u] => t = u
    BY <1>1, <1>2 DEF Lists!InOrder
  <1>4. Lists!TypeOK
    BY DEF Lists!IInv
  <1>5. \A h \in Lists!Heads : /\ Lists!Linked(next', h, Lists!OnForward(h)', pos)
                               /\ Lists!Linked(prev', h, Lists!OnBack(h)', Lists!Back(pos))
    BY <1>2, <1>4, ListsSame
  <1> QED BY <1>2, <1>3, <1>5, WholeAgain

\* A soldier takes the lock.
LEMMA ListsLock ==
    ASSUME Lists!IInv, ~disturbed', NEW s \in Soldiers, Lists!Lock(s)
    PROVE  Lists!Whole'
  <1>1. move[s] = "started" /\ move'[s] = "locked" /\ UNCHANGED <<next, prev>>
    BY DEF Lists!Lock, Lists!Goes, Lists!IInv, Lists!TypeOK
  <1>2. Lists!Soldier(s)
    BY DEF Lists!Soldier
  <1>3. \A t \in Soldiers \ {s} : move'[t] = move[t]
    BY <1>2, ListsAlone, Zenon
  <1>4. \A h \in Lists!Heads : /\ Lists!OnForward(h)' = Lists!OnForward(h)
                               /\ Lists!OnBack(h)' = Lists!OnBack(h)
    BY <1>1, <1>3, Zenon DEF Lists!OnForward, Lists!OnBack, Lists!Heads
  <1>5. Lists!Halfway(s)'
    BY <1>1 DEF Lists!Halfway
  <1> QED BY <1>1, <1>2, <1>4, <1>5, WholeStill

\* A soldier prepares its links.
LEMMA ListsAddPrepares ==
    ASSUME Lists!IInv, ~disturbed', NEW s \in Soldiers, Lists!AddPrepares(s)
    PROVE  Lists!Whole'
  <1>1. /\ move[s] = "unlinked" /\ move'[s] = "prepared"
        /\ links_reg'[s] = [prev |-> "station", next |-> next["station"]]
        /\ next' = [next EXCEPT ![s] = next["station"]]
        /\ prev' = [prev EXCEPT ![s] = "station"]
        /\ next \in [Lists!Nodes -> Lists!Nodes] /\ prev \in [Lists!Nodes -> Lists!Nodes \cup {"poison"}]
    BY DEF Lists!AddPrepares, Lists!Goes, Lists!IInv, Lists!TypeOK
  <1>2. Lists!Soldier(s) /\ Lists!TypeOK
    BY DEF Lists!Soldier, Lists!IInv
  <1>3. /\ Lists!Whole
        /\ \A t \in Soldiers \ {s} : /\ move[t] \in {"unborn", "started", "asleep", "dead", "reaped"}
                                     /\ move'[t] = move[t]
    BY <1>2, ListsAlone, Zenon
  <1>4. \A h \in Lists!Heads : /\ Lists!OnForward(h)' = Lists!OnForward(h)
                               /\ Lists!OnBack(h)' = Lists!OnBack(h)
                               /\ s \notin Lists!OnForward(h) \cup Lists!OnBack(h) \cup {h}
    BY <1>1, <1>3, ListsFacts, Zenon DEF Lists!OnForward, Lists!OnBack, Lists!Heads
  <1>5. PICK pos \in [Soldiers -> Int], lo, high \in Int : Lists!InOrder(pos, lo, high)
    BY <1>3 DEF Lists!Whole
  <1>6. "station" \in Lists!Heads
    BY DEF Lists!Heads
  <1> DEFINE M == Lists!OnBack("station")
             y == next["station"]
  <1>7. Lists!OnForward("station") = M
    BY <1>1, <1>3 DEF Lists!OnForward, Lists!OnBack
  <1>8. /\ "station" \notin Soldiers /\ "station" \in Lists!Nodes /\ M \in SUBSET Soldiers
        /\ \A t, u \in M : pos[t] = pos[u] => t = u
        /\ Lists!Linked(next, "station", M, pos) /\ Lists!Linked(prev, "station", M, Lists!Back(pos))
    BY <1>2, <1>5, <1>6, <1>7, OrderFacts
  <1>9. y \in M \cup {"station"}
    BY <1>8 DEF Lists!Linked
  <1>10. prev[y] = "station"
    BY <1>8, LinkedBothWays
  <1>11. s # y /\ s \in Lists!Nodes /\ y \in Lists!Nodes /\ s # "station"
    BY <1>4, <1>6, <1>9, <1>1, <1>8 DEF Lists!Nodes
  <1>12. /\ next'[s] = y /\ next'["station"] = y /\ prev'[s] = "station" /\ prev'[y] = "station"
         /\ links_reg'[s].next = y
    BY <1>1, <1>8, <1>10, <1>11
  <1>13. y \in M' \cup {"station"}
    BY <1>4, <1>6, <1>9
  <1>14. Lists!Halfway(s)'
    BY <1>1, <1>12, <1>13 DEF Lists!Halfway
  <1>15. \A h \in Lists!Heads : /\ \A x \in Lists!OnForward(h) \cup {h} : next'[x] = next[x]
                                /\ \A x \in Lists!OnBack(h) \cup {h} : prev'[x] = prev[x]
    BY <1>1, <1>4
  <1> QED BY <1>1, <1>2, <1>4, <1>14, <1>15, WholeStill

\* A soldier gives the lock back.
LEMMA ListsUnlock ==
    ASSUME Lists!IInv, ~disturbed', NEW s \in Soldiers, Lists!Unlock(s)
    PROVE  Lists!Whole'
  <1>1. move[s] = "linked" /\ move'[s] = "asleep" /\ UNCHANGED <<next, prev>>
    BY DEF Lists!Unlock, Lists!Goes, Lists!IInv, Lists!TypeOK
  <1>2. Lists!Soldier(s)
    BY DEF Lists!Soldier
  <1>3. \A t \in Soldiers \ {s} : move'[t] = move[t]
    BY <1>2, ListsAlone, Zenon
  <1>4. \A h \in Lists!Heads : /\ Lists!OnForward(h)' = Lists!OnForward(h)
                               /\ Lists!OnBack(h)' = Lists!OnBack(h)
    BY <1>1, <1>3, Zenon DEF Lists!OnForward, Lists!OnBack, Lists!Heads
  <1>5. Lists!Halfway(s)'
    BY <1>1 DEF Lists!Halfway
  <1> QED BY <1>1, <1>2, <1>4, <1>5, WholeStill

\* A soldier's entry is taken out of the list of h, first of the way back.
LEMMA ListsTakesBack ==
    ASSUME Lists!IInv, ~disturbed', NEW s \in Soldiers, NEW h \in Lists!Heads,
           \/ Lists!DelBack(s) /\ h = "shell"
           \/ Lists!ReapBack(s) /\ h = "station"
    PROVE  Lists!Whole'
  <1>1. /\ \/ move[s] = "locked" /\ move'[s] = "unlinked back" /\ h = "shell"
           \/ move[s] = "dead" /\ move'[s] = "reaping" /\ h = "station"
        /\ links_reg'[s] = [prev |-> prev[s], next |-> next[s]]
        /\ prev' = [prev EXCEPT ![next[s]] = prev[s]]
        /\ next' = next /\ parent' = parent
        /\ next \in [Lists!Nodes -> Lists!Nodes] /\ prev \in [Lists!Nodes -> Lists!Nodes \cup {"poison"}]
    BY DEF Lists!DelBack, Lists!ReapBack, Lists!Neighbours, Lists!Goes, Lists!IInv, Lists!TypeOK
  <1>r. links_reg'[s].prev = prev[s] /\ links_reg'[s].next = next[s]
    <2>1. \A r, p, n : r = [prev |-> p, next |-> n] => r.prev = p /\ r.next = n
      OBVIOUS
    <2>2. links_reg'[s] = [prev |-> prev[s], next |-> next[s]]
      BY <1>1
    <2> QED BY <2>1, <2>2, Zenon
  <1>2. Lists!Soldier(s) /\ Lists!TypeOK
    BY DEF Lists!Soldier, Lists!IInv
  <1>3. /\ Lists!Whole
        /\ \A t \in Soldiers \ {s} : /\ move[t] \in {"unborn", "started", "asleep", "dead", "reaped"}
                                     /\ move'[t] = move[t]
    BY <1>2, ListsAlone, Zenon
  <1>4. PICK pos \in [Soldiers -> Int], lo, high \in Int : Lists!InOrder(pos, lo, high)
    BY <1>3 DEF Lists!Whole
  <1> DEFINE M == Lists!OnForward(h)
             N == M \ {s}
  <1>5. /\ Lists!OnBack(h) = M /\ s \in M
        /\ Lists!OnForward(h)' = M /\ Lists!OnBack(h)' = N
        /\ \A g \in Lists!Heads \ {h} : /\ Lists!OnForward(g)' = Lists!OnForward(g)
                                        /\ Lists!OnBack(g)' = Lists!OnBack(g)
                                        /\ Lists!OnBack(g) \cap M = {}
    <2>1. Lists!OnBack(h) = M /\ s \in M
      BY <1>1, <1>3, Zenon DEF Lists!OnForward, Lists!OnBack, Lists!Heads
    <2>2. Lists!OnForward(h)' = M
      BY <1>1, <1>3, Zenon DEF Lists!OnForward, Lists!Heads
    <2>3. Lists!OnBack(h)' = N
      BY <1>1, <1>3, Zenon DEF Lists!OnForward, Lists!OnBack, Lists!Heads
    <2>4. ASSUME NEW g \in Lists!Heads \ {h}
          PROVE  /\ Lists!OnForward(g)' = Lists!OnForward(g) /\ Lists!OnBack(g)' = Lists!OnBack(g)
                 /\ Lists!OnBack(g) \cap M = {}
      BY <1>1, <1>3, Zenon DEF Lists!OnForward, Lists!OnBack, Lists!Heads
    <2> QED BY <2>1, <2>2, <2>3, <2>4
  <1>6. /\ h \notin Soldiers /\ h \in Lists!Nodes /\ M \in SUBSET Soldiers
        /\ \A t, u \in M : pos[t] = pos[u] => t = u
        /\ \A t, u \in M : Lists!Back(pos)[t] = Lists!Back(pos)[u] => t = u
        /\ Lists!Linked(next, h, M, pos) /\ Lists!Linked(prev, h, M, Lists!Back(pos))
        /\ Lists!Back(pos) \in [Soldiers -> Int] /\ Lists!Back(Lists!Back(pos)) = pos
    BY <1>2, <1>4, <1>5, OrderFacts, BackTwice
  <1>7. \A g \in Lists!Heads : g \notin Soldiers /\ Lists!OnBack(g) \in SUBSET Soldiers
    BY <1>2, <1>4, OrderFacts
  <1>8. next[s] \in M \cup {h} /\ prev[s] \in M \cup {h} /\ h \notin M /\ s # h
    BY <1>5, <1>6 DEF Lists!Linked
  <1> HIDE DEF M
  <1>9. prev[next[s]] = s
    <2> DEFINE back == Lists!Back(pos)
    <2>1. s \in M \cup {h} /\ Lists!Linked(prev, h, M, back)
      BY <1>5, <1>6
    <2>2. \A t, u \in M : pos[t] = pos[u] => t = u
      BY <1>6
    <2>3. M \in SUBSET Soldiers /\ h \notin Soldiers /\ Lists!Linked(next, h, M, pos)
      BY <1>6
    <2> HIDE DEF back
    <2>4. \A f, b : /\ Lists!Linked(f, h, M, pos) /\ Lists!Linked(b, h, M, Lists!Back(pos))
                    => \A x \in M \cup {h} : b[f[x]] = x
      BY <2>1, <2>2, <2>3, <1>4, BothWays
    <2> QED BY <2>1, <2>3, <2>4 DEF back
  <1>10. next[prev[s]] = s
    <2> DEFINE back == Lists!Back(pos)
    <2>1. /\ back \in [Soldiers -> Int] /\ \A t, u \in M : back[t] = back[u] => t = u
          /\ Lists!Linked(prev, h, M, back) /\ Lists!Linked(next, h, M, Lists!Back(back))
      BY <1>6
    <2>2. s \in M \cup {h} /\ M \in SUBSET Soldiers /\ h \notin Soldiers
      BY <1>5, <1>6
    <2> HIDE DEF back
    <2> QED BY <2>1, <2>2, LinkedBothWays
  <1>11. \A x \in N \cup {h} : prev'[x] = IF x = next[s] THEN prev[s] ELSE prev[x]
    <2>1. N \cup {h} \subseteq Lists!Nodes
      BY <1>6 DEF Lists!Nodes
    <2> QED BY <2>1, <1>1
  <1>12. Lists!Linked(prev', h, N, Lists!Back(pos))
    <2> DEFINE back == Lists!Back(pos)
    <2>1. /\ back \in [Soldiers -> Int] /\ \A t, u \in M : back[t] = back[u] => t = u
          /\ Lists!Linked(prev, h, M, back)
      BY <1>6
    <2> HIDE DEF back
    <2>2. Lists!Linked(prev', h, M \ {s}, back)
      BY <2>1, <1>5, <1>6, <1>8, <1>9, <1>11, LinkedWithout
    <2> QED BY <2>2 DEF back
  <1>13. ASSUME NEW g \in Lists!Heads
         PROVE  /\ Lists!Linked(next', g, Lists!OnForward(g)', pos)
                /\ Lists!Linked(prev', g, Lists!OnBack(g)', Lists!Back(pos))
    <2>1. Lists!Linked(next', g, Lists!OnForward(g)', pos)
      <3>1. Lists!OnForward(g)' = Lists!OnForward(g)
        BY <1>5 DEF M
      <3> QED BY <3>1, <1>1, <1>2, <1>4, ListsSame
    <2>2. CASE g = h
      BY <2>1, <2>2, <1>5, <1>12
    <2>3. CASE g # h
      <3>1. next[s] \notin Lists!OnBack(g) \cup {g}
        BY <2>3, <1>5, <1>6, <1>7, <1>8
      <3>2. \A x \in Lists!OnBack(g) \cup {g} : prev'[x] = prev[x]
        <4>1. \A x \in Lists!Nodes \ {next[s]} : prev'[x] = prev[x]
          BY <1>1
        <4>2. Lists!OnBack(g) \cup {g} \subseteq Lists!Nodes
          BY <1>7 DEF Lists!Nodes
        <4> QED BY <3>1, <4>1, <4>2
      <3>3. Lists!OnBack(g)' = Lists!OnBack(g)
        BY <2>3, <1>5
      <3>4. Lists!Linked(prev', g, Lists!OnBack(g)', Lists!Back(pos))
        BY <3>2, <3>3, <1>2, <1>4, ListsSame
      <3> QED BY <2>1, <3>4
    <2> QED BY <2>2, <2>3
  <1>14. Lists!Halfway(s)'
    <2>1. parent'[s] = h
      BY <1>1 DEF Lists!IInv, Lists!Parents
    <2>2. /\ links_reg'[s].next = next'[s] /\ links_reg'[s].prev \in Lists!OnForward(h)' \cup {h}
          /\ next'[links_reg'[s].prev] = s
      <3>1. links_reg'[s].next = next[s] /\ links_reg'[s].prev = prev[s] /\ next' = next
        BY <1>1, <1>r
      <3>2. Lists!OnForward(h)' = M
        BY <1>5
      <3>3. next'[prev[s]] = s
        BY <3>1, <1>10
      <3>4. links_reg'[s].prev \in Lists!OnForward(h)' \cup {h}
        BY <3>1, <3>2, <1>8
      <3>5. next'[links_reg'[s].prev] = s
        BY <3>1, <3>3
      <3> QED BY <3>1, <3>4, <3>5
    <2> QED BY <1>1, <2>1, <2>2 DEF Lists!Halfway
  <1>15. /\ \A t \in Soldiers : lo < pos[t] /\ pos[t] < high
         /\ \A t, u \in Soldiers : "unborn" \notin {move'[t], move'[u]} /\ pos[t] = pos[u] => t = u
    <2>1. \A t \in Soldiers : move'[t] # "unborn" => move[t] # "unborn"
      <3>1. move[s] # "unborn" /\ \A t \in Soldiers \ {s} : move'[t] = move[t]
        BY <1>1, <1>3
      <3> QED BY <3>1
    <2>2. \A t, u \in Soldiers : "unborn" \notin {move[t], move[u]} /\ pos[t] = pos[u] => t = u
      BY <1>4 DEF Lists!InOrder
    <2>3. \A t \in Soldiers : lo < pos[t] /\ pos[t] < high
      BY <1>4, Zenon DEF Lists!InOrder
    <2> QED BY <2>1, <2>2, <2>3
  <1>16. move'[s] \notin {"published", "forking"}
    BY <1>1
  <1> QED BY <1>2, <1>4, <1>13, <1>14, <1>15, <1>16, WholeAgain

\* Then of the way on.
LEMMA ListsTakesForward ==
    ASSUME Lists!IInv, ~disturbed', NEW s \in Soldiers, NEW h \in Lists!Heads,
           \/ Lists!DelForward(s) /\ h = "shell"
           \/ Lists!ReapForward(s) /\ h = "station"
    PROVE  Lists!Whole'
  <1> DEFINE y == links_reg[s].prev
             z == links_reg[s].next
  <1>1. /\ \/ move[s] = "unlinked back" /\ move'[s] = "unlinked" /\ h = "shell"
              /\ next' = [next EXCEPT ![y] = z]
           \/ move[s] = "reaping" /\ move'[s] = "reaped" /\ h = "station"
              /\ next' = [next EXCEPT ![y] = z, ![s] = s]
        /\ \E p : prev' = [prev EXCEPT ![s] = p]
        /\ next \in [Lists!Nodes -> Lists!Nodes] /\ prev \in [Lists!Nodes -> Lists!Nodes \cup {"poison"}]
    BY DEF Lists!DelForward, Lists!ReapForward, Lists!Goes, Lists!IInv, Lists!TypeOK
  <1>2. Lists!Soldier(s) /\ Lists!TypeOK
    BY DEF Lists!Soldier, Lists!IInv
  <1>3. /\ Lists!Whole /\ ~disturbed
        /\ \A t \in Soldiers \ {s} : /\ move[t] \in {"unborn", "started", "asleep", "dead", "reaped"}
                                     /\ move'[t] = move[t]
    BY <1>2, ListsAlone, Zenon
  <1>4. PICK pos \in [Soldiers -> Int], lo, high \in Int : Lists!InOrder(pos, lo, high)
    BY <1>3 DEF Lists!Whole
  <1> DEFINE M == Lists!OnForward(h)
             N == M \ {s}
  <1>5. /\ s \in M /\ Lists!OnForward(h)' = N
        /\ \A g \in Lists!Heads : /\ Lists!OnBack(g)' = Lists!OnBack(g) /\ s \notin Lists!OnBack(g)
        /\ \A g \in Lists!Heads \ {h} : /\ Lists!OnForward(g)' = Lists!OnForward(g)
                                        /\ Lists!OnForward(g) \cap M = {}
    <2>1. s \in M /\ Lists!OnForward(h)' = N
      BY <1>1, <1>3, Zenon DEF Lists!OnForward, Lists!Heads
    <2>2. ASSUME NEW g \in Lists!Heads
          PROVE  Lists!OnBack(g)' = Lists!OnBack(g) /\ s \notin Lists!OnBack(g)
      BY <1>1, <1>3, Zenon DEF Lists!OnBack, Lists!Heads
    <2>3. ASSUME NEW g \in Lists!Heads \ {h}
          PROVE  Lists!OnForward(g)' = Lists!OnForward(g) /\ Lists!OnForward(g) \cap M = {}
      BY <1>1, <1>3, Zenon DEF Lists!OnForward, Lists!Heads
    <2> QED BY <2>1, <2>2, <2>3
  <1>6. /\ h \notin Soldiers /\ h \in Lists!Nodes /\ M \in SUBSET Soldiers
        /\ \A t, u \in M : pos[t] = pos[u] => t = u
        /\ Lists!Linked(next, h, M, pos)
    BY <1>2, <1>4, OrderFacts
  <1>7. \A g \in Lists!Heads : g \notin Soldiers /\ Lists!OnForward(g) \in SUBSET Soldiers
                               /\ Lists!OnBack(g) \in SUBSET Soldiers
    BY <1>2, <1>4, OrderFacts
  <1>8. z = next[s] /\ y \in M \cup {h} /\ next[y] = s
    <2>1. parent[s] = h
      BY <1>1 DEF Lists!IInv, Lists!Parents
    <2>2. Lists!Halfway(s)
      BY <1>3 DEF Lists!Whole
    <2> QED BY <1>1, <2>1, <2>2 DEF Lists!Halfway
  <1> HIDE DEF y, z
  <1>9. next[s] \in N \cup {h} /\ s # y /\ s # h /\ h \notin M
    <2>1. pos[s] \in Int
      BY <1>4
    <2>2. next[s] \in M \cup {h} /\ next[s] # s
      BY <2>1, <1>5, <1>6 DEF Lists!Linked
    <2> QED BY <2>2, <1>5, <1>6, <1>8
  <1> HIDE DEF M
  <1>10. /\ \A x \in Lists!Nodes \ {s} : next'[x] = IF x = y THEN next[s] ELSE next[x]
         /\ move'[s] = "unlinked" => next'[s] = next[s]
         /\ \A x \in Lists!Nodes \ {s} : prev'[x] = prev[x]
    BY <1>1, <1>8, <1>9 DEF Lists!Nodes
  <1>11. Lists!Linked(next', h, N, pos)
    <2>1. \A x \in N \cup {h} : next'[x] = IF x = y THEN next[s] ELSE next[x]
      BY <1>6, <1>9, <1>10 DEF Lists!Nodes
    <2> QED BY <2>1, <1>5, <1>6, <1>8, <1>9, LinkedWithout
  <1>12. ASSUME NEW g \in Lists!Heads
         PROVE  /\ Lists!Linked(next', g, Lists!OnForward(g)', pos)
                /\ Lists!Linked(prev', g, Lists!OnBack(g)', Lists!Back(pos))
    <2>0. Lists!OnForward(g) \cup Lists!OnBack(g) \cup {g} \subseteq Lists!Nodes /\ s # g
      BY <1>7 DEF Lists!Nodes
    <2>1. Lists!Linked(prev', g, Lists!OnBack(g)', Lists!Back(pos))
      <3>1. \A x \in Lists!OnBack(g) \cup {g} : prev'[x] = prev[x]
        BY <2>0, <1>5, <1>10
      <3> QED BY <3>1, <1>2, <1>4, <1>5, ListsSame
    <2>2. CASE g = h
      BY <2>1, <2>2, <1>5, <1>11
    <2>3. CASE g # h
      <3>1. y \notin Lists!OnForward(g) \cup {g} /\ s \notin Lists!OnForward(g)
        BY <2>3, <1>5, <1>6, <1>7, <1>8
      <3>2. \A x \in Lists!OnForward(g) \cup {g} : next'[x] = next[x]
        BY <2>0, <3>1, <1>10
      <3>3. Lists!OnForward(g)' = Lists!OnForward(g)
        BY <2>3, <1>5
      <3>4. Lists!Linked(next', g, Lists!OnForward(g)', pos)
        BY <3>2, <3>3, <1>2, <1>4, ListsSame
      <3> QED BY <2>1, <3>4
    <2> QED BY <2>2, <2>3
  <1>13. Lists!Halfway(s)'
    <2>1. move'[s] = "unlinked" => next'[s] \in Lists!OnForward("shell")' \cup {"shell"}
      BY <1>1, <1>5, <1>9, <1>10
    <2> QED BY <1>1, <2>1 DEF Lists!Halfway
  <1>b. \A t \in Soldiers : move'[t] # "unborn" => move[t] # "unborn"
    BY <1>1, <1>3
  <1>14. /\ \A t \in Soldiers : lo < pos[t] /\ pos[t] < high
         /\ \A t, u \in Soldiers : "unborn" \notin {move'[t], move'[u]} /\ pos[t] = pos[u] => t = u
    BY <1>b, <1>4 DEF Lists!InOrder
  <1>15. move'[s] \notin {"published", "forking"}
    BY <1>1
  <1> QED BY <1>2, <1>4, <1>12, <1>13, <1>14, <1>15, WholeAgain

\* A soldier is linked to from the station's head: it takes the position before all.
LEMMA ListsAddPublishes ==
    ASSUME Lists!IInv, ~disturbed', NEW s \in Soldiers, Lists!AddPublishes(s)
    PROVE  Lists!Whole'
  <1> DEFINE h == "station"
             M == Lists!OnForward(h)
             y == next[s]
  <1>1. /\ move[s] = "prepared" /\ move'[s] = "published"
        /\ next' = [next EXCEPT ![h] = s] /\ prev' = prev /\ links_reg' = links_reg
        /\ next \in [Lists!Nodes -> Lists!Nodes]
    BY DEF Lists!AddPublishes, Lists!Goes, Lists!IInv, Lists!TypeOK
  <1>2. Lists!Soldier(s) /\ Lists!TypeOK /\ h \in Lists!Heads
    BY DEF Lists!Soldier, Lists!IInv, Lists!Heads
  <1>3. /\ Lists!Whole
        /\ \A t \in Soldiers \ {s} : /\ move[t] \in {"unborn", "started", "asleep", "dead", "reaped"}
                                     /\ move'[t] = move[t]
    BY <1>2, ListsAlone, Zenon
  <1>4. PICK pos \in [Soldiers -> Int], lo, high \in Int : Lists!InOrder(pos, lo, high)
    BY <1>3 DEF Lists!Whole
  <1>5. /\ s \notin M /\ Lists!OnForward(h)' = M \cup {s} /\ Lists!OnForward("shell")' = Lists!OnForward("shell")
        /\ \A g \in Lists!Heads : /\ Lists!OnBack(g)' = Lists!OnBack(g)
                                  /\ s \notin Lists!OnBack(g) \cup Lists!OnForward(g)
    BY <1>1, <1>3, Zenon DEF Lists!OnForward, Lists!OnBack, Lists!Heads
  <1>6. /\ h \notin Soldiers /\ h \in Lists!Nodes /\ M \in SUBSET Soldiers
        /\ Lists!Linked(next, h, M, pos)
        /\ \A g \in Lists!Heads : Lists!OnForward(g) \in SUBSET Soldiers /\ Lists!OnBack(g) \in SUBSET Soldiers
    BY <1>2, <1>4, OrderFacts
  <1>7. /\ y = next[h] /\ prev[s] = h /\ links_reg[s].next = y
        /\ y \in Lists!OnBack(h) \cup {h} /\ prev[y] = h
    <2>1. Lists!Halfway(s)
      BY <1>3 DEF Lists!Whole
    <2> QED BY <1>1, <2>1 DEF Lists!Halfway
  <1> HIDE DEF y, M
  <1>8. next'[s] = y /\ next'[h] = s /\ \A x \in Lists!Nodes \ {h} : next'[x] = next[x]
    <2>1. s # h /\ s \in Lists!Nodes
      BY <1>6 DEF Lists!Nodes
    <2> QED BY <1>1, <1>6, <2>1 DEF y
  <1> DEFINE pos2 == [pos EXCEPT ![s] = lo]
  <1>9. /\ pos2 \in [Soldiers -> Int] /\ pos2[s] = lo
        /\ \A t \in Soldiers \ {s} : pos2[t] = pos[t]
    OBVIOUS
  <1> HIDE DEF pos2
  <1>10. /\ \A t \in Soldiers : lo < pos[t] /\ pos[t] < high
         /\ \A t, u \in Soldiers : "unborn" \notin {move[t], move[u]} /\ pos[t] = pos[u] => t = u
    BY <1>4 DEF Lists!InOrder
  <1>11. \A t \in Soldiers : lo - 1 < pos2[t] /\ pos2[t] < high
    BY <1>9, <1>10
  <1>12. ASSUME NEW t \in Soldiers, NEW u \in Soldiers,
                "unborn" \notin {move'[t], move'[u]} /\ pos2[t] = pos2[u]
         PROVE  t = u
    <2>1. ASSUME NEW v \in Soldiers \ {s} PROVE pos2[v] # pos2[s]
      BY <2>1, <1>9, <1>10
    <2>2. CASE t = s \/ u = s
      BY <2>1, <2>2, <1>12
    <2>3. CASE t # s /\ u # s
      BY <2>3, <1>3, <1>9, <1>10, <1>12
    <2> QED BY <2>2, <2>3
  <1>13. Lists!Linked(next', h, M \cup {s}, pos2)
    <2>1. \A t \in M : pos2[t] = pos[t] /\ pos2[s] < pos2[t]
      BY <1>5, <1>6, <1>9, <1>10
    <2>2. Lists!Linked(next, h, M, pos2)
      BY <1>6, <1>9, <2>1, LinkedAlike
    <2>3. next'[s] = next[h] /\ \A x \in M : next'[x] = next[x]
      BY <1>6, <1>7, <1>8 DEF Lists!Nodes
    <2>4. s \in Soldiers \ M
      BY <1>5
    <2> QED BY <1>6, <1>8, <1>9, <2>1, <2>2, <2>3, <2>4, LinkedInFront
  <1>14. ASSUME NEW g \in Lists!Heads
         PROVE  /\ Lists!Linked(next', g, Lists!OnForward(g)', pos2)
                /\ Lists!Linked(prev', g, Lists!OnBack(g)', Lists!Back(pos2))
    <2>1. Lists!Linked(prev', g, Lists!OnBack(g)', Lists!Back(pos2))
      <3>1. \A x \in Lists!OnBack(g) : pos2[x] = pos[x]
        BY <1>5, <1>6, <1>9
      <3>2. Lists!OnBack(g)' = Lists!OnBack(g) /\ \A x \in Lists!OnBack(g) \cup {g} : prev'[x] = prev[x]
        BY <1>1, <1>5
      <3> QED BY <3>1, <3>2, <1>2, <1>4, <1>9, ListsSame
    <2>2. CASE g = h
      <3>1. Lists!Linked(next', g, Lists!OnForward(g)', pos2)
        BY <2>2, <1>5, <1>13 DEF M
      <3> QED BY <2>1, <3>1
    <2>3. CASE g = "shell"
      <3>1. Lists!OnForward(g)' = Lists!OnForward(g) /\ \A x \in Lists!OnForward(g) : pos2[x] = pos[x]
        BY <2>3, <1>5, <1>6, <1>9
      <3>2. Lists!OnForward(g) \cup {g} \subseteq Lists!Nodes \ {h}
        BY <2>3, <1>6 DEF Lists!Nodes, Lists!Heads
      <3>3. \A x \in Lists!OnForward(g) \cup {g} : next'[x] = next[x]
        BY <3>2, <1>8
      <3>4. Lists!Linked(next', g, Lists!OnForward(g)', pos2)
        BY <3>1, <3>3, <1>2, <1>4, <1>9, ListsSame
      <3> QED BY <2>1, <3>4
    <2> QED BY <2>2, <2>3 DEF Lists!Heads
  <1>15. Lists!Halfway(s)'
    <2>1. /\ next'[h] = s /\ prev'[s] = h /\ links_reg'[s].next = next'[s]
          /\ next'[s] \in Lists!OnBack(h)' \cup {h} /\ prev'[next'[s]] = h
      BY <1>1, <1>2, <1>5, <1>7, <1>8
    <2> QED BY <1>1, <2>1 DEF Lists!Halfway
  <1>16. \A t \in Lists!OnForward(h)' \ {s} : pos2[s] < pos2[t]
    BY <1>5, <1>6, <1>9, <1>10
  <1>17. lo - 1 \in Int /\ move'[s] # "forking"
    BY <1>1
  <1> QED BY <1>2, <1>4, <1>9, <1>11, <1>12, <1>14, <1>15, <1>16, <1>17, WholeAgain

\* The soldier that was the station's first one is linked back to it.
LEMMA ListsAddBack ==
    ASSUME Lists!IInv, ~disturbed', NEW s \in Soldiers, Lists!AddBack(s)
    PROVE  Lists!Whole'
  <1> DEFINE h == "station"
             M == Lists!OnBack(h)
             y == next[s]
  <1>1. /\ move[s] = "published" /\ move'[s] = "linked"
        /\ prev' = [prev EXCEPT ![links_reg[s].next] = s] /\ next' = next
        /\ prev \in [Lists!Nodes -> Lists!Nodes \cup {"poison"}]
    BY DEF Lists!AddBack, Lists!Goes, Lists!IInv, Lists!TypeOK
  <1>2. Lists!Soldier(s) /\ Lists!TypeOK /\ h \in Lists!Heads
    BY DEF Lists!Soldier, Lists!IInv, Lists!Heads
  <1>3. /\ Lists!Whole
        /\ \A t \in Soldiers \ {s} : /\ move[t] \in {"unborn", "started", "asleep", "dead", "reaped"}
                                     /\ move'[t] = move[t]
    BY <1>2, ListsAlone, Zenon
  <1>4. PICK pos \in [Soldiers -> Int], lo, high \in Int : Lists!InOrder(pos, lo, high)
    BY <1>3 DEF Lists!Whole
  <1> DEFINE back == Lists!Back(pos)
  <1>5. /\ s \notin M /\ Lists!OnBack(h)' = M \cup {s} /\ Lists!OnBack("shell")' = Lists!OnBack("shell")
        /\ M \subseteq Lists!OnForward(h) \ {s}
        /\ \A g \in Lists!Heads : Lists!OnForward(g)' = Lists!OnForward(g)
        /\ Lists!OnBack("shell") \cap M = {}
    BY <1>1, <1>3, Zenon DEF Lists!OnForward, Lists!OnBack, Lists!Heads
  <1>6. /\ h \notin Soldiers /\ h \in Lists!Nodes /\ M \in SUBSET Soldiers
        /\ Lists!Linked(prev, h, M, back) /\ \A t, u \in M : back[t] = back[u] => t = u
        /\ back \in [Soldiers -> Int] /\ \A t \in Soldiers : back[t] = -pos[t] /\ pos[t] \in Int
        /\ \A g \in Lists!Heads : g \notin Soldiers /\ Lists!OnBack(g) \in SUBSET Soldiers
    BY <1>2, <1>4, OrderFacts
  <1>7. prev[s] = h /\ links_reg[s].next = y /\ y \in M \cup {h} /\ prev[y] = h
    <2>1. Lists!Halfway(s)
      BY <1>3 DEF Lists!Whole
    <2> QED BY <1>1, <2>1 DEF Lists!Halfway
  <1>8. \A t \in M : back[t] < back[s]
    <2>1. \A t \in Lists!OnForward(h) \ {s} : pos[s] < pos[t]
      BY <1>1, <1>4 DEF Lists!InOrder
    <2>2. \A t \in M : pos[s] < pos[t] /\ back[t] = -pos[t] /\ back[s] = -pos[s] /\ pos[s] \in Int /\ pos[t] \in Int
      BY <2>1, <1>5, <1>6
    <2> HIDE DEF back
    <2> QED BY <2>2
  <1> HIDE DEF y, M
  <1>9. \A x \in Lists!Nodes : prev'[x] = IF x = y THEN s ELSE prev[x]
    BY <1>1, <1>7
  <1>10. s # y /\ prev'[s] = h
    <2>1. s # y /\ s \in Lists!Nodes
      BY <1>5, <1>6, <1>7 DEF Lists!Nodes
    <2> QED BY <2>1, <1>7, <1>9
  <1>11. Lists!Linked(prev', h, M \cup {s}, back)
    <2>1. \A x \in M \cup {h} : prev'[x] = IF x = y THEN s ELSE prev[x]
      BY <1>6, <1>9 DEF Lists!Nodes
    <2>2. s \in Soldiers \ M
      BY <1>5
    <2>3. /\ M \in SUBSET Soldiers /\ h \notin Soldiers /\ back \in [Soldiers -> Int]
          /\ \A t, u \in M : back[t] = back[u] => t = u
          /\ Lists!Linked(prev, h, M, back) /\ \A t \in M : back[t] < back[s]
          /\ y \in M \cup {h} /\ prev[y] = h /\ prev'[s] = h
      BY <1>6, <1>7, <1>8, <1>10
    <2> HIDE DEF back, h
    <2> QED BY <2>1, <2>2, <2>3, LinkedAtEnd
  <1>12. ASSUME NEW g \in Lists!Heads
         PROVE  /\ Lists!Linked(next', g, Lists!OnForward(g)', pos)
                /\ Lists!Linked(prev', g, Lists!OnBack(g)', back)
    <2>1. Lists!Linked(next', g, Lists!OnForward(g)', pos)
      BY <1>1, <1>2, <1>4, <1>5, ListsSame
    <2>2. CASE g = h
      <3>1. Lists!Linked(prev', g, Lists!OnBack(g)', back)
        BY <2>2, <1>5, <1>11 DEF M
      <3> QED BY <2>1, <3>1
    <2>3. CASE g = "shell"
      <3>1. y \notin Lists!OnBack(g) \cup {g} /\ Lists!OnBack(g) \cup {g} \subseteq Lists!Nodes
        BY <2>3, <1>5, <1>6, <1>7 DEF Lists!Nodes, Lists!Heads
      <3>2. \A x \in Lists!OnBack(g) \cup {g} : prev'[x] = prev[x]
        BY <3>1, <1>9
      <3>3. Lists!OnBack(g)' = Lists!OnBack(g)
        BY <2>3, <1>5
      <3>4. Lists!Linked(prev', g, Lists!OnBack(g)', back)
        BY <3>2, <3>3, <1>2, <1>4, ListsSame
      <3> QED BY <2>1, <3>4
    <2> QED BY <2>2, <2>3 DEF Lists!Heads
  <1>13. Lists!Halfway(s)'
    BY <1>1 DEF Lists!Halfway
  <1>14. /\ \A t \in Soldiers : lo < pos[t] /\ pos[t] < high
         /\ \A t, u \in Soldiers : "unborn" \notin {move'[t], move'[u]} /\ pos[t] = pos[u] => t = u
    BY <1>1, <1>3, <1>4 DEF Lists!InOrder
  <1>15. move'[s] \notin {"published", "forking"}
    BY <1>1
  <1> QED BY <1>2, <1>4, <1>12, <1>13, <1>14, <1>15, WholeAgain

\* A new soldier is linked to backwards from the shell's head: it takes the position
\* after all.
LEMMA ListsForkBack ==
    ASSUME Lists!IInv, ~disturbed', NEW s \in Soldiers, Lists!ForkBack(s)
    PROVE  Lists!Whole'
  <1> DEFINE h == "shell"
             M == Lists!OnBack(h)
             y == prev[h]
  <1>1. /\ move[s] = "unborn" /\ move'[s] = "forking"
        /\ prev' = [prev EXCEPT ![h] = s, ![s] = y] /\ next' = [next EXCEPT ![s] = h]
        /\ links_reg'[s] = [prev |-> y, next |-> h]
        /\ prev \in [Lists!Nodes -> Lists!Nodes \cup {"poison"}] /\ next \in [Lists!Nodes -> Lists!Nodes]
    BY DEF Lists!ForkBack, Lists!Goes, Lists!IInv, Lists!TypeOK
  <1>2. Lists!TypeOK /\ h \in Lists!Heads
    BY DEF Lists!IInv, Lists!Heads
  <1>3. /\ Lists!Whole
        /\ \A t \in Soldiers \ {s} : /\ move[t] \in {"unborn", "started", "asleep", "dead", "reaped"}
                                     /\ move'[t] = move[t]
    BY ListsAlone, Zenon
  <1>4. PICK pos \in [Soldiers -> Int], lo, high \in Int : Lists!InOrder(pos, lo, high)
    BY <1>3 DEF Lists!Whole
  <1>5. /\ s \notin M /\ Lists!OnBack(h)' = M \cup {s} /\ Lists!OnBack("station")' = Lists!OnBack("station")
        /\ Lists!OnForward(h) = M
        /\ \A g \in Lists!Heads : /\ Lists!OnForward(g)' = Lists!OnForward(g)
                                  /\ s \notin Lists!OnBack(g) \cup Lists!OnForward(g)
    BY <1>1, <1>3, Zenon DEF Lists!OnForward, Lists!OnBack, Lists!Heads
  <1>6. /\ h \notin Soldiers /\ h \in Lists!Nodes /\ M \in SUBSET Soldiers
        /\ Lists!Linked(prev, h, M, Lists!Back(pos)) /\ Lists!Linked(next, h, M, pos)
        /\ \A t, u \in M : pos[t] = pos[u] => t = u
        /\ \A t, u \in M : Lists!Back(pos)[t] = Lists!Back(pos)[u] => t = u
        /\ Lists!Back(pos) \in [Soldiers -> Int] /\ Lists!Back(Lists!Back(pos)) = pos
        /\ \A t \in Soldiers : Lists!Back(pos)[t] = -pos[t] /\ pos[t] \in Int
        /\ \A g \in Lists!Heads : /\ g \notin Soldiers /\ Lists!OnBack(g) \in SUBSET Soldiers
                                  /\ Lists!OnForward(g) \in SUBSET Soldiers
    BY <1>2, <1>4, <1>5, OrderFacts, BackTwice
  <1>7. y \in M \cup {h}
    BY <1>6 DEF Lists!Linked
  <1>8. next[y] = h
    <2> DEFINE back == Lists!Back(pos)
    <2>1. /\ M \in SUBSET Soldiers /\ h \notin Soldiers /\ back \in [Soldiers -> Int]
          /\ \A t, u \in M : back[t] = back[u] => t = u
      BY <1>6
    <2>2. /\ Lists!Linked(prev, h, M, back) /\ Lists!Linked(next, h, M, Lists!Back(back))
          /\ h \in M \cup {h}
      BY <1>6
    <2> HIDE DEF back, M, h, y
    <2>3. \A f, b : Lists!Linked(f, h, M, back) /\ Lists!Linked(b, h, M, Lists!Back(back)) =>
                       \A x \in M \cup {h} : b[f[x]] = x
      BY <2>1, BothWays, SMTT(20)
    <2>4. next[prev[h]] = h
      BY <2>2, <2>3
    <2> QED BY <2>4 DEF h, y
  <1>9. /\ s \in Lists!Nodes /\ s # h /\ s # y
        /\ prev'[h] = s /\ prev'[s] = y /\ \A x \in Lists!Nodes \ {s, h} : prev'[x] = prev[x]
        /\ \A x \in Lists!Nodes \ {s} : next'[x] = next[x]
        /\ next'[s] = h
    <2>1. s \in Lists!Nodes /\ s # h /\ s # y
      BY <1>5, <1>6, <1>7 DEF Lists!Nodes
    <2> QED BY <2>1, <1>1, <1>6
  <1> HIDE DEF y, M
  <1> DEFINE pos2 == [pos EXCEPT ![s] = high]
             back2 == Lists!Back(pos2)
  <1>10. /\ pos2 \in [Soldiers -> Int] /\ pos2[s] = high
         /\ \A t \in Soldiers \ {s} : pos2[t] = pos[t]
    OBVIOUS
  <1> HIDE DEF pos2
  <1>11. back2 \in [Soldiers -> Int] /\ \A t \in Soldiers : back2[t] = -pos2[t]
    BY <1>10, BackTwice
  <1>12. /\ \A t \in Soldiers : lo < pos[t] /\ pos[t] < high
         /\ \A t, u \in Soldiers : "unborn" \notin {move[t], move[u]} /\ pos[t] = pos[u] => t = u
    BY <1>4 DEF Lists!InOrder
  <1> HIDE DEF back2
  <1>13. \A t \in Soldiers : lo < pos2[t] /\ pos2[t] < high + 1
    <2>1. lo < high
      <3>1. lo < pos[s] /\ pos[s] < high /\ pos[s] \in Int
        BY <1>6, <1>12
      <3> QED BY <3>1
    <2> QED BY <2>1, <1>10, <1>12
  <1>14. ASSUME NEW t \in Soldiers, NEW u \in Soldiers,
                "unborn" \notin {move'[t], move'[u]} /\ pos2[t] = pos2[u]
         PROVE  t = u
    <2>1. ASSUME NEW v \in Soldiers \ {s} PROVE pos2[v] # pos2[s]
      BY <2>1, <1>10, <1>12
    <2>2. CASE t = s \/ u = s
      BY <2>1, <2>2, <1>14
    <2>3. CASE t # s /\ u # s
      BY <2>3, <1>3, <1>10, <1>12, <1>14
    <2> QED BY <2>2, <2>3
  <1>15. Lists!Linked(prev', h, M \cup {s}, back2)
    <2>1. \A t \in M : back2[t] = Lists!Back(pos)[t]
      BY <1>5, <1>6, <1>10, <1>11
    <2>2. Lists!Linked(prev, h, M, back2)
      <3> DEFINE back == Lists!Back(pos)
      <3>1. /\ back \in [Soldiers -> Int] /\ Lists!Linked(prev, h, M, back) /\ \A t \in M : back2[t] = back[t]
            /\ h \notin M
        BY <1>6, <2>1
      <3> HIDE DEF back
      <3> QED BY <3>1, <1>6, <1>11, LinkedAlike
    <2>3. ASSUME NEW t \in M PROVE back2[s] < back2[t]
      <3>1. /\ back2[s] = -high /\ back2[t] = -pos[t] /\ pos[t] < high /\ pos[t] \in Int
        BY <1>5, <1>6, <1>10, <1>11, <1>12
      <3> QED BY <3>1
    <2>4. prev'[s] = prev[h] /\ prev'[h] = s /\ \A x \in M : prev'[x] = prev[x]
      BY <1>5, <1>6, <1>9 DEF Lists!Nodes, y
    <2>5. s \in Soldiers \ M /\ M \in SUBSET Soldiers /\ h \notin Soldiers
      BY <1>5, <1>6
    <2> HIDE DEF h
    <2> QED BY <1>11, <2>2, <2>3, <2>4, <2>5, LinkedInFront
  <1>16. ASSUME NEW g \in Lists!Heads
         PROVE  /\ Lists!Linked(next', g, Lists!OnForward(g)', pos2)
                /\ Lists!Linked(prev', g, Lists!OnBack(g)', back2)
    <2>0. /\ Lists!OnForward(g) \cup Lists!OnBack(g) \cup {g} \subseteq Lists!Nodes \ {s}
          /\ \A x \in Lists!OnForward(g) \cup Lists!OnBack(g) : pos2[x] = pos[x]
      BY <1>5, <1>6, <1>10 DEF Lists!Nodes
    <2>1. Lists!Linked(next', g, Lists!OnForward(g)', pos2)
      <3>1. \A x \in Lists!OnForward(g) \cup {g} : next'[x] = next[x]
        BY <2>0, <1>9
      <3> QED BY <3>1, <2>0, <1>2, <1>4, <1>5, <1>10, ListsSame
    <2>2. CASE g = h
      <3>1. Lists!Linked(prev', g, Lists!OnBack(g)', back2)
        BY <2>2, <1>5, <1>15 DEF M
      <3> QED BY <2>1, <3>1
    <2>3. CASE g = "station"
      <3>1. h \notin Lists!OnBack(g) \cup {g}
        BY <2>3, <1>6
      <3>2. \A x \in Lists!OnBack(g) \cup {g} : prev'[x] = prev[x]
        BY <2>0, <3>1, <1>9
      <3>3. Lists!OnBack(g)' = Lists!OnBack(g)
        BY <2>3, <1>5
      <3>4. Lists!Linked(prev', g, Lists!OnBack(g)', Lists!Back(pos2))
        BY <3>2, <3>3, <2>0, <1>2, <1>4, <1>10, ListsSame
      <3> QED BY <2>1, <3>4 DEF back2
    <2> QED BY <2>2, <2>3 DEF Lists!Heads
  <1>17. Lists!Halfway(s)'
    <2>1. \A r, p, n : r = [prev |-> p, next |-> n] => r.prev = p /\ r.next = n
      OBVIOUS
    <2>2. links_reg'[s] = [prev |-> y, next |-> h]
      BY <1>1
    <2>3. links_reg'[s].prev = y
      BY <2>1, <2>2, Zenon
    <2>4. y \in Lists!OnForward(h)' \cup {h}
      BY <1>2, <1>5, <1>7
    <2>5. y \in Lists!Nodes \ {s}
      BY <1>6, <1>7, <1>9 DEF Lists!Nodes
    <2>6. next'[y] = h /\ next'[s] = h
      BY <2>5, <1>8, <1>9
    <2>7. links_reg'[s].prev \in Lists!OnForward(h)' \cup {h} /\ next'[links_reg'[s].prev] = h
      BY <2>3, <2>4, <2>6
    <2> QED BY <1>1, <2>6, <2>7 DEF Lists!Halfway
  <1>18. \A t \in Lists!OnForward(h)' : pos2[t] < pos2[s]
    BY <1>2, <1>5, <1>6, <1>10, <1>12
  <1>19. high + 1 \in Int /\ move'[s] # "published"
    BY <1>1
  <1>20. \A g \in Lists!Heads : /\ Lists!Linked(next', g, Lists!OnForward(g)', pos2)
                                /\ Lists!Linked(prev', g, Lists!OnBack(g)', Lists!Back(pos2))
    BY <1>16 DEF back2
  <1> QED BY <1>4, <1>10, <1>13, <1>14, <1>17, <1>18, <1>19, <1>20, WholeAgain

\* Then forwards from the soldier that was the last one.
LEMMA ListsForkForward ==
    ASSUME Lists!IInv, ~disturbed', NEW s \in Soldiers, Lists!ForkForward(s)
    PROVE  Lists!Whole'
  <1> DEFINE h == "shell"
             M == Lists!OnForward(h)
             y == links_reg[s].prev
  <1>1. /\ move[s] = "forking" /\ move'[s] = "started"
        /\ next' = [next EXCEPT ![y] = s] /\ prev' = prev
        /\ next \in [Lists!Nodes -> Lists!Nodes]
    BY DEF Lists!ForkForward, Lists!Goes, Lists!IInv, Lists!TypeOK
  <1>2. Lists!Soldier(s) /\ Lists!TypeOK /\ h \in Lists!Heads
    BY DEF Lists!Soldier, Lists!IInv, Lists!Heads
  <1>3. /\ Lists!Whole
        /\ \A t \in Soldiers \ {s} : /\ move[t] \in {"unborn", "started", "asleep", "dead", "reaped"}
                                     /\ move'[t] = move[t]
    BY <1>2, ListsAlone, Zenon
  <1>4. PICK pos \in [Soldiers -> Int], lo, high \in Int : Lists!InOrder(pos, lo, high)
    BY <1>3 DEF Lists!Whole
  <1>5. /\ s \notin M /\ Lists!OnForward(h)' = M \cup {s}
        /\ Lists!OnForward("station")' = Lists!OnForward("station")
        /\ \A g \in Lists!Heads : Lists!OnBack(g)' = Lists!OnBack(g)
        /\ Lists!OnForward("station") \cap M = {}
    BY <1>1, <1>3, Zenon DEF Lists!OnForward, Lists!OnBack, Lists!Heads
  <1>6. /\ h \notin Soldiers /\ h \in Lists!Nodes /\ M \in SUBSET Soldiers
        /\ Lists!Linked(next, h, M, pos) /\ \A t, u \in M : pos[t] = pos[u] => t = u
        /\ \A g \in Lists!Heads : g \notin Soldiers /\ Lists!OnForward(g) \in SUBSET Soldiers
    BY <1>2, <1>4, OrderFacts
  <1>7. y \in M \cup {h} /\ next[y] = h /\ next[s] = h
    <2>1. Lists!Halfway(s)
      BY <1>3 DEF Lists!Whole
    <2> QED BY <1>1, <2>1 DEF Lists!Halfway
  <1>8. \A t \in M : pos[t] < pos[s]
    BY <1>1, <1>4 DEF Lists!InOrder
  <1> HIDE DEF y, M
  <1>9. \A x \in Lists!Nodes : next'[x] = IF x = y THEN s ELSE next[x]
    BY <1>1, <1>7
  <1>10. next'[s] = h
    <2>1. s # y /\ s \in Lists!Nodes
      BY <1>5, <1>6, <1>7 DEF Lists!Nodes
    <2> QED BY <2>1, <1>7, <1>9
  <1>11. Lists!Linked(next', h, M \cup {s}, pos)
    <2>1. \A x \in M \cup {h} : next'[x] = IF x = y THEN s ELSE next[x]
      BY <1>6, <1>9 DEF Lists!Nodes
    <2>2. s \in Soldiers \ M /\ M \in SUBSET Soldiers /\ h \notin Soldiers
      BY <1>5, <1>6
    <2>3. /\ \A t, u \in M : pos[t] = pos[u] => t = u
          /\ Lists!Linked(next, h, M, pos) /\ \A t \in M : pos[t] < pos[s]
          /\ y \in M \cup {h} /\ next[y] = h /\ next'[s] = h
      BY <1>6, <1>7, <1>8, <1>10
    <2> HIDE DEF h
    <2> QED BY <1>4, <2>1, <2>2, <2>3, LinkedAtEnd
  <1>12. ASSUME NEW g \in Lists!Heads
         PROVE  /\ Lists!Linked(next', g, Lists!OnForward(g)', pos)
                /\ Lists!Linked(prev', g, Lists!OnBack(g)', Lists!Back(pos))
    <2>1. Lists!Linked(prev', g, Lists!OnBack(g)', Lists!Back(pos))
      BY <1>1, <1>2, <1>4, <1>5, ListsSame
    <2>2. CASE g = h
      <3>1. Lists!Linked(next', g, Lists!OnForward(g)', pos)
        BY <2>2, <1>5, <1>11 DEF M
      <3> QED BY <2>1, <3>1
    <2>3. CASE g = "station"
      <3>1. y \notin Lists!OnForward(g) \cup {g} /\ Lists!OnForward(g) \cup {g} \subseteq Lists!Nodes
        BY <2>3, <1>5, <1>6, <1>7 DEF Lists!Nodes, Lists!Heads
      <3>2. \A x \in Lists!OnForward(g) \cup {g} : next'[x] = next[x]
        BY <3>1, <1>9
      <3>3. Lists!OnForward(g)' = Lists!OnForward(g)
        BY <2>3, <1>5
      <3>4. Lists!Linked(next', g, Lists!OnForward(g)', pos)
        BY <3>2, <3>3, <1>2, <1>4, ListsSame
      <3> QED BY <2>1, <3>4
    <2> QED BY <2>2, <2>3 DEF Lists!Heads
  <1>13. Lists!Halfway(s)'
    BY <1>1 DEF Lists!Halfway
  <1>14. /\ \A t \in Soldiers : lo < pos[t] /\ pos[t] < high
         /\ \A t, u \in Soldiers : "unborn" \notin {move'[t], move'[u]} /\ pos[t] = pos[u] => t = u
    BY <1>1, <1>3, <1>4 DEF Lists!InOrder
  <1>15. move'[s] \notin {"published", "forking"}
    BY <1>1
  <1> QED BY <1>2, <1>4, <1>12, <1>13, <1>14, <1>15, WholeAgain

\* The death of a soldier changes no link.
LEMMA ListsDie ==
    ASSUME Lists!IInv, ~disturbed', NEW s \in Soldiers, Lists!Die(s)
    PROVE  Lists!Whole'
  <1>1. /\ move[s] = "asleep" /\ move' = [move EXCEPT ![s] = "dead"] /\ ~disturbed
        /\ UNCHANGED <<next, prev, parent, links_reg>>
    BY DEF Lists!Die, Lists!Goes
  <1>2. move \in [Soldiers -> Lists!States] /\ Lists!Whole
    BY <1>1 DEF Lists!IInv, Lists!TypeOK
  <1>3. \A t \in Soldiers : t # s => move'[t] = move[t]
    BY <1>1, <1>2
  <1>4. move'[s] = "dead"
    BY <1>1, <1>2
  <1>5. \A h \in Lists!Heads : /\ Lists!OnForward(h)' = Lists!OnForward(h)
                               /\ Lists!OnBack(h)' = Lists!OnBack(h)
    <2>1. \A t \in Soldiers : move'[t] = move[t] \/ (move[t] = "asleep" /\ move'[t] = "dead")
      BY <1>1, <1>3, <1>4
    <2>2. /\ Lists!OnForward("shell")' = Lists!OnForward("shell")
          /\ Lists!OnBack("shell")' = Lists!OnBack("shell")
      BY <2>1 DEF Lists!OnForward, Lists!OnBack
    <2>3. /\ Lists!OnForward("station")' = Lists!OnForward("station")
          /\ Lists!OnBack("station")' = Lists!OnBack("station")
      BY <2>1 DEF Lists!OnForward, Lists!OnBack
    <2> QED BY <2>2, <2>3 DEF Lists!Heads
  <1>6. "shell" \in Lists!Heads /\ "station" \in Lists!Heads
    BY DEF Lists!Heads
  <1>7. \A t \in Soldiers : Lists!Halfway(t)'
    <2> SUFFICES ASSUME NEW t \in Soldiers PROVE Lists!Halfway(t)'
      OBVIOUS
    <2>1. CASE t = s
      BY <2>1, <1>4 DEF Lists!Halfway
    <2>2. CASE t # s
      <3>1. Lists!Halfway(t) /\ move'[t] = move[t]
        BY <2>2, <1>2, <1>3 DEF Lists!Whole
      <3>2. /\ Lists!OnForward("shell")' = Lists!OnForward("shell")
            /\ Lists!OnForward("station")' = Lists!OnForward("station")
            /\ Lists!OnBack("station")' = Lists!OnBack("station")
        BY <1>5, <1>6
      <3>3. move[t] \in {"unlinked back", "reaping"} => parent[t] \in {"shell", "station"}
        BY DEF Lists!IInv, Lists!Parents
      <3>4. parent[t] \in {"shell", "station"} => Lists!OnForward(parent[t])' = Lists!OnForward(parent[t])
        BY <3>2, <1>1
      <3> QED BY <3>1, <3>2, <3>3, <3>4, <1>1 DEF Lists!Halfway
    <2> QED BY <2>1, <2>2
  <1>8. PICK pos \in [Soldiers -> Int], lo, high \in Int : Lists!InOrder(pos, lo, high)
    BY <1>2 DEF Lists!Whole
  <1>9. Lists!InOrder(pos, lo, high)'
    <2>1. /\ \A t \in Soldiers : lo < pos[t] /\ pos[t] < high
          /\ \A t, u \in Soldiers : "unborn" \notin {move'[t], move'[u]} /\ pos[t] = pos[u] => t = u
      BY <1>1, <1>3, <1>4, <1>8 DEF Lists!InOrder
    <2>2. \A h \in Lists!Heads : /\ Lists!Linked(next', h, Lists!OnForward(h)', pos)
                                 /\ Lists!Linked(prev', h, Lists!OnBack(h)', Lists!Back(pos))
      BY <1>1, <1>5, <1>8 DEF Lists!InOrder
    <2>3. \A t \in Soldiers :
             /\ move'[t] = "published" => \A u \in Lists!OnForward("station")' \ {t} : pos[t] < pos[u]
             /\ move'[t] = "forking" => \A u \in Lists!OnForward("shell")' : pos[u] < pos[t]
      <3>1. \A t \in Soldiers : move'[t] \in {"published", "forking"} => move[t] = move'[t]
        BY <1>3, <1>4
      <3> QED BY <3>1, <1>5, <1>6, <1>8 DEF Lists!InOrder
    <2> QED BY <2>1, <2>2, <2>3 DEF Lists!InOrder
  <1>10. \A t, u \in Soldiers :
            {move'[t], move'[u]} \subseteq Lists!Moving \cup Lists!Tasklist => t = u
    <2>1. \A t \in Soldiers : move'[t] \in Lists!Moving \cup Lists!Tasklist => move[t] = move'[t]
      BY <1>3, <1>4 DEF Lists!Moving, Lists!Tasklist
    <2>2. \A t, u \in Soldiers : {move[t], move[u]} \subseteq Lists!Moving \cup Lists!Tasklist => t = u
      BY <1>2 DEF Lists!Whole
    <2> QED BY <2>1, <2>2
  <1> HIDE DEF Lists!InOrder
  <1>11. (\E p \in [Soldiers -> Int], l, g \in Int : Lists!InOrder(p, l, g))'
    BY <1>8, <1>9
  <1> QED BY <1>7, <1>10, <1>11 DEF Lists!Whole

\* The lists are disturbed with the first step after which a change by the kernel
\* is under way in the middle of a move.
LEMMA ListsOverlap ==
    ASSUME Lists!TypeOK, Lists!Exclusive, [Lists!Next]_listsVars
    PROVE  Lists!Exclusive' /\ (disturbed' <=> disturbed \/ Lists!Overlap')
  <1>1. /\ move \in [Soldiers -> Lists!States] /\ disturbed \in BOOLEAN
        /\ \A t \in Soldiers : lock = t <=> move[t] \in Lists!Moving
        /\ \A t \in Soldiers : t # "none"
    BY ListsFacts DEF Lists!TypeOK
  <1>2. ASSUME NEW s \in Soldiers, \A t \in Soldiers \ {s} : move'[t] = move[t],
               disturbed' = disturbed,
               move'[s] \notin Lists!Tasklist, move'[s] \in Lists!Moving => move[s] \in Lists!Moving
        PROVE  Lists!Exclusive' /\ (disturbed' <=> disturbed \/ Lists!Overlap')
    <2>1. Lists!Overlap' => Lists!Overlap
      BY <1>2 DEF Lists!Overlap
    <2> QED BY <1>2, <2>1 DEF Lists!Exclusive
  <1>3. ASSUME NEW s \in Soldiers, Lists!Lock(s)
        PROVE  Lists!Exclusive' /\ (disturbed' <=> disturbed \/ Lists!Overlap')
    <2>1. /\ move'[s] = "locked" /\ \A t \in Soldiers \ {s} : move'[t] = move[t]
          /\ lock = "none" /\ move[s] = "started"
      BY <1>1, <1>3 DEF Lists!Lock, Lists!MayLock, Lists!Goes
    <2>d. disturbed' = (disturbed \/ ~Lists!TasklistFree)
      BY <1>3, Zenon DEF Lists!Lock
    <2>2. \A t \in Soldiers : move[t] \notin Lists!Moving
      BY <1>1, <2>1
    <2>3. "locked" \in Lists!Moving /\ "locked" \notin Lists!Tasklist /\ "started" \notin Lists!Tasklist
      BY DEF Lists!Moving, Lists!Tasklist
    <2>4. Lists!Overlap' <=> ~Lists!TasklistFree
      <3>1. \A t \in Soldiers : move'[t] \in Lists!Tasklist <=> move[t] \in Lists!Tasklist
        BY <2>1, <2>3
      <3>2. move'[s] \in Lists!Moving
        BY <2>1, <2>3
      <3>3. Lists!Overlap' => ~Lists!TasklistFree
        BY <3>1 DEF Lists!Overlap, Lists!TasklistFree
      <3>4. ~Lists!TasklistFree => Lists!Overlap'
        BY <3>1, <3>2 DEF Lists!Overlap, Lists!TasklistFree
      <3> QED BY <3>3, <3>4
    <2>5. \A t, u \in Soldiers : {move'[t], move'[u]} \subseteq Lists!Tasklist => t = u
      BY <2>1, <2>3 DEF Lists!Exclusive
    <2> QED BY <2>d, <2>4, <2>5 DEF Lists!Exclusive
  <1>4. ASSUME NEW s \in Soldiers, Lists!ForkBack(s) \/ Lists!ReapBack(s)
        PROVE  Lists!Exclusive' /\ (disturbed' <=> disturbed \/ Lists!Overlap')
    <2> DEFINE moving == \E t \in Soldiers : move[t] \in Lists!Moving
    <2>1. /\ move'[s] \in Lists!Tasklist /\ \A t \in Soldiers \ {s} : move'[t] = move[t]
          /\ move[s] \in {"unborn", "dead"}
      BY <1>1, <1>4 DEF Lists!ForkBack, Lists!ReapBack, Lists!Goes, Lists!Tasklist
    <2>2. Lists!TasklistFree /\ disturbed' = (disturbed \/ moving)
      BY <1>4 DEF Lists!ForkBack, Lists!ReapBack, Lists!MayChange
    <2>3. move[s] \notin Lists!Moving /\ move'[s] \notin Lists!Moving
      BY <2>1 DEF Lists!Moving, Lists!Tasklist
    <2>4. Lists!Overlap' <=> moving
      BY <2>1, <2>3 DEF Lists!Overlap
    <2>5. \A t \in Soldiers \ {s} : move'[t] \notin Lists!Tasklist
      BY <2>1, <2>2 DEF Lists!TasklistFree
    <2> QED BY <2>2, <2>4, <2>5 DEF Lists!Exclusive
  <1>5. ASSUME NEW s \in Soldiers,
               \/ Lists!DelBack(s) \/ Lists!DelForward(s) \/ Lists!AddPrepares(s)
               \/ Lists!AddPublishes(s) \/ Lists!AddBack(s) \/ Lists!Unlock(s)
               \/ Lists!ForkForward(s) \/ Lists!ReapForward(s) \/ Lists!Die(s)
        PROVE  Lists!Exclusive' /\ (disturbed' <=> disturbed \/ Lists!Overlap')
    <2>1. /\ disturbed' = disturbed
          /\ \/ Lists!Goes(s, "locked", "unlinked back") \/ Lists!Goes(s, "unlinked back", "unlinked")
             \/ Lists!Goes(s, "unlinked", "prepared") \/ Lists!Goes(s, "prepared", "published")
             \/ Lists!Goes(s, "published", "linked") \/ Lists!Goes(s, "linked", "asleep")
             \/ Lists!Goes(s, "forking", "started") \/ Lists!Goes(s, "reaping", "reaped")
             \/ Lists!Goes(s, "asleep", "dead")
      BY <1>5 DEF Lists!DelBack, Lists!DelForward, Lists!AddPrepares, Lists!AddPublishes, Lists!AddBack,
                  Lists!Unlock, Lists!ForkForward, Lists!ReapForward, Lists!Die
    <2>2. /\ \A t \in Soldiers \ {s} : move'[t] = move[t]
          /\ move'[s] \in {"unlinked back", "unlinked", "prepared", "published", "linked",
                          "asleep", "started", "reaped", "dead"}
          /\ move[s] \in Lists!Moving \/ move'[s] \in {"started", "reaped", "dead"}
      BY <1>1, <2>1 DEF Lists!Goes, Lists!Moving
    <2>3. /\ move'[s] \notin Lists!Tasklist
          /\ move'[s] \in Lists!Moving => move[s] \in Lists!Moving
      BY <2>2 DEF Lists!Moving, Lists!Tasklist
    <2> QED BY <2>1, <2>2, <2>3, <1>2
  <1>6. CASE \/ Lists!EmergencyBegins \/ Lists!EmergencySteps \/ Lists!EmergencyEnds
             \/ Lists!Lkm2 \/ Lists!Over \/ UNCHANGED listsVars
    <2>1. UNCHANGED <<move, disturbed>>
      BY <1>6 DEF Lists!EmergencyBegins, Lists!EmergencySteps, Lists!EmergencyEnds,
                  Lists!Lkm2, Lists!Over, Lists!links, Lists!vars, listsVars
    <2>2. Lists!Overlap' <=> Lists!Overlap
      BY <2>1 DEF Lists!Overlap
    <2> QED BY <2>1, <2>2 DEF Lists!Exclusive
  <1> QED BY <1>3, <1>4, <1>5, <1>6, Zenon DEF Lists!Next, Lists!Soldier

\* Every step keeps the invariant.
LEMMA ListsStepIInv == ASSUME Lists!IInv, [Lists!Next]_listsVars PROVE Lists!IInv'
  <1>1. Lists!TypeOK' /\ Lists!Parents'
    BY ListsTypeStep, Zenon DEF Lists!IInv
  <1>2. ASSUME ~disturbed' PROVE Lists!Whole'
    <2>1. ASSUME NEW s \in Soldiers, Lists!Soldier(s) \/ Lists!ForkBack(s) \/ Lists!Die(s)
          PROVE  Lists!Whole'
      <3>0. "shell" \in Lists!Heads /\ "station" \in Lists!Heads
        BY DEF Lists!Heads
      <3>1. CASE Lists!DelBack(s) \/ Lists!ReapBack(s)
        BY <1>2, <3>0, <3>1, ListsTakesBack, Zenon
      <3>2. CASE Lists!DelForward(s) \/ Lists!ReapForward(s)
        BY <1>2, <3>0, <3>2, ListsTakesForward, Zenon
      <3>3. CASE Lists!Lock(s)
        BY <1>2, <3>3, ListsLock, Zenon
      <3>4. CASE Lists!AddPrepares(s)
        BY <1>2, <3>4, ListsAddPrepares, Zenon
      <3>5. CASE Lists!AddPublishes(s)
        BY <1>2, <3>5, ListsAddPublishes, Zenon
      <3>6. CASE Lists!AddBack(s)
        BY <1>2, <3>6, ListsAddBack, Zenon
      <3>7. CASE Lists!Unlock(s)
        BY <1>2, <3>7, ListsUnlock, Zenon
      <3>8. CASE Lists!ForkBack(s)
        BY <1>2, <3>8, ListsForkBack, Zenon
      <3>9. CASE Lists!ForkForward(s)
        BY <1>2, <3>9, ListsForkForward, Zenon
      <3>10. CASE Lists!Die(s)
        BY <1>2, <3>10, ListsDie, Zenon
      <3> QED
        BY <2>1, <3>1, <3>2, <3>3, <3>4, <3>5, <3>6, <3>7, <3>8, <3>9, <3>10, Zenon DEF Lists!Soldier
    <2>2. CASE UNCHANGED <<next, prev, parent, move, links_reg, disturbed>>
      <3>1. Lists!Whole
        BY <1>2, <2>2 DEF Lists!IInv
      <3>2. \A h \in {"shell", "station"} : /\ Lists!OnForward(h)' = Lists!OnForward(h)
                                            /\ Lists!OnBack(h)' = Lists!OnBack(h)
        BY <2>2 DEF Lists!OnForward, Lists!OnBack
      <3>3. \A s \in Soldiers : Lists!Halfway(s)'
        <4> SUFFICES ASSUME NEW s \in Soldiers PROVE Lists!Halfway(s)'
          OBVIOUS
        <4>1. Lists!Halfway(s)
          BY <3>1 DEF Lists!Whole
        <4>2. move[s] \in {"unlinked back", "reaping"} => parent[s] \in {"shell", "station"}
          BY DEF Lists!IInv, Lists!Parents
        <4>3. parent[s] \in {"shell", "station"} => Lists!OnForward(parent[s])' = Lists!OnForward(parent[s])
          BY <3>2, <2>2
        <4> QED BY <4>1, <4>2, <4>3, <3>2, <2>2 DEF Lists!Halfway
      <3>4. PICK pos \in [Soldiers -> Int], lo, high \in Int : Lists!InOrder(pos, lo, high)
        BY <3>1 DEF Lists!Whole
      <3>5. Lists!InOrder(pos, lo, high)'
        BY <3>2, <3>4, <2>2 DEF Lists!InOrder, Lists!Heads
      <3> HIDE DEF Lists!InOrder
      <3>6. (\E p \in [Soldiers -> Int], l, g \in Int : Lists!InOrder(p, l, g))'
        BY <3>4, <3>5
      <3>7. (\A s, t \in Soldiers : {move[s], move[t]} \subseteq Lists!Moving \cup Lists!Tasklist => s = t)'
        BY <3>1, <2>2 DEF Lists!Whole
      <3> QED BY <3>3, <3>6, <3>7 DEF Lists!Whole
    <2>3. CASE \/ Lists!EmergencyBegins \/ Lists!EmergencySteps \/ Lists!EmergencyEnds
               \/ Lists!Lkm2 \/ Lists!Over \/ UNCHANGED listsVars
      BY <2>2, <2>3 DEF Lists!EmergencyBegins, Lists!EmergencySteps, Lists!EmergencyEnds,
                        Lists!Lkm2, Lists!Over, Lists!links, Lists!vars, listsVars
    <2> QED BY <2>1, <2>3, Zenon DEF Lists!Next
  <1> QED BY <1>1, <1>2, ListsOverlap, Zenon DEF Lists!IInv

\* What the invariant says of readers, while the lists are not disturbed.
LEMMA OrderIsSound ==
    ASSUME Lists!IInv, ~disturbed
    PROVE  Lists!RingsHold /\ Lists!ForwardSound
  <1>t. /\ Lists!TypeOK /\ next \in [Lists!Nodes -> Lists!Nodes]
        /\ \A s \in Soldiers : s \in Lists!Nodes
    BY DEF Lists!IInv, Lists!TypeOK, Lists!Nodes
  <1>1. Lists!Whole
    BY DEF Lists!IInv
  <1>2. PICK pos \in [Soldiers -> Int], lo, high \in Int : Lists!InOrder(pos, lo, high)
    BY <1>1 DEF Lists!Whole
  <1>3. ASSUME NEW h \in Lists!Heads, NEW x \in Lists!Nodes, next[x] \in Lists!OnForward(h) \cup {h}
        PROVE  Lists!End(x) = h /\ (x = h => Lists!Ring(h) = Lists!OnForward(h))
    <2> DEFINE M == Lists!OnForward(h)
    <2>1. /\ M \in SUBSET Soldiers /\ \A s, t \in M : pos[s] = pos[t] => s = t
          /\ Lists!Linked(next, h, M, pos) /\ next[x] \in M \cup {h}
      BY <1>t, <1>2, <1>3, OrderFacts
    <2> HIDE DEF M
    <2>2. Lists!End(x) = h /\ (x = h => Lists!Ring(h) = M)
      BY <1>t, <1>2, <2>1, WalkReturns
    <2> QED BY <2>2 DEF M
  <1>4. ASSUME NEW h \in Lists!Heads, NEW x \in Lists!OnForward(h) \cup {h}
        PROVE  next[x] \in Lists!OnForward(h) \cup {h} /\ x \in Lists!Nodes
    <2>1. /\ Lists!OnForward(h) \in SUBSET Soldiers /\ h \in Lists!Nodes
          /\ Lists!Linked(next, h, Lists!OnForward(h), pos)
      BY <1>t, <1>2, OrderFacts
    <2> QED BY <2>1, <1>t DEF Lists!Linked
  <1>5. ASSUME NEW h \in Lists!Heads
        PROVE  Lists!End(h) = h /\ Lists!Ring(h) = Lists!OnForward(h)
    BY <1>3, <1>4
  <1>h. "shell" \in Lists!Heads /\ "station" \in Lists!Heads
    BY DEF Lists!Heads
  <1>6. ASSUME NEW s \in Soldiers, move[s] \notin {"unborn", "reaped"}
        PROVE  Lists!End(s) \in Lists!Heads
    <2>1. Lists!Halfway(s) /\ s \in Lists!Nodes
      BY <1>1, <1>t DEF Lists!Whole
    <2>2. CASE \E h \in Lists!Heads : s \in Lists!OnForward(h)
      BY <2>2, <1>3, <1>4
    <2>3. CASE move[s] \in {"unlinked", "prepared", "forking"}
      <3>1. \/ next[s] \in Lists!OnForward("shell") \cup {"shell"}
            \/ next[s] \in Lists!OnForward("station") \cup {"station"}
        <4>1. next["station"] \in Lists!OnForward("station") \cup {"station"}
          BY <1>4, <1>h
        <4> QED BY <2>1, <2>3, <4>1 DEF Lists!Halfway
      <3> QED BY <2>1, <3>1, <1>3, <1>h
    <2>4. move[s] \in Lists!States
      BY <1>t DEF Lists!TypeOK
    <2>5. \/ s \in Lists!OnForward("shell") \/ s \in Lists!OnForward("station")
          \/ move[s] \in {"unlinked", "prepared", "forking"}
      BY <1>6, <2>4 DEF Lists!States, Lists!Moving, Lists!Tasklist, Lists!OnForward
    <2> QED BY <2>2, <2>3, <2>5, <1>h
  <1>7. Lists!ForwardSound
    BY <1>5, <1>6 DEF Lists!ForwardSound
  <1>8. ASSUME Lists!Quiet, NEW h \in Lists!Heads
        PROVE  /\ Lists!End(h) = h /\ Lists!Ring(h) = Lists!Children(h)
               /\ \A n \in Lists!Ring(h) \cup {h} : prev[next[n]] = n
    <2>1. Lists!OnForward(h) = Lists!Children(h) /\ Lists!OnBack(h) = Lists!OnForward(h)
      <3>1. \A s \in Soldiers : move[s] \in {"unborn", "started", "asleep", "dead", "reaped"}
        BY <1>8, <1>t DEF Lists!Quiet, Lists!TypeOK, Lists!States
      <3>2. \A s \in Soldiers : parent[s] = IF move[s] \in {"unborn", "reaped"} THEN "none"
                                            ELSE IF move[s] = "started" THEN "shell" ELSE "station"
        BY <3>1 DEF Lists!IInv, Lists!Parents
      <3> QED BY <3>1, <3>2 DEF Lists!OnForward, Lists!OnBack, Lists!Children, Lists!Heads
    <2>2. \A n \in Lists!OnForward(h) \cup {h} : prev[next[n]] = n
      <3> DEFINE M == Lists!OnForward(h)
      <3>1. /\ M \in SUBSET Soldiers /\ h \notin Soldiers /\ \A s, t \in M : pos[s] = pos[t] => s = t
            /\ Lists!Linked(next, h, M, pos) /\ Lists!Linked(prev, h, M, Lists!Back(pos))
        BY <1>t, <1>2, <2>1, OrderFacts
      <3> HIDE DEF M
      <3>2. \A n \in M \cup {h} : prev[next[n]] = n
        <4>1. /\ M \in SUBSET Soldiers /\ h \notin Soldiers /\ pos \in [Soldiers -> Int]
              /\ \A s, t \in M : pos[s] = pos[t] => s = t
          BY <1>2, <3>1
        <4>2. \A f, b : /\ Lists!Linked(f, h, M, pos) /\ Lists!Linked(b, h, M, Lists!Back(pos))
                        => \A n \in M \cup {h} : b[f[n]] = n
          BY <4>1, BothWays
        <4> QED BY <3>1, <4>2
      <3> QED BY <3>2 DEF M
    <2> QED BY <2>1, <2>2, <1>5
  <1>9. Lists!RingsHold
    BY <1>8 DEF Lists!RingsHold
  <1> QED BY <1>7, <1>9

\* Moves exclude each other, the kernel's changes exclude each other, and every
\* soldier has the parent that goes with its place, whatever overlaps.  As long as
\* no fork and no wait has overlapped a move, the two lists are two orders of the
\* soldiers, in which exactly the links of the one that is moved are half done.
THEOREM ListsInvariance == Spec => []Lists!IInv
  <1>1. Init => Lists!IInv
    BY ListsInit DEF Init
  <1>2. Lists!IInv /\ [Next]_vars => Lists!IInv'
    <2> SUFFICES ASSUME Lists!IInv, [Next]_vars PROVE Lists!IInv'
      OBVIOUS
    <2>1. [Lists!Next]_listsVars
      BY DEF Next, ListsStep, IoctlStep, StatsStep, FaultsStep, LifeStep, vars
    <2> QED BY <2>1, ListsStepIInv
  <1> QED BY <1>1, <1>2, PTL DEF Spec

\* chardev.c:40-48: as long as no fork and no wait has overlapped a move, both lists
\* are whole in both directions whenever nobody is between two stores, and a reader
\* comes to a head at all times, however many soldiers there are.  That condition
\* is exact: it ends with the first step after which a fork or a wait is under way
\* in the middle of a move, and with no other.
THEOREM ListsStayWhole ==
    Spec => /\ []ListsSound
            /\ [][disturbed' <=> disturbed \/ Lists!Overlap']_vars
  <1>1. Lists!IInv => ListsSound
    BY OrderIsSound DEF ListsSound
  <1>2. Lists!IInv /\ [Next]_vars => [disturbed' <=> disturbed \/ Lists!Overlap']_vars
    <2> SUFFICES ASSUME Lists!IInv, Next PROVE disturbed' <=> disturbed \/ Lists!Overlap'
      BY DEF vars
    <2>1. [Lists!Next]_listsVars
      BY DEF Next, ListsStep, IoctlStep, StatsStep, FaultsStep, LifeStep
    <2> QED BY <2>1, ListsOverlap DEF Lists!IInv
  <1> QED BY <1>1, <1>2, ListsInvariance, PTL DEF Spec

-----------------------------------------------------------------------------
(* All of them                                                             *)

\* What the drivers' variables can be, with what relates them, for all five at once.
THEOREM DriversTyped == Spec => []TypeOK
  <1>1. Lists!IInv /\ Ioctl!IInv /\ Stats!IInv /\ Faults!IInv /\ Life!IInv => TypeOK
    BY DEF TypeOK, Lists!IInv, Ioctl!IInv, Stats!IInv, Faults!IInv, Life!IInv
  <1> QED
    BY <1>1, ListsInvariance, IoctlInvariance, StatsInvariance, FaultsInvariance,
       LifeInvariance, PTL
=============================================================================
