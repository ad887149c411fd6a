-------------------------- MODULE HypervisorsProofs --------------------------
(***************************************************************************)
(* The properties of the two hypervisors that run any guest: simple-kvm of *)
(* part 1, for every set of programs, every memory and every size of a     *)
(* word, and emu of part 2, for whatever its guests exit with.             *)
(***************************************************************************)
EXTENDS SimpleKvm, EmuThreads, Integers, SequenceTheorems, FiniteSetTheorems, TLAPS

-----------------------------------------------------------------------------
(* simple-kvm: programs                                                    *)

AnyCall == [op : Ops, arg : Nat]

\* The calls of a program that are left get fewer from the front.
LEMMA FromFacts ==
    ASSUME NEW p \in Seq(AnyCall), NEW n \in Nat, n <= Len(p)
    PROVE  /\ From(p, n + 1) \in Seq(AnyCall)
           /\ From(p, n + 1) # <<>> =>
                 /\ n + 1 <= Len(p) /\ Head(From(p, n + 1)) = p[n + 1]
                 /\ Tail(From(p, n + 1)) = From(p, n + 2)
  <1>1. n + 1 \in 1 .. Len(p) + 1 /\ Len(p) \in Nat
    BY LenProperties
  <1>2. From(p, n + 1) \in Seq(AnyCall)
    BY <1>1, SubSeqProperties DEF From
  <1>3. ASSUME n = Len(p) PROVE From(p, n + 1) = <<>>
    BY <1>1, <1>3, SubSeqEmpty DEF From
  <1>4. ASSUME n < Len(p)
        PROVE  Head(From(p, n + 1)) = p[n + 1] /\ Tail(From(p, n + 1)) = From(p, n + 2)
    <2>1. n + 1 \in 1 .. Len(p) /\ Len(p) \in n + 1 .. Len(p) /\ (n + 1) + 1 = n + 2
      BY <1>1, <1>4
    <2> QED BY <2>1, HeadTailOfSubSeq DEF From
  <1> QED BY <1>1, <1>2, <1>3, <1>4

\* The call a guest is making is one of its program's.
LEMMA CurrentCall ==
    ASSUME TypeOK, program # <<>>
    PROVE  /\ Head(program) \in Calls /\ Head(program) \in AnyCall
           /\ \E p \in Programs : Len(log) + 1 <= Len(p) /\ Tail(program) = From(p, Len(log) + 2)
  <1>1. PICK p \in Programs \cup {<<>>} : Len(log) <= Len(p) /\ program = From(p, Len(log) + 1)
    BY DEF TypeOK
  <1>2. p \in Seq(AnyCall) /\ Len(log) \in Nat
    BY SimpleKvmAssumption, EmptySeq, LenProperties DEF AnyCall, SimpleKvmAssumption, TypeOK
  <1>3. /\ Len(log) + 1 <= Len(p) /\ Head(program) = p[Len(log) + 1]
        /\ Tail(program) = From(p, Len(log) + 2)
    BY <1>1, <1>2, FromFacts
  <1>4. p \in Programs /\ Len(log) + 1 \in DOMAIN p
    BY <1>2, <1>3, LenProperties
  <1> QED BY <1>2, <1>3, <1>4, ElementOfSeq DEF Calls, ToSet

\* What TypeOK says of the guest, apart: of the part of its program that is left,
\* of its next instruction and of what it was told.
ProgramLeft == \E p \in Programs \cup {<<>>} : Len(log) <= Len(p) /\ program = From(p, Len(log) + 1)
NextInstr == instr \in {"out", "in"} /\ (instr = "in" => program # <<>> /\ HasIn(Head(program).op))
KnownLog == log \in Seq([op : Ops, arg : Nat, value : Nat])
GuestTyped == ProgramLeft /\ NextInstr /\ KnownLog

\* What the log says of the counters: a reading is the number of calls up to its own.
ReadingsTrue == \A i \in 1 .. Len(log) : log[i].op = "numExits" => log[i].value = i
Translations == Cardinality(Translated)

\* A guest that has its answer is at the out of its next call.
LEMMA ReturnsTyped ==
    ASSUME TypeOK, program # <<>>, NEW value \in Nat, Returns(value)
    PROVE  GuestTyped' /\ Len(log') = Len(log) + 1 /\ instr' = "out"
  <1> DEFINE c == [op |-> Head(program).op, arg |-> Head(program).arg, value |-> value]
  <1>1. Head(program).op \in Ops /\ Head(program).arg \in Nat
    BY CurrentCall DEF AnyCall
  <1>2. c \in [op : Ops, arg : Nat, value : Nat]
    BY <1>1
  <1>3. log' = Append(log, c) /\ program' = Tail(program) /\ instr' = "out"
    BY DEF Returns
  <1> HIDE DEF c
  <1>4. KnownLog' /\ Len(log') = Len(log) + 1 /\ Len(log) \in Nat
    BY <1>2, <1>3, AppendProperties, LenProperties DEF KnownLog, TypeOK
  <1>5. PICK p \in Programs : Len(log) + 1 <= Len(p) /\ Tail(program) = From(p, Len(log) + 2)
    BY CurrentCall
  <1>6. Len(log') <= Len(p) /\ program' = From(p, Len(log') + 1)
    BY <1>3, <1>4, <1>5
  <1>7. ProgramLeft'
    BY <1>6 DEF ProgramLeft
  <1> QED BY <1>3, <1>4, <1>7 DEF NextInstr, GuestTyped

\* The answer is the log's last, and the readings before it stand.
LEMMA ReturnsLogged ==
    ASSUME TypeOK, CallsAreCounted, program # <<>>, NEW value \in Nat, Returns(value),
           Head(program).op = "numExits" => value = Len(log) + 1
    PROVE  /\ ReadingsTrue'
           /\ Translations \in Nat
           /\ Translations' =
                 Translations + (IF Head(program).op = "gvaToHva" THEN 1 ELSE 0)
  <1> DEFINE c == [op |-> Head(program).op, arg |-> Head(program).arg, value |-> value]
             n == Len(log)
  <1>1. c \in [op : Ops, arg : Nat, value : Nat]
    BY CurrentCall DEF AnyCall
  <1>2. log' = Append(log, c) /\ c.op = Head(program).op /\ c.value = value
    BY DEF Returns
  <1> HIDE DEF c
  <1>3. /\ n \in Nat /\ Len(log') = n + 1
        /\ \A i \in 1 .. n : log'[i] = log[i]
        /\ log'[n + 1] = c
    BY <1>1, <1>2, AppendProperties, LenProperties DEF TypeOK
  <1> HIDE DEF n
  <1>4. ReadingsTrue'
    <2> SUFFICES ASSUME NEW i \in 1 .. Len(log'), log'[i].op = "numExits"
                 PROVE  log'[i].value = i
      BY DEF ReadingsTrue
    <2>1. CASE i = n + 1
      BY <1>2, <1>3, <2>1 DEF n
    <2>2. CASE i # n + 1
      <3>1. i \in 1 .. n /\ log'[i] = log[i]
        BY <1>3, <2>2
      <3> QED BY <3>1 DEF n, CallsAreCounted
    <2> QED BY <2>1, <2>2
  <1>5. IsFiniteSet(Translated) /\ Translations \in Nat /\ n + 1 \notin Translated
    <2>1. IsFiniteSet(1 .. n) /\ Translated \subseteq 1 .. n
      BY <1>3, FS_Interval DEF Translated, n
    <2>2. IsFiniteSet(Translated)
      BY <2>1, FS_Subset
    <2> QED BY <1>3, <2>1, <2>2, FS_CardinalityType DEF Translations
  <1>6. Translated' =
           IF c.op = "gvaToHva" THEN Translated \cup {n + 1} ELSE Translated
    <2>1. Translated' = {i \in 1 .. n + 1 : log'[i].op = "gvaToHva"}
      BY <1>3 DEF Translated
    <2>2. Translated = {i \in 1 .. n : log'[i].op = "gvaToHva"}
      BY <1>3 DEF Translated, n
    <2>3. 1 .. n + 1 = (1 .. n) \cup {n + 1}
      BY <1>3
    <2> QED BY <1>3, <2>1, <2>2, <2>3
  <1>7. Cardinality(Translated \cup {n + 1}) = Cardinality(Translated) + 1
    BY <1>5, FS_AddElement
  <1> QED BY <1>2, <1>4, <1>5, <1>6, <1>7 DEF Translations

\* One that goes on to the in of its call stays in the call.
LEMMA ToInTyped ==
    ASSUME TypeOK, program # <<>>, HasIn(Head(program).op), ToIn
    PROVE  GuestTyped' /\ Len(log') = Len(log) /\ instr' = "in" /\ program' = program
  <1>1. program' = program /\ log' = log /\ instr' = "in"
    BY DEF ToIn
  <1>2. ProgramLeft'
    BY <1>1 DEF TypeOK, ProgramLeft
  <1> QED BY <1>1, <1>2 DEF TypeOK, NextInstr, KnownLog, GuestTyped

\* Outside the calls nothing of the guest changes.
LEMMA SameTyped ==
    ASSUME TypeOK, UNCHANGED <<program, instr, log>>
    PROVE  GuestTyped'
  BY DEF TypeOK, GuestTyped, ProgramLeft, NextInstr, KnownLog

\* The host address that is handed over is a word of W.
LEMMA HvaIsWord == \A gva \in Nat : Hva(gva) \in 0 .. W - 1
  <1>1. ASSUME NEW gva \in Nat PROVE Hva(gva) \in 0 .. W - 1
    <2>1. W \in Nat \ {0} /\ HostBase + gva \in Nat
      BY SimpleKvmAssumption DEF SimpleKvmAssumption
    <2>2. (HostBase + gva) % W \in 0 .. W - 1 /\ 0 \in 0 .. W - 1
      BY <2>1
    <2> QED BY <2>2 DEF Hva
  <1> QED BY <1>1

-----------------------------------------------------------------------------
(* simple-kvm: the exits                                                   *)

\* A port stands for one kind of call.
LEMMA PortOf ==
    ASSUME NEW dir, NEW port, TypeOK, Exit(dir, port)
    PROVE  /\ exits' = [exits EXCEPT ![dir] = @ + 1] /\ program # <<>> /\ instr = dir /\ pc = "kvm_run" /\ pc' = "kvm_run"
           /\ UNCHANGED boot
           /\ Head(program) \in Calls /\ Head(program) \in AnyCall
           /\ port = "E9" => Head(program).op = "print8bit"
           /\ port = "EA" => Head(program).op = "print32bit"
           /\ port = "EB" => Head(program).op = "numExits"
           /\ port = "EC" => Head(program).op = "printStr"
           /\ port = "ED" => Head(program).op = "numExitsByType"
           /\ port = "EE" => Head(program).op = "gvaToHva"
  <1>1. /\ exits' = [exits EXCEPT ![dir] = @ + 1]
        /\ program # <<>> /\ instr = dir /\ pc = "kvm_run" /\ pc' = pc /\ UNCHANGED boot
        /\ Port(Head(program).op) = port
    BY DEF Exit
  <1>2. Head(program) \in Calls /\ Head(program) \in AnyCall /\ Head(program).op \in Ops
    BY <1>1, CurrentCall DEF AnyCall
  <1>3. \A op \in Ops : /\ Port(op) = "E9" => op = "print8bit"
                        /\ Port(op) = "EA" => op = "print32bit"
                        /\ Port(op) = "EB" => op = "numExits"
                        /\ Port(op) = "EC" => op = "printStr"
                        /\ Port(op) = "ED" => op = "numExitsByType"
                        /\ Port(op) = "EE" => op = "gvaToHva"
    BY DEF Ops, Port
  <1> QED BY <1>1, <1>2, <1>3

\* The exits made, counted by an exit.
LEMMA ExitsMade ==
    ASSUME TypeOK, NEW dir \in {"in", "out"}, NEW port, Exit(dir, port)
    PROVE  /\ exits' \in [{"in", "out"} -> Nat] /\ exits.in \in Nat /\ exits.out \in Nat
           /\ dir = "out" => exits'.out = exits.out + 1 /\ exits'.in = exits.in
           /\ dir = "in" => exits'.in = exits.in + 1 /\ exits'.out = exits.out
  <1>1. exits' = [exits EXCEPT ![dir] = @ + 1] /\ exits \in [{"in", "out"} -> Nat]
    BY PortOf DEF TypeOK
  <1> QED BY <1>1

\* The three counters, counted up by an exit.
LEMMA CountedTyped ==
    ASSUME TypeOK, CallsAreCounted, NEW dir \in {"in", "out"}, Counted(dir)
    PROVE  /\ {global_exit_count', io_in_count', io_out_count'} \subseteq Nat
           /\ global_exit_count' = io_in_count' + io_out_count'
           /\ global_exit_count' = global_exit_count + 1
           /\ dir = "out" => io_out_count' = io_out_count + 1 /\ io_in_count' = io_in_count
           /\ dir = "in" => io_in_count' = io_in_count + 1 /\ io_out_count' = io_out_count
  <1>1. /\ global_exit_count \in Nat /\ io_in_count \in Nat /\ io_out_count \in Nat
        /\ global_exit_count = io_in_count + io_out_count
    BY DEF TypeOK, CallsAreCounted
  <1> QED BY <1>1 DEF Counted

\* An exit leaves the registers and the mode alone.
LEMMA ExitTyped ==
    ASSUME IInv, NEW dir \in {"in", "out"}, NEW port, Exit(dir, port), GuestTyped',
           rax' \in 0 .. W - 1,
           {global_exit_count', io_in_count', io_out_count'} \subseteq Nat,
           text' \in [{"in", "out"} -> Nat]
    PROVE  TypeOK' /\ GuestFitsCpu' /\ NotBooted'
  <1>1. pc = "kvm_run" /\ pc' = "kvm_run" /\ UNCHANGED boot
    BY PortOf DEF IInv
  <1>2. TypeOK'
    <2>1. exits' \in [{"in", "out"} -> Nat]
      BY ExitsMade DEF IInv
    <2> QED BY <1>1, <2>1 DEF IInv, TypeOK, GuestTyped, ProgramLeft, NextInstr, KnownLog, boot
  <1>3. GuestFitsCpu'
    BY <1>1 DEF IInv, GuestFitsCpu, CpuBits, boot
  <1> QED BY <1>1, <1>2, <1>3 DEF NotBooted

\* An exit that answers a call at once: it counts the call, which nothing has
\* counted before.
LEMMA AnsweredAtOnce ==
    ASSUME IInv, NEW dir \in {"in", "out"}, NEW port, Exit(dir, port), ~Translating,
           Counted(dir), NEW value \in Nat, Returns(value),
           Head(program).op # "gvaToHva",
           Head(program).op = "numExits" => value = global_exit_count',
           rax' \in 0 .. W - 1, text' \in [{"in", "out"} -> Nat]
    PROVE  IInv'
  <1>1. TypeOK /\ CallsAreCounted /\ program # <<>>
    BY PortOf DEF IInv
  <1>2. GuestTyped' /\ Len(log') = Len(log) + 1 /\ instr' = "out"
    BY <1>1, ReturnsTyped
  <1>3. /\ {global_exit_count', io_in_count', io_out_count'} \subseteq Nat
        /\ global_exit_count' = io_in_count' + io_out_count'
        /\ global_exit_count' = global_exit_count + 1
    BY <1>1, CountedTyped
  <1>4. TypeOK' /\ GuestFitsCpu' /\ NotBooted'
    BY <1>2, <1>3, ExitTyped
  <1>5. ~Translating'
    BY <1>2 DEF Translating
  <1>6. Len(log) \in Nat /\ global_exit_count = Len(log)
    BY <1>1, LenProperties DEF TypeOK, CallsAreCounted
  <1>7. Head(program).op = "numExits" => value = Len(log) + 1
    BY <1>3, <1>6
  <1>8. ReadingsTrue' /\ Translations' = Translations
    BY <1>1, <1>7, ReturnsLogged
  <1>9. exits'.out = Len(log') /\ exits'.in = io_in_count' + Translations'
    <2>1. instr = dir /\ io_in_count \in Nat /\ io_out_count \in Nat
      BY <1>1, PortOf DEF TypeOK
    <2>2. exits.out = Len(log) + (IF instr = "in" THEN 1 ELSE 0)
          /\ exits.in = io_in_count + Translations /\ Translations \in Nat
      BY <1>1, <1>7, ReturnsLogged DEF CallsAreCounted, Translations
    <2>3. /\ exits.in \in Nat /\ exits.out \in Nat
          /\ dir = "out" => exits'.out = exits.out + 1 /\ exits'.in = exits.in
          /\ dir = "in" => exits'.in = exits.in + 1 /\ exits'.out = exits.out
      BY <1>1, ExitsMade
    <2>4. /\ dir = "out" => io_in_count' = io_in_count
          /\ dir = "in" => io_in_count' = io_in_count + 1
      BY <1>1, CountedTyped
    <2> QED BY <1>2, <1>6, <1>8, <2>1, <2>2, <2>3, <2>4
  <1>10. CallsAreCounted' /\ AnswerInRax'
    BY <1>2, <1>3, <1>5, <1>6, <1>8, <1>9
    DEF CallsAreCounted, AnswerInRax, ReadingsTrue, Translations
  <1> QED BY <1>4, <1>10 DEF IInv

\* A printing call is answered, and counted, at its out.
LEMMA OutPrintSound == IInv /\ OutPrint => IInv'
  <1> SUFFICES ASSUME IInv, OutPrint PROVE IInv'
    OBVIOUS
  <1>1. PICK port : Exit("out", port)
    BY DEF OutPrint
  <1>2. Counted("out") /\ Returns(0) /\ UNCHANGED <<rax, text>>
    BY DEF OutPrint
  <1>3. ~Translating /\ Head(program).op \notin {"gvaToHva", "numExits"}
    <2>1. PICK p \in {"E9", "EA", "EC"} : Exit("out", p)
      BY DEF OutPrint
    <2> QED BY <2>1, PortOf DEF IInv, Translating
  <1> QED BY <1>1, <1>2, <1>3, AnsweredAtOnce DEF IInv, TypeOK

\* A call for the number of exits is, at its in.
LEMMA InNumExitsSound == IInv /\ InNumExits => IInv'
  <1> SUFFICES ASSUME IInv, InNumExits PROVE IInv'
    OBVIOUS
  <1>1. Exit("in", "EB") /\ Counted("in") /\ Returns(global_exit_count') /\ UNCHANGED <<rax, text>>
    BY DEF InNumExits
  <1>2. ~Translating /\ Head(program).op = "numExits"
    BY <1>1, PortOf DEF IInv, Translating
  <1>3. global_exit_count' \in Nat
    BY <1>1, CountedTyped DEF IInv
  <1> QED BY <1>1, <1>2, <1>3, AnsweredAtOnce DEF IInv, TypeOK

\* And so is one for the numbers by type, which also writes its text.
LEMMA InNumExitsByTypeSound == IInv /\ InNumExitsByType => IInv'
  <1> SUFFICES ASSUME IInv, InNumExitsByType PROVE IInv'
    OBVIOUS
  <1>1. /\ Exit("in", "ED") /\ Counted("in") /\ Returns(TextAddr) /\ rax' = rax
        /\ text' = [in |-> io_in_count', out |-> io_out_count']
    BY DEF InNumExitsByType
  <1>2. ~Translating /\ Head(program).op = "numExitsByType"
    BY <1>1, PortOf DEF IInv, Translating
  <1>3. io_in_count' \in Nat /\ io_out_count' \in Nat /\ TextAddr \in Nat
    BY <1>1, CountedTyped, SimpleKvmAssumption DEF IInv, TextAddr, SimpleKvmAssumption
  <1>4. text' \in [{"in", "out"} -> Nat]
    BY <1>1, <1>3
  <1> QED BY <1>1, <1>2, <1>3, <1>4, AnsweredAtOnce DEF IInv, TypeOK

\* An out that no branch of run_vm is for counts nothing.
LEMMA OutUnknownSound == IInv /\ OutUnknown => IInv'
  <1> SUFFICES ASSUME IInv, OutUnknown PROVE IInv'
    OBVIOUS
  <1>1. PICK port \in {"EB", "ED"} : Exit("out", port)
    BY DEF OutUnknown
  <1>2. ToIn /\ UNCHANGED <<counters, rax, text>>
    BY DEF OutUnknown
  <1>3. /\ program # <<>> /\ instr = "out" /\ Head(program).op \in {"numExits", "numExitsByType"}
        /\ TypeOK /\ CallsAreCounted
    BY <1>1, PortOf DEF IInv
  <1>4. HasIn(Head(program).op)
    BY <1>3 DEF HasIn
  <1>5. GuestTyped' /\ Len(log') = Len(log) /\ instr' = "in" /\ program' = program
    BY <1>2, <1>3, <1>4, ToInTyped
  <1>6. TypeOK' /\ GuestFitsCpu' /\ NotBooted'
    BY <1>1, <1>2, <1>5, ExitTyped DEF IInv, TypeOK, counters
  <1>7. ~Translating /\ ~Translating'
    BY <1>3, <1>5 DEF Translating
  <1>8. exits'.out = exits.out + 1 /\ exits'.in = exits.in /\ exits.out \in Nat
    BY <1>1, <1>3, ExitsMade
  <1>9. log' = log /\ Len(log) \in Nat
    BY <1>2, <1>3, LenProperties DEF ToIn, TypeOK
  <1>10. CallsAreCounted' /\ AnswerInRax'
    BY <1>2, <1>3, <1>5, <1>7, <1>8, <1>9 DEF CallsAreCounted, AnswerInRax, Translated, counters
  <1> QED BY <1>6, <1>10 DEF IInv

\* The out of a translation counts the call and puts its answer into eax.
LEMMA OutGvaToHvaSound == IInv /\ OutGvaToHva => IInv'
  <1> SUFFICES ASSUME IInv, OutGvaToHva PROVE IInv'
    OBVIOUS
  <1>1. /\ Exit("out", "EE") /\ Counted("out") /\ ToIn /\ rax' = Hva(Head(program).arg)
        /\ text' = text
    BY DEF OutGvaToHva
  <1>2. /\ program # <<>> /\ instr = "out" /\ Head(program).op = "gvaToHva"
        /\ Head(program).arg \in Nat /\ TypeOK /\ CallsAreCounted
    BY <1>1, PortOf DEF IInv, AnyCall
  <1>3. HasIn(Head(program).op)
    BY <1>2 DEF HasIn
  <1>4. GuestTyped' /\ Len(log') = Len(log) /\ instr' = "in" /\ program' = program
    BY <1>1, <1>2, <1>3, ToInTyped
  <1>5. /\ {global_exit_count', io_in_count', io_out_count'} \subseteq Nat
        /\ global_exit_count' = io_in_count' + io_out_count'
        /\ global_exit_count' = global_exit_count + 1
        /\ io_out_count' = io_out_count + 1
    BY <1>1, <1>2, CountedTyped
  <1>6. rax' \in 0 .. W - 1
    BY <1>1, <1>2, HvaIsWord
  <1>7. TypeOK' /\ GuestFitsCpu' /\ NotBooted'
    BY <1>1, <1>2, <1>4, <1>5, <1>6, ExitTyped DEF TypeOK
  <1>8. ~Translating /\ Translating'
    BY <1>2, <1>4 DEF Translating
  <1>9. CallsAreCounted'
    <2>1. Len(log) \in Nat /\ global_exit_count = Len(log)
      BY <1>2, <1>8, LenProperties DEF TypeOK, CallsAreCounted
    <2>2. exits'.out = exits.out + 1 /\ exits'.in = exits.in /\ exits.out \in Nat
      BY <1>1, <1>2, ExitsMade
    <2>3. log' = log /\ io_in_count' = io_in_count
      BY <1>1, <1>2, CountedTyped DEF ToIn
    <2> QED BY <1>2, <1>4, <1>5, <1>8, <2>1, <2>2, <2>3 DEF CallsAreCounted, Translated
  <1>10. AnswerInRax'
    <2>1. io_out_count \in Nat
      BY <1>2 DEF TypeOK
    <2>2. io_out_count' > 0
      BY <1>5, <2>1
    <2> QED BY <1>1, <1>4, <2>2 DEF AnswerInRax, Hva
  <1> QED BY <1>7, <1>9, <1>10 DEF IInv

\* Its in hands the answer over and counts nothing.
LEMMA InGvaToHvaSound == IInv /\ InGvaToHva => IInv'
  <1> SUFFICES ASSUME IInv, InGvaToHva PROVE IInv'
    OBVIOUS
  <1>1. Exit("in", "EE") /\ Returns(rax) /\ UNCHANGED <<rax, counters, text>>
    BY DEF InGvaToHva
  <1>2. /\ program # <<>> /\ instr = "in" /\ Head(program).op = "gvaToHva"
        /\ TypeOK /\ CallsAreCounted
    BY <1>1, PortOf DEF IInv
  <1>3. rax \in Nat
    BY <1>2, SimpleKvmAssumption DEF TypeOK, SimpleKvmAssumption
  <1>4. GuestTyped' /\ Len(log') = Len(log) + 1 /\ instr' = "out"
    BY <1>1, <1>2, <1>3, ReturnsTyped
  <1>5. TypeOK' /\ GuestFitsCpu' /\ NotBooted'
    BY <1>1, <1>4, ExitTyped DEF IInv, TypeOK, counters
  <1>6. Translating /\ ~Translating'
    BY <1>2, <1>4 DEF Translating
  <1>7. Len(log) \in Nat
    BY <1>2, LenProperties DEF TypeOK
  <1>8. ReadingsTrue' /\ Translations' = Translations + 1 /\ Translations \in Nat
    BY <1>1, <1>2, <1>3, ReturnsLogged
  <1>9. exits'.out = Len(log') /\ exits'.in = io_in_count' + Translations'
    <2>1. exits'.out = exits.out /\ exits'.in = exits.in + 1 /\ exits.in \in Nat
      BY <1>1, <1>2, ExitsMade
    <2>2. io_in_count \in Nat /\ io_in_count' = io_in_count
      BY <1>1, <1>2 DEF TypeOK, counters
    <2> QED BY <1>2, <1>4, <1>7, <1>8, <2>1, <2>2 DEF CallsAreCounted, Translations
  <1>10. CallsAreCounted' /\ AnswerInRax'
    BY <1>1, <1>2, <1>4, <1>6, <1>7, <1>8, <1>9
    DEF CallsAreCounted, AnswerInRax, ReadingsTrue, Translations, counters
  <1> QED BY <1>5, <1>10 DEF IInv

-----------------------------------------------------------------------------
(* simple-kvm: main, and the invariant                                     *)

\* A step of main that starts no guest changes nothing of it.
LEMMA BootSteps ==
    ASSUME IInv, UNCHANGED running
    PROVE  GuestTyped' /\ CallsAreCounted' /\ AnswerInRax'
  <1>1. UNCHANGED <<program, instr, rax, counters, text, log, exits>>
    BY DEF running
  <1> QED BY <1>1, SameTyped
      DEF IInv, CallsAreCounted, Translated, AnswerInRax, Translating, counters, Hva

\* main before the modes, the end of the guest, and a call that fails.
LEMMA StaysSound ==
    IInv /\ (Options \/ VmInit \/ VcpuInit \/ Halt \/ Fails \/ UNCHANGED vars) => IInv'
  <1> SUFFICES ASSUME IInv, Options \/ VmInit \/ VcpuInit \/ Halt \/ Fails \/ UNCHANGED vars
               PROVE  IInv'
    OBVIOUS
  <1>1. UNCHANGED <<program, instr, rax, counters, text, log, exits>> /\ UNCHANGED <<sregs, code, sz>>
    BY DEF Options, VmInit, VcpuInit, Halt, Fails, vars, running, boot
  <1>2. /\ mode' \in Modes
        /\ pc' \in {"options", "vm_init", "vcpu_init", "mode", "kvm_run", "passed", "failed"}
        /\ pc' = "kvm_run" => pc = "kvm_run"
        /\ pc' \in {"options", "vm_init", "vcpu_init", "mode"} =>
              pc \in {"options", "vm_init", "vcpu_init", "mode"}
    BY DEF IInv, TypeOK, Options, VmInit, VcpuInit, Halt, Fails, vars, boot
  <1>3. GuestTyped' /\ CallsAreCounted' /\ AnswerInRax'
    BY <1>1, BootSteps DEF running
  <1>4. TypeOK'
    BY <1>1, <1>2, <1>3
    DEF IInv, TypeOK, GuestTyped, ProgramLeft, NextInstr, KnownLog, counters
  <1>5. GuestFitsCpu' /\ NotBooted'
    BY <1>1, <1>2 DEF IInv, GuestFitsCpu, CpuBits, NotBooted
  <1> QED BY <1>3, <1>4, <1>5 DEF IInv

\* What GuestFitsCpu asks of registers s and a payload for that many bits.
Fits(s, bits) ==
    /\ s.pg => s.pe
    /\ s.lma <=> s.lme /\ s.pg
    /\ s.lma => s.pae
    /\ bits = IF ~s.pe THEN 16 ELSE IF s.lma /\ s.cs = "code64" THEN 64 ELSE 32
    /\ s.cs = CASE bits = 16 -> "zero" [] bits = 32 -> "code32" [] bits = 64 -> "code64"
    /\ s.cr3 = IF ~s.pg THEN "none" ELSE IF s.lma THEN "pml4" ELSE "pd"

\* A guest is started at the beginning of its program.
LEMMA StartSound ==
    ASSUME IInv, NEW m \in Modes, NEW s, NEW bits \in {16, 32, 64}, Start(m, s, bits),
           Fits(s, bits)
    PROVE  IInv'
  <1>1. /\ pc = "mode" /\ pc' = "kvm_run" /\ sregs' = s /\ code' = bits /\ sz' = bits \div 8
        /\ program' \in Programs \cup {<<>>} /\ UNCHANGED <<mode, instr, rax, counters, text, log, exits>>
    BY DEF Start
  <1>2. program = <<>> /\ log = <<>> /\ instr = "out"
    BY <1>1 DEF IInv, NotBooted
  <1>3. GuestTyped'
    <2>1. program' \in Seq(AnyCall)
      BY <1>1, SimpleKvmAssumption, EmptySeq DEF AnyCall, SimpleKvmAssumption
    <2>2. Len(log') = 0 /\ Len(program') \in Nat /\ From(program', 1) = program'
      BY <1>1, <1>2, <2>1, LenProperties, SubSeqFull DEF From
    <2>3. ProgramLeft'
      BY <1>1, <2>2 DEF ProgramLeft
    <2> QED BY <1>1, <1>2, <2>3 DEF GuestTyped, NextInstr, KnownLog, IInv, TypeOK
  <1>4. ~Translating /\ ~Translating'
    BY <1>1, <1>2 DEF Translating
  <1>5. CallsAreCounted' /\ AnswerInRax' /\ NotBooted'
    BY <1>1, <1>4 DEF IInv, CallsAreCounted, Translated, AnswerInRax, NotBooted, counters
  <1>6. sz' \in {2, 4, 8} /\ sz' * 8 = code'
    BY <1>1
  <1>7. TypeOK'
    BY <1>1, <1>3, <1>6 DEF IInv, TypeOK, GuestTyped, ProgramLeft, NextInstr, KnownLog, counters
  <1>8. GuestFitsCpu'
    BY <1>1, <1>6 DEF GuestFitsCpu, CpuBits, Fits
  <1> QED BY <1>5, <1>7, <1>8 DEF IInv

\* Each of the four ways to start one leaves registers that fit together.
LEMMA StartsSound ==
    IInv /\ (RunRealMode \/ RunProtectedMode \/ RunPaged32bitMode \/ RunLongMode) => IInv'
  <1> SUFFICES ASSUME IInv,
                      RunRealMode \/ RunProtectedMode \/ RunPaged32bitMode \/ RunLongMode
               PROVE  IInv'
    OBVIOUS
  <1>1. sregs = ResetSregs
    BY DEF RunRealMode, RunProtectedMode, RunPaged32bitMode, RunLongMode, Start, IInv, NotBooted
  <1>2. CASE RunRealMode
    <2>1. Fits([ResetSregs EXCEPT !.cs = "zero"], 16)
      BY DEF Fits, ResetSregs
    <2> QED BY <1>1, <1>2, <2>1, StartSound DEF RunRealMode, Modes
  <1>3. CASE RunProtectedMode
    <2>1. Fits(SetupProtectedMode(ResetSregs), 32)
      BY DEF Fits, ResetSregs, SetupProtectedMode
    <2> QED BY <1>1, <1>3, <2>1, StartSound DEF RunProtectedMode, Modes
  <1>4. CASE RunPaged32bitMode
    <2>1. Fits(SetupPaged32bitMode(SetupProtectedMode(ResetSregs)), 32)
      BY DEF Fits, ResetSregs, SetupProtectedMode, SetupPaged32bitMode
    <2> QED BY <1>1, <1>4, <2>1, StartSound DEF RunPaged32bitMode, Modes
  <1>5. CASE RunLongMode
    <2>1. Fits(SetupLongMode(ResetSregs), 64)
      BY DEF Fits, ResetSregs, SetupLongMode, Setup64bitCodeSegment
    <2> QED BY <1>1, <1>5, <2>1, StartSound DEF RunLongMode, Modes
  <1> QED BY <1>2, <1>3, <1>4, <1>5

\* Before main does anything.
LEMMA InitSound == Init => IInv
  <1> SUFFICES ASSUME Init PROVE IInv
    OBVIOUS
  <1>1. 0 \in 0 .. W - 1
    BY SimpleKvmAssumption DEF SimpleKvmAssumption
  <1>2. /\ program = <<>> /\ log = <<>> /\ instr = "out" /\ pc = "options" /\ text = [in |-> 0, out |-> 0]
        /\ Len(<<>>) = 0 /\ From(<<>>, 1) = <<>>
    BY DEF Init, NoText, From
  <1>3. text \in [{"in", "out"} -> Nat] /\ log \in Seq([op : Ops, arg : Nat, value : Nat])
    BY <1>2
  <1>4. \E p \in Programs \cup {<<>>} : Len(log) <= Len(p) /\ program = From(p, Len(log) + 1)
    BY <1>2
  <1>5. TypeOK
    BY <1>1, <1>2, <1>3, <1>4 DEF Init, TypeOK, Modes
  <1>6. ~Translating
    BY <1>2 DEF Translating
  <1>7. CallsAreCounted /\ GuestFitsCpu /\ NotBooted /\ AnswerInRax
    <2>1. Translated = {} /\ Cardinality({}) = 0
      BY <1>2, FS_EmptySet DEF Translated
    <2>2. exits.in = 0 /\ exits.out = 0
      BY DEF Init
    <2> QED BY <1>2, <1>6, <2>1, <2>2 DEF Init, CallsAreCounted, GuestFitsCpu, NotBooted, AnswerInRax
  <1> QED BY <1>5, <1>7 DEF IInv

\* Every step of main and every exit.
LEMMA NextSound == IInv /\ [Next]_vars => IInv'
  BY StaysSound, StartsSound, OutPrintSound, OutUnknownSound, OutGvaToHvaSound, InNumExitsSound,
     InNumExitsByTypeSound, InGvaToHvaSound
  DEF Next, Over

\* For every set of programs, memory and word: the registers fit the payload, the
\* counters fit the log, and the guest is in step with both.
THEOREM KvmInvariance == Spec => []IInv
  BY InitSound, NextSound, PTL DEF Spec

\* Every answer the guest has got is that of one call of its program, in order;
\* an address comes back as a word (simple-kvm.c:223-249).
THEOREM KvmTyped == Spec => []TypeOK
  <1>1. IInv => TypeOK
    BY DEF IInv
  <1> QED BY <1>1, KvmInvariance, PTL

\* simple-kvm.c:195-279: a call is counted once, with its out or with its in, and a
\* reading is the number of calls; the other exits behind the calls are not counted.
THEOREM EveryCallIsCounted == Spec => []CallsAreCounted
  <1>1. IInv => CallsAreCounted
    BY DEF IInv
  <1> QED BY <1>1, KvmInvariance, PTL

\* simple-kvm.c:318-556: in each of the four modes KVM_RUN begins with registers a
\* processor accepts, for the payload that was copied.
THEOREM GuestsFit == Spec => []GuestFitsCpu
  <1>1. IInv => GuestFitsCpu
    BY DEF IInv
  <1> QED BY <1>1, KvmInvariance, PTL

-----------------------------------------------------------------------------
(* simple-kvm: the calls are served as if at once                          *)

\* What the guest can tell of the counters: a translation that has been counted is
\* not over.
Served == [in |-> io_in_count, out |-> io_out_count - (IF Translating THEN 1 ELSE 0)]

\* The same from before to after an exit that counts a call.
LEMMA ServedCounted ==
    ASSUME IInv, ~Translating, ~Translating', NEW dir \in {"in", "out"}, Counted(dir)
    PROVE  /\ Served' = [Served EXCEPT ![dir] = @ + 1]
           /\ Served'.in = io_in_count' /\ Served'.out = io_out_count'
           /\ global_exit_count' = Served.in + Served.out + 1
  <1>1. /\ global_exit_count \in Nat /\ io_in_count \in Nat /\ io_out_count \in Nat
        /\ global_exit_count = io_in_count + io_out_count
    BY DEF IInv, TypeOK, CallsAreCounted
  <1>2. Served = [in |-> io_in_count, out |-> io_out_count]
    BY <1>1 DEF Served
  <1>3. Served' = [in |-> io_in_count', out |-> io_out_count'] /\ io_out_count' \in Nat
    BY <1>1 DEF Served, Counted
  <1> QED BY <1>1, <1>2, <1>3 DEF Counted

\* An exit with no call's answer, and every step of main, is none of the service's.
LEMMA Unserved ==
    ASSUME IInv, [Next]_vars,
           Options \/ VmInit \/ VcpuInit \/ RunRealMode \/ RunProtectedMode \/ RunPaged32bitMode
              \/ RunLongMode \/ OutUnknown \/ OutGvaToHva \/ Halt \/ Fails \/ UNCHANGED vars
    PROVE  UNCHANGED <<Served, text, log>>
  <1>1. CASE OutUnknown
    <2>1. PICK port \in {"EB", "ED"} : Exit("out", port)
      BY <1>1 DEF OutUnknown
    <2>2. instr = "out" /\ Head(program).op # "gvaToHva" /\ program' = program
          /\ UNCHANGED <<counters, text, log>>
      BY <1>1, <2>1, PortOf DEF IInv, OutUnknown, ToIn
    <2>3. ~Translating /\ ~Translating'
      BY <2>2 DEF Translating
    <2> QED BY <2>2, <2>3 DEF Served, counters
  <1>2. CASE OutGvaToHva
    <2>1. /\ instr = "out" /\ Head(program).op = "gvaToHva" /\ program' = program /\ instr' = "in"
          /\ UNCHANGED <<text, log>> /\ Counted("out")
      BY <1>2, PortOf DEF IInv, OutGvaToHva, ToIn
    <2>2. ~Translating /\ Translating'
      BY <2>1 DEF Translating
    <2>3. io_in_count \in Nat /\ io_out_count \in Nat
      BY DEF IInv, TypeOK
    <2>4. io_in_count' = io_in_count /\ io_out_count' = io_out_count + 1
      BY <2>1, <2>3 DEF Counted
    <2>5. Served = [in |-> io_in_count, out |-> io_out_count]
      BY <2>2, <2>3 DEF Served
    <2>6. Served' = [in |-> io_in_count, out |-> io_out_count]
      BY <2>2, <2>3, <2>4 DEF Served
    <2> QED BY <2>1, <2>5, <2>6
  <1>3. CASE RunRealMode \/ RunProtectedMode \/ RunPaged32bitMode \/ RunLongMode
    <2>1. pc = "mode" /\ UNCHANGED <<instr, counters, text, log>>
      BY <1>3 DEF RunRealMode, RunProtectedMode, RunPaged32bitMode, RunLongMode, Start
    <2>2. ~Translating /\ ~Translating'
      BY <2>1 DEF IInv, NotBooted, Translating
    <2> QED BY <2>1, <2>2 DEF Served, counters
  <1>4. CASE Options \/ VmInit \/ VcpuInit \/ Halt \/ Fails \/ UNCHANGED vars
    <2>1. UNCHANGED <<program, instr, counters, text, log>>
      BY <1>4 DEF Options, VmInit, VcpuInit, Halt, Fails, vars, running
    <2> QED BY <2>1 DEF Served, Translating, counters
  <1> QED BY <1>1, <1>2, <1>3, <1>4

\* The answer goes to the log with the call it belongs to.
LEMMA AnswerLogged ==
    ASSUME NEW value, Returns(value)
    PROVE  Service!Answered(Head(program), value)
  BY DEF Returns, Service!Answered

\* A printing call is one call of the service.
LEMMA PrintsServed == IInv /\ OutPrint => Service!Next
  <1> SUFFICES ASSUME IInv, OutPrint PROVE Service!Next
    OBVIOUS
  <1>1. PICK port \in {"E9", "EA", "EC"} : Exit("out", port)
    BY DEF OutPrint
  <1>2. /\ instr = "out" /\ Head(program).op \in {"print8bit", "print32bit", "printStr"}
        /\ Head(program) \in Calls
    BY <1>1, PortOf DEF IInv
  <1>3. Counted("out") /\ Returns(0) /\ text' = text /\ instr' = "out"
    BY DEF OutPrint, Returns
  <1>4. Served' = [Served EXCEPT !["out"] = @ + 1]
    BY <1>2, <1>3, ServedCounted DEF Translating
  <1>5. Service!PrintsText(Head(program))
    BY <1>2, <1>3, <1>4, AnswerLogged DEF Service!PrintsText, Service!Counts, Served
  <1> QED BY <1>2, <1>5 DEF Service!Next

\* So is one that asks for the number of calls, and the number is right.
LEMMA NumExitsServed == IInv /\ InNumExits => Service!Next
  <1> SUFFICES ASSUME IInv, InNumExits PROVE Service!Next
    OBVIOUS
  <1>1. Exit("in", "EB") /\ Counted("in") /\ Returns(global_exit_count') /\ text' = text
    BY DEF InNumExits
  <1>2. Head(program).op = "numExits" /\ Head(program) \in Calls /\ instr' = "out"
    BY <1>1, PortOf DEF IInv, Returns
  <1>3. /\ Served' = [Served EXCEPT !["in"] = @ + 1]
        /\ global_exit_count' = Served.in + Served.out + 1
    BY <1>1, <1>2, ServedCounted DEF Translating
  <1>4. Service!NumExits(Head(program))
    BY <1>1, <1>2, <1>3, AnswerLogged DEF Service!NumExits, Service!Counts, Served
  <1> QED BY <1>2, <1>4 DEF Service!Next

\* And one that asks for the two kinds: its text includes itself.
LEMMA NumExitsByTypeServed == IInv /\ InNumExitsByType => Service!Next
  <1> SUFFICES ASSUME IInv, InNumExitsByType PROVE Service!Next
    OBVIOUS
  <1>1. /\ Exit("in", "ED") /\ Counted("in") /\ Returns(TextAddr)
        /\ text' = [in |-> io_in_count', out |-> io_out_count']
    BY DEF InNumExitsByType
  <1>2. Head(program).op = "numExitsByType" /\ Head(program) \in Calls /\ instr' = "out"
    BY <1>1, PortOf DEF IInv, Returns
  <1>3. /\ Served' = [Served EXCEPT !["in"] = @ + 1]
        /\ Served'.in = io_in_count' /\ Served'.out = io_out_count'
    BY <1>1, <1>2, ServedCounted DEF Translating
  <1>4. text' = Served'
    BY <1>1, <1>3 DEF Served
  <1>5. Service!NumExitsByType(Head(program))
    BY <1>1, <1>2, <1>3, <1>4, AnswerLogged DEF Service!NumExitsByType, Service!Counts, Served
  <1> QED BY <1>2, <1>5 DEF Service!Next

\* A translation is served with its in; the answer is that of its own argument.
LEMMA GvaToHvaServed == IInv /\ InGvaToHva => Service!Next
  <1> SUFFICES ASSUME IInv, InGvaToHva PROVE Service!Next
    OBVIOUS
  <1>1. Exit("in", "EE") /\ Returns(rax) /\ UNCHANGED <<counters, text>>
    BY DEF InGvaToHva
  <1>2. /\ instr = "in" /\ instr' = "out"
        /\ Head(program).op = "gvaToHva" /\ Head(program) \in Calls
    BY <1>1, PortOf DEF IInv, Returns
  <1>3. Translating /\ ~Translating'
    BY <1>2 DEF Translating
  <1>4. rax = Hva(Head(program).arg)
    BY <1>3 DEF IInv, AnswerInRax
  <1>5. Served' = [Served EXCEPT !["out"] = @ + 1]
    <2>1. io_in_count \in Nat /\ io_out_count \in Nat
      BY DEF IInv, TypeOK
    <2>2. Served = [in |-> io_in_count, out |-> io_out_count - 1]
      BY <1>3, <2>1 DEF Served
    <2>3. Served' = [in |-> io_in_count, out |-> io_out_count]
      BY <1>1, <1>3, <2>1 DEF Served, counters
    <2> QED BY <2>1, <2>2, <2>3
  <1>6. Service!GvaToHva(Head(program))
    BY <1>1, <1>2, <1>4, <1>5, AnswerLogged DEF Service!GvaToHva, Service!Counts, Served
  <1> QED BY <1>2, <1>6 DEF Service!Next

\* Every step of the hypervisor is a step of the service or none at all.
LEMMA StepServed == IInv /\ [Next]_vars => [Service!Next]_(Service!vars)
  <1> SUFFICES ASSUME IInv, [Next]_vars PROVE [Service!Next]_(Service!vars)
    OBVIOUS
  <1>1. CASE OutPrint \/ InNumExits \/ InNumExitsByType \/ InGvaToHva
    BY <1>1, PrintsServed, NumExitsServed, NumExitsByTypeServed, GvaToHvaServed
  <1>2. CASE ~(OutPrint \/ InNumExits \/ InNumExitsByType \/ InGvaToHva)
    <2>1. UNCHANGED <<Served, text, log>>
      BY <1>2, Unserved DEF Next, Over
    <2> QED BY <2>1 DEF Service!vars, Served
  <1> QED BY <1>1, <1>2

\* simple-kvm.c:195-279 and guest.c: the guest cannot tell that a hypercall is made
\* of up to two exits.
THEOREM KvmRefines == Spec => ImplementsHypercalls
  <1>1. Init => Service!Init
    <2> SUFFICES ASSUME Init PROVE Service!Init
      OBVIOUS
    <2>1. io_in_count = 0 /\ io_out_count = 0 /\ ~Translating
      BY DEF Init, Translating
    <2> QED BY <2>1 DEF Init, Service!Init, NoText
  <1> QED BY <1>1, StepServed, KvmInvariance, PTL DEF Spec, Service!Spec, ImplementsHypercalls

-----------------------------------------------------------------------------
(* emu.c: two threads, and main                                            *)

\* emu.c's main at its first call.
LEMMA ThreadsInitSound == ThreadsInit => ThreadsSound
  BY DEF ThreadsInit, ThreadsSound, ThreadsTyped, MainInStep, RunsOnItsMemory, VM, Reasons,
         SetUp, CleanUp, Final

\* The end of the process, in whatever way: nothing is asked of it.
LEMMA DiesSound ==
    ASSUME ThreadsSound, NEW end \in Final, Dies(end)
    PROVE  ThreadsSound'
  <1>1. ThreadsTyped'
    BY DEF ThreadsSound, ThreadsTyped, Dies, memory, threads
  <1>2. MainInStep' /\ RunsOnItsMemory'
    BY DEF Dies, MainInStep, RunsOnItsMemory, Final, SetUp, CleanUp
  <1> QED BY <1>1, <1>2 DEF ThreadsSound

\* main, up to its threads: no thread is there that could need what is set up.
LEMMA SetUpSound ==
    ThreadsSound /\ (KvmInit \/ KvmCreateVm \/ LoadBinary \/ KvmInitVcpu) => ThreadsSound'
  <1> SUFFICES ASSUME ThreadsSound, KvmInit \/ KvmCreateVm \/ LoadBinary \/ KvmInitVcpu
               PROVE  ThreadsSound'
    OBVIOUS
  <1>1. step \in SetUp /\ \A w \in VM : thread[w] = "none"
    BY DEF KvmInit, KvmCreateVm, LoadBinary, KvmInitVcpu, Call, ThreadsSound, MainInStep, SetUp
  <1>2. UNCHANGED threads
    BY DEF KvmInit, KvmCreateVm, LoadBinary, KvmInitVcpu
  <1>3. \A w \in VM : thread'[w] = "none"
    BY <1>1, <1>2 DEF threads
  <1>4. RunsOnItsMemory'
    BY <1>3 DEF RunsOnItsMemory
  <1>5. CASE KvmInit
    <2>1. ThreadsTyped'
      BY <1>2, <1>5 DEF KvmInit, ThreadsSound, ThreadsTyped, memory, threads, SetUp
    <2>2. MainInStep'
      BY <1>3, <1>5 DEF KvmInit, MainInStep, SetUp, CleanUp
    <2> QED BY <1>4, <2>1, <2>2 DEF ThreadsSound
  <1>6. CASE KvmCreateVm
    <2>1. ThreadsTyped'
      BY <1>2, <1>6 DEF KvmCreateVm, Call, ThreadsSound, ThreadsTyped, threads, SetUp, VM
    <2>2. step' = "kvm_create_vm" \/ (step' = "load_binary" /\ v' = 1)
      BY <1>6 DEF KvmCreateVm, Call
    <2>3. MainInStep'
      BY <1>3, <2>2 DEF MainInStep, SetUp, CleanUp, VM
    <2> QED BY <1>4, <2>1, <2>3 DEF ThreadsSound
  <1>7. CASE LoadBinary
    <2>1. ThreadsTyped'
      BY <1>2, <1>7 DEF LoadBinary, Call, ThreadsSound, ThreadsTyped, threads, SetUp, VM
    <2>2. ram' = [ram EXCEPT ![v] = "loaded"] /\ ram \in [VM -> {"none", "registered", "loaded", "unmapped"}]
          /\ (\A w \in VM : w < v => ram[w] = "loaded") /\ v \in VM
      BY <1>7 DEF LoadBinary, Call, ThreadsSound, ThreadsTyped, MainInStep
    <2>3. \/ step' = "load_binary" /\ v = 1 /\ v' = 2
          \/ step' = "kvm_init_vcpu" /\ v = 2 /\ v' = 1
      BY <1>7, <2>2 DEF LoadBinary, Call, VM
    <2>4. MainInStep'
      BY <1>3, <2>2, <2>3 DEF MainInStep, SetUp, CleanUp, VM
    <2> QED BY <1>4, <2>1, <2>4 DEF ThreadsSound
  <1>8. CASE KvmInitVcpu
    <2>1. ThreadsTyped'
      BY <1>2, <1>8 DEF KvmInitVcpu, Call, ThreadsSound, ThreadsTyped, threads, SetUp, VM
    <2>2. \A w \in VM : ram'[w] = "loaded"
      BY <1>8 DEF KvmInitVcpu, Call, ThreadsSound, MainInStep
    <2>3. step' = "kvm_init_vcpu" \/ (step' = "pthread_create" /\ v' = 1)
      BY <1>8 DEF KvmInitVcpu, Call
    <2>4. MainInStep'
      BY <1>3, <2>2, <2>3 DEF MainInStep, SetUp, CleanUp, VM
    <2> QED BY <1>4, <2>1, <2>4 DEF ThreadsSound
  <1> QED BY <1>5, <1>6, <1>7, <1>8

\* A thread is created on memory that is loaded and a vCPU that is there.
LEMMA PthreadCreateSound == ThreadsSound /\ PthreadCreate => ThreadsSound'
  <1> SUFFICES ASSUME ThreadsSound, PthreadCreate PROVE ThreadsSound'
    OBVIOUS
  <1>1. /\ vcpus[v] = "ready" /\ step = "pthread_create" /\ v \in VM
        /\ thread' = [thread EXCEPT ![v] = "reset"] /\ UNCHANGED <<ram, vcpus, reason, ret>>
        /\ \/ step' = "pthread_create" /\ v = 1 /\ v' = 2
           \/ step' = "pthread_join" /\ v = 2 /\ v' = 1
    BY DEF PthreadCreate, Call, ThreadsSound, ThreadsTyped, VM, memory
  <1>2. thread \in [VM -> {"none", "reset", "kvm_run", "exit", "ended"}]
    BY DEF ThreadsSound, ThreadsTyped
  <1>3. ThreadsTyped'
    BY <1>1, <1>2 DEF ThreadsSound, ThreadsTyped, VM
  <1>4. /\ \A w \in VM : ram'[w] = "loaded"
        /\ \A w \in VM : v <= w => thread[w] = "none"
        /\ \A w \in VM : thread[w] # "none" => vcpus[w] = "ready"
    BY <1>1 DEF ThreadsSound, MainInStep
  <1>5. \A w \in VM : thread'[w] = IF w = v THEN "reset" ELSE thread[w]
    BY <1>1, <1>2
  <1>6. \A w \in VM : thread'[w] # "none" => vcpus'[w] = "ready"
    BY <1>1, <1>4, <1>5
  <1>7. MainInStep'
    BY <1>1, <1>4, <1>5, <1>6 DEF MainInStep, SetUp, CleanUp, VM
  <1>8. RunsOnItsMemory'
    BY <1>4, <1>6 DEF RunsOnItsMemory
  <1> QED BY <1>3, <1>7, <1>8 DEF ThreadsSound

\* Joined is ended.
LEMMA PthreadJoinSound == ThreadsSound /\ PthreadJoin => ThreadsSound'
  <1> SUFFICES ASSUME ThreadsSound, PthreadJoin PROVE ThreadsSound'
    OBVIOUS
  <1>1. /\ thread[v] = "ended" /\ step = "pthread_join" /\ v \in VM
        /\ UNCHANGED <<ram, vcpus, thread, reason, ret>>
        /\ \/ step' = "pthread_join" /\ v = 1 /\ v' = 2
           \/ step' = "kvm_clean_vm" /\ v = 2 /\ v' = 1
    BY DEF PthreadJoin, Call, ThreadsSound, ThreadsTyped, VM, memory, threads
  <1>2. ThreadsTyped'
    BY <1>1 DEF ThreadsSound, ThreadsTyped, VM, CleanUp
  <1>3. MainInStep'
    BY <1>1 DEF ThreadsSound, MainInStep, SetUp, CleanUp, VM
  <1>4. RunsOnItsMemory'
    BY <1>1 DEF ThreadsSound, RunsOnItsMemory, Final
  <1> QED BY <1>2, <1>3, <1>4 DEF ThreadsSound

\* The clean-up takes from threads that have ended.
LEMMA CleanUpSound == ThreadsSound /\ (KvmCleanVm \/ KvmCleanVcpu \/ KvmClean) => ThreadsSound'
  <1> SUFFICES ASSUME ThreadsSound, KvmCleanVm \/ KvmCleanVcpu \/ KvmClean PROVE ThreadsSound'
    OBVIOUS
  <1>1. step \in CleanUp /\ \A w \in VM : thread[w] = "ended"
    BY DEF KvmCleanVm, KvmCleanVcpu, KvmClean, Call, ThreadsSound, MainInStep, CleanUp
  <1>2. \A w \in VM : thread'[w] = "ended"
    BY <1>1 DEF KvmCleanVm, KvmCleanVcpu, KvmClean, threads
  <1>3. step' \in CleanUp \cup {"done"} /\ v' \in VM
    BY DEF KvmCleanVm, KvmCleanVcpu, KvmClean, Call, CleanUp, VM
  <1>4. ThreadsTyped'
    <2>1. CASE KvmCleanVm
      BY <1>3, <2>1 DEF KvmCleanVm, ThreadsSound, ThreadsTyped, threads, Final
    <2>2. CASE KvmCleanVcpu
      BY <1>3, <2>2 DEF KvmCleanVcpu, ThreadsSound, ThreadsTyped, threads, Final
    <2>3. CASE KvmClean
      BY <1>3, <2>3 DEF KvmClean, ThreadsSound, ThreadsTyped, memory, threads, Final
    <2> QED BY <2>1, <2>2, <2>3
  <1>5. MainInStep' /\ RunsOnItsMemory'
    BY <1>2, <1>3 DEF MainInStep, RunsOnItsMemory, SetUp, CleanUp
  <1> QED BY <1>4, <1>5 DEF ThreadsSound

\* A thread's own step leaves main and all memory as they are.
LEMMA ThreadSound ==
    ASSUME ThreadsSound, NEW w \in VM, KvmResetVcpu(w) \/ KvmRun(w) \/ EndsThread(w) \/ Continues(w)
    PROVE  ThreadsSound'
  <1>1. /\ thread[w] \in {"reset", "kvm_run", "exit"}
        /\ \E x \in {"kvm_run", "exit", "ended"} : thread' = [thread EXCEPT ![w] = x]
        /\ UNCHANGED <<step, v, ram, vcpus>>
    BY DEF KvmResetVcpu, KvmRun, EndsThread, Continues, Runs, main, memory
  <1>2. thread \in [VM -> {"none", "reset", "kvm_run", "exit", "ended"}]
    BY DEF ThreadsSound, ThreadsTyped
  <1>3. reason' \in [VM -> Reasons] /\ ret' \in [VM -> {0, 1}]
    <2>1. reason \in [VM -> Reasons] /\ ret \in [VM -> {0, 1}]
      BY DEF ThreadsSound, ThreadsTyped
    <2>2. CASE KvmRun(w)
      BY <2>1, <2>2 DEF KvmRun
    <2>3. CASE UNCHANGED <<reason, ret>>
      BY <2>1, <2>3
    <2> QED BY <2>2, <2>3 DEF KvmResetVcpu, EndsThread, Continues
  <1>4. ThreadsTyped'
    BY <1>1, <1>2, <1>3 DEF ThreadsSound, ThreadsTyped
  <1>5. \A u \in VM : /\ u # w => thread'[u] = thread[u]
                      /\ thread'[u] \in {"reset", "kvm_run", "exit"} =>
                            thread[u] \in {"reset", "kvm_run", "exit"}
                      /\ (thread'[u] = "none") <=> (thread[u] = "none")
                      /\ thread[u] = "ended" => thread'[u] = "ended"
    BY <1>1, <1>2
  <1>6. MainInStep'
    BY <1>1, <1>5 DEF ThreadsSound, MainInStep
  <1>7. RunsOnItsMemory'
    BY <1>1, <1>5 DEF ThreadsSound, RunsOnItsMemory
  <1> QED BY <1>4, <1>6, <1>7 DEF ThreadsSound

\* Every step of main and of the threads.
LEMMA ThreadsNextSound == ThreadsSound /\ [ThreadsNext]_threadVars => ThreadsSound'
  <1> SUFFICES ASSUME ThreadsSound, [ThreadsNext]_threadVars PROVE ThreadsSound'
    OBVIOUS
  <1>1. CASE Main
    <2>1. ASSUME Dereferences \/ SetUpFails PROVE ThreadsSound'
      <3>1. \E end \in Final : Dies(end)
        BY <2>1 DEF Dereferences, SetUpFails, Final
      <3> QED BY <3>1, DiesSound
    <2> QED BY <1>1, <2>1, SetUpSound, PthreadCreateSound, PthreadJoinSound, CleanUpSound DEF Main
  <1>2. ASSUME NEW w \in VM, Thread(w) PROVE ThreadsSound'
    <2>1. ASSUME Exits(w) PROVE ThreadsSound'
      <3>1. Dies("failed") /\ "failed" \in Final
        BY <2>1 DEF Exits, Final
      <3> QED BY <3>1, DiesSound
    <2> QED BY <1>2, <2>1, ThreadSound DEF Thread
  <1>3. CASE UNCHANGED threadVars
    BY <1>3 DEF threadVars, main, memory, threads, ThreadsSound, ThreadsTyped, MainInStep,
                RunsOnItsMemory
  <1> QED BY <1>1, <1>2, <1>3 DEF ThreadsNext, Ended

\* emu.c:207-333: whatever the guests exit with and however the threads are
\* scheduled, a thread that has not returned runs on memory and a kvm_run page
\* that main has set up and not yet given back.
THEOREM ThreadsInvariance == ThreadsSpec => []ThreadsSound
  BY ThreadsInitSound, ThreadsNextSound, PTL DEF ThreadsSpec

\* A VM that has shut down, or has left for a reason its thread does not know, is at
\* the exit it left by or its thread has ended.
AtItsExit == \A w \in VM : Leaves(w) => thread[w] \in {"exit", "ended"}

\* No step lets a thread leave that exit but by its end.
LEMMA AtItsExitStays ==
    ASSUME ThreadsSound, AtItsExit, [ThreadsNext]_threadVars
    PROVE  AtItsExit' /\ \A w \in VM : Leaves(w) => reason'[w] = reason[w]
  <1>1. /\ thread \in [VM -> {"none", "reset", "kvm_run", "exit", "ended"}]
        /\ reason \in [VM -> Reasons]
    BY DEF ThreadsSound, ThreadsTyped
  <1>2. CASE UNCHANGED <<thread, reason>>
    BY <1>2 DEF AtItsExit, Leaves
  <1>3. CASE PthreadCreate
    <2>1. step = "pthread_create" /\ v \in VM
      BY <1>3 DEF PthreadCreate, Call, ThreadsSound, ThreadsTyped
    <2>2. thread[v] = "none"
      BY <2>1 DEF ThreadsSound, MainInStep, VM
    <2>3. thread' = [thread EXCEPT ![v] = "reset"] /\ reason' = reason
      BY <1>3 DEF PthreadCreate
    <2> QED BY <1>1, <2>1, <2>2, <2>3 DEF AtItsExit, Leaves
  <1>4. ASSUME NEW w \in VM, KvmResetVcpu(w) \/ KvmRun(w) \/ EndsThread(w) \/ Continues(w)
        PROVE  AtItsExit' /\ \A u \in VM : Leaves(u) => reason'[u] = reason[u]
    <2>1. CASE KvmRun(w)
      <3>1. /\ thread[w] = "kvm_run" /\ thread' = [thread EXCEPT ![w] = "exit"]
            /\ \E r \in Reasons : reason' = [reason EXCEPT ![w] = r]
        BY <2>1 DEF KvmRun, Runs
      <3>2. ~Leaves(w)
        BY <1>4, <3>1 DEF AtItsExit
      <3> QED BY <1>1, <1>4, <3>1, <3>2 DEF AtItsExit, Leaves
    <2>2. CASE EndsThread(w)
      BY <1>1, <1>4, <2>2 DEF EndsThread, AtItsExit, Leaves
    <2>3. CASE KvmResetVcpu(w) \/ Continues(w)
      <3>1. thread' = [thread EXCEPT ![w] = "kvm_run"] /\ reason' = reason
        BY <2>3 DEF KvmResetVcpu, Continues
      <3>2. ~Leaves(w)
        BY <1>4, <2>3 DEF AtItsExit, KvmResetVcpu, Continues, Runs
      <3> QED BY <1>1, <1>4, <3>1, <3>2 DEF AtItsExit, Leaves
    <2> QED BY <1>4, <2>1, <2>2, <2>3
  <1>5. ASSUME Main, ~PthreadCreate PROVE UNCHANGED <<thread, reason>>
    BY <1>5 DEF Main, KvmInit, KvmCreateVm, LoadBinary, KvmInitVcpu, Dereferences, PthreadJoin,
                KvmCleanVm, KvmCleanVcpu, KvmClean, SetUpFails, Dies, threads
  <1>6. ASSUME NEW w \in VM, Exits(w) PROVE UNCHANGED <<thread, reason>>
    BY <1>6 DEF Exits, Dies, threads
  <1>7. ASSUME UNCHANGED threadVars PROVE UNCHANGED <<thread, reason>>
    BY <1>7 DEF threadVars, threads
  <1> QED BY <1>2, <1>3, <1>4, <1>5, <1>6, <1>7 DEF ThreadsNext, Thread, Ended

\* emu.c:220-259: a VM that has shut down is never run again, by whatever its exit
\* leaves of the loop and the switch: what it left for stays in its page.
THEOREM NeverRunAgain == ThreadsSpec => [][\A w \in VM : Leaves(w) => reason'[w] = reason[w]]_threadVars
  <1>1. ThreadsInit => AtItsExit
    BY DEF ThreadsInit, AtItsExit, Leaves
  <1>2. ThreadsSound /\ AtItsExit /\ [ThreadsNext]_threadVars =>
            AtItsExit' /\ \A w \in VM : Leaves(w) => reason'[w] = reason[w]
    BY AtItsExitStays
  <1> QED BY <1>1, <1>2, ThreadsInvariance, PTL DEF ThreadsSpec

=============================================================================
