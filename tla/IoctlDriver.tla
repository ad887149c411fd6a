----------------------------- MODULE IoctlDriver -----------------------------
(***************************************************************************)
(* Problem 2.1 of assignment 1: the driver that translates an address and  *)
(* writes to a physical one, and ioctl_test, which has the addresses of    *)
(* its two values translated and then writes to what it was told.          *)
(*                                                                         *)
(* The handler is unlocked: ioctls of several processes run at once, over  *)
(* the static variables vaddress and paddress.                             *)
(*                                                                         *)
(* virt_to_phys is the kernel's, for its direct mapping: an offset, modulo *)
(* the size of a word.  Of a user's address it makes no physical address,  *)
(* but phys_to_virt leads back to it, and the write goes to the caller's   *)
(* own memory (on a processor that lets the kernel write there).           *)
(***************************************************************************)
EXTENDS Integers

CONSTANTS
    Testers,       \* processes that run ioctl_test
    Others,        \* processes that call IOCTL_VA_TO_PA in any way they like
    Va(_, _),      \* Va(p, j): address of val[j] of tester p, j in 1 .. 2
    OtherVas,      \* addresses the others ask for
    W, PageOffset, \* addresses are below W
    Cuts           \* sizes of what the first bytes of an address can hold: 256^n

Procs == Testers \cup Others
Index == 1 .. 2
Addresses == 0 .. W - 1

AddressAssumption ==
    /\ W \in Nat \ {0} /\ PageOffset \in Addresses
    /\ OtherVas \subseteq Addresses /\ Cuts \subseteq Nat \ {0}
    /\ \A p \in Testers, j \in Index : Va(p, j) \in Addresses
    /\ \A p \in Testers : Va(p, 1) # Va(p, 2)
ProcsAssumption == Testers \cap Others = {}

VARIABLES
    vaddress, paddress,  \* the driver's
    pc,                  \* "ask", "copied", "translated", "write", "done", "killed"
    i,                   \* i[p]: the element tester p is at
    pa,                  \* pa[p][j]: the address to translate, then the answer
    val,                 \* val[p][j]
    alone,               \* history: testers whose calls no other call has overlapped
    asked,               \* history: addresses copied in
    left                 \* history: what failed copies have left in vaddress

vars == <<vaddress, paddress, pc, i, pa, val, alone, asked, left>>

Init ==
    /\ vaddress = 0 /\ paddress = 0
    /\ pc = [p \in Procs |-> "ask"] /\ i = [p \in Testers |-> 1]
    /\ pa = [p \in Testers |-> [j \in Index |-> Va(p, j)]]
    /\ val = [p \in Testers |-> [j \in Index |-> 104 + j - 1]]
    /\ alone = Testers /\ asked = {} /\ left = {}

VirtToPhys(v) == (v + (W - PageOffset)) % W
PhysToVirt(a) == (a + PageOffset) % W

At(p, from, to) == pc[p] = from /\ pc' = [pc EXCEPT ![p] = to]
InHandler(p) == pc[p] \in {"copied", "translated"}

\* The call of p meets every call under way, and they meet it.
Overlaps(p) ==
    alone' = alone \ ({q \in Testers \ {p} : InHandler(q)}
                        \cup (IF \E q \in Procs \ {p} : InHandler(q) THEN {p} ELSE {}))

-----------------------------------------------------------------------------
(* IOCTL_VA_TO_PA                                                          *)

\* copy_from_user puts v into vaddress, in one store.
Copies(p, v) ==
    /\ vaddress' = v
    /\ Overlaps(p)
    /\ UNCHANGED <<paddress, i, pa, val>>

CopyFromUser(p, v) == Copies(p, v) /\ asked' = asked \cup {v} /\ UNCHANGED left

TesterAsks(p) == At(p, "ask", "copied") /\ CopyFromUser(p, pa[p][i[p]])
OtherAsks(p) == \E v \in OtherVas : At(p, "ask", "copied") /\ CopyFromUser(p, v)

\* A copy that fails on its way fills what it has not copied of v with zeroes:
\* the call is over, and vaddress has the first bytes of v, the low ones.
AsksWithBadPointer(p) ==
    \E v \in OtherVas, size \in Cuts :
        /\ At(p, "ask", "ask") /\ Copies(p, v % size)
        /\ left' = left \cup {v % size} /\ UNCHANGED asked

TranslatesInPlace(p) ==
    /\ At(p, "copied", "translated")
    /\ paddress' = VirtToPhys(vaddress) /\ vaddress' = paddress'
    /\ UNCHANGED <<i, pa, val, alone, asked, left>>
Translates(p) ==
    /\ At(p, "copied", "translated")
    /\ paddress' = VirtToPhys(vaddress)
    /\ UNCHANGED <<vaddress, i, pa, val, alone, asked, left>>

\* The loop of ioctl_test goes on to the next element, or to the second loop.
Loops(p, first, then) ==
    IF i[p] = 1
    THEN pc' = [pc EXCEPT ![p] = first] /\ i' = [i EXCEPT ![p] = 2]
    ELSE pc' = [pc EXCEPT ![p] = then] /\ i' = [i EXCEPT ![p] = 1]

ToldBeforeTranslation(p) ==
    /\ pc[p] = "copied"
    /\ pa' = [pa EXCEPT ![p][i[p]] = paddress]
    /\ Loops(p, "ask", "write")
    /\ UNCHANGED <<vaddress, paddress, val, alone, asked, left>>
TesterIsTold(p) ==
    /\ pc[p] = "translated"
    /\ pa' = [pa EXCEPT ![p][i[p]] = paddress]
    /\ Loops(p, "ask", "write")
    /\ UNCHANGED <<vaddress, paddress, val, alone, asked, left>>

\* Or is not, when the copy fails.
OtherIsTold(p) ==
    /\ At(p, "translated", "ask")
    /\ UNCHANGED <<vaddress, paddress, i, pa, val, alone, asked, left>>

-----------------------------------------------------------------------------
(* IOCTL_WRITE_PA                                                          *)

Writes(p, j) ==
    /\ pc[p] = "write" /\ Va(p, j) = PhysToVirt(pa[p][i[p]])
    /\ val' = [val EXCEPT ![p][j] = 53 + i[p] - 1]
    /\ Loops(p, "write", "done")
    /\ UNCHANGED <<vaddress, paddress, pa, alone, asked, left>>

\* An address of another process: there is nothing there, and the kernel kills
\* the caller.
WritesElsewhere(p) ==
    /\ At(p, "write", "killed")
    /\ \A j \in Index : Va(p, j) # PhysToVirt(pa[p][i[p]])
    /\ UNCHANGED <<vaddress, paddress, i, pa, val, alone, asked, left>>

Over ==
    /\ \A p \in Procs : pc[p] \in {"done", "killed"} \/ p \in Others
    /\ UNCHANGED vars

Tester(p) ==
    \/ TesterAsks(p) \/ Translates(p) \/ TesterIsTold(p) \/ WritesElsewhere(p)
    \/ \E j \in Index : Writes(p, j)
Other(p) == OtherAsks(p) \/ AsksWithBadPointer(p) \/ Translates(p) \/ OtherIsTold(p)

Next == (\E p \in Testers : Tester(p)) \/ (\E p \in Others : Other(p)) \/ Over

Spec == Init /\ [][Next]_vars

-----------------------------------------------------------------------------
(* Properties                                                              *)

\* Type invariant.
TypeOK ==
    /\ vaddress \in Addresses /\ paddress \in Addresses
    /\ pc \in [Procs -> {"ask", "copied", "translated", "write", "done", "killed"}]
    /\ i \in [Testers -> Index] /\ pa \in [Testers -> [Index -> Addresses]]
    /\ val \in [Testers -> [Index -> {104, 105, 53, 54}]]
    /\ alone \subseteq Testers /\ asked \subseteq Addresses /\ left \subseteq Addresses

Answered(p, j) ==
    \/ pc[p] \in {"write", "done", "killed"}
    \/ j < i[p]

\* A tester whose calls no other call overlaps is told the translations of its
\* own addresses, whatever earlier calls, failed ones among them, have left in
\* the static variables; it survives, and both its values are updated.
LoneTesterUpdates ==
    \A p \in alone :
        /\ \A j \in Index : Answered(p, j) => pa[p][j] = VirtToPhys(Va(p, j))
        /\ pc[p] # "killed"
        /\ pc[p] = "done" => \A j \in Index : val[p][j] = 53 + j - 1

\* However calls overlap, each is told the translation of an address some call
\* asked for or, and no better than that, of the bytes a failed copy has left;
\* never of what has been translated before, and never an address untranslated.
AnswersAreTranslations ==
    \A p \in Testers, j \in Index : Answered(p, j) =>
        \E v \in asked \cup left : pa[p][j] = VirtToPhys(v)

\* What is in the static variables while a call uses them was copied in, whole or
\* not; a tester has its own address where it has no answer yet.
VariablesKnown ==
    /\ \A p \in Procs : pc[p] = "copied" => vaddress \in asked \cup left
    /\ \A p \in Procs : pc[p] = "translated" => \E v \in asked \cup left : paddress = VirtToPhys(v)
    /\ \A p \in Testers, j \in Index : ~Answered(p, j) => pa[p][j] = Va(p, j)

\* A tester no other call overlaps has the driver to itself, with its own address
\* in it, and what it has written is its own.
AloneInDriver ==
    \A p \in alone :
        /\ InHandler(p) => \A q \in Procs \ {p} : ~InHandler(q)
        /\ pc[p] = "copied" => vaddress = Va(p, i[p])
        /\ pc[p] = "translated" => paddress = VirtToPhys(Va(p, i[p]))
        /\ pc[p] = "write" => \A j \in 1 .. i[p] - 1 : val[p][j] = 53 + j - 1

\* The inductive invariant.
IInv ==
    /\ TypeOK /\ VariablesKnown /\ AloneInDriver
    /\ AnswersAreTranslations /\ LoneTesterUpdates
=============================================================================
