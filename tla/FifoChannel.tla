---------------------------- MODULE FifoChannel ----------------------------
(***************************************************************************)
(* What every hypervisor of assignment 2 promises about the values that    *)
(* travel from its producer VM to its consumer VM: the consumer is given   *)
(* exactly the values the producer emitted, in the order of emission, each *)
(* once, and at most Capacity of them are ever in transit.                 *)
(*                                                                         *)
(* The sizes of the bursts are parameters, because the four programs       *)
(* differ in nothing else:                                                 *)
(*   emu1.c  one value at a time          emu2.c  three in a row           *)
(*   emu3.c  an array of five             emu4.c  0 .. 10 per turn, of 20  *)
(***************************************************************************)
EXTENDS Naturals, Sequences

CONSTANTS
    Items,        \* the values a producer may emit
    Capacity,     \* how many may be in transit
    PutSizes,     \* how many values one hand-over to the hypervisor carries
    TakeSizes     \* how many values one hand-over to the consumer carries

VARIABLES
    produced,     \* every value emitted so far, oldest first
    consumed      \* every value handed to the consumer so far, oldest first

vars == <<produced, consumed>>

Init == produced = <<>> /\ consumed = <<>>

InTransit == Len(produced) - Len(consumed)

Put ==
    \E n \in PutSizes : \E burst \in [1 .. n -> Items] :
        /\ InTransit + n <= Capacity
        /\ produced' = produced \o burst
        /\ UNCHANGED consumed

Take ==
    \E n \in TakeSizes :
        /\ n <= InTransit
        /\ consumed' = SubSeq(produced, 1, Len(consumed) + n)
        /\ UNCHANGED produced

Next == Put \/ Take

Spec == Init /\ [][Next]_vars
=============================================================================
