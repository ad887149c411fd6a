----------------------------- MODULE Hypercalls -----------------------------
(***************************************************************************)
(* What the hypervisor of part 1 offers its guest: hypercalls, each served *)
(* at once and each counted once, although the instructions behind one     *)
(* make up to two exits.                                                   *)
(***************************************************************************)
EXTENDS Naturals, Sequences

CONSTANTS
    Calls,       \* the calls a guest may make: records [op, arg]
    Hva(_),      \* what gvaToHva answers
    TextAddr     \* the address of the text numExitsByType writes

VARIABLES
    served,      \* served.in, served.out: calls counted as input, as output
    text,        \* the text at TextAddr
    log          \* every call with its answer, oldest first

vars == <<served, text, log>>

Init == served = [in |-> 0, out |-> 0] /\ text = [in |-> 0, out |-> 0] /\ log = <<>>

Counts(dir) == served' = [served EXCEPT ![dir] = @ + 1]

Answered(c, value) == log' = Append(log, [op |-> c.op, arg |-> c.arg, value |-> value])

PrintsText(c) ==
    /\ c.op \in {"print8bit", "print32bit", "printStr"}
    /\ Counts("out") /\ Answered(c, 0) /\ UNCHANGED text

NumExits(c) ==
    /\ c.op = "numExits"
    /\ Counts("in") /\ Answered(c, served.in + served.out + 1) /\ UNCHANGED text

NumExitsByType(c) ==
    /\ c.op = "numExitsByType"
    /\ Counts("in") /\ text' = served' /\ Answered(c, TextAddr)

GvaToHva(c) ==
    /\ c.op = "gvaToHva"
    /\ Counts("out") /\ Answered(c, Hva(c.arg)) /\ UNCHANGED text

Next == \E c \in Calls : PrintsText(c) \/ NumExits(c) \/ NumExitsByType(c) \/ GvaToHva(c)

Spec == Init /\ [][Next]_vars
=============================================================================
