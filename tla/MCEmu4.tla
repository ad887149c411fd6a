------------------------------- MODULE MCEmu4 -------------------------------
(***************************************************************************)
(* Small instances of Emu4: every scheduling file over the two VMs and a   *)
(* newline, up to a length.                                                *)
(***************************************************************************)
EXTENDS Emu4

CONSTANT MaxFileLen   \* longest scheduling file

MCSchedFiles ==
    UNION {[1 .. n -> {Producer, Consumer, "newline"}] : n \in 0 .. MaxFileLen}
=============================================================================
