---------------------------- MODULE MCSimpleKvm -----------------------------
(* Guests for SimpleKvm: guest.c's own, and every program of three calls.  *)
EXTENDS SimpleKvm

\* The two addresses are translated to each side of the wrap at W.
MCCalls == [op : Ops \ {"gvaToHva"}, arg : {0}] \cup [op : {"gvaToHva"}, arg : {0, 2, MemSize}]

MCPrograms == {StartProgram} \cup [1 .. 3 -> MCCalls]
=============================================================================
