--------------------------- MODULE MCHypervisors ----------------------------
(***************************************************************************)
(* Small instances of simple-kvm and of emu, two programs that never meet: *)
(* a behaviour exercises one of them, and the variables of the other keep  *)
(* their initial values.                                                   *)
(***************************************************************************)
EXTENDS MCSimpleKvm, EmuThreads

VARIABLE exercised  \* "simple-kvm" or "emu"

allVars == <<vars, threadVars, exercised>>

MCInit == Init /\ ThreadsInit /\ exercised \in {"simple-kvm", "emu"}

OfEmu == exercised = "emu" /\ UNCHANGED <<vars, exercised>>

MCNext ==
    \/ exercised = "simple-kvm" /\ Next /\ UNCHANGED <<threadVars, exercised>>
    \/ OfEmu /\ ThreadsNext

\* The fairness of EmuThreads, when emu is exercised.
MCMain == OfEmu /\ Main
MCThread(w) == OfEmu /\ Thread(w)
MCSpec ==
    /\ MCInit /\ [][MCNext]_allVars
    /\ WF_allVars(MCMain) /\ \A w \in VM : WF_allVars(MCThread(w))
=============================================================================
