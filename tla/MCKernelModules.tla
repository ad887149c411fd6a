--------------------------- MODULE MCKernelModules ---------------------------
(***************************************************************************)
(* Small instances of the drivers of assignment 1.  As their steps do not  *)
(* meet, a behaviour exercises one of them, and the variables of the       *)
(* others keep their initial values: the states are the sum of the five    *)
(* state spaces and not their product.                                     *)
(***************************************************************************)
EXTENDS KernelModules

VARIABLE exercised  \* "lists", "ioctl", "stats", "faults" or "life"

-----------------------------------------------------------------------------
(* Values of the constants that a .cfg cannot express                      *)

\* One tester has addresses below the offset, the other one's wrap.
MCVa(p, j) == IF p = "t1" THEN 1 + j ELSE 3 + 5 * j

\* Two processes of different size; the larger one has a huge page.
MCPages == 0 .. 3
MCSpace(p) ==
    [vmas |-> IF p = 1 THEN <<[start |-> 0, end |-> 1]>>
              ELSE <<[start |-> 1, end |-> 2], [start |-> 2, end |-> 4]>>,
     dir |-> [r \in {0, 1} |-> IF r = 0 THEN "table" ELSE IF p = 1 THEN "no_pmd" ELSE "huge"]]
MCPresent(p) == IF p = 1 THEN {0} ELSE {1}
MCUnitSize == [B |-> 1, K |-> 3]

\* The first page fault makes the line longer by a digit.
MCFirstFaults == <<4, 5>>

-----------------------------------------------------------------------------
MCInit ==
    /\ Init /\ exercised \in {"lists", "ioctl", "stats", "faults", "life"}
    \* One initial state is enough for what is not exercised.
    /\ exercised # "lists" => next["shell"] = CHOOSE s \in Soldiers \ Unborn : TRUE
    /\ exercised # "life" => module = CHOOSE m \in Modules : TRUE

MCNext ==
    /\ UNCHANGED exercised
    /\ \/ exercised = "lists" /\ ListsStep
       \/ exercised = "ioctl" /\ IoctlStep
       \/ exercised = "stats" /\ StatsStep
       \/ exercised = "faults" /\ FaultsStep
       \/ exercised = "life" /\ LifeStep

\* The fairness of MemStats and of PgFaults, when they are exercised.
StatsContinues(r) ==
    /\ exercised = "stats" /\ Stats!Continues(r)
    /\ UNCHANGED <<exercised, listsVars, ioctlVars, faultsVars, lifeVars>>
FaultsReader(r) ==
    /\ exercised = "faults" /\ Faults!Reader(r)
    /\ UNCHANGED <<exercised, listsVars, ioctlVars, statsVars, lifeVars>>

MCSpec ==
    /\ MCInit /\ [][MCNext]_<<vars, exercised>>
    /\ \A r \in Readers :
          /\ WF_<<vars, exercised>>(StatsContinues(r))
          /\ WF_<<vars, exercised>>(FaultsReader(r))

\* The walk of every show returns, and a reader of /proc/get_pgfaults that reads
\* on comes to the end, although the line grows in front of it.
ReadsEnd ==
    /\ Stats!ShowReturns
    /\ exercised = "faults" => Faults!ReaderEnds
=============================================================================
