------------------------------ MODULE DrBloom ------------------------------
(***************************************************************************)
(* Problem 2.2 of assignment 1: soldiers make themselves children of the   *)
(* control station through the driver of 2.2/chardev.c, and in an          *)
(* emergency the station has the driver terminate its children and then    *)
(* the station itself.                                                     *)
(*                                                                         *)
(* The processes run concurrently on several processors.  Their ioctls     *)
(* meet in the station's pi_lock and in its list of children.  What the    *)
(* kernel does by itself is external: it delivers a signal when its target *)
(* goes back to user mode, keeps at most one SIGCHLD pending, takes the    *)
(* pi_lock of the task it wakes up, gives the children of a process that   *)
(* exits to init, and knows nothing of the driver's use of the lock.       *)
(*                                                                         *)
(* The driver moves a soldier from the shell's list of children to the     *)
(* station's without the tasklist_lock, under which the kernel changes     *)
(* these lists.  A kernel's change that overlaps a move may tear the lists *)
(* (SiblingLists has the links): from then on a walk may miss children, or *)
(* never come to its end.                                                  *)
(***************************************************************************)
CONSTANTS
    Soldiers,
    MayBeKilled,      \* soldiers somebody may kill, as in run_dr_bloom.sh
    OpenMayFail,      \* whether /dev/chardev may fail to open
    TimerOnHolderCpu  \* whether the station's timer may go off on the
                      \* processor of a soldier that holds its pi_lock

ASSUME SoldiersAssumption == Soldiers \cap {"none", "station"} = {}
ASSUME EnvironmentAssumption ==
    /\ MayBeKilled \subseteq Soldiers
    /\ OpenMayFail \in BOOLEAN
    /\ TimerOnHolderCpu \in BOOLEAN

VARIABLES
    soldier,    \* what each soldier is doing
    parent,     \* current->parent and real_parent of each soldier
    signalled,  \* soldiers sent a signal that terminates them
    station,    \* what the control station is doing
    children,   \* soldiers on the station's list of children, until it is torn
    torn,       \* whether the links of the lists no longer are those of rings
    toSignal,   \* those list_for_each has still to visit
    lock,       \* who holds the station's pi_lock
    sigchld     \* whether SIGCHLD is pending for the station

vars == <<soldier, parent, signalled, station, children, torn, toSignal, lock, sigchld>>

Moving == {"unlinking", "unlinked", "linking"}
Holding == {"locked", "linked", "hung"} \cup Moving
Dead == {"zombie", "reaped"}
SoldierStates == {"unborn", "started", "found", "asleep"} \cup Holding \cup Dead
Gone == {"zombie", "reaped"}
Handlers == {"handler", "last handler"}
StationStates ==
    {"asleep", "woken", "signalling", "msleep", "leaving", "endless"}
        \cup Handlers \cup Gone

\* run_dr_bloom.sh has started the station, which goes to sleep.
Init ==
    /\ soldier = [s \in Soldiers |-> "unborn"]
    /\ parent = [s \in Soldiers |-> "shell"]
    /\ signalled = {}
    /\ station = "asleep"
    /\ children = {}
    /\ torn = FALSE
    /\ toSignal = {}
    /\ lock = "none"
    /\ sigchld = FALSE

Goes(s, state) == soldier' = [soldier EXCEPT ![s] = state]

\* The kernel adds a task to one of the lists or takes one off.  If a soldier is
\* between the first and the last store of its move, which the tasklist_lock does
\* not prevent, links of the one may undo links of the other.
ListChanges ==
    \/ torn' = torn
    \/ torn' = TRUE /\ \E s \in Soldiers : soldier[s] \in Moving \cup {"hung"}

-----------------------------------------------------------------------------
(* A soldier: IOCTL_SET_PARENT, and then sleep for ever                    *)

\* The script starts one more, the shell's child.
Fork(s) ==
    /\ soldier[s] = "unborn"
    /\ Goes(s, "started")
    /\ ListChanges
    /\ UNCHANGED <<parent, signalled, station, children, toSignal, lock, sigchld>>

OpenFails(s) ==
    /\ OpenMayFail /\ soldier[s] = "started"
    /\ Goes(s, "asleep")
    /\ UNCHANGED <<parent, signalled, station, children, torn, toSignal, lock, sigchld>>

\* A process can be found until its parent has waited for it.
Lookup(s) ==
    /\ soldier[s] = "started"
    /\ Goes(s, IF station = "reaped" THEN "asleep" ELSE "found")
    /\ UNCHANGED <<parent, signalled, station, children, torn, toSignal, lock, sigchld>>

MayLockAlways == TRUE
MayLock == lock = "none"

Lock(s) ==
    /\ soldier[s] = "found" /\ MayLock
    /\ Goes(s, "locked")
    /\ lock' = s
    /\ UNCHANGED <<parent, signalled, station, children, torn, toSignal, sigchld>>

\* list_del_rcu begins: the neighbours on the shell's list are loaded.
Unlinks(s) ==
    /\ soldier[s] = "locked"
    /\ Goes(s, "unlinking")
    /\ UNCHANGED <<parent, signalled, station, children, torn, toSignal, lock, sigchld>>

\* Off the shell's list; the station is the parent.
ChangeParent(s) ==
    /\ soldier[s] = "unlinking"
    /\ Goes(s, "unlinked")
    /\ parent' = [parent EXCEPT ![s] = "station"]
    /\ UNCHANGED <<signalled, station, children, torn, toSignal, lock, sigchld>>

\* list_add_rcu begins: the first child of the station is loaded.
Links(s) ==
    /\ soldier[s] = "unlinked"
    /\ Goes(s, "linking")
    /\ UNCHANGED <<parent, signalled, station, children, torn, toSignal, lock, sigchld>>

\* At the head of the list, where an iteration under way would not come by.
AddToChildren(s) ==
    /\ soldier[s] = "linking"
    /\ Goes(s, "linked")
    /\ children' = children \cup {s}
    /\ UNCHANGED <<parent, signalled, station, torn, toSignal, lock, sigchld>>

LockAfterIoctlKept == lock
LockAfterIoctl == "none"

Unlock(s) ==
    /\ soldier[s] = "linked"
    /\ Goes(s, "asleep")
    /\ lock' = LockAfterIoctl
    /\ UNCHANGED <<parent, signalled, station, children, torn, toSignal, sigchld>>

\* while(1) sleep(1)
SleepOn(s) ==
    /\ soldier[s] = "asleep"
    /\ UNCHANGED vars

-----------------------------------------------------------------------------
(* The control station: sleep, IOCTL_EMERGENCY, exit                       *)

\* The station's timer wakes it up, if need be after its pi_lock is released.
TimerFires ==
    /\ station = "asleep" /\ lock = "none"
    /\ station' = "woken"
    /\ UNCHANGED <<soldier, parent, signalled, children, torn, toSignal, lock, sigchld>>

\* raw_spin_lock leaves interrupts on: the timer interrupts the holder of the
\* lock and spins for it.
TimerInterruptsHolder(s) ==
    /\ TimerOnHolderCpu /\ station = "asleep" /\ lock = s
    /\ soldier[s] \in Holding
    /\ Goes(s, "hung")
    /\ UNCHANGED <<parent, signalled, station, children, torn, toSignal, lock, sigchld>>

EmergencyFails ==
    /\ OpenMayFail /\ station = "woken"
    /\ station' = "leaving"
    /\ UNCHANGED <<soldier, parent, signalled, children, torn, toSignal, lock, sigchld>>

ListSkippingOne == {s \in children : s # CHOOSE c \in children : TRUE}
List == children

\* The station looks itself up, which cannot fail.  A torn list leads anywhere.
Emergency ==
    /\ station = "woken" /\ lock = "none"
    /\ station' = "signalling"
    /\ lock' = "station"
    /\ IF torn THEN toSignal' \in SUBSET Soldiers ELSE toSignal' = List
    /\ UNCHANGED <<soldier, parent, signalled, children, torn, sigchld>>

SignalChild(s) ==
    /\ station = "signalling" /\ s \in toSignal
    /\ signalled' = signalled \cup {s}
    /\ toSignal' = toSignal \ {s}
    /\ UNCHANGED <<soldier, parent, station, children, torn, lock, sigchld>>

ListDone ==
    /\ station = "signalling" /\ toSignal = {}
    /\ station' = "msleep"
    /\ lock' = "none"
    /\ UNCHANGED <<soldier, parent, signalled, children, torn, toSignal, sigchld>>

\* The second is over: SIGTERM to the station.
SignalStation ==
    /\ station = "msleep"
    /\ station' = "leaving"
    /\ UNCHANGED <<soldier, parent, signalled, children, torn, toSignal, lock, sigchld>>

Zombies == {s \in children : soldier[s] = "zombie"}

UserMode == {"asleep", "woken", "leaving"}

\* sigchld_handler ends the station's sleep: sleep is not restarted after it.
Interrupted == IF station = "leaving" THEN "last handler" ELSE "handler"
Resumed == IF station = "last handler" THEN "leaving" ELSE "woken"

SigchldHandler ==
    /\ sigchld /\ station \in UserMode
    /\ station' = Interrupted
    /\ sigchld' = FALSE
    /\ UNCHANGED <<soldier, parent, signalled, children, torn, toSignal, lock>>

AfterWaitReturned == Resumed
AfterWait == station

\* waitpid has a dead child: it is taken off the list under the tasklist_lock.
WaitFor(s) ==
    /\ station \in Handlers /\ s \in Zombies
    /\ station' = AfterWait
    /\ Goes(s, "reaped")
    /\ children' = children \ {s}
    /\ ListChanges
    /\ UNCHANGED <<parent, signalled, toSignal, lock, sigchld>>

\* waitpid has none.
HandlerReturns ==
    /\ station \in Handlers /\ (Zombies = {} \/ torn)
    /\ station' = Resumed
    /\ UNCHANGED <<soldier, parent, signalled, children, torn, toSignal, lock, sigchld>>

\* sigterm_handler, or the end of main; a pending SIGCHLD is handled before.
\* Init gets the children, and waits for the dead ones.
StationExits ==
    /\ station = "leaving" /\ ~sigchld
    /\ station' = "zombie"
    /\ \E found \in IF torn THEN SUBSET children ELSE {children} :
          /\ soldier' = [s \in Soldiers |->
                             IF s \in Zombies \cap found THEN "reaped" ELSE soldier[s]]
          /\ parent' = [s \in Soldiers |-> IF s \in found THEN "init" ELSE parent[s]]
          /\ children' = children \ found
    /\ ListChanges
    /\ UNCHANGED <<signalled, toSignal, lock, sigchld>>

\* The emergency, waitpid or the exit follows a torn list without end.
WalkNeverEnds ==
    /\ torn /\ station \in Handlers \cup {"signalling", "leaving"}
    /\ station' = "endless"
    /\ toSignal' = {}
    /\ UNCHANGED <<soldier, parent, signalled, children, torn, lock, sigchld>>

ShellWaits ==
    /\ station = "zombie"
    /\ station' = "reaped"
    /\ ListChanges
    /\ UNCHANGED <<soldier, parent, signalled, children, toSignal, lock, sigchld>>

-----------------------------------------------------------------------------
(* The end of a soldier                                                    *)

Kill(s) ==
    /\ s \in MayBeKilled /\ soldier[s] \notin Dead \cup {"unborn"}
    /\ signalled' = signalled \cup {s}
    /\ UNCHANGED <<soldier, parent, station, children, torn, toSignal, lock, sigchld>>

\* The shell and init wait for their children at once.  The station is woken up
\* under its pi_lock; once it is gone nobody waits for a child it still has.
Die(s) ==
    /\ soldier[s] \in {"started", "asleep"} /\ s \in signalled
    /\ \/ /\ parent[s] # "station"
          /\ Goes(s, "reaped")
          /\ ListChanges
          /\ UNCHANGED sigchld
       \/ /\ parent[s] = "station" /\ station \notin Gone /\ lock = "none"
          /\ Goes(s, "zombie")
          /\ sigchld' = TRUE
          /\ UNCHANGED torn
       \/ /\ parent[s] = "station" /\ station \in Gone
          /\ Goes(s, "zombie")
          /\ UNCHANGED <<sigchld, torn>>
    /\ UNCHANGED <<parent, signalled, station, children, toSignal, lock>>

-----------------------------------------------------------------------------
SetParent(s) ==
    \/ Lookup(s) \/ Lock(s) \/ Unlinks(s) \/ ChangeParent(s)
    \/ Links(s) \/ AddToChildren(s) \/ Unlock(s)

StationStep ==
    \/ TimerFires \/ EmergencyFails \/ Emergency \/ ListDone \/ SignalStation
    \/ SigchldHandler \/ HandlerReturns \/ StationExits \/ WalkNeverEnds \/ ShellWaits
    \/ \E s \in Soldiers : SignalChild(s) \/ WaitFor(s)

\* Everybody is gone, or hangs.
Over ==
    /\ \A s \in Soldiers :
          soldier[s] \in Dead \cup {"hung"} \cup (IF lock = "none" THEN {} ELSE {"found"})
    /\ station \in {"reaped", "endless"} \/ \E s \in Soldiers : soldier[s] = "hung"
    /\ UNCHANGED vars

Next ==
    \/ StationStep
    \/ \E s \in Soldiers :
          \/ Fork(s) \/ SetParent(s) \/ OpenFails(s) \/ SleepOn(s)
          \/ TimerInterruptsHolder(s) \/ Kill(s) \/ Die(s)
    \/ Over

Spec == Init /\ [][Next]_vars

\* Every process is scheduled, a timer goes off, a signal is delivered.
FairSpec ==
    /\ Spec
    /\ WF_vars(StationStep)
    /\ \A s \in Soldiers : WF_vars(SetParent(s)) /\ WF_vars(Die(s))

-----------------------------------------------------------------------------
(* Properties                                                              *)

\* Type invariant; what the iteration has still to visit is on a list that is
\* whole, and only a torn list is walked without end.
TypeOK ==
    /\ soldier \in [Soldiers -> SoldierStates]
    /\ parent \in [Soldiers -> {"shell", "station", "init"}]
    /\ signalled \subseteq Soldiers
    /\ station \in StationStates
    /\ children \subseteq Soldiers
    /\ torn \in BOOLEAN
    /\ toSignal \subseteq Soldiers
    /\ lock \in Soldiers \cup {"none", "station"}
    /\ sigchld \in BOOLEAN
    /\ ~torn => toSignal \subseteq children /\ station # "endless"

\* The emergency misses nobody who was a child when it began to signal, and
\* nobody becomes a child while it does: when the driver releases the lock,
\* every soldier on the list has been sent SIGTERM.  This is so as long as no
\* fork, wait or exit has torn the list by overlapping a move.
WholeListSignalled ==
    [][station = "signalling" /\ station' = "msleep" /\ ~torn =>
          children' \subseteq signalled']_vars

\* No zombie is forgotten although SIGCHLD does not count: as long as the
\* station has a dead child on a list that is whole, and is not about to wait for
\* it, SIGCHLD is pending.
NoZombieForgotten ==
    station \notin Gone \cup Handlers /\ ~torn => (Zombies # {} => sigchld)

\* A soldier that is a child of the station when the emergency begins dies, and
\* somebody waits for it, whoever else is killed or attaches meanwhile, unless
\* the lists are torn: by a wait, a fork or an exit that overlaps a move.
AttachedSoldierReaped ==
    \A s \in Soldiers :
        s \in children /\ station = "signalling" ~> soldier[s] = "reaped" \/ torn

\* "kill all the child process": no child the station still has when it exits,
\* and init gets, goes on without having been sent a signal; said of lists that
\* are whole.
EveryChildKilled ==
    ~torn => \A s \in Soldiers :
                parent[s] = "init" => s \in signalled \/ soldier[s] \in Dead

\* "and itself": the emergency ends with the station's own end; said of lists
\* that are whole.
StationKilled == <>(station = "reaped" \/ torn)

\* The station comes to its end, through the emergency or without it when the
\* device cannot be opened, with two exceptions: its timer has met the holder of
\* its pi_lock, or one of its walks follows, without end, a list of children that
\* a fork, a wait or an exit has torn by overlapping a move.
StationEnds ==
    <>(station \in Gone \cup {"endless"} \/ \E s \in Soldiers : soldier[s] = "hung")

-----------------------------------------------------------------------------
(* The inductive invariant                                                 *)

\* The pi_lock has the holder its holders believe it has.
LockHeld ==
    /\ \A s \in Soldiers : soldier[s] \in Holding <=> lock = s
    /\ station = "signalling" => lock = "station"
    /\ lock = "station" => station \in {"signalling", "endless"}

\* Whoever is on the station's list, or about to be put there, has the station as
\* its parent; nobody on the list has been waited for.
ListAgrees ==
    /\ \A s \in children :
          /\ parent[s] = "station"
          /\ soldier[s] \in {"linked", "hung", "asleep", "zombie"}
    /\ \A s \in Soldiers : soldier[s] \in {"unlinked", "linking"} => parent[s] = "station"

\* The iteration has signalled whom it has passed, and leaves nobody over.
SignalledSoFar ==
    /\ station = "signalling" /\ ~torn => children \subseteq signalled \cup toSignal
    /\ station # "signalling" => toSignal = {}

IInv == TypeOK /\ LockHeld /\ ListAgrees /\ SignalledSoFar /\ NoZombieForgotten
=============================================================================
