--------------------------- MODULE DrBloomProofs ---------------------------
(***************************************************************************)
(* Proofs about DrBloom, for every set of soldiers and every environment:  *)
(* the driver's lock is held by whom it says, the station's list agrees    *)
(* with its members' parents, and from that no zombie is forgotten and the *)
(* emergency misses nobody who is on the list.                             *)
(***************************************************************************)
EXTENDS DrBloom, TLAPS

USE SoldiersAssumption, EnvironmentAssumption

\* The start.
LEMMA InitInv == Init => IInv
  BY DEF Init, IInv, TypeOK, LockHeld, ListAgrees, SignalledSoFar,
         NoZombieForgotten, Zombies, SoldierStates, StationStates, Holding, Moving, Dead,
         Gone, Handlers

\* Nothing changes.
LEMMA StutterInv == IInv /\ UNCHANGED vars => IInv'
  BY DEF vars, IInv, TypeOK, LockHeld, ListAgrees, SignalledSoFar,
         NoZombieForgotten, Zombies, Holding, Moving

-----------------------------------------------------------------------------
(* The steps of a soldier                                                  *)

\* A soldier's ioctl preserves the invariant.
LEMMA SetParentInv ==
    ASSUME IInv, NEW s \in Soldiers, SetParent(s)
    PROVE  IInv'
  <1> USE DEF Holding, Moving, Dead
  <1>1. /\ soldier \in [Soldiers -> SoldierStates]
        /\ lock \in Soldiers \cup {"none", "station"} /\ s \notin {"none", "station"}
        /\ parent \in [Soldiers -> {"shell", "station", "init"}]
        /\ \A t \in Soldiers : soldier[t] \in Holding <=> lock = t
    BY DEF IInv, TypeOK, LockHeld, StationStates
  <1>2. PICK to \in SoldierStates \ Dead : soldier' = [soldier EXCEPT ![s] = to]
    BY DEF SetParent, Lookup, Lock, Unlinks, ChangeParent, Links, AddToChildren, Unlock,
           Goes, SoldierStates
  <1>3. /\ soldier[s] \notin Dead
        /\ UNCHANGED <<signalled, station, torn, toSignal, sigchld>>
    BY DEF SetParent, Lookup, Lock, Unlinks, ChangeParent, Links, AddToChildren, Unlock
  <1>4. /\ soldier' \in [Soldiers -> SoldierStates] /\ soldier'[s] = to
        /\ \A t \in Soldiers \ {s} : soldier'[t] = soldier[t]
    BY <1>1, <1>2
  <1>5. \/ to \in Holding /\ lock' = s /\ lock \in {s, "none"}
        \/ to \notin Holding /\ lock' = lock /\ lock # s
        \/ to \notin Holding /\ lock' = "none" /\ lock = s
    BY <1>1, <1>4
    DEF SetParent, Lookup, Lock, MayLock, Unlinks, ChangeParent, Links, AddToChildren,
        Unlock, LockAfterIoctl, Goes
  <1>6. \/ parent' = parent
           /\ (to \in {"unlinked", "linking"} => soldier[s] \in {"unlinked", "linking"})
        \/ /\ to = "unlinked" /\ soldier[s] = "unlinking"
           /\ parent' = [parent EXCEPT ![s] = "station"]
    BY <1>1, <1>4 DEF SetParent, Lookup, Lock, Unlinks, ChangeParent, Links, AddToChildren,
        Unlock, Goes
  <1>7. \/ children' = children
           /\ (soldier[s] \in {"linked", "asleep"} => to \in {"linked", "asleep"})
        \/ children' = children \cup {s} /\ soldier[s] = "linking" /\ to = "linked"
    BY <1>1, <1>4 DEF SetParent, Lookup, Lock, Unlinks, ChangeParent, Links, AddToChildren,
        Unlock, Goes
  <1>8. soldier[s] # "hung"
    BY DEF SetParent, Lookup, Lock, Unlinks, ChangeParent, Links, AddToChildren, Unlock
  <1>9. TypeOK'
    <2>1. /\ parent' \in [Soldiers -> {"shell", "station", "init"}]
          /\ children \subseteq children' /\ children' \subseteq Soldiers
          /\ lock' \in Soldiers \cup {"none", "station"}
      BY <1>1, <1>5, <1>6, <1>7 DEF IInv, TypeOK
    <2> QED BY <2>1, <1>3, <1>4 DEF IInv, TypeOK
  <1>10. LockHeld'
    BY <1>1, <1>3, <1>4, <1>5 DEF IInv, LockHeld
  <1>11. ListAgrees'
    <2>1. \A t \in Soldiers : parent[t] = "station" => parent'[t] = "station"
      BY <1>1, <1>6
    <2>2. ASSUME NEW t \in children'
          PROVE  parent'[t] = "station" /\ soldier'[t] \in {"linked", "hung", "asleep", "zombie"}
      <3>1. CASE t = s
        BY <3>1, <2>1, <2>2, <1>3, <1>4, <1>7, <1>8 DEF IInv, ListAgrees
      <3>2. CASE t # s
        BY <3>2, <2>1, <2>2, <1>4, <1>7 DEF IInv, ListAgrees, TypeOK
      <3> QED BY <3>1, <3>2
    <2>3. ASSUME NEW t \in Soldiers, soldier'[t] \in {"unlinked", "linking"}
          PROVE  parent'[t] = "station"
      BY <2>1, <2>3, <1>1, <1>4, <1>6 DEF IInv, ListAgrees
    <2> QED BY <2>2, <2>3 DEF ListAgrees
  <1>12. SignalledSoFar'
    <2>1. station = "signalling" => children' = children
      BY <1>1, <1>7 DEF IInv, LockHeld
    <2> QED BY <2>1, <1>3 DEF IInv, SignalledSoFar
  <1>13. NoZombieForgotten'
    <2>1. Zombies' \subseteq Zombies
      BY <1>3, <1>4, <1>7 DEF Zombies, IInv, TypeOK
    <2> QED BY <2>1, <1>3 DEF IInv, NoZombieForgotten
  <1> QED BY <1>9, <1>10, <1>11, <1>12, <1>13 DEF IInv

\* The other things a soldier does, and what is done to it.
LEMMA SoldierInv ==
    ASSUME IInv, NEW s \in Soldiers,
           Fork(s) \/ OpenFails(s) \/ SleepOn(s) \/ TimerInterruptsHolder(s) \/ Kill(s) \/ Die(s)
    PROVE  IInv'
  <1> USE DEF IInv, TypeOK, LockHeld, ListAgrees, SignalledSoFar, NoZombieForgotten,
              Zombies, Goes, Holding, Moving, Dead, Gone, Handlers, SoldierStates,
              StationStates
  <1>1. CASE OpenFails(s)
    BY <1>1 DEF OpenFails
  <1>2. CASE SleepOn(s)
    BY <1>2, StutterInv DEF SleepOn
  <1>3. CASE TimerInterruptsHolder(s)
    <2>1. TypeOK' /\ SignalledSoFar'
      BY <1>3 DEF TimerInterruptsHolder
    <2>2. LockHeld' /\ ListAgrees' /\ NoZombieForgotten'
      BY <1>3 DEF TimerInterruptsHolder
    <2> QED BY <2>1, <2>2
  <1>4. CASE Kill(s)
    BY <1>4 DEF Kill
  <1>5. CASE Die(s)
    <2>1. /\ soldier[s] \in {"started", "asleep"}
          /\ soldier' \in [Soldiers -> SoldierStates]
          /\ \A t \in Soldiers \ {s} : soldier'[t] = soldier[t]
          /\ soldier'[s] \in Dead
          /\ UNCHANGED <<parent, signalled, station, children, toSignal, lock>>
          /\ sigchld' \in BOOLEAN /\ (sigchld => sigchld')
          /\ torn' \in BOOLEAN /\ (torn => torn')
      <3>1. PICK d \in Dead : soldier' = [soldier EXCEPT ![s] = d]
        BY <1>5 DEF Die
      <3>2. soldier \in [Soldiers -> SoldierStates] /\ d \in SoldierStates
        OBVIOUS
      <3>3. /\ soldier' \in [Soldiers -> SoldierStates]
            /\ \A t \in Soldiers \ {s} : soldier'[t] = soldier[t]
            /\ soldier'[s] \in Dead
        BY <3>1, <3>2
      <3>4. /\ soldier[s] \in {"started", "asleep"}
            /\ UNCHANGED <<parent, signalled, station, children, toSignal, lock>>
        BY <1>5 DEF Die
      <3>5. sigchld' = sigchld \/ sigchld' = TRUE
        BY <1>5 DEF Die
      <3>6. torn' = torn \/ torn' = TRUE
        BY <1>5 DEF Die, ListChanges
      <3>7. /\ sigchld' \in BOOLEAN /\ (sigchld => sigchld')
            /\ torn' \in BOOLEAN /\ (torn => torn')
        BY <3>5, <3>6
      <3> QED BY <3>3, <3>4, <3>7
    <2>2. lock # s
      BY <2>1
    <2>3. TypeOK' /\ SignalledSoFar'
      BY <2>1
    <2>4. LockHeld'
      BY <2>1, <2>2
    <2>5. s \in children => soldier'[s] = "zombie"
      BY <1>5 DEF Die
    <2>6. ListAgrees'
      BY <2>1, <2>5
    <2>7. s \in children /\ station \notin Gone => sigchld'
      BY <1>5 DEF Die
    <2>8. NoZombieForgotten'
      <3> SUFFICES ASSUME station \notin Gone \cup Handlers, ~torn', NEW z \in Zombies'
                   PROVE  sigchld'
        BY <2>1
      <3>1. ~torn /\ z \in children /\ (z = s \/ z \in Zombies)
        BY <2>1
      <3> QED BY <3>1, <2>1, <2>7
    <2> QED BY <2>3, <2>4, <2>6, <2>8
  <1>6. CASE Fork(s)
    <2>1. torn' = torn \/ torn' = TRUE
      BY <1>6 DEF Fork, ListChanges
    <2>2. torn' \in BOOLEAN /\ (torn => torn')
      BY <2>1
    <2>3. /\ soldier[s] = "unborn" /\ soldier' = [soldier EXCEPT ![s] = "started"]
          /\ UNCHANGED <<parent, signalled, station, children, toSignal, lock, sigchld>>
      BY <1>6 DEF Fork
    <2>4. TypeOK' /\ SignalledSoFar'
      BY <2>2, <2>3
    <2>5. LockHeld' /\ ListAgrees'
      BY <2>3
    <2>6. NoZombieForgotten'
      BY <2>2, <2>3
    <2> QED BY <2>4, <2>5, <2>6
  <1> QED BY <1>1, <1>2, <1>3, <1>4, <1>5, <1>6

-----------------------------------------------------------------------------
(* The steps of the station                                                *)

\* The station's life preserves the invariant.
LEMMA StationInv ==
    ASSUME IInv, StationStep
    PROVE  IInv'
  <1> USE DEF IInv, TypeOK, LockHeld, ListAgrees, SignalledSoFar, NoZombieForgotten,
              Zombies, Goes, Holding, Moving, Dead, Gone, Handlers, SoldierStates,
              StationStates
  <1>1. CASE TimerFires
    BY <1>1 DEF TimerFires
  <1>2. CASE EmergencyFails
    BY <1>2 DEF EmergencyFails
  <1>3. CASE Emergency
    BY <1>3 DEF Emergency, List
  <1>4. CASE ListDone
    BY <1>4 DEF ListDone
  <1>5. CASE SignalStation
    BY <1>5 DEF SignalStation
  <1>6. CASE SigchldHandler
    BY <1>6 DEF SigchldHandler, Interrupted, UserMode
  <1>7. CASE StationExits
    <2>1. PICK found \in SUBSET children :
            /\ ~torn => found = children
            /\ soldier' = [s \in Soldiers |->
                             IF s \in Zombies \cap found THEN "reaped" ELSE soldier[s]]
            /\ parent' = [s \in Soldiers |-> IF s \in found THEN "init" ELSE parent[s]]
            /\ children' = children \ found
      BY <1>7 DEF StationExits
    <2>2. /\ station = "leaving" /\ station' = "zombie"
          /\ torn' = torn \/ torn' = TRUE
          /\ UNCHANGED <<signalled, toSignal, lock, sigchld>>
      BY <1>7 DEF StationExits, ListChanges
    <2>3. TypeOK'
      BY <2>1, <2>2
    <2>4. LockHeld' /\ ListAgrees' /\ SignalledSoFar' /\ NoZombieForgotten'
      BY <2>1, <2>2
    <2> QED BY <2>3, <2>4
  <1>8. CASE ShellWaits
    BY <1>8 DEF ShellWaits, ListChanges
  <1>9. CASE \E s \in Soldiers : SignalChild(s)
    <2>1. PICK s \in Soldiers : SignalChild(s)
      BY <1>9
    <2>2. /\ station = "signalling" /\ s \in toSignal
          /\ signalled' = signalled \cup {s} /\ toSignal' = toSignal \ {s}
          /\ UNCHANGED <<soldier, parent, station, children, torn, lock, sigchld>>
      BY <2>1 DEF SignalChild
    <2>3. TypeOK'
      BY <2>2
    <2>4. LockHeld' /\ ListAgrees' /\ NoZombieForgotten'
      BY <2>2
    <2>5. SignalledSoFar'
      BY <2>2
    <2> QED BY <2>3, <2>4, <2>5
  <1>10. CASE \E s \in Soldiers : WaitFor(s)
    <2>1. PICK s \in Soldiers : WaitFor(s)
      BY <1>10
    <2>2. torn' = torn \/ torn' = TRUE
      BY <2>1 DEF WaitFor, ListChanges
    <2>3. torn' \in BOOLEAN /\ (torn => torn')
      BY <2>2
    <2>4. /\ station \in Handlers /\ s \in Zombies
          /\ soldier' = [soldier EXCEPT ![s] = "reaped"]
          /\ children' = children \ {s}
          /\ torn' \in BOOLEAN /\ (torn => torn')
          /\ UNCHANGED <<parent, signalled, station, toSignal, lock, sigchld>>
      BY <2>1, <2>3 DEF WaitFor, AfterWait
    <2>5. TypeOK'
      BY <2>4
    <2>6. LockHeld' /\ ListAgrees'
      BY <2>4
    <2>7. SignalledSoFar' /\ NoZombieForgotten'
      BY <2>4
    <2> QED BY <2>5, <2>6, <2>7
  <1>11. CASE HandlerReturns
    BY <1>11 DEF HandlerReturns, Resumed
  <1>12. CASE WalkNeverEnds
    BY <1>12 DEF WalkNeverEnds
  <1> QED BY <1>1, <1>2, <1>3, <1>4, <1>5, <1>6, <1>7, <1>8, <1>9, <1>10, <1>11, <1>12
          DEF StationStep

-----------------------------------------------------------------------------
(* The theorems                                                            *)

\* Every step preserves the invariant.
LEMMA NextInv == IInv /\ [Next]_vars => IInv'
  <1> SUFFICES ASSUME IInv, [Next]_vars PROVE IInv'
    OBVIOUS
  <1>1. CASE StationStep
    BY <1>1, StationInv
  <1>2. ASSUME NEW s \in Soldiers,
               SetParent(s) \/ Fork(s) \/ OpenFails(s) \/ SleepOn(s)
                 \/ TimerInterruptsHolder(s) \/ Kill(s) \/ Die(s)
        PROVE  IInv'
    BY <1>2, SetParentInv, SoldierInv
  <1>3. CASE Over \/ UNCHANGED vars
    BY <1>3, StutterInv DEF Over
  <1> QED BY <1>1, <1>2, <1>3 DEF Next

\* The inductive invariant: the pi_lock and its holder, the station's list and
\* its members' parents, and the progress of the emergency always agree.
THEOREM Invariance == Spec => []IInv
  BY InitInv, NextInv, PTL DEF Spec

\* Types, and the iteration stays within the list.
THEOREM TypeCorrect == Spec => []TypeOK
  BY Invariance, PTL DEF IInv

\* As long as the station has a dead child on a whole list, and is not about to
\* wait for it, SIGCHLD is pending, however many soldiers died at once.
THEOREM ZombiesRemembered == Spec => []NoZombieForgotten
  BY Invariance, PTL DEF IInv

\* When the driver releases the lock every soldier on the list has been sent
\* SIGTERM, although soldiers ask to be put on it at any time: as long as no
\* fork, wait or exit has torn the list by overlapping a move.
THEOREM EmergencyComplete == Spec => WholeListSignalled
  <1>1. IInv /\ [Next]_vars =>
            [station = "signalling" /\ station' = "msleep" /\ ~torn =>
                 children' \subseteq signalled']_vars
    <2> SUFFICES ASSUME IInv, [Next]_vars,
                        station = "signalling", station' = "msleep", ~torn
                 PROVE  children' \subseteq signalled'
      OBVIOUS
    <2>1. StationStep
      BY DEF Next, SetParent, Fork, OpenFails, SleepOn, TimerInterruptsHolder, Kill, Die,
             Over, Lookup, Lock, Unlinks, ChangeParent, Links, AddToChildren, Unlock, vars
    <2>2. ListDone
      BY <2>1 DEF StationStep, TimerFires, EmergencyFails, Emergency, SignalStation,
                  SigchldHandler, Interrupted, HandlerReturns, Resumed, StationExits,
                  WalkNeverEnds, ShellWaits, SignalChild, WaitFor, AfterWait, Handlers
    <2> QED BY <2>2 DEF ListDone, IInv, SignalledSoFar, TypeOK
  <1> QED BY <1>1, Invariance, PTL DEF Spec, WholeListSignalled
=============================================================================
