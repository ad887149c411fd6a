---------------------------- MODULE SiblingLists ----------------------------
(***************************************************************************)
(* The links of the lists of children while soldiers of Dr. Bloom move     *)
(* themselves from the shell's list to the control station's (DrBloom has  *)
(* the lists as sets).  A list is a ring through its parent's head; one    *)
(* step of a process is one store to memory others see, with the loads     *)
(* before it.                                                              *)
(*                                                                         *)
(* Soldiers take the station's pi_lock.  The kernel's own changes of the   *)
(* lists, fork and wait, are under the tasklist_lock, which the driver     *)
(* does not take, and lkm2 walks the shell's list under neither.           *)
(***************************************************************************)
EXTENDS Integers, FiniteSets

CONSTANTS
    Soldiers,
    Unborn,      \* soldiers the script has still to start
    MayDie       \* soldiers that may be killed once they are attached

Heads == {"shell", "station"}
Nodes == Soldiers \cup Heads

SoldiersAssumption ==
    /\ IsFiniteSet(Soldiers) /\ Unborn \subseteq Soldiers /\ MayDie \subseteq Soldiers
    /\ Soldiers \cap (Heads \cup {"none", "emergency", "poison", "idle", "done"}) = {}

VARIABLES
    next, prev,  \* the links
    parent,      \* of each soldier
    pc,          \* of each soldier
    reg,         \* neighbours loaded for the change of a soldier's links
    lock,        \* who holds the station's pi_lock
    cur,         \* where the walks of "lkm2" and "emergency" are
    disturbed    \* history: a change by the kernel has overlapped a move

vars == <<next, prev, parent, pc, reg, lock, cur, disturbed>>

Moving == {"locked", "unlinked back", "unlinked", "prepared", "published", "linked"}
Tasklist == {"forking", "reaping"}
States == Moving \cup Tasklist \cup {"unborn", "started", "asleep", "dead", "reaped"}

\* The k-th soldier in a ring of the shell's, and its head before and after them.
At(order, k) ==
    IF \E s \in DOMAIN order : order[s] = k THEN CHOOSE s \in DOMAIN order : order[s] = k
    ELSE "shell"

\* Any ring of the soldiers there are will do: the script starts them one by one.
Init ==
    /\ LET last == Cardinality(Soldiers \ Unborn) IN
       \E order \in [Soldiers \ Unborn -> 1 .. last] :
           /\ \A s, t \in Soldiers \ Unborn : order[s] = order[t] => s = t
           /\ next = [n \in Nodes |-> IF n \in DOMAIN order THEN At(order, order[n] + 1)
                                     ELSE IF n = "shell" THEN At(order, 1) ELSE n]
           /\ prev = [n \in Nodes |-> IF n \in DOMAIN order THEN At(order, order[n] - 1)
                                     ELSE IF n = "shell" THEN At(order, last) ELSE n]
    /\ parent = [s \in Soldiers |-> IF s \in Unborn THEN "none" ELSE "shell"]
    /\ pc = [s \in Soldiers |-> IF s \in Unborn THEN "unborn" ELSE "started"]
    /\ reg = [s \in Soldiers |-> [prev |-> s, next |-> s]]
    /\ lock = "none"
    /\ cur = [w \in {"lkm2", "emergency"} |-> "idle"]
    /\ disturbed = FALSE

Goes(s, from, to) == pc[s] = from /\ pc' = [pc EXCEPT ![s] = to]

-----------------------------------------------------------------------------
(* IOCTL_SET_PARENT: list_del_rcu, then list_add_rcu                       *)

TasklistFree == \A s \in Soldiers : pc[s] \notin Tasklist

MayLockAlways == TRUE
MayLock == lock = "none"

Lock(s) ==
    /\ MayLock /\ Goes(s, "started", "locked") /\ lock' = s
    /\ disturbed' = (disturbed \/ ~TasklistFree)
    /\ UNCHANGED <<next, prev, parent, reg, cur>>

Neighbours(s) == [prev |-> prev[s], next |-> next[s]]

DelBack(s) ==
    /\ Goes(s, "locked", "unlinked back")
    /\ reg' = [reg EXCEPT ![s] = Neighbours(s)]
    /\ prev' = [prev EXCEPT ![next[s]] = prev[s]]
    /\ UNCHANGED <<next, parent, lock, cur, disturbed>>

\* The entry's own next stays, for readers that stand there.
DelForward(s) ==
    /\ Goes(s, "unlinked back", "unlinked")
    /\ next' = [next EXCEPT ![reg[s].prev] = reg[s].next]
    /\ prev' = [prev EXCEPT ![s] = "poison"]
    /\ UNCHANGED <<parent, reg, lock, cur, disturbed>>

AddPrepares(s) ==
    /\ Goes(s, "unlinked", "prepared")
    /\ parent' = [parent EXCEPT ![s] = "station"]
    /\ reg' = [reg EXCEPT ![s] = [prev |-> "station", next |-> next["station"]]]
    /\ next' = [next EXCEPT ![s] = next["station"]]
    /\ prev' = [prev EXCEPT ![s] = "station"]
    /\ UNCHANGED <<lock, cur, disturbed>>

AddPublishes(s) ==
    /\ Goes(s, "prepared", "published")
    /\ next' = [next EXCEPT !["station"] = s]
    /\ UNCHANGED <<prev, parent, reg, lock, cur, disturbed>>

AddBack(s) ==
    /\ Goes(s, "published", "linked")
    /\ prev' = [prev EXCEPT ![reg[s].next] = s]
    /\ UNCHANGED <<next, parent, reg, lock, cur, disturbed>>

Unlock(s) ==
    /\ Goes(s, "linked", "asleep") /\ lock' = "none"
    /\ UNCHANGED <<next, prev, parent, reg, cur, disturbed>>

-----------------------------------------------------------------------------
(* The kernel: fork adds at the shell's tail, wait takes a dead child off  *)

\* A move under way does not keep the kernel from its change.
MayChange ==
    /\ TasklistFree
    /\ disturbed' = (disturbed \/ \E s \in Soldiers : pc[s] \in Moving)

ForkBack(s) ==
    /\ MayChange /\ Goes(s, "unborn", "forking")
    /\ reg' = [reg EXCEPT ![s] = [prev |-> prev["shell"], next |-> "shell"]]
    /\ prev' = [prev EXCEPT !["shell"] = s, ![s] = prev["shell"]]
    /\ next' = [next EXCEPT ![s] = "shell"]
    /\ parent' = [parent EXCEPT ![s] = "shell"]
    /\ UNCHANGED <<lock, cur>>

ForkForward(s) ==
    /\ Goes(s, "forking", "started")
    /\ next' = [next EXCEPT ![reg[s].prev] = s]
    /\ UNCHANGED <<prev, parent, reg, lock, cur, disturbed>>

Die(s) ==
    /\ s \in MayDie /\ Goes(s, "asleep", "dead")
    /\ UNCHANGED <<next, prev, parent, reg, lock, cur, disturbed>>

\* The station's SIGCHLD handler waits, when it is not in the emergency.
ReapBack(s) ==
    /\ MayChange /\ cur["emergency"] \in {"idle", "done"} /\ Goes(s, "dead", "reaping")
    /\ reg' = [reg EXCEPT ![s] = Neighbours(s)]
    /\ prev' = [prev EXCEPT ![next[s]] = prev[s]]
    /\ UNCHANGED <<next, parent, lock, cur>>

ReapForward(s) ==
    /\ Goes(s, "reaping", "reaped")
    /\ next' = [next EXCEPT ![reg[s].prev] = reg[s].next, ![s] = s]
    /\ prev' = [prev EXCEPT ![s] = s]
    /\ parent' = [parent EXCEPT ![s] = "none"]
    /\ UNCHANGED <<reg, lock, cur, disturbed>>

-----------------------------------------------------------------------------
(* The walks: IOCTL_EMERGENCY over the station's list, under its pi_lock,  *)
(* and lkm2 over the shell's                                               *)

Begins(w, head) == cur[w] = "idle" /\ cur' = [cur EXCEPT ![w] = next[head]]
Steps(w, head) == cur[w] \in Nodes \ {head} /\ cur' = [cur EXCEPT ![w] = next[cur[w]]]
Ends(w, head) == cur[w] = head /\ cur' = [cur EXCEPT ![w] = "done"]

links == <<next, prev, parent, pc, reg, disturbed>>

EmergencyBegins ==
    /\ Begins("emergency", "station") /\ lock = "none" /\ lock' = "emergency"
    /\ \A s \in Soldiers : pc[s] # "reaping"
    /\ UNCHANGED links
EmergencySteps == Steps("emergency", "station") /\ UNCHANGED <<links, lock>>
EmergencyEnds == Ends("emergency", "station") /\ lock' = "none" /\ UNCHANGED links

Lkm2 ==
    /\ Begins("lkm2", "shell") \/ Steps("lkm2", "shell") \/ Ends("lkm2", "shell")
    /\ UNCHANGED <<links, lock>>

Soldier(s) ==
    \/ Lock(s) \/ DelBack(s) \/ DelForward(s) \/ AddPrepares(s) \/ AddPublishes(s)
    \/ AddBack(s) \/ Unlock(s) \/ ForkForward(s) \/ ReapBack(s) \/ ReapForward(s)

Over ==
    /\ \A s \in Soldiers : pc[s] \in {"asleep", "reaped"}
    /\ \A w \in DOMAIN cur : cur[w] = "done"
    /\ UNCHANGED vars

Next ==
    \/ \E s \in Soldiers : Soldier(s) \/ ForkBack(s) \/ Die(s)
    \/ EmergencyBegins \/ EmergencySteps \/ EmergencyEnds \/ Lkm2 \/ Over

Spec == Init /\ [][Next]_vars

-----------------------------------------------------------------------------
(* Properties                                                              *)

\* Type invariant; the holder of the lock is where the lock is held.
TypeOK ==
    /\ next \in [Nodes -> Nodes] /\ prev \in [Nodes -> Nodes \cup {"poison"}]
    /\ parent \in [Soldiers -> Heads \cup {"none"}] /\ pc \in [Soldiers -> States]
    /\ reg \in [Soldiers -> [prev: Nodes \cup {"poison"}, next: Nodes]]
    /\ cur \in [{"lkm2", "emergency"} -> Nodes \cup {"idle", "done"}]
    /\ \A s \in Soldiers : lock = s <=> pc[s] \in Moving
    /\ disturbed \in BOOLEAN
    /\ lock = "emergency" <=> cur["emergency"] \in Nodes

\* Where a walk from n is after k steps, if it stops at a head.
Walk(n) ==
    LET at[k \in 0 .. Cardinality(Nodes)] ==
            IF k = 0 THEN next[n] ELSE IF at[k - 1] \in Heads THEN at[k - 1] ELSE next[at[k - 1]]
    IN at
End(n) == Walk(n)[Cardinality(Nodes)]
Ring(h) == {Walk(h)[k] : k \in 0 .. Cardinality(Nodes)} \ Heads
Quiet == \A s \in Soldiers : pc[s] \notin Moving \cup Tasklist
Children(h) == {s \in Soldiers : parent[s] = h}

\* A change by the kernel is under way in the middle of a move: nothing keeps it.
Overlap == \E s, t \in Soldiers : pc[s] \in Moving /\ pc[t] \in Tasklist

\* Between two changes each list is a ring, whole in both directions, of the
\* children of its parent.  Claimed only while no overlap has disturbed the lists.
RingsHold ==
    Quiet => \A h \in Heads :
        /\ End(h) = h /\ Ring(h) = Children(h)
        /\ \A n \in Ring(h) \cup {h} : prev[next[n]] = n

\* In the middle of a move, too, a reader that begins at a head comes back to
\* that head, and one that stands on a soldier comes to some head, which need not
\* be the one it looks for.  Claimed only while no overlap has disturbed the lists.
ForwardSound ==
    /\ \A h \in Heads : End(h) = h
    /\ \A s \in Soldiers : pc[s] \notin {"unborn", "reaped"} => End(s) \in Heads

-----------------------------------------------------------------------------
(* The invariant the proofs use, while the kernel has overlapped no move:  *)
(* the links are those of an order of the soldiers                         *)

\* The links of f lead from head h along M by ascending positions and back to h.
Linked(f, h, M, pos) ==
    /\ \A x \in M \cup {h} : f[x] \in M \cup {h}
    /\ \A x \in M : f[x] \in M => pos[x] < pos[f[x]]
    /\ \A x \in M \cup {h}, m \in M :
          x = h \/ pos[x] < pos[m] => f[x] \in M /\ pos[f[x]] <= pos[m]

\* The soldiers a reader reaches by next from a head, and by prev.
OnForward(h) ==
    {s \in Soldiers : pc[s] \in IF h = "shell" THEN {"started", "locked", "unlinked back"}
                                ELSE {"published", "linked", "asleep", "dead", "reaping"}}
OnBack(h) ==
    {s \in Soldiers : pc[s] \in IF h = "shell" THEN {"started", "locked", "forking"}
                                ELSE {"linked", "asleep", "dead"}}

Back(pos) == [s \in Soldiers |-> -pos[s]]

\* Positions within bounds, different for soldiers that were born, to which the
\* rings keep in both directions.
InOrder(pos, low, high) ==
    /\ \A s \in Soldiers : low < pos[s] /\ pos[s] < high
    /\ \A s, t \in Soldiers : "unborn" \notin {pc[s], pc[t]} /\ pos[s] = pos[t] => s = t
    /\ \A h \in Heads :
          /\ Linked(next, h, OnForward(h), pos)
          /\ Linked(prev, h, OnBack(h), Back(pos))
    /\ \A s \in Soldiers :
          /\ pc[s] = "published" => \A t \in OnForward("station") \ {s} : pos[s] < pos[t]
          /\ pc[s] = "forking" => \A t \in OnForward("shell") : pos[t] < pos[s]

\* Between the two halves of a change of s its neighbours are as it loaded them.
Halfway(s) ==
    /\ pc[s] \in {"unlinked back", "reaping"} =>
          LET h == parent[s] IN
          /\ reg[s].next = next[s] /\ reg[s].prev \in OnForward(h) \cup {h}
          /\ next[reg[s].prev] = s
    /\ pc[s] = "unlinked" => next[s] \in OnForward("shell") \cup {"shell"}
    /\ pc[s] = "prepared" => next[s] = next["station"]
    /\ pc[s] = "published" => next["station"] = s
    /\ pc[s] \in {"prepared", "published"} =>
          /\ prev[s] = "station" /\ reg[s].next = next[s]
          /\ next[s] \in OnBack("station") \cup {"station"} /\ prev[next[s]] = "station"
    /\ pc[s] = "forking" =>
          /\ reg[s].prev \in OnForward("shell") \cup {"shell"}
          /\ next[reg[s].prev] = "shell" /\ next[s] = "shell"

Parents ==
    \A s \in Soldiers :
        parent[s] = IF pc[s] \in {"unborn", "reaped"} THEN "none"
                    ELSE IF pc[s] \in {"forking", "started", "locked", "unlinked back", "unlinked"}
                    THEN "shell" ELSE "station"

Whole ==
    /\ \A s, t \in Soldiers : {pc[s], pc[t]} \subseteq Moving \cup Tasklist => s = t
    /\ \A s \in Soldiers : Halfway(s)
    /\ \E pos \in [Soldiers -> Int], low, high \in Int : InOrder(pos, low, high)

\* The kernel's changes exclude each other, as moves do under the pi_lock; an
\* overlap of the two is on record.
Exclusive ==
    /\ \A s, t \in Soldiers : {pc[s], pc[t]} \subseteq Tasklist => s = t
    /\ Overlap => disturbed

IInv == TypeOK /\ Parents /\ Exclusive /\ (~disturbed => Whole)
=============================================================================
