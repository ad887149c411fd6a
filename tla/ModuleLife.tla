------------------------------ MODULE ModuleLife ------------------------------
(***************************************************************************)
(* How the drivers of assignment 1 come and go: their init functions       *)
(* acquire one resource after the other and give back what they have when  *)
(* one fails, their exit functions give everything back, and meanwhile     *)
(* processes open their files and call their handlers.                     *)
(*                                                                         *)
(* The kernel's part is external: rmmod refuses while a file pins the      *)
(* module, a module whose exit runs cannot be pinned any more (one whose   *)
(* init runs can), a failed init frees the module whoever has it open, and *)
(* sysfs and procfs wait for running handlers when a file is removed.      *)
(***************************************************************************)
EXTENDS SequencesExt

CONSTANTS
    Modules,   \* drivers looked at, one in a behaviour
    Users      \* processes that use it

VARIABLES
    module,
    state,     \* "out", "init", "unwind", "live", "exit"
    todo,      \* resources to acquire or to release, in order
    have,      \* resources acquired and not released
    file,      \* users that have its file open
    inside,    \* users in its handler
    stale      \* users whose open file is of an earlier load: a failed init
               \* freed the module, or sysfs or procfs took the file away

vars == <<module, state, todo, have, file, inside, stale>>

Names == {"ioctl_driver", "get_memstats", "get_pgfaults", "chardev"}
ModulesAssumption == Modules \subseteq Names

Needs == [
    ioctl_driver |-> <<"chrdev", "class", "device">>,
    get_memstats |-> <<"kobject", "group">>,
    get_pgfaults |-> <<"proc entry">>,
    chardev      |-> <<"misc device">>]

\* What init releases when it has come to acquire r and cannot.
KeepsTheRegion(r) ==
    CASE r = "class"  -> <<"chrdev">>
      [] r = "device" -> <<"class">>
      [] r = "group"  -> <<"kobject">>
      [] OTHER        -> <<>>
OnError(r) ==
    CASE r = "class"  -> <<"chrdev">>
      [] r = "device" -> <<"class", "chrdev">>
      [] r = "group"  -> <<"kobject">>
      [] OTHER        -> <<>>

ExitOrder == [
    ioctl_driver |-> <<"device", "class", "chrdev">>,
    get_memstats |-> <<"group", "kobject">>,
    get_pgfaults |-> <<"proc entry">>,
    chardev      |-> <<"misc device">>]

\* The resource by which users get in; spock.sh makes the node of ioctl_driver
\* by hand, so its region of device numbers is enough.
Doors == {"chrdev", "group", "proc entry", "misc device"}
Reachable == have \cap Doors # {}

\* .owner = THIS_MODULE
Pinned == {"ioctl_driver", "chardev"}

\* Files of sysfs and procfs.
Drained == {"get_memstats", "get_pgfaults"}

Init ==
    /\ module \in Modules
    /\ state = "out" /\ todo = <<>> /\ have = {}
    /\ file = {} /\ inside = {} /\ stale = {}

-----------------------------------------------------------------------------
(* init and exit                                                           *)

Insmod ==
    /\ state = "out"
    /\ state' = "init" /\ todo' = Needs[module]
    /\ UNCHANGED <<module, have, file, inside, stale>>

Acquires ==
    /\ state = "init" /\ todo # <<>> /\ Head(todo) \notin have
    /\ have' = have \cup {Head(todo)} /\ todo' = Tail(todo)
    /\ UNCHANGED <<module, state, file, inside, stale>>

\* No memory, or the name is taken.
AcquireFails ==
    /\ state = "init" /\ todo # <<>>
    /\ state' = "unwind" /\ todo' = OnError(Head(todo))
    /\ UNCHANGED <<module, have, file, inside, stale>>

InitReturns ==
    /\ state = "init" /\ todo = <<>>
    /\ state' = "live"
    /\ UNCHANGED <<module, todo, have, file, inside, stale>>

Rmmod ==
    /\ state = "live" /\ (module \in Pinned => file \subseteq stale)
    /\ state' = "exit" /\ todo' = ExitOrder[module]
    /\ UNCHANGED <<module, have, file, inside, stale>>

Releases ==
    /\ state \in {"unwind", "exit"} /\ todo # <<>>
    /\ module \in Drained /\ Head(todo) \in Doors => inside = {}
    /\ have' = have \ {Head(todo)} /\ todo' = Tail(todo)
    /\ UNCHANGED <<module, state, file, inside, stale>>

Freed ==
    /\ state \in {"unwind", "exit"} /\ todo = <<>>
    /\ state' = "out"
    /\ stale' = IF state = "unwind" \/ module \in Drained THEN file ELSE stale
    /\ UNCHANGED <<module, todo, have, file, inside>>

-----------------------------------------------------------------------------
(* Users                                                                   *)

Open(u) ==
    /\ u \notin file /\ Reachable /\ (module \in Pinned => state # "exit")
    /\ file' = file \cup {u}
    /\ UNCHANGED <<module, state, todo, have, inside, stale>>

Removing == state \in {"unwind", "exit"} /\ todo # <<>> /\ Head(todo) \in Doors

\* An open file of sysfs or procfs leads nowhere once its removal has begun.
Call(u) ==
    /\ u \in file \ inside
    /\ module \in Drained => u \notin stale /\ Reachable /\ ~Removing
    /\ inside' = inside \cup {u}
    /\ UNCHANGED <<module, state, todo, have, file, stale>>

Return(u) ==
    /\ inside' = inside \ {u} /\ u \in inside
    /\ UNCHANGED <<module, state, todo, have, file, stale>>

Close(u) ==
    /\ u \in file \ inside
    /\ file' = file \ {u} /\ stale' = stale \ {u}
    /\ UNCHANGED <<module, state, todo, have, inside>>

Next ==
    \/ Insmod \/ Acquires \/ AcquireFails \/ InitReturns \/ Rmmod \/ Releases \/ Freed
    \/ \E u \in Users : Open(u) \/ Call(u) \/ Return(u) \/ Close(u)

Spec == Init /\ [][Next]_vars

-----------------------------------------------------------------------------
(* Properties                                                              *)

\* Type invariant; a live module has all of its resources.
TypeOK ==
    /\ module \in Modules /\ state \in {"out", "init", "unwind", "live", "exit"}
    /\ ToSet(todo) \subseteq ToSet(Needs[module]) /\ have \subseteq ToSet(Needs[module])
    /\ inside \subseteq file /\ file \subseteq Users /\ stale \subseteq file
    /\ state = "live" => have = ToSet(Needs[module])

\* Whichever step of an init function fails, and after every unload, nothing of
\* the module is left in the kernel; it can be loaded again.
NothingLeaked == state = "out" => have = {}

\* Nothing is released while something that was made from it is still there:
\* what the kernel has is at all times a beginning of the list of needs.
DependenciesKept ==
    \A i \in 1 .. Len(Needs[module]) : Needs[module][i] \in have =>
        \A j \in 1 .. i : Needs[module][j] \in have

\* Nobody runs code of a module that is no longer there, except by a file of
\* ioctl_driver that was opened during an init which then failed.
NobodyInFreedModule ==
    state = "out" /\ inside # {} => inside \subseteq stale /\ module = "ioctl_driver"
\* What is left of a list when its first n elements are done, and its first n
\* backwards.
After(seq, n) == [j \in 1 .. Len(seq) - n |-> seq[n + j]]
FirstBackwards(seq, n) == [j \in 1 .. n |-> seq[n + 1 - j]]

\* At all times the module has the first n of its needs, in init the others are
\* to be acquired, in exit and after an error these are to be released, the last
\* one first.
InStep ==
    \E n \in 0 .. Len(Needs[module]) :
        /\ have = {Needs[module][j] : j \in 1 .. n}
        /\ CASE state = "out" -> n = 0 /\ todo = <<>>
             [] state = "init" -> todo = After(Needs[module], n)
             [] state = "live" -> n = Len(Needs[module]) /\ todo = <<>>
             [] state = "unwind" ->
                    n < Len(Needs[module]) /\ todo = FirstBackwards(Needs[module], n)
             [] state = "exit" -> todo = FirstBackwards(Needs[module], n)

\* Who is in the handler of a file that is drained has a file to be in; a file
\* that pins its module keeps it from exit, and what is open after a failed init
\* is stale; chardev has nothing that can fail once its file is there.
UsersKnown ==
    /\ module \in Drained /\ inside # {} => Reachable
    /\ module \in Pinned /\ state \in {"out", "exit"} => file \subseteq stale
    /\ module = "chardev" => stale = {} /\ (state = "unwind" \/ have = {} => file = {})

\* The inductive invariant.
IInv == TypeOK /\ InStep /\ UsersKnown
=============================================================================
