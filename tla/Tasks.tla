-------------------------------- MODULE Tasks --------------------------------
(***************************************************************************)
(* What the subscriptions of a connection promise, without channels,       *)
(* tables or counters: a task runs under a key from the moment it joins;   *)
(* ending a key stops the tasks that run under it, all of them and no      *)
(* others; and the connection is released only at a moment when every task *)
(* that has joined has been stopped.                                       *)
(*                                                                         *)
(* The promise is weaker than one would like, because the code's is: two   *)
(* tasks may run under one key, a key may be ended by anybody, and a task  *)
(* may join after the release.                                             *)
(***************************************************************************)
CONSTANTS Keys, Calls

VARIABLES
    under,      \* the tasks that have joined, each with its key
    stopped,    \* the tasks that have been told to stop
    released    \* the connection has been released

tasksVars == <<under, stopped, released>>

On(k) == {c \in Calls : <<c, k>> \in under}

TasksInit == under = {} /\ stopped = {} /\ released = FALSE

Join(c, k) ==
    /\ \A l \in Keys : c \notin On(l)
    /\ under' = under \cup {<<c, k>>}
    /\ UNCHANGED <<stopped, released>>

EndKey(k) ==
    /\ stopped' = stopped \cup On(k)
    /\ UNCHANGED <<under, released>>

Release ==
    /\ \A k \in Keys : On(k) \subseteq stopped
    /\ released' = TRUE
    /\ UNCHANGED <<under, stopped>>

TasksNext ==
    \/ \E c \in Calls, k \in Keys : Join(c, k)
    \/ \E k \in Keys : EndKey(k)
    \/ Release

TasksSpec == TasksInit /\ [][TasksNext]_tasksVars
=============================================================================
