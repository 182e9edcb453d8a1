------------------------------- MODULE Watcher -------------------------------
(***************************************************************************)
(* A watch of Nomad or Consul by index: QueryChanged of                    *)
(* backend/nomad/helper/helper.go (the same in consul/helper) and the Do   *)
(* of the watchers built on it, called again and again by the worker of    *)
(* subscriber.Watch.                                                       *)
(*                                                                         *)
(* Three kinds of Do:                                                      *)
(*   "list"    most of them: one query, an answer when it has changed      *)
(*             (evaluations/list.go is the one mapped);                    *)
(*   "nodes"   nodes/list.go: one query, always an answer;                 *)
(*   "health"  jobs/health.go: two queries, one after the other, and an    *)
(*             answer when either has changed.                             *)
(*                                                                         *)
(* The servers are external.  The leader's log is the sequence of states   *)
(* it went through; a state gives the last write of each table, whose      *)
(* index is its position in the log, 0 when there was none.  With          *)
(* AllowStale any server answers, with the state it has come to, otherwise *)
(* the leader.  A query returns when the index has passed WaitIndex or     *)
(* WaitTime is over, which is at any time.  Restoring a snapshot cuts the  *)
(* log; the era tells the writes after it from those before.               *)
(***************************************************************************)
EXTENDS Naturals, Sequences

CONSTANTS
    Tables,
    JobTable, AllocTable,   \* what the watchers ask for
    Servers,                \* those that may answer
    Kinds,                  \* the watchers of this instance
    MaxIndex,               \* bound: the longest log
    MaxEra                  \* bound: the snapshots restored

ASSUME WatcherAssumption ==
    /\ JobTable \in Tables /\ AllocTable \in Tables
    /\ Kinds \subseteq {"list", "nodes", "health"}
    /\ MaxIndex \in Nat \ {0} /\ MaxEra \in Nat

VARIABLES
    history,    \* the leader's states
    era,
    pos,        \* the state each server has come to
    stale,      \* the query's AllowStale
    kind,       \* the watcher
    step,       \* the query its Do is at, 0 when Do has failed
    read,       \* what this Do has read, query by query
    wait,       \* the WaitIndex of each query
    first,      \* history: no Do has come to its end yet
    shown       \* what the last answer said

serverVars == <<history, era, pos>>
watcherVars == <<stale, kind, step, read, wait, first, shown>>
vars == <<serverVars, watcherVars>>

Queries == [list |-> <<AllocTable>>, nodes |-> <<AllocTable>>,
            health |-> <<JobTable, AllocTable>>]

Slots == DOMAIN Queries[kind]

Nothing == [era |-> 0, index |-> 0]

(* What query i finds in the state at p, and in the leader's.              *)
Found(i, p) == history[p][Queries[kind][i]]
Current(i) == Found(i, Len(history))

(* The states a server may answer from.                                    *)
Readable == IF stale THEN {pos[s] : s \in Servers} ELSE {Len(history)}

-----------------------------------------------------------------------------
(* QueryChanged(q, meta), in two parts. *)

(* Faulty variants: any other index, and one index too late.               *)
ChangedAnyhow(w, last) == last # w
ChangedLate(w, last) == last > w + 1

(* Faulty variant: an index of 0 is not looked at.                         *)
AskedAgain(w, last) == w

(* if meta.LastIndex == 0 { q.WaitIndex = 1 }                              *)
Asked(w, last) == IF last = 0 THEN 1 ELSE w

Changed(w, last) == last > Asked(w, last)

(* Faulty variant: the index is not taken over.                            *)
NextWaitForgets(w, last) == Asked(w, last)

NextWait(w, last) == IF Changed(w, last) THEN last ELSE Asked(w, last)

-----------------------------------------------------------------------------

WatcherInit ==
    /\ history = <<[t \in Tables |-> Nothing]>>
    /\ era = 0
    /\ pos = [s \in Servers |-> 1]
    /\ stale \in BOOLEAN /\ kind \in Kinds
    /\ step = 1
    /\ read = [i \in Slots |-> Nothing]
    /\ wait = [i \in Slots |-> 0]
    /\ first = TRUE
    /\ shown = [i \in Slots |-> Nothing]

Write(t) ==
    /\ Len(history) < MaxIndex
    /\ history' = Append(history, [history[Len(history)] EXCEPT
                                      ![t] = [era |-> era, index |-> Len(history) + 1]])
    /\ UNCHANGED <<era, pos, watcherVars>>

Replicate(s) ==
    /\ pos[s] < Len(history)
    /\ pos' = [pos EXCEPT ![s] = @ + 1]
    /\ UNCHANGED <<history, era, watcherVars>>

Restore(p) ==
    /\ era < MaxEra
    /\ p \in 1..Len(history)
    /\ era' = era + 1
    /\ history' = SubSeq(history, 1, p)
    /\ pos' = [s \in Servers |-> IF pos[s] > p THEN p ELSE pos[s]]
    /\ UNCHANGED watcherVars

(* The query the Do is at is answered.                                     *)
Answer(p) ==
    /\ step \in Slots
    /\ p \in Readable
    /\ read' = [read EXCEPT ![step] = Found(step, p)]
    /\ step' = step + 1
    /\ UNCHANGED <<serverVars, stale, kind, wait, first, shown>>

(* The query fails; the worker of Watch ends.                              *)
Fail ==
    /\ step \in Slots
    /\ step' = 0
    /\ UNCHANGED <<serverVars, stale, kind, read, wait, first, shown>>

Replies ==
    \/ kind = "nodes"
    \/ \E i \in Slots : Changed(wait[i], read[i].index)

(* What follows the last query of a Do.                                    *)
Finish ==
    /\ step = Len(Queries[kind]) + 1
    /\ wait' = [i \in Slots |-> NextWait(wait[i], read[i].index)]
    /\ shown' = IF Replies THEN read ELSE shown
    /\ step' = 1
    /\ first' = FALSE
    /\ UNCHANGED <<serverVars, stale, kind, read>>

ServerStep ==
    \/ \E t \in Tables : Write(t)
    \/ \E s \in Servers : Replicate(s)
    \/ \E p \in 1..MaxIndex : Restore(p)

WatcherStep == Fail \/ Finish \/ \E p \in 1..MaxIndex : Answer(p)

WatcherNext == ServerStep \/ WatcherStep

WatcherSpec == WatcherInit /\ [][WatcherNext]_vars

(* Servers catch up, queries return (WaitTime is two minutes), and the     *)
(* worker goes on.  Nothing says that anything is written or restored.     *)
FairWatcherSpec ==
    /\ WatcherSpec
    /\ \A s \in Servers : WF_vars(Replicate(s))
    /\ WF_vars(WatcherStep)

-----------------------------------------------------------------------------

Versions == [era : Nat, index : Nat]

(* The variables have their types; and once a Do has come to its end, its  *)
(* queries wait for an index above 0, the one no server waits for: with it *)
(* the worker of Watch would ask again and again without a pause           *)
(* (helper.go:31-36).                                                      *)
WatcherTypeOK ==
    /\ kind \in Kinds /\ stale \in BOOLEAN
    /\ history \in Seq([Tables -> Versions]) /\ history # <<>>
    /\ era \in Nat
    /\ pos \in [Servers -> 1..Len(history)]
    /\ step \in 0..(Len(Queries[kind]) + 1)
    /\ read \in [Slots -> Versions]
    /\ wait \in [Slots -> Nat]
    /\ first \in BOOLEAN /\ (first \/ \A i \in Slots : wait[i] > 0)
    /\ shown \in [Slots -> Versions]

(* A list waits for what comes after the state it has shown: a change that *)
(* happens between two queries is not missed, and none is shown twice; and *)
(* no watcher waits for what it has shown already.  Only a server that     *)
(* knows of no write at all (LastIndex 0) makes it start again from 1      *)
(* (helper.go:34-36).                                                      *)
WaitsBeyondShown ==
    \A i \in Slots :
        \/ wait[i] = 1
        \/ IF kind = "list" THEN wait[i] = shown[i].index ELSE wait[i] >= shown[i].index

(* A list never goes back to an older state, whichever of the servers      *)
(* answers and however far behind it is, unless one of them knew of no     *)
(* write at all: a stale answer is taken for no change (helper.go:38-40).  *)
NeverGoesBack ==
    [][kind = "list" =>
          \A i \in Slots : shown'[i].index >= shown[i].index \/ wait[i] = 1]_vars

(* A table nothing was written to has nothing to show.                     *)
UpToDate == \A i \in Slots : Current(i).index = 0 \/ shown[i] = Current(i)

(* When writing stops, a watcher comes to show the last state, as long as  *)
(* no query fails.  Two exceptions: a list after a snapshot was restored   *)
(* (the list of nodes has none: it always answers), and the health of a    *)
(* job with stale reads, where a change of one query may be answered       *)
(* together with an older state of the other, which is not asked again.    *)
CatchesUp ==
    \/ <>[](UpToDate \/ step = 0)
    \/ kind # "nodes" /\ <>(era > 0)
    \/ kind = "health" /\ stale
=============================================================================
