---------------------------- MODULE ClusterStats -----------------------------
(***************************************************************************)
(* The cluster statistics stream: backend/nomad/cluster/stats.go.          *)
(*                                                                         *)
(* Do waits for its ticker and then collects: it lists the nodes, starts   *)
(* one worker more than there are nodes, queues the ready nodes on taskCh, *)
(* waits for them on a WaitGroup, closes both channels and sums what is in *)
(* resultCh.  The workers listen to taskCh and to the channel of the       *)
(* subscription (quitCh), which an UNWATCH closes.                         *)
(*                                                                         *)
(* A task is its node, a result the node it measures; the three requests   *)
(* for a node are one, which succeeds or not.  The pool of a collection is *)
(* reset by the next: a worker it leaves behind holds no task, and taskCh  *)
(* is closed and empty, so it can only return.                             *)
(***************************************************************************)
EXTENDS Integers, FiniteSets

CONSTANTS Nodes, NoNode

ASSUME NodesAssumption == IsFiniteSet(Nodes) /\ NoNode \notin Nodes

VARIABLES
    loop,       \* where Do, work and collect are
    listed,     \* the nodes of this collection
    left,       \* those of them that are ready and not queued yet
    queued,     \* the tasks in taskCh
    at,         \* where each worker is
    doing,      \* the task of each worker
    wg,         \* the WaitGroup
    results,    \* what is in resultCh
    tasksOpen,  \* close(taskCh) has not been called
    resultsOpen,
    measured,   \* history: the nodes measured in this collection
    report,     \* the payload of the last answer
    quit,       \* the channel of the subscription is closed
    destroyed,  \* destroyCh is closed
    room        \* sendCh, which the connection empties, has room

pool == <<queued, at, doing, wg, results, measured>>
chans == <<tasksOpen, resultsOpen>>
world == <<quit, destroyed, room>>
statsVars == <<loop, listed, left, pool, chans, report, world>>

Workers == 0..Cardinality(Nodes)

StatsInit ==
    /\ loop = "select"
    /\ listed = {} /\ left = {} /\ queued = {}
    /\ at = [w \in Workers |-> "off"]
    /\ doing = [w \in Workers |-> NoNode]
    /\ wg = 0
    /\ results = {} /\ measured = {} /\ report = {}
    /\ tasksOpen = TRUE /\ resultsOpen = TRUE
    /\ quit = FALSE /\ destroyed = FALSE /\ room = TRUE

-----------------------------------------------------------------------------
(* Do. *)

(* Faulty variant: the end of the connection is not heard.                 *)
ReturnWhenQuit ==
    /\ loop = "select"
    /\ quit
    /\ loop' = "returned"
    /\ UNCHANGED <<listed, left, pool, chans, report, world>>

Return ==
    /\ loop = "select"
    /\ quit \/ destroyed
    /\ loop' = "returned"
    /\ UNCHANGED <<listed, left, pool, chans, report, world>>

(* The select may prefer the ticker to a closed channel.                   *)
Tick ==
    /\ loop = "select"
    /\ loop' = "list"
    /\ UNCHANGED <<listed, left, pool, chans, report, world>>

(* work drops the error: the next tick tries again.                        *)
ListFails ==
    /\ loop = "list"
    /\ loop' = "select"
    /\ UNCHANGED <<listed, left, pool, chans, report, world>>

(* The channels and the workers are made; for i := 0; i <= len(nodes).     *)
List(nodes, ready) ==
    /\ loop = "list"
    /\ loop' = "feed"
    /\ listed' = nodes /\ left' = ready
    /\ at' = [w \in Workers |-> IF w <= Cardinality(nodes) THEN "idle" ELSE "off"]
    /\ doing' = [w \in Workers |-> NoNode]
    /\ queued' = {} /\ results' = {} /\ measured' = {} /\ wg' = 0
    /\ tasksOpen' = TRUE /\ resultsOpen' = TRUE
    /\ UNCHANGED <<report, world>>

(* Faulty variant: one place too few.                                      *)
CapacityShort == Cardinality(listed) - 1

(* Of both channels.                                                       *)
Capacity == Cardinality(listed)

Add ==
    /\ loop = "feed" /\ left # {}
    /\ wg' = wg + 1
    /\ loop' = "queue"
    /\ UNCHANGED <<listed, left, queued, at, doing, results, measured, chans, report, world>>

Queue(n) ==
    /\ loop = "queue" /\ n \in left
    /\ Cardinality(queued) < Capacity
    /\ queued' = queued \cup {n}
    /\ left' = left \ {n}
    /\ loop' = "feed"
    /\ UNCHANGED <<listed, at, doing, wg, results, measured, chans, report, world>>

(* Faulty variant: the channels are closed without waiting.                *)
SkipWait ==
    /\ loop = "feed" /\ left = {}
    /\ loop' = "closeTasks"
    /\ UNCHANGED <<listed, left, pool, chans, report, world>>

(* wg.Wait() *)
Wait ==
    /\ loop = "feed" /\ left = {}
    /\ wg = 0
    /\ loop' = "closeTasks"
    /\ UNCHANGED <<listed, left, pool, chans, report, world>>

CloseTasks ==
    /\ loop = "closeTasks"
    /\ tasksOpen' = FALSE
    /\ loop' = "closeResults"
    /\ UNCHANGED <<listed, left, pool, resultsOpen, report, world>>

CloseResults ==
    /\ loop = "closeResults"
    /\ resultsOpen' = FALSE
    /\ loop' = "sum"
    /\ UNCHANGED <<listed, left, pool, tasksOpen, report, world>>

(* for elem := range resultCh                                              *)
Sum ==
    /\ loop = "sum"
    /\ report' = results
    /\ results' = {}
    /\ loop' = "send"
    /\ UNCHANGED <<listed, left, queued, at, doing, wg, measured, chans, world>>

(* send <- ..., which waits for room and for nothing else.                 *)
Send ==
    /\ loop = "send" /\ room
    /\ loop' = "select"
    /\ UNCHANGED <<listed, left, pool, chans, report, world>>

-----------------------------------------------------------------------------
(* worker.  Its select takes any case that is ready.                       *)

Take(w, n) ==
    /\ at[w] = "idle" /\ n \in queued
    /\ queued' = queued \ {n}
    /\ at' = [at EXCEPT ![w] = "busy"]
    /\ doing' = [doing EXCEPT ![w] = n]
    /\ UNCHANGED <<loop, listed, left, wg, results, measured, chans, report, world>>

Leave(w) ==
    /\ at[w] = "idle"
    /\ quit \/ (~tasksOpen /\ queued = {})
    /\ at' = [at EXCEPT ![w] = "off"]
    /\ UNCHANGED <<loop, listed, left, queued, doing, wg, results, measured, chans, report, world>>

(* Faulty variant: the continue is missing.                                *)
SkipOn(w) ==
    /\ at[w] = "busy"
    /\ wg' = wg - 1
    /\ at' = [at EXCEPT ![w] = "push"]
    /\ UNCHANGED <<loop, listed, left, queued, doing, results, measured, chans, report, world>>

(* Faulty variant: the Done is missing.                                    *)
SkipSilently(w) ==
    /\ at[w] = "busy"
    /\ at' = [at EXCEPT ![w] = "idle"]
    /\ UNCHANGED <<loop, listed, left, queued, doing, wg, results, measured, chans, report, world>>

(* A request fails, or the node is drained or not ready: Done, continue.   *)
Skip(w) ==
    /\ at[w] = "busy"
    /\ wg' = wg - 1
    /\ at' = [at EXCEPT ![w] = "idle"]
    /\ UNCHANGED <<loop, listed, left, queued, doing, results, measured, chans, report, world>>

Measure(w) ==
    /\ at[w] = "busy"
    /\ measured' = measured \cup {doing[w]}
    /\ at' = [at EXCEPT ![w] = "push"]
    /\ UNCHANGED <<loop, listed, left, queued, doing, wg, results, chans, report, world>>

(* Faulty variant: a send that does not wait, and loses what it sends.     *)
PushLost(w) ==
    /\ at[w] = "push"
    /\ at' = [at EXCEPT ![w] = "done"]
    /\ UNCHANGED <<loop, listed, left, queued, doing, wg, results, measured, chans, report, world>>

(* resultCh <- taskResult; on a closed channel it panics (NoSendOnClosed). *)
Push(w) ==
    /\ at[w] = "push"
    /\ Cardinality(results) < Capacity
    /\ results' = results \cup {doing[w]}
    /\ at' = [at EXCEPT ![w] = "done"]
    /\ UNCHANGED <<loop, listed, left, queued, doing, wg, measured, chans, report, world>>

Done(w) ==
    /\ at[w] = "done"
    /\ wg' = wg - 1
    /\ at' = [at EXCEPT ![w] = "idle"]
    /\ UNCHANGED <<loop, listed, left, queued, doing, results, measured, chans, report, world>>

(* The rest of the connection: an UNWATCH, its end, and what the other     *)
(* tasks and writePump make of sendCh.  writePump stops when the           *)
(* connection ends, so room may then be gone for ever.                     *)
Unwatch ==
    /\ quit' = TRUE
    /\ UNCHANGED <<loop, listed, left, pool, chans, report, destroyed, room>>

Destroy ==
    /\ destroyed' = TRUE
    /\ UNCHANGED <<loop, listed, left, pool, chans, report, quit, room>>

RoomChanges ==
    /\ room' = ~room
    /\ UNCHANGED <<loop, listed, left, pool, chans, report, quit, destroyed>>

-----------------------------------------------------------------------------

Collect ==
    \/ ListFails
    \/ \E nodes \in SUBSET Nodes : \E ready \in SUBSET nodes : List(nodes, ready)
    \/ Add \/ \E n \in Nodes : Queue(n)
    \/ Wait \/ CloseTasks \/ CloseResults \/ Sum

WorkerStep(w) ==
    \/ \E n \in Nodes : Take(w, n)
    \/ Leave(w) \/ Skip(w) \/ Measure(w) \/ Push(w) \/ Done(w)

StatsNext ==
    \/ Return \/ Tick \/ Collect \/ Send
    \/ \E w \in Workers : WorkerStep(w)
    \/ Unwatch \/ Destroy \/ RoomChanges

StatsSpec == StatsInit /\ [][StatsNext]_statsVars

(* Every goroutine goes on when it can, and the requests return.  The      *)
(* select of Do picks at random, so it does not prefer the ticker for      *)
(* ever, and a blocked sender is served in turn (SF for both); nothing     *)
(* says that the ticker fires, that a watch ends or that there is room.    *)
FairStatsSpec ==
    /\ StatsSpec
    /\ WF_statsVars(Collect)
    /\ SF_statsVars(Return)
    /\ SF_statsVars(Send)
    /\ \A w \in Workers : WF_statsVars(WorkerStep(w))

-----------------------------------------------------------------------------

Holding == {w \in Workers : at[w] \in {"busy", "push", "done"}}

(* The variables have their types; the WaitGroup panics below zero.        *)
StatsTypeOK ==
    /\ loop \in {"select", "list", "feed", "queue", "closeTasks", "closeResults",
                 "sum", "send", "returned"}
    /\ {listed, left, queued, results, measured, report} \subseteq SUBSET Nodes
    /\ at \in [Workers -> {"off", "idle", "busy", "push", "done"}]
    /\ doing \in [Workers -> Nodes \cup {NoNode}]
    /\ wg \in Nat
    /\ {tasksOpen, resultsOpen, quit, destroyed, room} \subseteq BOOLEAN

(* No worker sends to resultCh after collect has closed it, which would    *)
(* bring the process down: whoever has a task to report keeps Wait waiting *)
(* (stats.go:173-174, 214-217).                                            *)
NoSendOnClosed == \A w \in Workers : at[w] = "push" => resultsOpen

(* Neither channel is ever full for a sender: collect queues before any    *)
(* worker need have run, and the workers report before anybody reads       *)
(* (stats.go:188-189).                                                     *)
SendsNeverBlock ==
    /\ loop = "queue" => Cardinality(queued) < Capacity
    /\ \A w \in Workers : at[w] = "push" => Cardinality(results) < Capacity

(* The WaitGroup counts the tasks that are queued, announced or held.      *)
PoolAccounting ==
    wg = Cardinality(queued) + Cardinality(Holding) + (IF loop = "queue" THEN 1 ELSE 0)

(* The answer sums every node that was measured and no other: no result is *)
(* still on its way when collect reads the channel, and none is counted    *)
(* twice or carried over from the collection before (stats.go:214-230).    *)
ReportIsWhole == loop = "send" => report = measured /\ Holding = {} /\ queued = {}

(* What an UNWATCH during a collection can bring about (stats.go:176, 214):*)
(* every worker has heard it and left, tasks are still queued, and wg.Wait *)
(* waits for them for ever.                                                *)
Stuck ==
    /\ quit /\ loop = "feed" /\ left = {} /\ queued # {}
    /\ \A w \in Workers : at[w] = "off"

(* A collection comes to its answer, whatever requests fail and whoever    *)
(* leaves; Stuck is the only other way it can go.                          *)
CollectionCompletes == loop = "feed" ~> loop = "send" \/ Stuck

(* When the key is unwatched or the connection ends, the stream returns,   *)
(* unless it is Stuck, as long as sendCh has room again and again.         *)
StreamEnds ==
    []<>room => (quit \/ destroyed ~> loop = "returned" \/ Stuck)
=============================================================================
