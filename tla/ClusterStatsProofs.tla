------------------------- MODULE ClusterStatsProofs --------------------------
(* Theorems of module ClusterStats, for any nodes.                         *)
(*                                                                         *)
(* Everything rests on the WaitGroup: it counts the tasks that are on      *)
(* their way (PoolAccounting), so it is zero only when no task is, and the *)
(* channels are closed only then (Phases).  That a sender finds room needs *)
(* to know where every task is (Placed): in one place, and once.           *)
EXTENDS ClusterStats, FiniteSetTheorems, TLAPS

(* A node of this collection is to be queued, queued, held by one worker,  *)
(* measured, or done with, and only one of these.                          *)
Placed ==
    /\ left \subseteq listed /\ queued \subseteq listed /\ results \subseteq listed
    /\ left \cap queued = {} /\ results \cap (left \cup queued) = {}
    /\ \A w \in Holding : doing[w] \in listed /\ doing[w] \notin left \cup queued
    /\ \A w \in Workers : at[w] \in {"busy", "push"} => doing[w] \notin results
    /\ \A v, w \in Holding : doing[v] = doing[w] => v = w

(* What each phase of collect has established. *)
Phases ==
    /\ loop = "queue" => left # {}
    /\ loop \in {"feed", "queue", "closeTasks", "closeResults"} => resultsOpen
    /\ loop \notin {"feed", "queue"} => wg = 0

Pushing == {w \in Workers : at[w] = "push"}

(* What is measured is in resultCh or about to be, until it is summed. *)
Tallied ==
    /\ loop \in {"feed", "queue", "closeTasks", "closeResults", "sum"} =>
          measured = results \cup {doing[w] : w \in Pushing}
    /\ loop = "send" => report = measured

StatsInv == StatsTypeOK /\ PoolAccounting /\ Placed /\ Phases /\ Tallied

-----------------------------------------------------------------------------

LEMMA FinitePool ==
    ASSUME StatsTypeOK
    PROVE  /\ IsFiniteSet(Holding) /\ Cardinality(Holding) \in Nat
           /\ IsFiniteSet(queued) /\ Cardinality(queued) \in Nat
           /\ IsFiniteSet(results) /\ IsFiniteSet(listed)
<1>1. Cardinality(Nodes) \in Nat
  BY NodesAssumption, FS_CardinalityType
<1>2. IsFiniteSet(Workers)
  BY <1>1, FS_Interval DEF Workers
<1>3. Holding \in SUBSET Workers
  BY DEF Holding
<1>4. IsFiniteSet(Holding)
  BY <1>2, <1>3, FS_Subset
<1>5. \A S \in SUBSET Nodes : IsFiniteSet(S)
  BY NodesAssumption, FS_Subset
<1>6. IsFiniteSet(queued) /\ IsFiniteSet(results) /\ IsFiniteSet(listed)
  BY <1>5 DEF StatsTypeOK
<1> QED BY <1>4, <1>6, FS_CardinalityType

(* The counter is zero only when no task is on its way.                    *)
LEMMA NothingOnItsWay ==
    ASSUME StatsTypeOK, PoolAccounting, wg = 0
    PROVE  Holding = {} /\ queued = {}
<1>1. Cardinality(Holding) = 0 /\ Cardinality(queued) = 0
  BY FinitePool DEF PoolAccounting
<1> QED BY <1>1, FinitePool, FS_EmptySet

(* A worker that is not held is not counted; one that is, is.              *)
LEMMA HoldOne ==
    ASSUME StatsTypeOK, NEW w \in Workers, w \notin Holding, Holding' = Holding \cup {w}
    PROVE  Cardinality(Holding') = Cardinality(Holding) + 1
BY FinitePool, FS_AddElement

LEMMA DropOne ==
    ASSUME StatsTypeOK, NEW w \in Workers, w \in Holding, Holding' = Holding \ {w}
    PROVE  Cardinality(Holding') = Cardinality(Holding) - 1
BY FinitePool, FS_RemoveElement

(* Wherever a task is held, collect is waiting for it.                     *)
LEMMA HeldIsAwaited ==
    ASSUME StatsInv, NEW w \in Holding
    PROVE  loop \in {"feed", "queue"} /\ resultsOpen /\ wg > 0
<1>1. wg # 0
  BY NothingOnItsWay DEF StatsInv
<1> QED BY <1>1 DEF StatsInv, StatsTypeOK, Phases

-----------------------------------------------------------------------------

LEMMA StatsInitInv == StatsInit => StatsInv
<1> SUFFICES ASSUME StatsInit PROVE StatsInv
  OBVIOUS
<1>1. StatsTypeOK
  BY DEF StatsInit, StatsTypeOK
<1>2. Holding = {}
  BY DEF StatsInit, Holding
<1>3. PoolAccounting
  BY <1>2, FS_EmptySet DEF StatsInit, PoolAccounting
<1> QED BY <1>1, <1>2, <1>3 DEF StatsInit, StatsInv, Placed, Phases, Tallied, Holding

(* A step of Do or collect that only moves on, when no task is on its way. *)
LEMMA LoopStep ==
    ASSUME StatsInv, Return \/ Tick \/ ListFails \/ Wait \/ CloseTasks \/ CloseResults \/ Send
    PROVE  StatsInv'
<1> USE DEF Return, Tick, ListFails, Wait, CloseTasks, CloseResults, Send, pool, chans, world
<1>1. StatsTypeOK'
  BY DEF StatsInv, StatsTypeOK
<1>2. Holding' = Holding /\ Pushing' = Pushing
  BY DEF Holding, Pushing
<1>3. PoolAccounting'
  BY <1>2 DEF StatsInv, PoolAccounting
<1>4. Placed'
  BY <1>2 DEF StatsInv, Placed
<1>5. Phases'
  BY DEF StatsInv, Phases
<1>6. Tallied'
  BY <1>2 DEF StatsInv, Tallied
<1> QED BY <1>1, <1>3, <1>4, <1>5, <1>6 DEF StatsInv

LEMMA SumStep == ASSUME StatsInv, Sum PROVE StatsInv'
<1> USE DEF Sum, chans, world
<1>1. Holding = {}
  BY NothingOnItsWay DEF StatsInv, Phases
<1>2. Holding' = {} /\ Pushing = {}
  BY <1>1 DEF Holding, Pushing
<1>3. StatsTypeOK'
  BY DEF StatsInv, StatsTypeOK
<1>4. PoolAccounting'
  BY <1>1, <1>2 DEF StatsInv, PoolAccounting
<1>5. Placed'
  BY <1>2 DEF StatsInv, Placed, StatsTypeOK
<1>6. Phases'
  BY DEF StatsInv, Phases
<1>7. Tallied'
  BY <1>2 DEF StatsInv, Tallied
<1> QED BY <1>3, <1>4, <1>5, <1>6, <1>7 DEF StatsInv

LEMMA ListStep ==
    ASSUME StatsInv, NEW nodes \in SUBSET Nodes, NEW ready \in SUBSET nodes,
           List(nodes, ready)
    PROVE  StatsInv'
<1> USE DEF List, world
<1>1. StatsTypeOK'
  BY DEF StatsInv, StatsTypeOK
<1>2. Holding' = {} /\ Pushing' = {}
  BY DEF Holding, Pushing
<1>3. PoolAccounting'
  BY <1>2, FS_EmptySet DEF PoolAccounting
<1>4. Placed'
  BY <1>2 DEF Placed, Holding
<1>5. Phases' /\ Tallied'
  BY <1>2 DEF Phases, Tallied
<1> QED BY <1>1, <1>3, <1>4, <1>5 DEF StatsInv

LEMMA AddStep == ASSUME StatsInv, Add PROVE StatsInv'
<1> USE DEF Add, chans, world
<1>1. StatsTypeOK'
  BY DEF StatsInv, StatsTypeOK
<1>2. Holding' = Holding /\ Pushing' = Pushing
  BY DEF Holding, Pushing
<1>3. PoolAccounting'
  BY <1>2, FinitePool DEF StatsInv, PoolAccounting
<1>4. Placed'
  BY <1>2 DEF StatsInv, Placed
<1>5. Phases' /\ Tallied'
  BY <1>2 DEF StatsInv, Phases, Tallied
<1> QED BY <1>1, <1>3, <1>4, <1>5 DEF StatsInv

LEMMA QueueStep == ASSUME StatsInv, NEW n \in Nodes, Queue(n) PROVE StatsInv'
<1> USE DEF Queue, chans, world
<1>1. StatsTypeOK'
  BY DEF StatsInv, StatsTypeOK
<1>2. Holding' = Holding /\ Pushing' = Pushing
  BY DEF Holding, Pushing
<1>3. n \notin queued
  BY DEF StatsInv, Placed
<1>4. Cardinality(queued') = Cardinality(queued) + 1
  BY <1>3, FinitePool, FS_AddElement DEF StatsInv
<1>5. PoolAccounting'
  BY <1>2, <1>4, FinitePool DEF StatsInv, PoolAccounting
<1>6. Placed'
  BY <1>2 DEF StatsInv, Placed
<1>7. Phases' /\ Tallied'
  BY <1>2 DEF StatsInv, Phases, Tallied
<1> QED BY <1>1, <1>5, <1>6, <1>7 DEF StatsInv

-----------------------------------------------------------------------------

LEMMA TakeStep ==
    ASSUME StatsInv, NEW w \in Workers, NEW n \in Nodes, Take(w, n) PROVE StatsInv'
<1> USE DEF Take, chans, world
<1>1. StatsTypeOK'
  BY DEF StatsInv, StatsTypeOK
<1>2. w \notin Holding /\ Holding' = Holding \cup {w}
  BY DEF Holding, StatsInv, StatsTypeOK
<1>3. Pushing' = Pushing /\ \A v \in Pushing : doing'[v] = doing[v]
  BY DEF Pushing, StatsInv, StatsTypeOK
<1>4. Cardinality(queued') = Cardinality(queued) - 1
  BY FinitePool, FS_RemoveElement DEF StatsInv
<1>5. Cardinality(Holding') = Cardinality(Holding) + 1
  BY <1>2, HoldOne DEF StatsInv
<1>6. PoolAccounting'
  BY <1>4, <1>5, FinitePool DEF StatsInv, PoolAccounting
<1>7. doing'[w] = n /\ at'[w] = "busy"
      /\ \A v \in Workers : v # w => doing'[v] = doing[v] /\ at'[v] = at[v]
  BY DEF StatsInv, StatsTypeOK
<1>8. \A v \in Holding : doing[v] # n
  BY DEF StatsInv, Placed
<1>9. Placed'
  <2>1. \A v \in Holding' : doing'[v] \in listed /\ doing'[v] \notin left \cup queued'
    BY <1>2, <1>7 DEF StatsInv, Placed, Holding
  <2>2. \A v \in Workers : at'[v] \in {"busy", "push"} => doing'[v] \notin results
    BY <1>7 DEF StatsInv, Placed
  <2>3. \A u, v \in Holding' : doing'[u] = doing'[v] => u = v
    BY <1>2, <1>7, <1>8 DEF StatsInv, Placed, Holding
  <2> QED BY <2>1, <2>2, <2>3 DEF StatsInv, Placed
<1>10. Phases'
  BY DEF StatsInv, Phases
<1>11. Tallied'
  BY <1>3 DEF StatsInv, Tallied
<1> QED BY <1>1, <1>6, <1>9, <1>10, <1>11 DEF StatsInv

LEMMA LeaveStep == ASSUME StatsInv, NEW w \in Workers, Leave(w) PROVE StatsInv'
<1> USE DEF Leave, chans, world
<1>1. StatsTypeOK'
  BY DEF StatsInv, StatsTypeOK
<1>2. Holding' = Holding /\ Pushing' = Pushing
  BY DEF Holding, Pushing, StatsInv, StatsTypeOK
<1>3. PoolAccounting'
  BY <1>2 DEF StatsInv, PoolAccounting
<1>4. Placed'
  BY <1>2 DEF StatsInv, StatsTypeOK, Placed
<1>5. Phases' /\ Tallied'
  BY <1>2 DEF StatsInv, Phases, Tallied
<1> QED BY <1>1, <1>3, <1>4, <1>5 DEF StatsInv

(* A worker is done with its task, measured or not.                        *)
LEMMA ReleaseStep == ASSUME StatsInv, NEW w \in Workers, Skip(w) \/ Done(w) PROVE StatsInv'
<1> USE DEF Skip, Done, chans, world
<1>1. w \in Holding /\ w \notin Pushing
  BY DEF Holding, Pushing
<1>2. wg > 0 /\ loop \in {"feed", "queue"}
  BY <1>1, HeldIsAwaited
<1>3. StatsTypeOK'
  BY <1>2 DEF StatsInv, StatsTypeOK
<1>4. Holding' = Holding \ {w} /\ Pushing' = Pushing
  BY <1>1 DEF Holding, Pushing, StatsInv, StatsTypeOK
<1>5. Cardinality(Holding') = Cardinality(Holding) - 1
  BY <1>1, <1>4, DropOne DEF StatsInv
<1>6. PoolAccounting'
  BY <1>5, FinitePool DEF StatsInv, PoolAccounting
<1>7. Placed'
  BY <1>4 DEF StatsInv, StatsTypeOK, Placed
<1>8. Phases' /\ Tallied'
  BY <1>2, <1>4 DEF StatsInv, Phases, Tallied
<1> QED BY <1>3, <1>6, <1>7, <1>8 DEF StatsInv

LEMMA MeasureStep == ASSUME StatsInv, NEW w \in Workers, Measure(w) PROVE StatsInv'
<1> USE DEF Measure, chans, world
<1>1. w \in Holding
  BY DEF Holding
<1>2. loop \in {"feed", "queue"}
  BY <1>1, HeldIsAwaited
<1>3. StatsTypeOK'
  BY <1>1 DEF StatsInv, StatsTypeOK, Placed
<1>4. Holding' = Holding /\ Pushing' = Pushing \cup {w}
  BY DEF Holding, Pushing, StatsInv, StatsTypeOK
<1>5. PoolAccounting'
  BY <1>4 DEF StatsInv, PoolAccounting
<1>6. Placed'
  BY <1>4 DEF StatsInv, StatsTypeOK, Placed
<1>7. Phases'
  BY DEF StatsInv, Phases
<1>8. Tallied'
  BY <1>2, <1>4 DEF StatsInv, Tallied
<1> QED BY <1>3, <1>5, <1>6, <1>7, <1>8 DEF StatsInv

LEMMA PushStep == ASSUME StatsInv, NEW w \in Workers, Push(w) PROVE StatsInv'
<1> USE DEF Push, chans, world
<1>1. w \in Holding
  BY DEF Holding
<1>2. loop \in {"feed", "queue"}
  BY <1>1, HeldIsAwaited
<1>3. StatsTypeOK'
  BY <1>1 DEF StatsInv, StatsTypeOK, Placed
<1>4. Holding' = Holding /\ Pushing' = Pushing \ {w} /\ w \in Pushing
  BY DEF Holding, Pushing, StatsInv, StatsTypeOK
<1>5. PoolAccounting'
  BY <1>4 DEF StatsInv, PoolAccounting
<1>6. Placed'
  <2>1. \A v \in Workers : at'[v] \in {"busy", "push"} => v # w /\ v \in Holding /\ at[v] = at'[v]
    BY DEF StatsInv, StatsTypeOK, Holding
  <2>2. \A v \in Workers : at'[v] \in {"busy", "push"} => doing[v] \notin results'
    BY <1>1, <2>1 DEF StatsInv, Placed
  <2> QED BY <1>1, <1>4, <2>2 DEF StatsInv, Placed
<1>7. Phases'
  BY DEF StatsInv, Phases
<1>8. Tallied'
  <2>1. {doing[v] : v \in Pushing} = {doing[v] : v \in Pushing'} \cup {doing[w]}
    BY <1>4
  <2> QED BY <1>2, <2>1 DEF StatsInv, Tallied
<1> QED BY <1>3, <1>5, <1>6, <1>7, <1>8 DEF StatsInv

LEMMA StatsStep == StatsInv /\ [StatsNext]_statsVars => StatsInv'
<1> SUFFICES ASSUME StatsInv, [StatsNext]_statsVars PROVE StatsInv'
  OBVIOUS
<1>1. ASSUME NEW w \in Workers, WorkerStep(w) PROVE StatsInv'
  BY <1>1, TakeStep, LeaveStep, ReleaseStep, MeasureStep, PushStep DEF WorkerStep
<1>2. CASE Collect
  BY <1>2, LoopStep, ListStep, AddStep, QueueStep, SumStep DEF Collect
<1>3. CASE Unwatch \/ Destroy \/ RoomChanges \/ UNCHANGED statsVars
  <2>1. UNCHANGED <<loop, listed, left, pool, chans, report>> /\ {quit', destroyed', room'} \subseteq BOOLEAN
    BY <1>3 DEF Unwatch, Destroy, RoomChanges, statsVars, world, StatsInv, StatsTypeOK
  <2> QED BY <2>1 DEF pool, chans, StatsInv, StatsTypeOK, PoolAccounting, Holding, Placed, Phases,
                      Tallied, Pushing
<1> QED BY <1>1, <1>2, <1>3, LoopStep DEF StatsNext

THEOREM StatsInvariant == StatsSpec => []StatsInv
<1> QED BY StatsInitInv, StatsStep, PTL DEF StatsSpec

-----------------------------------------------------------------------------

(* The counter is never negative, and the rest has its type: no Done is    *)
(* one too many, for any number of nodes.                                  *)
THEOREM StatsTypeCorrect == StatsSpec => []StatsTypeOK
<1>1. StatsInv => StatsTypeOK
  BY DEF StatsInv
<1> QED BY <1>1, StatsInvariant, PTL

(* The WaitGroup counts exactly the tasks on their way. *)
THEOREM PoolIsAccounted == StatsSpec => []PoolAccounting
<1>1. StatsInv => PoolAccounting
  BY DEF StatsInv
<1> QED BY <1>1, StatsInvariant, PTL

(* No worker sends on the closed resultCh. *)
THEOREM NeverSendsOnClosed == StatsSpec => []NoSendOnClosed
<1>1. StatsInv => NoSendOnClosed
  <2>1. ASSUME NEW w \in Workers, at[w] = "push" PROVE w \in Holding
    BY <2>1 DEF Holding
  <2> QED BY <2>1, HeldIsAwaited DEF NoSendOnClosed
<1> QED BY <1>1, StatsInvariant, PTL

(* A channel of as many places as there are nodes is never full for a      *)
(* sender.                                                                 *)
THEOREM NeverBlocksOnSend == StatsSpec => []SendsNeverBlock
<1>1. ASSUME StatsInv, NEW S \in SUBSET listed, NEW n \in listed, n \notin S
      PROVE  Cardinality(S) < Cardinality(listed)
  <2>1. IsFiniteSet(listed) /\ Cardinality(listed) \in Nat
    BY <1>1, FinitePool, FS_CardinalityType DEF StatsInv
  <2>2. IsFiniteSet(S) /\ Cardinality(S) <= Cardinality(listed)
        /\ (Cardinality(listed) = Cardinality(S) => listed = S)
    BY <2>1, FS_Subset
  <2>3. Cardinality(S) \in Nat
    BY <2>2, FS_CardinalityType
  <2> QED BY <1>1, <2>1, <2>2, <2>3
<1>2. StatsInv => SendsNeverBlock
  <2> SUFFICES ASSUME StatsInv PROVE SendsNeverBlock
    OBVIOUS
  <2>1. ASSUME loop = "queue" PROVE Cardinality(queued) < Capacity
    <3>1. PICK n \in left : TRUE
      BY <2>1 DEF StatsInv, Phases
    <3> QED BY <1>1, <3>1 DEF StatsInv, Placed, Capacity
  <2>2. ASSUME NEW w \in Workers, at[w] = "push" PROVE Cardinality(results) < Capacity
    <3>1. doing[w] \in listed /\ doing[w] \notin results
      BY <2>2 DEF StatsInv, Placed, Holding
    <3> QED BY <1>1, <3>1 DEF StatsInv, Placed, Capacity
  <2> QED BY <2>1, <2>2 DEF SendsNeverBlock
<1> QED BY <1>2, StatsInvariant, PTL

(* An answer sums exactly what was measured. *)
THEOREM ReportsAreWhole == StatsSpec => []ReportIsWhole
<1>1. StatsInv => ReportIsWhole
  BY NothingOnItsWay DEF StatsInv, ReportIsWhole, Tallied, Phases
<1> QED BY <1>1, StatsInvariant, PTL
=============================================================================
