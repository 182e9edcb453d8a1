---------------------------- MODULE WatcherProofs ----------------------------
(* Theorems of module Watcher, for any tables, any servers, any log and    *)
(* any number of snapshots restored.                                       *)
(*                                                                         *)
(* WaitsBeyondShown is inductive with the types: what is shown and the     *)
(* WaitIndex change in the same step (Finish), and only together.          *)
EXTENDS Watcher, SequenceTheorems, TLAPS

WatcherInv == WatcherTypeOK /\ WaitsBeyondShown

(* What a watcher asks for, and where it may stand. *)
LEMMA QueriesType ==
    ASSUME kind \in Kinds
    PROVE  /\ Len(Queries[kind]) \in {1, 2}
           /\ Slots = 1..Len(Queries[kind])
           /\ \A i \in Slots : Queries[kind][i] \in Tables
<1>1. CASE kind \in {"list", "nodes"}
  <2>1. Queries[kind] = <<AllocTable>>
    BY <1>1 DEF Queries
  <2> QED BY <2>1, WatcherAssumption DEF Slots
<1>2. CASE kind = "health"
  <2>1. Queries[kind] = <<JobTable, AllocTable>>
    BY <1>2 DEF Queries
  <2> QED BY <2>1, WatcherAssumption DEF Slots
<1> QED BY <1>1, <1>2, WatcherAssumption

LEMMA FoundType ==
    ASSUME WatcherTypeOK, NEW i \in Slots, NEW p \in 1..Len(history)
    PROVE  Found(i, p) \in Versions
BY QueriesType DEF WatcherTypeOK, Found

LEMMA WatcherInitInv == WatcherInit => WatcherInv
<1> SUFFICES ASSUME WatcherInit PROVE WatcherInv
  OBVIOUS
<1>1. Nothing \in Versions
  BY DEF Nothing, Versions
<1>2. history \in Seq([Tables -> Versions]) /\ history # <<>> /\ Len(history) = 1
  BY <1>1 DEF WatcherInit
<1>3. WatcherTypeOK
  <2>1. step \in 0..(Len(Queries[kind]) + 1)
    BY QueriesType DEF WatcherInit
  <2> QED BY <1>1, <1>2, <2>1 DEF WatcherInit, WatcherTypeOK
<1>4. WaitsBeyondShown
  BY DEF WatcherInit, WaitsBeyondShown, Nothing
<1> QED BY <1>3, <1>4 DEF WatcherInv

LEMMA ServerStepInv == ASSUME WatcherInv, ServerStep PROVE WatcherInv'
<1> USE DEF WatcherInv
<1>1. UNCHANGED watcherVars
  BY DEF ServerStep, Write, Replicate, Restore
<1>2. WaitsBeyondShown'
  BY <1>1 DEF WaitsBeyondShown, watcherVars, Slots
<1>3. Len(history) \in Nat \ {0} /\ history \in Seq([Tables -> Versions])
  BY EmptySeq, LenProperties DEF WatcherTypeOK
<1>4. ASSUME NEW t \in Tables, Write(t) PROVE WatcherTypeOK'
  <2> DEFINE last == [history[Len(history)] EXCEPT
                        ![t] = [era |-> era, index |-> Len(history) + 1]]
  <2>1. history[Len(history)] \in [Tables -> Versions]
    BY <1>3
  <2>2. [era |-> era, index |-> Len(history) + 1] \in Versions
    BY <1>3 DEF WatcherTypeOK, Versions
  <2>3. last \in [Tables -> Versions]
    BY <2>1, <2>2
  <2>4. history' = Append(history, last)
    BY <1>4 DEF Write
  <2>5. history' \in Seq([Tables -> Versions]) /\ Len(history') = Len(history) + 1
    BY <1>3, <2>3, <2>4, AppendProperties
  <2>6. history' # <<>> /\ pos' \in [Servers -> 1..Len(history')]
    BY <1>3, <1>4, <2>5 DEF Write, WatcherTypeOK
  <2> QED BY <1>1, <1>4, <2>5, <2>6 DEF Write, WatcherTypeOK, watcherVars, Slots
<1>5. ASSUME NEW s \in Servers, Replicate(s) PROVE WatcherTypeOK'
  <2>1. pos' \in [Servers -> 1..Len(history)]
    BY <1>3, <1>5 DEF Replicate, WatcherTypeOK
  <2> QED BY <1>1, <1>5, <2>1 DEF Replicate, WatcherTypeOK, watcherVars, Slots
<1>6. ASSUME NEW p \in 1..MaxIndex, Restore(p) PROVE WatcherTypeOK'
  <2>1. p \in 1..Len(history) /\ history' = SubSeq(history, 1, p)
    BY <1>6 DEF Restore
  <2>2. history' \in Seq([Tables -> Versions]) /\ Len(history') = p
    BY <1>3, <2>1, SubSeqProperties
  <2>3. history' # <<>>
    BY <2>1, <2>2
  <2>4. pos' \in [Servers -> 1..p]
    BY <1>3, <1>6, <2>1 DEF Restore, WatcherTypeOK
  <2>5. era' \in Nat
    BY <1>6 DEF Restore, WatcherTypeOK
  <2> QED BY <1>1, <2>2, <2>3, <2>4, <2>5 DEF WatcherTypeOK, watcherVars, Slots
<1> QED BY <1>2, <1>4, <1>5, <1>6 DEF ServerStep

(* What QueryChanged does to the index a query waits for.                  *)
LEMMA NextWaitProperties ==
    ASSUME NEW w \in Nat, NEW last \in Nat
    PROVE  /\ NextWait(w, last) \in Nat /\ NextWait(w, last) > 0
           /\ NextWait(w, last) = 1 \/ NextWait(w, last) >= w
           /\ NextWait(w, last) = 1 \/ NextWait(w, last) >= last
           /\ Changed(w, last) => NextWait(w, last) = last /\ last > w
           /\ ~Changed(w, last) => NextWait(w, last) \in {w, 1}
BY DEF NextWait, Changed, Asked

(* Finish: each query waits for what it read, or for what it waited for    *)
(* before, and only a list's answer is tied to the change of its query.    *)
LEMMA FinishInv ==
    ASSUME WatcherInv, Finish
    PROVE  /\ WatcherInv'
           /\ kind = "list" => \A i \in Slots : shown'[i].index >= shown[i].index \/ wait[i] = 1
<1> USE DEF WatcherInv, Finish, serverVars
<1>1. Slots' = Slots
  BY DEF Slots
<1>2. \A i \in Slots : wait[i] \in Nat /\ read[i].index \in Nat /\ shown[i].index \in Nat
  BY DEF WatcherTypeOK, Versions
<1>3. \A i \in Slots : wait'[i] = NextWait(wait[i], read[i].index)
  OBVIOUS
<1>4. WatcherTypeOK'
  <2>1. wait' \in [Slots -> Nat] /\ \A i \in Slots : wait'[i] > 0
    BY <1>2, NextWaitProperties
  <2>2. 1 \in 0..(Len(Queries[kind]) + 1)
    BY QueriesType DEF WatcherTypeOK
  <2> QED BY <1>1, <2>1, <2>2 DEF WatcherTypeOK
<1>5. CASE ~Replies
  <2>1. kind # "nodes" /\ shown' = shown
        /\ \A i \in Slots : wait'[i] \in {wait[i], 1}
    BY <1>2, <1>3, <1>5, NextWaitProperties DEF Replies
  <2>2. WaitsBeyondShown'
    BY <1>1, <2>1 DEF WaitsBeyondShown
  <2> QED BY <1>2, <1>4, <2>1, <2>2
<1>6. CASE Replies /\ kind = "list"
  <2>1. Queries[kind] = <<AllocTable>>
    BY <1>6 DEF Queries
  <2>2. Slots = {1}
    BY <2>1 DEF Slots
  <2>3. Changed(wait[1], read[1].index)
    BY <1>6, <2>2 DEF Replies
  <2>4. wait'[1] = read[1].index /\ read[1].index > wait[1] /\ shown'[1] = read[1]
    BY <1>2, <1>3, <1>6, <2>2, <2>3, NextWaitProperties
  <2>5. WaitsBeyondShown'
    <3>1. wait'[1] = shown'[1].index /\ kind' = "list" /\ Slots' = {1}
      BY <1>1, <1>6, <2>2, <2>4
    <3> QED BY <3>1 DEF WaitsBeyondShown
  <2>6. shown'[1].index >= shown[1].index \/ wait[1] = 1
    BY <1>2, <1>6, <2>2, <2>4 DEF WaitsBeyondShown
  <2> QED BY <1>4, <2>2, <2>5, <2>6
<1>7. CASE Replies /\ kind # "list"
  <2>1. shown' = read /\ kind' # "list"
    BY <1>7
  <2>2. WaitsBeyondShown'
    BY <1>1, <1>2, <1>3, <2>1, NextWaitProperties DEF WaitsBeyondShown
  <2> QED BY <1>4, <1>7, <2>2
<1> QED BY <1>5, <1>6, <1>7

LEMMA QueryStepInv ==
    ASSUME WatcherInv, Fail \/ \E p \in 1..MaxIndex : Answer(p)
    PROVE  WatcherInv' /\ shown' = shown
<1> USE DEF WatcherInv, serverVars
<1>1. ASSUME Fail PROVE WatcherInv' /\ shown' = shown
  <2>1. 0 \in 0..(Len(Queries[kind]) + 1)
    BY QueriesType DEF WatcherTypeOK
  <2> QED BY <1>1, <2>1 DEF Fail, WatcherTypeOK, WaitsBeyondShown, Slots
<1>2. ASSUME NEW p \in 1..MaxIndex, Answer(p) PROVE WatcherInv' /\ shown' = shown
  <2>1. Len(history) \in Nat \ {0}
    BY EmptySeq, LenProperties DEF WatcherTypeOK
  <2>2. p \in 1..Len(history)
    BY <1>2, <2>1 DEF Answer, Readable, WatcherTypeOK
  <2>3. Found(step, p) \in Versions
    BY <1>2, <2>2, FoundType DEF Answer
  <2>4. step + 1 \in 0..(Len(Queries[kind]) + 1)
    <3>1. Slots = 1..Len(Queries[kind]) /\ Len(Queries[kind]) \in {1, 2}
      BY QueriesType DEF WatcherTypeOK
    <3>2. step \in Slots
      BY <1>2 DEF Answer
    <3>3. step \in 1..Len(Queries[kind])
      BY <3>1, <3>2, Zenon
    <3> HIDE DEF WatcherInv
    <3> QED BY <3>1, <3>3
  <2> QED BY <1>2, <2>3, <2>4 DEF Answer, WatcherTypeOK, WaitsBeyondShown, Slots
<1> HIDE DEF WatcherInv, serverVars
<1> QED BY <1>1, <1>2

LEMMA WatcherStepInv == WatcherInv /\ [WatcherNext]_vars => WatcherInv'
<1> SUFFICES ASSUME WatcherInv, [WatcherNext]_vars PROVE WatcherInv'
  OBVIOUS
<1>1. CASE UNCHANGED vars
  BY <1>1 DEF vars, serverVars, watcherVars, WatcherInv, WatcherTypeOK, WaitsBeyondShown, Slots
<1> QED BY <1>1, ServerStepInv, FinishInv, QueryStepInv DEF WatcherNext, WatcherStep

THEOREM WatcherInvariant == WatcherSpec => []WatcherInv
<1> QED BY WatcherInitInv, WatcherStepInv, PTL DEF WatcherSpec

-----------------------------------------------------------------------------

(* The variables keep their types, and no watcher comes to ask without     *)
(* waiting.                                                                *)
THEOREM WatcherTypeCorrect == WatcherSpec => []WatcherTypeOK
<1>1. WatcherInv => WatcherTypeOK
  BY DEF WatcherInv
<1> QED BY <1>1, WatcherInvariant, PTL

(* A list waits exactly beyond what it has shown. *)
THEOREM ListWaitsBeyondShown == WatcherSpec => []WaitsBeyondShown
<1>1. WatcherInv => WaitsBeyondShown
  BY DEF WatcherInv
<1> QED BY <1>1, WatcherInvariant, PTL

(* No stale server takes a list back to an older state. *)
THEOREM ListNeverGoesBack == WatcherSpec => NeverGoesBack
<1> DEFINE Forward ==
      kind = "list" => \A i \in Slots : shown'[i].index >= shown[i].index \/ wait[i] = 1
<1>1. WatcherInv /\ [WatcherNext]_vars => [Forward]_vars
  <2> SUFFICES ASSUME WatcherInv, WatcherNext PROVE Forward
    BY DEF vars
  <2>1. \A i \in Slots : shown[i].index \in Nat
    BY DEF WatcherInv, WatcherTypeOK, Versions
  <2>2. ASSUME shown' = shown PROVE Forward
    BY <2>1, <2>2
  <2>3. CASE ServerStep
    <3>1. shown' = shown
      BY <2>3 DEF ServerStep, Write, Replicate, Restore, watcherVars
    <3> QED BY <2>2, <3>1
  <2>4. CASE Finish
    BY <2>4, FinishInv
  <2>5. CASE Fail \/ \E p \in 1..MaxIndex : Answer(p)
    BY <2>2, <2>5, QueryStepInv
  <2> QED BY <2>3, <2>4, <2>5 DEF WatcherNext, WatcherStep
<1> QED BY <1>1, WatcherInvariant, PTL DEF WatcherSpec, NeverGoesBack
=============================================================================
