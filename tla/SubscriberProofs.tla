-------------------------- MODULE SubscriberProofs ---------------------------
(* Theorems of modules Subscriber and Connection, for any keys, any calls, *)
(* any modes and any capacity of sendCh.                                   *)
(*                                                                         *)
(* Every step of the goroutines is a step of the Manager (or leaves it     *)
(* alone), so ManagerInv carries over.  TableInv relates the table to the  *)
(* calls: what every call got, and who owns every key.  It is what makes   *)
(* the promise of module Tasks inductive.  The pumps, the handler and the  *)
(* browser of a connection use the goroutines as module Subscriber says,   *)
(* so that what is proved of them holds of every connection.               *)
EXTENDS Connection, ManagerProofs

(* A reply is under way only while there is something left to send.        *)
Replying == \A c \in Calls : run[c] = "reply" => todo[c] > 0

(* A call has a channel once its Subscribe has returned, and runs no task  *)
(* before.                                                                 *)
Joined ==
    \A c \in Calls :
        /\ pc[c] \in {"idle", "check", "subscribe"} => c \notin made
        /\ pc[c] = "running" => c \in made

(* A call whose channel is open finds that channel under its key.          *)
OpenIsRegistered ==
    \A c \in made :
        got[c] \in made /\ (got[c] \notin closed => subs[key[c]] = got[c])

TableInv ==
    /\ Joined
    /\ OpenIsRegistered
    /\ RegisteredHasOwner
    /\ IsFiniteSet(Sharers)
    /\ WaitGroupAccounting

SubscriberInv == ManagerInv /\ SubscriberTypeOK /\ Replying /\ TableInv

-----------------------------------------------------------------------------

LEMMA SubscriberInitInv == SubscriberInit => SubscriberInv
<1> SUFFICES ASSUME SubscriberInit PROVE SubscriberInv
  OBVIOUS
<1>1. ManagerInv
  BY ManagerInitInv DEF SubscriberInit
<1>2. SubscriberTypeOK /\ Replying
  <2>1. 0 \in 0..(Batch + 1) /\ 0 \in 0..SendCap
    BY SubscriberAssumption
  <2>2. key \in [Calls -> Keys] /\ mode \in [Calls -> TaskModes \cup {"none", "unwatch"}]
    BY SubscriberAssumption DEF SubscriberInit, TaskModes
  <2>3. Replying
    BY DEF SubscriberInit, Replying
  <2> QED BY <2>1, <2>2, <2>3 DEF SubscriberInit, SubscriberTypeOK, Steps
<1>3. Registered = {} /\ Sharers = {} /\ wg = 0 /\ made = {}
  BY DEF SubscriberInit, ManagerInit, Registered, Sharers
<1>4. TableInv
  BY <1>3, FS_EmptySet
     DEF SubscriberInit, TableInv, Joined, OpenIsRegistered, RegisteredHasOwner,
         WaitGroupAccounting
<1> QED BY <1>1, <1>2, <1>4 DEF SubscriberInv

(* The goroutines use the Manager as its specification says.               *)
LEMMA StepOfManager ==
    SubscriberTypeOK /\ [SubscriberNext]_subscriberVars => [ManagerNext]_managerVars
<1> SUFFICES ASSUME SubscriberTypeOK, [SubscriberNext]_subscriberVars
             PROVE  [ManagerNext]_managerVars
  OBVIOUS
<1>1. ASSUME NEW c \in Calls, CallStep(c) PROVE [ManagerNext]_managerVars
  <2>1. key[c] \in Keys
    BY DEF SubscriberTypeOK
  <2>2. CASE DoSubscribe(c)
    BY <2>1, <2>2 DEF DoSubscribe, ManagerNext
  <2>3. CASE DoUnsubscribe(c)
    BY <2>1, <2>3 DEF DoUnsubscribe, ManagerNext
  <2>4. CASE UNCHANGED managerVars
    BY <2>4
  <2> QED BY <1>1, <2>2, <2>3, <2>4
          DEF CallStep, Check, Stop, WorkerTop, TaskFails, StreamOpens, TaskAnswers, Tick,
              CollectStarts, CollectReturns, Cancel, Recheck, SendError, Reply
<1>2. CASE HandleWait \/ HandleReturns
  BY <1>2 DEF HandleWait, HandleReturns, ManagerNext
<1>3. CASE UNCHANGED managerVars
  BY <1>3
<1> QED BY <1>1, <1>2, <1>3
        DEF SubscriberNext, Start, StartUnwatch, Drain, Refuse, Destroy, subscriberVars

-----------------------------------------------------------------------------

(* How a task moves on keeps the types, and never into a reply.            *)
LEMMA NextRoundType ==
    ASSUME SubscriberTypeOK, NEW c \in Calls, NextRound(c) \/ Exit(c)
    PROVE  /\ run' \in [Calls -> Steps]
           /\ pc' \in [Calls -> {"idle", "check", "subscribe", "running", "unsubscribe", "done"}]
           /\ run'[c] # "reply"
           /\ \A d \in Calls : d # c => run'[d] = run[d]
<1>1. run \in [Calls -> Steps]
      /\ pc \in [Calls -> {"idle", "check", "subscribe", "running", "unsubscribe", "done"}]
  BY DEF SubscriberTypeOK
<1>2. CASE Exit(c)
  BY <1>1, <1>2 DEF Exit, Steps
<1>3. CASE GoTo(c, "top")
  BY <1>1, <1>3 DEF GoTo, Steps
<1>4. CASE GoTo(c, "select")
  BY <1>1, <1>4 DEF GoTo, Steps
<1> QED BY <1>2, <1>3, <1>4 DEF NextRound

LEMMA TypeStep ==
    ASSUME ManagerTypeOK, SubscriberTypeOK, Replying, [SubscriberNext]_subscriberVars
    PROVE  SubscriberTypeOK' /\ Replying'
<1> USE DEF SubscriberTypeOK, Replying, Steps
<1>1. ASSUME NEW c \in Calls, NEW k \in Keys, StartUnwatch(c, k)
      PROVE  SubscriberTypeOK' /\ Replying'
  BY <1>1 DEF StartUnwatch
<1>2. ASSUME NEW c \in Calls, NEW k \in Keys, NEW m \in Modes[k], Start(c, m, k)
      PROVE  SubscriberTypeOK' /\ Replying'
  <2>1. m \in TaskModes
    BY SubscriberAssumption DEF TaskModes
  <2> QED BY <1>2, <2>1 DEF Start
<1>3. ASSUME NEW c \in Calls, CallStep(c)
      PROVE  SubscriberTypeOK' /\ Replying'
  <2>1. CASE Check(c)
    BY <2>1 DEF Check
  <2>2. CASE DoSubscribe(c)
    <3>1. FirstStep(mode[c]) \in {"top", "select", "do"}
      BY DEF FirstStep
    <3>2. LoadOrStore(key[c], c) \in Calls \cup {NoChan}
      BY DEF LoadOrStore, ManagerTypeOK
    <3> QED BY <2>2, <3>1, <3>2 DEF DoSubscribe
  <2>3. CASE Stop(c) \/ DoUnsubscribe(c)
    BY <2>3 DEF Stop, DoUnsubscribe
  <2>4. CASE WorkerTop(c)
    BY <2>4, NextRoundType DEF WorkerTop, GoTo
  <2>5. CASE TaskFails(c) \/ StreamOpens(c)
    BY <2>5 DEF TaskFails, StreamOpens, GoTo
  <2>6. ASSUME NEW n \in 0..Batch, TaskAnswers(c, n)
        PROVE  SubscriberTypeOK' /\ Replying'
    <3>1. n \in 0..(Batch + 1)
      BY SubscriberAssumption
    <3> QED BY <2>6, <3>1 DEF TaskAnswers, GoTo
  <2>7. CASE Tick(c) \/ CollectStarts(c) \/ \E n \in {0, 1} : CollectReturns(c, n)
    <3>1. {0, 1} \subseteq 0..(Batch + 1)
      BY SubscriberAssumption
    <3>2. CASE Tick(c)
      BY <3>1, <3>2 DEF Tick, GoTo
    <3>3. CASE CollectStarts(c)
      BY <3>3 DEF CollectStarts, GoTo
    <3>4. ASSUME NEW n \in {0, 1}, CollectReturns(c, n)
          PROVE  SubscriberTypeOK' /\ Replying'
      BY <3>1, <3>4 DEF CollectReturns, GoTo
    <3> QED BY <2>7, <3>2, <3>3, <3>4
  <2>8. CASE Cancel(c)
    BY <2>8, NextRoundType DEF Cancel
  <2>9. CASE Recheck(c)
    <3>1. CASE NextRound(c) \/ Exit(c)
      BY <2>9, <3>1, NextRoundType DEF Recheck
    <3>2. CASE todo[c] > 0 /\ GoTo(c, "reply")
      BY <2>9, <3>2 DEF Recheck, GoTo
    <3> QED BY <2>9, <3>1, <3>2 DEF Recheck
  <2>10. CASE SendError(c)
    BY <2>10, NextRoundType, SubscriberAssumption DEF SendError, Send
  <2>11. CASE Reply(c)
    <3>1. sendLen' \in 0..SendCap
      BY <2>11, SubscriberAssumption DEF Reply, Send
    <3>2. todo[c] \in 1..(Batch + 1) /\ todo' = [todo EXCEPT ![c] = todo[c] - 1]
      BY <2>11, SubscriberAssumption DEF Reply
    <3>3. todo' \in [Calls -> 0..(Batch + 1)]
      BY <3>2, SubscriberAssumption
    <3>4. CASE todo[c] > 1 /\ UNCHANGED <<run, pc>>
      BY <2>11, <3>1, <3>2, <3>3, <3>4, SubscriberAssumption DEF Reply
    <3>5. CASE NextRound(c)
      BY <2>11, <3>1, <3>2, <3>3, <3>5, NextRoundType DEF Reply
    <3> QED BY <2>11, <3>4, <3>5 DEF Reply
  <2> QED BY <1>3, <2>1, <2>2, <2>3, <2>4, <2>5, <2>6, <2>7, <2>8, <2>9, <2>10, <2>11
          DEF CallStep
<1>4. CASE Drain \/ Refuse
  BY <1>4, SubscriberAssumption DEF Drain, Refuse, Send
<1>5. CASE Destroy
  BY <1>5 DEF Destroy
<1>6. CASE UNCHANGED taskVars
  BY <1>6 DEF taskVars
<1> QED BY <1>1, <1>2, <1>3, <1>4, <1>5, <1>6
        DEF SubscriberNext, HandleWait, HandleReturns, subscriberVars

-----------------------------------------------------------------------------

(* A step that leaves the table and what the calls got alone, and lets no  *)
(* call begin a task or skip its Unsubscribe.                              *)
LEMMA QuietStep ==
    ASSUME SubscriberInv,
           UNCHANGED <<subs, made, closed, wg, got, key>>,
           \A c \in Calls :
              /\ pc'[c] \in {"idle", "check", "subscribe"} => pc[c] \in {"idle", "check", "subscribe"}
              /\ pc'[c] = "running" => pc[c] = "running"
              /\ pc[c] \in {"running", "unsubscribe"} => pc'[c] \in {"running", "unsubscribe"}
    PROVE  TableInv'
<1>1. Registered' = Registered /\ Sharers' = Sharers
  BY DEF Registered, Sharers
<1>2. RegisteredHasOwner'
  BY <1>1 DEF RegisteredHasOwner, Registered, SubscriberInv, TableInv, ManagerInv, CloseOnce,
              ManagerTypeOK
<1>3. Joined' /\ OpenIsRegistered'
  BY DEF SubscriberInv, TableInv, Joined, OpenIsRegistered
<1> QED BY <1>1, <1>2, <1>3 DEF SubscriberInv, TableInv, WaitGroupAccounting

(* Subscribe: either the key is new, and the call owns it, or the call     *)
(* shares the channel of the owner and the counter has one too many.       *)
LEMMA SubscribeStep ==
    ASSUME SubscriberInv, NEW c \in Calls, DoSubscribe(c)
    PROVE  TableInv'
<1> DEFINE k == key[c]
<1> USE NoChanAssumption
<1>1. /\ pc[c] = "subscribe" /\ c \notin made /\ k \in Keys
      /\ made' = made \cup {c} /\ closed' = closed /\ key' = key /\ wg' = wg + 1
      /\ subs' = [subs EXCEPT ![k] = LoadOrStore(k, c)]
      /\ got' = [got EXCEPT ![c] = LoadOrStore(k, c)]
      /\ pc' = [pc EXCEPT ![c] = "running"]
  BY DEF DoSubscribe, Subscribe, SubscriberInv, SubscriberTypeOK
<1>2. /\ subs \in [Keys -> Calls \cup {NoChan}] /\ made \subseteq Calls /\ closed \subseteq made
      /\ got \in [Calls -> Calls \cup {NoChan}] /\ key \in [Calls -> Keys] /\ wg \in Nat
      /\ pc \in [Calls -> {"idle", "check", "subscribe", "running", "unsubscribe", "done"}]
  BY DEF SubscriberInv, ManagerInv, ManagerTypeOK, SubscriberTypeOK
<1>3. /\ Joined /\ OpenIsRegistered /\ RegisteredHasOwner /\ CloseOnce
      /\ IsFiniteSet(Registered) /\ Cardinality(Registered) \in Nat
      /\ IsFiniteSet(Sharers) /\ Cardinality(Sharers) \in Nat
      /\ WaitGroupAccounting
  BY FS_CardinalityType DEF SubscriberInv, ManagerInv, TableInv
<1>4. Joined'
  BY <1>1, <1>2, <1>3 DEF Joined
<1>5. CASE Subscribed(k)
  <2>1. k \in Registered /\ subs[k] \in made \ closed /\ subs[k] # c
    BY <1>1, <1>3, <1>5 DEF CloseOnce, Registered, Subscribed
  <2>2. subs' = subs /\ got'[c] = subs[k] /\ \A d \in made : got'[d] = got[d] /\ pc'[d] = pc[d]
    BY <1>1, <1>2, <1>5 DEF LoadOrStore
  <2>3. OpenIsRegistered'
    BY <1>1, <1>3, <2>1, <2>2 DEF OpenIsRegistered
  <2>4. Registered' = Registered
    BY <2>2 DEF Registered
  <2>5. RegisteredHasOwner'
    BY <1>1, <1>3, <2>2, <2>4 DEF RegisteredHasOwner, CloseOnce
  <2>6. Sharers' = Sharers \cup {c} /\ c \notin Sharers
    BY <1>1, <2>1, <2>2 DEF Sharers
  <2>7. IsFiniteSet(Sharers') /\ Cardinality(Sharers') = Cardinality(Sharers) + 1
    BY <1>3, <2>6, FS_AddElement
  <2>8. WaitGroupAccounting'
    BY <1>1, <1>2, <1>3, <2>4, <2>7 DEF WaitGroupAccounting
  <2> QED BY <1>4, <2>3, <2>5, <2>7, <2>8 DEF TableInv
<1>6. CASE ~Subscribed(k)
  <2>1. subs'[k] = c /\ got'[c] = c /\ \A l \in Keys : l # k => subs'[l] = subs[l]
    BY <1>1, <1>2, <1>6 DEF LoadOrStore
  <2>2. \A d \in made : got'[d] = got[d] /\ pc'[d] = pc[d]
    BY <1>1, <1>2
  <2>3. OpenIsRegistered'
    BY <1>1, <1>2, <1>3, <1>6, <2>1, <2>2 DEF OpenIsRegistered, Subscribed
  <2>4. Registered' = Registered \cup {k} /\ k \notin Registered
    BY <1>1, <1>2, <1>6, <2>1 DEF Registered, Subscribed
  <2>5. RegisteredHasOwner'
    BY <1>1, <1>2, <1>3, <2>1, <2>2, <2>4 DEF RegisteredHasOwner, CloseOnce
  <2>6. Sharers' = Sharers
    BY <1>1, <2>1, <2>2 DEF Sharers
  <2>7. IsFiniteSet(Registered') /\ Cardinality(Registered') = Cardinality(Registered) + 1
    BY <1>3, <2>4, FS_AddElement
  <2>8. WaitGroupAccounting'
    BY <1>1, <1>2, <1>3, <2>6, <2>7 DEF WaitGroupAccounting
  <2> QED BY <1>3, <1>4, <2>3, <2>5, <2>6, <2>8 DEF TableInv
<1> QED BY <1>5, <1>6

(* Unsubscribe, by its owner or by anybody else: the key goes, its channel *)
(* is closed, and so nobody is left who has that channel open.             *)
LEMMA UnsubscribeStep ==
    ASSUME SubscriberInv, NEW c \in Calls, DoUnsubscribe(c)
    PROVE  TableInv'
<1> DEFINE k == key[c]
<1> USE NoChanAssumption
<1>1. /\ pc[c] = "unsubscribe" /\ k \in Keys /\ key' = key /\ got' = got
      /\ pc' = [pc EXCEPT ![c] = "done"]
  BY DEF DoUnsubscribe, SubscriberInv, SubscriberTypeOK
<1>2. /\ subs \in [Keys -> Calls \cup {NoChan}] /\ made \subseteq Calls /\ wg \in Nat
      /\ pc \in [Calls -> {"idle", "check", "subscribe", "running", "unsubscribe", "done"}]
  BY DEF SubscriberInv, ManagerInv, ManagerTypeOK, SubscriberTypeOK
<1>3. /\ Joined /\ OpenIsRegistered /\ RegisteredHasOwner /\ CloseOnce
      /\ IsFiniteSet(Registered) /\ Cardinality(Registered) \in Nat
      /\ IsFiniteSet(Sharers) /\ Cardinality(Sharers) \in Nat
      /\ WaitGroupAccounting
  BY FS_CardinalityType DEF SubscriberInv, ManagerInv, TableInv
<1>4. CASE UnsubscribeFinds(k)
  <2>1. /\ k \in Registered /\ made' = made /\ closed' = closed \cup {subs[k]} /\ wg' = wg - 1
        /\ subs' = [subs EXCEPT ![k] = NoChan]
    BY <1>1, <1>4 DEF UnsubscribeFinds, Done, Registered, Subscribed
  <2>2. Registered' = Registered \ {k} /\ Sharers' = Sharers
    BY <1>1, <1>2, <2>1 DEF Registered, Sharers
  <2>3. Joined'
    BY <1>1, <1>2, <1>3, <2>1 DEF Joined
  <2>4. OpenIsRegistered'
    BY <1>1, <1>2, <1>3, <2>1 DEF OpenIsRegistered
  <2>5. RegisteredHasOwner'
    BY <1>1, <1>2, <1>3, <2>1, <2>2 DEF RegisteredHasOwner, CloseOnce, Registered
  <2>6. Cardinality(Registered') = Cardinality(Registered) - 1
    BY <1>3, <2>1, <2>2, FS_RemoveElement
  <2>7. WaitGroupAccounting'
    BY <1>2, <1>3, <2>1, <2>2, <2>6 DEF WaitGroupAccounting
  <2> QED BY <1>3, <2>2, <2>3, <2>4, <2>5, <2>7 DEF TableInv
<1>5. CASE UnsubscribeMisses(k)
  <2>1. k \notin Registered /\ UNCHANGED <<subs, made, closed, wg>>
    BY <1>5 DEF UnsubscribeMisses, Registered, Subscribed, managerVars
  <2>2. Registered' = Registered /\ Sharers' = Sharers
    BY <1>1, <2>1 DEF Registered, Sharers
  <2>3. Joined' /\ OpenIsRegistered'
    BY <1>1, <1>2, <1>3, <2>1 DEF Joined, OpenIsRegistered
  <2>4. RegisteredHasOwner'
    BY <1>1, <1>2, <1>3, <2>1, <2>2 DEF RegisteredHasOwner, CloseOnce
  <2> QED BY <1>3, <2>1, <2>2, <2>3, <2>4 DEF TableInv, WaitGroupAccounting
<1> QED BY <1>4, <1>5 DEF DoUnsubscribe, Unsubscribe

(* A new call has a new key, and nothing in the table.                     *)
LEMMA StartStep ==
    ASSUME SubscriberInv, NEW c \in Calls, NEW k \in Keys, NEW m,
           Start(c, m, k) \/ StartUnwatch(c, k)
    PROVE  TableInv'
<1>1. /\ pc[c] = "idle" /\ UNCHANGED <<subs, made, closed, wg, got>>
      /\ key' = [key EXCEPT ![c] = k]
      /\ \E p \in {"check", "unsubscribe"} : pc' = [pc EXCEPT ![c] = p]
  BY DEF Start, StartUnwatch, managerVars
<1>2. /\ made \subseteq Calls /\ key \in [Calls -> Keys]
      /\ pc \in [Calls -> {"idle", "check", "subscribe", "running", "unsubscribe", "done"}]
  BY DEF SubscriberInv, ManagerInv, ManagerTypeOK, SubscriberTypeOK
<1>3. Joined /\ OpenIsRegistered /\ RegisteredHasOwner /\ CloseOnce
  BY DEF SubscriberInv, ManagerInv, TableInv
<1>4. Registered' = Registered /\ Sharers' = Sharers
  BY <1>1 DEF Registered, Sharers
<1>5. c \notin made /\ \A d \in made : key'[d] = key[d] /\ pc'[d] = pc[d]
  BY <1>1, <1>2, <1>3 DEF Joined
<1>6. Joined'
  BY <1>1, <1>2, <1>3, <1>5 DEF Joined
<1>7. OpenIsRegistered'
  BY <1>1, <1>3, <1>5 DEF OpenIsRegistered
<1>8. RegisteredHasOwner'
  BY <1>1, <1>3, <1>4, <1>5 DEF RegisteredHasOwner, CloseOnce
<1> QED BY <1>1, <1>4, <1>6, <1>7, <1>8 DEF SubscriberInv, TableInv, WaitGroupAccounting

(* A step of a task, which moves no call but its own, and that one only to *)
(* its Unsubscribe.                                                        *)
TaskOnly(c) ==
    /\ UNCHANGED <<managerVars, key, got>>
    /\ pc' \in {pc, [pc EXCEPT ![c] = "unsubscribe"]}

LEMMA TaskSteps ==
    ASSUME NEW c \in Calls,
           \/ WorkerTop(c) \/ TaskFails(c) \/ StreamOpens(c)
           \/ \E n \in 0..Batch : TaskAnswers(c, n)
           \/ Tick(c) \/ CollectStarts(c) \/ \E n \in {0, 1} : CollectReturns(c, n)
           \/ Cancel(c) \/ Recheck(c) \/ SendError(c) \/ Reply(c)
    PROVE  TaskOnly(c)
<1>1. ASSUME Exit(c) PROVE pc' \in {pc, [pc EXCEPT ![c] = "unsubscribe"]}
  BY <1>1 DEF Exit
<1>2. ASSUME NEW step, GoTo(c, step) PROVE pc' = pc
  BY <1>2 DEF GoTo
<1>3. ASSUME NextRound(c) PROVE pc' \in {pc, [pc EXCEPT ![c] = "unsubscribe"]}
  BY <1>1, <1>2, <1>3 DEF NextRound
<1>4. CASE WorkerTop(c) \/ Cancel(c) \/ SendError(c)
  BY <1>1, <1>2, <1>4 DEF WorkerTop, Cancel, SendError, TaskOnly
<1>5. CASE \/ TaskFails(c) \/ StreamOpens(c) \/ \E n \in 0..Batch : TaskAnswers(c, n)
           \/ Tick(c) \/ CollectStarts(c) \/ \E n \in {0, 1} : CollectReturns(c, n)
  BY <1>2, <1>5 DEF TaskFails, StreamOpens, TaskAnswers, Tick, CollectStarts, CollectReturns,
                    TaskOnly
<1>6. CASE Recheck(c)
  BY <1>1, <1>2, <1>3, <1>6 DEF Recheck, TaskOnly
<1>7. CASE Reply(c)
  BY <1>3, <1>7 DEF Reply, TaskOnly
<1> QED BY <1>4, <1>5, <1>6, <1>7

LEMMA TableStep ==
    ASSUME SubscriberInv, [SubscriberNext]_subscriberVars
    PROVE  TableInv'
<1>1. pc \in [Calls -> {"idle", "check", "subscribe", "running", "unsubscribe", "done"}]
  BY DEF SubscriberInv, SubscriberTypeOK
<1>2. ASSUME NEW c \in Calls, NEW k \in Keys,
             StartUnwatch(c, k) \/ \E m \in Modes[k] : Start(c, m, k)
      PROVE  TableInv'
  BY <1>2, StartStep
<1>3. ASSUME NEW c \in Calls, CallStep(c)
      PROVE  TableInv'
  <2>1. CASE Check(c) \/ Stop(c)
    BY <1>1, <2>1, QuietStep DEF Check, Stop, managerVars
  <2>2. CASE DoSubscribe(c)
    BY <2>2, SubscribeStep
  <2>3. CASE DoUnsubscribe(c)
    BY <2>3, UnsubscribeStep
  <2>4. CASE TaskOnly(c)
    BY <1>1, <2>4, QuietStep DEF TaskOnly, managerVars
  <2> QED BY <1>3, <2>1, <2>2, <2>3, <2>4, TaskSteps DEF CallStep
<1>4. CASE /\ Drain \/ Refuse \/ Destroy \/ HandleWait \/ HandleReturns \/ UNCHANGED subscriberVars
  <2>1. UNCHANGED <<subs, made, closed, wg, got, key, pc>>
    BY <1>4 DEF Drain, Refuse, Destroy, HandleWait, HandleReturns, Wait, WaitReturns,
                managerVars, taskVars, subscriberVars
  <2> QED BY <2>1, QuietStep
<1> QED BY <1>2, <1>3, <1>4 DEF SubscriberNext

LEMMA SubscriberStepInv ==
    SubscriberInv /\ [SubscriberNext]_subscriberVars => SubscriberInv'
<1> SUFFICES ASSUME SubscriberInv, [SubscriberNext]_subscriberVars PROVE SubscriberInv'
  OBVIOUS
<1>1. ManagerInv'
  BY StepOfManager, ManagerStepInv DEF SubscriberInv
<1>2. SubscriberTypeOK' /\ Replying'
  BY TypeStep DEF SubscriberInv, ManagerInv
<1> QED BY <1>1, <1>2, TableStep DEF SubscriberInv

THEOREM SubscriberInvariant == SubscriberSpec => []SubscriberInv
<1> QED BY SubscriberInitInv, SubscriberStepInv, PTL DEF SubscriberSpec

(* The variables keep their types. *)
THEOREM SubscriberTypeCorrect == SubscriberSpec => []SubscriberTypeOK
<1>1. SubscriberInv => SubscriberTypeOK
  BY DEF SubscriberInv
<1> QED BY <1>1, SubscriberInvariant, PTL

(* No Unsubscribe leaves a task behind that will never hear of it.         *)
THEOREM NobodyOrphaned == SubscriberSpec => []NoOrphan
<1>1. SubscriberInv => NoOrphan
  BY DEF SubscriberInv, TableInv, Joined, OpenIsRegistered, NoOrphan, Live
<1> QED BY <1>1, SubscriberInvariant, PTL

(* Every key in the table has an owner that is still to remove it.         *)
THEOREM KeysAreOwned == SubscriberSpec => []RegisteredHasOwner
<1>1. SubscriberInv => RegisteredHasOwner
  BY DEF SubscriberInv, TableInv
<1> QED BY <1>1, SubscriberInvariant, PTL

(* A parked Handle is owed an Unsubscribe by the owner of some key, unless *)
(* two calls share a subscription: the counter it waits for is the number  *)
(* of keys then, and each has its owner.                                   *)
THEOREM ReleasesAreOwed == SubscriberSpec => []ReleaseIsOwed
<1>1. SubscriberInv => ReleaseIsOwed
  <2> SUFFICES ASSUME SubscriberInv, waiter = "parked", Sharers = {}
               PROVE  \E k \in Registered :
                         got[subs[k]] = subs[k] /\ pc[subs[k]] \in {"running", "unsubscribe"}
    BY DEF ReleaseIsOwed
  <2>1. wg > 0 /\ wg = Cardinality(Registered) + Cardinality(Sharers)
    BY DEF SubscriberInv, ManagerInv, ParkedAboveZero, TableInv, WaitGroupAccounting
  <2>2. Cardinality({}) = 0
    BY FS_EmptySet
  <2>3. Registered # {}
    <3> SUFFICES ASSUME Registered = {} PROVE FALSE
      OBVIOUS
    <3> QED BY <2>1, <2>2
  <2> QED BY <2>3 DEF SubscriberInv, TableInv, RegisteredHasOwner
<1> QED BY <1>1, SubscriberInvariant, PTL

(* The counter is the number of keys plus the number of calls that share.  *)
THEOREM CounterIsAccounted == SubscriberSpec => []WaitGroupAccounting
<1>1. SubscriberInv => WaitGroupAccounting
  BY DEF SubscriberInv, TableInv
<1> QED BY <1>1, SubscriberInvariant, PTL

(* The goroutines keep to the specification of the Manager.                *)
THEOREM UsesManager == SubscriberSpec => ManagerSpec
<1>1. SubscriberInit => ManagerInit
  BY DEF SubscriberInit
<1>2. SubscriberInv /\ [SubscriberNext]_subscriberVars => [ManagerNext]_managerVars
  BY StepOfManager DEF SubscriberInv
<1> QED BY <1>1, <1>2, SubscriberInvariant, PTL DEF SubscriberSpec, ManagerSpec

-----------------------------------------------------------------------------

LEMMA OnKey ==
    SubscriberInv => \A k \in Keys : Promise!On(k) = {c \in made : key[c] = k}
  BY DEF Promise!On, SubscriberInv, ManagerInv, ManagerTypeOK

(* A call that subscribes joins the tasks under its key, open.             *)
LEMMA PromiseJoin ==
    ASSUME SubscriberInv, NEW c \in Calls, DoSubscribe(c)
    PROVE  Promise!Join(c, key[c])
<1> DEFINE k == key[c]
<1>1. /\ c \notin made /\ k \in Keys /\ made' = made \cup {c} /\ closed' = closed
      /\ key' = key /\ waiter' = waiter /\ got' = [got EXCEPT ![c] = LoadOrStore(k, c)]
      /\ made \subseteq Calls /\ closed \subseteq made /\ CloseOnce
      /\ got \in [Calls -> Calls \cup {NoChan}] /\ subs \in [Keys -> Calls \cup {NoChan}]
  BY DEF DoSubscribe, Subscribe, SubscriberInv, SubscriberTypeOK, ManagerInv, ManagerTypeOK
<1>2. \A l \in Keys : c \notin Promise!On(l)
  BY <1>1, OnKey
<1>3. {<<d, key[d]>> : d \in made}' = {<<d, key[d]>> : d \in made} \cup {<<c, k>>}
  BY <1>1
<1>4. LoadOrStore(k, c) \notin closed
  BY <1>1 DEF LoadOrStore, Subscribed, Registered, CloseOnce
<1>5. {d \in made : got[d] \in closed}' = {d \in made : got[d] \in closed}
  BY <1>1, <1>4
<1> QED BY <1>1, <1>2, <1>3, <1>5 DEF Promise!Join

(* An Unsubscribe that finds its key ends that key: the channel it closes  *)
(* is the one that every call under the key has, and no other call.        *)
LEMMA PromiseEndKey ==
    ASSUME SubscriberInv, NEW c \in Calls, DoUnsubscribe(c), UnsubscribeFinds(key[c])
    PROVE  Promise!EndKey(key[c])
<1> DEFINE k == key[c]
<1>1. /\ k \in Registered /\ made' = made /\ key' = key /\ got' = got
      /\ closed' = closed \cup {subs[k]} /\ made \subseteq Calls
      /\ (waiter' = "returned") = (waiter = "returned")
      /\ k \in Keys /\ key \in [Calls -> Keys]
  BY DEF DoUnsubscribe, UnsubscribeFinds, Done, Registered, Subscribed, SubscriberInv,
         SubscriberTypeOK, ManagerInv, ManagerTypeOK
<1>2. \A d \in made : got[d] \notin closed => (got[d] = subs[k] <=> key[d] = k)
  <2> SUFFICES ASSUME NEW d \in made, got[d] \notin closed
               PROVE  got[d] = subs[k] <=> key[d] = k
    OBVIOUS
  <2>1. subs[key[d]] = got[d] /\ got[d] \in Calls /\ key[d] \in Keys
    BY <1>1 DEF SubscriberInv, TableInv, OpenIsRegistered, ManagerInv, ManagerTypeOK
  <2> QED BY <1>1, <2>1, NoChanAssumption DEF CloseOnce, Registered, SubscriberInv, ManagerInv
<1>3. {d \in made : got[d] \in closed}'
        = {d \in made : got[d] \in closed} \cup {d \in made : key[d] = k}
  <2>1. \A d \in made : key[d] = k => got[d] \in closed \cup {subs[k]}
    BY <1>2
  <2> QED BY <1>1, <1>2, <2>1
<1> QED BY <1>1, <1>3, OnKey DEF Promise!EndKey

(* Wait returns on a counter of 0 only, when no key is left, and so no     *)
(* call with an open channel.                                              *)
LEMMA PromiseRelease ==
    ASSUME SubscriberInv, HandleWait \/ HandleReturns, waiter' = "returned"
    PROVE  Promise!Release
<1>1. wg = 0 /\ UNCHANGED <<made, closed, got, key>>
  BY DEF HandleWait, HandleReturns, Wait, WaitReturns, taskVars
<1>2. Registered = {}
  BY <1>1, FS_EmptySet, FS_CardinalityType DEF SubscriberInv, ManagerInv, WaitGroupCovers
<1>3. \A d \in made : got[d] \in closed
  <2> SUFFICES ASSUME NEW d \in made, got[d] \notin closed PROVE FALSE
    OBVIOUS
  <2>1. subs[key[d]] = got[d] /\ got[d] \in made /\ made \subseteq Calls /\ key[d] \in Keys
    BY DEF SubscriberInv, TableInv, OpenIsRegistered, ManagerInv, ManagerTypeOK, SubscriberTypeOK
  <2> QED BY <1>2, <2>1, NoChanAssumption DEF Registered
<1> QED BY <1>1, <1>3, OnKey DEF Promise!Release

LEMMA PromiseStep ==
    ASSUME SubscriberInv, [SubscriberNext]_subscriberVars
    PROVE  [Promise!TasksNext]_(Promise!tasksVars)
<1> DEFINE Stutters == UNCHANGED <<made, closed, got>> /\ (\A d \in made : key'[d] = key[d])
                       /\ (waiter' = "returned") = (waiter = "returned")
<1>1. ASSUME Stutters PROVE UNCHANGED Promise!tasksVars
  BY <1>1 DEF Promise!tasksVars
<1>2. ASSUME NEW c \in Calls, CallStep(c) PROVE [Promise!TasksNext]_(Promise!tasksVars)
  <2>1. key[c] \in Keys
    BY DEF SubscriberInv, SubscriberTypeOK
  <2>2. CASE DoSubscribe(c)
    <3>1. Promise!Join(c, key[c])
      BY <2>2, PromiseJoin
    <3> QED BY <2>1, <3>1 DEF Promise!TasksNext, Promise!Join
  <2>3. CASE DoUnsubscribe(c)
    <3>1. CASE UnsubscribeFinds(key[c])
      <4>1. Promise!EndKey(key[c])
        BY <2>3, <3>1, PromiseEndKey
      <4> QED BY <2>1, <4>1 DEF Promise!TasksNext, Promise!EndKey
    <3>2. CASE UnsubscribeMisses(key[c])
      BY <1>1, <2>3, <3>2 DEF DoUnsubscribe, UnsubscribeMisses, managerVars
    <3> QED BY <2>3, <3>1, <3>2 DEF DoUnsubscribe, Unsubscribe
  <2>4. CASE Check(c) \/ Stop(c) \/ TaskOnly(c)
    BY <1>1, <2>4 DEF Check, Stop, TaskOnly, managerVars
  <2> QED BY <1>2, <2>2, <2>3, <2>4, TaskSteps DEF CallStep
<1>3. CASE HandleWait \/ HandleReturns
  <2>1. CASE waiter' = "returned"
    BY <1>3, <2>1, PromiseRelease DEF Promise!TasksNext
  <2>2. CASE waiter' # "returned"
    <3>1. waiter # "returned" /\ UNCHANGED <<made, closed, got, key>>
      BY <1>3 DEF HandleWait, HandleReturns, Wait, WaitReturns, taskVars
    <3> QED BY <1>1, <2>2, <3>1
  <2> QED BY <2>1, <2>2
<1>4. ASSUME NEW c \in Calls, NEW k \in Keys,
             StartUnwatch(c, k) \/ \E m \in Modes[k] : Start(c, m, k)
      PROVE  UNCHANGED Promise!tasksVars
  <2>1. c \notin made /\ made \subseteq Calls /\ key' = [key EXCEPT ![c] = k]
        /\ key \in [Calls -> Keys]
    BY <1>4 DEF Start, StartUnwatch, SubscriberInv, TableInv, Joined, ManagerInv,
                ManagerTypeOK, SubscriberTypeOK
  <2>2. \A d \in made : key'[d] = key[d]
    BY <2>1
  <2> QED BY <1>1, <1>4, <2>2 DEF Start, StartUnwatch, managerVars
<1>5. CASE Drain \/ Refuse \/ Destroy \/ UNCHANGED subscriberVars
  BY <1>1, <1>5 DEF Drain, Refuse, Destroy, managerVars, taskVars, subscriberVars
<1> QED BY <1>2, <1>3, <1>4, <1>5 DEF SubscriberNext

(* The table, the channels and the counter implement module Tasks: ending  *)
(* a key stops the tasks under it and no others, and the connection is     *)
(* released only when every task that has joined has been stopped.         *)
THEOREM SubscriberKeepsPromise == SubscriberSpec => KeepsPromise
<1>1. SubscriberInit => Promise!TasksInit
  BY DEF SubscriberInit, ManagerInit, Promise!TasksInit
<1>2. SubscriberInv /\ [SubscriberNext]_subscriberVars => [Promise!TasksNext]_(Promise!tasksVars)
  BY PromiseStep
<1> QED BY <1>1, <1>2, SubscriberInvariant, PTL
        DEF SubscriberSpec, KeepsPromise, Promise!TasksSpec

-----------------------------------------------------------------------------
(* The connection. *)

LEMMA StepOfSubscriber ==
    [ConnectionNext]_connectionVars => [SubscriberNext]_subscriberVars
<1> SUFFICES ASSUME [ConnectionNext]_connectionVars PROVE [SubscriberNext]_subscriberVars
  OBVIOUS
<1>1. ASSUME NEW c \in Calls, NEW k \in Keys,
             ReadUnwatch(c, k) \/ \E m \in Modes[k] : ReadTask(c, m, k)
      PROVE  SubscriberNext
  BY <1>1 DEF ReadUnwatch, ReadTask, SubscriberNext
<1>2. ASSUME NEW c \in Calls, TaskStep(c) PROVE SubscriberNext
  BY <1>2 DEF TaskStep, SubscriberNext
<1>3. CASE SendRefusal \/ CloseDestroyCh \/ WaitForSubscriptions \/ PumpTakes
  BY <1>3 DEF SendRefusal, CloseDestroyCh, WaitForSubscriptions, PumpTakes, SubscriberNext
<1>4. CASE \/ \E k \in Keys : ReadRefused(k)
           \/ ReadFails \/ CloseSocket \/ BrowserLeaves
           \/ PumpStops \/ WriteSucceeds \/ WriteFails \/ UNCHANGED connectionVars
  BY <1>4 DEF ReadRefused, ReadFails, CloseSocket, BrowserLeaves, PumpStops, WriteSucceeds,
              WriteFails, connectionVars
<1> QED BY <1>1, <1>2, <1>3, <1>4 DEF ConnectionNext

(* A connection is a client of module Subscriber. *)
THEOREM ConnectionUsesSubscriber == ConnectionSpec => SubscriberSpec
<1>1. ConnectionInit => SubscriberInit
  BY DEF ConnectionInit
<1> QED BY <1>1, StepOfSubscriber, PTL DEF ConnectionSpec, SubscriberSpec

(* Whatever the browser asks for, reads or fails to read, the promise of   *)
(* module Tasks is kept on every connection.                               *)
THEOREM ConnectionKeepsPromise == ConnectionSpec => KeepsPromise
<1> QED BY ConnectionUsesSubscriber, SubscriberKeepsPromise

(* The variables keep their types. *)
THEOREM ConnectionTypeCorrect == ConnectionSpec => []ConnectionTypeOK
<1>1. ConnectionInit => ConnectionTypeOK
  BY DEF ConnectionInit, ConnectionTypeOK
<1>2. ConnectionTypeOK /\ [ConnectionNext]_connectionVars => ConnectionTypeOK'
  <2> SUFFICES ASSUME ConnectionTypeOK, [ConnectionNext]_connectionVars
               PROVE  ConnectionTypeOK'
    OBVIOUS
  <2> USE DEF ConnectionTypeOK
  <2>1. ASSUME NEW c \in Calls, NEW k \in Keys, ReadUnwatch(c, k)
        PROVE  ConnectionTypeOK'
    BY <2>1 DEF ReadUnwatch
  <2>2. ASSUME NEW c \in Calls, NEW k \in Keys, NEW m \in Modes[k], ReadTask(c, m, k)
        PROVE  ConnectionTypeOK'
    <3>1. m \in {"watch", "once", "stream"}
      BY SubscriberAssumption
    <3> QED BY <2>2, <3>1 DEF ReadTask
  <2>3. ASSUME NEW c \in Calls, TaskStep(c) PROVE ConnectionTypeOK'
    BY <2>3 DEF TaskStep, handleVars
  <2>4. CASE \/ \E k \in Keys : ReadRefused(k)
             \/ SendRefusal \/ ReadFails \/ CloseSocket \/ CloseDestroyCh
             \/ WaitForSubscriptions \/ BrowserLeaves
    BY <2>4 DEF ReadRefused, SendRefusal, ReadFails, CloseSocket, CloseDestroyCh,
                WaitForSubscriptions, BrowserLeaves, handleVars
  <2>5. CASE PumpTakes \/ PumpStops \/ WriteSucceeds \/ WriteFails \/ UNCHANGED connectionVars
    BY <2>5 DEF PumpTakes, PumpStops, WriteSucceeds, WriteFails, connectionVars, handleVars
  <2> QED BY <2>1, <2>2, <2>3, <2>4, <2>5 DEF ConnectionNext
<1> QED BY <1>1, <1>2, PTL DEF ConnectionSpec
=============================================================================
