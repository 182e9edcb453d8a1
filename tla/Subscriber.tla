----------------------------- MODULE Subscriber ------------------------------
(***************************************************************************)
(* The goroutines of one connection that hold subscriptions:               *)
(* backend/subscriber/functions.go (Watch, Once, Stream, Unwatch) and the  *)
(* keep-alive of backend/connection.go, over the Manager they share and    *)
(* the bounded channel sendCh they all write to.                           *)
(*                                                                         *)
(* A call is one goroutine started by connection.process.  Watch runs its  *)
(* task in a second goroutine; Once, Stream and keepAlive run theirs       *)
(* inline.  pc is where the call itself is, run where its task is.         *)
(*                                                                         *)
(* Abstracted: what a task asks of Nomad or Consul, which is a choice of   *)
(* an error or of a number of answers, and what the answers say; sleeping  *)
(* for ThrottleUpdateDuration, which only delays DoTask; logging.          *)
(***************************************************************************)
EXTENDS Manager

CONSTANTS
    Modes,          \* [Keys -> SUBSET {"watch", "once", "stream"}]: the
                    \* functions connection.process calls with each key
    KeepAlive,      \* the goroutine of connection.keepAlive
    KeepAliveKey,   \* "/internal/keep-alive"
    SendCap,        \* capacity of sendCh (500 in NewConnection)
    Batch,          \* most answers one Do returns
    Collecting      \* the streams whose tick goes round the nodes first
                    \* ("/cluster/stats"); the others send at once

ASSUME SubscriberAssumption ==
    /\ Modes \in [Keys -> SUBSET {"watch", "once", "stream"}]
    /\ KeepAlive \in Calls
    /\ KeepAliveKey \in Keys
    /\ SendCap \in Nat \ {0}
    /\ Batch \in Nat
    /\ Collecting \subseteq Keys

VARIABLES
    mode,       \* what each call is: "none" until it is started
    key,        \* the key of each call
    pc,         \* where each call is
    got,        \* the channel Subscribe returned to each call
    run,        \* where the task of each call is
    todo,       \* answers each task still has to send
    sendLen,    \* actions in sendCh
    destroyed   \* destroyCh is closed

taskVars == <<mode, key, pc, got, run, todo, sendLen, destroyed>>
subscriberVars == <<managerVars, taskVars>>

TaskModes == {"watch", "once", "stream", "keepalive"}

(* Faulty variant: only the end of the connection is heard.                *)
StoppedByDestroy(c) == destroyed

(* The case of a select that waits for the end of the subscription.        *)
(* keepAlive drops the channel and listens to destroyCh alone.             *)
Stopped(c) ==
    \/ destroyed
    \/ mode[c] # "keepalive" /\ got[c] \in closed

-----------------------------------------------------------------------------

SubscriberInit ==
    /\ ManagerInit
    /\ mode = [c \in Calls |-> IF c = KeepAlive THEN "keepalive" ELSE "none"]
    /\ key = [c \in Calls |-> KeepAliveKey]
    /\ pc = [c \in Calls |-> IF c = KeepAlive THEN "subscribe" ELSE "idle"]
    /\ got = [c \in Calls |-> NoChan]
    /\ run = [c \in Calls |-> "off"]
    /\ todo = [c \in Calls |-> 0]
    /\ sendLen = 0
    /\ destroyed = FALSE

(* go subscriber.Watch, Once or Stream.                                    *)
Start(c, m, k) ==
    /\ ~destroyed
    /\ pc[c] = "idle"
    /\ m \in Modes[k]
    /\ mode' = [mode EXCEPT ![c] = m]
    /\ key' = [key EXCEPT ![c] = k]
    /\ pc' = [pc EXCEPT ![c] = "check"]
    /\ UNCHANGED <<managerVars, got, run, todo, sendLen, destroyed>>

(* go subscriber.Unwatch; only the keys of watches and streams have one.   *)
StartUnwatch(c, k) ==
    /\ ~destroyed
    /\ pc[c] = "idle"
    /\ Modes[k] \cap {"watch", "stream"} # {}
    /\ mode' = [mode EXCEPT ![c] = "unwatch"]
    /\ key' = [key EXCEPT ![c] = k]
    /\ pc' = [pc EXCEPT ![c] = "unsubscribe"]
    /\ UNCHANGED <<managerVars, got, run, todo, sendLen, destroyed>>

(* if s.Subscribed(watchKey) { return }, without the mutex.                *)
Check(c) ==
    /\ pc[c] = "check"
    /\ pc' = [pc EXCEPT ![c] = IF Subscribed(key[c]) THEN "done" ELSE "subscribe"]
    /\ UNCHANGED <<managerVars, mode, key, got, run, todo, sendLen, destroyed>>

FirstStep(m) ==
    CASE m = "watch" -> "top" [] m = "keepalive" -> "select" [] OTHER -> "do"

DoSubscribe(c) ==
    /\ pc[c] = "subscribe"
    /\ Subscribe(c, key[c])
    /\ got' = [got EXCEPT ![c] = LoadOrStore(key[c], c)]
    /\ pc' = [pc EXCEPT ![c] = "running"]
    /\ run' = [run EXCEPT ![c] = FirstStep(mode[c])]
    /\ UNCHANGED <<mode, key, todo, sendLen, destroyed>>

(* The outer select of Watch: return, which runs the deferred Unsubscribe, *)
(* whatever the worker is doing.                                           *)
Stop(c) ==
    /\ pc[c] = "running" /\ mode[c] = "watch"
    /\ Stopped(c)
    /\ pc' = [pc EXCEPT ![c] = "unsubscribe"]
    /\ UNCHANGED <<managerVars, mode, key, got, run, todo, sendLen, destroyed>>

(* The deferred Unsubscribe of a task, and the one of Unwatch: by key, so  *)
(* it removes whatever is registered under the key now.                    *)
DoUnsubscribe(c) ==
    /\ pc[c] = "unsubscribe"
    /\ Unsubscribe(key[c])
    /\ pc' = [pc EXCEPT ![c] = "done"]
    /\ UNCHANGED <<mode, key, got, run, todo, sendLen, destroyed>>

-----------------------------------------------------------------------------

(* Faulty variant: a task that returns forgets its Unsubscribe.            *)
ExitSubscribed(c) ==
    /\ run' = [run EXCEPT ![c] = "over"]
    /\ pc' = IF mode[c] = "watch" THEN pc ELSE [pc EXCEPT ![c] = "done"]

(* The task is over: the worker of a Watch ends by itself and leaves the   *)
(* subscription to the outer select, the others return and unsubscribe.    *)
Exit(c) ==
    /\ run' = [run EXCEPT ![c] = "over"]
    /\ pc' = IF mode[c] = "watch" THEN pc ELSE [pc EXCEPT ![c] = "unsubscribe"]

GoTo(c, step) == run' = [run EXCEPT ![c] = step] /\ UNCHANGED pc

(* What follows a batch of answers: the next round, or the end of a Once.  *)
NextRound(c) ==
    CASE mode[c] = "watch" -> GoTo(c, "top")
      [] mode[c] = "once" -> Exit(c)
      [] OTHER -> GoTo(c, "select")

(* The top of the worker's loop in Watch.                                  *)
WorkerTop(c) ==
    /\ run[c] = "top"
    /\ IF Stopped(c) THEN Exit(c) ELSE GoTo(c, "do")
    /\ UNCHANGED <<managerVars, mode, key, got, todo, sendLen, destroyed>>

(* w.Do() returns an error; for a Stream also after its first answers.     *)
TaskFails(c) ==
    /\ \/ run[c] = "do"
       \/ run[c] = "select" /\ mode[c] = "stream"
    /\ GoTo(c, "error")
    /\ UNCHANGED <<managerVars, mode, key, got, todo, sendLen, destroyed>>

(* w.Do() of a Watch or a Once returns n answers.                          *)
TaskAnswers(c, n) ==
    /\ run[c] = "do" /\ mode[c] \in {"watch", "once"}
    /\ todo' = [todo EXCEPT ![c] = n]
    /\ GoTo(c, "recheck")
    /\ UNCHANGED <<managerVars, mode, key, got, sendLen, destroyed>>

(* The Do of a Stream has made its first requests, and enters its loop.    *)
StreamOpens(c) ==
    /\ run[c] = "do" /\ mode[c] = "stream"
    /\ GoTo(c, "select")
    /\ UNCHANGED <<managerVars, mode, key, got, todo, sendLen, destroyed>>

(* A Stream or the keep-alive has something to send: its ticker, or a line *)
(* of a file.  The select may take this case even when the channels of the *)
(* other cases are closed.                                                 *)
Tick(c) ==
    /\ run[c] = "select" /\ key[c] \notin Collecting
    /\ todo' = [todo EXCEPT ![c] = 1]
    /\ GoTo(c, "reply")
    /\ UNCHANGED <<managerVars, mode, key, got, sendLen, destroyed>>

(* The ticker of the cluster statistics starts a collection, inside which  *)
(* Do listens to nothing.                                                  *)
CollectStarts(c) ==
    /\ run[c] = "select" /\ key[c] \in Collecting
    /\ GoTo(c, "collect")
    /\ UNCHANGED <<managerVars, mode, key, got, todo, sendLen, destroyed>>

(* It returns with a report, or with an error, which work drops.  What     *)
(* happens in between, and when it never returns, is module ClusterStats.  *)
CollectReturns(c, n) ==
    /\ run[c] = "collect"
    /\ todo' = [todo EXCEPT ![c] = n]
    /\ GoTo(c, IF n = 0 THEN "select" ELSE "reply")
    /\ UNCHANGED <<managerVars, mode, key, got, sendLen, destroyed>>

(* The select of a Stream or of the keep-alive sees a closed channel.      *)
Cancel(c) ==
    /\ run[c] = "select"
    /\ Stopped(c)
    /\ Exit(c)
    /\ UNCHANGED <<managerVars, mode, key, got, todo, sendLen, destroyed>>

(* if !s.Subscribed(watchKey) { return }, by key: true as well when a      *)
(* newer subscription took the key.                                        *)
Recheck(c) ==
    /\ run[c] = "recheck"
    /\ CASE ~Subscribed(key[c]) -> Exit(c)
         [] todo[c] > 0 -> GoTo(c, "reply")
         [] OTHER -> NextRound(c)
    /\ UNCHANGED <<managerVars, mode, key, got, todo, sendLen, destroyed>>

(* Faulty variant: the channel has no limit.                               *)
SendUnbounded == sendLen' = sendLen + 1

(* sendCh <- action: waits while the channel is full, and for nothing else *)
Send == sendLen < SendCap /\ sendLen' = sendLen + 1

SendError(c) ==
    /\ run[c] = "error"
    /\ Send
    /\ Exit(c)
    /\ UNCHANGED <<managerVars, mode, key, got, todo, destroyed>>

Reply(c) ==
    /\ run[c] = "reply"
    /\ Send
    /\ todo' = [todo EXCEPT ![c] = @ - 1]
    /\ IF todo[c] > 1 THEN UNCHANGED <<run, pc>> ELSE NextRound(c)
    /\ UNCHANGED <<managerVars, mode, key, got, destroyed>>

-----------------------------------------------------------------------------

(* What the rest of the connection does to this component: writePump takes *)
(* an action, Handle closes destroyCh and waits.                           *)
Drain ==
    /\ sendLen > 0
    /\ sendLen' = sendLen - 1
    /\ UNCHANGED <<managerVars, mode, key, pc, got, run, todo, destroyed>>

(* connection.readOnlyError writes to sendCh too.                          *)
Refuse ==
    /\ ~destroyed
    /\ Send
    /\ UNCHANGED <<managerVars, mode, key, pc, got, run, todo, destroyed>>

Destroy ==
    /\ ~destroyed
    /\ destroyed' = TRUE
    /\ UNCHANGED <<managerVars, mode, key, pc, got, run, todo, sendLen>>

HandleWait == destroyed /\ Wait /\ UNCHANGED taskVars

HandleReturns == WaitReturns /\ UNCHANGED taskVars

CallStep(c) ==
    \/ Check(c) \/ DoSubscribe(c) \/ Stop(c) \/ DoUnsubscribe(c)
    \/ WorkerTop(c) \/ TaskFails(c) \/ StreamOpens(c)
    \/ \E n \in 0..Batch : TaskAnswers(c, n)
    \/ Tick(c) \/ CollectStarts(c) \/ \E n \in {0, 1} : CollectReturns(c, n)
    \/ Cancel(c) \/ Recheck(c) \/ SendError(c) \/ Reply(c)

SubscriberNext ==
    \/ \E c \in Calls, k \in Keys :
          StartUnwatch(c, k) \/ \E m \in Modes[k] : Start(c, m, k)
    \/ \E c \in Calls : CallStep(c)
    \/ Drain \/ Refuse \/ Destroy \/ HandleWait \/ HandleReturns

SubscriberSpec == SubscriberInit /\ [][SubscriberNext]_subscriberVars

-----------------------------------------------------------------------------

Steps == {"off", "top", "do", "select", "collect", "recheck", "reply", "error", "over"}

(* The variables have their types. *)
SubscriberTypeOK ==
    /\ mode \in [Calls -> TaskModes \cup {"none", "unwatch"}]
    /\ key \in [Calls -> Keys]
    /\ pc \in [Calls -> {"idle", "check", "subscribe", "running", "unsubscribe", "done"}]
    /\ got \in [Calls -> Calls \cup {NoChan}]
    /\ run \in [Calls -> Steps]
    /\ todo \in [Calls -> 0..(Batch + 1)]
    /\ sendLen \in 0..SendCap
    /\ destroyed \in BOOLEAN

(* The task of c runs, and nothing has told it to stop. *)
Live(c) == pc[c] = "running" /\ got[c] \notin closed

(* A task that has not been told to stop is in the table, under its own    *)
(* key: no Unsubscribe, whoever made it, can take a key out of the table   *)
(* and leave a goroutine behind that will never hear of it.                *)
NoOrphan == \A c \in Calls : Live(c) => subs[key[c]] = got[c]

(* Every key in the table was put there by a call that has not yet run its *)
(* deferred Unsubscribe: the table cannot keep a key that nobody will      *)
(* remove, whoever removes or reuses keys in between.                      *)
RegisteredHasOwner ==
    \A k \in Registered :
        LET c == subs[k] IN
        got[c] = c /\ key[c] = k /\ pc[c] \in {"running", "unsubscribe"}

(* What the WaitGroup counts: the keys in the table, and the calls that    *)
(* found a key taken between their check and their Subscribe, whose own    *)
(* Add(1) no Done will ever match.                                         *)
Sharers == {c \in made : got[c] # c}
WaitGroupAccounting == wg = Cardinality(Registered) + Cardinality(Sharers)

(* A parked Handle has somebody to wait for: an owner of a key, who will   *)
(* still run the Unsubscribe whose Done counts, so that the last of them   *)
(* releases it.  The exception is a connection on which two calls ended up *)
(* on one subscription: the Done that is missing then never comes.         *)
ReleaseIsOwed ==
    waiter = "parked" =>
        \/ Sharers # {}
        \/ \E k \in Registered :
              got[subs[k]] = subs[k] /\ pc[subs[k]] \in {"running", "unsubscribe"}

(* The table, the channels and the counter together keep the promise of    *)
(* module Tasks: a task has joined when its Subscribe returns, is told to  *)
(* stop when the channel it got is closed, and the connection is released  *)
(* when Wait returns.                                                      *)
Promise == INSTANCE Tasks WITH
    under <- {<<c, key[c]>> : c \in made},
    stopped <- {c \in made : got[c] \in closed},
    released <- waiter = "returned"
KeepsPromise == Promise!TasksSpec
=============================================================================
