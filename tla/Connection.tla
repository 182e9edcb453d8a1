----------------------------- MODULE Connection ------------------------------
(***************************************************************************)
(* One browser connection: backend/connection.go.                          *)
(*                                                                         *)
(* Handle runs readPump, which turns every message of the browser into a   *)
(* goroutine of module Subscriber (or refuses it); writePump takes the     *)
(* answers from sendCh to the socket.  When reading fails, Handle closes   *)
(* the socket and destroyCh and waits for the subscriptions.               *)
(*                                                                         *)
(* A message is the key it names and what it asks for; the socket is open  *)
(* or closed.  subscriptionPublisher only logs, and is left out.           *)
(***************************************************************************)
EXTENDS Subscriber

CONSTANTS
    Mutable,            \* the keys of tasks whose IsMutable() is true
    Backend,            \* [Keys -> {"nomad", "consul"}]: BackendType()
    NomadReadOnly, ConsulReadOnly

ASSUME ConnectionAssumption ==
    /\ Mutable \subseteq Keys
    /\ Backend \in [Keys -> {"nomad", "consul"}]
    /\ {NomadReadOnly, ConsulReadOnly} \subseteq BOOLEAN

VARIABLES
    handle,     \* where Handle is, readPump and process included
    pump,       \* where writePump is
    socket,     \* "open" or "closed"
    asked       \* history: what the browser asked for last under each key

handleVars == <<handle, pump, socket, asked>>
connectionVars == <<subscriberVars, handleVars>>

ReadOnly(k) ==
    /\ k \in Mutable
    /\ \/ NomadReadOnly /\ Backend[k] = "nomad"
       \/ ConsulReadOnly /\ Backend[k] = "consul"

ConnectionInit ==
    /\ SubscriberInit
    /\ handle = "read"
    /\ pump = "select"
    /\ socket = "open"
    /\ asked = [k \in Keys |-> "nothing"]

(* readPump reads a message, and process starts its goroutine.             *)
ReadTask(c, m, k) ==
    /\ handle = "read" /\ socket = "open"
    /\ ~ReadOnly(k)
    /\ Start(c, m, k)
    /\ asked' = IF m = "once" THEN asked ELSE [asked EXCEPT ![k] = m]
    /\ UNCHANGED <<handle, pump, socket>>

ReadUnwatch(c, k) ==
    /\ handle = "read" /\ socket = "open"
    /\ StartUnwatch(c, k)
    /\ asked' = [asked EXCEPT ![k] = "unwatch"]
    /\ UNCHANGED <<handle, pump, socket>>

(* The read-only check of watch, once and stream comes before go, so the   *)
(* refusal is sent by readPump itself.                                     *)
ReadRefused(k) ==
    /\ handle = "read" /\ socket = "open"
    /\ ReadOnly(k) /\ Modes[k] # {}
    /\ handle' = "refuse"
    /\ UNCHANGED <<subscriberVars, pump, socket, asked>>

SendRefusal ==
    /\ handle = "refuse"
    /\ Refuse
    /\ handle' = "read"
    /\ UNCHANGED <<pump, socket, asked>>

(* ReadJSON fails: the socket is closed, or the message is not an Action.  *)
ReadFails ==
    /\ handle = "read"
    /\ handle' = "close"
    /\ UNCHANGED <<subscriberVars, pump, socket, asked>>

CloseSocket ==
    /\ handle = "close"
    /\ socket' = "closed"
    /\ handle' = "destroy"
    /\ UNCHANGED <<subscriberVars, pump, asked>>

CloseDestroyCh ==
    /\ handle = "destroy"
    /\ Destroy
    /\ handle' = "wait"
    /\ UNCHANGED <<pump, socket, asked>>

(* Faulty variant: Handle returns at once.                                 *)
ReturnUnwaited ==
    /\ handle = "wait" /\ waiter = "none"
    /\ waiter' = "returned"
    /\ UNCHANGED <<subs, made, closed, wg, taskVars, handleVars>>

WaitForSubscriptions ==
    /\ handle = "wait"
    /\ HandleWait \/ HandleReturns
    /\ UNCHANGED handleVars

(* The browser goes away. *)
BrowserLeaves ==
    /\ socket = "open"
    /\ socket' = "closed"
    /\ UNCHANGED <<subscriberVars, handle, pump, asked>>

-----------------------------------------------------------------------------

(* The select of writePump: with both channels ready it takes either case. *)
PumpTakes ==
    /\ pump = "select"
    /\ Drain
    /\ pump' = "write"
    /\ UNCHANGED <<handle, socket, asked>>

PumpStops ==
    /\ pump = "select"
    /\ destroyed
    /\ pump' = "stopped"
    /\ UNCHANGED <<subscriberVars, handle, socket, asked>>

WriteSucceeds ==
    /\ pump = "write" /\ socket = "open"
    /\ pump' = "select"
    /\ UNCHANGED <<subscriberVars, handle, socket, asked>>

(* WriteJSON fails, also when the socket is open (a payload that cannot be *)
(* encoded): writePump returns, and nothing else learns of it.             *)
WriteFails ==
    /\ pump = "write"
    /\ pump' = "stopped"
    /\ UNCHANGED <<subscriberVars, handle, socket, asked>>

TaskStep(c) == CallStep(c) /\ UNCHANGED handleVars

ConnectionNext ==
    \/ \E c \in Calls, k \in Keys :
          ReadUnwatch(c, k) \/ \E m \in Modes[k] : ReadTask(c, m, k)
    \/ \E k \in Keys : ReadRefused(k)
    \/ SendRefusal \/ ReadFails \/ CloseSocket \/ CloseDestroyCh
    \/ WaitForSubscriptions \/ BrowserLeaves
    \/ PumpTakes \/ PumpStops \/ WriteSucceeds \/ WriteFails
    \/ \E c \in Calls : TaskStep(c)

ConnectionSpec == ConnectionInit /\ [][ConnectionNext]_connectionVars

-----------------------------------------------------------------------------
(***************************************************************************)
(* Fairness, one condition per goroutine: it goes on when it can.  A       *)
(* blocked sender is served in FIFO order by the channel, so it is not     *)
(* overtaken for ever (SF); a select with several ready cases picks one at *)
(* random, so it does not ignore a closed channel for ever (SF, for the    *)
(* loop of a stream and for writePump).  A task's request returns, with an *)
(* answer or an error, and so does a collection of the cluster statistics  *)
(* during which nobody unwatches it (ClusterStats!CollectionCompletes);    *)
(* one that is unwatched may return or not.  Nothing is assumed of the     *)
(* browser or of a write to an open socket; on a closed one it fails.  Nor *)
(* is a ticker assumed to fire.                                            *)
(***************************************************************************)
MainStep(c) == Check(c) \/ DoSubscribe(c) \/ Stop(c) \/ DoUnsubscribe(c)

RequestReturns(c) ==
    /\ run[c] = "do"
    /\ TaskFails(c) \/ StreamOpens(c) \/ \E n \in 0..Batch : TaskAnswers(c, n)

CollectionReturns(c) == got[c] \notin closed /\ \E n \in {0, 1} : CollectReturns(c, n)

WorkerStep(c) ==
    \/ WorkerTop(c) \/ RequestReturns(c) \/ CollectionReturns(c)
    \/ Recheck(c) \/ SendError(c) \/ Reply(c)

HandleStep ==
    \/ socket = "closed" /\ ReadFails
    \/ CloseSocket \/ CloseDestroyCh \/ WaitForSubscriptions

Fairness ==
    /\ \A c \in Calls :
        /\ WF_connectionVars(MainStep(c) /\ UNCHANGED handleVars)
        /\ SF_connectionVars(WorkerStep(c) /\ UNCHANGED handleVars)
        /\ SF_connectionVars(Cancel(c) /\ UNCHANGED handleVars)
    /\ WF_connectionVars(HandleStep)
    /\ SF_connectionVars(SendRefusal)
    /\ WF_connectionVars(PumpTakes \/ (socket = "closed" /\ WriteFails))
    /\ SF_connectionVars(PumpStops)

-----------------------------------------------------------------------------

(* The variables have their types. *)
ConnectionTypeOK ==
    /\ handle \in {"read", "refuse", "close", "destroy", "wait"}
    /\ pump \in {"select", "write", "stopped"}
    /\ socket \in {"open", "closed"}
    /\ asked \in [Keys -> {"nothing", "watch", "stream", "unwatch"}]

Ended == waiter \in {"returned", "panicked"}

(* Room in sendCh again and again: what the browser has to give for the    *)
(* liveness below, by reading its socket.                                  *)
RoomRecurs == []<>(sendLen < SendCap)

(* "unwatch will remove a subscription from the channel, and make sure any *)
(* Go routines running for the subscription will be stopped"               *)
(* (connection.go:487-488): a call whose channel has been closed ends, its *)
(* worker too, as long as sendCh has room again and again.  (A closed      *)
(* channel stays closed and what is over stays over, so []<> says for all  *)
(* calls together what ~> says of each.)  Two do not: the keep-alive does  *)
(* not listen to its channel, and a collection of the cluster statistics   *)
(* that was under way may be waiting for workers that have heard the close *)
(* and left (stats.go:176, 214).                                           *)
ClosedTaskEnds ==
    RoomRecurs =>
        []<>(\A c \in Calls \ {KeepAlive} :
                got[c] \in closed =>
                    (pc[c] = "done" /\ run[c] = "over") \/ run[c] = "collect")

(* When the browser goes, Handle returns, as long as sendCh has room again *)
(* and again and no two calls ended up on one subscription (which, once    *)
(* they have, stays so).                                                   *)
ShutdownUnlessBlocked ==
    RoomRecurs /\ []<>(Sharers = {}) => []<>(socket = "closed" => Ended)

-----------------------------------------------------------------------------
(***************************************************************************)
(* What the repository says of the connection and its code does not do.    *)
(***************************************************************************)

(* No call is on its way into or out of the table.                         *)
Settled ==
    \A c \in Calls : pc[c] \notin {"check", "subscribe", "unsubscribe"}

(* connection.go:487-488, quoted above: once every call has got to where   *)
(* it is going, a key whose last word was UNWATCH has no subscription.     *)
UnwatchedIsGone ==
    Settled /\ ~destroyed =>
        \A k \in Keys : asked[k] = "unwatch" => k \notin Registered
=============================================================================
