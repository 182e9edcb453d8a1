------------------------------- MODULE Manager -------------------------------
(***************************************************************************)
(* The subscription table of one browser connection:                       *)
(* backend/subscriber/manager.go.                                          *)
(*                                                                         *)
(* A Manager maps the key of every running watch, stream or one-off query  *)
(* to a channel that is closed to stop it, and counts the subscriptions in *)
(* a sync.WaitGroup on which connection.Handle waits when the connection   *)
(* ends.  Subscribe and Unsubscribe hold the mutex for their whole body    *)
(* (manager.go:26-27, 47-48; Done is deferred after Unlock, so it runs     *)
(* before it), which is why each is one action here.  What an observer     *)
(* without the mutex could see in between changes nothing it does next:    *)
(* after close(ch) and before Delete, a goroutine that saw ch closed goes  *)
(* on to its own Unsubscribe, which waits for the mutex.                   *)
(*                                                                         *)
(* A channel is named by the call that made it: Subscribe evaluates        *)
(* make(chan) even when LoadOrStore then returns an older channel.         *)
(***************************************************************************)
EXTENDS Integers, FiniteSets

CONSTANTS
    Keys,       \* the keys tasks subscribe under, e.g. "/node/1/info"
    Calls,      \* the calls of Subscribe, one per goroutine that makes one
    NoChan      \* the value of a key that is not in the table

ASSUME NoChanAssumption == NoChan \notin Calls

VARIABLES
    subs,       \* m.s: the channel registered under each key, or NoChan
    made,       \* the calls that have made their channel
    closed,     \* the channels that have been closed
    wg,         \* the counter of m.WaitGroup
    waiter      \* where Handle is in m.Wait()

managerVars == <<subs, made, closed, wg, waiter>>

Registered == {k \in Keys : subs[k] # NoChan}

Subscribed(k) == subs[k] # NoChan

(* Faulty variant: Store, the newest channel wins.                         *)
Store(k, c) == c

LoadOrStore(k, c) == IF Subscribed(k) THEN subs[k] ELSE c

-----------------------------------------------------------------------------

ManagerInit ==
    /\ subs = [k \in Keys |-> NoChan]
    /\ made = {}
    /\ closed = {}
    /\ wg = 0
    /\ waiter = "none"

(* Subscribe adds 1 to the WaitGroup whether or not the key is new. *)
Subscribe(c, k) ==
    /\ c \notin made
    /\ made' = made \cup {c}
    /\ wg' = wg + 1
    /\ subs' = [subs EXCEPT ![k] = LoadOrStore(k, c)]
    /\ UNCHANGED <<closed, waiter>>

(* sync.WaitGroup.Done: bringing the counter to 0 releases the waiter. *)
Done ==
    /\ wg' = wg - 1
    /\ waiter' = IF waiter = "parked" /\ wg = 1 THEN "woken" ELSE waiter

(* Faulty variants: the key is not deleted; the channel is not closed; the *)
(* Done is not reached.                                                    *)
UnsubscribeKeepsKey(k) ==
    /\ Subscribed(k)
    /\ closed' = closed \cup {subs[k]}
    /\ Done
    /\ UNCHANGED <<subs, made>>
UnsubscribeSilently(k) ==
    /\ Subscribed(k)
    /\ subs' = [subs EXCEPT ![k] = NoChan]
    /\ Done
    /\ UNCHANGED <<made, closed>>
UnsubscribeUncounted(k) ==
    /\ Subscribed(k)
    /\ closed' = closed \cup {subs[k]}
    /\ subs' = [subs EXCEPT ![k] = NoChan]
    /\ UNCHANGED <<made, wg, waiter>>

UnsubscribeFinds(k) ==
    /\ Subscribed(k)
    /\ closed' = closed \cup {subs[k]}
    /\ subs' = [subs EXCEPT ![k] = NoChan]
    /\ Done
    /\ UNCHANGED made

UnsubscribeMisses(k) == ~Subscribed(k) /\ UNCHANGED managerVars

Unsubscribe(k) == UnsubscribeFinds(k) \/ UnsubscribeMisses(k)

(* sync.WaitGroup.Wait, called once, by Handle: return at 0, else park.    *)
Wait ==
    /\ waiter = "none"
    /\ waiter' = IF wg = 0 THEN "returned" ELSE "parked"
    /\ UNCHANGED <<subs, made, closed, wg>>

(* A released waiter runs some time after its release; it panics when the  *)
(* counter has moved again ("WaitGroup is reused before previous Wait has  *)
(* returned").                                                             *)
WaitReturns ==
    /\ waiter = "woken"
    /\ waiter' = IF wg = 0 THEN "returned" ELSE "panicked"
    /\ UNCHANGED <<subs, made, closed, wg>>

ManagerNext ==
    \/ \E c \in Calls, k \in Keys : Subscribe(c, k)
    \/ \E k \in Keys : Unsubscribe(k)
    \/ Wait
    \/ WaitReturns

ManagerSpec == ManagerInit /\ [][ManagerNext]_managerVars

-----------------------------------------------------------------------------

(* The variables have their types. *)
ManagerTypeOK ==
    /\ subs \in [Keys -> Calls \cup {NoChan}]
    /\ made \in SUBSET Calls
    /\ closed \in SUBSET Calls
    /\ wg \in Nat
    /\ waiter \in {"none", "parked", "woken", "returned", "panicked"}

(* close(ch) in Unsubscribe never meets a channel that is already closed,  *)
(* which would panic: a registered channel is open, and no two keys share  *)
(* one, so closing it under one key cannot close another's.                *)
CloseOnce ==
    \A k \in Registered :
        /\ subs[k] \in made \ closed
        /\ \A l \in Registered : subs[l] = subs[k] => l = k

(* The WaitGroup counts at least the registered keys, so that Done never   *)
(* makes it negative (a panic) and Wait never returns while a key is       *)
(* registered at the moment it looks.                                      *)
WaitGroupCovers == Cardinality(Registered) <= wg
=============================================================================
