---------------------------- MODULE MCSubscriber -----------------------------
(* TLC instance of Subscriber.  The key "any" is watched, streamed and     *)
(* asked for once, so that every kind of call meets every other; as in     *)
(* connection.process the keep-alive has a key of its own.  Its streams are *)
(* collecting ones: one that sends at once takes the same steps in one.    *)
EXTENDS Subscriber, TLC

CONSTANTS any, internal, ka

MCKeys == {any, internal}
MCModes == (any :> {"watch", "once", "stream"}) @@ (internal :> {})

Symmetry == Permutations(Calls \ {KeepAlive})
=============================================================================
