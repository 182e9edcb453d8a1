------------------------------ MODULE Transport -------------------------------
(***************************************************************************)
(* How the page gets a connection: main.js boots, store.js and             *)
(* sagas/event.js connect, and an interval boots again after a failure.    *)
(*                                                                         *)
(* An attempt is given up two seconds after it began, so it is over before *)
(* the interval, of five seconds, begins the next one.  Its socket is left *)
(* as it is: it may open later, when nobody listens.  A connection that is *)
(* lost is told to the user; commands given after that reach nobody.       *)
(***************************************************************************)
EXTENDS Naturals

CONSTANT MaxStrays      \* bound: the sockets of abandoned attempts

ASSUME TransportAssumption == MaxStrays \in Nat

VARIABLES
    boot,       \* "starting", "failed" (ErrorApp is shown) or "app"
    timer,      \* retryInterval is set
    attempt,    \* a socket is opening, its two seconds run
    strays,     \* sockets of abandoned attempts that may still open
    socket      \* of the app: "none", "open" or "closed"

transportVars == <<boot, timer, attempt, strays, socket>>

(* The document is loaded: bootApp for the first time.                     *)
Starts ==
    /\ boot' = "starting" /\ timer' = FALSE /\ attempt' = TRUE
    /\ strays' = 0 /\ socket' = "none"

TransportInit ==
    /\ boot = "starting" /\ timer = FALSE /\ attempt = TRUE
    /\ strays = 0 /\ socket = "none"

(* Faulty variant: the interval is not cleared.                            *)
RenderAppKeepsTimer == boot' = "app" /\ UNCHANGED timer

renderApp == boot' = "app" /\ timer' = FALSE

(* onopen before the timeout: the promise resolves.                        *)
Opens ==
    /\ attempt
    /\ attempt' = FALSE /\ socket' = "open"
    /\ renderApp
    /\ UNCHANGED strays

(* Faulty variant: a failure starts no interval.                           *)
StartsNoTimer == boot' = "failed" /\ UNCHANGED timer

(* The catch of bootApp: one interval, however many failures.              *)
BootFails == boot' = "failed" /\ timer' = TRUE

(* The promise is rejected; the socket was refused, or is slow.            *)
TimesOut ==
    /\ attempt
    /\ attempt' = FALSE
    /\ strays' \in {strays, strays + 1} \cap 0..MaxStrays
    /\ BootFails
    /\ UNCHANGED socket

(* The interval: bootApp again.                                            *)
Retry ==
    /\ timer /\ ~attempt
    /\ attempt' = TRUE
    /\ UNCHANGED <<boot, timer, strays, socket>>

(* A late onopen resolves a promise that was rejected already.             *)
OpensLate ==
    /\ strays > 0
    /\ strays' = strays - 1
    /\ UNCHANGED <<boot, timer, attempt, socket>>

(* onclose, onerror: APP_ERROR, "no automatic retry will be made".         *)
SocketCloses ==
    /\ socket = "open"
    /\ socket' = "closed"
    /\ UNCHANGED <<boot, timer, attempt, strays>>

(* Timers fire; a backend that could open in time again and again does.    *)
TransportFairness ==
    WF_transportVars(TimesOut) /\ WF_transportVars(Retry) /\ SF_transportVars(Opens)

-----------------------------------------------------------------------------
(* The app runs once: no attempt is under way next to it and none will be  *)
(* made, so that no second store or socket replaces those of the page.     *)
RunsOnce == boot = "app" => ~timer /\ ~attempt

(* ErrorApp's promise, "The system will continue to retry every 5s", is    *)
(* kept: a page that failed to connect comes up in the end.                *)
ComesUp == boot # "app" ~> boot = "app"
=============================================================================
