-------------------------------- MODULE Browser --------------------------------
(***************************************************************************)
(* A browser with hashi-ui open: the addresses it visits, the components   *)
(* that come and go with them (React), the store (redux), and what the     *)
(* connection watches for it.                                              *)
(*                                                                         *)
(* Scripts run to completion: whatever changes the address or the store is *)
(* rendered, until nothing changes, before anything else happens.  In one  *)
(* render the new components' componentWillMount comes first, then the     *)
(* componentWillUnmount of those that go, then the new ones'               *)
(* componentDidMount.  The backend reads the requests in the order they    *)
(* were sent (Subscriber shows what the goroutines make of it).            *)
(***************************************************************************)
EXTENDS Transport, Pages, FiniteSets

CONSTANTS
    Known,      \* the addresses the user has at hand: typed, or of the history
    Visited,    \* bound: the pages this user opens
    MaxFlight,  \* bound: the answers under way
    MaxLoose    \* bound: leftovers the user lives with before a reload

ASSUME BrowserAssumption == MaxFlight \in Nat /\ MaxLoose \in Nat /\ Known \subseteq Addresses

VARIABLES
    dirty,      \* the address or the store has changed since the last render
    shown,      \* the mounted parts: as they are, and the keys they asked for
    asked,      \* the keys the connection watches
    once,       \* the keys a query holds (subscriber.Once)
    fetching,   \* the queries that run
    flight,     \* the answers under way
    unasked,    \* history: the entries filled with an answer nobody held
    adrift      \* history: keys of parts whose address changed under them

pageVars == <<route, loading, slot>>
wireVars == <<asked, once, fetching, flight>>
vars == <<transportVars, pageVars, dirty, shown, wireVars, unasked, adrift>>

Empty == [e \in Entries |-> {}]

BrowserInit ==
    /\ TransportInit
    /\ route \in Known /\ loading = FALSE /\ slot = Empty
    /\ dirty = TRUE /\ shown = {} /\ asked = {} /\ once = {} /\ fetching = {} /\ flight = {}
    /\ unasked = {} /\ adrift = {}

-----------------------------------------------------------------------------
(* Rendering. *)

Tree == IF boot = "app" THEN App.parts ELSE {}

Same(p, q) == p.name = q.name /\ p.id = q.id

HeldKeys == UNION {s.held : s \in shown}

Arriving(tree) == {p \in tree : ~\E s \in shown : Same(s.part, p)}
Leaving(tree) == {s \in shown : ~\E p \in tree : Same(s.part, p)}
Staying(tree) == {u \in shown \X tree : Same(u[1].part, u[2])}

(* A link to the version that happens to be the current one.               *)
Redirects ==
    /\ route.page = "job" /\ route.version # 0
    /\ \E s \in shown : s.part.name = "Job"
    /\ \E j \in Held("jobVersions") : Latest[j] = route.version

(* A job's own update, when the job is another one, asks for its latest    *)
(* version and gives up the latest version of the one before.              *)
Unversioned(p) == {<<k[1], k[2], 0>> : k \in Keys(p)}

Less(p, q) ==
    IF Unversioned(p) # Unversioned(q) THEN Unversioned(p) \ Unversioned(q)
    ELSE Keys(p) \ Keys(q)

Follows(p, q) == p.follows /\ q.follows /\ ~(Redirects /\ p.name = "Job")

Off(u) == IF Follows(u[1].part, u[2]) THEN Less(u[1].part, u[2]) ELSE {}
On(u) == IF Follows(u[1].part, u[2]) THEN Less(u[2], u[1].part) ELSE {}

Mounted(p) == [part |-> p, held |-> Keys(p), moved |-> FALSE]

Updated(u) ==
    [part |-> u[2], held |-> (u[1].held \ Off(u)) \cup On(u),
     moved |-> u[1].moved \/ Keys(u[2]) # Keys(u[1].part)]

(* Faulty variant: what goes unmounts last.                                *)
UnmountsLast(arriving, staying, ends) ==
    ((asked \ UNION {Off(u) : u \in staying}) \cup (UNION {On(u) : u \in staying})
       \cup (UNION {Keys(p) : p \in arriving})) \ ends

(* A WATCH is refused while a query holds its key.  What stays is updated, *)
(* what comes will mount, what goes unmounts, what has come did mount.     *)
AskedNext(arriving, staying, ends) ==
    LET updated == (asked \ UNION {Off(u) : u \in staying}) \cup UNION {On(u) \ once : u \in staying}
        before == (UNION {p.before : p \in arriving}) \ once
        after == (UNION {p.after : p \in arriving}) \ (once \ ends)
    IN  ((updated \cup before) \ ends) \cup after

(* Queries of what has come, and of an allocation page that has changed.   *)
Fetches(arriving, staying) ==
    (UNION {p.fetches : p \in {q \in arriving : ~q.follows}})
      \cup (UNION {u[2].fetches : u \in {w \in staying : On(w) # {}}})

(* Faulty variant: an answer stays in the store for the next page.         *)
NeverReset(unwatched) == {}

(* The reducers empty the entries of what is given up, whatever they hold. *)
Reset(unwatched) == (UNION {Entry(k) : k \in unwatched}) \ Kept

RenderTo(arriving, staying, leaving) ==
    LET ends == UNION {s.part.ends : s \in leaving}
        unwatched == ends \cup UNION {Off(u) : u \in staying}
        kept == once \ unwatched
    IN  /\ shown' = {Mounted(p) : p \in arriving} \cup {Updated(u) : u \in staying}
        /\ slot' = [e \in Entries |-> IF e \in Reset(unwatched) THEN {} ELSE slot[e]]
        /\ unasked' = unasked \ Reset(unwatched)
        /\ adrift' = (adrift \cup UNION {s.held : s \in {t \in leaving : t.moved}}) \ unwatched
        /\ IF socket = "open"
           THEN LET next == AskedNext(arriving, staying, ends)
                    queries == Fetches(arriving, staying) \ (next \cup kept)
                IN  /\ asked' = next
                    /\ once' = kept \cup queries
                    /\ fetching' = fetching \cup queries
           ELSE UNCHANGED <<asked, once, fetching>>

Render ==
    /\ boot = "app" /\ dirty
    /\ \E tree \in {Tree} : RenderTo(Arriving(tree), Staying(tree), Leaving(tree))
    /\ route' = IF Redirects THEN Item("job", route.id, "info") ELSE route
    /\ dirty' = (route' # route \/ slot' # slot)
    /\ UNCHANGED <<transportVars, loading, flight>>

-----------------------------------------------------------------------------
(* The user. *)

(* What a page left behind, or will have: entries it does not hold.        *)
Late == unasked \cup UNION {Entry(k) : k \in flight \ HeldKeys}

MayGo ==
    /\ boot = "app" /\ ~dirty
    /\ Cardinality(Late) + Cardinality(adrift) <= MaxLoose

(* Chunks that were not needed before have to be fetched first.            *)
GoTo(r) ==
    /\ r # route /\ r.page \in Visited
    /\ route' = r
    /\ loading' \in IF r.page # route.page THEN BOOLEAN ELSE {loading}
    /\ dirty' = TRUE
    /\ UNCHANGED <<transportVars, slot, shown, wireVars, unasked, adrift>>

FollowLink == MayGo /\ \E r \in App.links : GoTo(r)

JumpBack == MayGo /\ \E r \in Known : GoTo(r)

ChunkArrives ==
    /\ boot = "app" /\ ~dirty /\ loading
    /\ loading' = FALSE /\ dirty' = TRUE
    /\ UNCHANGED <<transportVars, route, slot, shown, wireVars, unasked, adrift>>

(* Another region or section, or the user's own reload: the document and   *)
(* all of its state are replaced.                                          *)
Reload ==
    /\ boot = "app" => ~dirty
    /\ Starts
    /\ route' \in {route} \cup Known
    /\ loading' = FALSE /\ slot' = Empty /\ dirty' = TRUE /\ shown' = {}
    /\ asked' = {} /\ once' = {} /\ fetching' = {} /\ flight' = {}
    /\ unasked' = {} /\ adrift' = {}

-----------------------------------------------------------------------------
(* The backend. *)

Answered(k) == Entry(k) # {} /\ Cardinality(flight) < MaxFlight /\ k \notin flight

(* A watch answers; it may be given up before the answer arrives.          *)
Answer(k) ==
    /\ boot = "app" /\ ~dirty
    /\ k \in asked /\ Answered(k)
    /\ flight' = flight \cup {k}
    /\ UNCHANGED <<transportVars, pageVars, dirty, shown, asked, once, fetching, unasked, adrift>>

(* Faulty variant: the table keeps the key of a query that has ended.      *)
StaysOnce(k) ==
    /\ boot = "app" /\ ~dirty
    /\ k \in fetching /\ Answered(k)
    /\ fetching' = fetching \ {k} /\ asked' = asked \ {k}
    /\ flight' = flight \cup {k}
    /\ UNCHANGED <<transportVars, pageVars, dirty, shown, once, unasked, adrift>>

(* A query ends, and with it whatever is subscribed under its key.         *)
FetchDone(k) ==
    /\ boot = "app" /\ ~dirty
    /\ k \in fetching /\ Answered(k)
    /\ fetching' = fetching \ {k} /\ once' = once \ {k} /\ asked' = asked \ {k}
    /\ flight' = flight \cup {k}
    /\ UNCHANGED <<transportVars, pageVars, dirty, shown, unasked, adrift>>

(* The message is dispatched; no reducer asks whose it is.                 *)
Deliver(k) ==
    /\ boot = "app" /\ ~dirty
    /\ k \in flight
    /\ flight' = flight \ {k}
    /\ dirty' = TRUE
    /\ slot' = [e \in Entries |-> IF e \in Entry(k) THEN {k} ELSE slot[e]]
    /\ unasked' = IF k \in HeldKeys THEN unasked \ Entry(k) ELSE unasked \cup Entry(k)
    /\ UNCHANGED <<transportVars, route, loading, shown, asked, once, fetching, adrift>>

(* Attempts to connect; with the connection all subscriptions are lost.    *)
Connects ==
    /\ Opens \/ TimesOut \/ Retry \/ OpensLate
    /\ UNCHANGED <<pageVars, dirty, shown, wireVars, unasked, adrift>>

Disconnects ==
    /\ ~dirty
    /\ SocketCloses
    /\ asked' = {} /\ once' = {} /\ fetching' = {} /\ flight' = {}
    /\ UNCHANGED <<pageVars, dirty, shown, unasked, adrift>>

BrowserNext ==
    \/ Render \/ FollowLink \/ JumpBack \/ ChunkArrives \/ Reload
    \/ \E k \in asked : Answer(k)
    \/ \E k \in fetching : FetchDone(k)
    \/ \E k \in flight : Deliver(k)
    \/ Connects \/ Disconnects

BrowserSpec ==
    /\ BrowserInit /\ [][BrowserNext]_vars
    /\ TransportFairness /\ WF_vars(Render)

-----------------------------------------------------------------------------
(* The address is that of an object of the kind its page shows, and a key  *)
(* that is asked for names an object of its kind.                          *)
BrowserTypeOK ==
    /\ boot \in {"starting", "failed", "app"} /\ socket \in {"none", "open", "closed"}
    /\ timer \in BOOLEAN /\ attempt \in BOOLEAN /\ strays \in 0..MaxStrays
    /\ route \in Addresses /\ loading \in BOOLEAN
    /\ DOMAIN slot = Entries
    /\ \A e \in Entries : slot[e] \subseteq AllKeys /\ Cardinality(slot[e]) <= 1
    /\ \A s \in shown : s.held \subseteq AllKeys /\ Keys(s.part) \subseteq AllKeys
    /\ asked \cup fetching \cup flight \cup adrift \subseteq AllKeys
    /\ Cardinality(flight) <= MaxFlight
    /\ unasked \subseteq Entries /\ once \subseteq fetching

(* Nobody is served for ever: a key the connection watches is held by a    *)
(* component that is shown, or was when the address of that component      *)
(* changed under it and it gave up, at its end, the keys of the new one.   *)
(* Left out is the root of the KV page, which nothing gives up             *)
(* (consul_kv.js:64).                                                      *)
NothingLeftOver == asked \ {List("KV_PATH")} \subseteq HeldKeys \cup adrift

(* What a component asks for in componentDidMount stays asked for while    *)
(* it is shown, whichever page was there before and whatever else comes    *)
(* and goes; componentWillMount has no such promise: the page that leaves  *)
(* may give up the same key after it.                                      *)
DidMountIsFed ==
    boot = "app" /\ socket = "open" /\ ~dirty =>
        \A s \in shown : ~s.moved => s.part.after \subseteq asked

(* The store forgets an object with the page that showed it: what is in    *)
(* an entry was asked for by a component that is shown, or it is an answer *)
(* that came when no component held its key.                               *)
NothingStale ==
    (UNION {slot[e] : e \in Entries \ (Kept \cup unasked)}) \subseteq HeldKeys

(* A page acts on what its address names, unless an answer nobody asked    *)
(* for is in the store or the page missed the change of its address.       *)
ActsOnItsAddress ==
    boot = "app" /\ ~dirty /\ unasked = {} /\ (\A s \in shown : s.held = Keys(s.part)) =>
        \A t \in App.targets : t[1] = route.page => t[2] = route.id
=============================================================================
