# Hashi-UI in TLA+

Hashi-UI is a web interface for Nomad and Consul. A Go backend (`backend/`) holds
one connection per open browser page, watches Nomad and Consul on its behalf with
blocking queries and streams, and pushes what changes through a websocket; a React
front end (`frontend/`) keeps the answers in a store and asks for what its pages
show. This directory holds TLA+ specifications of the part of the program that is
hard to get right and hard to test, the configurations that check them with TLC,
and proofs that the TLA+ proof system checks.

Line numbers are those of the commit the specifications were written against.

## 1. The system

| Component | State it keeps | Operations | Hard because |
|---|---|---|---|
| Subscription manager (`subscriber/manager.go`) | key → channel table, mutex, WaitGroup | Subscribe, Unsubscribe, Subscribed, Wait | closed by key, counted by call; a second close or a negative counter panics |
| Subscription functions (`subscriber/functions.go`) | goroutines: one or two per call | Watch, Once, Stream, Unwatch | check-then-act, selects with several ready cases, blocking sends |
| Connection (`connection.go`) | `sendCh` (500), `receiveCh`, `destroyCh`, the socket | Handle, readPump, writePump, process, keepAlive, readOnlyError | shutdown order, a writer that dies alone, order of WATCH and UNWATCH |
| Streams (`nomad/*/stats.go`, `members/list.go`, `allocations/file.go`) | tickers, worker pools, a reader goroutine | Do | workers that quit with work queued, a shared buffer |
| Blocking queries (`*/helper/helper.go`, the watchers) | WaitIndex per watch | Do, QueryChanged | an index that stays, or goes back |
| HTTP API socket (`handler_nomad_http.go`) | queue of actions, quit channel (1) | ReadJSON, WriteJSON, stop | one answer ends it |
| Job and node operations (`nomad/jobs`, `nomad/nodes`) | none; read-modify-write on Nomad | scale, restart, stop, submit, drain | several calls, failure between two of them, a key that refuses the next command |
| Job editor (`JobEditRawJSON.js`, `JobActionMenu.js`) | the text and the version it was made from | submit, cancel, take an answer | any notification looks like its answer; the job changes under it |
| Consul KV (`consul/kv`) | index the editor holds | set, delete, delete tree, info | stale index |
| Allocation health (`allocations/health.go`) | three process-wide LRU caches | Do | filled and read without a lock around both |
| Configuration (`config/config.go`) | one record | Parse | order of environment and flags |
| Browser transport (`main.js`, `store.js`, `sagas/event.js`) | the socket, an interval | boot, connect, retry, lose the connection | a timeout races an answer; an abandoned socket opens late |
| Browser store (`reducers`) | one entry per list and per object shown | reduce answers, empty on UNWATCH | answers that come late, or for somebody else |
| Pages and components (`router.js`, `containers`, `components`) | which components are mounted | watch on mount, give up on unmount, follow the address | the order in which React mounts and unmounts; addresses that change under a component |
| File viewer (`AllocationFiles.js`, `allocations/file.go`) | directory and file of the address, the text shown; a reader and a sender per stream | open, tail, give up | one buffer for two goroutines; answers without a name |

How they interact. The browser sends actions over the socket; `readPump` hands each
to `process`, which starts a goroutine for it (Watch, Once, Stream or Unwatch) or
refuses it in read-only mode. These goroutines share the connection's Manager and
write to its `sendCh`; `writePump` moves what is in `sendCh` to the socket.
`Handle` is woken by a failing read, closes the socket and `destroyCh`, and waits on
the Manager's WaitGroup until every subscription has gone. In the browser everything
runs in one thread: an address or an answer changes the router or the store, React
compares the components of before and after, and those that come, stay and go dispatch
WATCH and UNWATCH actions, which a saga writes to the socket in that order.

What makes each correct:

- manager: a channel is closed once; the counter covers the table; a waiter that is
  parked is owed its release;
- functions: no task is left running outside the table, no key stays in the table
  with nobody to remove it, one task per key, an unwatched task ends;
- connection: what is subscribed is what the browser asked for last (it is not always:
  run `last_word`); an unwatched task ends, and closing completes, as long as there is
  room in `sendCh` (a reader blocked on a refusal, and a task that subscribes after
  `Handle` has stopped waiting, are what the code does: hazards, not properties);
- cluster statistics: no worker sends on a closed channel, the report sums what was
  measured, a collection comes to its end unless an UNWATCH takes all its workers away;
- blocking queries: a watcher waits for what comes after the state it shows, never
  goes back, and comes to show the last one;
- KV editor: nothing is replaced that its page has not shown; deleting a folder
  deletes that folder;
- job operations: a command does what its name says or tells its user of an error;
- job editor: it does not let an old job be submitted unawares, and does not wait for
  an answer that will not come;
- transport: the app runs once, and comes up in the end;
- pages: nothing stays watched that no component shows, what a component asks for when
  it has mounted it gets, and the store does not show one object on the page of another
  (the exceptions that the code makes are named in the properties);
- file viewer: the file of the address is tailed, no other one, and shown in order, but
  for what passes while the allocation's node is not known to the page.

## 2. Plan

In order of importance. Built, checked and proved about:

1. `Manager`: the table and the WaitGroup under any clients.
2. `Tasks`: the abstract promise of subscriptions, without channels or counters.
   `Subscriber` (which extends `Manager`) implements it.
3. `Subscriber`: the goroutines over the Manager and a bounded `sendCh`.
4. `Connection` (extends `Subscriber`): Handle, the pumps, refusals, shutdown,
   fairness and liveness; what the comments promise and the code does not do.
5. `ClusterStats`: the worker pool of a collection and the loop of its stream.
6. `Watcher`: QueryChanged and the watchers built on it, against servers that lag and
   a log that a restored snapshot cuts.
7. `KVEditor`: pages that edit keys over check-and-set.

8. `Transport`: how a page gets its connection. `Pages`: what each address shows and
   watches, as functions. `Browser` (which extends both): the browser as a process.
   Composed with what a connection does for one key (`Answer`, `FetchDone`,
   `AskedNext`) rather than with the whole of `Subscriber`.
9. `FileViewer`: the viewer with the two goroutines of each of its streams.
10. `JobOps`: commands of several calls, and the editor and dialogs that give them.

What a further step would take up: the key that a dying stream takes from its successor
(`functions.go:174`), of which `FileViewer` has the step and no property; the API socket
as another socket of `Connection`; the caches of `allocations/health.go`. Every invariant
and action property that a passing run checks is proved (section 5).

## 3. Modules and the code

### Manager

| TLA+ | Code |
|---|---|
| `subs`, `wg` | `Manager.s`, `Manager.WaitGroup` |
| `made`, `closed` | the channels `make(chan)` produced, those `close` was called on |
| `Subscribe`, `Unsubscribe`, `Subscribed`, `Registered` | the methods of the same name (`Subscriptions` for the last) |
| `waiter`, `Wait`, `WaitReturns` | Handle inside `Wait()`, with the two-step wake-up of `sync.WaitGroup` and its panic on reuse |

Subscribe and Unsubscribe hold the mutex throughout (the deferred `Done` runs before
the deferred `Unlock`), so each is one action. `Subscribed` takes no lock: it is a
step of its own in the caller. An observer without the mutex that acts between
`close(ch)` and `Delete` in Unsubscribe does nothing it could not do just before or
just after, except read `Subscribed` as true, which it may also read just before.
Channels are named by the call that makes them. `Clear` is not called by anything.

### Subscriber

A call is one goroutine started by `process`: `pc` says where it is, `run` where its
task is (the worker goroutine of Watch; inline for Once, Stream, keepAlive), `got`
which channel Subscribe returned, `todo` how many answers it still has to send.
Each select is one action per ready case. Sends on `sendCh` wait for room. What a
task asks of Nomad or Consul is a choice: an error, or up to `Batch` answers. A stream
sends at each tick (`Tick`); the cluster statistics (`Collecting`) first go round the
nodes (`CollectStarts`, `CollectReturns`), and listen to nothing while they do.

### Connection

`handle`, `pump`, `socket` say where Handle (with readPump and process), writePump
and the websocket are; `asked` is a history variable with what the browser last asked
of each key. `process` is abstracted to `Modes`: which of Watch, Once, Stream it
calls with a key. `subscriptionPublisher` only logs and is left out.

Fairness (`Fairness` in the module): every goroutine that can go on does; a sender
blocked on a channel is served in order, and a select with several ready cases picks
at random, so both are strongly fair; a request to Nomad or Consul returns, with an
answer or an error (the clients have timeouts). A collection of the cluster statistics
returns while nobody has unwatched it, which is `CollectionCompletes` of `ClusterStats`;
once it is unwatched it may return or not. Nothing is assumed of the browser, of a write
to an open socket, or of tickers.

### ClusterStats

`loop` is where `Do`, `work` and `collect` are, `at` and `doing` where each `worker`
is; `queued` and `results` are what is in `taskCh` and `resultCh`, `wg` the WaitGroup.
One collection follows another; the nodes and which of them are ready are chosen anew
each time, and each task succeeds or takes one of its early exits. `quit` (an UNWATCH)
and `destroyed` (the end of the connection) happen at any time. `room` is whether `sendCh`,
which others fill and `writePump` empties, takes the report: it comes and goes, and after
the end of the connection it may be gone for good (`RoomChanges`). `measured` is a history
variable. What the figures of a node are is left out: a result is its node. `Stuck` is the
state after an UNWATCH in which `wg.Wait` never returns.

Fairness: every goroutine that can go on does, and requests return; `Do`'s select does
not prefer the ticker for ever, and a blocked sender gets its turn. That there is room is
not assumed: it is the premise of `StreamEnds`.

### Watcher

`Asked`, `Changed` and `NextWait` are QueryChanged; `Answer`, `Fail` and `Finish` a
`Do`, for its one or two queries. The servers are external: `history` is the leader's
log, `pos` how far each server has come, `Restore` cuts the log, and `era` tells the
writes after it from those before. Whether AllowStale is set is chosen at the start
(the configuration for Nomad, always for Consul). A blocking query may return at any
time, since its WaitTime may be over. `first` (history) is whether no `Do` has come to its
end yet. The client of `Do` is the worker of Watch in
`Subscriber`, which calls it again until it fails.

Fairness: servers catch up, queries return, the worker goes on.

### KVEditor

The page (`page`, `folder`, `pair`, `editor`) keeps what its component's state, its URL
and the store's `consulKVPair` hold: three places that late answers, the back button
and a new mount change one without the other. `reqs` is what `Once` is working on;
`Get`, `Set`, `ReadBack`, `Delete`, `DeleteTree` are the operations of `consul/kv`;
`Show`, `ShowNull`, `ShowDeleted` the answers' way through the reducer and
`componentWillReceiveProps`. A value is the index of its write, which Consul gives to
one write only (its transactions, which could write several keys with one index, are
left out). Typing a value is left out; so is the list of keys, a `Watcher`, except that
it may be old: any key may be opened at any time. Folders are one level deep; `Begins`
says which names begin with which.

### Transport, Pages, Browser

`Pages` has one operator per component that talks to the backend or links elsewhere,
under the component's name. It answers, for the address `route` and the store `slot`,
with a view: the parts (components) it mounts, the links it offers, and the objects its
commands are about. `Part` has the keys that `componentWillMount` watches (`before`),
those of `componentDidMount` (`after`), those given up by `componentWillUnmount`
(`ends`), queries (`fetches`), and whether it notices a changed address (`follows`).
`Key`, `List` and `JobKey` are the `Key()` methods of the backend's operations, which
decide whether two components share a watch. `Entry` says which entry of the store an
answer fills, `Kept` which entries no UNWATCH empties. `Addresses` are those of the routes,
each with an object that its page shows (`ShownBy`); `AllKeys` are keys of a kind with an
object of that kind (`NamedBy`). The addresses a user may jump to (`Known`) are of the
first sort: an object that has gone keeps its name, a mistyped one is left out.

| TLA+ | Code |
|---|---|
| `route`, `loading` | the router's location; a `Loadable` page whose chunk is not there yet |
| `slot` | the redux store: for each entry, the key of the answer it holds |
| `shown`, `dirty` | mounted components and what they asked for; a render is due |
| `asked`, `once`, `fetching` | the table of the connection, the part of it that queries hold, the queries that run |
| `flight` | answers sent by the backend and not yet dispatched |
| `boot`, `timer`, `attempt`, `strays`, `socket` | `main.js` and `sagas/event.js`: what is on the screen, the interval, the attempt under way, sockets of attempts given up, the app's socket |
| `Render` | one pass of React: mounts, updates, unmounts and their actions in React's order, the reducers that empty entries, the redirect of `containers/job.js` |
| `unasked`, `adrift` | history: entries filled by an answer nobody held; keys of components whose address changed before they ended |

Requests are taken up in the order they were written; the other orders are those of
`last_word`. Fairness: a timer that is due fires and a render that is due happens (weak);
a backend that could open a socket in time again and again does so once (strong). Nothing
is assumed of the user, of answers or of chunks.

### FileViewer

| TLA+ | Code |
|---|---|
| `place`, `known` | the address, and `findAllocNode`: whether the node of the allocation is in the list of nodes and in the store's one slot for a node |
| `fetched`, `watching`, `contents` | `initialDirectoryFetched`, `fileWatching`, `contents` of the component's state |
| `Receives` | `componentWillReceiveProps` with its four ifs in order; every change of the address or the store goes through it (`Renders`) |
| `Ignores` | its early return while the node is not known: the address and the store move on, the component does not |
| `NodesArrive` | a list of nodes, with the node or without; a node of this or of another page in the slot: `known` rises and falls |
| `due`, `lingering`, `fetchDir`, `DirArrives`, `DirFails`, `DirEnds` | the queries of a directory (`Once`, `dir.go`): those to be answered, those answered whose key is not given back; a query that meets its key is refused, one that fails sends a notification only |
| `Opens`, `Leaves`, `GoTo` | the constructor and `componentWillUnmount`; a click or the back button |
| `streams`, `StreamOpens`, `StreamStarts`, `Reads`, `HandsOver`, `SendsLine`, `StreamStops`, `StreamFails` | the reader and the sender of a stream; the reader starts before the first frame is sent, and a read that has begun goes on when the stream is given up |
| `Ends` | the deferred Unsubscribe of `subscriber.Stream`, by key |
| `wire` | the connection's channel and the socket |

A line is a slice of the reader's buffer, so what is sent is the piece that was read or the
one read over it. A piece carries its stream, which line of the stream it is (history), and
the text it has, which is that of the line or of one read later.

The other history variables name what the properties leave out, which is what the code does:
`tailed` is the file the component watched last and has not given up; `strayed`, that the
address has left it by a move the component does not follow (to a file of the same name in
another directory, or any while the node is not known); `orphans`, the files left so;
`doubtful`, that the listing of the address may not come (it failed, was refused, was not
asked for while the node was unknown, or queries of two directories are under way); `lost`,
the lines replaced in the store, unseen, while the node was not known.

### JobOps

`Calls` lists, for each command of the front end, the calls to Nomad that its `Do` makes; `Succeeds` and
`Fails` are one such call (a failed one may have taken effect), `Registered` what it
writes. `Begins`, `NoteArrives` and `Leaves` are the rest of `Once`: the key, the answer,
the deferred Unsubscribe. `Receives` is `componentWillReceiveProps` of the editor for
whatever changes in the store; `dialog` and `note` are the entries of `reducers/app.js`,
`seen` the version of the job in the store. The text of the editor is a count and whether
the job is stopped. Nomad is external: it counts changes and refuses negative counts.

## 4. Runs

All bounds are named in the `.cfg` files.

| Run | Question | Result |
|---|---|---|
| `subscriber` | every interleaving of three calls and the keep-alive: types, no double close, a parked `Handle` is owed its release, no orphan, no ownerless key, exact accounting, and the promise `Tasks` | holds |
| `connection` | the same promise with the pumps, refusals, write failures and shutdown around it | holds |
| `connection_ends` | as long as `sendCh` has room again and again: closed tasks end, except a collection of the cluster statistics that was under way, and shutdown returns if nobody shares a subscription | holds |
| `cluster_stats` | the worker pool: no send on a closed channel, none that blocks, exact accounting, whole reports; a collection completes, and the stream ends with its key or the connection as long as `sendCh` has room again and again, unless an UNWATCH has left the collection `Stuck` | holds |
| `watcher` | an index the worker waits with is never 0 again; a list waits for what comes after what it shows and never goes back; every watcher catches up, with the exceptions `CatchesUp` names | holds |
| `kv_editor` | nothing is replaced that its page has not shown; the fields follow the pair | holds |
| `browser` | every page, tab and link: what is watched is held by a component that is shown (except keys of one whose address changed under it), what one asked for in `componentDidMount` is watched, what the store holds was asked for by one that is shown (except answers that came when nobody held the key) | holds |
| `browser_boot` | boots, retries, reloads and abandoned sockets, with the pages of jobs: the app runs once, comes up, and acts on the object of its address, unless an answer nobody asked for is in the store | holds |
| `file_viewer` | files and directories opened, tailed and left, streams and queries that start, race, fail and end, nodes that come and go: the file of the address is tailed and no other but for two moves that are not followed; lines come in order, with no gap but of what was replaced while the node was unknown; the listing is that of the address unless it is in doubt | holds |
| `job_ops` | commands that fail half way or overlap, and an editor that waits: done or told, warned when stale, never stuck but by a refusal | holds |
| `last_word` | WATCH and UNWATCH reordered | a key unwatched last stays in the table: the UNWATCH overtakes the WATCH before it and finds nothing |
| `kv_folder_delete` | deleting the folder `app` | deletes `app2` as well |

The bounds, and why they are enough:

- `subscriber`: three calls and the keep-alive are enough for a subscription to be
  shared, ended by a third party and its key taken again. `SendCap = 1` is the smallest
  channel that can be full; a larger one only delays it. `Batch = 0`, since the answers of
  a task only add places where it can block on `sendCh`, as it does already with its
  errors and the keep-alive's pings. `connection` and `connection_ends` have `Batch = 1`.
  The streams of `subscriber` are collecting ones: one that sends at once takes the same
  steps in one.
- `connection_ends` bounds what the browser asks for (`PlannedSpec`): one call is any
  watch, stream or query, the other an unwatch of its key; the cluster statistics
  (`stats`) are among the streams.
- `cluster_stats`: two nodes and three workers are enough for a worker to leave while
  another holds a task and the other node is queued.
- `watcher`: four writes, two servers and one restored snapshot let a server lag by more
  than one write and an index be used twice.
- `kv_editor`: three keys in two folders, two writes and two requests under way let an
  answer be late and an index meet the wrong key.
- `browser`: two jobs (a periodic parent and its child of two versions), two nodes and
  two evaluations are enough to go from one object to another of its kind; of the other
  kinds there is one each. One answer is under way at a time (`MaxFlight`), at any
  moment, so every late answer is late for some page. A user who has a late answer or a
  leaked watch about does not move on before the answer is there or the page is reloaded
  (`MaxLoose = 0`): what those leave behind does not add up, and `unasked` and `adrift`
  name it in the properties.
- `browser_boot`: the same cluster with the pages `jobs` and `job` only, and one stray
  socket (`MaxStrays`); strays act on nothing, so a second one shows nothing new. Liveness
  is checked here, where the state graph is small.
- `file_viewer`: two directories; the history has the address of a file in the lower one,
  of the same name as one in the upper, which is no longer there; two streams, so that one starts
  while the other ends; three pieces of the first, so that the reader can write over what
  is being sent and a line can be lost between two that are shown, and one of the second;
  two queries of a directory at once (`MaxQueries`), and two queries or streams in all
  (`MaxTasks`), which is what any two need to race; one frame on the wire, so that senders
  also wait; `MaxOutput = 2`, so that output is cut. Nearly three million states.
- `job_ops`: one user with two commands under way, of which the later one is a submission
  or a command that changes no job (`Hasty`), and somebody else who changes the job;
  `MaxIndex = 2` lets a command or a submission meet one foreign change. Users share
  nothing but the job, so other users are changes from elsewhere.

The last two runs check what a comment of the source says and find it violated; both are
described under "findings" in `PROJECT.json`. Other things the code does that a reader may
not expect are hazards there, with a note: a watch whose task has failed keeps its key; a
stream unwatched during a collection of statistics may never end; a reader may block on a
refusal it sends itself; a task may subscribe after `Handle` has stopped waiting; opening a key somebody
has deleted breaks the page; the lists that a page watches from `componentWillMount` are
given up by the page before it.

## 5. Proofs

In the modules whose names end in `Proofs`, for every value of the constants that
satisfies the named assumptions (`NoChanAssumption`, `SubscriberAssumption`,
`ConnectionAssumption`, `NodesAssumption`, `WatcherAssumption`, `KVAssumption`,
`PagesAssumption`, `TransportAssumption`, `BrowserAssumption`, `FileAssumption`,
`JobOpsAssumption`, and that `Calls` and `Keys` are finite where the counter is concerned).
They say that bounds are numbers, that the functions describing a cluster (whose allocation,
on which node, of which parent) are functions of that sort, that the browser's history holds
addresses of the program, that the nodes of a collection are finitely many, and that `None`
and its like are none of the things they stand beside. How many objects, users, calls or
writes there are is left open.

- `ManagerInv` is inductive: the types, `CloseOnce`, that the counter covers the table
  (`WaitGroupCovers`, theorem `ManagerCounts`), and that it is above zero while a waiter
  is parked, which is how `sync.WaitGroup` works. `CloseOnce` needs that a channel is
  named by a call that has made it, and that registered channels are open.
- `SubscriberInv` adds what ties a goroutine to the table: a call that joined got a
  channel made by a call of its own key (`Joined`); a channel that somebody got and
  nobody closed is the one registered under the key (`OpenIsRegistered`, from which
  `NoOrphan`); a registered channel's maker has still its Unsubscribe ahead
  (`RegisteredHasOwner`); and the counter is exactly the keys plus the sharers
  (`WaitGroupAccounting`). None of them is inductive alone: that nobody is orphaned by
  somebody else's Unsubscribe rests on every open channel being the registered one.
  `ReleaseIsOwed` (theorem `ReleasesAreOwed`) follows from the last two, the counter being
  above zero while `Handle` is parked: it counts a key, which has an owner, or a sharer.
- `SubscriberKeepsPromise`: `SubscriberSpec` implements `Tasks`. The step that matters
  is the release: the counter is zero only if the table is empty, and then, by
  `OpenIsRegistered`, every channel anybody got is closed.
- `ConnectionUsesSubscriber` (`SubscriberProofs`): every step of a connection is a step of `Subscriber` or
  leaves it alone, so all of the above holds of every connection.

- `StatsInv` (`ClusterStatsProofs`): the accounting of the WaitGroup, that a node is in
  at most one place (to come, queued, held, reported), and what each phase of
  `collect` may rely on. Whoever holds a task keeps the counter above zero, so `Wait`
  is not passed; from there no send meets a closed channel and the report is whole.
  Capacities are counted: queued, held and reported nodes are different ones of the
  list.
- `WatcherInv` (`WatcherProofs`): a list's WaitIndex is exactly what it shows, unless it
  is 1; an answer that passes `Changed` is above it. No restored snapshot or lagging
  server is excluded: an older answer is below the index and is taken for no change.
- `KVInv` (`KVEditorProofs`): an index belongs to one key, and is followed from the
  answer to the pair, the fields and the next request. The page may send the index of
  one key with the path of another; since the index in place at that path is another,
  Consul refuses.

- `LeftInv` (`BrowserProofs`), for any cluster and any history: a key in the table is held
  by a mounted component or adrift; a component whose address has not changed holds what
  its `ends` will give up (`Honest`); without a socket nothing is asked. `RunsOnce` is
  inductive by itself.
- What `Pages` contributes to the four theorems about pages is told once. The parts that a
  page can have are listed, page by page (`PageParts`), and each operator of `Pages` is shown
  to stay within the list (`TreeBelongs`, `AppBelongs`). Of a part of the list, `Well` says
  what follows from its name: it gives up what it watches, watches either before or after it
  mounts, and fills certain entries of the store. Two parts of one page are `Clear` of each
  other: they are different, and neither asks in `componentDidMount` for what the other
  holds. This needs that an entry holds one answer (`Single`), so `ShownInv` has both.
- `FedInv`: queries are for nodes only, which no part asks for in `componentDidMount`; hence
  no WATCH of one is refused because of a query, nor ended by its end. Together with `Clear`
  that gives `DidMountIsFed`. The UNWATCHs of components that leave are written before the
  WATCHs of `componentDidMount`, and the proof uses it.
- `StaleInv`: what a part holds is what it will give up, or fills the same entries. Consul's
  parts hold one key more or less as their address changes and follow it exactly; all others
  fill the entries of their name, whatever their address is and was (`Holds`). This is why a
  missed change of address leaves something watched (`adrift`) and nothing stored.
- `ActsOnItsAddress`: commands aim at the address, or at what the page's entry holds (`Aims`,
  from the same listing), and what the entry holds was asked for by a part that is shown
  (`NothingStale`) and names the object of the address (`ShownIsNamed`).
- `TypedInv`: links of a page whose address is typed, over a store whose keys are, lead to
  typed addresses, and so do its parts' keys; one lemma per page. A wrong link or key would
  fail here for some cluster, also one TLC has not seen.
- `FileInv` (`FileViewerProofs`): `TailsInv`, that a component which has fetched its listing
  tails the file of its address, the same one, until it strays; `WatchedInv`, that what the
  connection watches is that file or an orphan, and that a file it has strayed from is both.
  They lean on each other: an orphan stops being one when the address comes back to it.
- `LinesInv` adds `StreamTypes`, what a reader and its sender hold between them (`Fits`);
  `OrderInv`, that the text shown, the answer in the store and the frames on the wire are,
  read as one sequence, rising for each stream, have a gap only where a line was lost, and
  end where its sender is; `ListingInv`, that unless it is in doubt the queries under way are
  of the directory of the address, and with none under way the listing is. While the node is
  known the store holds no answer that was not taken, which is what the reset of the store
  on a new file is for; what is replaced there while it is not known is `lost`.
- `JobOpsInv` (`JobOpsProofs`): `CommandsInv`, how far each command is and which copy of the
  job it holds; `EditorInv`, that an editor has a job to start from exactly while its dialog is
  open; `LoneInv`, that what a command running alone will leave, from the calls it still has to
  make, is what was wanted. `WarnsWhenStale` and `NeverStuck` are inductive with these.

The proofs found one thing about the modules: `UNION X \ Y` is read as `(UNION X) \ Y` by TLC
and as `UNION (X \ Y)` by the proof system, so `Browser` and `Pages` have parentheses there.

Proved, and in no run, since runs check their consequences: `ManagerTypeOK`,
`WaitGroupCovers`, `ConnectionTypeOK`.

Only model-checked: liveness under fairness, which the proof system does not reach
(`ClosedTaskEnds`, `ShutdownUnlessBlocked`, `CollectionCompletes`, `StreamEnds`,
`CatchesUp`, `ComesUp`). The two runs that expect a violation show one instance each, which
is all there is to show.

## 6. Not modelled

- The HTTP API socket, the handlers in front of a connection, configuration and start:
  they keep no state that lives longer than a request, or are run once (see the notes in
  `PROJECT.json`).
- The caches of `allocations/health.go`: process-wide, filled with hashes of names.
- What Nomad and Consul answer, except that they answer or fail, and the indexes, counts
  and versions the properties are about; the figures of the statistics.
- The scale actions `set` and any unknown one (`scale.go:45-46`, `65-66`), which no button
  of the front end sends.
- What is drawn: tables, charts, colours, formats; the menus of regions and datacenters
  in the top bars, which reload the page (`Reload`); filters of lists other than jobs and
  allocations, which hide links only.
- A job's page left, by the back button, with one of its dialogs open (`JobOps` has the
  dialogs of one page); the order of requests within one render beyond WATCH before
  UNWATCH before WATCH (`AskedNext`).
- Logging, wire formats, authentication by a proxy.
