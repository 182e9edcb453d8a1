------------------------------ MODULE FileViewer -------------------------------
(***************************************************************************)
(* The files of an allocation: the browser tails one file at a time        *)
(* (AllocationFiles.js) from a stream of the backend (file.go).            *)
(*                                                                         *)
(* The address holds a directory and perhaps a file.  Whatever changes the *)
(* address or the store makes React call componentWillReceiveProps, which  *)
(* works on the state object itself: what it sets in one if, the next if   *)
(* reads.  A stream is two goroutines with one buffer.  What they send     *)
(* arrives in order, also after the file was given up, and the component   *)
(* appends it without asking whose it is.                                  *)
(***************************************************************************)
EXTENDS Naturals, Sequences, FiniteSets

CONSTANTS
    Paths, Top,     \* the directories; the one at the top
    Files,          \* names of files
    None,           \* no file, no data
    ParentDir,      \* the directory above
    FilesIn,        \* the files of a directory
    Known,          \* addresses of the browser's history
    MaxQueries,     \* bound: the answers of one directory under way
    MaxTasks,       \* bound: the queries and the streams that run at once
    MaxStreams,     \* bound: the streams ever started
    MaxPieces,      \* bound: what each stream reads
    MaxWire,        \* bound: the frames under way
    MaxOutput       \* MAX_OUTPUT_LENGTH, in pieces

Places == [path : Paths, file : Files \cup {None}]

(* A piece of a file: its stream, which line of the stream it is (history), *)
(* and the text it carries, that of a line the reader has read.            *)
Pieces == [of : Nat, line : Nat, text : Nat]

ASSUME FileAssumption ==
    /\ Top \in Paths /\ None \notin Files \cup Places \cup Pieces
    /\ ParentDir \in [Paths -> Paths] /\ FilesIn \in [Paths -> SUBSET Files]
    /\ Known \subseteq Places /\ Known # {}
    /\ {MaxQueries, MaxTasks, MaxStreams, MaxWire} \subseteq Nat
    /\ MaxPieces \in [1..MaxStreams -> Nat \ {0}] /\ MaxOutput \in Nat \ {0}

VARIABLES
    place,          \* the address: path and file
    mounted,        \* the tab is open
    known,          \* findAllocNode: the node is in the list, and in its slot
    fetched,        \* state.initialDirectoryFetched
    watching,       \* state.fileWatching
    contents,       \* state.contents: the pieces, each of a stream
    listing,        \* the store's directory: whose files it holds, or None
    file,           \* the store's file: its data, if any
    due,            \* how many answers of a directory are to come
    lingering,      \* those whose query has answered and still holds its key
    requested,      \* the files the connection watches
    streams,        \* the streams
    started,        \* how many there were
    wire,           \* the frames under way
    tailed,         \* history: the file it watched last, until it gave one up
    strayed,        \* history: the address left it, and it did not follow
    orphans,        \* history: the files it left so, as long as they are watched
    doubtful,       \* history: the listing of the address is not sure to come
    lost            \* history: the lines that were replaced in the store, unseen

viewVars == <<place, mounted, known, fetched, watching, contents>>
storeVars == <<listing, file>>
dirVars == <<due, lingering, doubtful>>
tailVars == <<tailed, strayed, orphans>>
backVars == <<requested, streams, started>>
vars == <<viewVars, storeVars, dirVars, tailVars, backVars, wire, lost>>

NoData == None

FileInit ==
    /\ place \in Known
    /\ mounted = FALSE /\ known = FALSE
    /\ fetched = FALSE /\ watching = FALSE /\ contents = <<>>
    /\ listing = None /\ file = NoData
    /\ due = [d \in Paths |-> 0] /\ lingering = {} /\ doubtful = FALSE
    /\ requested = {} /\ streams = {} /\ started = 0 /\ wire = <<>>
    /\ tailed = None /\ strayed = FALSE /\ orphans = {} /\ lost = {}

-----------------------------------------------------------------------------
(* What the component asks the backend. *)

(* How much of it runs at once is bounded.                                 *)
Running ==
    Cardinality(streams) + Cardinality(lingering)
        + Cardinality({q \in Paths \X (1..MaxQueries) : q[2] <= due[q[1]]})

(* A query of the directory d, with these answers due.  It is refused      *)
(* while its key is held: by one that has yet to answer, or by one that    *)
(* has answered and has yet to unsubscribe.  Two may also look up the key  *)
(* before either holds it, or the first have given it back already.  The   *)
(* listing is sure when d's alone is due.                                  *)
fetchDir(d, answers) ==
    /\ \/ /\ d \notin lingering /\ answers[d] < MaxQueries
          /\ due' = [answers EXCEPT ![d] = @ + 1]
       \/ /\ d \in lingering \/ answers[d] > 0
          /\ due' = answers
    /\ doubtful' = ~(due'[d] > 0 /\ \A e \in Paths \ {d} : due'[e] = 0)

Answered(d) == [due EXCEPT ![d] = @ - 1]

Stream(id, p) == [id |-> id, of |-> p, on |-> TRUE, open |-> FALSE, head |-> FALSE,
                  reading |-> FALSE, read |-> 0, offered |-> FALSE, line |-> FALSE, sent |-> 0]

(* UNWATCH closes the streams of what is dropped, WATCH starts another,    *)
(* unless one is watched under the key.                                    *)
Requests(dropped, taken) ==
    LET left == requested \ dropped
        new == taken \ left
    IN  /\ started + Cardinality(new) <= MaxStreams
        /\ requested' = left \cup taken
        /\ started' = started + Cardinality(new)
        /\ streams' = {IF s.of \in dropped THEN [s EXCEPT !.on = FALSE] ELSE s : s \in streams}
                        \cup {Stream(started', p) : p \in new}

-----------------------------------------------------------------------------
(* componentWillReceiveProps. *)

(* Faulty variant: the end of the output is cut off.                       *)
Uncapped(pieces) == pieces

Capped(pieces) ==
    IF Len(pieces) > MaxOutput THEN SubSeq(pieces, Len(pieces) - MaxOutput + 1, Len(pieces))
    ELSE pieces

(* Faulty variant: only the first listing is fetched.                      *)
ListsOnce(p) == ~fetched

Lists(p) == place.path # p.path \/ ~fetched

Drops(p) == watching /\ place.file # None /\ place.file # p.file

(* Faulty variant: it gives up the file that comes, not the one that goes. *)
GivesUpNext(p) == IF Drops(p) THEN {p} ELSE {}

GivesUp(p) == IF Drops(p) THEN {place} ELSE {}

(* Faulty variant: with a copy of the state, what was set is read too late. *)
TakesLate(p) == ~watching /\ p.file # None

(* The second if reads what the first one has set.                         *)
Takes(p) == (~watching \/ Drops(p)) /\ p.file # None

Watches(p) == (watching /\ ~Drops(p)) \/ Takes(p)

(* Faulty variant: what has been appended stays in the store.              *)
LeavesData(data) == data

(* CLEAR_RECEIVED_FILE_DATA.                                               *)
Cleared(data) == NoData

(* The address is p, the store's data f, the node is known or not.         *)
Receives(p, f, isKnown, answers) ==
    LET shows == Watches(p) /\ f # NoData
        stays == Watches(p) /\ ~Takes(p)
    IN  /\ mounted /\ isKnown
        /\ IF Lists(p) THEN fetchDir(p.path, answers)
                       ELSE due' = answers /\ UNCHANGED doubtful
        /\ fetched' = TRUE
        /\ watching' = Watches(p)
        /\ Requests(GivesUp(p), IF Takes(p) THEN {p} ELSE {})
        /\ contents' = Capped((IF Drops(p) THEN <<>> ELSE contents)
                                \o (IF shows THEN <<f>> ELSE <<>>))
        /\ file' = IF shows THEN Cleared(f) ELSE f
        /\ tailed' = IF Takes(p) THEN p ELSE IF stays THEN tailed ELSE None
        /\ strayed' = (stays /\ (strayed \/ place.path # p.path))
        /\ orphans' = ((orphans \ GivesUp(p)) \ (IF Takes(p) THEN {p} ELSE {}))
                        \cup (IF watching /\ ~Drops(p) /\ place.path # p.path /\ tailed = place
                              THEN {place} \cap requested' ELSE {})
        /\ UNCHANGED lost
        /\ Lists(p) \/ Takes(p) => Running' <= MaxTasks

LineOf(data) == {<<x.of, x.line>> : x \in {data} \ {NoData}}

(* While the node is not known it returns early, and nothing is dropped,   *)
(* watched, fetched or taken from the store.                               *)
Ignores(p, f, isKnown, answers) ==
    LET moves == mounted /\ p # place
    IN  /\ ~mounted \/ ~isKnown
        /\ file' = f
        /\ due' = answers
        /\ doubtful' = (doubtful \/ (moves /\ p.path # place.path))
        /\ strayed' = (strayed \/ moves)
        /\ orphans' = orphans \cup (IF moves /\ watching /\ tailed = place
                                    THEN {place} \cap requested ELSE {})
        /\ lost' = lost \cup (IF watching /\ f # file THEN LineOf(file) ELSE {})
        /\ UNCHANGED <<fetched, watching, contents, tailed, backVars>>

Renders(p, f, isKnown, answers) ==
    Receives(p, f, isKnown, answers) \/ Ignores(p, f, isKnown, answers)

-----------------------------------------------------------------------------
(* The user. *)

(* The constructor asks for the directory, and does not note that it did.  *)
Opens ==
    /\ ~mounted
    /\ mounted' = TRUE /\ known' \in BOOLEAN
    /\ IF known' THEN fetchDir(place.path, due) ELSE UNCHANGED <<due, doubtful>>
    /\ UNCHANGED <<place, fetched, watching, contents, storeVars, lingering, tailVars, backVars, wire, lost>>
    /\ Running' <= MaxTasks

GoTo(p) ==
    /\ mounted /\ p # place
    /\ place' = p
    /\ UNCHANGED <<mounted, known, listing, lingering, wire>>
    /\ Renders(p, file, known, due)

(* An entry of the listing, joined to the path of the address, or "..".  A  *)
(* directory is not opened from the listing of another one.                *)
handleClick ==
    \/ /\ listing # None
       /\ \E f \in FilesIn[listing] : GoTo([place EXCEPT !.file = f])
    \/ \E d \in Paths \ {Top} :
           listing = ParentDir[d] /\ place.path = listing /\ GoTo([path |-> d, file |-> None])
    \/ place.path # Top /\ GoTo([path |-> ParentDir[place.path], file |-> None])

JumpBack == \E p \in Known : GoTo(p)

(* componentWillUnmount; the state goes with the component.  Where the tab *)
(* is opened next, and whether the node is there then, is open.            *)
Leaves ==
    /\ mounted
    /\ mounted' = FALSE /\ known' = FALSE /\ place' \in Known
    /\ fetched' = FALSE /\ watching' = FALSE /\ contents' = <<>>
    /\ file' = NoData
    /\ Requests(IF watching THEN {place} ELSE {}, {})
    /\ tailed' = None /\ strayed' = FALSE
    /\ orphans' = orphans \ (IF watching THEN {place} ELSE {})
    /\ UNCHANGED <<listing, dirVars, wire, lost>>

-----------------------------------------------------------------------------
(* What arrives: nodes, a listing, a frame. *)

(* A list of nodes, with the one of the allocation or without; a node, in  *)
(* the slot that holds one: the allocation's, or that of another page.     *)
NodesArrive ==
    /\ mounted /\ known' \in BOOLEAN
    /\ UNCHANGED <<place, mounted, listing, lingering, wire>>
    /\ Renders(place, file, known', due)

(* Queries answer in any order.                                            *)
DirArrives(d) ==
    /\ due[d] > 0
    /\ listing' = d
    /\ lingering' \in {lingering, lingering \cup {d}}
    /\ UNCHANGED <<place, mounted, known, wire>>
    /\ Renders(place, file, known, Answered(d))

(* The allocation, its node or its directory cannot be read, or the end of *)
(* another query has taken the key: a notification at most, no listing.    *)
DirFails(d) ==
    /\ due[d] > 0
    /\ due' = Answered(d)
    /\ doubtful' = TRUE
    /\ lingering' \in {lingering, lingering \cup {d}}
    /\ UNCHANGED <<viewVars, storeVars, tailVars, backVars, wire, lost>>

(* The query that has answered, or failed, unsubscribes.                   *)
DirEnds(d) ==
    /\ d \in lingering
    /\ lingering' = lingering \ {d}
    /\ UNCHANGED <<viewVars, storeVars, due, doubtful, tailVars, backVars, wire, lost>>

FrameArrives ==
    /\ wire # <<>>
    /\ wire' = Tail(wire)
    /\ UNCHANGED <<place, mounted, known, listing, lingering>>
    /\ Renders(place, Head(wire), known, due)

-----------------------------------------------------------------------------
(* The streams. *)

Becomes(s, t) == streams' = (streams \ {s}) \cup {t}

Sends(data) ==
    /\ Len(wire) < MaxWire
    /\ wire' = Append(wire, data)

(* The allocation, its node and the file are looked up; the reader starts. *)
StreamOpens(s) ==
    /\ ~s.open /\ s.of.file \in FilesIn[s.of.path]
    /\ Becomes(s, [s EXCEPT !.open = TRUE, !.reading = s.on])
    /\ UNCHANGED <<viewVars, storeVars, dirVars, tailVars, requested, started, wire, lost>>

(* The first frame tells the name only.                                    *)
StreamStarts(s) ==
    /\ s.open /\ ~s.head
    /\ Sends(NoData)
    /\ Becomes(s, [s EXCEPT !.head = TRUE])
    /\ UNCHANGED <<viewVars, storeVars, dirVars, tailVars, requested, started, lost>>

(* At its end a stream unsubscribes its key, and ends with it the stream   *)
(* that was started for the same file meanwhile.                           *)
Ends(s) ==
    /\ requested' = requested \ {s.of} /\ orphans' = orphans \ {s.of}
    /\ streams' = {IF t.of = s.of THEN [t EXCEPT !.on = FALSE] ELSE t : t \in streams \ {s}}

(* One of the three is not found: an error is shown.                       *)
StreamFails(s) ==
    /\ ~s.open
    /\ Ends(s)
    /\ UNCHANGED <<viewVars, storeVars, dirVars, tailed, strayed, started, wire, lost>>

(* A read that has begun goes on when the stream is given up.              *)
Reads(s) ==
    /\ s.reading
    /\ Becomes(s, [s EXCEPT !.read = @ + 1, !.offered = TRUE, !.reading = FALSE])
    /\ UNCHANGED <<viewVars, storeVars, dirVars, tailVars, requested, started, wire, lost>>

(* The sender takes the line; the reader fills the buffer again.           *)
HandsOver(s) ==
    /\ s.head /\ s.offered /\ ~s.line
    /\ Becomes(s, [s EXCEPT !.offered = FALSE, !.line = TRUE,
                            !.reading = s.on /\ s.read < MaxPieces[s.id]])
    /\ UNCHANGED <<viewVars, storeVars, dirVars, tailVars, requested, started, wire, lost>>

(* The line is a slice of the buffer, copied only now: data race, the text *)
(* is that of the line or of the one that is read over it.                 *)
SendsLine(s) ==
    /\ s.line
    /\ \E n \in (s.sent + 1)..(IF s.reading THEN s.read + 1 ELSE s.read) :
           Sends([of |-> s.id, line |-> s.sent + 1, text |-> n])
    /\ Becomes(s, [s EXCEPT !.line = FALSE, !.sent = @ + 1])
    /\ UNCHANGED <<viewVars, storeVars, dirVars, tailVars, requested, started, lost>>

(* It is given up: the sender returns; a reader that offers a line stays.  *)
StreamStops(s) ==
    /\ s.head /\ ~s.on /\ ~s.line
    /\ Ends(s)
    /\ UNCHANGED <<viewVars, storeVars, dirVars, tailed, strayed, started, wire, lost>>

FileNext ==
    \/ Opens \/ handleClick \/ JumpBack \/ Leaves
    \/ NodesArrive \/ (\E d \in Paths : DirArrives(d) \/ DirFails(d) \/ DirEnds(d)) \/ FrameArrives
    \/ \E s \in streams : StreamOpens(s) \/ StreamStarts(s) \/ StreamFails(s) \/ Reads(s)
                            \/ HandsOver(s) \/ SendsLine(s) \/ StreamStops(s)

FileSpec == FileInit /\ [][FileNext]_vars

-----------------------------------------------------------------------------
FileTypeOK ==
    /\ place \in Places /\ {mounted, known, fetched, watching, strayed, doubtful} \subseteq BOOLEAN
    /\ Len(contents) <= MaxOutput /\ Len(wire) <= MaxWire
    /\ listing \in Paths \cup {None}
    /\ due \in [Paths -> 0..MaxQueries] /\ lingering \subseteq Paths
    /\ requested \cup orphans \subseteq Places /\ tailed \in Places \cup {None}
    /\ \A s \in streams : s.id \in 1..started /\ s.sent <= s.read /\ s.read <= MaxPieces[s.id]
    /\ started <= MaxStreams

(* What the component watched last, and has not given up, is the file of   *)
(* the address, of this directory and this name, and none when it has no   *)
(* file: also when one file follows the other, which takes both ifs of one *)
(* call.  Two moves it does not follow (strayed): to a file of the same    *)
(* name in another directory, and any while the node is not known.         *)
TailsTheAddress ==
    mounted /\ fetched /\ ~strayed => tailed = (IF place.file = None THEN None ELSE place)

(* No file is tailed for nobody, after any number of moves, lost nodes and *)
(* streams that end: the connection watches the file of the address, and   *)
(* those that one of those two moves has left behind.                      *)
TailsNothingElse ==
    requested \subseteq (IF mounted /\ watching /\ ~strayed THEN {place} ELSE {}) \cup orphans

(* Of each stream the lines are shown in their order, none is shown again, *)
(* and none is left out but one that the next frame replaced in the store  *)
(* while the node was not known; each has its text, or that of the next,   *)
(* which the reader wrote over it while it was being sent.                 *)
ShowsInOrder ==
    \A j \in 1..Len(contents) :
        LET c == contents[j]
        IN  /\ c.text \in {c.line, c.line + 1}
            /\ \A i \in 1..(j - 1) : contents[i].of = c.of =>
                   /\ contents[i].line < c.line
                   /\ \/ \E k \in i..(j - 1) : contents[k].of = c.of /\ contents[k].line + 1 = c.line
                      \/ <<c.of, c.line - 1>> \in lost

(* The listing is that of the address, once all queries are answered, when *)
(* since the address last changed its directory only that directory's were *)
(* under way, one was accepted, none failed, and the node was known.       *)
ListsTheAddress ==
    mounted /\ fetched /\ ~doubtful /\ (\A d \in Paths : due[d] = 0) => listing = place.path
=============================================================================
