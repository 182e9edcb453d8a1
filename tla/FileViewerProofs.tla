-------------------------- MODULE FileViewerProofs -----------------------------
(***************************************************************************)
(* What the component tails is the file of its address, and nothing else   *)
(* is tailed for it; it lists the directory of its address, and shows the  *)
(* lines of a stream in order, for every value of the constants.           *)
(*                                                                         *)
(* A line is on its way from the stream to the screen: on the wire, in the *)
(* store, in the contents.  OrderInv says that the three, one after the    *)
(* other, are in order and without a gap but for what was replaced in the  *)
(* store, and end with what the stream has sent last: so that a step which *)
(* only forgets the oldest, or moves one on, keeps it.                     *)
(***************************************************************************)
EXTENDS FileViewer, FiniteSetTheorems, SequenceTheorems, TLAPS

(* The component tails a file only once it has fetched a listing, while it *)
(* is open; from then on it is that of the address, until it strays.       *)
TailsInv ==
    /\ place \in Places /\ listing \in Paths \cup {None}
    /\ fetched => mounted
    /\ watching => fetched
    /\ watching = (tailed # None)
    /\ fetched /\ ~strayed => tailed = (IF place.file = None THEN None ELSE place)

(* What is watched is the file that is tailed, or an orphan; the file from *)
(* which the address has strayed is both.                                  *)
WatchedInv ==
    /\ requested \subseteq ({tailed} \ {None}) \cup orphans
    /\ strayed /\ watching /\ tailed \in requested => tailed \in orphans

FileInv == TailsInv /\ WatchedInv

LEMMA InitFileInv == FileInit => FileInv
BY FileAssumption DEF FileInit, FileInv, TailsInv, WatchedInv

(* What is tailed for an address that has not strayed is given up with it. *)
LEMMA TailedIsPlace ==
    ASSUME FileInv, NEW r \in requested, r \notin orphans
    PROVE  watching /\ r = tailed /\ r = place /\ place.file # None
<1>1. r = tailed /\ watching
  BY DEF FileInv, TailsInv, WatchedInv
<1>2. ~strayed
  BY <1>1 DEF FileInv, WatchedInv
<1>3. tailed = (IF place.file = None THEN None ELSE place) /\ tailed # None
  BY <1>1, <1>2 DEF FileInv, TailsInv
<1> QED BY <1>1, <1>3

(* componentWillReceiveProps: both ifs of one call.                        *)
LEMMA ReceivesKeeps ==
    ASSUME FileInv, NEW p \in Places, NEW f, NEW isKnown, NEW answers,
           Receives(p, f, isKnown, answers), place' = p, mounted' = mounted,
           listing' \in Paths \cup {None}
    PROVE  FileInv'
<1>1. /\ mounted /\ fetched' = TRUE /\ watching' = Watches(p)
      /\ requested' = (requested \ GivesUp(p)) \cup (IF Takes(p) THEN {p} ELSE {})
      /\ tailed' = IF Takes(p) THEN p ELSE IF Watches(p) /\ ~Takes(p) THEN tailed ELSE None
      /\ strayed' = (Watches(p) /\ ~Takes(p) /\ (strayed \/ place.path # p.path))
      /\ orphans' = ((orphans \ GivesUp(p)) \ (IF Takes(p) THEN {p} ELSE {}))
                      \cup (IF watching /\ ~Drops(p) /\ place.path # p.path /\ tailed = place
                            THEN {place} \cap requested' ELSE {})
  BY DEF Receives, Requests
<1>2. p # None /\ place \in Places
  BY FileAssumption DEF FileInv, TailsInv
<1>3. CASE Takes(p)
  <2>1. /\ watching' /\ tailed' = p /\ ~strayed' /\ p.file # None
        /\ watching => Drops(p)
    BY <1>1, <1>3 DEF Watches, Takes
  <2>2. orphans' = (orphans \ GivesUp(p)) \ {p} /\ requested' = (requested \ GivesUp(p)) \cup {p}
    BY <1>1, <1>3, <2>1
  <2>3. ASSUME NEW r \in requested', r # p PROVE r \in orphans'
    <3>1. CASE r \in orphans
      BY <2>2, <2>3, <3>1
    <3>2. CASE r \notin orphans
      BY <2>1, <2>2, <2>3, <3>2, TailedIsPlace DEF GivesUp
    <3> QED BY <3>1, <3>2
  <2> QED BY <1>1, <1>2, <2>1, <2>3 DEF FileInv, TailsInv, WatchedInv
<1>4. CASE ~Takes(p) /\ watching /\ ~Drops(p)
  <2>1. /\ watching' /\ tailed' = tailed /\ strayed' = (strayed \/ place.path # p.path)
        /\ requested' = requested /\ tailed # None
        /\ orphans' = orphans \cup (IF place.path # p.path /\ tailed = place
                                    THEN {place} \cap requested ELSE {})
    BY <1>1, <1>4 DEF Watches, GivesUp, FileInv, TailsInv
  <2>2. ~strayed => tailed = place /\ place.file # None
    BY <1>4, <2>1 DEF FileInv, TailsInv
  <2>3. ASSUME ~strayed' PROVE tailed' = p /\ p.file # None
    <3>1. place.path = p.path /\ place.file = p.file /\ place.file # None
      BY <1>4, <2>1, <2>2, <2>3 DEF Drops
    <3>2. place = p
      BY <1>2, <3>1 DEF Places
    <3> QED BY <2>1, <2>2, <2>3, <3>1, <3>2
  <2>4. strayed' /\ tailed' \in requested' => tailed' \in orphans'
    BY <1>4, <2>1, <2>2 DEF FileInv, WatchedInv
  <2>5. requested' \subseteq ({tailed'} \ {None}) \cup orphans'
    BY <2>1 DEF FileInv, WatchedInv
  <2> QED BY <1>1, <2>1, <2>3, <2>4, <2>5 DEF FileInv, TailsInv, WatchedInv
<1>5. CASE ~Takes(p) /\ ~(watching /\ ~Drops(p))
  <2>1. /\ watching' = FALSE /\ tailed' = None /\ ~strayed' /\ p.file = None
        /\ watching => Drops(p)
    BY <1>1, <1>5 DEF Watches, Takes
  <2>2. orphans' = orphans \ GivesUp(p) /\ requested' = requested \ GivesUp(p)
    BY <1>1, <1>5
  <2>3. ASSUME NEW r \in requested' PROVE r \in orphans'
    <3>1. CASE r \in orphans
      BY <2>2, <2>3, <3>1
    <3>2. CASE r \notin orphans
      BY <2>1, <2>2, <2>3, <3>2, TailedIsPlace DEF GivesUp
    <3> QED BY <3>1, <3>2
  <2>4. TailsInv'
    BY <1>1, <1>2, <2>1 DEF TailsInv
  <2>5. WatchedInv'
    BY <2>1, <2>3 DEF WatchedInv
  <2> QED BY <2>4, <2>5 DEF FileInv
<1> QED BY <1>3, <1>4, <1>5

(* It returns early: what it tails stays behind when the address moves.    *)
LEMMA IgnoresKeeps ==
    ASSUME FileInv, NEW p \in Places, NEW f, NEW isKnown, NEW answers,
           Ignores(p, f, isKnown, answers), place' = p, mounted' = mounted,
           listing' \in Paths \cup {None}
    PROVE  FileInv'
<1>1. /\ UNCHANGED <<fetched, watching, tailed, requested>>
      /\ strayed' = (strayed \/ (mounted /\ p # place))
      /\ orphans' = orphans \cup (IF (mounted /\ p # place) /\ watching /\ tailed = place
                                  THEN {place} \cap requested ELSE {})
  BY DEF Ignores, backVars
<1>2. fetched' /\ ~strayed' => fetched /\ ~strayed /\ p = place
  BY <1>1 DEF FileInv, TailsInv
<1>3. TailsInv'
  BY <1>1, <1>2 DEF FileInv, TailsInv
<1>4. ASSUME strayed', watching', tailed' \in requested' PROVE tailed' \in orphans'
  <2>1. CASE strayed
    BY <1>1, <1>4, <2>1 DEF FileInv, WatchedInv
  <2>2. CASE ~strayed
    <3>1. mounted /\ p # place /\ watching /\ tailed = place
      BY <1>1, <1>4, <2>2 DEF FileInv, TailsInv
    <3> QED BY <1>1, <1>4, <3>1
  <2> QED BY <2>1, <2>2
<1>5. requested' \subseteq ({tailed'} \ {None}) \cup orphans'
  BY <1>1 DEF FileInv, WatchedInv
<1> QED BY <1>3, <1>4, <1>5 DEF FileInv, WatchedInv

LEMMA RendersKeeps ==
    ASSUME FileInv, place' \in Places, NEW f, NEW isKnown, NEW answers,
           Renders(place', f, isKnown, answers), mounted' = mounted,
           listing' \in Paths \cup {None}
    PROVE  FileInv'
BY ReceivesKeeps, IgnoresKeeps DEF Renders

(* The user moves among addresses of the kind.                             *)
LEMMA MovesWithin ==
    ASSUME FileInv, handleClick \/ JumpBack
    PROVE  \E p \in Places : GoTo(p)
<1>1. place \in Places /\ place.path \in Paths /\ listing \in Paths \cup {None}
  BY DEF FileInv, TailsInv, Places
<1>2. ASSUME listing # None, NEW f \in FilesIn[listing], GoTo([place EXCEPT !.file = f])
      PROVE  \E p \in Places : GoTo(p)
  <2>1. f \in Files
    BY <1>1, <1>2, FileAssumption
  <2>2. [place EXCEPT !.file = f] \in Places
    BY <1>1, <2>1 DEF Places
  <2> QED BY <1>2, <2>2
<1>3. ASSUME NEW d \in Paths, GoTo([path |-> d, file |-> None])
      PROVE  \E p \in Places : GoTo(p)
  BY <1>3 DEF Places
<1>4. ParentDir[place.path] \in Paths
  BY <1>1, FileAssumption
<1>5. CASE handleClick
  BY <1>2, <1>3, <1>4, <1>5 DEF handleClick
<1>6. CASE JumpBack
  BY <1>6, FileAssumption DEF JumpBack
<1> QED BY <1>5, <1>6

LEMMA OpensKeeps == FileInv /\ Opens => FileInv'
<1> SUFFICES ASSUME FileInv, Opens PROVE FileInv'
  OBVIOUS
<1>1. /\ ~mounted /\ mounted' = TRUE
      /\ UNCHANGED <<place, fetched, watching, listing, tailed, strayed, orphans, requested>>
  BY DEF Opens, storeVars, tailVars, backVars
<1>2. ~fetched
  BY <1>1 DEF FileInv, TailsInv
<1> QED BY <1>1, <1>2 DEF FileInv, TailsInv, WatchedInv

LEMMA LeavesKeeps == FileInv /\ Leaves => FileInv'
<1> SUFFICES ASSUME FileInv, Leaves PROVE FileInv'
  OBVIOUS
<1>1. /\ place' \in Places /\ fetched' = FALSE /\ watching' = FALSE /\ listing' = listing
      /\ tailed' = None /\ strayed' = FALSE
      /\ requested' = requested \ (IF watching THEN {place} ELSE {})
      /\ orphans' = orphans \ (IF watching THEN {place} ELSE {})
  BY FileAssumption DEF Leaves, Requests
<1>2. requested' \subseteq orphans'
  BY <1>1, TailedIsPlace
<1> QED BY <1>1, <1>2 DEF FileInv, TailsInv, WatchedInv

(* A stream touches the table at its end: its key goes.                    *)
LEMMA StreamKeeps ==
    ASSUME FileInv, UNCHANGED <<viewVars, listing, tailed, strayed>>,
           \/ UNCHANGED <<requested, orphans>>
           \/ \E o : requested' = requested \ {o} /\ orphans' = orphans \ {o}
    PROVE  FileInv'
<1>1. TailsInv'
  BY DEF FileInv, TailsInv, viewVars
<1>2. WatchedInv'
  BY DEF FileInv, WatchedInv, viewVars
<1> QED BY <1>1, <1>2 DEF FileInv

LEMMA StepKeeps == FileInv /\ [FileNext]_vars => FileInv'
<1> SUFFICES ASSUME FileInv, [FileNext]_vars PROVE FileInv' OBVIOUS
<1>0. place \in Places /\ listing \in Paths \cup {None}
  BY DEF FileInv, TailsInv
<1>1. CASE Opens
  BY <1>1, OpensKeeps
<1>2. CASE handleClick \/ JumpBack
  <2>1. PICK p \in Places : GoTo(p)
    BY <1>2, MovesWithin
  <2>2. place' = p /\ Renders(place', file, known, due) /\ UNCHANGED <<mounted, listing>>
    BY <2>1 DEF GoTo
  <2> QED BY <1>0, <2>2, RendersKeeps
<1>3. CASE Leaves
  BY <1>3, LeavesKeeps
<1>4. CASE NodesArrive
  <2>1. Renders(place', file, known', due) /\ UNCHANGED <<place, mounted, listing>>
    BY <1>4 DEF NodesArrive
  <2> QED BY <1>0, <2>1, RendersKeeps
<1>5. ASSUME NEW d \in Paths, DirArrives(d) PROVE FileInv'
  <2>1. /\ Renders(place', file, known, Answered(d)) /\ UNCHANGED <<place, mounted>>
        /\ listing' \in Paths
    BY <1>5 DEF DirArrives
  <2> QED BY <1>0, <2>1, RendersKeeps
<1>6. ASSUME NEW d \in Paths, DirFails(d) \/ DirEnds(d) PROVE FileInv'
  BY <1>6, StreamKeeps DEF DirFails, DirEnds, storeVars, tailVars, backVars
<1>7. CASE FrameArrives
  <2>1. Renders(place', Head(wire), known, due) /\ UNCHANGED <<place, mounted, listing>>
    BY <1>7 DEF FrameArrives
  <2> QED BY <1>0, <2>1, RendersKeeps
<1>8. ASSUME NEW s \in streams,
             StreamOpens(s) \/ StreamStarts(s) \/ Reads(s) \/ HandsOver(s) \/ SendsLine(s)
      PROVE  FileInv'
  BY <1>8, StreamKeeps
     DEF StreamOpens, StreamStarts, Reads, HandsOver, SendsLine, storeVars, tailVars
<1>9. ASSUME NEW s \in streams, StreamFails(s) \/ StreamStops(s) PROVE FileInv'
  <2>1. UNCHANGED <<viewVars, listing, tailed, strayed>>
    BY <1>9 DEF StreamFails, StreamStops, storeVars
  <2>2. requested' = requested \ {s.of} /\ orphans' = orphans \ {s.of}
    BY <1>9 DEF StreamFails, StreamStops, Ends
  <2> QED BY <2>1, <2>2, StreamKeeps
<1>10. CASE UNCHANGED vars
  BY <1>10, StreamKeeps DEF vars, storeVars, tailVars, backVars
<1> QED BY <1>1, <1>2, <1>3, <1>4, <1>5, <1>6, <1>7, <1>8, <1>9, <1>10 DEF FileNext

LEMMA FileInvHolds == FileSpec => []FileInv
BY InitFileInv, StepKeeps, PTL DEF FileSpec

(* AllocationFiles.js:48-102: however the address moves, between files and *)
(* directories and back, and the node is lost and found, what is tailed is *)
(* the file of the address, and none when it has none; but for the two     *)
(* moves which the component does not follow.                              *)
THEOREM FilesTailsTheAddress == FileSpec => []TailsTheAddress
<1>1. FileInv => TailsTheAddress BY DEF FileInv, TailsInv, TailsTheAddress
<1> QED BY <1>1, FileInvHolds, PTL

(* AllocationFiles.js:48-137: after any number of moves nothing is watched *)
(* but the file of the address, and those that such a move left behind.    *)
THEOREM FilesTailsNothingElse == FileSpec => []TailsNothingElse
<1>1. FileInv => TailsNothingElse
  <2> SUFFICES ASSUME FileInv, NEW r \in requested, r \notin orphans
               PROVE  mounted /\ watching /\ ~strayed /\ r = place
    BY DEF TailsNothingElse
  <2>1. watching /\ r = tailed /\ r = place
    BY TailedIsPlace
  <2> QED BY <2>1 DEF FileInv, TailsInv, WatchedInv
<1> QED BY <1>1, FileInvHolds, PTL

-----------------------------------------------------------------------------
(* The types, and the two goroutines of a stream. *)

Streams ==
    [id : Nat, of : Places, on : BOOLEAN, open : BOOLEAN, head : BOOLEAN,
     reading : BOOLEAN, read : Nat, offered : BOOLEAN, line : BOOLEAN, sent : Nat]
Frames == Pieces \cup {NoData}

ViewTypes ==
    /\ place \in Places /\ {mounted, known, fetched, watching, strayed, doubtful} \subseteq BOOLEAN
    /\ listing \in Paths \cup {None}
    /\ due \in [Paths -> 0..MaxQueries] /\ lingering \subseteq Paths
    /\ requested \cup orphans \subseteq Places /\ tailed \in Places \cup {None}
    /\ contents \in Seq(Pieces) /\ Len(contents) <= MaxOutput
    /\ file \in Frames
    /\ wire \in Seq(Frames) /\ Len(wire) <= MaxWire

(* What a reader has read and the sender not sent is the line between them *)
(* and the one that the reader offers; it reads no further while it offers *)
(* one.                                                                    *)
Fits(s) ==
    /\ s.id \in 1..MaxStreams /\ s.read <= MaxPieces[s.id]
    /\ s.read = s.sent + (IF s.line THEN 1 ELSE 0) + (IF s.offered THEN 1 ELSE 0)
    /\ s.reading => ~s.offered /\ s.read < MaxPieces[s.id]
    /\ ~s.open => s.read = 0 /\ ~s.reading

StreamTypes ==
    /\ started \in Nat /\ started <= MaxStreams
    /\ streams \subseteq Streams
    /\ \A s \in streams : s.id <= started /\ Fits(s)
    /\ \A s, t \in streams : s.id = t.id => s = t

(* The listing that is shown is that of the address, or the one that will  *)
(* replace it is asked for, and no other.                                  *)
ListingInv ==
    fetched /\ ~doubtful =>
        /\ \A d \in Paths : due[d] > 0 => d = place.path
        /\ (\A d \in Paths : due[d] = 0) => listing = place.path

-----------------------------------------------------------------------------
(* The way of the lines. *)

On(q) == {q[i] : i \in 1..Len(q)}
Held(f) == {f} \ {NoData}
Coming(w) == {w[i] : i \in 1..Len(w)} \ {NoData}

Rises(q) ==
    \A i, j \in 1..Len(q) : i < j /\ q[i].of = q[j].of => q[i].line < q[j].line

RisesOn(w) ==
    \A i, j \in 1..Len(w) :
        i < j /\ w[i] # NoData /\ w[j] # NoData /\ w[i].of = w[j].of
            => w[i].line < w[j].line

Precede(A, B) == \A a \in A, b \in B : a.of = b.of => a.line < b.line

(* Two lines have all between them, but what is in L.                      *)
NoGap(P, L) ==
    \A a, b \in P : a.of = b.of /\ a.line < b.line =>
        (\E c \in P : c.of = b.of /\ c.line + 1 = b.line) \/ <<b.of, b.line - 1>> \in L

(* The lines of q, then f, then w, of any stream.                          *)
Follow(q, f, w, L) ==
    /\ Rises(q) /\ RisesOn(w)
    /\ Precede(On(q), Held(f)) /\ Precede(On(q), Coming(w)) /\ Precede(Held(f), Coming(w))
    /\ NoGap(On(q) \cup Held(f) \cup Coming(w), L)

(* P ends with what the stream s has sent last, unless that is in L.       *)
EndsAt(P, L, s) ==
    \A a \in P : a.of = s.id =>
        /\ a.line <= s.sent
        /\ (\E b \in P : b.of = s.id /\ b.line = s.sent) \/ <<s.id, s.sent>> \in L

Written(P) == \A a \in P : a.text \in {a.line, a.line + 1}

Underway == On(contents) \cup Held(file) \cup Coming(wire)

OrderInv ==
    /\ Follow(contents, file, wire, lost)
    /\ \A a \in Underway : a.of <= started
    /\ \A s \in streams : EndsAt(Underway, lost, s)
    /\ Written(Underway)
    /\ ~watching => contents = <<>>
    /\ watching /\ known => file = NoData

(* R is what is left of P, K what is lost then, of which L was before.      *)
LeftOf(P, L, R, K) ==
    R \subseteq P /\ \A s \in Streams : EndsAt(P, L, s) => EndsAt(R, K, s)

(* What forgets the oldest lines leaves no gap, and ends where it did.     *)
LEMMA ForgetsOldest ==
    ASSUME NEW P \in SUBSET Pieces, NEW R \in SUBSET P, NEW L, Precede(P \ R, R), NoGap(P, L)
    PROVE  NoGap(R, L) /\ LeftOf(P, L, R, L)
<1>1. ASSUME NEW a \in R, NEW b \in R, a.of = b.of, a.line < b.line,
             <<b.of, b.line - 1>> \notin L
      PROVE  \E c \in R : c.of = b.of /\ c.line + 1 = b.line
  <2>1. PICK c \in P : c.of = b.of /\ c.line + 1 = b.line
    BY <1>1 DEF NoGap
  <2>2. a.line \in Nat /\ b.line \in Nat /\ c.line \in Nat
    BY DEF Pieces
  <2>3. ~(c.line < a.line)
    BY <1>1, <2>1, <2>2
  <2>4. c \in R
    BY <1>1, <2>1, <2>3 DEF Precede
  <2> QED BY <2>1, <2>4
<1>2. ASSUME NEW s \in Streams, EndsAt(P, L, s), NEW a \in R, a.of = s.id
      PROVE  /\ a.line <= s.sent
             /\ (\E b \in R : b.of = s.id /\ b.line = s.sent) \/ <<s.id, s.sent>> \in L
  <2>1. a.line <= s.sent
    BY <1>2 DEF EndsAt
  <2>2. CASE <<s.id, s.sent>> \in L
    BY <2>1, <2>2
  <2>3. CASE <<s.id, s.sent>> \notin L
    <3>1. PICK b \in P : b.of = s.id /\ b.line = s.sent
      BY <1>2, <2>3 DEF EndsAt
    <3>2. a.line \in Nat /\ b.line \in Nat
      BY DEF Pieces
    <3>3. ~(b.line < a.line)
      BY <2>1, <3>1, <3>2
    <3>4. b \in R
      BY <1>2, <3>1, <3>3 DEF Precede
    <3> QED BY <2>1, <3>1, <3>4
  <2> QED BY <2>2, <2>3
<1>3. NoGap(R, L)
  BY <1>1 DEF NoGap
<1>4. ASSUME NEW s \in Streams, EndsAt(P, L, s) PROVE EndsAt(R, L, s)
  BY <1>2, <1>4 DEF EndsAt
<1> QED BY <1>3, <1>4 DEF LeftOf

LEMMA TheyArePieces ==
    ASSUME NEW q \in Seq(Pieces), NEW f \in Frames, NEW w \in Seq(Frames)
    PROVE  On(q) \subseteq Pieces /\ Held(f) \subseteq Pieces /\ Coming(w) \subseteq Pieces
<1>1. On(q) \subseteq Pieces
  BY DEF On
<1>2. Held(f) \subseteq Pieces
  BY DEF Held, Frames
<1>3. Coming(w) \subseteq Pieces
  <2>1. \A i \in 1..Len(w) : w[i] \in Frames
    OBVIOUS
  <2> QED BY <2>1 DEF Coming, Frames
<1> QED BY <1>1, <1>2, <1>3

(* The oldest lines on the screen go.                                      *)
LEMMA ScreenForgets ==
    ASSUME NEW q \in Seq(Pieces), NEW r \in Seq(Pieces), NEW k \in 0..Len(q),
           Len(r) = Len(q) - k, \A i \in 1..Len(r) : r[i] = q[i + k],
           NEW f \in Frames, NEW w \in Seq(Frames), NEW L, Follow(q, f, w, L)
    PROVE  LET P == On(q) \cup Held(f) \cup Coming(w)
               R == On(r) \cup Held(f) \cup Coming(w)
           IN  Follow(r, f, w, L) /\ LeftOf(P, L, R, L)
<1> DEFINE P == On(q) \cup Held(f) \cup Coming(w)
           R == On(r) \cup Held(f) \cup Coming(w)
<1>1. Len(q) \in Nat /\ Len(r) \in Nat /\ \A i \in 1..Len(r) : i + k \in 1..Len(q)
  OBVIOUS
<1>2. On(r) \subseteq On(q)
  BY <1>1 DEF On
<1>3. Rises(r)
  <2> SUFFICES ASSUME NEW i \in 1..Len(r), NEW j \in 1..Len(r), i < j, r[i].of = r[j].of
               PROVE  r[i].line < r[j].line
    BY DEF Rises
  <2>1. i + k < j + k /\ r[i] = q[i + k] /\ r[j] = q[j + k]
    BY <1>1
  <2> QED BY <1>1, <2>1 DEF Follow, Rises
<1>4. ASSUME NEW a \in On(q), a \notin On(r), NEW b \in On(r), a.of = b.of
      PROVE  a.line < b.line
  <2>1. PICK i \in 1..Len(q) : a = q[i]
    BY DEF On
  <2>2. PICK j \in 1..Len(r) : b = r[j]
    BY DEF On
  <2>3. i <= k
    <3>1. SUFFICES ASSUME i > k PROVE FALSE
      BY <1>1
    <3>2. i - k \in 1..Len(r) /\ (i - k) + k = i
      BY <3>1
    <3>3. r[i - k] = q[i]
      BY <3>2
    <3> QED BY <1>4, <2>1, <3>2, <3>3 DEF On
  <2>4. i < j + k /\ b = q[j + k] /\ j + k \in 1..Len(q)
    BY <1>1, <2>2, <2>3
  <2> QED BY <1>4, <2>1, <2>4 DEF Follow, Rises
<1>5. Precede(P \ R, R)
  BY <1>4 DEF Follow, Precede
<1>6. Precede(On(r), Held(f)) /\ Precede(On(r), Coming(w))
  BY <1>2 DEF Follow, Precede
<1>7. P \in SUBSET Pieces /\ R \in SUBSET P
  BY <1>2, TheyArePieces
<1>8. NoGap(P, L)
  BY DEF Follow
<1>9. NoGap(R, L) /\ LeftOf(P, L, R, L)
  <2> HIDE DEF P, R
  <2> QED BY <1>5, <1>7, <1>8, ForgetsOldest
<1>10. Follow(r, f, w, L)
  BY <1>3, <1>6, <1>9 DEF Follow
<1> QED BY <1>7, <1>9, <1>10

(* What the store holds goes, when nothing is on the screen.               *)
LEMMA StoreForgets ==
    ASSUME NEW f \in Frames, NEW g \in Frames, g = NoData,
           NEW w \in Seq(Frames), NEW L, Follow(<<>>, f, w, L)
    PROVE  LET P == On(<<>>) \cup Held(f) \cup Coming(w)
               R == On(<<>>) \cup Held(g) \cup Coming(w)
           IN  Follow(<<>>, g, w, L) /\ LeftOf(P, L, R, L)
<1> DEFINE P == On(<<>>) \cup Held(f) \cup Coming(w)
           R == On(<<>>) \cup Held(g) \cup Coming(w)
<1>1. On(<<>>) = {} /\ Held(g) = {}
  BY DEF On, Held
<1>2. <<>> \in Seq(Pieces)
  OBVIOUS
<1>3. P \in SUBSET Pieces /\ R \in SUBSET P
  BY <1>1, <1>2, TheyArePieces
<1>4. NoGap(P, L)
  BY DEF Follow
<1>5. Precede(P \ R, R)
  BY <1>1 DEF Follow, Precede
<1>6. NoGap(R, L) /\ LeftOf(P, L, R, L)
  <2> HIDE DEF P, R
  <2> QED BY <1>3, <1>4, <1>5, ForgetsOldest
<1>7. Follow(<<>>, g, w, L)
  BY <1>1, <1>6 DEF Follow, Precede
<1> QED BY <1>3, <1>6, <1>7

(* What the store holds is replaced, unseen: it is lost.                   *)
LEMMA StoreReplaced ==
    ASSUME NEW q \in Seq(Pieces), NEW f \in Frames, f # NoData,
           NEW g \in Frames, g = NoData,
           NEW w \in Seq(Frames), NEW L, NEW K, K = L \cup LineOf(f), Follow(q, f, w, L)
    PROVE  LET P == On(q) \cup Held(f) \cup Coming(w)
               R == On(q) \cup Held(g) \cup Coming(w)
           IN  Follow(q, g, w, K) /\ LeftOf(P, L, R, K)
<1> DEFINE P == On(q) \cup Held(f) \cup Coming(w)
           R == On(q) \cup Held(g) \cup Coming(w)
<1>1. /\ Held(g) = {} /\ Held(f) = {f} /\ P = R \cup {f}
      /\ P \in SUBSET Pieces /\ NoGap(P, L)
  BY TheyArePieces DEF Held, Follow
<1>2. L \subseteq K /\ <<f.of, f.line>> \in K
  BY DEF LineOf
<1>3. Rises(q) /\ RisesOn(w) /\ Precede(On(q), Coming(w))
  BY DEF Follow
<1> HIDE DEF P, R
<1>4. ASSUME NEW a \in R, NEW b \in R, a.of = b.of, a.line < b.line
      PROVE  (\E c \in R : c.of = b.of /\ c.line + 1 = b.line) \/ <<b.of, b.line - 1>> \in K
  <2>1. CASE <<b.of, b.line - 1>> \in L
    BY <1>2, <2>1
  <2>2. ASSUME NEW c \in P, c.of = b.of, c.line + 1 = b.line
        PROVE  c \in R \/ <<b.of, b.line - 1>> \in K
    <3>1. c.line \in Nat /\ b.line \in Nat
      BY <1>1 DEF Pieces
    <3>2. b.line - 1 = c.line
      BY <2>2, <3>1
    <3> QED BY <1>1, <1>2, <2>2, <3>2
  <2> QED BY <1>1, <1>4, <2>1, <2>2 DEF NoGap
<1>5. ASSUME NEW s \in Streams, EndsAt(P, L, s) PROVE EndsAt(R, K, s)
  BY <1>1, <1>2, <1>5 DEF EndsAt
<1>6. NoGap(R, K)
  BY <1>4 DEF NoGap
<1>7. Follow(q, g, w, K)
  BY <1>1, <1>3, <1>6 DEF Follow, Precede, R
<1> QED BY <1>1, <1>5, <1>7 DEF LeftOf, P, R

(* A frame goes from the wire to the store.                                *)
LEMMA FrameMoves ==
    ASSUME NEW q \in Seq(Pieces), NEW f \in Frames, f = NoData,
           NEW w \in Seq(Frames), w # <<>>, NEW L, Follow(q, f, w, L)
    PROVE  /\ Follow(q, Head(w), Tail(w), L)
           /\ Held(f) \cup Coming(w) = Held(Head(w)) \cup Coming(Tail(w))
<1> DEFINE h == Head(w)
           t == Tail(w)
<1>1. /\ Len(w) \in Nat /\ Len(w) > 0 /\ h = w[1] /\ Len(t) = Len(w) - 1
      /\ \A i \in 1..Len(t) : t[i] = w[i + 1] /\ i + 1 \in 1..Len(w)
      /\ 1 \in 1..Len(w)
  OBVIOUS
<1>2. ASSUME NEW i \in 1..Len(w), i # 1
      PROVE  i - 1 \in 1..Len(t) /\ t[i - 1] = w[i]
  <2>1. i - 1 \in 1..Len(t) /\ (i - 1) + 1 = i
    BY <1>1, <1>2
  <2> QED BY <1>1, <2>1
<1> HIDE DEF h, t
<1>3. Coming(w) \subseteq Held(h) \cup Coming(t)
  <2>1. ASSUME NEW i \in 1..Len(w), w[i] # NoData
        PROVE  w[i] \in Held(h) \cup Coming(t)
    <3>1. CASE i = 1
      BY <1>1, <2>1, <3>1 DEF Held
    <3>2. CASE i # 1
      BY <1>2, <2>1, <3>2 DEF Coming
    <3> QED BY <3>1, <3>2
  <2> QED BY <2>1 DEF Coming
<1>4. Held(h) \subseteq Coming(w)
  BY <1>1 DEF Held, Coming
<1>5. Coming(t) \subseteq Coming(w)
  BY <1>1 DEF Coming
<1>6. Held(f) = {}
  BY DEF Held
<1>7. RisesOn(t)
  <2> SUFFICES ASSUME NEW i \in 1..Len(t), NEW j \in 1..Len(t), i < j,
                      t[i] # NoData, t[j] # NoData, t[i].of = t[j].of
               PROVE  t[i].line < t[j].line
    BY DEF RisesOn
  <2>1. /\ t[i] = w[i + 1] /\ t[j] = w[j + 1] /\ i + 1 < j + 1
        /\ i + 1 \in 1..Len(w) /\ j + 1 \in 1..Len(w)
    BY <1>1
  <2> QED BY <2>1 DEF Follow, RisesOn
<1>8. Precede(Held(h), Coming(t))
  <2> SUFFICES ASSUME h # NoData, NEW j \in 1..Len(t), t[j] # NoData,
                      h.of = t[j].of
               PROVE  h.line < t[j].line
    BY DEF Precede, Held, Coming
  <2>1. t[j] = w[j + 1] /\ j + 1 \in 1..Len(w) /\ 1 < j + 1
    BY <1>1
  <2> QED BY <1>1, <2>1 DEF Follow, RisesOn
<1>9. Precede(On(q), Held(h)) /\ Precede(On(q), Coming(t))
  BY <1>4, <1>5 DEF Follow, Precede
<1>10. Held(f) \cup Coming(w) = Held(h) \cup Coming(t)
  BY <1>3, <1>4, <1>5, <1>6
<1>11. On(q) \cup Held(f) \cup Coming(w) = On(q) \cup Held(h) \cup Coming(t)
  BY <1>10
<1>12. NoGap(On(q) \cup Held(h) \cup Coming(t), L)
  BY <1>11 DEF Follow
<1> QED BY <1>7, <1>8, <1>9, <1>10, <1>12 DEF Follow, h, t

(* A line goes from the store to the screen.                               *)
LEMMA LineIsShown ==
    ASSUME NEW q \in Seq(Pieces), NEW f \in Frames, f # NoData,
           NEW g \in Frames, g = NoData,
           NEW w \in Seq(Frames), NEW L, Follow(q, f, w, L)
    PROVE  /\ q \o <<f>> \in Seq(Pieces) /\ Len(q \o <<f>>) = Len(q) + 1
           /\ Follow(q \o <<f>>, g, w, L)
           /\ On(q \o <<f>>) \cup Held(g) = On(q) \cup Held(f)
<1> DEFINE r == q \o <<f>>
<1>1. /\ f \in Pieces /\ r \in Seq(Pieces)
      /\ Len(q) \in Nat /\ Len(r) = Len(q) + 1
      /\ \A i \in 1..Len(q) : r[i] = q[i]
      /\ r[Len(q) + 1] = f
  BY DEF Frames
<1> HIDE DEF r
<1>2. On(r) = On(q) \cup {f}
  BY <1>1 DEF On
<1>3. Held(g) = {} /\ Held(f) = {f}
  BY DEF Held
<1>4. Rises(r)
  <2> SUFFICES ASSUME NEW i \in 1..Len(r), NEW j \in 1..Len(r), i < j, r[i].of = r[j].of
               PROVE  r[i].line < r[j].line
    BY DEF Rises
  <2>1. i \in 1..Len(q)
    BY <1>1
  <2>2. CASE j \in 1..Len(q)
    BY <1>1, <2>1, <2>2 DEF Follow, Rises
  <2>3. CASE j = Len(q) + 1
    <3>1. q[i] \in On(q) /\ r[i] = q[i] /\ r[j] = f
      BY <1>1, <2>1, <2>3 DEF On
    <3> QED BY <1>3, <3>1 DEF Follow, Precede
  <2> QED BY <1>1, <2>2, <2>3
<1>5. Precede(On(r), Coming(w)) /\ Precede(On(r), Held(g)) /\ Precede(Held(g), Coming(w))
  BY <1>2, <1>3 DEF Follow, Precede
<1>6. On(r) \cup Held(g) \cup Coming(w) = On(q) \cup Held(f) \cup Coming(w)
  BY <1>2, <1>3
<1>7. NoGap(On(r) \cup Held(g) \cup Coming(w), L)
  BY <1>6 DEF Follow
<1>8. Follow(r, g, w, L)
  BY <1>4, <1>5, <1>7 DEF Follow
<1> QED BY <1>1, <1>2, <1>3, <1>8 DEF r

LEMMA ComingGrows ==
    ASSUME NEW w \in Seq(Frames), NEW x \in Frames, NEW v, v = Append(w, x)
    PROVE  Coming(v) = Coming(w) \cup Held(x)
<1>1. /\ Len(w) \in Nat /\ Len(v) = Len(w) + 1
      /\ \A i \in 1..Len(w) : v[i] = w[i]
      /\ v[Len(w) + 1] = x
  OBVIOUS
<1> QED BY <1>1 DEF Coming, Held

(* A stream sends: its next line, or a frame without one.                  *)
LEMMA WireGrows ==
    ASSUME NEW q \in Seq(Pieces), NEW f \in Frames, NEW w \in Seq(Frames),
           NEW x \in Frames, NEW v, v = Append(w, x), NEW L, Follow(q, f, w, L)
    PROVE  LET P == On(q) \cup Held(f) \cup Coming(w)
           IN  /\ x = NoData => Follow(q, f, v, L)
               /\ \A s \in Streams :
                      /\ EndsAt(P, L, s)
                      /\ x # NoData /\ x.of = s.id /\ x.line = s.sent + 1
                      => Follow(q, f, v, L)
<1> DEFINE P == On(q) \cup Held(f) \cup Coming(w)
<1>1. /\ v \in Seq(Frames) /\ Len(w) \in Nat /\ Len(v) = Len(w) + 1
      /\ \A i \in 1..Len(w) : v[i] = w[i]
      /\ v[Len(w) + 1] = x
  OBVIOUS
<1>2. Coming(v) = Coming(w) \cup Held(x)
  BY ComingGrows
<1>3. ASSUME x = NoData PROVE Follow(q, f, v, L)
  <2>1. Coming(v) = Coming(w)
    BY <1>2, <1>3 DEF Held
  <2>2. RisesOn(v)
    <3> SUFFICES ASSUME NEW i \in 1..Len(v), NEW j \in 1..Len(v), i < j,
                        v[i] # NoData, v[j] # NoData, v[i].of = v[j].of
                 PROVE  v[i].line < v[j].line
      BY DEF RisesOn
    <3>1. i \in 1..Len(w) /\ j \in 1..Len(w)
      BY <1>1, <1>3
    <3> QED BY <1>1, <3>1 DEF Follow, RisesOn
  <2> QED BY <2>1, <2>2 DEF Follow
<1>4. ASSUME NEW s \in Streams, EndsAt(P, L, s),
             x # NoData, x.of = s.id, x.line = s.sent + 1
      PROVE  Follow(q, f, v, L)
  <2>1. P \in SUBSET Pieces /\ x \in Pieces /\ s.sent \in Nat
    BY <1>4, TheyArePieces DEF Frames, Streams
  <2>2. Held(x) = {x}
    BY <1>4 DEF Held
  <2>3. Precede(P, {x})
    <3> SUFFICES ASSUME NEW a \in P, a.of = s.id PROVE a.line < x.line
      BY <1>4 DEF Precede
    <3>1. a.line <= s.sent /\ a.line \in Nat
      BY <1>4, <2>1 DEF EndsAt, Pieces
    <3> QED BY <1>4, <2>1, <3>1
  <2>4. RisesOn(v)
    <3> SUFFICES ASSUME NEW i \in 1..Len(v), NEW j \in 1..Len(v), i < j,
                        v[i] # NoData, v[j] # NoData, v[i].of = v[j].of
                 PROVE  v[i].line < v[j].line
      BY DEF RisesOn
    <3>1. i \in 1..Len(w) /\ v[i] = w[i]
      BY <1>1
    <3>2. CASE j \in 1..Len(w)
      BY <1>1, <3>1, <3>2 DEF Follow, RisesOn
    <3>3. CASE j = Len(w) + 1
      <4>1. v[j] = x /\ v[i] \in P
        BY <1>1, <3>1, <3>3 DEF Coming
      <4> QED BY <2>3, <4>1 DEF Precede
    <3> QED BY <1>1, <3>2, <3>3
  <2>5. Precede(On(q), Coming(v)) /\ Precede(Held(f), Coming(v))
    BY <1>2, <2>2, <2>3 DEF Follow, Precede
  <2>6. NoGap(P \cup {x}, L)
    <3> SUFFICES ASSUME NEW a \in P \cup {x}, NEW b \in P \cup {x},
                        a.of = b.of, a.line < b.line
                 PROVE  \/ \E c \in P \cup {x} : c.of = b.of /\ c.line + 1 = b.line
                        \/ <<b.of, b.line - 1>> \in L
      BY DEF NoGap
    <3>1. a.line \in Nat /\ b.line \in Nat /\ x.line \in Nat
      BY <2>1 DEF Pieces
    <3>2. CASE b = x
      <4>1. a \in P
        BY <3>1, <3>2
      <4>2. b.of = s.id /\ b.line - 1 = s.sent
        BY <1>4, <2>1, <3>2
      <4>3. (\E c \in P : c.of = s.id /\ c.line = s.sent) \/ <<s.id, s.sent>> \in L
        BY <1>4, <3>2, <4>1 DEF EndsAt
      <4> QED BY <1>4, <3>2, <4>2, <4>3
    <3>3. CASE b \in P /\ a \in P
      BY <3>3 DEF Follow, NoGap
    <3>4. CASE b \in P /\ a = x
      <4>1. b.line < a.line
        BY <2>3, <3>4 DEF Precede
      <4> QED BY <3>1, <4>1
    <3> QED BY <3>2, <3>3, <3>4
  <2>7. On(q) \cup Held(f) \cup Coming(v) = P \cup {x}
    BY <1>2, <2>2
  <2> QED BY <2>4, <2>5, <2>6, <2>7 DEF Follow
<1> QED BY <1>3, <1>4

LEMMA CappedIs ==
    ASSUME NEW q \in Seq(Pieces)
    PROVE  /\ Capped(q) \in Seq(Pieces) /\ Len(Capped(q)) <= MaxOutput
           /\ \E k \in 0..Len(q) :
                  /\ Len(Capped(q)) = Len(q) - k
                  /\ \A i \in 1..Len(Capped(q)) : Capped(q)[i] = q[i + k]
           /\ q = <<>> => Capped(q) = <<>>
<1>1. MaxOutput \in Nat \ {0} /\ Len(q) \in Nat
  BY FileAssumption
<1>2. CASE Len(q) > MaxOutput
  <2> DEFINE k == Len(q) - MaxOutput
  <2>1. /\ k \in 0..Len(q) /\ k + 1 \in 1..Len(q) + 1 /\ Len(q) \in k..Len(q)
        /\ Capped(q) = SubSeq(q, k + 1, Len(q))
    BY <1>1, <1>2 DEF Capped
  <2>2. \A i \in (k + 1)..Len(q) : q[i] \in Pieces
    BY <1>1, <2>1
  <2>3. /\ SubSeq(q, k + 1, Len(q)) \in Seq(Pieces)
        /\ Len(SubSeq(q, k + 1, Len(q))) = Len(q) - (k + 1) + 1
        /\ \A i \in 1..(Len(q) - (k + 1) + 1) :
               SubSeq(q, k + 1, Len(q))[i] = q[(k + 1) + i - 1]
    BY <1>1, <1>2, <2>2, SubSeqProperties
  <2>4. Len(Capped(q)) = Len(q) - k /\ Len(q) - k = MaxOutput
    BY <1>1, <2>1, <2>3
  <2>5. \A i \in 1..Len(Capped(q)) : Capped(q)[i] = q[i + k]
    BY <1>1, <2>1, <2>3, <2>4
  <2>6. q # <<>>
    BY <1>1, <1>2
  <2>7. Capped(q) \in Seq(Pieces) /\ Len(Capped(q)) <= MaxOutput
    BY <1>1, <2>1, <2>3, <2>4
  <2>8. k \in 0..Len(q)
    BY <2>1
  <2> HIDE DEF k
  <2> QED BY <2>4, <2>5, <2>6, <2>7, <2>8
<1>3. CASE ~(Len(q) > MaxOutput)
  <2>1. Capped(q) = q /\ Len(q) <= MaxOutput
    BY <1>1, <1>3 DEF Capped
  <2>2. 0 \in 0..Len(q) /\ Len(q) = Len(q) - 0 /\ \A i \in 1..Len(q) : q[i] = q[i + 0]
    BY <1>1
  <2> QED BY <2>1, <2>2
<1> QED BY <1>2, <1>3

(* What the store holds is left to the next render, shown or replaced:     *)
(* what the file was before the frame, and what is lost if it is replaced. *)
LEMMA FrameComes ==
    ASSUME ViewTypes, Follow(contents, file, wire, lost), NEW f, NEW v, NEW K,
           \/ f = file /\ v = wire /\ K = lost
           \/ /\ wire # <<>> /\ f = Head(wire) /\ v = Tail(wire)
              /\ \/ (file # NoData => contents = <<>>) /\ K = lost
                 \/ K = lost \cup (IF f # file THEN LineOf(file) ELSE {})
    PROVE  /\ f \in Frames /\ v \in Seq(Frames) /\ Len(v) <= MaxWire
           /\ Follow(contents, f, v, K)
           /\ LeftOf(Underway, lost, On(contents) \cup Held(f) \cup Coming(v), K)
<1>1. /\ contents \in Seq(Pieces) /\ file \in Frames
      /\ wire \in Seq(Frames) /\ Len(wire) <= MaxWire /\ MaxWire \in Nat
  BY FileAssumption DEF ViewTypes
<1>2. CASE f = file /\ v = wire /\ K = lost
  BY <1>1, <1>2 DEF LeftOf, Underway
<1>3. ASSUME wire # <<>>, f = Head(wire), v = Tail(wire),
             \/ (file # NoData => contents = <<>>) /\ K = lost
             \/ K = lost \cup (IF f # file THEN LineOf(file) ELSE {})
      PROVE  /\ f \in Frames /\ v \in Seq(Frames) /\ Len(v) <= MaxWire
             /\ Follow(contents, f, v, K)
             /\ LeftOf(Underway, lost, On(contents) \cup Held(f) \cup Coming(v), K)
  <2>1. f \in Frames /\ v \in Seq(Frames) /\ Len(v) <= MaxWire
    BY <1>1, <1>3
  <2>2. NoData \in Frames
    BY DEF Frames
  <2>3. file # NoData => f # file
    <3> SUFFICES ASSUME file # NoData, f = file PROVE FALSE
      OBVIOUS
    <3>1. file \in Held(file) /\ 1 \in 1..Len(wire) /\ wire[1] = file
      BY <1>1, <1>3 DEF Held
    <3>2. file \in Coming(wire) /\ file.line \in Nat
      BY <1>1, <3>1 DEF Coming, Frames, Pieces
    <3> QED BY <3>1, <3>2 DEF Follow, Precede
  <2>4. /\ Follow(contents, NoData, wire, K)
        /\ LeftOf(Underway, lost, On(contents) \cup Held(NoData) \cup Coming(wire), K)
    <3>1. CASE file = NoData
      <4>1. K = lost
        BY <1>3, <3>1 DEF LineOf
      <4> QED BY <3>1, <4>1 DEF LeftOf, Underway
    <3>2. CASE file # NoData /\ contents = <<>> /\ K = lost
      BY <1>1, <2>2, <3>2, StoreForgets DEF Underway
    <3>3. CASE file # NoData /\ K = lost \cup LineOf(file)
      BY <1>1, <2>2, <3>3, StoreReplaced DEF Underway
    <3> QED BY <1>3, <2>3, <3>1, <3>2, <3>3
  <2>5. /\ Follow(contents, f, v, K)
        /\ Held(NoData) \cup Coming(wire) = Held(f) \cup Coming(v)
    BY <1>1, <1>3, <2>2, <2>4, FrameMoves
  <2>6. On(contents) \cup Held(NoData) \cup Coming(wire) = On(contents) \cup Held(f) \cup Coming(v)
    BY <2>5
  <2> QED BY <2>1, <2>4, <2>5, <2>6
<1> QED BY <1>2, <1>3

(* componentWillReceiveProps, for the lines: what is on the screen may be  *)
(* cleared, the line of the store is shown, the oldest are cut off.        *)
LEMMA ReceivesInOrder ==
    ASSUME NEW f \in Frames, NEW v \in Seq(Frames), NEW p, NEW isKnown, NEW answers,
           contents \in Seq(Pieces), NEW L, Follow(contents, f, v, L),
           ~watching => contents = <<>>, Receives(p, f, isKnown, answers)
    PROVE  /\ contents' \in Seq(Pieces) /\ Len(contents') <= MaxOutput /\ file' \in Frames
           /\ Follow(contents', file', v, L)
           /\ LeftOf(On(contents) \cup Held(f) \cup Coming(v), L,
                     On(contents') \cup Held(file') \cup Coming(v), L)
           /\ ~watching' => contents' = <<>>
           /\ watching' => file' = NoData
<1> DEFINE c == IF Drops(p) THEN <<>> ELSE contents
           shows == Watches(p) /\ f # NoData
           d == IF shows THEN c \o <<f>> ELSE c
           P == On(contents) \cup Held(f) \cup Coming(v)
<1>1. /\ contents' = Capped(c \o (IF shows THEN <<f>> ELSE <<>>))
      /\ file' = IF shows THEN Cleared(f) ELSE f
      /\ watching' = Watches(p)
  BY DEF Receives
<1>2. /\ c \in Seq(Pieces) /\ Follow(c, f, v, L)
      /\ LeftOf(P, L, On(c) \cup Held(f) \cup Coming(v), L)
  <2>1. CASE Drops(p)
    <3>1. /\ <<>> \in Seq(Pieces) /\ Len(contents) \in 0..Len(contents)
          /\ Len(<<>>) = Len(contents) - Len(contents)
          /\ \A i \in 1..Len(<<>>) : <<>>[i] = contents[i + Len(contents)]
      OBVIOUS
    <3>2. /\ Follow(<<>>, f, v, L)
          /\ LeftOf(P, L, On(<<>>) \cup Held(f) \cup Coming(v), L)
      BY <3>1, ScreenForgets
    <3> QED BY <2>1, <3>1, <3>2
  <2>2. CASE ~Drops(p)
    BY <2>2 DEF LeftOf
  <2> QED BY <2>1, <2>2
<1>3. Cleared(f) \in Frames /\ Cleared(f) = NoData
  BY DEF Cleared, Frames
<1>4. file' \in Frames
  BY <1>1, <1>3
<1>5. /\ d \in Seq(Pieces) /\ contents' = Capped(d) /\ Follow(d, file', v, L)
      /\ LeftOf(P, L, On(d) \cup Held(file') \cup Coming(v), L)
  <2> HIDE DEF c, P
  <2>1. CASE shows
    <3>1. d = c \o <<f>> /\ contents' = Capped(d) /\ file' = Cleared(f) /\ f # NoData
      BY <1>1, <2>1
    <3>2. /\ c \o <<f>> \in Seq(Pieces)
          /\ Follow(c \o <<f>>, Cleared(f), v, L)
          /\ On(c \o <<f>>) \cup Held(Cleared(f)) = On(c) \cup Held(f)
      BY <1>2, <1>3, <3>1, LineIsShown
    <3> HIDE DEF d, shows
    <3>3. On(d) \cup Held(file') \cup Coming(v) = On(c) \cup Held(f) \cup Coming(v)
      BY <3>1, <3>2
    <3> QED BY <1>2, <3>1, <3>2, <3>3
  <2>2. CASE ~shows
    <3>1. contents' = Capped(c \o <<>>) /\ file' = f /\ d = c
      BY <1>1, <2>2
    <3>2. c \o <<>> = c
      BY <1>2
    <3> QED BY <1>2, <3>1, <3>2
  <2> QED BY <2>1, <2>2
<1>6. /\ contents' \in Seq(Pieces) /\ Len(contents') <= MaxOutput
      /\ Follow(contents', file', v, L)
      /\ LeftOf(On(d) \cup Held(file') \cup Coming(v), L,
                On(contents') \cup Held(file') \cup Coming(v), L)
  <2> HIDE DEF d
  <2>1. PICK k \in 0..Len(d) :
            /\ Len(Capped(d)) = Len(d) - k
            /\ \A i \in 1..Len(Capped(d)) : Capped(d)[i] = d[i + k]
    BY <1>5, CappedIs
  <2>2. Capped(d) \in Seq(Pieces) /\ Len(Capped(d)) <= MaxOutput
    BY <1>5, CappedIs
  <2>3. /\ Follow(Capped(d), file', v, L)
        /\ LeftOf(On(d) \cup Held(file') \cup Coming(v), L,
                  On(Capped(d)) \cup Held(file') \cup Coming(v), L)
    BY <1>4, <1>5, <2>1, <2>2, ScreenForgets
  <2> QED BY <1>5, <2>2, <2>3
<1>7. LeftOf(P, L, On(contents') \cup Held(file') \cup Coming(v), L)
  <2> HIDE DEF d, P
  <2> QED BY <1>5, <1>6 DEF LeftOf
<1>8. ~watching' => contents' = <<>>
  <2> SUFFICES ASSUME ~Watches(p) PROVE contents' = <<>>
    BY <1>1
  <2>1. c = <<>> /\ d = c
    BY DEF Watches
  <2> QED BY <1>5, <2>1, CappedIs
<1>9. watching' => file' = NoData
  BY <1>1, <1>3
<1> QED BY <1>4, <1>6, <1>7, <1>8, <1>9

-----------------------------------------------------------------------------
(* Every step. *)

LinesInv == FileInv /\ ViewTypes /\ StreamTypes /\ OrderInv /\ ListingInv

LEMMA InitLines == FileInit => ViewTypes /\ StreamTypes /\ OrderInv /\ ListingInv
<1> SUFFICES ASSUME FileInit PROVE ViewTypes /\ StreamTypes /\ OrderInv /\ ListingInv
  OBVIOUS
<1>1. /\ place \in Places /\ mounted = FALSE /\ known = FALSE /\ fetched = FALSE
      /\ watching = FALSE /\ contents = <<>> /\ listing = None /\ file = NoData
      /\ due = [d \in Paths |-> 0] /\ lingering = {} /\ doubtful = FALSE
      /\ requested = {} /\ streams = {} /\ started = 0 /\ wire = <<>>
      /\ tailed = None /\ strayed = FALSE /\ orphans = {} /\ lost = {}
  BY FileAssumption DEF FileInit
<1>2. /\ MaxOutput \in Nat /\ MaxWire \in Nat /\ MaxStreams \in Nat /\ MaxQueries \in Nat
      /\ Len(<<>>) = 0 /\ <<>> \in Seq(Pieces) /\ <<>> \in Seq(Frames)
  BY FileAssumption
<1>3. NoData \in Frames
  BY DEF Frames
<1>4. ViewTypes
  <2>1. Len(contents) <= MaxOutput /\ Len(wire) <= MaxWire
    BY <1>1, <1>2
  <2>2. due \in [Paths -> 0..MaxQueries]
    BY <1>1, <1>2
  <2>3. contents \in Seq(Pieces) /\ wire \in Seq(Frames) /\ file \in Frames
    BY <1>1, <1>2, <1>3
  <2>4. {mounted, known, fetched, watching, strayed, doubtful} \subseteq BOOLEAN
    BY <1>1
  <2> QED BY <1>1, <2>1, <2>2, <2>3, <2>4 DEF ViewTypes
<1>5. StreamTypes
  BY <1>1, <1>2 DEF StreamTypes
<1>6. On(contents) = {} /\ Held(file) = {} /\ Coming(wire) = {} /\ Underway = {}
  BY <1>1, <1>2, <1>3 DEF On, Held, Coming, Underway
<1>7. Rises(contents) /\ RisesOn(wire)
  BY <1>1, <1>2 DEF Rises, RisesOn
<1>8. OrderInv
  BY <1>1, <1>6, <1>7 DEF OrderInv, Follow, Precede, NoGap, Written
<1>9. ListingInv
  BY <1>1 DEF ListingInv
<1> QED BY <1>4, <1>5, <1>8, <1>9

(* What a render leaves of the lines, whatever it is called for.           *)
LEMMA RendersInOrder ==
    ASSUME FileInv, ViewTypes, OrderInv, NEW f, NEW p, NEW isKnown, NEW answers,
           \/ f = file /\ wire' = wire
           \/ wire # <<>> /\ f = Head(wire) /\ wire' = Tail(wire) /\ isKnown = known,
           Renders(p, f, isKnown, answers), known' = isKnown, mounted' = mounted
    PROVE  /\ contents' \in Seq(Pieces) /\ Len(contents') <= MaxOutput /\ file' \in Frames
           /\ wire' \in Seq(Frames) /\ Len(wire') <= MaxWire
           /\ Follow(contents', file', wire', lost')
           /\ LeftOf(Underway, lost, Underway', lost')
           /\ ~watching' => contents' = <<>>
           /\ watching' /\ known' => file' = NoData
<1>1. contents \in Seq(Pieces) /\ Len(contents) <= MaxOutput /\ (~watching => contents = <<>>)
  BY DEF ViewTypes, OrderInv
<1>2. /\ Follow(contents, file, wire, lost)
      /\ watching /\ known => file = NoData
  BY DEF OrderInv
<1>3. CASE Receives(p, f, isKnown, answers)
  <2>1. lost' = lost /\ isKnown
    BY <1>3 DEF Receives
  <2>2. f = file \/ (file # NoData => contents = <<>>)
    BY <1>1, <1>2, <2>1
  <2>3. /\ f \in Frames /\ wire' \in Seq(Frames) /\ Len(wire') <= MaxWire
        /\ Follow(contents, f, wire', lost)
        /\ LeftOf(Underway, lost, On(contents) \cup Held(f) \cup Coming(wire'), lost)
    <3>1. CASE f = file /\ wire' = wire
      BY <1>2, <3>1, FrameComes
    <3>2. CASE wire # <<>> /\ f = Head(wire) /\ wire' = Tail(wire) /\ isKnown = known
      <4>1. file # NoData => contents = <<>>
        BY <1>1, <1>2, <2>1, <3>2
      <4> QED BY <1>2, <3>2, <4>1, FrameComes
    <3> QED BY <3>1, <3>2
  <2>4. /\ contents' \in Seq(Pieces) /\ Len(contents') <= MaxOutput /\ file' \in Frames
        /\ Follow(contents', file', wire', lost)
        /\ LeftOf(On(contents) \cup Held(f) \cup Coming(wire'), lost,
                  On(contents') \cup Held(file') \cup Coming(wire'), lost)
        /\ ~watching' => contents' = <<>>
        /\ watching' => file' = NoData
    BY <1>1, <1>3, <2>3, ReceivesInOrder
  <2> QED BY <2>1, <2>3, <2>4 DEF LeftOf, Underway
<1>4. CASE Ignores(p, f, isKnown, answers)
  <2>1. /\ watching' = watching /\ contents' = contents /\ file' = f
        /\ lost' = lost \cup (IF watching /\ f # file THEN LineOf(file) ELSE {})
        /\ ~mounted \/ ~isKnown
    BY <1>4 DEF Ignores
  <2>2. /\ f \in Frames /\ wire' \in Seq(Frames) /\ Len(wire') <= MaxWire
        /\ Follow(contents, f, wire', lost')
        /\ LeftOf(Underway, lost, On(contents) \cup Held(f) \cup Coming(wire'), lost')
    <3>1. CASE f = file /\ wire' = wire
      BY <1>2, <2>1, <3>1, FrameComes
    <3>2. CASE wire # <<>> /\ f = Head(wire) /\ wire' = Tail(wire) /\ watching
      BY <1>2, <2>1, <3>2, FrameComes
    <3>3. CASE wire # <<>> /\ f = Head(wire) /\ wire' = Tail(wire) /\ ~watching
      BY <1>1, <1>2, <2>1, <3>3, FrameComes
    <3> QED BY <3>1, <3>2, <3>3
  <2>3. ~(watching' /\ known')
    BY <2>1 DEF FileInv, TailsInv
  <2> QED BY <1>1, <2>1, <2>2, <2>3 DEF Underway
<1> QED BY <1>3, <1>4 DEF Renders

(* What is dropped and taken: a stream is new, or as it was but for being  *)
(* given up.                                                               *)
LEMMA RequestsKeepStreams ==
    ASSUME StreamTypes, NEW dropped, NEW p \in Places, NEW taken \in {{}, {p}},
           Requests(dropped, taken)
    PROVE  /\ StreamTypes' /\ started' >= started
           /\ \A t \in streams' :
                  t.id > started \/ \E s \in streams : s.id = t.id /\ s.sent = t.sent
<1> DEFINE new == taken \ (requested \ dropped)
           Given(s) == IF s.of \in dropped THEN [s EXCEPT !.on = FALSE] ELSE s
<1>1. /\ started + Cardinality(new) <= MaxStreams
      /\ started' = started + Cardinality(new)
      /\ streams' = {Given(s) : s \in streams} \cup {Stream(started', q) : q \in new}
  BY DEF Requests
<1>2. new = {} \/ new = {p}
  OBVIOUS
<1>3. \/ new = {} /\ started' = started
      \/ new = {p} /\ started' = started + 1
  <2>1. new = {} => Cardinality(new) = 0
    BY FS_EmptySet
  <2>2. new = {p} => Cardinality(new) = 1
    BY FS_Singleton
  <2> HIDE DEF new
  <2> QED BY <1>1, <1>2, <2>1, <2>2 DEF StreamTypes
<1>4. started \in Nat /\ started' \in Nat /\ started' <= MaxStreams /\ started' >= started
      /\ MaxStreams \in Nat
  BY <1>1, <1>3, FileAssumption DEF StreamTypes
<1>5. ASSUME NEW s \in streams
      PROVE  /\ Given(s) \in Streams /\ Given(s).id = s.id /\ Given(s).sent = s.sent
             /\ Fits(Given(s))
  <2>1. s \in Streams /\ Fits(s)
    BY DEF StreamTypes
  <2> QED BY <2>1 DEF Streams, Fits
<1>6. ASSUME NEW t, t = Stream(started', p), new = {p}
      PROVE  /\ t \in Streams /\ t.id = started' /\ Fits(t) /\ started' = started + 1
  <2>1. started' = started + 1
    <3>1. new # {}
      BY <1>6
    <3> HIDE DEF new
    <3> QED BY <1>3, <3>1
  <2>2. started' \in 1..MaxStreams /\ MaxPieces[started'] \in Nat
    BY <1>4, <2>1, FileAssumption
  <2>3. /\ t \in Streams /\ t.id = started' /\ t.sent = 0 /\ t.read = 0
        /\ t.line = FALSE /\ t.offered = FALSE /\ t.reading = FALSE
    BY <1>4, <1>6 DEF Stream, Streams
  <2>4. Fits(t)
    BY <2>2, <2>3 DEF Fits
  <2> QED BY <2>1, <2>3, <2>4
<1>7. ASSUME NEW t \in streams'
      PROVE  \/ \E s \in streams : t = Given(s)
             \/ new = {p} /\ t = Stream(started', p)
  <2> HIDE DEF new, Given
  <2> QED BY <1>1, <1>2, <1>7
<1> HIDE DEF new, Given
<1>8. ASSUME NEW t \in streams'
      PROVE  /\ t \in Streams /\ t.id <= started' /\ Fits(t)
             /\ t.id > started \/ \E s \in streams : s.id = t.id /\ s.sent = t.sent
             /\ (\E s \in streams : t = Given(s)) => t.id <= started
             /\ (new = {p} /\ t = Stream(started', p)) => t.id = started + 1
  <2>1. ASSUME NEW s \in streams, t = Given(s)
        PROVE  /\ t \in Streams /\ t.id <= started' /\ Fits(t)
               /\ s.id = t.id /\ s.sent = t.sent /\ t.id <= started
    <3>1. s.id <= started /\ s.id \in Nat
      BY DEF StreamTypes, Streams
    <3> QED BY <1>4, <1>5, <2>1, <3>1
  <2>2. CASE new = {p} /\ t = Stream(started', p)
    <3>1. /\ t \in Streams /\ t.id = started' /\ Fits(t) /\ started' = started + 1
      BY <1>6, <2>2
    <3>2. ~\E s \in streams : t = Given(s)
      BY <1>4, <2>1, <3>1
    <3> QED BY <1>4, <3>1, <3>2
  <2>3. CASE \E s \in streams : t = Given(s)
    <3>1. ~(new = {p} /\ t = Stream(started', p))
      <4> SUFFICES ASSUME new = {p}, t = Stream(started', p) PROVE FALSE
        OBVIOUS
      <4>1. t.id = started' /\ started' = started + 1
        BY <1>6
      <4> QED BY <1>4, <2>1, <2>3, <4>1
    <3> QED BY <2>1, <2>3, <3>1
  <2>4. CASE ~\E s \in streams : t = Given(s)
    BY <1>4, <1>7, <2>2, <2>4, <1>6
  <2> QED BY <2>3, <2>4
<1>9. ASSUME NEW t \in streams', NEW u \in streams', t.id = u.id
      PROVE  t = u
  <2>1. CASE new = {p} /\ t = Stream(started', p)
    BY <1>4, <1>7, <1>8, <1>9, <2>1
  <2>2. CASE \E s \in streams : t = Given(s)
    <3>1. t.id <= started
      BY <1>8, <2>2
    <3>2. u.id # started + 1
      BY <1>4, <1>9, <3>1
    <3>3. PICK s \in streams, r \in streams : t = Given(s) /\ u = Given(r)
      BY <1>7, <1>8, <2>2, <3>2
    <3>4. s = r
      BY <1>5, <1>9, <3>3 DEF StreamTypes
    <3> QED BY <3>3, <3>4
  <2> QED BY <1>7, <2>1, <2>2
<1>10. StreamTypes'
  BY <1>4, <1>8, <1>9 DEF StreamTypes
<1> QED BY <1>4, <1>8, <1>10


(* What forgets lines, and starts and gives up streams, keeps the rest.    *)
LEMMA LinesLeft ==
    ASSUME StreamTypes, StreamTypes', OrderInv, LeftOf(Underway, lost, Underway', lost'),
           Underway \subseteq Pieces, started' >= started,
           \A t \in streams' :
               t.id > started \/ \E s \in streams : s.id = t.id /\ s.sent = t.sent
    PROVE  /\ \A a \in Underway' : a.of <= started'
           /\ \A s \in streams' : EndsAt(Underway', lost', s)
           /\ Written(Underway')
<1>1. /\ Underway' \subseteq Underway
      /\ \A s \in Streams : EndsAt(Underway, lost, s) => EndsAt(Underway', lost', s)
  BY DEF LeftOf
<1>2. /\ started \in Nat /\ started' \in Nat
      /\ streams \subseteq Streams /\ streams' \subseteq Streams
  BY DEF StreamTypes
<1>3. ASSUME NEW a \in Underway'
      PROVE  a.of <= started /\ a.of \in Nat /\ a.text \in {a.line, a.line + 1}
  BY <1>1 DEF OrderInv, Written, Pieces
<1>4. \A a \in Underway' : a.of <= started'
  BY <1>2, <1>3
<1>5. Written(Underway')
  BY <1>3 DEF Written
<1>6. ASSUME NEW t \in streams' PROVE EndsAt(Underway', lost', t)
  <2>1. CASE t.id > started
    <3>1. t.id \in Nat
      BY <1>2 DEF Streams
    <3>2. \A a \in Underway' : a.of # t.id
      BY <1>2, <1>3, <2>1, <3>1
    <3> QED BY <3>2 DEF EndsAt
  <2>2. ASSUME NEW s \in streams, s.id = t.id, s.sent = t.sent
        PROVE  EndsAt(Underway', lost', t)
    <3>1. EndsAt(Underway', lost', s)
      BY <1>1, <1>2 DEF OrderInv
    <3> QED BY <2>2, <3>1 DEF EndsAt
  <2> QED BY <2>1, <2>2
<1> QED BY <1>4, <1>5, <1>6

(* What a query leaves of the answers to come.                             *)
LEMMA QueriesAre ==
    ASSUME NEW answers \in [Paths -> 0..MaxQueries], NEW d \in Paths, fetchDir(d, answers)
    PROVE  /\ due' \in [Paths -> 0..MaxQueries] /\ doubtful' \in BOOLEAN
           /\ ~doubtful' => due'[d] > 0 /\ \A e \in Paths : due'[e] > 0 => e = d
<1>1. MaxQueries \in Nat /\ answers[d] \in 0..MaxQueries
  BY FileAssumption
<1>2. due' \in [Paths -> 0..MaxQueries]
  <2>1. CASE answers[d] < MaxQueries /\ due' = [answers EXCEPT ![d] = @ + 1]
    <3>1. answers[d] + 1 \in 0..MaxQueries
      BY <1>1, <2>1
    <3> QED BY <2>1, <3>1
  <2> QED BY <2>1 DEF fetchDir
<1>3. doubtful' = ~(due'[d] > 0 /\ \A e \in Paths \ {d} : due'[e] = 0)
  BY DEF fetchDir
<1>4. ASSUME ~doubtful', NEW e \in Paths, due'[e] > 0 PROVE e = d
  <2>1. \A b \in Paths \ {d} : due'[b] = 0
    BY <1>3, <1>4, Zenon
  <2>2. SUFFICES ASSUME e # d PROVE FALSE
    OBVIOUS
  <2>3. due'[e] = 0
    BY <2>1, <2>2
  <2> QED BY <1>4, <2>3
<1> QED BY <1>2, <1>3, <1>4

LEMMA AnsweredIs ==
    ASSUME ViewTypes, NEW d \in Paths, due[d] > 0
    PROVE  /\ Answered(d) \in [Paths -> 0..MaxQueries]
           /\ \A e \in Paths \ {d} : Answered(d)[e] = due[e]
<1>1. MaxQueries \in Nat /\ due \in [Paths -> 0..MaxQueries] /\ due[d] - 1 \in 0..MaxQueries
  <2>1. MaxQueries \in Nat /\ due \in [Paths -> 0..MaxQueries]
    BY FileAssumption DEF ViewTypes
  <2>2. due[d] \in 0..MaxQueries
    BY <2>1
  <2> QED BY <2>1, <2>2
<1> QED BY <1>1 DEF Answered

(* A render, for the listing: the answers are as they were, or one less.   *)
LEMMA RendersLists ==
    ASSUME LinesInv, place' \in Places, NEW f, NEW isKnown, NEW answers,
           \/ answers = due /\ listing' = listing
           \/ \E d \in Paths : due[d] > 0 /\ answers = Answered(d) /\ listing' = d,
           Renders(place', f, isKnown, answers)
    PROVE  due' \in [Paths -> 0..MaxQueries] /\ doubtful' \in BOOLEAN /\ ListingInv'
<1>1. /\ due \in [Paths -> 0..MaxQueries] /\ MaxQueries \in Nat /\ doubtful \in BOOLEAN
      /\ place \in Places /\ ListingInv /\ ViewTypes /\ FileInv
  BY FileAssumption DEF LinesInv, ViewTypes
<1>2. answers \in [Paths -> 0..MaxQueries]
  BY <1>1, AnsweredIs
<1>3. PICK d \in Paths : d = place'.path
  BY DEF Places
<1>4. ASSUME fetched, ~doubtful, place.path = d, due' = answers
      PROVE  ListingInv'
  <2>1. /\ \A e \in Paths : due[e] > 0 => e = d
        /\ (\A e \in Paths : due[e] = 0) => listing = d
    BY <1>1, <1>4 DEF ListingInv
  <2>2. CASE answers = due /\ listing' = listing
    BY <1>3, <1>4, <2>1, <2>2 DEF ListingInv
  <2>3. ASSUME NEW e \in Paths, due[e] > 0, answers = Answered(e), listing' = e
        PROVE  ListingInv'
    <3>1. e = d /\ listing' = d
      BY <2>1, <2>3
    <3>2. \A b \in Paths \ {d} : due'[b] = due[b]
      BY <1>1, <1>4, <2>3, <3>1, AnsweredIs
    <3>3. \A b \in Paths : due'[b] > 0 => b = d
      BY <2>1, <3>2
    <3> QED BY <1>3, <3>1, <3>3 DEF ListingInv
  <2> QED BY <2>2, <2>3
<1>5. CASE Receives(place', f, isKnown, answers)
  <2>1. CASE Lists(place')
    <3>1. fetchDir(d, answers)
      BY <1>3, <1>5, <2>1 DEF Receives
    <3>2. /\ due' \in [Paths -> 0..MaxQueries] /\ doubtful' \in BOOLEAN
          /\ ~doubtful' => due'[d] > 0 /\ \A e \in Paths : due'[e] > 0 => e = d
      BY <1>2, <3>1, QueriesAre
    <3>3. due'[d] > 0 => due'[d] # 0
      BY <1>1, <3>2
    <3> QED BY <1>3, <3>2, <3>3 DEF ListingInv
  <2>2. CASE ~Lists(place')
    <3>1. due' = answers /\ doubtful' = doubtful /\ fetched /\ place.path = d
      BY <1>3, <1>5, <2>2 DEF Receives, Lists
    <3>2. ASSUME doubtful PROVE ListingInv'
      BY <3>1, <3>2 DEF ListingInv
    <3>3. ASSUME ~doubtful PROVE ListingInv'
      BY <1>4, <3>1, <3>3
    <3> QED BY <1>1, <1>2, <3>1, <3>2, <3>3
  <2> QED BY <2>1, <2>2
<1>6. CASE Ignores(place', f, isKnown, answers)
  <2>1. /\ due' = answers /\ fetched' = fetched
        /\ doubtful' = (doubtful \/ ((mounted /\ place' # place) /\ place'.path # place.path))
    BY <1>6 DEF Ignores
  <2>2. ASSUME ~fetched PROVE ListingInv'
    BY <2>1, <2>2 DEF ListingInv
  <2>3. ASSUME doubtful' PROVE ListingInv'
    BY <2>3 DEF ListingInv
  <2>4. ASSUME fetched, ~doubtful' PROVE ListingInv'
    <3>1. mounted /\ ~doubtful
      BY <1>1, <2>1, <2>4 DEF FileInv, TailsInv
    <3>2. place.path = d
      BY <1>3, <2>1, <2>4, <3>1
    <3> QED BY <1>4, <2>1, <2>4, <3>1, <3>2
  <2>5. doubtful' \in BOOLEAN
    BY <2>1
  <2> QED BY <1>2, <2>1, <2>2, <2>3, <2>4, <2>5
<1> QED BY <1>5, <1>6 DEF Renders

(* A render, whatever it is called for.                                    *)
LEMMA RendersKeepsLines ==
    ASSUME LinesInv, place' \in Places, NEW f, NEW isKnown \in BOOLEAN, NEW answers,
           \/ f = file /\ wire' = wire
           \/ wire # <<>> /\ f = Head(wire) /\ wire' = Tail(wire) /\ isKnown = known,
           \/ answers = due /\ listing' = listing
           \/ \E d \in Paths : due[d] > 0 /\ answers = Answered(d) /\ listing' = d,
           Renders(place', f, isKnown, answers),
           mounted' = mounted, known' = isKnown, lingering' \subseteq Paths
    PROVE  LinesInv'
<1> USE DEF LinesInv
<1>1. listing' \in Paths \cup {None} /\ FileInv'
  <2>1. listing' \in Paths \cup {None}
    BY DEF ViewTypes
  <2> QED BY <2>1, RendersKeeps
<1>2. /\ contents' \in Seq(Pieces) /\ Len(contents') <= MaxOutput /\ file' \in Frames
      /\ wire' \in Seq(Frames) /\ Len(wire') <= MaxWire
      /\ Follow(contents', file', wire', lost')
      /\ LeftOf(Underway, lost, Underway', lost')
      /\ ~watching' => contents' = <<>>
      /\ watching' /\ known' => file' = NoData
  BY RendersInOrder
<1>3. /\ place \in Places /\ mounted \in BOOLEAN /\ watching \in BOOLEAN /\ strayed \in BOOLEAN
      /\ fetched \in BOOLEAN /\ tailed \in Places \cup {None}
      /\ requested \subseteq Places /\ orphans \subseteq Places
  BY DEF ViewTypes
<1>4. /\ StreamTypes' /\ started' >= started
      /\ \A t \in streams' :
             t.id > started \/ \E s \in streams : s.id = t.id /\ s.sent = t.sent
  <2>1. CASE Receives(place', f, isKnown, answers)
    <3>1. Requests(GivesUp(place'), IF Takes(place') THEN {place'} ELSE {})
      BY <2>1 DEF Receives
    <3>2. (IF Takes(place') THEN {place'} ELSE {}) \in {{}, {place'}}
      OBVIOUS
    <3> QED BY <3>1, <3>2, RequestsKeepStreams
  <2>2. CASE Ignores(place', f, isKnown, answers)
    BY <2>2 DEF Ignores, backVars, StreamTypes
  <2> QED BY <2>1, <2>2 DEF Renders
<1>5. OrderInv'
  <2>1. Underway \subseteq Pieces
    BY TheyArePieces DEF ViewTypes, Underway
  <2> QED BY <1>2, <1>4, <2>1, LinesLeft DEF OrderInv
<1>6. due' \in [Paths -> 0..MaxQueries] /\ doubtful' \in BOOLEAN /\ ListingInv'
  BY RendersLists
<1>7. /\ fetched' \in BOOLEAN /\ watching' \in BOOLEAN /\ strayed' \in BOOLEAN
      /\ requested' \cup orphans' \subseteq Places /\ tailed' \in Places \cup {None}
  <2>1. CASE Receives(place', f, isKnown, answers)
    <3>1. /\ fetched' = TRUE /\ watching' = Watches(place') /\ strayed' \in BOOLEAN
          /\ requested' \subseteq requested \cup {place'}
          /\ orphans' \subseteq orphans \cup {place}
          /\ tailed' \in {place', tailed, None}
      BY <2>1 DEF Receives, Requests
    <3>2. Watches(place') \in BOOLEAN
      BY DEF Watches
    <3> QED BY <1>3, <3>1, <3>2
  <2>2. CASE Ignores(place', f, isKnown, answers)
    BY <1>3, <2>2 DEF Ignores, backVars
  <2> QED BY <2>1, <2>2 DEF Renders
<1>8. ViewTypes'
  <2>1. {mounted', known', fetched', watching', strayed', doubtful'} \subseteq BOOLEAN
    BY <1>3, <1>6, <1>7
  <2> QED BY <1>1, <1>2, <1>6, <1>7, <2>1 DEF ViewTypes
<1> QED BY <1>1, <1>4, <1>5, <1>6, <1>8

LEMMA OpensKeepsLines == LinesInv /\ Opens => LinesInv'
<1> SUFFICES ASSUME LinesInv, Opens PROVE LinesInv'
  OBVIOUS
<1>1. /\ ~mounted /\ mounted' = TRUE /\ known' \in BOOLEAN
      /\ IF known' THEN fetchDir(place.path, due) ELSE UNCHANGED <<due, doubtful>>
      /\ UNCHANGED <<place, fetched, watching, contents, listing, file, lingering, tailed,
                     strayed, orphans, requested, streams, started, wire, lost>>
  BY DEF Opens, storeVars, tailVars, backVars
<1>2. ~fetched /\ ~watching
  BY <1>1 DEF LinesInv, FileInv, TailsInv
<1>3. due' \in [Paths -> 0..MaxQueries] /\ doubtful' \in BOOLEAN
  <2>1. place.path \in Paths /\ due \in [Paths -> 0..MaxQueries] /\ doubtful \in BOOLEAN
    BY DEF LinesInv, ViewTypes, Places
  <2> QED BY <1>1, <2>1, QueriesAre
<1>4. FileInv'
  BY OpensKeeps DEF LinesInv
<1>5. ViewTypes'
  <2>1. {mounted', known', fetched', watching', strayed', doubtful'} \subseteq BOOLEAN
    BY <1>1, <1>3 DEF LinesInv, ViewTypes
  <2> QED BY <1>1, <1>3, <2>1 DEF LinesInv, ViewTypes
<1>6. StreamTypes'
  BY <1>1 DEF LinesInv, StreamTypes
<1>7. OrderInv'
  BY <1>1, <1>2 DEF LinesInv, OrderInv, Underway
<1>8. ListingInv'
  BY <1>1, <1>2 DEF ListingInv
<1> QED BY <1>4, <1>5, <1>6, <1>7, <1>8 DEF LinesInv

(* The state goes with the component, and the store forgets the file.      *)
LEMMA LeavesKeepsLines == LinesInv /\ Leaves => LinesInv'
<1> SUFFICES ASSUME LinesInv, Leaves PROVE LinesInv'
  OBVIOUS
<1>1. /\ mounted' = FALSE /\ known' = FALSE /\ place' \in Places
      /\ fetched' = FALSE /\ watching' = FALSE /\ contents' = <<>> /\ file' = NoData
      /\ Requests(IF watching THEN {place} ELSE {}, {})
      /\ tailed' = None /\ strayed' = FALSE /\ orphans' \subseteq orphans
      /\ UNCHANGED <<listing, due, lingering, doubtful, wire, lost>>
  BY FileAssumption DEF Leaves, dirVars
<1>2. requested' = requested \ (IF watching THEN {place} ELSE {})
  BY <1>1 DEF Requests
<1>3. /\ contents \in Seq(Pieces) /\ file \in Frames /\ wire \in Seq(Frames)
      /\ place \in Places /\ Follow(contents, file, wire, lost) /\ NoData \in Frames
  BY DEF LinesInv, ViewTypes, OrderInv, Frames
<1>4. /\ Follow(<<>>, file, wire, lost)
      /\ LeftOf(Underway, lost, On(<<>>) \cup Held(file) \cup Coming(wire), lost)
  <2>1. /\ <<>> \in Seq(Pieces) /\ Len(contents) \in 0..Len(contents)
        /\ Len(<<>>) = Len(contents) - Len(contents)
        /\ \A i \in 1..Len(<<>>) : <<>>[i] = contents[i + Len(contents)]
    BY <1>3
  <2> QED BY <1>3, <2>1, ScreenForgets DEF Underway
<1>5. /\ Follow(<<>>, NoData, wire, lost)
      /\ LeftOf(On(<<>>) \cup Held(file) \cup Coming(wire), lost,
                On(<<>>) \cup Held(NoData) \cup Coming(wire), lost)
  BY <1>3, <1>4, StoreForgets
<1>6. Follow(contents', file', wire', lost') /\ LeftOf(Underway, lost, Underway', lost')
  BY <1>1, <1>4, <1>5 DEF LeftOf, Underway
<1>7. /\ StreamTypes' /\ started' >= started
      /\ \A t \in streams' :
             t.id > started \/ \E s \in streams : s.id = t.id /\ s.sent = t.sent
  BY <1>1, <1>3, RequestsKeepStreams DEF LinesInv
<1>8. OrderInv'
  <2>1. Underway \subseteq Pieces
    BY <1>3, TheyArePieces DEF Underway
  <2>2. StreamTypes /\ OrderInv
    BY DEF LinesInv
  <2> QED BY <1>1, <1>6, <1>7, <2>1, <2>2, LinesLeft DEF OrderInv
<1>9. FileInv'
  BY LeavesKeeps DEF LinesInv
<1>10. ViewTypes'
  <2>1. <<>> \in Seq(Pieces) /\ Len(<<>>) = 0 /\ MaxOutput \in Nat
    BY FileAssumption
  <2>2. {mounted', known', fetched', watching', strayed', doubtful'} \subseteq BOOLEAN
    BY <1>1 DEF LinesInv, ViewTypes
  <2>3. contents' \in Seq(Pieces) /\ Len(contents') <= MaxOutput /\ file' \in Frames
    BY <1>1, <1>3, <2>1
  <2> QED BY <1>1, <1>2, <2>2, <2>3 DEF LinesInv, ViewTypes
<1>11. ListingInv'
  BY <1>1 DEF ListingInv
<1> QED BY <1>7, <1>8, <1>9, <1>10, <1>11 DEF LinesInv

-----------------------------------------------------------------------------
(* The steps of the streams. *)

(* A step that sends nothing, and leaves the listing.                      *)
LEMMA SilentKeepsLines ==
    ASSUME LinesInv, UNCHANGED <<viewVars, storeVars, tailed, strayed, started, wire, lost>>,
           \/ UNCHANGED <<requested, orphans>>
           \/ \E o : requested' = requested \ {o} /\ orphans' = orphans \ {o},
           due' \in [Paths -> 0..MaxQueries], lingering' \subseteq Paths, doubtful' \in BOOLEAN,
           doubtful' \/ UNCHANGED <<due, doubtful>>,
           StreamTypes',
           \A t \in streams' : \E s \in streams : s.id = t.id /\ s.sent = t.sent
    PROVE  LinesInv'
<1>1. FileInv'
  BY StreamKeeps DEF LinesInv, storeVars
<1>2. ViewTypes'
  BY DEF LinesInv, ViewTypes, viewVars, storeVars
<1>3. Underway' = Underway /\ lost' = lost
  BY DEF Underway, viewVars, storeVars
<1>4. ASSUME NEW t \in streams' PROVE EndsAt(Underway', lost', t)
  <2>1. PICK s \in streams : s.id = t.id /\ s.sent = t.sent
    BY <1>4
  <2>2. EndsAt(Underway, lost, s)
    BY DEF LinesInv, OrderInv
  <2> QED BY <1>3, <2>1, <2>2 DEF EndsAt
<1>5. OrderInv'
  BY <1>3, <1>4 DEF LinesInv, OrderInv, viewVars, storeVars
<1>6. ListingInv'
  BY DEF LinesInv, ListingInv, viewVars, storeVars
<1> QED BY <1>1, <1>2, <1>5, <1>6 DEF LinesInv

LEMMA BecomesTypes ==
    ASSUME StreamTypes, started' = started, NEW s \in streams, NEW t \in Streams, Becomes(s, t),
           t.id = s.id, Fits(t)
    PROVE  /\ StreamTypes'
           /\ \A u \in streams' : u = t \/ (u \in streams /\ u.id # s.id)
<1>1. \A u \in streams' : u = t \/ (u \in streams /\ u # s)
  BY DEF Becomes
<1>2. \A u \in streams' : u = t \/ (u \in streams /\ u.id # s.id)
  BY <1>1 DEF StreamTypes
<1>3. streams' \subseteq Streams
  BY <1>2 DEF StreamTypes
<1>4. \A u \in streams' : u.id <= started' /\ Fits(u)
  BY <1>2 DEF StreamTypes
<1>5. \A u, v \in streams' : u.id = v.id => u = v
  BY <1>2 DEF StreamTypes
<1> QED BY <1>2, <1>3, <1>4, <1>5 DEF StreamTypes

LEMMA EndsTypes ==
    ASSUME StreamTypes, started' = started, NEW s \in streams, Ends(s)
    PROVE  /\ StreamTypes'
           /\ \A t \in streams' : \E u \in streams : u.id = t.id /\ u.sent = t.sent
<1> DEFINE Given(t) == IF t.of = s.of THEN [t EXCEPT !.on = FALSE] ELSE t
<1>1. \A t \in streams' : \E u \in streams : t = Given(u)
  BY DEF Ends
<1>2. ASSUME NEW u \in streams
      PROVE  /\ Given(u) \in Streams /\ Given(u).id = u.id /\ Given(u).sent = u.sent
             /\ Fits(Given(u))
  <2>1. u \in Streams /\ Fits(u)
    BY DEF StreamTypes
  <2> QED BY <2>1 DEF Streams, Fits
<1> HIDE DEF Given
<1>3. ASSUME NEW t \in streams'
      PROVE  /\ t \in Streams /\ t.id <= started' /\ Fits(t)
             /\ \E u \in streams : u.id = t.id /\ u.sent = t.sent
  <2>1. PICK u \in streams : t = Given(u)
    BY <1>1
  <2> QED BY <1>2, <2>1 DEF StreamTypes
<1>4. ASSUME NEW t \in streams', NEW r \in streams', t.id = r.id PROVE t = r
  <2>1. PICK u \in streams, v \in streams : t = Given(u) /\ r = Given(v)
    BY <1>1
  <2>2. u.id = v.id
    BY <1>2, <1>4, <2>1
  <2> QED BY <2>1, <2>2 DEF StreamTypes
<1>5. StreamTypes'
  BY <1>3, <1>4 DEF StreamTypes
<1> QED BY <1>3, <1>5

(* A step that sends a frame: a line, or none.                             *)
LEMMA SendKeepsLines ==
    ASSUME LinesInv,
           UNCHANGED <<viewVars, storeVars, dirVars, tailVars, requested, started, lost>>,
           NEW s \in streams, NEW t \in Streams, Becomes(s, t), t.id = s.id, Fits(t),
           NEW data \in Frames, Sends(data),
           \/ data = NoData /\ t.sent = s.sent
           \/ /\ data \in Pieces /\ data.of = s.id /\ data.line = s.sent + 1
              /\ data.text \in {data.line, data.line + 1} /\ t.sent = s.sent + 1
    PROVE  LinesInv'
<1>1. StreamTypes' /\ \A u \in streams' : u = t \/ (u \in streams /\ u.id # s.id)
  BY BecomesTypes DEF LinesInv
<1>2. /\ s \in Streams /\ s.id \in Nat /\ s.sent \in Nat /\ s.id <= started
      /\ \A u, v \in streams : u.id = v.id => u = v
  BY DEF LinesInv, StreamTypes, Streams
<1>3. wire' = Append(wire, data) /\ Len(wire) < MaxWire
  BY DEF Sends
<1>4. /\ UNCHANGED <<contents, file, watching, known, listing, fetched, place, mounted>>
      /\ UNCHANGED <<due, lingering, doubtful, tailed, strayed, orphans>>
      /\ contents \in Seq(Pieces) /\ file \in Frames /\ wire \in Seq(Frames)
      /\ Follow(contents, file, wire, lost)
  BY DEF LinesInv, ViewTypes, OrderInv, viewVars, storeVars, dirVars, tailVars
<1>5. /\ wire' \in Seq(Frames) /\ Len(wire') = Len(wire) + 1
      /\ Coming(wire') = Coming(wire) \cup Held(data)
  <2>1. wire' \in Seq(Frames) /\ Len(wire') = Len(wire) + 1
    BY <1>3, <1>4
  <2>2. Coming(wire') = Coming(wire) \cup Held(data)
    BY <1>3, <1>4, ComingGrows
  <2> QED BY <2>1, <2>2
<1>6. NoData \notin Pieces
  BY FileAssumption DEF NoData
<1>7. Underway' = Underway \cup Held(data)
  BY <1>4, <1>5 DEF Underway
<1>8. EndsAt(Underway, lost, s)
  BY DEF LinesInv, OrderInv
<1>9. Follow(contents', file', wire', lost')
  <2>1. CASE data = NoData
    BY <1>3, <1>4, <2>1, WireGrows
  <2>2. CASE data # NoData
    <3>1. data.of = s.id /\ data.line = s.sent + 1
      BY <2>2
    <3>2. EndsAt(On(contents) \cup Held(file) \cup Coming(wire), lost, s)
      BY <1>8 DEF Underway
    <3> QED BY <1>2, <1>3, <1>4, <2>2, <3>1, <3>2, WireGrows
  <2> QED BY <2>1, <2>2
<1>10. \A a \in Underway' : a.of <= started' /\ a.text \in {a.line, a.line + 1}
  <2>1. \A a \in Underway : a.of <= started' /\ a.text \in {a.line, a.line + 1}
    BY DEF LinesInv, OrderInv, Written
  <2>2. \A a \in Held(data) : a.of <= started' /\ a.text \in {a.line, a.line + 1}
    BY <1>2 DEF Held
  <2> QED BY <1>7, <2>1, <2>2
<1>11. ASSUME NEW u \in streams' PROVE EndsAt(Underway', lost', u)
  <2>1. CASE u \in streams /\ u.id # s.id
    <3>1. EndsAt(Underway, lost, u)
      BY <2>1 DEF LinesInv, OrderInv
    <3>2. \A a \in Held(data) : a.of # u.id
      BY <2>1 DEF Held
    <3> QED BY <1>7, <3>1, <3>2 DEF EndsAt
  <2>2. CASE u = t /\ data = NoData
    <3>1. Underway' = Underway
      BY <1>7, <2>2 DEF Held
    <3>2. u.id = s.id /\ u.sent = s.sent
      BY <1>6, <2>2
    <3> QED BY <1>8, <3>1, <3>2 DEF EndsAt
  <2>3. CASE u = t /\ data # NoData
    <3>1. /\ u.id = s.id /\ u.sent = s.sent + 1
          /\ data \in Underway' /\ data.of = s.id /\ data.line = s.sent + 1
      BY <1>7, <2>3 DEF Held
    <3>2. \A a \in Underway' : a.of = s.id => a.line <= s.sent + 1
      <4>1. \A a \in Underway : a.of = s.id => a.line <= s.sent /\ a.line \in Nat
        BY <1>4, <1>8, TheyArePieces DEF EndsAt, Underway, Pieces
      <4>2. \A a \in Held(data) : a.line = s.sent + 1
        BY <3>1 DEF Held
      <4> QED BY <1>2, <1>7, <4>1, <4>2
    <3> QED BY <3>1, <3>2 DEF EndsAt
  <2> QED BY <1>1, <2>1, <2>2, <2>3
<1>12. OrderInv'
  <2>1. (~watching' => contents' = <<>>) /\ (watching' /\ known' => file' = NoData)
    BY <1>4 DEF LinesInv, OrderInv
  <2> QED BY <1>9, <1>10, <1>11, <2>1 DEF OrderInv, Written
<1>13. ViewTypes'
  <2>1. Len(wire') <= MaxWire
    BY <1>3, <1>4, <1>5, FileAssumption
  <2> QED BY <1>4, <1>5, <2>1 DEF LinesInv, ViewTypes
<1>14. FileInv' /\ ListingInv'
  <2>1. FileInv'
    BY <1>4, StreamKeeps DEF LinesInv, viewVars
  <2> QED BY <1>4, <2>1 DEF LinesInv, ListingInv
<1> QED BY <1>1, <1>12, <1>13, <1>14 DEF LinesInv

(* A read, and the handing over of what was read.                          *)
LEMMA ReaderKeepsLines ==
    ASSUME LinesInv, NEW s \in streams, StreamOpens(s) \/ Reads(s) \/ HandsOver(s)
    PROVE  LinesInv'
<1>1. /\ s \in Streams /\ Fits(s) /\ s.read \in Nat /\ s.sent \in Nat
      /\ s.id \in 1..MaxStreams /\ MaxPieces[s.id] \in Nat /\ MaxPieces[s.id] > 0
      /\ StreamTypes
  <2>1. s \in Streams /\ Fits(s) /\ StreamTypes
    BY DEF LinesInv, StreamTypes
  <2>2. s.id \in 1..MaxStreams /\ s.read \in Nat /\ s.sent \in Nat
    BY <2>1 DEF Fits, Streams
  <2>3. MaxPieces[s.id] \in Nat \ {0}
    BY <2>2, FileAssumption
  <2> QED BY <2>1, <2>2, <2>3
<1>2. UNCHANGED <<viewVars, storeVars, dirVars, tailVars, requested, started, wire, lost>>
  BY DEF StreamOpens, Reads, HandsOver
<1>3. PICK t \in Streams : Becomes(s, t) /\ t.id = s.id /\ t.sent = s.sent /\ Fits(t)
  <2>1. CASE StreamOpens(s)
    <3> DEFINE t == [s EXCEPT !.open = TRUE, !.reading = s.on]
    <3>1. ~s.open /\ Becomes(s, t)
      BY <2>1 DEF StreamOpens
    <3>2. /\ t \in Streams /\ t.id = s.id /\ t.sent = s.sent /\ t.read = s.read
          /\ t.line = s.line /\ t.offered = s.offered /\ t.open = TRUE
      BY <1>1 DEF Streams
    <3>3. s.read = 0 /\ ~s.offered
      BY <1>1, <3>1 DEF Fits, Streams
    <3> HIDE DEF t
    <3>4. Fits(t)
      BY <1>1, <3>2, <3>3 DEF Fits
    <3> QED BY <3>1, <3>2, <3>4
  <2>2. CASE Reads(s)
    <3>0. PICK m \in Nat : m = s.read + 1
      BY <1>1
    <3> DEFINE t == [s EXCEPT !.read = m, !.offered = TRUE, !.reading = FALSE]
    <3>1. s.reading /\ Becomes(s, t)
      BY <2>2, <3>0 DEF Reads
    <3>2. /\ t \in Streams /\ t.id = s.id /\ t.sent = s.sent /\ t.line = s.line
          /\ t.read = m /\ t.offered = TRUE /\ t.reading = FALSE /\ t.open = s.open
      BY <1>1 DEF Streams
    <3>3. /\ ~s.offered /\ s.read < MaxPieces[s.id] /\ s.line \in BOOLEAN
          /\ s.read = s.sent + (IF s.line THEN 1 ELSE 0) + (IF s.offered THEN 1 ELSE 0)
      BY <1>1, <3>1 DEF Fits, Streams
    <3>4. m <= MaxPieces[s.id] /\ m = s.sent + (IF s.line THEN 1 ELSE 0) + 1
      BY <1>1, <3>0, <3>3
    <3>5. s.open
      BY <1>1, <3>1, <3>3 DEF Fits
    <3> HIDE DEF t
    <3>6. Fits(t)
      BY <1>1, <3>2, <3>3, <3>4, <3>5 DEF Fits
    <3> QED BY <3>1, <3>2, <3>6
  <2>3. CASE HandsOver(s)
    <3>0. PICK b \in BOOLEAN : b = (s.on /\ s.read < MaxPieces[s.id])
      OBVIOUS
    <3> DEFINE t == [s EXCEPT !.offered = FALSE, !.line = TRUE, !.reading = b]
    <3>1. s.offered /\ ~s.line /\ Becomes(s, t)
      BY <2>3, <3>0 DEF HandsOver
    <3>2. /\ t \in Streams /\ t.id = s.id /\ t.sent = s.sent /\ t.read = s.read
          /\ t.line = TRUE /\ t.offered = FALSE /\ t.reading = b /\ t.open = s.open
      BY <1>1 DEF Streams
    <3>3. s.read = s.sent + 1 /\ s.read <= MaxPieces[s.id] /\ (~s.open => s.read = 0)
      BY <1>1, <3>1 DEF Fits
    <3>4. s.open /\ (b => s.read < MaxPieces[s.id])
      <4>1. s.open
        BY <1>1, <3>3
      <4>2. b => s.read < MaxPieces[s.id]
        BY <3>0, Zenon
      <4> QED BY <4>1, <4>2
    <3> HIDE DEF t
    <3>5. t.read = t.sent + (IF t.line THEN 1 ELSE 0) + (IF t.offered THEN 1 ELSE 0)
      BY <1>1, <3>2, <3>3
    <3>6. Fits(t)
      BY <1>1, <3>2, <3>3, <3>4, <3>5 DEF Fits
    <3> QED BY <3>1, <3>2, <3>6
  <2> QED BY <2>1, <2>2, <2>3
<1>4. StreamTypes' /\ \A u \in streams' : u = t \/ (u \in streams /\ u.id # s.id)
  BY <1>1, <1>2, <1>3, BecomesTypes
<1>5. \A u \in streams' : \E r \in streams : r.id = u.id /\ r.sent = u.sent
  BY <1>3, <1>4
<1>6. /\ UNCHANGED <<due, lingering, doubtful, tailed, strayed, orphans, requested>>
      /\ due \in [Paths -> 0..MaxQueries] /\ lingering \subseteq Paths /\ doubtful \in BOOLEAN
  BY <1>2 DEF dirVars, tailVars, LinesInv, ViewTypes
<1> QED BY <1>2, <1>4, <1>5, <1>6, SilentKeepsLines

LEMMA StreamKeepsLines ==
    ASSUME LinesInv, NEW s \in streams,
           \/ StreamOpens(s) \/ StreamStarts(s) \/ StreamFails(s) \/ Reads(s)
           \/ HandsOver(s) \/ SendsLine(s) \/ StreamStops(s)
    PROVE  LinesInv'
<1>1. /\ s \in Streams /\ Fits(s) /\ s.read \in Nat /\ s.sent \in Nat /\ s.id \in Nat
      /\ s.line \in BOOLEAN /\ s.offered \in BOOLEAN /\ StreamTypes
  BY DEF LinesInv, StreamTypes, Streams
<1>2. CASE StreamStarts(s)
  <2> DEFINE t == [s EXCEPT !.head = TRUE]
  <2>1. /\ t \in Streams /\ t.id = s.id /\ t.sent = s.sent /\ Fits(t)
    BY <1>1 DEF Streams, Fits
  <2>2. Sends(NoData) /\ Becomes(s, t) /\ NoData \in Frames
    BY <1>2 DEF StreamStarts, Frames
  <2>3. UNCHANGED <<viewVars, storeVars, dirVars, tailVars, requested, started, lost>>
    BY <1>2 DEF StreamStarts
  <2> HIDE DEF t
  <2> QED BY <2>1, <2>2, <2>3, SendKeepsLines
<1>3. CASE StreamFails(s) \/ StreamStops(s)
  <2>1. /\ UNCHANGED <<viewVars, storeVars, dirVars, tailed, strayed, started, wire, lost>>
        /\ Ends(s)
    BY <1>3 DEF StreamFails, StreamStops
  <2>2. requested' = requested \ {s.of} /\ orphans' = orphans \ {s.of}
    BY <2>1 DEF Ends
  <2>3. /\ UNCHANGED <<due, lingering, doubtful>> /\ due \in [Paths -> 0..MaxQueries]
        /\ lingering \subseteq Paths /\ doubtful \in BOOLEAN
    BY <2>1 DEF dirVars, LinesInv, ViewTypes
  <2>4. /\ StreamTypes'
        /\ \A t \in streams' : \E u \in streams : u.id = t.id /\ u.sent = t.sent
    BY <1>1, <2>1, EndsTypes
  <2> QED BY <2>1, <2>2, <2>3, <2>4, SilentKeepsLines
<1>4. CASE StreamOpens(s) \/ Reads(s) \/ HandsOver(s)
  BY <1>4, ReaderKeepsLines
<1>5. CASE SendsLine(s)
  <2>1. PICK n \in (s.sent + 1)..(IF s.reading THEN s.read + 1 ELSE s.read) :
            Sends([of |-> s.id, line |-> s.sent + 1, text |-> n])
    BY <1>5 DEF SendsLine
  <2>2. PICK m \in Nat : m = s.sent + 1
    BY <1>1
  <2> DEFINE t == [s EXCEPT !.line = FALSE, !.sent = m]
  <2>3. s.line /\ Becomes(s, t)
        /\ UNCHANGED <<viewVars, storeVars, dirVars, tailVars, requested, started, lost>>
    BY <1>5, <2>2 DEF SendsLine
  <2>4. /\ s.read = s.sent + 1 + (IF s.offered THEN 1 ELSE 0)
        /\ s.reading => ~s.offered
    BY <1>1, <2>3 DEF Fits
  <2>5. n \in {s.sent + 1, (s.sent + 1) + 1} /\ n \in Nat
    BY <1>1, <2>1, <2>4
  <2>6. PICK data \in Pieces :
            /\ Sends(data) /\ data.of = s.id /\ data.line = s.sent + 1
            /\ data.text \in {data.line, data.line + 1}
    BY <1>1, <2>1, <2>2, <2>5 DEF Pieces
  <2>7. /\ t \in Streams /\ t.id = s.id /\ t.sent = m /\ t.read = s.read /\ t.open = s.open
        /\ t.line = FALSE /\ t.offered = s.offered /\ t.reading = s.reading
    BY <1>1 DEF Streams
  <2> HIDE DEF t
  <2>8. Fits(t)
    BY <1>1, <2>2, <2>4, <2>7 DEF Fits
  <2>9. data \in Frames /\ t.sent = s.sent + 1
    BY <2>2, <2>7 DEF Frames
  <2> QED BY <2>3, <2>6, <2>7, <2>8, <2>9, SendKeepsLines
<1> QED BY <1>2, <1>3, <1>4, <1>5

(* A query that fails, or unsubscribes.                                    *)
LEMMA DirKeepsLines ==
    ASSUME LinesInv, NEW d \in Paths, DirFails(d) \/ DirEnds(d)
    PROVE  LinesInv'
<1>1. /\ UNCHANGED <<viewVars, storeVars, tailVars, backVars, wire, lost>>
      /\ (due' = Answered(d) /\ doubtful' = TRUE /\ due[d] > 0) \/ UNCHANGED <<due, doubtful>>
      /\ lingering' \subseteq lingering \cup {d}
  BY DEF DirFails, DirEnds
<1>2. /\ due \in [Paths -> 0..MaxQueries] /\ doubtful \in BOOLEAN /\ lingering \subseteq Paths
      /\ ViewTypes
  BY DEF LinesInv, ViewTypes
<1>3. /\ due' \in [Paths -> 0..MaxQueries] /\ doubtful' \in BOOLEAN /\ lingering' \subseteq Paths
      /\ doubtful' \/ UNCHANGED <<due, doubtful>>
  BY <1>1, <1>2, AnsweredIs
<1>4. UNCHANGED <<tailed, strayed, requested, orphans, streams, started>>
  BY <1>1 DEF tailVars, backVars
<1>5. StreamTypes'
  BY <1>4 DEF LinesInv, StreamTypes
<1> QED BY <1>1, <1>3, <1>4, <1>5, SilentKeepsLines

LEMMA StepKeepsLines == LinesInv /\ [FileNext]_vars => LinesInv'
<1> SUFFICES ASSUME LinesInv, [FileNext]_vars PROVE LinesInv'
  OBVIOUS
<1>1. /\ place \in Places /\ known \in BOOLEAN /\ lingering \subseteq Paths /\ FileInv
      /\ due \in [Paths -> 0..MaxQueries] /\ doubtful \in BOOLEAN
  BY DEF LinesInv, ViewTypes
<1>2. CASE Opens
  BY <1>2, OpensKeepsLines
<1>3. CASE Leaves
  BY <1>3, LeavesKeepsLines
<1>4. CASE handleClick \/ JumpBack
  <2>1. PICK p \in Places : GoTo(p)
    BY <1>1, <1>4, MovesWithin
  <2>2. /\ place' = p /\ Renders(place', file, known, due)
        /\ UNCHANGED <<mounted, known, listing, lingering, wire>>
    BY <2>1 DEF GoTo
  <2> QED BY <1>1, <2>2, RendersKeepsLines
<1>5. CASE NodesArrive
  <2>1. /\ Renders(place', file, known', due) /\ known' \in BOOLEAN
        /\ UNCHANGED <<place, mounted, listing, lingering, wire>>
    BY <1>5 DEF NodesArrive
  <2> QED BY <1>1, <2>1, RendersKeepsLines
<1>6. ASSUME NEW d \in Paths, DirArrives(d) PROVE LinesInv'
  <2>1. /\ Renders(place', file, known, Answered(d)) /\ UNCHANGED <<place, mounted, known, wire>>
        /\ due[d] > 0 /\ listing' = d /\ lingering' \subseteq Paths
    BY <1>1, <1>6 DEF DirArrives
  <2> QED BY <1>1, <2>1, RendersKeepsLines
<1>7. ASSUME NEW d \in Paths, DirFails(d) \/ DirEnds(d) PROVE LinesInv'
  BY <1>7, DirKeepsLines
<1>8. CASE FrameArrives
  <2>1. /\ Renders(place', Head(wire), known, due) /\ wire # <<>> /\ wire' = Tail(wire)
        /\ UNCHANGED <<place, mounted, known, listing, lingering>>
    BY <1>8 DEF FrameArrives
  <2> QED BY <1>1, <2>1, RendersKeepsLines
<1>9. ASSUME NEW s \in streams,
             \/ StreamOpens(s) \/ StreamStarts(s) \/ StreamFails(s) \/ Reads(s)
             \/ HandsOver(s) \/ SendsLine(s) \/ StreamStops(s)
      PROVE  LinesInv'
  BY <1>9, StreamKeepsLines
<1>10. CASE UNCHANGED vars
  <2>1. UNCHANGED <<viewVars, storeVars, due, lingering, doubtful, tailed, strayed, requested,
                    orphans, streams, started, wire, lost>>
    BY <1>10 DEF vars, dirVars, tailVars, backVars
  <2>2. StreamTypes'
    BY <2>1 DEF LinesInv, StreamTypes
  <2> QED BY <1>1, <2>1, <2>2, SilentKeepsLines
<1> QED BY <1>2, <1>3, <1>4, <1>5, <1>6, <1>7, <1>8, <1>9, <1>10 DEF FileNext

LEMMA LinesInvHolds == FileSpec => []LinesInv
<1>1. FileInit => LinesInv
  BY InitFileInv, InitLines DEF LinesInv
<1> QED BY <1>1, StepKeepsLines, PTL DEF FileSpec

(* AllocationFiles.js, file.go: whatever is opened, left and answered, and *)
(* whenever, the state, the store and the streams are of their kinds; the  *)
(* output stays within its bound.                                          *)
THEOREM FileTypeCorrect == FileSpec => []FileTypeOK
<1>1. LinesInv => FileTypeOK
  <2> SUFFICES ASSUME LinesInv PROVE FileTypeOK
    OBVIOUS
  <2>1. ASSUME NEW s \in streams
        PROVE  s.id \in 1..started /\ s.sent <= s.read /\ s.read <= MaxPieces[s.id]
    <3>1. s \in Streams /\ Fits(s) /\ s.id <= started /\ started \in Nat
      BY DEF LinesInv, StreamTypes
    <3> QED BY <3>1 DEF Fits, Streams
  <2> QED BY <2>1 DEF LinesInv, ViewTypes, StreamTypes, FileTypeOK
<1> QED BY <1>1, LinesInvHolds, PTL

(* AllocationFiles.js:104-137, file.go: though the frames of several       *)
(* streams are under way at once, and any of them is forgotten, the lines  *)
(* of each are shown in their order, and none between two that are shown   *)
(* is left out but what was replaced in the store, while the node was not  *)
(* known.                                                                  *)
THEOREM FilesShowsInOrder == FileSpec => []ShowsInOrder
<1>1. LinesInv => ShowsInOrder
  <2> SUFFICES ASSUME LinesInv, NEW j \in 1..Len(contents)
               PROVE  /\ contents[j].text \in {contents[j].line, contents[j].line + 1}
                      /\ \A i \in 1..(j - 1) : contents[i].of = contents[j].of =>
                             /\ contents[i].line < contents[j].line
                             /\ \/ \E k \in i..(j - 1) :
                                       /\ contents[k].of = contents[j].of
                                       /\ contents[k].line + 1 = contents[j].line
                                \/ <<contents[j].of, contents[j].line - 1>> \in lost
    BY DEF ShowsInOrder
  <2>1. /\ contents \in Seq(Pieces) /\ Len(contents) \in Nat
        /\ Rises(contents) /\ Written(Underway)
        /\ Precede(On(contents), Held(file)) /\ Precede(On(contents), Coming(wire))
        /\ NoGap(Underway, lost)
    BY DEF LinesInv, ViewTypes, OrderInv, Follow, Underway
  <2>2. On(contents) \subseteq Underway /\ \A i \in 1..Len(contents) : contents[i] \in On(contents)
    BY DEF On, Underway
  <2>3. \A i \in 1..Len(contents) : contents[i].line \in Nat
    <3>1. \A i \in 1..Len(contents) : contents[i] \in Pieces
      BY <2>1
    <3> QED BY <3>1 DEF Pieces
  <2>4. contents[j].text \in {contents[j].line, contents[j].line + 1}
    BY <2>1, <2>2 DEF Written
  <2>5. ASSUME NEW i \in 1..(j - 1), contents[i].of = contents[j].of
        PROVE  contents[i].line < contents[j].line
    BY <2>1, <2>5 DEF Rises
  <2>6. ASSUME NEW i \in 1..(j - 1), contents[i].of = contents[j].of,
               <<contents[j].of, contents[j].line - 1>> \notin lost
        PROVE  \E k \in i..(j - 1) : /\ contents[k].of = contents[j].of
                                     /\ contents[k].line + 1 = contents[j].line
    <3>1. i \in 1..Len(contents) /\ i < j /\ contents[i].line < contents[j].line
      BY <2>1, <2>5, <2>6
    <3>2. PICK z \in Underway : z.of = contents[j].of /\ z.line + 1 = contents[j].line
      BY <2>1, <2>2, <2>6, <3>1 DEF NoGap
    <3>3. z.line \in Nat
      BY <3>2, TheyArePieces DEF LinesInv, ViewTypes, Underway, Pieces
    <3>4. ~(contents[j].line < z.line)
      BY <2>3, <3>2, <3>3
    <3>5. z \in On(contents)
      BY <2>1, <2>2, <3>2, <3>4 DEF Underway, Precede
    <3>6. PICK k \in 1..Len(contents) : z = contents[k]
      BY <3>5 DEF On
    <3>7. ~(k < i)
      <4> SUFFICES ASSUME k < i PROVE FALSE
        OBVIOUS
      <4>1. contents[k].line < contents[i].line
        BY <2>1, <2>6, <3>1, <3>2, <3>6 DEF Rises
      <4> QED BY <2>3, <3>1, <3>2, <3>6, <4>1
    <3>8. ~(j < k)
      BY <2>1, <3>2, <3>4, <3>6 DEF Rises
    <3>9. k # j
      BY <2>3, <3>2, <3>3, <3>6
    <3>10. k \in i..(j - 1)
      BY <3>1, <3>6, <3>7, <3>8, <3>9
    <3> QED BY <3>2, <3>6, <3>10
  <2> QED BY <2>4, <2>5, <2>6
<1> QED BY <1>1, LinesInvHolds, PTL

(* AllocationFiles.js:48-58, dir.go: whatever the order in which queries   *)
(* answer, fail and end, what is listed once all have answered is the      *)
(* directory of the address, but for the cases that leave it in doubt.     *)
THEOREM FilesListsTheAddress == FileSpec => []ListsTheAddress
<1>1. LinesInv => ListsTheAddress
  BY DEF LinesInv, ListingInv, ListsTheAddress
<1> QED BY <1>1, LinesInvHolds, PTL
=============================================================================
