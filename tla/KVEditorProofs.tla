---------------------------- MODULE KVEditorProofs ---------------------------
(***************************************************************************)
(* Proofs about KVEditor, for any users, folders, names and keys.          *)
(*                                                                         *)
(* LoadedBeforeReplaced rests on an index belonging to one key: a page may *)
(* send the index of one key with the path of another (the fields follow   *)
(* the pair, the folder does not), but then the index is not the one in    *)
(* place.  KVInv says so, and follows an index from the answer to the      *)
(* pair, the fields and the next request.                                  *)
(***************************************************************************)
EXTENDS KVEditor, TLAPS

(* An index is a version of one key only, and the store is at one of them. *)
OneKeyPerIndex ==
    \A k \in Keys :
        /\ server[k] \in versions[k] /\ 0 \in versions[k]
        /\ \A i \in versions[k] :
              /\ i <= last
              /\ \A l \in Keys : i # 0 /\ i \in versions[l] => k = l

(* What a page has shown is a version of its key.                          *)
SeenAreVersions == \A u \in Users : \A p \in seen[u] : p.index \in versions[p.key]

(* The pair in the store was shown.                                        *)
PairIsSeen == \A u \in Users : HasKey(pair[u]) => pair[u] \in seen[u]

ShownIndex(u, i) == \E p \in seen[u] : p.index = i

(* What a request may carry.                                               *)
Sound(r) ==
    /\ r.op # "tree" => r.key \in Keys
    /\ r.op = "tree" => r.at = "sent"
    /\ r.op = "delete" => r.at # "written"
    /\ r.op \in {"set", "delete"} /\ r.at = "sent" /\ r.index # 0 => ShownIndex(r.user, r.index)
    /\ r.op \in {"get", "set"} /\ r.at = "answered" => r.index \in versions[r.key]

RequestsAreSound == \A r \in reqs : Sound(r)

KVInv ==
    /\ KVTypeOK
    /\ OneKeyPerIndex
    /\ SeenAreVersions
    /\ PairIsSeen
    /\ EditorFollowsPair
    /\ RequestsAreSound

-----------------------------------------------------------------------------

(* The pair's name is a name.                                              *)
LEMMA EditedType ==
    ASSUME NEW p \in Pairs
    PROVE  Edited(p) \in [name : Names \cup {NoName}, index : Nat]
BY KVAssumption DEF Edited, Pairs, NoPair, Path

LEMMA NoPairType == NoPair \in Pairs /\ ~HasKey(NoPair) /\ NoPair.index = 0
BY KVAssumption DEF NoPair, Pairs, HasKey

LEMMA EmptyType == Empty \in [name : Names \cup {NoName}, index : Nat] /\ Empty.index = 0
BY DEF Empty

(* A request that is sent is sound when it carries an index shown.         *)
LEMMA RequestSound ==
    ASSUME NEW u \in Users, NEW op \in {"get", "set", "delete", "tree"},
           NEW k \in Targets, NEW i \in Nat,
           KVInv, Request(u, op, k, i), UNCHANGED <<versions, seen>>,
           op # "tree" => k \in Keys,
           op \in {"set", "delete"} /\ i # 0 => ShownIndex(u, i)
    PROVE  reqs' \subseteq Requests /\ RequestsAreSound'
BY DEF KVInv, KVTypeOK, Request, RequestsAreSound, Sound, ShownIndex, Requests

(* Requests only end, and nothing they speak of is taken back.             *)
LEMMA RequestsEnd ==
    ASSUME KVInv, reqs' \subseteq reqs,
           \A k \in Keys : versions[k] \subseteq versions'[k],
           \A u \in Users : seen[u] \subseteq seen'[u]
    PROVE  reqs' \subseteq Requests /\ RequestsAreSound'
<1>1. SUFFICES ASSUME NEW r \in reqs' PROVE Sound(r)'
  BY DEF KVInv, KVTypeOK, RequestsAreSound
<1>2. Sound(r) /\ r \in Requests
  BY DEF KVInv, KVTypeOK, RequestsAreSound
<1>3. r.user \in Users
  BY <1>2 DEF Requests
<1> QED BY <1>2, <1>3 DEF Sound, ShownIndex

(* The fields and the pair, when the pair stays and the fields are made    *)
(* empty or made to follow it.                                             *)
LEMMA FieldsFollow ==
    ASSUME NEW u \in Users, NEW e \in {Empty, Received(u)}, KVInv,
           editor' = [editor EXCEPT ![u] = e], UNCHANGED <<pair, seen>>
    PROVE  /\ editor' \in [Users -> [name : Names \cup {NoName}, index : Nat]]
           /\ EditorFollowsPair' /\ PairIsSeen'
<1>1. e \in [name : Names \cup {NoName}, index : Nat]
  BY EmptyType, EditedType DEF KVInv, KVTypeOK, Received
<1>2. e.index # 0 => e = Edited(pair[u])
  BY EmptyType DEF KVInv, KVTypeOK, EditorFollowsPair, Received, HasKey
<1> QED BY <1>1, <1>2 DEF KVInv, KVTypeOK, EditorFollowsPair, PairIsSeen, HasKey

LEMMA PageCleared ==
    ASSUME NEW u \in Users, KVInv, ClearPage(u), UNCHANGED seen
    PROVE  /\ editor' \in [Users -> [name : Names \cup {NoName}, index : Nat]]
           /\ pair' \in [Users -> Pairs]
           /\ EditorFollowsPair' /\ PairIsSeen'
BY NoPairType, EmptyType
   DEF KVInv, KVTypeOK, ClearPage, EditorFollowsPair, PairIsSeen, HasKey

LEMMA StoreStays ==
    ASSUME KVInv, UNCHANGED <<storeVars, seen>>
    PROVE  OneKeyPerIndex' /\ SeenAreVersions'
BY DEF KVInv, OneKeyPerIndex, SeenAreVersions, storeVars

-----------------------------------------------------------------------------

LEMMA KVInitially == KVInit => KVInv
<1> SUFFICES ASSUME KVInit PROVE KVInv
  OBVIOUS
<1>1. KVTypeOK
  BY NoPairType, EmptyType DEF KVInit, KVTypeOK
<1> QED BY <1>1, NoPairType, EmptyType
     DEF KVInit, KVInv, OneKeyPerIndex, SeenAreVersions, PairIsSeen, EditorFollowsPair,
         RequestsAreSound, HasKey

LEMMA UserKeepsInv == ASSUME NEW u \in Users, KVInv, UserStep(u) PROVE KVInv'
<1> USE DEF storeVars, pageVars
<1>1. CASE \E k \in Keys : Open(u, k)
  <2> PICK k \in Keys : Open(u, k)
    BY <1>1
  <2>1. reqs' \subseteq Requests /\ RequestsAreSound'
    BY RequestSound DEF Open, Targets
  <2> QED BY <2>1, StoreStays
       DEF Open, KVInv, KVTypeOK, PairIsSeen, EditorFollowsPair
<1>2. CASE \E n \in Names \cup {NoName} : TypeName(u, n)
  <2> PICK n \in Names \cup {NoName} : TypeName(u, n)
    BY <1>2
  <2>1. editor' \in [Users -> [name : Names \cup {NoName}, index : Nat]]
    BY DEF TypeName, KVInv, KVTypeOK
  <2>2. ~HasKey(editor[u])
    BY DEF TypeName, KVInv, KVTypeOK, EditorFollowsPair, HasKey, Edited
  <2>3. EditorFollowsPair'
    BY <2>2 DEF TypeName, KVInv, KVTypeOK, EditorFollowsPair, HasKey
  <2>4. reqs' \subseteq Requests /\ RequestsAreSound'
    BY RequestsEnd DEF TypeName
  <2> QED BY <2>1, <2>3, <2>4, StoreStays DEF TypeName, KVInv, KVTypeOK, PairIsSeen
<1>3. CASE Save(u)
  <2> PICK k \in Keys : Request(u, "set", k, editor[u].index)
    BY <1>3 DEF Save
  <2>1. HasKey(editor[u]) => ShownIndex(u, editor[u].index)
    <3> SUFFICES ASSUME HasKey(editor[u]) PROVE ShownIndex(u, editor[u].index)
      OBVIOUS
    <3>1. editor[u] = Edited(pair[u])
      BY DEF KVInv, EditorFollowsPair
    <3>2. editor[u].index = pair[u].index
      BY <3>1 DEF Edited
    <3>3. pair[u] \in seen[u]
      BY <3>2 DEF KVInv, PairIsSeen, HasKey
    <3> QED BY <3>2, <3>3 DEF ShownIndex
  <2>2. editor[u].index \in Nat
    BY DEF KVInv, KVTypeOK
  <2>3. reqs' \subseteq Requests /\ RequestsAreSound'
    BY <1>3, <2>1, <2>2, RequestSound DEF Save, HasKey, Targets
  <2>4. /\ editor' \in [Users -> [name : Names \cup {NoName}, index : Nat]]
        /\ EditorFollowsPair'
    BY <1>3, EmptyType DEF Save, KVInv, KVTypeOK, EditorFollowsPair, HasKey
  <2> QED BY <1>3, <2>3, <2>4, StoreStays DEF Save, KVInv, KVTypeOK, PairIsSeen
<1>4. CASE DeleteKey(u)
  <2> PICK k \in Keys : Request(u, "delete", k, pair[u].index)
    BY <1>4 DEF DeleteKey
  <2>1. ShownIndex(u, pair[u].index) /\ pair[u].index \in Nat
    BY <1>4 DEF DeleteKey, KVInv, KVTypeOK, PairIsSeen, ShownIndex, Pairs
  <2>2. reqs' \subseteq Requests /\ RequestsAreSound'
    BY <1>4, <2>1, RequestSound DEF DeleteKey, Targets
  <2> QED BY <1>4, <2>2, StoreStays
       DEF DeleteKey, KVInv, KVTypeOK, PairIsSeen, EditorFollowsPair
<1>5. CASE DeleteFolder(u)
  <2>1. Path(folder[u], NoName) \in Targets
    BY DEF KVInv, KVTypeOK, Targets
  <2>2. reqs' \subseteq Requests /\ RequestsAreSound'
    BY <1>5, <2>1, RequestSound DEF DeleteFolder
  <2> QED BY <1>5, <2>2, PageCleared, StoreStays, KVAssumption DEF DeleteFolder, KVInv, KVTypeOK
<1>6. CASE Cancel(u) \/ \E f \in Folders : Navigate(u, f)
  <2>1. reqs' \subseteq Requests /\ RequestsAreSound'
    BY <1>6, RequestsEnd DEF Cancel, Navigate
  <2> QED BY <1>6, <2>1, PageCleared, StoreStays DEF Cancel, Navigate, KVInv, KVTypeOK
<1>7. CASE PathsArrive(u) \/ \E f \in Folders : Back(u, f) \/ Remount(u, f)
  <2>1. reqs' \subseteq Requests /\ RequestsAreSound'
    BY <1>7, RequestsEnd DEF PathsArrive, Back, Remount
  <2>2. /\ editor' \in [Users -> [name : Names \cup {NoName}, index : Nat]]
        /\ EditorFollowsPair' /\ PairIsSeen'
    BY <1>7, FieldsFollow DEF PathsArrive, Back, Remount
  <2> QED BY <1>7, <2>1, <2>2, StoreStays DEF PathsArrive, Back, Remount, KVInv, KVTypeOK
<1> QED BY <1>1, <1>2, <1>3, <1>4, <1>5, <1>6, <1>7 DEF UserStep

-----------------------------------------------------------------------------
(* A request moves on: only the moved one has to be looked at.             *)
LEMMA RequestMoves ==
    ASSUME KVInv, NEW r \in reqs, NEW at \in {"sent", "written", "answered"}, NEW i \in Nat,
           Becomes(r, at, i), UNCHANGED seen,
           \A k \in Keys : versions[k] \subseteq versions'[k],
           Sound([r EXCEPT !.at = at, !.index = i])'
    PROVE  reqs' \subseteq Requests /\ RequestsAreSound'
<1> DEFINE q == [r EXCEPT !.at = at, !.index = i]
<1>1. q \in Requests
  BY DEF KVInv, KVTypeOK, Requests
<1>2. reqs' = (reqs \ {r}) \cup {q}
  BY DEF Becomes
<1>3. reqs' \subseteq Requests
  BY <1>1, <1>2 DEF KVInv, KVTypeOK
<1>4. ASSUME NEW s \in reqs PROVE Sound(s)'
  <2>1. Sound(s)
    BY DEF KVInv, RequestsAreSound
  <2> QED BY <2>1 DEF Sound, ShownIndex
<1> QED BY <1>2, <1>3, <1>4 DEF RequestsAreSound

(* A write takes an index nobody has had.                                  *)
LEMMA WriteKeepsStore ==
    ASSUME KVInv, NEW k \in Keys,
           last' = last + 1,
           server' = [server EXCEPT ![k] = last + 1],
           versions' = [versions EXCEPT ![k] = @ \cup {last + 1}],
           UNCHANGED seen
    PROVE  /\ server' \in [Keys -> Nat] /\ versions' \in [Keys -> SUBSET Nat] /\ last' \in Nat
           /\ \A l \in Keys : versions[l] \subseteq versions'[l]
           /\ OneKeyPerIndex' /\ SeenAreVersions'
<1>1. last \in Nat /\ versions \in [Keys -> SUBSET Nat] /\ server \in [Keys -> Nat]
  BY DEF KVInv, KVTypeOK
<1>2. /\ server' \in [Keys -> Nat] /\ versions' \in [Keys -> SUBSET Nat] /\ last' \in Nat
      /\ \A l \in Keys : versions[l] \subseteq versions'[l]
  BY <1>1
<1>3. \A l \in Keys : last + 1 \notin versions[l]
  BY <1>1 DEF KVInv, OneKeyPerIndex
<1>4. OneKeyPerIndex'
  <2> SUFFICES ASSUME NEW l \in Keys
               PROVE  /\ server'[l] \in versions'[l] /\ 0 \in versions'[l]
                      /\ \A i \in versions'[l] :
                            /\ i <= last'
                            /\ \A m \in Keys : i # 0 /\ i \in versions'[m] => l = m
    BY DEF OneKeyPerIndex
  <2>1. server'[l] \in versions'[l] /\ 0 \in versions'[l]
    BY <1>1 DEF KVInv, OneKeyPerIndex
  <2>2. \A i \in versions'[l] : i <= last'
    BY <1>1 DEF KVInv, OneKeyPerIndex
  <2>3. \A i \in versions'[l] : \A m \in Keys : i # 0 /\ i \in versions'[m] => l = m
    BY <1>1, <1>3 DEF KVInv, OneKeyPerIndex
  <2> QED BY <2>1, <2>2, <2>3
<1>5. SeenAreVersions'
  BY <1>1, <1>2 DEF KVInv, KVTypeOK, SeenAreVersions
<1> QED BY <1>2, <1>4, <1>5

(* A deletion takes keys back to 0.                                        *)
LEMMA DeletionKeepsStore ==
    ASSUME KVInv, server' \in [Keys -> Nat],
           \A k \in Keys : server'[k] \in {server[k], 0},
           UNCHANGED <<versions, last, seen>>
    PROVE  OneKeyPerIndex' /\ SeenAreVersions'
<1>1. SeenAreVersions'
  BY DEF KVInv, SeenAreVersions
<1>2. \A k \in Keys : server'[k] \in versions[k]
  BY DEF KVInv, OneKeyPerIndex
<1> QED BY <1>1, <1>2 DEF KVInv, OneKeyPerIndex

LEMMA ServerKeepsInv == ASSUME NEW r \in reqs, KVInv, ServerStep(r) PROVE KVInv'
<1> USE DEF storeVars, pageVars
<1>0. Sound(r) /\ r \in Requests
  BY DEF KVInv, KVTypeOK, RequestsAreSound
<1>1. CASE \E i \in 0..MaxIndex : Get(r, i)
  <2> PICK i \in 0..MaxIndex : Get(r, i)
    BY <1>1
  <2>1. i \in Nat /\ i \in versions[r.key]
    BY KVAssumption DEF Get
  <2>2. Sound([r EXCEPT !.at = "answered", !.index = i])'
    BY <1>0, <2>1 DEF Get, Asks, Sound, Requests
  <2>3. reqs' \subseteq Requests /\ RequestsAreSound'
    BY <2>1, <2>2, RequestMoves DEF Get
  <2> QED BY <2>3, StoreStays DEF Get, KVInv, KVTypeOK, PairIsSeen, EditorFollowsPair
<1>2. CASE Set(r)
  <2>1. r.key \in Keys
    BY <1>0, <1>2 DEF Set, Asks, Sound
  <2>2. /\ server' \in [Keys -> Nat] /\ versions' \in [Keys -> SUBSET Nat] /\ last' \in Nat
        /\ \A l \in Keys : versions[l] \subseteq versions'[l]
        /\ OneKeyPerIndex' /\ SeenAreVersions'
    BY <1>2, <2>1, WriteKeepsStore DEF Set
  <2>3. Sound([r EXCEPT !.at = "written", !.index = 0])'
    BY <1>0, <1>2, <2>1 DEF Set, Asks, Sound, Requests
  <2>4. reqs' \subseteq Requests /\ RequestsAreSound'
    <3>1. CASE Ends(r)
      BY <1>2, <2>2, <3>1, RequestsEnd DEF Set, Ends
    <3>2. CASE Becomes(r, "written", 0)
      BY <1>2, <2>2, <2>3, <3>2, RequestMoves DEF Set
    <3> QED BY <1>2, <3>1, <3>2 DEF Set
  <2> QED BY <1>2, <2>2, <2>4 DEF Set, KVInv, KVTypeOK, PairIsSeen, EditorFollowsPair
<1>3. CASE ReadBack(r)
  <2>1. r.op \in {"get", "set"} /\ r.key \in Keys
    BY <1>0, <1>3 DEF ReadBack, Sound, Requests
  <2>2. server[r.key] \in Nat /\ server[r.key] \in versions[r.key]
    BY <2>1 DEF KVInv, KVTypeOK, OneKeyPerIndex
  <2>3. Sound([r EXCEPT !.at = "answered", !.index = server[r.key]])'
    BY <1>0, <1>3, <2>1, <2>2 DEF ReadBack, Sound, Requests
  <2>4. reqs' \subseteq Requests /\ RequestsAreSound'
    BY <1>3, <2>2, <2>3, RequestMoves DEF ReadBack
  <2> QED BY <1>3, <2>4, StoreStays DEF ReadBack, KVInv, KVTypeOK, PairIsSeen, EditorFollowsPair
<1>4. CASE Delete(r)
  <2>1. Sound([r EXCEPT !.at = "answered", !.index = 0])'
    BY <1>0, <1>4 DEF Delete, Asks, Sound, Requests
  <2>2. reqs' \subseteq Requests /\ RequestsAreSound'
    BY <1>4, <2>1, RequestMoves, RequestsEnd DEF Delete, Ends
  <2>3. server' \in [Keys -> Nat] /\ \A k \in Keys : server'[k] \in {server[k], 0}
    BY <1>4 DEF Delete, KVInv, KVTypeOK
  <2> QED BY <1>4, <2>2, <2>3, DeletionKeepsStore
       DEF Delete, KVInv, KVTypeOK, PairIsSeen, EditorFollowsPair
<1>5. CASE DeleteTree(r)
  <2>1. reqs' \subseteq Requests /\ RequestsAreSound'
    BY <1>5, RequestsEnd DEF DeleteTree, Ends
  <2>2. server' \in [Keys -> Nat] /\ \A k \in Keys : server'[k] \in {server[k], 0}
    BY <1>5 DEF DeleteTree, KVInv, KVTypeOK
  <2> QED BY <1>5, <2>1, <2>2, DeletionKeepsStore
       DEF DeleteTree, KVInv, KVTypeOK, PairIsSeen, EditorFollowsPair
<1>6. CASE Fail(r)
  <2>1. reqs' \subseteq Requests /\ RequestsAreSound'
    BY <1>6, RequestsEnd DEF Fail, Ends
  <2> QED BY <1>6, <2>1, StoreStays DEF Fail, KVInv, KVTypeOK, PairIsSeen, EditorFollowsPair
<1> QED BY <1>1, <1>2, <1>3, <1>4, <1>5, <1>6 DEF ServerStep

LEMMA OthersKeepInv ==
    ASSUME NEW k \in Keys, KVInv, OtherWrites(k) \/ OtherDeletes(k) PROVE KVInv'
<1> USE DEF storeVars, pageVars
<1>1. CASE OtherWrites(k)
  <2>1. /\ server' \in [Keys -> Nat] /\ versions' \in [Keys -> SUBSET Nat] /\ last' \in Nat
        /\ \A l \in Keys : versions[l] \subseteq versions'[l]
        /\ OneKeyPerIndex' /\ SeenAreVersions'
    BY <1>1, WriteKeepsStore DEF OtherWrites
  <2>2. reqs' \subseteq Requests /\ RequestsAreSound'
    BY <1>1, <2>1, RequestsEnd DEF OtherWrites
  <2> QED BY <1>1, <2>1, <2>2 DEF OtherWrites, KVInv, KVTypeOK, PairIsSeen, EditorFollowsPair
<1>2. CASE OtherDeletes(k)
  <2>1. server' \in [Keys -> Nat] /\ \A l \in Keys : server'[l] \in {server[l], 0}
    BY <1>2 DEF OtherDeletes, KVInv, KVTypeOK
  <2>2. reqs' \subseteq Requests /\ RequestsAreSound'
    BY <1>2, RequestsEnd DEF OtherDeletes
  <2> QED BY <1>2, <2>1, <2>2, DeletionKeepsStore
       DEF OtherDeletes, KVInv, KVTypeOK, PairIsSeen, EditorFollowsPair
<1> QED BY <1>1, <1>2

LEMMA ArrivalKeepsInv == ASSUME NEW r \in reqs, KVInv, Arrival(r) PROVE KVInv'
<1> USE DEF storeVars, pageVars
<1>0. Sound(r) /\ r \in Requests /\ r.user \in Users
  BY DEF KVInv, KVTypeOK, RequestsAreSound, Requests
<1>1. CASE Show(r)
  <2> DEFINE u == r.user
             p == [key |-> r.key, index |-> r.index]
  <2>1. r.key \in Keys /\ r.index \in versions[r.key] /\ r.index \in Nat /\ r.index # 0
    BY <1>0, <1>1 DEF Show, Sound, Requests
  <2>2. p \in Pairs /\ p \in [key : Keys, index : Nat] /\ Edited(p).index = p.index
    BY <2>1 DEF Pairs, Edited
  <2>3. Edited(p) \in [name : Names \cup {NoName}, index : Nat]
    BY <2>2, EditedType
  <2>4. /\ pair' = [pair EXCEPT ![u] = p] /\ editor' = [editor EXCEPT ![u] = Edited(p)]
        /\ seen' = [seen EXCEPT ![u] = @ \cup {p}]
    BY <1>1 DEF Show
  <2>5. KVTypeOK' /\ RequestsAreSound'
    <3>1. \A v \in Users : seen[v] \subseteq seen'[v]
      BY <1>0, <2>4 DEF KVInv, KVTypeOK
    <3>2. reqs' \subseteq Requests /\ RequestsAreSound'
      BY <1>1, <3>1, RequestsEnd DEF Show, Ends
    <3> QED BY <1>0, <1>1, <2>2, <2>3, <2>4, <3>2 DEF Show, KVInv, KVTypeOK
  <2>6. OneKeyPerIndex'
    BY <1>1 DEF Show, KVInv, OneKeyPerIndex
  <2>7. SeenAreVersions'
    BY <1>0, <1>1, <2>1, <2>4 DEF Show, KVInv, KVTypeOK, SeenAreVersions
  <2>8. PairIsSeen' /\ EditorFollowsPair'
    BY <1>0, <2>4 DEF KVInv, KVTypeOK, PairIsSeen, EditorFollowsPair
  <2> HIDE DEF u, p
  <2> QED BY <2>5, <2>6, <2>7, <2>8 DEF KVInv
<1>2. CASE ShowNull(r)
  <2>1. reqs' \subseteq Requests /\ RequestsAreSound'
    BY <1>2, RequestsEnd DEF ShowNull, Ends
  <2> QED BY <1>2, <2>1, StoreStays DEF ShowNull, KVInv, KVTypeOK, PairIsSeen, EditorFollowsPair
<1>3. CASE ShowDeleted(r)
  <2>1. reqs' \subseteq Requests /\ RequestsAreSound'
    BY <1>3, RequestsEnd DEF ShowDeleted, Ends
  <2>2. /\ editor' \in [Users -> [name : Names \cup {NoName}, index : Nat]]
        /\ pair' \in [Users -> Pairs]
    BY <1>0, <1>3, NoPairType, EmptyType DEF ShowDeleted, KVInv, KVTypeOK
  <2>3. EditorFollowsPair'
    BY <1>0, <1>3, EmptyType
       DEF ShowDeleted, KVInv, KVTypeOK, EditorFollowsPair, HasKey, Edited
  <2>4. PairIsSeen'
    BY <1>0, <1>3, NoPairType DEF ShowDeleted, KVInv, KVTypeOK, PairIsSeen
  <2> QED BY <1>3, <2>1, <2>2, <2>3, <2>4, StoreStays DEF ShowDeleted, KVInv, KVTypeOK
<1> QED BY <1>1, <1>2, <1>3 DEF Arrival

-----------------------------------------------------------------------------

THEOREM KVInvariant == KVSpec => []KVInv
<1>1. KVInv /\ [KVNext]_vars => KVInv'
  <2> SUFFICES ASSUME KVInv, [KVNext]_vars PROVE KVInv'
    OBVIOUS
  <2>1. CASE UNCHANGED vars
    <3>1. reqs' \subseteq Requests /\ RequestsAreSound'
      BY <2>1, RequestsEnd DEF vars, storeVars, pageVars
    <3> QED BY <2>1, <3>1, StoreStays
         DEF vars, storeVars, pageVars, KVInv, KVTypeOK, PairIsSeen, EditorFollowsPair
  <2> QED BY <2>1, UserKeepsInv, ServerKeepsInv, ArrivalKeepsInv, OthersKeepInv DEF KVNext
<1> QED BY <1>1, KVInitially, PTL DEF KVSpec

(* The variables of the pages and the store have their types.              *)
THEOREM KVTypeCorrect == KVSpec => []KVTypeOK
BY KVInvariant, PTL DEF KVInv

(* The fields of the editor are those of the pair in the store, or of      *)
(* something new.                                                          *)
THEOREM FieldsFollowPair == KVSpec => []EditorFollowsPair
BY KVInvariant, PTL DEF KVInv

(* README.md:40: no save and no deletion of a key replaces a version its   *)
(* page has not shown, for any number of pages, folders, keys and requests *)
(* under way.                                                              *)
THEOREM NoAccidentalReplacement == KVSpec => []LoadedBeforeReplaced
<1>1. KVInv => LoadedBeforeReplaced
  <2> SUFFICES ASSUME KVInv, NEW r \in reqs, r.at = "sent", r.op \in {"set", "delete"},
                      server[r.key] # 0, Accepted(r)
               PROVE  [key |-> r.key, index |-> server[r.key]] \in seen[r.user]
    BY DEF LoadedBeforeReplaced
  <2>1. Sound(r) /\ r \in Requests
    BY DEF KVInv, KVTypeOK, RequestsAreSound
  <2>2. r.key \in Keys /\ r.user \in Users /\ r.index = server[r.key]
    BY <2>1 DEF Sound, Requests, Accepted
  <2> PICK p \in seen[r.user] : p.index = server[r.key]
    BY <2>1, <2>2 DEF Sound, ShownIndex
  <2>3. p \in [key : Keys, index : Nat]
    BY <2>2 DEF KVInv, KVTypeOK
  <2>4. p.index \in versions[p.key] /\ p.index \in versions[r.key]
    BY <2>2 DEF KVInv, SeenAreVersions, OneKeyPerIndex
  <2>5. p.key = r.key
    BY <2>2, <2>3, <2>4 DEF KVInv, OneKeyPerIndex
  <2>6. p = [key |-> r.key, index |-> server[r.key]]
    BY <2>3, <2>5
  <2> QED BY <2>6
<1> QED BY <1>1, KVInvariant, PTL
=============================================================================
