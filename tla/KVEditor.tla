------------------------------ MODULE KVEditor -------------------------------
(***************************************************************************)
(* Editing Consul's key/value pairs: the page (containers/consul_kv.js and *)
(* the reducer ConsulKVPair), the operations of backend/consul/kv, and     *)
(* Consul's store.                                                         *)
(*                                                                         *)
(* A user is one page with its store and connection; a reload is another   *)
(* user.  The editor's fields are the state of the component, next to the  *)
(* pair of the store they are copied from.  Requests are answered by       *)
(* goroutines of their own (subscriber.Once), in any order; one like a     *)
(* request that is under way is dropped, so requests are a set.  A request *)
(* that fails or is refused ends with an error message, which changes      *)
(* nothing on the page.                                                    *)
(*                                                                         *)
(* A value is the index of its write.  A key is its folder and its name    *)
(* there; NoName is the folder's own key, "app/", as for any name that     *)
(* ends in a slash.                                                        *)
(***************************************************************************)
EXTENDS Naturals, FiniteSets

CONSTANTS
    Users,
    Folders, Root,  \* the root and the folders directly below it
    Names, NoName,
    Keys,           \* bound: the keys that are used
    Begins,         \* the folders whose path begins with the path of a folder
    MaxIndex,       \* bound: the writes
    MaxRequests     \* bound: the requests under way

Path(f, n) == [folder |-> f, name |-> n]

ASSUME KVAssumption ==
    /\ Root \in Folders /\ NoName \notin Names
    /\ Keys \subseteq {Path(f, n) : f \in Folders, n \in Names \cup {NoName}}
    /\ Begins \in [Folders -> SUBSET Folders]
    /\ MaxIndex \in Nat /\ MaxRequests \in Nat

VARIABLES
    server,     \* the ModifyIndex of each key, 0 when it is absent
    versions,   \* history: those it has had, which a stale server may answer
    last,       \* Consul's index
    reqs,       \* the requests under way
    page,       \* "open", or "broken" by an exception
    folder,     \* routeParams.splat
    pair,       \* consulKVPair: its Key and ModifyIndex
    editor,     \* state.key and state.index
    seen        \* history: the versions the page has shown

storeVars == <<server, versions, last>>
pageVars == <<page, folder, pair, editor, seen>>
vars == <<storeVars, reqs, pageVars>>

NoPair == [key |-> Path(Root, NoName), index |-> 0]
Empty == [name |-> NoName, index |-> 0]

HasKey(p) == p.index # 0

(* Faulty variant: without baseName.                                       *)
EditedWhole(p) == [name |-> p.key, index |-> p.index]

(* baseName(Key), ModifyIndex                                              *)
Edited(p) == [name |-> p.key.name, index |-> p.index]

KVInit ==
    /\ server = [k \in Keys |-> 0]
    /\ versions = [k \in Keys |-> {0}]
    /\ last = 0
    /\ reqs = {}
    /\ page = [u \in Users |-> "open"]
    /\ folder \in [Users -> Folders]
    /\ pair = [u \in Users |-> NoPair]
    /\ editor = [u \in Users |-> Empty]
    /\ seen = [u \in Users |-> {}]

-----------------------------------------------------------------------------
(* The page. *)

Request(u, op, k, i) ==
    /\ Cardinality(reqs) < MaxRequests
    /\ reqs' = reqs \cup {[user |-> u, op |-> op, key |-> k, index |-> i, at |-> "sent"]}

(* editKey.  The list may still be that of the folder before.              *)
Open(u, k) ==
    /\ page[u] = "open"
    /\ Request(u, "get", k, 0)
    /\ UNCHANGED <<storeVars, pageVars>>

(* The field is disabled while there is a pair.                            *)
TypeName(u, n) ==
    /\ page[u] = "open" /\ ~HasKey(pair[u])
    /\ editor' = [editor EXCEPT ![u].name = n]
    /\ UNCHANGED <<storeVars, reqs, page, folder, pair, seen>>

Save(u) ==
    /\ page[u] = "open"
    /\ \E k \in {Path(folder[u], editor[u].name)} \cap Keys :
          Request(u, "set", k, editor[u].index)
    /\ editor' = [editor EXCEPT ![u] = IF @.name = NoName THEN Empty ELSE @]
    /\ UNCHANGED <<storeVars, page, folder, pair, seen>>

DeleteKey(u) ==
    /\ page[u] = "open" /\ HasKey(pair[u])
    /\ \E k \in {Path(folder[u], editor[u].name)} \cap Keys :
          Request(u, "delete", k, pair[u].index)
    /\ UNCHANGED <<storeVars, pageVars>>

ClearPage(u) ==
    /\ pair' = [pair EXCEPT ![u] = NoPair]
    /\ editor' = [editor EXCEPT ![u] = Empty]

(* deleteKeyTree; the page goes up to the parent folder.                   *)
DeleteFolder(u) ==
    /\ page[u] = "open" /\ folder[u] # Root
    /\ Request(u, "tree", Path(folder[u], NoName), 0)
    /\ folder' = [folder EXCEPT ![u] = Root]
    /\ ClearPage(u)
    /\ UNCHANGED <<storeVars, page, seen>>

(* changePath                                                              *)
Navigate(u, f) ==
    /\ page[u] = "open"
    /\ folder' = [folder EXCEPT ![u] = f]
    /\ ClearPage(u)
    /\ UNCHANGED <<storeVars, reqs, page, seen>>

(* The button: resetState(true, true).                                     *)
Cancel(u) ==
    /\ page[u] = "open"
    /\ ClearPage(u)
    /\ UNCHANGED <<storeVars, reqs, page, folder, seen>>

(* What the editor becomes when the page receives the pair it has, with    *)
(* any other property: what was typed gives way to the pair.               *)
Received(u) == IF HasKey(pair[u]) THEN Edited(pair[u]) ELSE editor[u]

(* The browser's own buttons change the folder and leave the store alone.  *)
Back(u, f) ==
    /\ page[u] = "open"
    /\ folder' = [folder EXCEPT ![u] = f]
    /\ editor' = [editor EXCEPT ![u] = Received(u)]
    /\ UNCHANGED <<storeVars, reqs, page, pair, seen>>

(* A new list arrives.                                                     *)
PathsArrive(u) ==
    /\ page[u] = "open"
    /\ editor' = [editor EXCEPT ![u] = Received(u)]
    /\ UNCHANGED <<storeVars, reqs, page, folder, pair, seen>>

(* The page is left and mounted again, at any folder: a new component over *)
(* the same store.                                                         *)
Remount(u, f) ==
    /\ page[u] = "open"
    /\ folder' = [folder EXCEPT ![u] = f]
    /\ editor' = [editor EXCEPT ![u] = Empty]
    /\ UNCHANGED <<storeVars, reqs, page, pair, seen>>

-----------------------------------------------------------------------------
(* The backend and Consul. *)

Becomes(r, at, i) == reqs' = (reqs \ {r}) \cup {[r EXCEPT !.at = at, !.index = i]}
Ends(r) == reqs' = reqs \ {r}

Asks(r, op) == r.at = "sent" /\ r.op = op

(* info.Do: AllowStale.                                                    *)
Get(r, i) ==
    /\ Asks(r, "get") /\ i \in versions[r.key]
    /\ Becomes(r, "answered", i)
    /\ UNCHANGED <<storeVars, pageVars>>

(* Faulty variant: Put for CAS.                                            *)
AcceptedAnyhow(r) == TRUE

(* CAS, DeleteCAS: whether the version in place is the one meant.          *)
Accepted(r) == server[r.key] = r.index

(* set.Do, up to what it reads back.                                       *)
Set(r) ==
    /\ Asks(r, "set") /\ Accepted(r) /\ last < MaxIndex
    /\ last' = last + 1
    /\ server' = [server EXCEPT ![r.key] = last + 1]
    /\ versions' = [versions EXCEPT ![r.key] = @ \cup {last + 1}]
    /\ IF r.key.name = NoName THEN Ends(r) ELSE Becomes(r, "written", 0)
    /\ UNCHANGED pageVars

(* ... with options of its own: the leader answers.                        *)
ReadBack(r) ==
    /\ r.at = "written"
    /\ Becomes(r, "answered", server[r.key])
    /\ UNCHANGED <<storeVars, pageVars>>

(* delete.Do; deleting what is absent succeeds, and Consul's answer may be *)
(* lost.                                                                   *)
Delete(r) ==
    /\ Asks(r, "delete") /\ (Accepted(r) \/ server[r.key] = 0)
    /\ server' = [server EXCEPT ![r.key] = 0]
    /\ Becomes(r, "answered", 0) \/ Ends(r)
    /\ UNCHANGED <<versions, last, pageVars>>

(* deleteTree.Do: every key whose path begins with the payload, which is   *)
(* the path of the folder without its slash.                               *)
DeleteTree(r) ==
    /\ Asks(r, "tree")
    /\ server' = [k \in Keys |-> IF k.folder \in Begins[r.key.folder] THEN 0 ELSE server[k]]
    /\ Ends(r)
    /\ UNCHANGED <<versions, last, pageVars>>

(* Refused by Consul or in read-only mode, dropped, or failed.             *)
Fail(r) ==
    /\ r.at # "answered"
    /\ Ends(r)
    /\ UNCHANGED <<storeVars, pageVars>>

(* Other clients of Consul.                                                *)
OtherWrites(k) ==
    /\ last < MaxIndex
    /\ last' = last + 1
    /\ server' = [server EXCEPT ![k] = last + 1]
    /\ versions' = [versions EXCEPT ![k] = @ \cup {last + 1}]
    /\ UNCHANGED <<reqs, pageVars>>

OtherDeletes(k) ==
    /\ server' = [server EXCEPT ![k] = 0]
    /\ UNCHANGED <<versions, last, reqs, pageVars>>

-----------------------------------------------------------------------------
(* Answers arrive. *)

(* CONSUL_FETCHED_KV_PAIR, and componentWillReceiveProps.                  *)
Show(r) ==
    LET u == r.user
        p == [key |-> r.key, index |-> r.index] IN
    /\ r.op # "delete" /\ r.at = "answered" /\ r.index # 0
    /\ pair' = [pair EXCEPT ![u] = p]
    /\ editor' = [editor EXCEPT ![u] = Edited(p)]
    /\ seen' = [seen EXCEPT ![u] = @ \cup {p}]
    /\ Ends(r)
    /\ UNCHANGED <<storeVars, page, folder>>

(* The pair of an absent key is null, and null has no Key.                 *)
ShowNull(r) ==
    /\ r.op # "delete" /\ r.at = "answered" /\ r.index = 0
    /\ page' = [page EXCEPT ![r.user] = "broken"]
    /\ Ends(r)
    /\ UNCHANGED <<storeVars, folder, pair, editor, seen>>

(* Faulty variant: the component keeps its fields.                         *)
ShowCleared(r) ==
    /\ r.op = "delete" /\ r.at = "answered"
    /\ pair' = [pair EXCEPT ![r.user] = NoPair]
    /\ Ends(r)
    /\ UNCHANGED <<storeVars, page, folder, editor, seen>>

(* CONSUL_CLEAR_KV_PAIR: the fields are reset when there was a pair.       *)
ShowDeleted(r) ==
    LET u == r.user IN
    /\ r.op = "delete" /\ r.at = "answered"
    /\ pair' = [pair EXCEPT ![u] = NoPair]
    /\ editor' = [editor EXCEPT ![u] = IF HasKey(pair[u]) THEN Empty ELSE @]
    /\ Ends(r)
    /\ UNCHANGED <<storeVars, page, folder, seen>>

-----------------------------------------------------------------------------

UserStep(u) ==
    \/ \E k \in Keys : Open(u, k)
    \/ \E n \in Names \cup {NoName} : TypeName(u, n)
    \/ Save(u) \/ DeleteKey(u) \/ DeleteFolder(u) \/ Cancel(u) \/ PathsArrive(u)
    \/ \E f \in Folders : Navigate(u, f) \/ Back(u, f) \/ Remount(u, f)

ServerStep(r) ==
    \/ \E i \in 0..MaxIndex : Get(r, i)
    \/ Set(r) \/ ReadBack(r) \/ Delete(r) \/ DeleteTree(r) \/ Fail(r)

Arrival(r) == Show(r) \/ ShowNull(r) \/ ShowDeleted(r)

KVNext ==
    \/ \E u \in Users : UserStep(u)
    \/ \E r \in reqs : ServerStep(r) \/ Arrival(r)
    \/ \E k \in Keys : OtherWrites(k) \/ OtherDeletes(k)

KVSpec == KVInit /\ [][KVNext]_vars

-----------------------------------------------------------------------------

Pairs == [key : Keys \cup {NoPair.key}, index : Nat]
Targets == Keys \cup {Path(f, NoName) : f \in Folders}
Requests == [user : Users, op : {"get", "set", "delete", "tree"}, key : Targets,
             index : Nat, at : {"sent", "written", "answered"}]

(* The variables have their types.                                         *)
KVTypeOK ==
    /\ server \in [Keys -> Nat] /\ versions \in [Keys -> SUBSET Nat]
    /\ last \in Nat
    /\ reqs \subseteq Requests
    /\ page \in [Users -> {"open", "broken"}]
    /\ folder \in [Users -> Folders]
    /\ pair \in [Users -> Pairs]
    /\ editor \in [Users -> [name : Names \cup {NoName}, index : Nat]]
    /\ seen \in [Users -> SUBSET [key : Keys, index : Nat]]

(* README.md:40 "CAS (Check-And-Set) support in both Write and Delete      *)
(* actions for KV, preventing accidental modification or deleting of keys  *)
(* that have changed since you loaded them": whatever the fields of the    *)
(* page and the pair of the store went through, late and stale answers,    *)
(* other folders and other pages, a request that Consul would accept now   *)
(* replaces a version of that very key that its page has shown.            *)
LoadedBeforeReplaced ==
    \A r \in reqs :
        /\ r.at = "sent" /\ r.op \in {"set", "delete"}
        /\ server[r.key] # 0 /\ Accepted(r)
        => [key |-> r.key, index |-> server[r.key]] \in seen[r.user]

(* The fields are those of the pair in the store, or of something new:     *)
(* an index never outlives its pair (consul_kv.js:74-88, 283-297).         *)
EditorFollowsPair ==
    \A u \in Users : HasKey(editor[u]) => editor[u] = Edited(pair[u])

(* consul_kv.js:317 "Delete a key tree (a path and everything nested       *)
(* below)": deleting a folder leaves the keys of the others.               *)
DeletesOnlyFolder ==
    [][\A r \in reqs : r.op = "tree" /\ r \notin reqs' =>
          \A k \in Keys : k.folder # r.key.folder => server'[k] = server[k]]_vars
=============================================================================
