-------------------------------- MODULE JobOps ---------------------------------
(***************************************************************************)
(* The commands on a Nomad job (nomad/jobs/*.go) and the page that gives   *)
(* them: the menus, the raw editor (JobEditRawJSON.js), the notifications. *)
(*                                                                         *)
(* A command is one query of a connection (subscriber.Once): a goroutine   *)
(* that enters the table, unless its key is there (one step here, two in   *)
(* Subscriber), makes its calls to Nomad one after the other, answers with *)
(* a notification and leaves the table.  Nomad itself is external: it counts *)
(* the changes of a job, refuses a negative count, and a call that fails   *)
(* for the caller may have been done.  The job has one group.  Commands    *)
(* that change no job (evaluation, the system page, the node's menu) are   *)
(* like "evaluate"; a refusal before the first call (read-only mode,       *)
(* hidden env data) is like a failure of it.                               *)
(***************************************************************************)
EXTENDS Integers, Sequences, FiniteSets

CONSTANTS
    Users,      \* browsers that show the job
    None,       \* no job is being edited
    MaxCount,   \* bound: the counts a user writes
    MaxOps,     \* bound: the commands under way
    Hasty,      \* bound: the commands given while another is under way
    MaxIndex,   \* bound: no command is given for a job changed that often
    Size        \* the count at first

ASSUME JobOpsAssumption ==
    /\ MaxCount \in Nat /\ MaxOps \in Nat /\ MaxIndex \in Nat /\ Size \in 0..MaxCount
    /\ None \notin Nat \cup [count : Int, stopped : BOOLEAN]

VARIABLES
    job,        \* Nomad's: count, stopped, and the index of its last change
    seen,       \* the index of the store's job, of each user
    dialog,     \* the store's jobDialog: "", "edit" or "stop"
    editor,     \* the state of JobEditRawJSON
    note,       \* the notifications in the store
    ops,        \* the commands under way
    wanted,     \* history: what the last command should leave, or None: others
                \* were under way, or it has answered with an error
    refused     \* history: users whose submission found an answered one in the table

uiVars == <<seen, dialog, editor, note>>
vars == <<job, uiVars, ops, wanted, refused>>

Pristine == [base |-> None, submitting |-> FALSE, outOfSync |-> FALSE]
NoNote == [error |-> FALSE, success |-> FALSE]
Texts == [count : 0..MaxCount, stopped : BOOLEAN]
Spec(j) == [count |-> j.count, stopped |-> j.stopped]

JobOpsInit ==
    /\ job = [count |-> Size, stopped |-> FALSE, index |-> 1]
    /\ seen = [b \in Users |-> job.index] /\ dialog = [b \in Users |-> ""]
    /\ editor = [b \in Users |-> Pristine] /\ note = [b \in Users |-> NoNote]
    /\ ops = {}
    /\ wanted = Spec(job) /\ refused = {}

-----------------------------------------------------------------------------
(* The calls of each command, and what they write.  The front end's        *)
(* buttons scale by one or restart and stop a group; the other two actions *)
(* of scale.go, "set" and any unknown one (an error, after the job has     *)
(* been read), are sent by none of them and left out.                      *)

Deregister == "deregister"
Info == "info"
Register == "register"

Calls ==
    [stop |-> <<Deregister>>,
     restart |-> <<Info, Deregister, Register>>,
     rolling_restart |-> <<Info, Register>>,
     increase |-> <<Info, Register>>,
     decrease |-> <<Info, Register>>,
     group_stop |-> <<Info, Register>>,
     group_restart |-> <<Info, Register, Register>>,
     submit |-> <<Register>>,
     evaluate |-> <<"evaluate">>]

Kinds == DOMAIN Calls
Buttons == Kinds \ {"stop", "submit"}

(* The count that the command leaves, of the one it found.                 *)
NewCount(kind, count) ==
    CASE kind = "increase" -> count + 1
      [] kind = "decrease" -> count - 1
      [] kind = "group_stop" -> 0
      [] OTHER -> count

(* A restart starts what was stopped; scaling leaves that as it is.        *)
Stops(kind, stopped) ==
    kind = "stop" \/ (stopped /\ kind \notin {"restart", "rolling_restart"})

Outcome(kind, copy) ==
    [count |-> NewCount(kind, copy.count), stopped |-> Stops(kind, copy.stopped)]

(* Faulty variant: the count to restore is read after it was set to zero.  *)
StaysAtZero(o) ==
    IF o.kind = "group_restart" THEN [o.copy EXCEPT !.count = 0] ELSE Outcome(o.kind, o.copy)

(* A group restarts in two registrations: of no instance, then of all.     *)
Registered(o) ==
    IF o.kind = "group_restart" /\ o.done = 1 THEN [count |-> 0, stopped |-> o.copy.stopped]
    ELSE Outcome(o.kind, o.copy)

(* Nomad's answer to the call that the command is at.                      *)
Write(spec) == job' = [count |-> spec.count, stopped |-> spec.stopped, index |-> job.index + 1]

Effect(o) ==
    LET call == Calls[o.kind][o.done + 1]
    IN  \/ call = Deregister /\ Write([count |-> job.count, stopped |-> TRUE])
        \/ call = Register /\ Registered(o).count >= 0 /\ Write(Registered(o))
        \/ call \notin {Deregister, Register} /\ UNCHANGED job

-----------------------------------------------------------------------------
(* The commands of a connection. *)

Becomes(o, p) == ops' = (ops \ {o}) \cup {p}

(* The copy is the text of the editor, or Info will get one.               *)
Give(b, kind, copy) ==
    /\ Cardinality(ops) < MaxOps /\ job.index < MaxIndex
    /\ ops = {} \/ kind \in Hasty
    /\ ops' = ops \cup {[by |-> b, kind |-> kind, done |-> 0, copy |-> copy,
                         holds |-> FALSE, answer |-> "none"]}
    /\ wanted' = IF ops # {} THEN None
                 ELSE Outcome(kind, IF copy = None THEN Spec(job) ELSE copy)

(* "Already running": the command is dropped without an answer.            *)
Begins(o) ==
    /\ ~o.holds /\ o.answer = "none"
    /\ LET holders == {p \in ops : p.holds /\ p.by = o.by /\ p.kind = o.kind}
       IN  IF holders = {} THEN Becomes(o, [o EXCEPT !.holds = TRUE]) /\ UNCHANGED refused
           ELSE /\ ops' = ops \ {o}
                /\ refused' = IF o.kind = "submit" /\ \E p \in holders : p.answer # "none"
                              THEN refused \cup {o.by} ELSE refused
    /\ UNCHANGED <<job, uiVars, wanted>>

Busy(o) == o.holds /\ o.answer = "none"

Succeeds(o) ==
    /\ Busy(o)
    /\ Effect(o)
    /\ Becomes(o, [o EXCEPT !.done = @ + 1,
                            !.copy = IF Calls[o.kind][o.done + 1] = Info THEN Spec(job) ELSE @,
                            !.answer = IF o.done + 1 = Len(Calls[o.kind]) THEN "success" ELSE @])
    /\ UNCHANGED <<uiVars, wanted, refused>>

(* The call is refused, or done and the answer to it lost.                 *)
Fails(o) ==
    /\ Busy(o)
    /\ UNCHANGED job \/ Effect(o)
    /\ Becomes(o, [o EXCEPT !.answer = "error"])
    /\ wanted' = None
    /\ UNCHANGED <<uiVars, refused>>

(* The deferred Unsubscribe, after the answer was sent.                    *)
Leaves(o) ==
    /\ o.holds /\ o.answer # "none"
    /\ IF o.answer = "seen" THEN ops' = ops \ {o} ELSE Becomes(o, [o EXCEPT !.holds = FALSE])
    /\ UNCHANGED <<job, uiVars, wanted, refused>>

-----------------------------------------------------------------------------
(* componentWillReceiveProps of the editor, whichever dialog is open. *)

Takes(e, n) == e.submitting /\ n.success

(* Faulty variant: an error leaves the editor waiting.                     *)
NeverEditable(e, n) == FALSE

Editable(e, n) == e.submitting /\ ~n.success /\ n.error

(* Faulty variant: the wrong one of the two is the older.                  *)
IsOlder(e, j) == e.base > j

IsStale(e, j) == e.base # j

Received(e, j, n) ==
    CASE Editable(e, n) -> [e EXCEPT !.submitting = FALSE]
      [] ~Editable(e, n) /\ e.base = None -> [Pristine EXCEPT !.base = j]
      [] OTHER -> [e EXCEPT !.outOfSync = @ \/ IsStale(e, j)]

(* Faulty variant: a cancelled dialog keeps its state.                     *)
ClosesOnSuccess(e, dlg, n) == Takes(e, n)

(* Without a dialog the state is reset; a success closes it.               *)
Closes(e, dlg, n) == dlg = "" \/ Takes(e, n)

Receives(b, dlg, j, n) ==
    LET closed == Closes(editor[b], dlg, n)
    IN  /\ dialog' = [dialog EXCEPT ![b] = IF closed THEN "" ELSE dlg]
        /\ seen' = [seen EXCEPT ![b] = j]
        /\ note' = [note EXCEPT ![b] = n]
        /\ editor' = [editor EXCEPT ![b] = IF closed THEN Pristine ELSE Received(@, j, n)]

-----------------------------------------------------------------------------
(* The users. *)

(* The entries of the menu that run at once, and the icons of a group: the *)
(* dialogs are modal.                                                      *)
Click(b, kind) ==
    /\ dialog[b] = "" /\ kind \in Buttons
    /\ Give(b, kind, None)
    /\ UNCHANGED <<job, uiVars, refused>>

OpenDialog(b, dlg) ==
    /\ dialog[b] = ""
    /\ Receives(b, dlg, seen[b], note[b])
    /\ UNCHANGED <<job, ops, wanted, refused>>

handleCancel(b) ==
    /\ dialog[b] # ""
    /\ Receives(b, "", seen[b], note[b])
    /\ UNCHANGED <<job, ops, wanted, refused>>

(* JobActionStop: the dialog is closed first.                              *)
ConfirmStop(b) ==
    /\ dialog[b] = "stop"
    /\ Receives(b, "", seen[b], note[b])
    /\ Give(b, "stop", None)
    /\ UNCHANGED <<job, refused>>

(* The text is what the user has made of it.                               *)
handleSubmit(b) ==
    /\ dialog[b] = "edit" /\ ~editor[b].outOfSync /\ ~editor[b].submitting
    /\ editor' = [editor EXCEPT ![b].submitting = TRUE]
    /\ \E text \in Texts : Give(b, "submit", text)
    /\ refused' = refused \ {b}
    /\ UNCHANGED <<job, seen, dialog, note>>

-----------------------------------------------------------------------------
(* What arrives at a browser. *)

(* Somebody else, or another tool, registers the job.                      *)
ChangesElsewhere ==
    /\ job.index < MaxIndex
    /\ \E text \in Texts : Write(text)
    /\ wanted' = IF ops = {} THEN Spec(job') ELSE None
    /\ UNCHANGED <<uiVars, ops, refused>>

(* The watch of the job answers; versions in between may be skipped.       *)
JobArrives(b) ==
    /\ seen[b] # job.index
    /\ Receives(b, dialog[b], job.index, note[b])
    /\ UNCHANGED <<job, ops, wanted, refused>>

NoteArrives(o) ==
    /\ o.answer \in {"success", "error"}
    /\ Receives(o.by, dialog[o.by], seen[o.by], [note[o.by] EXCEPT ![o.answer] = TRUE])
    /\ IF o.holds THEN Becomes(o, [o EXCEPT !.answer = "seen"]) ELSE ops' = ops \ {o}
    /\ UNCHANGED <<job, wanted, refused>>

(* After five seconds, or when the user clicks elsewhere.                  *)
NoteHides(b, which) ==
    /\ note[b][which]
    /\ Receives(b, dialog[b], seen[b], [note[b] EXCEPT ![which] = FALSE])
    /\ UNCHANGED <<job, ops, wanted, refused>>

JobOpsNext ==
    \/ \E b \in Users :
           \/ \E kind \in Kinds : Click(b, kind)
           \/ \E dlg \in {"edit", "stop"} : OpenDialog(b, dlg)
           \/ handleCancel(b) \/ ConfirmStop(b) \/ handleSubmit(b) \/ JobArrives(b)
           \/ \E which \in DOMAIN NoNote : NoteHides(b, which)
    \/ ChangesElsewhere
    \/ \E o \in ops : Begins(o) \/ Succeeds(o) \/ Fails(o) \/ Leaves(o) \/ NoteArrives(o)

JobOpsSpec == JobOpsInit /\ [][JobOpsNext]_vars

-----------------------------------------------------------------------------
JobOpsTypeOK ==
    /\ job.count \in Nat /\ job.stopped \in BOOLEAN /\ job.index \in Nat \ {0}
    /\ Cardinality(ops) <= MaxOps /\ refused \subseteq Users
    /\ \A o \in ops :
           /\ o.by \in Users /\ o.kind \in Kinds
           /\ o.done \in 0..Len(Calls[o.kind])
           /\ o.answer \in {"none", "success", "error", "seen"} /\ o.holds \in BOOLEAN
    /\ \A b \in Users :
           /\ seen[b] \in 1..job.index /\ dialog[b] \in {"", "edit", "stop"}
           /\ dialog[b] = "" <=> editor[b] = Pristine
           /\ dialog[b] = "edit" \/ ~editor[b].submitting

(* A command that ran alone has done what it is called for, or it has told *)
(* its user of an error: a restart starts, also what was stopped, and      *)
(* keeps the count; a group that restarts gets its instances back; scaling *)
(* changes the count that Nomad has, and nothing else.                     *)
DoneOrTold ==
    (\A o \in ops : o.answer # "none") => wanted \in {None, Spec(job)}

(* Nobody edits an old job unawares: an editor that accepts a submission   *)
(* holds the job that the store has, or an error is on the screen, after   *)
(* which the editor looks again.                                           *)
WarnsWhenStale ==
    \A b \in Users :
        dialog[b] = "edit" /\ ~editor[b].submitting /\ ~editor[b].outOfSync
            => editor[b].base = seen[b] \/ note[b].error

(* An editor that waits has something to wait for: a submission that will  *)
(* be answered, whichever notification it took for an answer before.  Not  *)
(* if it was given between the answer of the one before and the end of     *)
(* that goroutine: it is refused without a word.                           *)
NeverStuck ==
    \A b \in Users :
        editor[b].submitting /\ b \notin refused =>
            \E o \in ops : o.by = b /\ o.kind = "submit" /\ o.answer # "seen"
=============================================================================
