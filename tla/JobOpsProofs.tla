----------------------------- MODULE JobOpsProofs ------------------------------
(* Theorems of module JobOps, for any users, any counts and any number of  *)
(* commands under way.                                                     *)
(*                                                                         *)
(* CommandsInv says how far a command is with its calls and which copy of  *)
(* the job it has then, EditorInv relates the editor to the dialog; the    *)
(* two make the types inductive.  LoneInv is what becomes of the job of a  *)
(* command that runs alone, from the click to the end of its goroutine: it *)
(* makes DoneOrTold inductive.                                             *)
EXTENDS JobOps, FiniteSetTheorems, TLAPS

Specs == [count : Int, stopped : BOOLEAN]
Answers == {"none", "success", "error", "seen"}
Commands ==
    [by : Users, kind : Kinds, done : 0..3, copy : Specs \cup {None},
     holds : BOOLEAN, answer : Answers]
Editors == [base : Nat \cup {None}, submitting : BOOLEAN, outOfSync : BOOLEAN]

(* The commands that read the job before they write it.                    *)
Readers == Kinds \ {"stop", "submit", "evaluate"}

(* A command has its copy from the editor, or from its first call; it has  *)
(* calls left until it answers, and makes none before it has its key.      *)
HasItsCopy(o) ==
    /\ o.copy = None <=> o.kind \in {"stop", "evaluate"} \/ (o.kind \in Readers /\ o.done = 0)
    /\ o.done <= Len(Calls[o.kind])
    /\ o.answer = "none" => o.done < Len(Calls[o.kind])
    /\ o.answer = "none" /\ ~o.holds => o.done = 0

CommandsInv ==
    /\ job \in [count : Nat, stopped : BOOLEAN, index : Nat \ {0}]
    /\ IsFiniteSet(ops) /\ Cardinality(ops) <= MaxOps
    /\ ops \subseteq Commands
    /\ \A o \in ops : HasItsCopy(o)

(* The editor has a job to start from exactly while a dialog is open, and  *)
(* waits only in the dialog with a text.                                   *)
EditorInv ==
    /\ seen \in [Users -> 1..job.index]
    /\ dialog \in [Users -> {"", "edit", "stop"}]
    /\ editor \in [Users -> Editors]
    /\ note \in [Users -> [error : BOOLEAN, success : BOOLEAN]]
    /\ refused \subseteq Users
    /\ \A b \in Users :
           /\ dialog[b] = "" <=> editor[b].base = None
           /\ dialog[b] = "" => editor[b] = Pristine
           /\ editor[b].submitting => dialog[b] = "edit"

(* What the command o is to leave: of its copy, or of the job it will find. *)
ToLeave(o) == Outcome(o.kind, IF o.copy = None THEN Spec(job) ELSE o.copy)

LoneInv ==
    \/ wanted = None
    \/ ops = {} /\ wanted = Spec(job)
    \/ \E o \in ops : ops = {o} /\ wanted = IF o.answer = "none" THEN ToLeave(o) ELSE Spec(job)

JobOpsInv == CommandsInv /\ EditorInv /\ LoneInv

-----------------------------------------------------------------------------
(* The calls of the commands. *)

LEMMA KindsAre ==
    Kinds = {"stop", "restart", "rolling_restart", "increase", "decrease", "group_stop",
             "group_restart", "submit", "evaluate"}
BY DEF Kinds, Calls

LEMMA CallsAre ==
    ASSUME NEW kind \in Kinds
    PROVE  /\ kind = "stop" => Calls[kind] = <<Deregister>>
           /\ kind = "restart" => Calls[kind] = <<Info, Deregister, Register>>
           /\ kind \in {"rolling_restart", "increase", "decrease", "group_stop"}
                  => Calls[kind] = <<Info, Register>>
           /\ kind = "group_restart" => Calls[kind] = <<Info, Register, Register>>
           /\ kind = "submit" => Calls[kind] = <<Register>>
           /\ kind = "evaluate" => Calls[kind] = <<"evaluate">>
BY KindsAre DEF Calls

(* What is called when: a reader reads first, and only then registers.     *)
LEMMA CallsInOrder ==
    ASSUME NEW kind \in Kinds
    PROVE  /\ Len(Calls[kind]) \in Nat /\ Len(Calls[kind]) > 0 /\ Len(Calls[kind]) <= 3
           /\ kind \in {"stop", "evaluate", "submit"} => Len(Calls[kind]) = 1
           /\ kind = "group_restart" => Len(Calls[kind]) = 3
           /\ \A i \in 1..Len(Calls[kind]) :
                  /\ Calls[kind][i] = Info <=> kind \in Readers /\ i = 1
                  /\ Calls[kind][i] = Register
                         => kind = "submit" \/ (kind \in Readers /\ i > 1)
                  /\ Calls[kind][i] = Deregister
                         => kind = "stop" \/ (kind = "restart" /\ i = 2)
                  /\ kind # "evaluate" /\ i = Len(Calls[kind]) /\ kind # "stop"
                         => Calls[kind][i] = Register
                  /\ kind = "stop" => Calls[kind][i] = Deregister
                  /\ kind = "evaluate" => Calls[kind][i] \notin {Deregister, Register}
<1> DEFINE calls == Calls[kind]
<1> HIDE DEF calls
<1>0. Info # Register /\ Info # Deregister /\ Register # Deregister
      /\ "evaluate" \notin {Info, Register, Deregister}
  BY DEF Info, Register, Deregister
<1>1. CASE kind \in {"stop", "submit", "evaluate"}
  <2>1. /\ Len(calls) = 1
        /\ kind = "stop" => calls[1] = Deregister
        /\ kind = "submit" => calls[1] = Register
        /\ kind = "evaluate" => calls[1] = "evaluate"
    BY <1>1, CallsAre DEF calls
  <2> QED BY <2>1, <1>0, <1>1 DEF Readers, calls
<1>2. CASE kind = "restart"
  <2>1. Len(calls) = 3 /\ calls[1] = Info /\ calls[2] = Deregister /\ calls[3] = Register
    BY <1>2, CallsAre DEF calls
  <2> QED BY <2>1, <1>0, <1>2 DEF Readers, calls
<1>3. CASE kind \in {"rolling_restart", "increase", "decrease", "group_stop"}
  <2>1. Len(calls) = 2 /\ calls[1] = Info /\ calls[2] = Register
    BY <1>3, CallsAre DEF calls
  <2> QED BY <2>1, <1>0, <1>3 DEF Readers, calls
<1>4. CASE kind = "group_restart"
  <2>1. Len(calls) = 3 /\ calls[1] = Info /\ calls[2] = Register /\ calls[3] = Register
    BY <1>4, CallsAre DEF calls
  <2> QED BY <2>1, <1>0, <1>4 DEF Readers, calls
<1> QED BY <1>1, <1>2, <1>3, <1>4, KindsAre

-----------------------------------------------------------------------------
(* The commands. *)

LEMMA NoneIsNoCopy == None \notin Specs /\ None \notin Nat /\ Texts \subseteq Specs
BY JobOpsAssumption DEF Specs, Texts

LEMMA OutcomeIsSpec ==
    ASSUME NEW kind \in Kinds, NEW copy \in Specs
    PROVE  Outcome(kind, copy) \in Specs
<1>1. NewCount(kind, copy.count) \in Int
  BY DEF NewCount, Specs
<1>2. Stops(kind, copy.stopped) \in BOOLEAN
  BY DEF Stops, Specs
<1> QED BY <1>1, <1>2 DEF Outcome, Specs

(* Nomad's counts are never negative, whatever is registered.              *)
LEMMA EffectKeepsType ==
    ASSUME CommandsInv, NEW o \in ops, Busy(o), Effect(o) \/ UNCHANGED job
    PROVE  /\ job' \in [count : Nat, stopped : BOOLEAN, index : Nat \ {0}]
           /\ job'.index >= job.index
<1>1. o \in Commands /\ HasItsCopy(o)
  BY DEF CommandsInv
<1>2. o.done + 1 \in 1..Len(Calls[o.kind])
  BY <1>1, CallsInOrder DEF Busy, HasItsCopy, Commands
<1>3. CASE Calls[o.kind][o.done + 1] = Register /\ Effect(o)
  <2>1. o.kind = "submit" \/ (o.kind \in Readers /\ o.done > 0)
    BY <1>1, <1>2, <1>3, CallsInOrder DEF Commands
  <2>2. o.copy \in Specs
    BY <1>1, <2>1 DEF HasItsCopy, Commands, Readers
  <2>3. Registered(o) \in Specs
    BY <2>2, <1>1, OutcomeIsSpec DEF Registered, Commands, Specs
  <2>4. Registered(o).count >= 0 /\ Write(Registered(o))
    BY <1>3 DEF Effect, Register, Deregister
  <2> QED BY <2>3, <2>4 DEF Write, Specs, CommandsInv
<1>4. CASE Calls[o.kind][o.done + 1] = Deregister /\ Effect(o)
  <2>1. Write([count |-> job.count, stopped |-> TRUE])
    BY <1>4 DEF Effect, Deregister, Register
  <2> QED BY <2>1 DEF Write, CommandsInv
<1>5. CASE UNCHANGED job
  BY <1>5 DEF CommandsInv
<1> QED BY <1>3, <1>4, <1>5 DEF Effect

LEMMA OneIsReplaced ==
    ASSUME IsFiniteSet(ops), Cardinality(ops) <= MaxOps, NEW o \in ops, NEW p,
           Becomes(o, p) \/ ops' = ops \ {o}
    PROVE  IsFiniteSet(ops') /\ Cardinality(ops') <= MaxOps
<1> DEFINE rest == ops \ {o}
<1>1. IsFiniteSet(rest) /\ Cardinality(rest) = Cardinality(ops) - 1 /\ Cardinality(ops) \in Nat
  BY FS_RemoveElement, FS_CardinalityType
<1>2. IsFiniteSet(rest \cup {p}) /\ Cardinality(rest \cup {p}) <= Cardinality(rest) + 1
  BY <1>1, FS_AddElement
<1>3. MaxOps \in Nat /\ Cardinality(rest \cup {p}) \in Nat /\ Cardinality(rest) \in Nat
  BY <1>1, <1>2, FS_CardinalityType, JobOpsAssumption
<1> QED BY <1>1, <1>2, <1>3 DEF Becomes

LEMMA GiveKeepsCommands ==
    ASSUME CommandsInv, NEW b \in Users, NEW kind \in Kinds, NEW copy \in Specs \cup {None},
           Give(b, kind, copy), UNCHANGED job, copy = None <=> kind # "submit"
    PROVE  CommandsInv'
<1>0. PICK o : o = [by |-> b, kind |-> kind, done |-> 0, copy |-> copy,
                    holds |-> FALSE, answer |-> "none"]
  OBVIOUS
<1>1. ops' = ops \cup {o} /\ Cardinality(ops) < MaxOps
  BY <1>0 DEF Give
<1>2. IsFiniteSet(ops') /\ Cardinality(ops') <= MaxOps
  <2>1. IsFiniteSet(ops \cup {o}) /\ Cardinality(ops \cup {o}) <= Cardinality(ops) + 1
    <3>1. IsFiniteSet(ops) /\ Cardinality(ops) \in Nat
      BY FS_CardinalityType DEF CommandsInv
    <3> QED BY <3>1, FS_AddElement
  <2>2. Cardinality(ops) \in Nat /\ Cardinality(ops \cup {o}) \in Nat /\ MaxOps \in Nat
    BY <2>1, FS_CardinalityType, JobOpsAssumption DEF CommandsInv
  <2> QED BY <1>1, <2>1, <2>2
<1>3. o \in Commands
  BY <1>0 DEF Commands, Answers
<1>4. HasItsCopy(o)
  <2>1. o.kind = kind /\ o.copy = copy /\ o.done = 0
    BY <1>0
  <2>2. Len(Calls[kind]) > 0
    BY CallsInOrder
  <2>3. copy = None <=> kind \in {"stop", "evaluate"} \/ kind \in Readers
    BY KindsAre DEF Readers
  <2> QED BY <2>1, <2>2, <2>3 DEF HasItsCopy
<1> QED BY <1>1, <1>2, <1>3, <1>4 DEF CommandsInv, HasItsCopy

LEMMA ReplacedKeepsCommands ==
    ASSUME CommandsInv, NEW o \in ops, NEW p \in Commands, HasItsCopy(p),
           Becomes(o, p) \/ ops' = ops \ {o},
           job' \in [count : Nat, stopped : BOOLEAN, index : Nat \ {0}]
    PROVE  CommandsInv'
<1>1. IsFiniteSet(ops') /\ Cardinality(ops') <= MaxOps
  BY OneIsReplaced DEF CommandsInv
<1>2. ops' \subseteq (ops \ {o}) \cup {p}
  BY DEF Becomes
<1> QED BY <1>1, <1>2 DEF CommandsInv, HasItsCopy

(* What a command is after a call of it has succeeded.                     *)
LEMMA AfterCall ==
    ASSUME CommandsInv, NEW o \in ops, Succeeds(o)
    PROVE  \E p \in Commands :
               /\ Becomes(o, p) /\ HasItsCopy(p)
               /\ p.by = o.by /\ p.kind = o.kind /\ p.holds /\ p.done = o.done + 1
               /\ p.copy = IF Calls[o.kind][o.done + 1] = Info THEN Spec(job) ELSE o.copy
               /\ p.answer = IF p.done = Len(Calls[o.kind]) THEN "success" ELSE "none"
<1>1. o \in Commands /\ HasItsCopy(o) /\ o.holds /\ o.answer = "none"
  BY DEF CommandsInv, Succeeds, Busy
<1> DEFINE call == Calls[o.kind][o.done + 1]
           copy == IF call = Info THEN Spec(job) ELSE o.copy
           answer == IF o.done + 1 = Len(Calls[o.kind]) THEN "success" ELSE "none"
<1>2. PICK p : p = [o EXCEPT !.done = o.done + 1, !.copy = copy,
                             !.answer = IF o.done + 1 = Len(Calls[o.kind]) THEN "success"
                                        ELSE o.answer]
  OBVIOUS
<1>3. Becomes(o, p)
  BY <1>2 DEF Succeeds
<1>4. /\ o.done + 1 \in 1..3 /\ o.done + 1 \in 1..Len(Calls[o.kind])
      /\ o.done + 1 <= Len(Calls[o.kind])
  BY <1>1, CallsInOrder DEF HasItsCopy, Commands
<1>5. call = Info <=> o.kind \in Readers /\ o.done = 0
  BY <1>1, <1>4, CallsInOrder DEF Commands
<1>6. copy \in Specs \cup {None}
  BY <1>1 DEF Spec, Specs, CommandsInv, Commands
<1>7. /\ p.by = o.by /\ p.kind = o.kind /\ p.holds /\ p.done = o.done + 1
      /\ p.copy = copy /\ p.answer = answer
  BY <1>1, <1>2 DEF Commands
<1>8. p \in Commands
  <2>1. [o EXCEPT !.done = o.done + 1, !.copy = copy, !.answer = answer] \in Commands
    <3>1. ASSUME NEW d \in 0..3, NEW c \in Specs \cup {None}, NEW a \in Answers
          PROVE  [o EXCEPT !.done = d, !.copy = c, !.answer = a] \in Commands
      BY <1>1 DEF Commands
    <3>2. answer \in Answers
      BY DEF Answers
    <3>3. o.done + 1 \in 0..3
      BY <1>4
    <3> HIDE DEF copy, answer
    <3> QED BY <3>1, <3>2, <3>3, <1>6, Zenon
  <2> QED BY <1>1, <1>2, <2>1
<1>9. HasItsCopy(p)
  <2>1. call = Info => copy # None /\ o.kind \in Readers /\ o.kind \notin {"stop", "evaluate"}
    BY <1>5, NoneIsNoCopy DEF Spec, Specs, CommandsInv, Readers
  <2>2. call # Info => (copy = None <=> o.kind \in {"stop", "evaluate"})
    BY <1>1, <1>5 DEF HasItsCopy
  <2>3. p.copy = None <=> p.kind \in {"stop", "evaluate"} \/ (p.kind \in Readers /\ p.done = 0)
    BY <2>1, <2>2, <1>7, <1>4
  <2>4. p.answer = "none" => p.done < Len(Calls[p.kind])
    BY <1>7, <1>4
  <2> QED BY <1>4, <1>7, <2>3, <2>4 DEF HasItsCopy
<1> QED BY <1>3, <1>7, <1>8, <1>9

LEMMA CommandStepKeeps ==
    ASSUME CommandsInv, EditorInv, NEW o \in ops,
           Begins(o) \/ Succeeds(o) \/ Fails(o) \/ Leaves(o) \/ NoteArrives(o)
    PROVE  CommandsInv' /\ job'.index >= job.index
<1>1. o \in Commands /\ HasItsCopy(o) /\ job \in [count : Nat, stopped : BOOLEAN, index : Nat \ {0}]
  BY DEF CommandsInv
<1>2. CASE Begins(o)
  <2>1. [o EXCEPT !.holds = TRUE] \in Commands /\ HasItsCopy([o EXCEPT !.holds = TRUE])
    BY <1>1 DEF Commands, HasItsCopy
  <2>2. Becomes(o, [o EXCEPT !.holds = TRUE]) \/ ops' = ops \ {o}
    BY <1>2 DEF Begins
  <2>3. job' = job
    BY <1>2 DEF Begins
  <2> QED BY <1>1, <2>1, <2>2, <2>3, ReplacedKeepsCommands
<1>3. CASE Succeeds(o)
  <2>1. PICK p \in Commands : Becomes(o, p) /\ HasItsCopy(p)
    BY <1>3, AfterCall
  <2>2. /\ job' \in [count : Nat, stopped : BOOLEAN, index : Nat \ {0}]
        /\ job'.index >= job.index
    BY <1>3, EffectKeepsType DEF Succeeds
  <2> QED BY <2>1, <2>2, ReplacedKeepsCommands
<1>4. CASE Fails(o)
  <2>1. [o EXCEPT !.answer = "error"] \in Commands /\ HasItsCopy([o EXCEPT !.answer = "error"])
    BY <1>1 DEF Commands, HasItsCopy, Answers
  <2>2. /\ job' \in [count : Nat, stopped : BOOLEAN, index : Nat \ {0}]
        /\ job'.index >= job.index
    BY <1>4, EffectKeepsType DEF Fails
  <2>3. Becomes(o, [o EXCEPT !.answer = "error"])
    BY <1>4 DEF Fails
  <2> QED BY <2>1, <2>2, <2>3, ReplacedKeepsCommands
<1>5. CASE Leaves(o)
  <2>1. [o EXCEPT !.holds = FALSE] \in Commands /\ HasItsCopy([o EXCEPT !.holds = FALSE])
    BY <1>1, <1>5 DEF Commands, HasItsCopy, Leaves
  <2>2. Becomes(o, [o EXCEPT !.holds = FALSE]) \/ ops' = ops \ {o}
    BY <1>5 DEF Leaves
  <2>3. job' = job
    BY <1>5 DEF Leaves
  <2> QED BY <1>1, <2>1, <2>2, <2>3, ReplacedKeepsCommands
<1>6. CASE NoteArrives(o)
  <2>1. [o EXCEPT !.answer = "seen"] \in Commands /\ HasItsCopy([o EXCEPT !.answer = "seen"])
    BY <1>1, <1>6 DEF Commands, HasItsCopy, Answers
  <2>2. Becomes(o, [o EXCEPT !.answer = "seen"]) \/ ops' = ops \ {o}
    BY <1>6 DEF NoteArrives
  <2>3. job' = job
    BY <1>6 DEF NoteArrives
  <2> QED BY <1>1, <2>1, <2>2, <2>3, ReplacedKeepsCommands
<1> QED BY <1>2, <1>3, <1>4, <1>5, <1>6

-----------------------------------------------------------------------------
(* The editor. *)

Notes == [error : BOOLEAN, success : BOOLEAN]

(* What the editor holds after it has received, a dialog being open.       *)
LEMMA ReceivedHolds ==
    ASSUME NEW e \in Editors, NEW j \in Nat, NEW n \in Notes, NEW r,
           r = Received(e, j, n), e.submitting => e.base # None
    PROVE  /\ r \in Editors /\ r.base # None
           /\ r.submitting => e.submitting
           /\ e.submitting /\ (n.error \/ n.success) => ~r.submitting \/ Takes(e, n)
           /\ ~r.submitting /\ ~r.outOfSync => r.base = j \/ n.error
<1>1. CASE Editable(e, n)
  <2>1. r = [e EXCEPT !.submitting = FALSE]
    BY <1>1 DEF Received
  <2> QED BY <1>1, <2>1 DEF Editors, Editable
<1>2. CASE ~Editable(e, n) /\ e.base = None
  <2>1. r = [Pristine EXCEPT !.base = j]
    BY <1>2 DEF Received
  <2>2. r = [base |-> j, submitting |-> FALSE, outOfSync |-> FALSE]
    BY <2>1 DEF Pristine
  <2> QED BY <1>2, <2>2, NoneIsNoCopy DEF Editors
<1>3. CASE ~Editable(e, n) /\ e.base # None
  <2>1. r = [e EXCEPT !.outOfSync = e.outOfSync \/ IsStale(e, j)]
    BY <1>3 DEF Received
  <2>2. r \in Editors /\ r.base = e.base /\ r.submitting = e.submitting
        /\ r.outOfSync = (e.outOfSync \/ e.base # j)
    BY <2>1 DEF Editors, IsStale
  <2> QED BY <1>3, <2>2 DEF Editors, Editable, Takes, Notes
<1> QED BY <1>1, <1>2, <1>3

(* Whatever a browser receives: nobody starts to wait, who gets a          *)
(* notification does not wait any longer, and an old job is warned of.     *)
LEMMA ReceivesKeepsEditor ==
    ASSUME EditorInv, NEW b \in Users, NEW dlg \in {"", "edit", "stop"},
           dlg \in {"", dialog[b]} \/ dialog[b] = "",
           seen \in [Users -> 1..job'.index],
           NEW j \in Nat, j \in 1..job'.index, NEW n \in Notes,
           Receives(b, dlg, j, n), refused' \subseteq Users
    PROVE  /\ EditorInv'
           /\ WarnsWhenStale => WarnsWhenStale'
           /\ \A c \in Users : editor'[c].submitting => editor[c].submitting
           /\ n.error \/ n.success => ~editor'[b].submitting
<1> DEFINE e == editor[b]
           closed == Closes(e, dlg, n)
           r == editor'[b]
<1>1. /\ dialog' = [dialog EXCEPT ![b] = IF closed THEN "" ELSE dlg]
      /\ seen' = [seen EXCEPT ![b] = j]
      /\ note' = [note EXCEPT ![b] = n]
      /\ editor' = [editor EXCEPT ![b] = IF closed THEN Pristine ELSE Received(e, j, n)]
  BY DEF Receives
<1>2. e \in Editors /\ (e.submitting => e.base # None)
  BY DEF EditorInv
<1>3. Pristine \in Editors /\ Pristine.base = None /\ ~Pristine.submitting
  BY DEF Editors, Pristine
<1>4. /\ r = IF closed THEN Pristine ELSE Received(e, j, n)
      /\ dialog'[b] = IF closed THEN "" ELSE dlg
      /\ seen'[b] = j /\ note'[b] = n
      /\ \A c \in Users \ {b} : /\ editor'[c] = editor[c] /\ dialog'[c] = dialog[c]
                                /\ seen'[c] = seen[c] /\ note'[c] = note[c]
  BY <1>1 DEF EditorInv
<1>5. ~closed => /\ r \in Editors /\ r.base # None
                 /\ r.submitting => e.submitting
                 /\ e.submitting /\ (n.error \/ n.success) => ~r.submitting
                 /\ ~r.submitting /\ ~r.outOfSync => r.base = j \/ n.error
  <2> SUFFICES ASSUME ~closed
               PROVE  /\ r \in Editors /\ r.base # None
                      /\ r.submitting => e.submitting
                      /\ e.submitting /\ (n.error \/ n.success) => ~r.submitting
                      /\ ~r.submitting /\ ~r.outOfSync => r.base = j \/ n.error
    OBVIOUS
  <2>1. r = Received(e, j, n) /\ ~Takes(e, n)
    BY <1>4 DEF Closes
  <2> HIDE DEF r, e
  <2> QED BY <1>2, <2>1, ReceivedHolds
<1>6. r \in Editors
  BY <1>3, <1>4, <1>5
<1>7. /\ seen' \in [Users -> 1..job'.index] /\ dialog' \in [Users -> {"", "edit", "stop"}]
      /\ editor' \in [Users -> Editors] /\ note' \in [Users -> Notes]
  <2>1. (IF closed THEN "" ELSE dlg) \in {"", "edit", "stop"}
        /\ (IF closed THEN Pristine ELSE Received(e, j, n)) \in Editors
    BY <1>4, <1>6
  <2> HIDE DEF closed, e
  <2> QED BY <1>1, <2>1 DEF EditorInv, Notes
<1>8. \A c \in Users : /\ dialog'[c] = "" <=> editor'[c].base = None
                       /\ dialog'[c] = "" => editor'[c] = Pristine
                       /\ editor'[c].submitting => dialog'[c] = "edit"
  <2>1. CASE closed
    <3>1. /\ dialog'[b] = "" /\ editor'[b] = Pristine
          /\ editor'[b].base = None /\ ~editor'[b].submitting
      BY <2>1, <1>3, <1>4
    <3> QED BY <3>1, <1>4 DEF EditorInv
  <2>2. CASE ~closed
    <3>1. dlg # "" /\ dialog'[b] = dlg /\ r.base # None
      BY <2>2, <1>4, <1>5 DEF Closes
    <3>2. r.submitting => dlg = "edit"
      BY <2>2, <1>5, <3>1 DEF EditorInv, Pristine
    <3> QED BY <1>4, <3>1, <3>2 DEF EditorInv
  <2> QED BY <2>1, <2>2
<1>9. WarnsWhenStale => WarnsWhenStale'
  <2>1. dialog'[b] = "edit" /\ ~r.submitting /\ ~r.outOfSync => r.base = seen'[b] \/ note'[b].error
    BY <1>4, <1>5
  <2> QED BY <1>4, <2>1 DEF WarnsWhenStale
<1> QED BY <1>3, <1>4, <1>5, <1>7, <1>8, <1>9 DEF EditorInv, Notes

-----------------------------------------------------------------------------
(* Every step. *)

LEMMA IndicesAreNat ==
    ASSUME NEW m \in Nat \ {0} PROVE m \in 1..m /\ m \in Nat /\ 1..m \subseteq Nat /\ 1 \in 1..m
OBVIOUS

LEMMA JobOpsInitInv == JobOpsInit => JobOpsInv
<1> SUFFICES ASSUME JobOpsInit PROVE JobOpsInv
  OBVIOUS
<1>1. CommandsInv
  <2>1. Size \in Nat /\ MaxOps \in Nat
    BY JobOpsAssumption
  <2>2. job = [count |-> Size, stopped |-> FALSE, index |-> 1] /\ ops = {}
    BY DEF JobOpsInit
  <2>3. job \in [count : Nat, stopped : BOOLEAN, index : Nat \ {0}]
    BY <2>1, <2>2
  <2>4. IsFiniteSet(ops) /\ Cardinality(ops) = 0
    BY <2>2, FS_EmptySet
  <2> QED BY <2>1, <2>2, <2>3, <2>4 DEF CommandsInv
<1>2. EditorInv
  <2>1. Pristine \in Editors /\ Pristine.base = None /\ ~Pristine.submitting
    BY DEF Editors, Pristine
  <2>2. NoNote \in [error : BOOLEAN, success : BOOLEAN]
    BY DEF NoNote
  <2>3. job.index = 1
    BY DEF JobOpsInit
  <2>4. /\ seen = [b \in Users |-> 1] /\ dialog = [b \in Users |-> ""]
        /\ editor = [b \in Users |-> Pristine] /\ note = [b \in Users |-> NoNote]
        /\ refused = {}
    BY <2>3, Zenon DEF JobOpsInit
  <2>5. seen \in [Users -> 1..job.index]
    <3>1. 1 \in 1..job.index
      BY <2>3, IndicesAreNat
    <3> QED BY <2>4, <3>1, Zenon
  <2>6. \A b \in Users : dialog[b] = "" /\ editor[b] = Pristine
    BY <2>4
  <2> QED BY <2>1, <2>2, <2>4, <2>5, <2>6 DEF EditorInv
<1>3. LoneInv
  BY DEF JobOpsInit, LoneInv
<1> QED BY <1>1, <1>2, <1>3 DEF JobOpsInv

(* The steps of users and of what arrives, each with what it does to the   *)
(* commands: only a click and a submission give one.                       *)
LEMMA ElsewhereKeeps ==
    ASSUME JobOpsInv, ChangesElsewhere
    PROVE  CommandsInv' /\ EditorInv' /\ job'.index >= job.index
<1>1. PICK text \in Texts : Write(text)
  BY DEF ChangesElsewhere
<1>2. /\ job' \in [count : Nat, stopped : BOOLEAN, index : Nat \ {0}]
      /\ job'.index = job.index + 1 /\ job.index \in Nat
  BY <1>1, JobOpsAssumption DEF JobOpsInv, CommandsInv, Write, Texts
<1>3. seen' \in [Users -> 1..job'.index]
  <2>1. 1..job.index \subseteq 1..(job.index + 1)
    BY <1>2
  <2> QED BY <1>2, <2>1 DEF ChangesElsewhere, uiVars, JobOpsInv, EditorInv
<1>4. /\ dialog' = dialog /\ editor' = editor /\ note' = note
      /\ ops' = ops /\ refused' = refused
  BY DEF ChangesElsewhere, uiVars
<1>5. CommandsInv'
  BY <1>2, <1>4 DEF JobOpsInv, CommandsInv, HasItsCopy
<1>6. EditorInv'
  BY <1>3, <1>4 DEF JobOpsInv, EditorInv
<1> QED BY <1>2, <1>5, <1>6

(* What a step owes to the editors.                                        *)
EditorsKept ==
    EditorInv' /\ (WarnsWhenStale => WarnsWhenStale') /\ (NeverStuck => NeverStuck')

(* A command replaced by a later state of itself is still one to wait for. *)
LEMMA StillWaitedFor ==
    ASSUME NeverStuck,
           \A b \in Users : editor'[b].submitting => editor[b].submitting,
           refused \subseteq refused',
           \A o \in ops : /\ o.kind = "submit" /\ o.answer # "seen"
                          /\ o.by \in Users /\ editor'[o.by].submitting /\ o.by \notin refused'
               => \E p \in ops' : p.by = o.by /\ p.kind = "submit" /\ p.answer # "seen"
    PROVE  NeverStuck'
<1> SUFFICES ASSUME NEW b \in Users, editor'[b].submitting, b \notin refused'
             PROVE  \E p \in ops' : p.by = b /\ p.kind = "submit" /\ p.answer # "seen"
  BY DEF NeverStuck
<1>1. PICK o \in ops : o.by = b /\ o.kind = "submit" /\ o.answer # "seen"
  BY DEF NeverStuck
<1> QED BY <1>1

LEMMA ReceivesKeepsEditors ==
    ASSUME JobOpsInv, NEW b \in Users, NEW dlg \in {"", "edit", "stop"},
           dlg \in {"", dialog[b]} \/ dialog[b] = "",
           NEW j \in Nat, j \in 1..job.index, NEW n \in Notes,
           Receives(b, dlg, j, n), UNCHANGED job, ops \subseteq ops', UNCHANGED refused
    PROVE  EditorsKept
<1>1. seen \in [Users -> 1..job'.index] /\ j \in 1..job'.index /\ refused' \subseteq Users
  BY DEF JobOpsInv, EditorInv
<1>2. /\ EditorInv' /\ (WarnsWhenStale => WarnsWhenStale')
      /\ \A c \in Users : editor'[c].submitting => editor[c].submitting
  BY <1>1, ReceivesKeepsEditor DEF JobOpsInv
<1>3. NeverStuck => NeverStuck'
  BY <1>2, StillWaitedFor
<1> QED BY <1>2, <1>3 DEF EditorsKept

LEMMA SeenIsNat ==
    ASSUME JobOpsInv, NEW b \in Users
    PROVE  /\ seen[b] \in Nat /\ seen[b] \in 1..job.index
           /\ job.index \in Nat /\ job.index \in 1..job.index
           /\ note[b] \in Notes /\ dialog[b] \in {"", "edit", "stop"}
<1>1. job.index \in Nat \ {0}
  BY DEF JobOpsInv, CommandsInv
<1>2. seen[b] \in 1..job.index /\ note[b] \in Notes /\ dialog[b] \in {"", "edit", "stop"}
  BY DEF JobOpsInv, EditorInv, Notes
<1> QED BY <1>1, <1>2, IndicesAreNat, Zenon

LEMMA GiveMore ==
    ASSUME NEW b, NEW kind, NEW copy, Give(b, kind, copy) PROVE ops \subseteq ops'
BY DEF Give

LEMMA IdleKeepsEditors ==
    ASSUME JobOpsInv, UNCHANGED uiVars, seen \in [Users -> 1..job'.index],
           refused \subseteq refused', refused' \subseteq Users,
           \A o \in ops : o.kind = "submit" /\ o.answer # "seen" /\ o.by \notin refused'
               => \E p \in ops' : p.by = o.by /\ p.kind = "submit" /\ p.answer # "seen"
    PROVE  EditorsKept
<1>1. seen' = seen /\ dialog' = dialog /\ editor' = editor /\ note' = note
  BY DEF uiVars
<1>2. EditorInv' /\ (WarnsWhenStale => WarnsWhenStale')
  BY <1>1 DEF JobOpsInv, EditorInv, WarnsWhenStale
<1>3. NeverStuck => NeverStuck'
  BY <1>1, StillWaitedFor
<1> QED BY <1>2, <1>3 DEF EditorsKept

LEMMA NoteOf ==
    ASSUME NEW n \in Notes, NEW which \in {"error", "success"}, NEW v \in BOOLEAN,
           NEW m, m = [n EXCEPT ![which] = v]
    PROVE  /\ m \in Notes
           /\ v => m.error \/ m.success
<1>1. CASE which = "error"
  BY <1>1 DEF Notes
<1>2. CASE which = "success"
  BY <1>2 DEF Notes
<1> QED BY <1>1, <1>2

LEMMA UserStepKeeps ==
    ASSUME JobOpsInv, NEW b \in Users,
           \/ \E kind \in Kinds : Click(b, kind)
           \/ \E dlg \in {"edit", "stop"} : OpenDialog(b, dlg)
           \/ handleCancel(b) \/ ConfirmStop(b) \/ JobArrives(b)
           \/ \E which \in DOMAIN NoNote : NoteHides(b, which)
    PROVE  CommandsInv' /\ EditorsKept
<1>1. ASSUME NEW kind \in Kinds, Click(b, kind)
      PROVE  CommandsInv' /\ EditorsKept
  <2>1. /\ kind # "submit" /\ Give(b, kind, None)
        /\ UNCHANGED <<job, uiVars, refused>>
    BY <1>1 DEF Click, Buttons
  <2>2. CommandsInv'
    BY <2>1, GiveKeepsCommands DEF JobOpsInv
  <2>3. seen \in [Users -> 1..job'.index] /\ refused' = refused /\ refused \subseteq Users
    BY <2>1 DEF JobOpsInv, EditorInv
  <2>4. ops \subseteq ops'
    BY <2>1, GiveMore
  <2> QED BY <2>1, <2>2, <2>3, <2>4, IdleKeepsEditors
<1>2. ASSUME NEW dlg \in {"edit", "stop"}, OpenDialog(b, dlg)
      PROVE  CommandsInv' /\ EditorsKept
  <2>1. /\ Receives(b, dlg, seen[b], note[b]) /\ dialog[b] = ""
        /\ UNCHANGED <<job, ops, refused>> /\ dlg \in {"", "edit", "stop"}
    BY <1>2 DEF OpenDialog
  <2>2. CommandsInv'
    BY <2>1 DEF JobOpsInv, CommandsInv, HasItsCopy
  <2> QED BY <2>1, <2>2, SeenIsNat, ReceivesKeepsEditors
<1>3. CASE handleCancel(b)
  <2>1. /\ Receives(b, "", seen[b], note[b])
        /\ UNCHANGED <<job, ops, refused>>
    BY <1>3 DEF handleCancel
  <2>2. CommandsInv'
    BY <2>1 DEF JobOpsInv, CommandsInv, HasItsCopy
  <2> QED BY <2>1, <2>2, SeenIsNat, ReceivesKeepsEditors
<1>4. CASE ConfirmStop(b)
  <2>1. /\ Receives(b, "", seen[b], note[b])
        /\ Give(b, "stop", None) /\ "stop" \in Kinds
        /\ UNCHANGED <<job, refused>>
    BY <1>4, KindsAre DEF ConfirmStop
  <2>2. CommandsInv'
    BY <2>1, GiveKeepsCommands DEF JobOpsInv
  <2>3. ops \subseteq ops'
    BY <2>1, GiveMore
  <2> QED BY <2>1, <2>2, <2>3, SeenIsNat, ReceivesKeepsEditors
<1>5. CASE JobArrives(b)
  <2>1. /\ Receives(b, dialog[b], job.index, note[b])
        /\ UNCHANGED <<job, ops, refused>>
    BY <1>5 DEF JobArrives
  <2>2. CommandsInv'
    BY <2>1 DEF JobOpsInv, CommandsInv, HasItsCopy
  <2> QED BY <2>1, <2>2, SeenIsNat, ReceivesKeepsEditors
<1>6. ASSUME NEW which \in DOMAIN NoNote, NoteHides(b, which)
      PROVE  CommandsInv' /\ EditorsKept
  <2> DEFINE n == [note[b] EXCEPT ![which] = FALSE]
  <2>1. /\ Receives(b, dialog[b], seen[b], n)
        /\ UNCHANGED <<job, ops, refused>>
    BY <1>6 DEF NoteHides
  <2>2. CommandsInv'
    BY <2>1 DEF JobOpsInv, CommandsInv, HasItsCopy
  <2>3. n \in Notes
    BY SeenIsNat, NoteOf DEF NoNote
  <2> HIDE DEF n
  <2> QED BY <2>1, <2>2, <2>3, SeenIsNat, ReceivesKeepsEditors
<1> QED BY <1>1, <1>2, <1>3, <1>4, <1>5, <1>6

(* A submission is the one step that makes an editor wait, and gives the   *)
(* command that it waits for.                                              *)
LEMMA SubmitKeeps ==
    ASSUME JobOpsInv, NEW b \in Users, handleSubmit(b)
    PROVE  CommandsInv' /\ EditorsKept
<1>1. PICK text \in Texts : Give(b, "submit", text)
  BY DEF handleSubmit
<1>2. CommandsInv'
  <2>1. text \in Specs \cup {None} /\ text # None /\ "submit" \in Kinds
    BY NoneIsNoCopy, KindsAre
  <2> QED BY <1>1, <2>1, GiveKeepsCommands DEF JobOpsInv, handleSubmit
<1>3. /\ dialog[b] = "edit" /\ refused' = refused \ {b}
      /\ editor' = [editor EXCEPT ![b].submitting = TRUE]
      /\ seen' = seen /\ dialog' = dialog /\ note' = note /\ job' = job
  BY DEF handleSubmit
<1>4. /\ editor' \in [Users -> Editors]
      /\ editor'[b].submitting /\ editor'[b].base = editor[b].base
      /\ \A c \in Users \ {b} : editor'[c] = editor[c]
  BY <1>3 DEF JobOpsInv, EditorInv, Editors
<1>5. EditorInv'
  BY <1>3, <1>4 DEF JobOpsInv, EditorInv
<1>6. WarnsWhenStale => WarnsWhenStale'
  BY <1>3, <1>4 DEF WarnsWhenStale
<1>7. NeverStuck => NeverStuck'
  <2> SUFFICES ASSUME NeverStuck, NEW c \in Users, editor'[c].submitting, c \notin refused'
               PROVE  \E p \in ops' : p.by = c /\ p.kind = "submit" /\ p.answer # "seen"
    BY DEF NeverStuck
  <2>1. CASE c = b
    <3>1. PICK p \in ops' : p = [by |-> b, kind |-> "submit", done |-> 0, copy |-> text,
                                 holds |-> FALSE, answer |-> "none"]
      BY <1>1 DEF Give
    <3>2. p.by = b /\ p.kind = "submit" /\ p.answer = "none"
      BY <3>1
    <3> QED BY <2>1, <3>2
  <2>2. CASE c # b
    <3>1. c \notin refused /\ editor[c].submitting
      BY <2>2, <1>3, <1>4
    <3> QED BY <3>1, <1>1, GiveMore DEF NeverStuck
  <2> QED BY <2>1, <2>2
<1> QED BY <1>2, <1>5, <1>6, <1>7 DEF EditorsKept

(* A command that is refused leaves a holder of its key behind, which will *)
(* answer in its place, or it is recorded; a notification ends the waiting *)
(* of its user, whatever it is about.                                      *)
LEMMA CommandStepKeepsEditors ==
    ASSUME JobOpsInv, NEW o \in ops,
           Begins(o) \/ Succeeds(o) \/ Fails(o) \/ Leaves(o) \/ NoteArrives(o)
    PROVE  EditorsKept
<1>1. /\ o \in Commands /\ job'.index >= job.index
      /\ job.index \in Nat /\ job'.index \in Nat
  BY CommandStepKeeps DEF JobOpsInv, CommandsInv
<1>2. seen \in [Users -> 1..job'.index]
  <2>1. 1..job.index \subseteq 1..job'.index
    BY <1>1
  <2> QED BY <2>1 DEF JobOpsInv, EditorInv
<1>3. refused \subseteq Users
  BY DEF JobOpsInv, EditorInv
<1>4. CASE Begins(o)
  <2> DEFINE holders == {p \in ops : p.holds /\ p.by = o.by /\ p.kind = o.kind}
  <2>1. UNCHANGED <<job, uiVars>> /\ ~o.holds
    BY <1>4 DEF Begins
  <2>2. CASE holders = {}
    <3>1. Becomes(o, [o EXCEPT !.holds = TRUE]) /\ refused' = refused
      BY <1>4, <2>2 DEF Begins
    <3>2. /\ [o EXCEPT !.holds = TRUE].by = o.by /\ [o EXCEPT !.holds = TRUE].kind = o.kind
          /\ [o EXCEPT !.holds = TRUE].answer = o.answer
      BY <1>1 DEF Commands
    <3> QED BY <1>2, <1>3, <2>1, <3>1, <3>2, IdleKeepsEditors DEF Becomes
  <2>3. CASE holders # {}
    <3>1. /\ ops' = ops \ {o}
          /\ refused' = IF o.kind = "submit" /\ \E p \in holders : p.answer # "none"
                        THEN refused \cup {o.by} ELSE refused
      BY <1>4, <2>3 DEF Begins
    <3>2. refused \subseteq refused' /\ refused' \subseteq Users
      BY <1>1, <1>3, <3>1 DEF Commands
    <3>3. ASSUME NEW q \in ops, q.kind = "submit", q.answer # "seen", q.by \notin refused'
          PROVE  \E p \in ops' : p.by = q.by /\ p.kind = "submit" /\ p.answer # "seen"
      <4>1. CASE q # o
        BY <3>1, <3>3, <4>1
      <4>2. CASE q = o
        <5>1. PICK p \in holders : TRUE
          BY <2>3
        <5>2. p \in ops' /\ p.by = q.by /\ p.kind = "submit"
          BY <2>1, <3>1, <3>3, <4>2, <5>1
        <5>3. p.answer = "none"
          BY <3>1, <3>3, <4>2, <5>1
        <5> QED BY <5>2, <5>3
      <4> QED BY <4>1, <4>2
    <3> QED BY <1>2, <2>1, <3>2, <3>3, IdleKeepsEditors
  <2> QED BY <2>2, <2>3
<1>5. CASE Succeeds(o)
  <2>1. PICK p \in Commands : Becomes(o, p) /\ p.by = o.by /\ p.kind = o.kind /\ p.answer # "seen"
    BY <1>5, AfterCall DEF JobOpsInv
  <2>2. UNCHANGED <<uiVars, refused>>
    BY <1>5 DEF Succeeds
  <2> QED BY <1>2, <1>3, <2>1, <2>2, IdleKeepsEditors DEF Becomes
<1>6. CASE Fails(o)
  <2>1. Becomes(o, [o EXCEPT !.answer = "error"]) /\ UNCHANGED <<uiVars, refused>>
    BY <1>6 DEF Fails
  <2>2. /\ [o EXCEPT !.answer = "error"].by = o.by /\ [o EXCEPT !.answer = "error"].kind = o.kind
        /\ [o EXCEPT !.answer = "error"].answer = "error"
    BY <1>1 DEF Commands
  <2> QED BY <1>2, <1>3, <2>1, <2>2, IdleKeepsEditors DEF Becomes
<1>7. CASE Leaves(o)
  <2>1. UNCHANGED <<job, uiVars, refused>>
    BY <1>7 DEF Leaves
  <2>2. /\ [o EXCEPT !.holds = FALSE].by = o.by /\ [o EXCEPT !.holds = FALSE].kind = o.kind
        /\ [o EXCEPT !.holds = FALSE].answer = o.answer
    BY <1>1 DEF Commands
  <2>3. \/ o.answer = "seen" /\ ops' = ops \ {o}
        \/ Becomes(o, [o EXCEPT !.holds = FALSE])
    BY <1>7 DEF Leaves
  <2> QED BY <1>2, <1>3, <2>1, <2>2, <2>3, IdleKeepsEditors DEF Becomes
<1>8. CASE NoteArrives(o)
  <2> DEFINE n == [note[o.by] EXCEPT ![o.answer] = TRUE]
  <2>1. /\ Receives(o.by, dialog[o.by], seen[o.by], n)
        /\ o.answer \in {"success", "error"} /\ UNCHANGED <<job, refused>>
        /\ Becomes(o, [o EXCEPT !.answer = "seen"]) \/ ops' = ops \ {o}
    BY <1>8 DEF NoteArrives
  <2>2. /\ o.by \in Users /\ seen[o.by] \in Nat /\ seen[o.by] \in 1..job.index
        /\ dialog[o.by] \in {"", "edit", "stop"} /\ note[o.by] \in Notes
    BY <1>1, SeenIsNat DEF Commands
  <2>3. n \in Notes /\ (n.error \/ n.success)
    BY <2>1, <2>2, NoteOf
  <2> HIDE DEF n
  <2>4. /\ EditorInv' /\ (WarnsWhenStale => WarnsWhenStale')
        /\ \A c \in Users : editor'[c].submitting => editor[c].submitting
        /\ ~editor'[o.by].submitting
    BY <1>2, <1>3, <2>1, <2>2, <2>3, ReceivesKeepsEditor DEF JobOpsInv
  <2>5. \A q \in ops : q.by # o.by => q \in ops'
    BY <2>1 DEF Becomes
  <2>6. NeverStuck => NeverStuck'
    BY <2>1, <2>4, <2>5, StillWaitedFor
  <2> QED BY <2>4, <2>6 DEF EditorsKept
<1> QED BY <1>4, <1>5, <1>6, <1>7, <1>8

-----------------------------------------------------------------------------
(* The command that runs alone. *)

LEMMA GiveIsLone ==
    ASSUME NEW b, NEW kind, NEW copy, Give(b, kind, copy), UNCHANGED job
    PROVE  LoneInv'
<1>1. CASE ops # {}
  BY <1>1 DEF Give, LoneInv
<1>2. CASE ops = {}
  <2>1. PICK o : o = [by |-> b, kind |-> kind, done |-> 0, copy |-> copy,
                      holds |-> FALSE, answer |-> "none"]
    OBVIOUS
  <2>2. ops' = {o} /\ o.answer = "none" /\ o.kind = kind /\ o.copy = copy
    BY <1>2, <2>1 DEF Give
  <2>3. wanted' = Outcome(o.kind, IF o.copy = None THEN Spec(job') ELSE o.copy)
    BY <1>2, <2>2 DEF Give
  <2> QED BY <2>2, <2>3 DEF LoneInv, ToLeave
<1> QED BY <1>1, <1>2

(* The last call leaves what the command is called for.                    *)
LEMMA LastCallLeaves ==
    ASSUME CommandsInv, NEW o \in ops, Succeeds(o), o.done + 1 = Len(Calls[o.kind])
    PROVE  Spec(job') = ToLeave(o)
<1> DEFINE call == Calls[o.kind][o.done + 1]
<1>1. /\ o \in Commands /\ HasItsCopy(o)
      /\ job \in [count : Nat, stopped : BOOLEAN, index : Nat \ {0}]
  BY DEF CommandsInv
<1>2. Effect(o)
  BY DEF Succeeds
<1>3. o.done + 1 \in 1..Len(Calls[o.kind])
  BY <1>1, CallsInOrder DEF Commands
<1>4. CASE o.kind = "stop"
  <2>1. call = Deregister /\ o.copy = None
    BY <1>1, <1>3, <1>4, CallsInOrder DEF HasItsCopy, Commands
  <2>2. Write([count |-> job.count, stopped |-> TRUE])
    BY <1>2, <2>1 DEF Effect, Deregister, Register
  <2>3. Spec(job') = [count |-> job.count, stopped |-> TRUE]
    BY <2>2 DEF Write, Spec
  <2>4. ToLeave(o) = [count |-> job.count, stopped |-> TRUE]
    BY <1>4, <2>1 DEF ToLeave, Outcome, NewCount, Stops, Spec
  <2> QED BY <2>3, <2>4
<1>5. CASE o.kind = "evaluate"
  <2>1. call \notin {Deregister, Register} /\ o.copy = None
    BY <1>1, <1>3, <1>5, CallsInOrder DEF HasItsCopy, Commands
  <2>2. job' = job
    BY <1>2, <2>1 DEF Effect
  <2>3. ToLeave(o) = [count |-> job.count, stopped |-> job.stopped]
    BY <1>1, <1>5, <2>1 DEF ToLeave, Outcome, NewCount, Stops, Spec
  <2> QED BY <2>2, <2>3 DEF Spec
<1>6. CASE o.kind \notin {"stop", "evaluate"}
  <2>1. call = Register
    BY <1>1, <1>3, <1>6, CallsInOrder DEF Commands
  <2>2. o.kind = "submit" \/ o.done > 0
    BY <1>1, <1>3, <2>1, CallsInOrder DEF Commands
  <2>3. o.copy # None
    BY <1>1, <1>6, <2>2 DEF HasItsCopy, Readers
  <2>4. ~(o.kind = "group_restart" /\ o.done = 1)
    <3>1. Len(Calls[o.kind]) \in Nat /\ (o.kind = "group_restart" => Len(Calls[o.kind]) = 3)
      BY <1>1, CallsInOrder DEF Commands
    <3>2. o.done + 1 = Len(Calls[o.kind]) /\ o.done \in Nat
      BY <1>1 DEF Commands
    <3>3. \A d, l \in Nat : d + 1 = l /\ l = 3 => d # 1
      OBVIOUS
    <3> QED BY <3>1, <3>2, <3>3, Zenon
  <2>5. Write(Outcome(o.kind, o.copy))
    BY <1>2, <2>1, <2>4 DEF Effect, Registered, Deregister, Register
  <2>6. ToLeave(o) = Outcome(o.kind, o.copy)
    BY <2>3 DEF ToLeave
  <2>7. Spec(job') = Outcome(o.kind, o.copy)
    BY <2>5 DEF Write, Spec, Outcome
  <2> QED BY <2>6, <2>7
<1> QED BY <1>4, <1>5, <1>6

LEMMA CommandStepIsLone ==
    ASSUME CommandsInv, LoneInv, NEW o \in ops,
           Begins(o) \/ Succeeds(o) \/ Fails(o) \/ Leaves(o) \/ NoteArrives(o)
    PROVE  LoneInv'
<1>1. CASE wanted' = None
  BY <1>1 DEF LoneInv
<1> SUFFICES ASSUME wanted' # None PROVE LoneInv'
  BY <1>1
<1>2. ~Fails(o)
  BY DEF Fails
<1>3. wanted' = wanted
  BY <1>2 DEF Begins, Succeeds, Leaves, NoteArrives
<1>4. ops = {o} /\ wanted = IF o.answer = "none" THEN ToLeave(o) ELSE Spec(job)
  BY <1>3 DEF LoneInv
<1>5. o \in Commands /\ HasItsCopy(o)
  BY DEF CommandsInv
<1>6. ASSUME NEW p, Becomes(o, p), UNCHANGED job, p.kind = o.kind, p.copy = o.copy,
             o.answer = "none" <=> p.answer = "none"
      PROVE  LoneInv'
  BY <1>3, <1>4, <1>6 DEF LoneInv, Becomes, ToLeave
<1>7. ASSUME ops' = ops \ {o}, UNCHANGED job, o.answer # "none"
      PROVE  LoneInv'
  BY <1>3, <1>4, <1>7 DEF LoneInv
<1>8. CASE Begins(o)
  <2>1. ~o.holds /\ UNCHANGED job
    BY <1>8 DEF Begins
  <2>2. {p \in ops : p.holds /\ p.by = o.by /\ p.kind = o.kind} = {}
    BY <1>4, <2>1
  <2>3. Becomes(o, [o EXCEPT !.holds = TRUE])
    BY <1>8, <2>2 DEF Begins
  <2>4. /\ [o EXCEPT !.holds = TRUE].kind = o.kind /\ [o EXCEPT !.holds = TRUE].copy = o.copy
        /\ [o EXCEPT !.holds = TRUE].answer = o.answer
    BY <1>5 DEF Commands
  <2> QED BY <1>6, <2>1, <2>3, <2>4
<1>9. CASE Succeeds(o)
  <2>1. PICK p \in Commands :
            /\ Becomes(o, p) /\ p.kind = o.kind /\ p.done = o.done + 1
            /\ p.copy = IF Calls[o.kind][o.done + 1] = Info THEN Spec(job) ELSE o.copy
            /\ p.answer = IF p.done = Len(Calls[o.kind]) THEN "success" ELSE "none"
    BY <1>9, AfterCall
  <2>2. ops' = {p} /\ wanted' = ToLeave(o)
    BY <1>3, <1>4, <1>9, <2>1 DEF Becomes, Succeeds, Busy
  <2>3. CASE o.done + 1 = Len(Calls[o.kind])
    <3>1. Spec(job') = ToLeave(o)
      BY <1>9, <2>3, LastCallLeaves
    <3> QED BY <2>1, <2>2, <2>3, <3>1 DEF LoneInv
  <2>4. CASE o.done + 1 # Len(Calls[o.kind])
    <3>1. o.copy = None => o.kind \in Readers /\ o.done = 0
      <4>1. /\ o.done \in Nat /\ Len(Calls[o.kind]) \in Nat /\ o.done < Len(Calls[o.kind])
            /\ o.kind \in {"stop", "evaluate"} => Len(Calls[o.kind]) = 1
        BY <1>5, <1>9, CallsInOrder DEF HasItsCopy, Commands, Succeeds, Busy
      <4>2. o.kind \notin {"stop", "evaluate"}
        <5>1. \A d, l \in Nat : d < l /\ l = 1 => d + 1 = l
          OBVIOUS
        <5> QED BY <2>4, <4>1, <5>1, Zenon
      <4> QED BY <1>5, <4>2 DEF HasItsCopy
    <3>2. Calls[o.kind][o.done + 1] = Info <=> o.copy = None
      <4>1. o.done + 1 \in 1..Len(Calls[o.kind])
        BY <1>5, <1>9, CallsInOrder DEF HasItsCopy, Commands, Succeeds, Busy
      <4>2. Calls[o.kind][o.done + 1] = Info <=> o.kind \in Readers /\ o.done = 0
        BY <1>5, <4>1, CallsInOrder DEF Commands
      <4> QED BY <1>5, <3>1, <4>2 DEF HasItsCopy
    <3>3. p.copy = IF o.copy = None THEN Spec(job) ELSE o.copy
      BY <2>1, <3>2
    <3>4. p.copy # None
      BY <3>3, NoneIsNoCopy DEF CommandsInv, Spec, Specs
    <3>5. wanted' = Outcome(p.kind, p.copy)
      BY <2>1, <2>2, <3>3 DEF ToLeave
    <3>6. p.answer = "none"
      BY <2>1, <2>4
    <3> QED BY <2>2, <3>4, <3>5, <3>6 DEF LoneInv, ToLeave
  <2> QED BY <2>3, <2>4
<1>10. CASE Leaves(o)
  <2>1. UNCHANGED job /\ o.answer # "none"
    BY <1>10 DEF Leaves
  <2>2. /\ [o EXCEPT !.holds = FALSE].kind = o.kind /\ [o EXCEPT !.holds = FALSE].copy = o.copy
        /\ [o EXCEPT !.holds = FALSE].answer = o.answer
    BY <1>5 DEF Commands
  <2>3. ops' = ops \ {o} \/ Becomes(o, [o EXCEPT !.holds = FALSE])
    BY <1>10 DEF Leaves
  <2> QED BY <1>6, <1>7, <2>1, <2>2, <2>3
<1>11. CASE NoteArrives(o)
  <2>1. UNCHANGED job /\ o.answer # "none"
    BY <1>11 DEF NoteArrives
  <2>2. /\ [o EXCEPT !.answer = "seen"].kind = o.kind /\ [o EXCEPT !.answer = "seen"].copy = o.copy
        /\ [o EXCEPT !.answer = "seen"].answer = "seen"
    BY <1>5 DEF Commands
  <2>3. ops' = ops \ {o} \/ Becomes(o, [o EXCEPT !.answer = "seen"])
    BY <1>11 DEF NoteArrives
  <2> QED BY <1>6, <1>7, <2>1, <2>2, <2>3
<1> QED BY <1>2, <1>8, <1>9, <1>10, <1>11

LEMMA StepIsLone == JobOpsInv /\ [JobOpsNext]_vars => LoneInv'
<1> SUFFICES ASSUME JobOpsInv, [JobOpsNext]_vars PROVE LoneInv'
  OBVIOUS
<1>1. ASSUME UNCHANGED <<job, ops, wanted>> PROVE LoneInv'
  BY <1>1 DEF JobOpsInv, LoneInv, ToLeave
<1>2. ASSUME NEW b \in Users, NEW kind \in Kinds, Click(b, kind) PROVE LoneInv'
  BY <1>2, GiveIsLone DEF Click
<1>3. ASSUME NEW b \in Users, ConfirmStop(b) \/ handleSubmit(b) PROVE LoneInv'
  BY <1>3, GiveIsLone DEF ConfirmStop, handleSubmit
<1>4. ASSUME NEW b \in Users,
             \/ \E dlg \in {"edit", "stop"} : OpenDialog(b, dlg)
             \/ handleCancel(b) \/ JobArrives(b)
             \/ \E which \in DOMAIN NoNote : NoteHides(b, which)
      PROVE  LoneInv'
  BY <1>1, <1>4 DEF OpenDialog, handleCancel, JobArrives, NoteHides
<1>5. CASE ChangesElsewhere
  BY <1>5 DEF ChangesElsewhere, LoneInv
<1>6. ASSUME NEW o \in ops,
             Begins(o) \/ Succeeds(o) \/ Fails(o) \/ Leaves(o) \/ NoteArrives(o)
      PROVE  LoneInv'
  BY <1>6, CommandStepIsLone DEF JobOpsInv
<1>7. CASE UNCHANGED vars
  BY <1>1, <1>7 DEF vars
<1> QED BY <1>2, <1>3, <1>4, <1>5, <1>6, <1>7 DEF JobOpsNext

LEMMA StepKeeps == JobOpsInv /\ [JobOpsNext]_vars => CommandsInv' /\ EditorsKept
<1> SUFFICES ASSUME JobOpsInv, [JobOpsNext]_vars PROVE CommandsInv' /\ EditorsKept
  OBVIOUS
<1>1. ASSUME NEW b \in Users,
             \/ \E kind \in Kinds : Click(b, kind)
             \/ \E dlg \in {"edit", "stop"} : OpenDialog(b, dlg)
             \/ handleCancel(b) \/ ConfirmStop(b) \/ JobArrives(b)
             \/ \E which \in DOMAIN NoNote : NoteHides(b, which)
      PROVE  CommandsInv' /\ EditorsKept
  BY <1>1, UserStepKeeps
<1>2. ASSUME NEW b \in Users, handleSubmit(b) PROVE CommandsInv' /\ EditorsKept
  BY <1>2, SubmitKeeps
<1>3. CASE ChangesElsewhere
  <2>1. CommandsInv' /\ EditorInv'
    BY <1>3, ElsewhereKeeps
  <2>2. UNCHANGED <<uiVars, ops, refused>>
    BY <1>3 DEF ChangesElsewhere
  <2>3. (WarnsWhenStale => WarnsWhenStale') /\ (NeverStuck => NeverStuck')
    BY <2>2 DEF WarnsWhenStale, NeverStuck, uiVars
  <2> QED BY <2>1, <2>3 DEF EditorsKept
<1>4. ASSUME NEW o \in ops,
             Begins(o) \/ Succeeds(o) \/ Fails(o) \/ Leaves(o) \/ NoteArrives(o)
      PROVE  CommandsInv' /\ EditorsKept
  BY <1>4, CommandStepKeeps, CommandStepKeepsEditors DEF JobOpsInv
<1>5. CASE UNCHANGED vars
  <2>1. /\ job' = job /\ seen' = seen /\ dialog' = dialog /\ editor' = editor
        /\ note' = note /\ ops' = ops /\ refused' = refused
    BY <1>5 DEF vars, uiVars
  <2>2. CommandsInv'
    BY <2>1 DEF JobOpsInv, CommandsInv, HasItsCopy
  <2>3. EditorsKept
    BY <2>1 DEF EditorsKept, JobOpsInv, EditorInv, WarnsWhenStale, NeverStuck
  <2> QED BY <2>2, <2>3
<1> QED BY <1>1, <1>2, <1>3, <1>4, <1>5 DEF JobOpsNext

LEMMA JobOpsInvariant == JobOpsSpec => []JobOpsInv
<1>1. JobOpsInv /\ [JobOpsNext]_vars => JobOpsInv'
  BY StepKeeps, StepIsLone DEF JobOpsInv, EditorsKept
<1> QED BY <1>1, JobOpsInitInv, PTL DEF JobOpsSpec

(* The state of Nomad's job, of the browsers and of the commands keeps its *)
(* types: no call ever leaves a negative count, no command makes a call it *)
(* does not have, and an editor exists exactly while a dialog is open.     *)
THEOREM JobOpsTypeCorrect == JobOpsSpec => []JobOpsTypeOK
<1>1. JobOpsInv => JobOpsTypeOK
  <2> SUFFICES ASSUME JobOpsInv PROVE JobOpsTypeOK
    OBVIOUS
  <2>1. job.count \in Nat /\ job.stopped \in BOOLEAN /\ job.index \in Nat \ {0}
    BY DEF JobOpsInv, CommandsInv
  <2>2. Cardinality(ops) <= MaxOps /\ refused \subseteq Users
    BY DEF JobOpsInv, CommandsInv, EditorInv
  <2>3. ASSUME NEW o \in ops
        PROVE  /\ o.by \in Users /\ o.kind \in Kinds
               /\ o.done \in 0..Len(Calls[o.kind])
               /\ o.answer \in {"none", "success", "error", "seen"} /\ o.holds \in BOOLEAN
    <3>1. o \in Commands /\ HasItsCopy(o)
      BY DEF JobOpsInv, CommandsInv
    <3> QED BY <3>1, CallsInOrder DEF Commands, HasItsCopy, Answers
  <2>4. ASSUME NEW b \in Users
        PROVE  /\ seen[b] \in 1..job.index /\ dialog[b] \in {"", "edit", "stop"}
               /\ dialog[b] = "" <=> editor[b] = Pristine
               /\ dialog[b] = "edit" \/ ~editor[b].submitting
    <3>1. Pristine.base = None
      BY DEF Pristine
    <3> QED BY <3>1, SeenIsNat DEF JobOpsInv, EditorInv
  <2> QED BY <2>1, <2>2, <2>3, <2>4 DEF JobOpsTypeOK
<1> QED BY <1>1, JobOpsInvariant, PTL

(* A command that runs alone does what it is called for, or an error was   *)
(* told: for any counts, and wherever the calls of the command are.        *)
THEOREM CommandsDoOrTell == JobOpsSpec => []DoneOrTold
<1>1. JobOpsInv => DoneOrTold
  BY DEF JobOpsInv, LoneInv, DoneOrTold
<1> QED BY <1>1, JobOpsInvariant, PTL

(* An editor that accepts a submission shows the job of the store, or an   *)
(* error is on the screen.                                                 *)
THEOREM EditorsWarnWhenStale == JobOpsSpec => []WarnsWhenStale
<1>1. JobOpsInit => WarnsWhenStale
  BY DEF JobOpsInit, WarnsWhenStale
<1>2. JobOpsInv /\ WarnsWhenStale /\ [JobOpsNext]_vars => WarnsWhenStale'
  BY StepKeeps DEF EditorsKept
<1> QED BY <1>1, <1>2, JobOpsInvariant, PTL DEF JobOpsSpec

(* An editor that waits has a submission that will be answered, unless its *)
(* submission met the end of the one before in the table.                  *)
THEOREM EditorsAreAnswered == JobOpsSpec => []NeverStuck
<1>1. JobOpsInit => NeverStuck
  <2>1. ~Pristine.submitting
    BY DEF Pristine
  <2>2. JobOpsInit => \A b \in Users : editor[b] = Pristine
    BY DEF JobOpsInit
  <2> QED BY <2>1, <2>2 DEF NeverStuck
<1>2. JobOpsInv /\ NeverStuck /\ [JobOpsNext]_vars => NeverStuck'
  BY StepKeeps DEF EditorsKept
<1> QED BY <1>1, <1>2, JobOpsInvariant, PTL DEF JobOpsSpec
=============================================================================
