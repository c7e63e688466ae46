----------------------------- MODULE AuditSync ------------------------------
(***************************************************************************)
(* The strict-audit tracker: audit_tracker.py apply and verify, over the   *)
(* REST client and the plans of audit_github.py and the evidence of        *)
(* audit_project.py.  A registry in the repository declares labels,        *)
(* milestones and issues; a command reads what the hosting service has,    *)
(* plans the differences, applies them and writes what it reached into     *)
(* the registry.  Replies get lost, commands are killed, and people edit.  *)
(*                                                                         *)
(* Labels and milestones are the foundation: issues are planned only when  *)
(* nothing of it differs.  The content of a label, a milestone or an issue *)
(* is as declared ("same") or not ("other"); nobody deletes an issue.      *)
(* Issue #236, which is there before and only gets labels, is left out.    *)
(***************************************************************************)
EXTENDS Naturals

CONSTANTS
    Foundation,     \* the declared labels and milestones
    Keys,           \* the declared issues, by the marker in their body
    Commands,       \* commands that may run at the same time
    Faults,         \* calls that may fail or stay unanswered, and kills (bound)
    Edits,          \* changes people may make to what is synchronized (bound)
    Absent

KeysAssumption == Foundation \cap Keys = {}

VARIABLES
    foundation,     \* foundation[f]: the content of a label or milestone
    issues,         \* issues[k]: the numbers of the issues with marker k
    content,        \* content[k]: the content of these issues
    project,        \* project[k]: the number the project board and the hierarchy have for k
    registry,       \* the audit registry: sync_state, issue numbers, verified views
    command,        \* command[c]: what a command knows
    numbers,        \* the number of issues there have been
    faults, edits,
    clean           \* clean[c]: history, nobody edited since command c began

live == <<foundation, issues, content, numbers>>
vars == <<live, project, registry, command, faults, edits, clean>>

Idle == [pc |-> "idle"]
States == {"PLANNED", "APPLIED", "VERIFIED"}

Init ==
    /\ foundation \in [Foundation -> {Absent, "other"}]
    /\ issues = [k \in Keys |-> {}] /\ content = [k \in Keys |-> "other"]
    /\ project = [k \in Keys |-> 0]
    /\ registry = [sync_state |-> "PLANNED", numbers |-> [k \in Keys |-> 0], views |-> FALSE]
    /\ command = [c \in Commands |-> Idle]
    /\ numbers = 0 /\ faults = 0 /\ edits = 0
    /\ clean = [c \in Commands |-> TRUE]

-----------------------------------------------------------------------------
(* Commands *)

At(c, pc) == command[c].pc = pc
Update(c, record) == command' = [command EXCEPT ![c] = record]
Goto(c, pc) == Update(c, [command[c] EXCEPT !.pc = pc])
End(c) == Update(c, Idle)

(* The registry is loaded once; apply and verify start by reading. *)
Begin(c, kind) ==
    /\ At(c, "idle")
    /\ Update(c, [pc |-> "read", kind |-> kind, phase |-> 1, key |-> Absent,
                  loaded |-> registry, plan |-> {}, seen |-> Absent])
    /\ clean' = [clean EXCEPT ![c] = TRUE]
    /\ UNCHANGED <<live, project, registry, faults, edits>>

(* read_live: the issues, and later the labels and milestones.  Two issues
   with one marker end the command. *)
ReadIssues(c) ==
    /\ At(c, "read")
    /\ IF \E k \in Keys : \E m, n \in issues[k] : m # n THEN End(c)
       ELSE Update(c, [command[c] EXCEPT !.pc = "read foundation",
                                         !.seen = [issues |-> issues, content |-> content]])
    /\ UNCHANGED <<live, project, registry, faults, edits, clean>>

(* build_plan *)
Plan(c) ==
    LET differs == {f \in Foundation : foundation[f] # "same"} IN
    IF differs # {} THEN differs
    ELSE {k \in Keys : command[c].seen.issues[k] = {} \/ command[c].seen.content[k] # "same"}

SeenNumber(c, k) == CHOOSE n \in command[c].seen.issues[k] : TRUE

(* A verified synchronization is not repaired, and nothing is left to apply
   in the third round. *)
ReadFoundation(c) ==
    /\ At(c, "read foundation") /\ command[c].key = Absent
    /\ LET plan == Plan(c)
           missing == \E k \in Keys : command[c].seen.issues[k] = {}
           next == [command[c] EXCEPT !.plan = plan]
       IN  CASE command[c].kind = "verify" ->
                   IF missing THEN End(c) ELSE Update(c, [next EXCEPT !.pc = "project"])
             [] command[c].kind = "record" ->
                   IF missing THEN End(c) ELSE Update(c, [next EXCEPT !.pc = "write"])
             [] command[c].kind = "apply" ->
                   IF plan = {} THEN Update(c, [next EXCEPT !.kind = "record", !.pc = "read"])
                   ELSE IF command[c].loaded.sync_state = "VERIFIED" THEN End(c)
                   ELSE Update(c, [next EXCEPT !.pc = "apply"])
    /\ UNCHANGED <<live, project, registry, faults, edits, clean>>

(* What a POST or PATCH does; a label cannot be created twice. *)
Effect(c, k) ==
    IF k \in Foundation
    THEN /\ foundation' = [foundation EXCEPT ![k] = "same"]
         /\ UNCHANGED <<issues, content, numbers>>
    ELSE /\ IF command[c].seen.issues[k] = {}
            THEN issues' = [issues EXCEPT ![k] = @ \cup {numbers + 1}] /\ numbers' = numbers + 1
            ELSE UNCHANGED <<issues, numbers>>
         /\ content' = [content EXCEPT ![k] = "same"]
         /\ UNCHANGED foundation

Mutate(c) ==
    /\ At(c, "apply")
    /\ \E k \in command[c].plan :
          /\ Effect(c, k)
          /\ Update(c, [command[c] EXCEPT !.plan = @ \ {k}])
    /\ UNCHANGED <<project, registry, faults, edits, clean>>

\* A bug: a mutation whose answer was lost is simply tried again.
MutateLostRetries(c) ==
    /\ At(c, "apply") /\ faults < Faults
    /\ faults' = faults + 1
    /\ \E k \in command[c].plan : Effect(c, k) \/ UNCHANGED live
    /\ UNCHANGED <<command, project, registry, edits, clean>>

(* A mutation is made or not, and its answer does not come: what is there is
   read again. *)
MutateLost(c) ==
    /\ At(c, "apply") /\ faults < Faults
    /\ faults' = faults + 1
    /\ \E k \in command[c].plan :
          /\ Effect(c, k) \/ UNCHANGED live
          /\ Update(c, [command[c] EXCEPT !.pc = "read", !.key = k])
    /\ UNCHANGED <<project, registry, edits, clean>>

(* The command goes on with the rest of its plan when the mutation is no
   longer planned, and ends otherwise. *)
Recheck(c) ==
    /\ At(c, "read foundation") /\ command[c].key # Absent
    /\ IF command[c].key \in Plan(c) THEN End(c)
       ELSE Update(c, [command[c] EXCEPT !.pc = "apply", !.key = Absent,
                                         !.plan = @ \ {command[c].key}])
    /\ UNCHANGED <<live, project, registry, faults, edits, clean>>

\* A bug: a plan that was applied is not read back.
NextPhaseTrusts(c) ==
    /\ At(c, "apply") /\ command[c].plan = {}
    /\ Update(c, [command[c] EXCEPT !.pc = "read", !.kind = "record"])
    /\ UNCHANGED <<live, project, registry, faults, edits, clean>>

(* After the plan everything is read and planned again, three times at most. *)
NextPhase(c) ==
    /\ At(c, "apply") /\ command[c].plan = {}
    /\ IF command[c].phase = 3 THEN End(c)
       ELSE Update(c, [command[c] EXCEPT !.pc = "read", !.phase = @ + 1])
    /\ UNCHANGED <<live, project, registry, faults, edits, clean>>

(* synchronized_registry: the loaded registry with the state reached and the
   numbers just read. *)
Write(c, state) ==
    registry' = [command[c].loaded EXCEPT !.sync_state = state,
                                          !.numbers = [k \in Keys |-> SeenNumber(c, k)]]

WriteApplied(c) ==
    /\ At(c, "write")
    /\ Write(c, IF command[c].loaded.sync_state = "VERIFIED" THEN "VERIFIED" ELSE "APPLIED")
    /\ End(c)
    /\ UNCHANGED <<live, project, faults, edits, clean>>

(* read_project and verify_hierarchy: every issue is where it belongs. *)
OnBoard(c) == \A k \in Keys : project[k] = SeenNumber(c, k)

ReadProject(c) ==
    /\ At(c, "project")
    /\ IF OnBoard(c) THEN Goto(c, "verify") ELSE End(c)
    /\ UNCHANGED <<live, project, registry, faults, edits, clean>>

(* verify: nothing to apply, views verified, and APPLIED before. *)
MayVerify(c) ==
    /\ command[c].plan = {} /\ command[c].loaded.views
    /\ command[c].loaded.sync_state \in {"APPLIED", "VERIFIED"}

Verify(c) ==
    /\ At(c, "verify")
    /\ IF MayVerify(c) THEN Write(c, "VERIFIED") ELSE UNCHANGED registry
    /\ End(c)
    /\ UNCHANGED <<live, project, faults, edits, clean>>

(* A read fails for good, or the command is killed. *)
Kill(c) ==
    /\ ~ At(c, "idle") /\ faults < Faults
    /\ faults' = faults + 1
    /\ End(c)
    /\ UNCHANGED <<live, project, registry, edits, clean>>

-----------------------------------------------------------------------------
(* People *)

(* Somebody changes what is synchronized. *)
Edit ==
    /\ edits < Edits /\ edits' = edits + 1
    /\ clean' = [c \in Commands |-> FALSE]
    /\ \/ \E f \in Foundation : /\ foundation[f] # Absent
                             /\ foundation' = [foundation EXCEPT ![f] = "other"]
                             /\ UNCHANGED content
       \/ \E k \in Keys : /\ issues[k] # {}
                          /\ content' = [content EXCEPT ![k] = "other"]
                          /\ UNCHANGED foundation
    /\ UNCHANGED <<issues, numbers, project, registry, command, faults>>

(* The board is filled by hand, and the views are verified by hand. *)
Place(k) ==
    /\ project[k] = 0 /\ issues[k] # {}
    /\ project' = [project EXCEPT ![k] = CHOOSE n \in issues[k] : TRUE]
    /\ UNCHANGED <<live, registry, command, faults, edits, clean>>

SetViews ==
    /\ ~ registry.views /\ \A c \in Commands : At(c, "idle")
    /\ registry' = [registry EXCEPT !.views = TRUE]
    /\ UNCHANGED <<live, project, command, faults, edits, clean>>

Step(c) ==
    \/ ReadIssues(c) \/ ReadFoundation(c) \/ Mutate(c) \/ MutateLost(c) \/ Recheck(c)
    \/ NextPhase(c) \/ WriteApplied(c) \/ ReadProject(c) \/ Verify(c)

Next ==
    \/ \E c \in Commands :
          (\E kind \in {"apply", "verify"} : Begin(c, kind)) \/ Step(c) \/ Kill(c)
    \/ Edit \/ (\E k \in Keys : Place(k)) \/ SetViews

Spec == Init /\ [][Next]_vars

(* A command goes on, and apply is called again and again. *)
FairSpec ==
    /\ Spec
    /\ \A c \in Commands : WF_vars(Step(c)) /\ SF_vars(Begin(c, "apply"))

-----------------------------------------------------------------------------
(* Properties *)

InSync == /\ \A f \in Foundation : foundation[f] = "same"
          /\ \A k \in Keys : issues[k] # {} /\ content[k] = "same"

(* The shape of the state. *)
TypeOK ==
    /\ foundation \in [Foundation -> {Absent, "same", "other"}]
    /\ content \in [Keys -> {"same", "other"}]
    /\ \A k \in Keys : issues[k] \subseteq 1..numbers /\ project[k] \in 0..numbers
    /\ registry.sync_state \in States
    /\ \A c \in Commands : ~ At(c, "idle") => /\ command[c].phase \in 1..3
                                              /\ command[c].plan \subseteq Foundation \cup Keys

(* No finding gets a second issue, whatever answers are lost and however often
   the command is repeated. *)
OneIssuePerKey == \A k \in Keys : \A m, n \in issues[k] : m = n

(* A registry beyond PLANNED names the issue of every finding, as
   validate_registry demands of it. *)
NumbersAreRight ==
    IF registry.sync_state = "PLANNED" THEN registry.numbers = [k \in Keys |-> 0]
    ELSE \A k \in Keys : issues[k] = {registry.numbers[k]}

(* Whenever a command writes the registry and nobody has edited since it
   began, everything is as declared; and for VERIFIED on the board as well. *)
WritesWhatIs ==
    [][registry'.numbers # registry.numbers \/ registry'.sync_state # registry.sync_state =>
          \/ \E c \in Commands : command'[c] # command[c] /\ ~ clean[c]
          \/ /\ InSync
             /\ registry'.sync_state = "VERIFIED" =>
                   \A k \in Keys : project[k] = registry'.numbers[k]]_vars

MayFollow(s, t) ==
    s = t \/ (s = "PLANNED" /\ t = "APPLIED") \/ (s = "APPLIED" /\ t = "VERIFIED")

(* The state of the synchronization only moves PLANNED, APPLIED, VERIFIED
   (audit_github.py:21-23). *)
SyncForward ==
    [][MayFollow(registry.sync_state, registry'.sync_state)]_vars

(* When people stop editing and calls stop failing, everything becomes as
   declared, unless it drifted after it was verified. *)
Converges == <>[](InSync \/ registry.sync_state = "VERIFIED")

=============================================================================
