------------------------------ MODULE MCTools ------------------------------
(***************************************************************************)
(* The project's tools that change shared state: the review sweep          *)
(* (ReviewCloseout), the audit tracker (AuditSync) and the revalidation    *)
(* release (Revalidation), with two slots out of one run, the first also   *)
(* out of a legacy run that the finalization reports itself.  The tools    *)
(* do not meet: which of them is used is chosen at the start, and the      *)
(* others stay in a first state.                                           *)
(***************************************************************************)
EXTENDS ReviewCloseout

CONSTANTS
    Foundation, Keys, Commands, Faults, AuditEdits, Absent,         \* of AuditSync
    Runs, Slots, Candidates, Required, Measurements, Kills, None    \* of Revalidation

VARIABLES
    tool,           \* "closeout", "audit" or "release"
    \* of AuditSync
    foundation, auditIssues, content, project, registry, command, numbers, faults,
    auditEdits, clean,
    \* of Revalidation
    run, measured, build, out, archive, kills

Audit == INSTANCE AuditSync WITH
    issues <- auditIssues, edits <- auditEdits, Edits <- AuditEdits

(* The runs a slot is taken from, and how often each may be measured. *)
MCCandidates == << <<"current", "legacy">>, <<"current">> >>
MCMeasurements == [r \in Runs |-> IF r = "current" THEN 2 ELSE 1]

Release == INSTANCE Revalidation

ASSUME AuditAssumption == Audit!KeysAssumption
ASSUME ReleaseAssumption ==
    /\ Release!SlotsAssumption /\ Release!CandidatesAssumption /\ Release!RequiredAssumption
    /\ Release!BoundsAssumption /\ Release!NoneAssumption

ofAudit == <<foundation, auditIssues, content, project, registry, command, numbers,
             faults, auditEdits, clean>>
ofRelease == <<run, measured, build, out, archive, kills>>
all == <<tool, vars, ofAudit, ofRelease>>

CloseoutAtRest == Init /\ urgent = {} /\ batch = FALSE
AuditAtRest == Audit!Init /\ foundation = [f \in Foundation |-> Absent]

MCInit ==
    /\ Release!Init
    /\ \/ tool = "closeout" /\ Init /\ AuditAtRest
       \/ tool = "audit" /\ Audit!Init /\ CloseoutAtRest
       \/ tool = "release" /\ CloseoutAtRest /\ AuditAtRest

CloseoutStep == tool = "closeout" /\ Next /\ UNCHANGED <<tool, ofAudit, ofRelease>>
AuditStep == tool = "audit" /\ Audit!Next /\ UNCHANGED <<tool, vars, ofRelease>>
ReleaseStep == tool = "release" /\ Release!Next /\ UNCHANGED <<tool, vars, ofAudit>>

MCNext == CloseoutStep \/ AuditStep \/ ReleaseStep

(* The fairness of the three specifications, each for the tool that is used. *)
MCFairness ==
    /\ WF_vars(tool = "closeout" /\ Begin) /\ WF_vars(tool = "closeout" /\ Sweep)
    /\ \A c \in Commands :
          /\ WF_ofAudit(tool = "audit" /\ Audit!Step(c))
          /\ SF_ofAudit(tool = "audit" /\ Audit!Begin(c, "apply"))
    /\ WF_ofRelease(tool = "release" /\ Release!Start)
    /\ WF_ofRelease(tool = "release" /\ Release!Builder)
    /\ \A r \in Runs : WF_ofRelease(tool = "release" /\ Release!Report(r))

MCSpec == MCInit /\ [][MCNext]_all /\ MCFairness

-----------------------------------------------------------------------------
(* Properties, beside those of ReviewCloseout *)

(* The type invariants of the three. *)
MCTypeOK == TypeOK /\ Audit!TypeOK /\ Release!TypeOK

(* Whatever answers are lost and however often a command is repeated, nothing
   is done twice: no second issue or reply for a review thread
   (review_closeout.py), and no second issue for an audit finding
   (audit_github.py), whose number the registry has. *)
NothingTwice ==
    OneIssuePerThread /\ OneReplyPerThread /\ Audit!OneIssuePerKey /\ Audit!NumbersAreRight

(* A sweep that is broken anywhere leaves what the next one can take up: what
   it resolved is answered, what says it is closed is linked, and a state that
   sweeps refuse takes a person's change. *)
BrokenSweepIsTakenUp == ResolvedIsAnswered /\ ClosedIsLinked /\ OnlyPeopleObstruct

(* Whenever the audit tracker writes the registry and nobody has edited since
   it began, everything on the service is as declared. *)
AuditWritesWhatIs == Audit!WritesWhatIs

(* When calls stop failing and people stop editing, the sweep settles every
   thread that is due or is obstructed by what people did, and the audit
   tracker reaches what is declared or a verified registry. *)
BothConverge ==
    /\ tool = "closeout" => Converges
    /\ tool = "audit" => Audit!Converges

(* What is packaged is complete, with its digests and claims those of the
   documents packaged with it, although others report the runs meanwhile; a
   row that is not complete says why. *)
ArchiveIsFounded ==
    /\ Release!ArchivedDigestsMatch /\ Release!ArchiveIsComplete
    /\ Release!ClaimsOfThisBuild /\ Release!IncompleteIsExplained

(* Once every slot has a complete candidate, for good, the release is made. *)
EventuallyPackaged == tool = "release" => Release!EventuallyPackaged

=============================================================================
