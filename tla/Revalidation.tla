---------------------------- MODULE Revalidation ----------------------------
(***************************************************************************)
(* The revalidation release: finalize_revalidation.sh reports the required *)
(* runs, builds one aggregate out of the evidence of many runs             *)
(* (build_revalidation_aggregate.py), and packages it when every pair is   *)
(* complete (release.py, the parts about aggregates).  Meanwhile runs are  *)
(* measured and reported by other commands, and the finalization may be    *)
(* killed anywhere and started again.                                      *)
(*                                                                         *)
(* A slot is a pair on a data set.  A document of a run is told apart by   *)
(* the measurement it belongs to and by its state; a digest is the         *)
(* document it was computed from.                                          *)
(***************************************************************************)
EXTENDS Naturals, Sequences

CONSTANTS
    Runs,
    Slots,          \* the number of slots, in the order of the aggregate
    Candidates,     \* Candidates[k]: the runs slot k may be taken from, in order
    Required,       \* the runs that are reported first
    Measurements,   \* Measurements[r]: how often a run may be measured (bound)
    Kills,          \* how often a finalization may be killed (bound)
    None

SlotsAssumption == Slots \in Nat
CandidatesAssumption == Candidates \in [1..Slots -> Seq(Runs)]
RequiredAssumption == Required \subseteq Runs
BoundsAssumption == Measurements \in [Runs -> Nat] /\ Kills \in Nat

(* The documents of a run, and that None is none of them. *)
DocumentStates == {"BENCHMARKED", "REPORTED"}
Outcomes == [status : {"MEASURED", "PARTIAL"}, verdicts : SUBSET (1..Slots)]
Manifests == [of : Nat, state : DocumentStates]
Results == [of : Nat, state : DocumentStates, outcome : Outcomes]

NoneAssumption == /\ None \notin Runs /\ None \notin {"incomplete", "no run"}
                  /\ None \notin Manifests /\ None \notin Results

VARIABLES
    run,            \* run[r]: the documents of a run
    measured,       \* measured[r]: how often it was measured
    build,          \* the finalization under way
    out,            \* the aggregate's directory
    archive,        \* the packaged aggregate
    kills

vars == <<run, measured, build, out, archive, kills>>

Empty == [claims |-> [k \in {} |-> None], results |-> None, report |-> "absent", sums |-> {}]
Idle == [pc |-> "idle", slot |-> 1, chosen |-> None, why |-> None, loaded |-> None,
         hashed |-> None, rows |-> << >>]

Init ==
    /\ run = [r \in Runs |-> [manifest |-> None, results |-> None]]
    /\ measured = [r \in Runs |-> 0]
    /\ build = Idle /\ out = Empty /\ archive = None /\ kills = 0

-----------------------------------------------------------------------------
(* The runs *)

Slot == 1..Slots
Document(r, state, outcome) == [of |-> measured[r], state |-> state, outcome |-> outcome]

(* A run is measured, or measured again after it was removed, while nothing
   is finalized: the manifest is there before the results. *)
Measure(r) ==
    /\ build.pc = "idle" /\ measured[r] < Measurements[r]
    /\ measured' = [measured EXCEPT ![r] = @ + 1]
    /\ run' = [run EXCEPT ![r] =
          [manifest |-> [of |-> measured[r] + 1, state |-> "BENCHMARKED"], results |-> None]]
    /\ UNCHANGED <<build, out, archive, kills>>

(* Some pairs have a verdict; the run as a whole is MEASURED or only PARTIAL. *)
FinishRun(r) ==
    /\ run[r].manifest # None /\ run[r].results = None
    /\ \E status \in {"MEASURED", "PARTIAL"},
          verdicts \in SUBSET {k \in Slot : \E i \in DOMAIN Candidates[k] : Candidates[k][i] = r} :
          run' = [run EXCEPT ![r].results =
                    Document(r, "BENCHMARKED", [status |-> status, verdicts |-> verdicts])]
    /\ UNCHANGED <<measured, build, out, archive, kills>>

(* render_report, by anybody: the manifest first, then the results. *)
Report(r) ==
    /\ run[r].results # None
    /\ \/ run[r].manifest.state = "BENCHMARKED"
          /\ run' = [run EXCEPT ![r].manifest.state = "REPORTED"]
       \/ run[r].manifest.state = "REPORTED" /\ run[r].results.state = "BENCHMARKED"
          /\ run' = [run EXCEPT ![r].results.state = "REPORTED"]
    /\ UNCHANGED <<measured, build, out, archive, kills>>

-----------------------------------------------------------------------------
(* The aggregate *)

Reported(r) == run[r].results # None /\ run[r].results.state = "REPORTED"

(* The required runs have been reported, one after the other (set -e). *)
Start ==
    /\ build.pc = "idle" /\ archive = None
    /\ \A r \in Required : Reported(r)
    /\ build' = [Idle EXCEPT !.pc = "reset"]
    /\ UNCHANGED <<run, measured, out, archive, kills>>

Goto(pc) == build' = [build EXCEPT !.pc = pc]

(* reset_generated_output: the aggregate of an earlier build is removed. *)
Reset ==
    /\ build.pc = "reset"
    /\ out' = Empty
    /\ Goto("choose")
    /\ UNCHANGED <<run, measured, archive, kills>>

(* pair_measurement_complete *)
Complete(results, k) ==
    results.outcome.status = "MEASURED" /\ k \in results.outcome.verdicts

Readable(r) == run[r].manifest # None /\ run[r].results # None

(* The candidates of slot k that have documents, and the first among some. *)
Found(k) == {i \in DOMAIN Candidates[k] : Readable(Candidates[k][i])}

FirstOf(k, places) == Candidates[k][CHOOSE i \in places : \A j \in places : i <= j]

\* A bug: only the first run with documents is looked at.
ChooseFirst(k) ==
    IF Found(k) = {} THEN [chosen |-> None, why |-> "no run"]
    ELSE [chosen |-> FirstOf(k, Found(k)), why |-> "incomplete"]

(* choose_run: the first complete candidate, else the first with documents. *)
Choose(k) ==
    LET complete == {i \in Found(k) : Complete(run[Candidates[k][i]].results, k)} IN
    IF complete # {} THEN [chosen |-> FirstOf(k, complete), why |-> None]
    ELSE IF Found(k) # {} THEN [chosen |-> FirstOf(k, Found(k)), why |-> "incomplete"]
    ELSE [chosen |-> None, why |-> "no run"]

AddRow(row) ==
    build' = [build EXCEPT !.pc = "choose", !.slot = @ + 1, !.rows = Append(@, row)]

(* A slot without a run gets its row at once. *)
ChooseRun ==
    /\ build.pc = "choose" /\ build.slot <= Slots
    /\ LET c == Choose(build.slot) IN
       IF c.chosen = None
       THEN AddRow([state |-> "INCOMPLETE", why |-> c.why, source |-> None, digests |-> None])
       ELSE build' = [build EXCEPT !.pc = "load", !.chosen = c.chosen, !.why = c.why]
    /\ UNCHANGED <<run, measured, out, archive, kills>>

(* The documents are read a second time. *)
Load ==
    /\ build.pc = "load"
    /\ build' = [build EXCEPT !.pc = "copy manifest", !.loaded = run[build.chosen].results]
    /\ UNCHANGED <<run, measured, out, archive, kills>>

CopyManifest ==
    /\ build.pc = "copy manifest"
    /\ out' = [out EXCEPT !.claims =
          [k \in DOMAIN @ \cup {build.slot} |->
              IF k = build.slot THEN [manifest |-> run[build.chosen].manifest, results |-> None]
              ELSE @[k]]]
    /\ Goto("copy results")
    /\ UNCHANGED <<run, measured, archive, kills>>

CopyResults ==
    /\ build.pc = "copy results"
    /\ out' = [out EXCEPT !.claims[build.slot].results = run[build.chosen].results]
    /\ Goto("hash manifest")
    /\ UNCHANGED <<run, measured, archive, kills>>

(* The digests are those of the run's documents, not of the copies. *)
HashManifest ==
    /\ build.pc = "hash manifest"
    /\ build' = [build EXCEPT !.pc = "hash results", !.hashed = run[build.chosen].manifest]
    /\ UNCHANGED <<run, measured, out, archive, kills>>

HashResults ==
    /\ build.pc = "hash results"
    /\ LET complete == Complete(build.loaded, build.slot) IN
       AddRow([state |-> IF complete THEN "COMPLETE" ELSE "INCOMPLETE",
               why |-> IF complete THEN None ELSE build.why,
               source |-> build.chosen,
               digests |-> [manifest |-> build.hashed, results |-> run[build.chosen].results]])
    /\ UNCHANGED <<run, measured, out, archive, kills>>

CompletionState(rows) ==
    IF \A k \in DOMAIN rows : rows[k].state = "COMPLETE" THEN "COMPLETE" ELSE "PARTIAL"

WriteResults ==
    /\ build.pc = "choose" /\ build.slot > Slots
    /\ out' = [out EXCEPT !.results =
                 [rows |-> build.rows, completion_state |-> CompletionState(build.rows)]]
    /\ Goto("report")
    /\ UNCHANGED <<run, measured, archive, kills>>

(* The report is written in place: a reader may find a part of it. *)
WriteReport ==
    /\ build.pc = "report"
    /\ \/ out.report = "absent" /\ out' = [out EXCEPT !.report = "part"] /\ UNCHANGED build
       \/ out.report = "part" /\ out' = [out EXCEPT !.report = "whole"] /\ Goto("sums")
    /\ UNCHANGED <<run, measured, archive, kills>>

WriteSums ==
    /\ build.pc = "sums"
    /\ out' = [out EXCEPT !.sums = DOMAIN out.claims]
    /\ Goto("check")
    /\ UNCHANGED <<run, measured, archive, kills>>

(* An aggregate that is not complete is left un-packaged. *)
CheckComplete ==
    /\ build.pc = "check"
    /\ build' = IF out.results.completion_state = "COMPLETE"
                THEN [build EXCEPT !.pc = "package", !.slot = 1] ELSE Idle
    /\ UNCHANGED <<run, measured, out, archive, kills>>

-----------------------------------------------------------------------------
(* Packaging *)

\* A bug: the copied documents are taken as they are.
MatchesAnything(k) == TRUE

(* _aggregate_documents: the copies equal the documents of the run. *)
Matches(k) == out.claims[k] = run[out.results.rows[k].source]

PackageSlot ==
    /\ build.pc = "package" /\ build.slot <= Slots
    /\ build' = IF Matches(build.slot) THEN [build EXCEPT !.slot = @ + 1] ELSE Idle
    /\ UNCHANGED <<run, measured, out, archive, kills>>

WriteArchive ==
    /\ build.pc = "package" /\ build.slot > Slots
    /\ archive' = [rows |-> out.results.rows, claims |-> out.claims, report |-> out.report,
                   sums |-> out.sums]
    /\ build' = Idle
    /\ UNCHANGED <<run, measured, out, kills>>

Kill ==
    /\ build.pc # "idle" /\ kills < Kills
    /\ build' = Idle /\ kills' = kills + 1
    /\ UNCHANGED <<run, measured, out, archive>>

Builder ==
    \/ Reset \/ ChooseRun \/ Load \/ CopyManifest \/ CopyResults \/ HashManifest
    \/ HashResults \/ WriteResults \/ WriteReport \/ WriteSums \/ CheckComplete
    \/ PackageSlot \/ WriteArchive

Next ==
    \/ \E r \in Runs : Measure(r) \/ FinishRun(r) \/ Report(r)
    \/ Start \/ Builder \/ Kill

(* Whoever wants the release starts the finalization again after it failed,
   and a started one goes on; runs that have results are reported. *)
Spec ==
    /\ Init /\ [][Next]_vars
    /\ WF_vars(Start) /\ WF_vars(Builder) /\ \A r \in Runs : WF_vars(Report(r))

-----------------------------------------------------------------------------
(* Properties *)

(* The shape of the state. *)
TypeOK ==
    /\ \A r \in Runs : run[r].results # None => run[r].results.of = run[r].manifest.of
    /\ \A r \in Runs : measured[r] \in 0..Measurements[r]
    /\ kills \in 0..Kills
    /\ build.slot \in 1..(Slots + 1) /\ build.chosen \in Runs \cup {None}
    /\ build.why \in {None, "incomplete", "no run"}
    /\ Len(build.rows) < Slots + 1
    /\ DOMAIN out.claims \subseteq Slot /\ out.sums \subseteq Slot
    /\ out.report \in {"absent", "part", "whole"}

(* The digests a packaged row gives are those of the documents packaged with
   it, although both are taken from a run others may report meanwhile
   ("Every evidence row stores manifest/results SHA-256"). *)
ArchivedDigestsMatch ==
    archive # None => \A k \in Slot : archive.rows[k].digests = archive.claims[k]

(* What is packaged is complete: every slot was measured, with a verdict, by a
   run that was fully measured; its report is whole and its claims are summed. *)
ArchiveIsComplete ==
    archive # None =>
        /\ archive.report = "whole" /\ archive.sums = Slot
        /\ \A k \in Slot :
              LET o == archive.claims[k].results.outcome IN
              o.status = "MEASURED" /\ k \in o.verdicts

(* A row says why it is incomplete, and a complete one has nothing to say,
   although completeness is decided twice. *)
IncompleteIsExplained ==
    \A k \in DOMAIN build.rows : (build.rows[k].why = None) <=> (build.rows[k].state = "COMPLETE")

(* The directory holds the claims of the slots its results list, none of an
   earlier build. *)
ClaimsOfThisBuild ==
    out.results # None =>
        DOMAIN out.claims = {k \in Slot : out.results.rows[k].source # None}

(* Once every slot has a complete candidate, for good, the release is made. *)
Ready ==
    /\ \A r \in Required : run[r].results # None
    /\ \A k \in Slot : \E i \in DOMAIN Candidates[k] :
          LET r == Candidates[k][i] IN
          run[r].results # None /\ Complete(run[r].results, k)
EventuallyPackaged == <>[]Ready => <>(archive # None)

=============================================================================
