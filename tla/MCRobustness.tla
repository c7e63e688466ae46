---------------------------- MODULE MCRobustness ----------------------------
(***************************************************************************)
(* The robustness harness at three places: a bounded suite                 *)
(* (RobustnessSuite), a native suite (NativeSuite) and one case within its *)
(* process (RobustnessCase).  Which of them runs is chosen at the start.   *)
(* The suites share the variables of a run directory; what does not run    *)
(* stays in its first state.                                               *)
(***************************************************************************)
EXTENDS RobustnessSuite

CONSTANTS
    Expectations, Inherited,                        \* of RobustnessCase
    Selected, Available, CoreTargets, Seeded, WithCorpus,   \* of NativeSuite
    Budget, NativeSizes

VARIABLES
    running,                \* "bounded", "native" or "case"
    t, outcome, ended,      \* of NativeSuite, beside those of RobustnessSuite
    expectation, inherited, limit, stage, answer, out, flooded, process, result, path

\* A target of each kind, the unavailable one between two that run.
SelectedTargets == <<"arrow", "lance", "fastlanes">>

Native == INSTANCE NativeSuite WITH FileSizes <- NativeSizes
Case == INSTANCE RobustnessCase

ASSUME NativeAssumption == Native!TargetsAssumption /\ Native!BudgetAssumption
ASSUME CaseAssumption == Case!ExpectationsAssumption /\ Case!InheritedAssumption

ofNative == <<t, outcome, ended>>
ofCase == <<expectation, inherited, limit, stage, answer, out, flooded, process,
            result, path>>
all == <<running, vars, ofNative, ofCase>>

NativeAtRest ==
    t = 1 /\ outcome = "NONE" /\ ended = [n \in Native!Targets |-> "NONE"]

CaseAtRest ==
    /\ Case!Init
    /\ expectation = CHOOSE e \in Expectations : TRUE
    /\ inherited = CHOOSE i \in Inherited : TRUE

MCInit ==
    \/ running = "bounded" /\ Init /\ NativeAtRest /\ CaseAtRest
    \/ /\ running = "native" /\ Native!Init /\ CaseAtRest
       /\ budget = 0 /\ item = 1 /\ ran = NotRun /\ worked = {} /\ leaked = 0
    \/ running = "case" /\ Case!Init /\ Init /\ NativeAtRest

BoundedStep ==
    /\ running = "bounded" /\ Next
    /\ UNCHANGED <<running, ofNative, ofCase>>

NativeStep ==
    /\ running = "native" /\ Native!Next
    /\ UNCHANGED <<running, budget, item, ran, worked, leaked, ofCase>>

CaseStep ==
    /\ running = "case" /\ Case!Next
    /\ UNCHANGED <<running, vars, ofNative>>

MCNext == BoundedStep \/ NativeStep \/ CaseStep

MCSpec == MCInit /\ [][MCNext]_all

-----------------------------------------------------------------------------
(* Properties *)

(* The type invariants of the three. *)
MCTypeOK ==
    CASE running = "bounded" -> TypeOK
      [] running = "native"  -> Native!TypeOK
      [] running = "case"    -> Case!TypeOK

(* The evidence of a bounded suite stays within its budget, apart from what a
   failed store left, and a worker that ran is never reported as a case that
   did not fit: profile.py holds the bytes of its result back. *)
BudgetIsKept == running = "bounded" => DiskWithinBudget /\ BudgetHidesNoResult

(* What results.json says was measured has its evidence in the store, whole
   and of the attempt that published it; the native suite lists every target
   that was asked for, with the outcome of its process. *)
ResultsAreFounded ==
    /\ running = "bounded" => ResultsHaveEvidence
    /\ running = "native" => Native!EveryTargetListed /\ Native!OutcomeHasEvidence

(* A green gate of the bounded suite means that every case was carried out and
   passed in one uninterrupted attempt, and of the native suite that every
   CORE target ran to its end and left its evidence. *)
GreenIsEarned ==
    /\ running = "bounded" => GreenMeansAll
    /\ running = "native" => Native!GreenMeansCorePassed

(* A PASS of a case was earned: the worker ran under its limit, set itself up,
   answered and left by itself, and what had to be equal was compared. *)
PassIsEarned == Case!PassIsEarned

(* A FAIL of a case is the target's and never an error of the harness, and a
   target that crashed is failed whatever it had printed before. *)
FailIsTheTargets == Case!FailIsTheTargets /\ Case!CrashIsSeen

(* docs/native-robustness.md:14 keeps the outcome of a target that crashed.
   (This does not hold: see the README.) *)
CrashIsKept == running = "native" => Native!CrashIsKept

=============================================================================
