----------------------------- MODULE NativeSuite -----------------------------
(***************************************************************************)
(* The native robustness suite (robustness/native.py): the official fuzz   *)
(* targets of the formats, one after the other, each checked, perhaps      *)
(* rebuilt, run and its evidence put into the run's evidence store; then   *)
(* results.json and manifest.json.  Unlike the bounded suite it goes on    *)
(* after a target whose evidence did not fit, and any other error leaves   *)
(* the command.  The command may be killed and started again.              *)
(***************************************************************************)
EXTENDS RobustnessVerdicts, Integers

CONSTANTS
    Selected,       \* the targets of the command, in order
    Available,      \* those that have an official fuzz target
    CoreTargets,    \* those of tier CORE
    Seeded,         \* the project-seeded ones, whose exit code is a result
    WithCorpus,     \* those started on a corpus directory
    Budget,         \* the artifact budget
    FileSizes,      \* the sizes of a stored file
    MaxAttempts     \* how often the command is started (bounds the model)

Targets == {Selected[t] : t \in DOMAIN Selected}

TargetsAssumption ==
    /\ Selected \in Seq(STRING)
    /\ CoreTargets \subseteq Targets /\ Available \subseteq Targets
    /\ Seeded \subseteq Available \ CoreTargets
    /\ WithCorpus \subseteq Available \ Seeded
BudgetAssumption == Budget \in Nat /\ FileSizes \subseteq Nat

VARIABLES
    attempt,        \* how often the command has been started
    pc,             \* what it does; "idle" when it does not run
    t,              \* the position of the target it works on
    outcome,        \* how the target's process ended
    next,           \* the next file of that target
    used,           \* the bytes its EvidenceStore has counted
    obs,            \* the observations it holds in memory
    ended,          \* history: the outcome of each target's process in this attempt
    file,           \* file[n][k]: the attempt that stored file k of target n
    disk,           \* the bytes of all files
    published,      \* results.json
    benchmarked     \* manifest.json says BENCHMARKED

work == <<t, outcome, next, obs>>
store == <<used, file, disk>>
vars == <<attempt, pc, work, store, ended, published, benchmarked>>

Files == <<"artifacts", "corpus", "stdout.txt", "stderr.txt", "result.json">>
NoResults == [attempt |-> 0, obs |-> << >>]
Target == Selected[t]

Init ==
    /\ attempt = 0 /\ pc = "idle"
    /\ t = 1 /\ outcome = "NONE" /\ next = 1 /\ obs = << >>
    /\ used = 0 /\ disk = 0
    /\ file = [n \in Targets |-> [k \in DOMAIN Files |-> 0]]
    /\ ended = [n \in Targets |-> "NONE"]
    /\ published = NoResults /\ benchmarked = FALSE

-----------------------------------------------------------------------------

Begin ==
    /\ pc = "idle" /\ ~ benchmarked
    /\ attempt < MaxAttempts
    /\ attempt' = attempt + 1
    /\ pc' = "check"
    /\ t' = 1 /\ outcome' = "NONE" /\ next' = 1 /\ obs' = << >>
    /\ used' = disk
    /\ ended' = [n \in Targets |-> "NONE"]
    /\ UNCHANGED <<file, disk, published, benchmarked>>

Observe(observed) ==
    /\ obs' = Append(obs, [target |-> Target, core |-> Target \in CoreTargets,
                           observed |-> observed,
                           verdict |-> Verdict("MUST_NOT_CRASH", observed)])
    /\ t' = t + 1 /\ outcome' = "NONE" /\ next' = 1
    /\ pc' = "check"

(* The target is not run: there is none, its sources are not the pinned ones
   or changed, its binary is missing (UNSUPPORTED); or its rebuild failed or
   its corpus cannot be used (HARNESS_FAILED). *)
NotRun ==
    /\ pc = "check" /\ t \in DOMAIN Selected
    /\ \/ Observe("UNSUPPORTED")
       \/ Target \in Available /\ Observe("HARNESS_FAILED")
    /\ UNCHANGED <<attempt, store, ended, published, benchmarked>>

(* A non-zero exit is a result of a project-seeded target; of the others it
   is taken for a failure of the harness. *)
ProcessOutcomes ==
    {"TIMED_OUT", "CRASHED", "ACCEPTED",
     IF Target \in Seeded THEN "TARGET_FAILED" ELSE "HARNESS_FAILED"}

Run ==
    /\ pc = "check" /\ t \in DOMAIN Selected /\ Target \in Available
    /\ outcome' \in ProcessOutcomes
    /\ ended' = [ended EXCEPT ![Target] = outcome']
    /\ pc' = "store"
    /\ UNCHANGED <<attempt, t, next, obs, store, published, benchmarked>>

-----------------------------------------------------------------------------
(* The evidence of the process *)

\* A bug: the limit is tested before the size is added.
FitsBefore(size) == used < Budget

Fits(size) == used + size <= Budget

(* Targets without a corpus directory skip that file. *)
Skip == next = 2 /\ Target \notin WithCorpus

(* The budget is exhausted: the case becomes BUDGET_EXHAUSTED. *)
DoesNotFit == Observe("BUDGET_EXHAUSTED")

Stored(size) ==
    /\ file' = [file EXCEPT ![Target][next] = attempt]
    /\ disk' = disk + size
    /\ used' = used + size

Continue ==
    IF next = Len(Files)
    THEN Observe(outcome)
    ELSE next' = next + 1 /\ UNCHANGED <<pc, t, outcome, obs>>

(* A file that is there already, or cannot be written, raises, and the
   exception leaves the command with nothing published. *)
Raise ==
    /\ pc' = "idle"
    /\ UNCHANGED <<work, store>>

StoreFile ==
    /\ pc = "store"
    /\ \E size \in FileSizes :
          \/ Skip /\ Continue /\ UNCHANGED store
          \/ ~ Skip /\ file[Target][next] = 0 /\ Fits(size) /\ Stored(size) /\ Continue
          \/ ~ Skip /\ file[Target][next] = 0 /\ ~ Fits(size) /\ DoesNotFit /\ UNCHANGED store
          \/ ~ Skip /\ Raise
    /\ UNCHANGED <<attempt, ended, published, benchmarked>>

-----------------------------------------------------------------------------

PublishResults ==
    /\ pc = "check" /\ t \notin DOMAIN Selected
    /\ published' = [attempt |-> attempt, obs |-> obs]
    /\ pc' = "manifest"
    /\ UNCHANGED <<attempt, work, store, ended, benchmarked>>

PublishManifest ==
    /\ pc = "manifest"
    /\ benchmarked' = TRUE
    /\ pc' = "idle"
    /\ UNCHANGED <<attempt, work, store, ended, published>>

Kill ==
    /\ pc # "idle"
    /\ pc' = "idle"
    /\ UNCHANGED <<attempt, work, store, ended, published, benchmarked>>

Next ==
    \/ Begin \/ NotRun \/ Run \/ StoreFile
    \/ PublishResults \/ PublishManifest \/ Kill

Spec == Init /\ [][Next]_vars

-----------------------------------------------------------------------------
(* Properties *)

(* The shape of the state, and the budget as a limit of what was counted. *)
TypeOK ==
    /\ attempt \in 0..MaxAttempts
    /\ pc \in {"idle", "check", "store", "manifest"}
    /\ t \in 1..(Len(Selected) + 1)
    /\ next \in DOMAIN Files
    /\ used <= Budget
    /\ file \in [Targets -> [DOMAIN Files -> 0..MaxAttempts]]

(* Every target that was asked for is listed once, in order, whether it could
   be run or not: absence is not mistaken for a pass. *)
EveryTargetListed ==
    published # NoResults =>
        /\ Len(published.obs) = Len(Selected)
        /\ \A k \in DOMAIN Selected : published.obs[k].target = Selected[k]

(* What a published observation says of a process is what that process did in
   the attempt that published it, and all its evidence is in the store. *)
OutcomeHasEvidence ==
    \A k \in DOMAIN published.obs :
        LET o == published.obs[k] IN
            o.observed \in {"TIMED_OUT", "CRASHED", "ACCEPTED", "TARGET_FAILED"} =>
                /\ \A n \in DOMAIN Files :
                      \/ file[o.target][n] = published.attempt
                      \/ Files[n] = "corpus" /\ o.target \notin WithCorpus
                /\ published.attempt = attempt => o.observed = ended[o.target]

(* A green gate means that every CORE target that was asked for is listed, ran
   to its end with exit code zero and left its evidence; targets that only
   record evidence do not block it. *)
GreenMeansCorePassed ==
    Green(published.obs) =>
        \A n \in CoreTargets :
            /\ \E k \in DOMAIN published.obs :
                  published.obs[k].target = n /\ published.obs[k].observed = "ACCEPTED"
            /\ file[n][Len(Files)] = published.attempt

(* docs/native-robustness.md:14 keeps the outcome and the output of a target
   that crashed: a published target whose process crashed is CRASHED. *)
CrashIsKept ==
    published.attempt = attempt =>
        \A k \in DOMAIN published.obs :
            ended[published.obs[k].target] = "CRASHED" =>
                published.obs[k].observed = "CRASHED"

=============================================================================
