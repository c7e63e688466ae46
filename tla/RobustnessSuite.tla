-------------------------- MODULE RobustnessSuite --------------------------
(***************************************************************************)
(* The bounded robustness suite (robustness/profile.py): the cases of all  *)
(* core targets in order, each stored in the run's evidence store (the     *)
(* files under robustness/, with a byte budget), executed in a worker and  *)
(* observed; then results.json and manifest.json, and the CORE gate that   *)
(* reads them.  The command may be killed at any point and started again   *)
(* on the same run directory.                                              *)
(*                                                                         *)
(* What happens inside a case is RobustnessCase; here it is the verdict    *)
(* the worker's run ends with.  Every core target is of tier CORE          *)
(* (targets.py:38), so the cases of all targets form one sequence.         *)
(***************************************************************************)
EXTENDS RobustnessVerdicts, Integers

CONSTANTS
    Cases,          \* the number of named and generated cases
    Mutations,      \* the number of mutation cases, which come after them
    Budgets,        \* the artifact budgets a command may be given
    Reserve,        \* the bytes held back for a case's result
    OutputCap,      \* the most output of a worker that is retained
    FileSizes,      \* the sizes of a stored file
    MaxAttempts     \* how often the command is started (bounds the model)

ASSUME CasesAssumption == Cases \in Nat /\ Mutations \in Nat
ASSUME BudgetsAssumption == Budgets \subseteq Nat
ASSUME OutputAssumption == Reserve \in Nat /\ OutputCap \in Nat
ASSUME SizesAssumption == FileSizes \subseteq Nat
ASSUME AttemptsAssumption == MaxAttempts \in Nat

VARIABLES
    attempt,        \* how often the command has been started
    pc,             \* what the running command does; "idle" when none runs
    budget, used,   \* its EvidenceStore: the limit, and the bytes it has counted
    item, next,     \* the case it works on, and the next file of that case
    ran,            \* the worker's outcome for that case
    obs,            \* the observations it holds in memory
    worked,         \* history: the cases whose worker has run
    file,           \* file[i][n]: the attempt that wrote file n of case i whole
    disk,           \* the bytes of all files under robustness/
    leaked,         \* history: those of files whose storing failed half way
    published,      \* results.json
    benchmarked     \* manifest.json says BENCHMARKED

store == <<budget, used, file, disk, leaked>>
memory == <<item, next, ran, obs, worked>>
durable == <<published, benchmarked>>
vars == <<attempt, pc, store, memory, durable>>

Items == 1..(Cases + Mutations)
Files == <<"input.arrow", "manifest.json", "artifact", "request.json",
           "stdout.txt", "stderr.txt", "result.json">>
Launch == 5             \* the worker runs before the fifth file is stored

Absent == 0
Torn == -1
NoResults == [attempt |-> 0, obs |-> << >>]
NotRun == [verdict |-> "NONE", size |-> <<0, 0, 0>>]

Init ==
    /\ attempt = 0 /\ pc = "idle"
    /\ budget = 0 /\ used = 0
    /\ item = 1 /\ next = 1 /\ ran = NotRun
    /\ obs = << >> /\ worked = {}
    /\ file = [i \in Items |-> [n \in 1..Len(Files) |-> Absent]]
    /\ disk = 0 /\ leaked = 0
    /\ published = NoResults /\ benchmarked = FALSE

-----------------------------------------------------------------------------
(* The command starts: the run is loaded and the store opened, which counts *)
(* every file it finds. *)

Begin ==
    /\ pc = "idle" /\ ~ benchmarked
    /\ attempt < MaxAttempts
    /\ attempt' = attempt + 1
    /\ budget' \in Budgets
    /\ used' = disk /\ leaked' = 0
    /\ pc' = IF disk > budget' THEN "idle" ELSE "encode"
    /\ item' = 1 /\ next' = 1 /\ ran' = NotRun
    /\ obs' = << >> /\ worked' = {}
    /\ UNCHANGED <<file, disk, durable>>

(* An observation.  Only a case that was carried out names its mutation. *)
Observation(observed, verdict) ==
    [item |-> item, core |-> TRUE, observed |-> observed, verdict |-> verdict,
     recipe |-> observed = "MEASURED" /\ item > Cases]

Observe(observed, verdict) ==
    /\ obs' = Append(obs, Observation(observed, verdict))
    /\ item' = item + 1 /\ next' = 1
    /\ ran' = NotRun
    /\ pc' = "encode"
    /\ UNCHANGED worked

(* An adapter cannot be imported, or anything else raises. *)
Incomplete == \E observed \in {"UNSUPPORTED", "HARNESS_FAILED"} : Observe(observed, "INCOMPLETE")

\* A bug: the suite ends, and the case that did not fit is not listed.
ExhaustQuietly ==
    /\ pc' = "finish"
    /\ UNCHANGED memory

(* The budget is exhausted: the case is listed, the suite ends. *)
Exhaust ==
    /\ obs' = Append(obs, Observation("BUDGET_EXHAUSTED", "INCOMPLETE"))
    /\ pc' = "finish"
    /\ UNCHANGED <<item, next, ran, worked>>

Encode ==
    /\ pc = "encode" /\ item \in Items
    /\ \/ pc' = "store" /\ UNCHANGED memory
       \/ Incomplete
    /\ UNCHANGED <<attempt, store, durable>>

-----------------------------------------------------------------------------
(* The evidence store *)

Fits(size) == used + size <= budget

Put(value, size) ==
    /\ file' = [file EXCEPT ![item][next] = value]
    /\ disk' = disk + size

\* A bug: what a failed command left behind is used again.
AlreadyThereReused(size) ==
    /\ file[item][next] # Absent
    /\ IF next = Len(Files)
       THEN Observe("MEASURED", ran.verdict)
       ELSE next' = next + 1 /\ UNCHANGED <<pc, item, ran, obs, worked>>
    /\ UNCHANGED <<used, file, disk, leaked>>

AlreadyThere(size) ==
    /\ file[item][next] # Absent
    /\ Observe("HARNESS_FAILED", "INCOMPLETE")
    /\ UNCHANGED <<used, file, disk, leaked>>

DoesNotFit(size) ==
    /\ file[item][next] = Absent /\ ~ Fits(size)
    /\ Exhaust
    /\ UNCHANGED <<used, file, disk, leaked>>

Stored(size) ==
    /\ file[item][next] = Absent /\ Fits(size)
    /\ Put(attempt, size)
    /\ used' = used + size
    /\ IF next = Len(Files)
       THEN Observe("MEASURED", ran.verdict)
       ELSE next' = next + 1 /\ UNCHANGED <<pc, item, ran, obs, worked>>
    /\ UNCHANGED leaked

(* Copying or writing fails after some bytes: they are on disk, and the store
   has not counted them. *)
StoreFails(size) ==
    /\ file[item][next] = Absent /\ Fits(size)
    /\ \E written \in 0..size :
          /\ Put(Torn, written)
          /\ leaked' = leaked + written
    /\ Observe("HARNESS_FAILED", "INCOMPLETE")
    /\ UNCHANGED used

StoreFile(size) ==
    /\ \/ AlreadyThere(size)
       \/ DoesNotFit(size)
       \/ Stored(size)
       \/ StoreFails(size)
    /\ UNCHANGED <<attempt, budget, durable>>

StoreInput ==
    /\ pc = "store" /\ next < Launch
    /\ \E size \in FileSizes : StoreFile(size)

(* stdout, stderr and the result, after the worker has run. *)
StoreOutcome ==
    /\ pc = "store" /\ next >= Launch /\ ran # NotRun
    /\ StoreFile(ran.size[next - Launch + 1])

-----------------------------------------------------------------------------
(* The worker *)

Remaining == budget - used

\* A bug: the whole of what is left is given to the worker's output.
OutputBudgetWhole == IF OutputCap < Remaining THEN OutputCap ELSE Remaining

OutputBudget ==
    IF OutputCap < Remaining - Reserve THEN OutputCap ELSE Remaining - Reserve

RefuseLaunch ==
    /\ pc = "store" /\ next = Launch /\ ran = NotRun
    /\ Remaining < Reserve
    /\ Exhaust
    /\ UNCHANGED <<attempt, store, durable>>

RunWorker ==
    /\ pc = "store" /\ next = Launch /\ ran = NotRun
    /\ Remaining >= Reserve
    /\ \E verdict \in {"PASS", "FAIL", "INCOMPLETE"},
          stdout, stderr \in 0..OutputBudget, result \in 0..Reserve :
          /\ stdout + stderr <= OutputBudget
          /\ ran' = [verdict |-> verdict, size |-> <<stdout, stderr, result>>]
    /\ worked' = worked \cup {item}
    /\ UNCHANGED <<attempt, pc, store, item, next, obs, durable>>

(* run_case raises: the command cannot be started or its output not saved. *)
WorkerFails ==
    /\ pc = "store" /\ next = Launch /\ ran = NotRun
    /\ Remaining >= Reserve
    /\ Incomplete
    /\ UNCHANGED <<attempt, store, durable>>

-----------------------------------------------------------------------------
(* The end of the suite, and of the process *)

AllDone ==
    /\ pc = "encode" /\ item \notin Items
    /\ pc' = "finish"
    /\ UNCHANGED <<attempt, store, memory, durable>>

PublishResults ==
    /\ pc = "finish"
    /\ published' = [attempt |-> attempt, obs |-> obs]
    /\ pc' = "manifest"
    /\ UNCHANGED <<attempt, store, memory, benchmarked>>

PublishManifest ==
    /\ pc = "manifest"
    /\ benchmarked' = TRUE
    /\ pc' = "idle"
    /\ UNCHANGED <<attempt, store, memory, published>>

(* The process is killed; a file it was writing stays as far as it was written. *)
Kill ==
    /\ pc # "idle"
    /\ pc' = "idle"
    /\ \/ UNCHANGED <<file, disk>>
       \/ /\ pc = "store" /\ file[item][next] = Absent
          /\ next < Launch \/ ran # NotRun
          /\ \E size \in IF next < Launch THEN FileSizes ELSE {ran.size[next - Launch + 1]} :
                /\ Fits(size)
                /\ \E written \in 0..size : Put(Torn, written)
    /\ UNCHANGED <<attempt, budget, used, leaked, memory, durable>>

Next ==
    \/ Begin \/ Encode
    \/ StoreInput \/ RefuseLaunch \/ RunWorker \/ WorkerFails \/ StoreOutcome
    \/ AllDone \/ PublishResults \/ PublishManifest
    \/ Kill

Spec == Init /\ [][Next]_vars

-----------------------------------------------------------------------------
(* The counts of the generated mutations (robustness/summary.py). *)
CountedMutations(results) == {k \in DOMAIN results.obs : results.obs[k].recipe}

-----------------------------------------------------------------------------
(* Properties *)

(* The shape of the state. *)
TypeOK ==
    /\ attempt \in 0..MaxAttempts
    /\ pc \in {"idle", "encode", "store", "finish", "manifest"}
    /\ budget \in Nat /\ used \in Nat /\ disk \in Nat /\ leaked \in Nat
    /\ item \in 1..(Cases + Mutations + 1) /\ next \in 1..Len(Files)
    /\ worked \subseteq Items
    /\ file \in [Items -> [1..Len(Files) -> {Torn, Absent} \cup (1..MaxAttempts)]]
    /\ benchmarked \in BOOLEAN

(* While the suite runs, the evidence on disk is within the budget, apart
   from what a failed store left and the budget does not know of. *)
DiskWithinBudget == pc # "idle" => disk - leaked <= budget

(* A worker that ran is never reported as a case that did not fit: the
   reserve and the output budget leave room for what it produced. *)
BudgetHidesNoResult ==
    \A k \in DOMAIN obs : obs[k].item \in worked => obs[k].observed # "BUDGET_EXHAUSTED"

(* A measured observation of results.json has its seven files in the store,
   whole and written by the very attempt that published it. *)
ResultsHaveEvidence ==
    \A k \in DOMAIN published.obs :
        published.obs[k].observed = "MEASURED" =>
            \A n \in 1..Len(Files) :
                file[published.obs[k].item][n] = published.attempt

(* A green gate means that every case of every target was carried out, in one
   uninterrupted attempt, and passed. *)
GreenMeansAll ==
    Green(published.obs) =>
        \A i \in Items :
            /\ \E k \in DOMAIN published.obs :
                  /\ published.obs[k].item = i
                  /\ published.obs[k].observed = "MEASURED"
                  /\ published.obs[k].verdict = "PASS"
            /\ \A n \in 1..Len(Files) : file[i][n] = published.attempt

(* docs/specs/robustness-v1.md:22 asks for a hard budget of the evidence. *)
HardBudget == pc # "idle" => disk <= budget

(* README.md:79 counts the generated mutations, the incomplete ones among
   them: the denominator holds every mutation the results list. *)
MutationsCounted ==
    CountedMutations(published) =
        {k \in DOMAIN published.obs : published.obs[k].item > Cases}

=============================================================================
