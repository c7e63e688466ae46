# Data Format Lab: a TLA+ model

Data Format Lab encodes one dataset in many formats, verifies the encoded files by
reading them back, measures them in fresh processes, attacks them in supervised
processes, and publishes reports and archives of the evidence. Its value rests on
one promise: *evidence that ranks has been proved, and nothing is silently dropped
on the way*. This directory models the parts of the code that keep the promise,
checks them with TLC on small instances and proves the main results with TLAPS for
every instance. Paths below are relative to `src/src/format_bench/` unless they
start with `src/` or `tools/` (that is, `src/tools/`).

## The system

| Component | State it keeps | Operations | What makes it correct |
|---|---|---|---|
| Evidence lifecycle (`model.py`) | the state of a document, an entry, an observation | `transition`, `robustness_verdict` | states move along DISCOVERED → ENCODED → ROUNDTRIP_VERIFIED → BENCHMARKED → REPORTED, or end in UNSUPPORTED or FAILED |
| Run workflow (`workflow.py`, `fair_run.py`, `profile_run.py`, `equivalence_run.py`, `equivalence_admission.py`) | the run directory: artifacts, `manifest.json`, `results.json`, `claims/` | prepare, verify, the profile runs | only proved artifacts are measured and ranked; metadata is durable before jobs, results before the manifest that ranks them |
| Report and release (`report.py`, `release.py`) | `report.md`, the archive and its checksum | render, package | a report and an archive show the evidence they are made of |
| Process supervisor (`robustness/runner.py`) | a process group, two pipes, two tails, the evidence of a case | `_process`, `_append_tail`, `_outcome`, `run_case` | the call returns, the verdict is what happened, nothing it started goes on |
| Robustness worker (`robustness/worker.py`, `robustness_worker_bootstrap.py`, `worker_limits.py`) | its resource limits, one line of output | boot, `run_request` | the answer says what the target did, under the limits it names |
| Fresh-process pool (`runner.py`) | futures of a bounded thread pool | `run_job`, `run_jobs` | a job is measured from all of its processes or fails; nothing runs when it returns |
| Robustness suites (`robustness/profile.py`, `native.py`, `evidence.py`, `gate.py`, `summary.py`) | the evidence directory and its budget, the list of observations | `run_bounded`, `run_native`, `store_bytes`, `import_path`, the gate | the budget is kept, results have their evidence, the gate counts what was not run |
| Equivalence verdicts (`equivalence.py`, `equivalence_compare.py`) | none | intervals, decision rules, states | what the documents conclude agrees, and rests on what was measured |
| Shard merge (`shards.py`) | the merged run directory | `merge_equivalence_shards` | what is merged is what one run could have produced |
| JSON documents (`json_contract.py`) | a file and its temporaries | `atomic_write_json`, strict parsing | a reader sees one whole document that was published |
| NYC capture (`nyc_snapshot.py`, `dataset_sources.py`, `datasets.py`) | `capture.json`, raw pages, the normalised source | capture, materialise, finish | a capture that says COMPLETE is one revision of the source, each row once |
| Review close-out (`tools/review_closeout.py`) | review threads and issues of the hosting service | `run` | no thread is lost, answered twice or closed unanswered |
| Audit synchronization (`tools/audit_tracker.py`, `audit_github.py`, `audit_project.py`) | the audit registry; labels, milestones, issues, a board | apply, verify | the registry says what the service has |
| Revalidation release (`tools/build_revalidation_aggregate.py`, `finalize_revalidation.sh`) | the aggregate's directory | report, build, package | what is packaged is complete and is what its digests say |
| Command line, measured workers, artifact digests, adapters, claims, prompts, records | see `PROJECT.json` | | |

How they interact: the command line calls prepare, verify, one profile, report and
package one after the other; they speak to each other only through the documents in
the run directory. The fair and equivalence profiles hand jobs to the fresh-process
pool, the robustness profile hands cases to the supervisor, which starts a worker
that writes one line of JSON to a pipe; its suites put what they see into the evidence
store of the run. Equivalence runs may be measured in shards and merged; the
revalidation release collects the documents of many runs. Everything on disk is written
through `atomic_write_json` except evidence files, `report.md`, checksums and the
capture record. The review and audit tools keep their state on the hosting service
and touch no run.

Hard behaviours: crashes between the writes of one command and the commands that
follow; the supervisor against processes that fork, detach, hold pipes and die at any
time; threads that start work while a failure is being handled; a budget at its limit
and a store that fails half way; documents that are read twice while others write
them; answers that get lost after the call took effect; values checked in one command
and used in a later one. `PROJECT.json` lists each at its line under `hazards`.

## The modules

| Module | Models | Extends / instantiates |
|---|---|---|
| `Evidence` | `model.py`: the states and `LegalTransition` | |
| `LifecycleContract` | abstract: what the lifecycle promises of durable evidence | `Evidence` |
| `RunLifecycle` | one run directory and all commands on it | `Evidence`, `LifecycleContract` |
| `OutputTail` | `_append_tail` | |
| `BoundedProcess` | `_process` and `_outcome` with the processes they supervise | `OutputTail` |
| `JobContract` | abstract: what the measurement estimand promises of a job | |
| `FreshWorkers` | `run_job` with its pool | `JobContract` |
| `SnapshotContract` | abstract: a snapshot of a changing table | |
| `NycCapture` | `nyc_rows` and the `materialize_official` that consumes it | `SnapshotContract` |
| `RobustnessVerdicts` | the verdict on an outcome, and the gate | |
| `RobustnessCase` | one case: bootstrap, worker, target, `run_case` | `RobustnessVerdicts` |
| `RobustnessSuite` | `run_bounded` over the evidence store | `RobustnessVerdicts` |
| `NativeSuite` | `run_native` over the evidence store | `RobustnessVerdicts` |
| `EquivalenceVerdicts` | what an equivalence run concludes | |
| `ShardMerge` | shards and the commands that merge them | |
| `DocumentContract` | abstract: a document that is replaced in one step | |
| `AtomicWrite` | `atomic_write_json`, system call by system call | `DocumentContract` |
| `ReviewCloseout` | the sweep of `review_closeout.py` against the service | |
| `AuditSync` | apply and verify against the service and the registry | |
| `Revalidation` | the finalization, the aggregate and the runs it reads | |
| `MCRunLifecycle`, `MCBoundedProcess` | instances for TLC | the module named |
| `MCRobustness` | one of the suites or one case, chosen at the start | `RobustnessSuite`, `NativeSuite`, `RobustnessCase` |
| `MCEquivalence` | one equivalence run or merges, chosen at the start | `EquivalenceVerdicts`, `ShardMerge` |
| `MCTools` | one of the three tools, chosen at the start | `ReviewCloseout`, `AuditSync`, `Revalidation` |
| `..._proofs` | theorems and proofs of the module named | `TLAPS` |

**RunLifecycle.** A command is a sequential program: `pc` says where it is, `man` and
`res` are the documents it holds in memory, `manifest`, `results`, `report`,
`archive` and `checksum` are what is on disk. One action ends with one write (or one
adapter call), so `Abort`, which only forgets the memory, is a crash between any two
writes. `atomic_write_json` is one step (what justifies that is `AtomicWrite`);
`write_text` of the report is two (`ReportOpen` truncates, `ReportText` fills). A digest
is modelled by the thing it is the digest of: an artifact is `"encoded"` as prepare
left it or `"altered"`, and a report carries the very documents it shows. `Disturb`
alters artifacts at any time. A format's entry has its state in `formats`, `proved` is
`roundtrip_verified` of observation zero, `sizes` says whether prepare made the number of
size observations that equivalence demands. `by` and `spoiled` are history variables.
The number of profile runs is bounded by `MaxRuns`; nothing else is.

The commands of one directory run one after the other. The code takes no lock, and
two commands at the same time overwrite each other's documents; the repository's own
guide keeps profiles in directories of their own (`src/README.md:92`).

**BoundedProcess.** `life`, `detached`, `holds`, `pending` and `exit` are the operating
system's: processes fork, call `setsid`, close pipes, write and exit when they like.
SIGKILL makes a process `"doomed"`, and `Deliver` ends it later. `pc` follows the
supervisor through one turn of its loop: `LoopTest` (the `while`), `CheckLeader`
(reaped, or past the deadline), `GiveUp`/`KeepGoing` (the drain), `Select` (one
`select` and the reads of it), then `Classify`. `Interrupt` and `Unwind` are the
`finally` block. Time is two flags that the environment raises. Both tails are kept
by their lengths (`OutputTail`), because both are suffixes of what was read. The worker's
answer is a choice among the outcomes `worker.py` can print.

**RobustnessCase** looks at the same case from inside: the worker boots, installs its
limits, reads, verifies and prints; the target may reject, raise, print, flood, crash or
hang wherever it runs, and `Classify` makes the result out of how the process ended
and what was printed. A resource limit is a number on the scale of the inherited ones.
`path` is a history of what happened, which the properties compare with the verdict.

**RobustnessSuite, NativeSuite.** The command keeps `item`, `next` and `obs` in memory;
`file[i][n]` says which attempt wrote a file of the store, and `disk` how many bytes there
are. A store may not fit, find the file there, or fail half way (`leaked` counts what it
leaves). `Kill` forgets the memory, and the next attempt counts what it finds. The
bounded suite ends at a budget that is exhausted and goes on after other errors; the
native one goes on after a budget and ends at other errors: both as the code has it.

**FreshWorkers.** A future is pending, running, finished or cancelled. `Start` takes
the oldest pending one when a thread is free, also while the calling thread is in
its cancel loop; `Complete` ends a process with evidence, a failure or an exception;
`Consume...` is `as_completed` in any order; `Cancel`, `CancelDone`, `Shutdown`,
`Join` are the handling of the first failure, one future at a time. `Aggregate` compares the
evidence and decides. `JobContract` says the same of a job without threads: attempts
end, are skipped only because another one failed, and one decision follows when none
is open.

**NycCapture.** The generator and its consumer take turns, so one `pc` follows both:
`Receive` validates a page, `Truncate` and `Fill` are the `write_text` of `capture.json`
(the file is torn between them), `Deliver` hands the page's rows to the partial file.
`evidence` is the dictionary in memory and `record` the file; `Summarise` and `Catch`
reload the one from the other, as `finalize_capture` and `fail_active_capture` do. A
step inside the generator's `try` fails by `FailCapturing`, any other by
`FailMaterializing`, and the handlers can fail too; an interrupt is a failure that can
come anywhere, also right after a write. A row is an id and a content; the source may
change its rows between any two requests, cut pages short, send too many rows, or send
rows again. It is trusted to have a new revision after each change and to leave no gap
in a page. `SnapshotContract` knows nothing of pages: a snapshot is taken in
one step, published, perhaps withdrawn.

**EquivalenceVerdicts** says what the documents contain whose writes `RunLifecycle` has.
A command finds each format verified, verified for another lane or not fully comparable,
UNSUPPORTED, FAILED in prepare or verify, or not prepared (`Entries`, `StateBefore`): a run is
ROUNDTRIP_VERIFIED as soon as one format is (`workflow.py:363-373`). What it leaves unmeasured
keeps its state. Then come the pairs that lack a format, the admission of the rest, an
interval for each candidate (a ratio is an integer on a scale on which `One` is 1; the
bootstrap is a choice of intervals), the verdict of each candidate and pair, and the states
and status that follow.

**ShardMerge.** Shards are measured (`Bench`, `WriteResults`), reported and altered while
merges read them one after the other (`ReadManifest`, `AddShard`), compare them, create the
output exclusively, link the base run's files and write manifest and results. `on` and
`measuredBy` say which content and which shard a job was measured with.

**AtomicWrite.** A call is its own sequence of system calls, any of which may fail or be
the last (`Fail`); calls overlap; `PowerLoss` keeps of each file what was synchronised and
possibly more, and gives the document's name back to any write that ever had it, because the
directory is never synchronised. `Seen` is what a reader finds under the name.

**ReviewCloseout.** Every call to the hosting service is one step and people act between
any two (`People`): they resolve, reopen, outdate, close, relabel, reprioritise, merge. A call may
fail, or take effect without an answer (`Lost`), and a sweep may be cut off (`Break`). A
thread is its resolution, the issues its tracking replies name and whether it is urgent;
an issue is its thread, its lifecycle labels and one flag for everything else a check
asks of it. One sweep runs at a time, as the repository demands
(`src/docs/agents/issue-tracker.md:27`).

**AuditSync.** A command loads the registry once, reads issues and foundation in two steps,
plans, and applies one difference at a time in at most three rounds; a lost answer leads to
one more reading (`MutateLost`, `Recheck`). The board and the hierarchy are one number per issue.

**Revalidation.** Runs are measured and reported while the finalization reports the
required ones, chooses a run for each slot, copies its documents, hashes them, writes the
aggregate file by file and packages it. A digest is the document it was computed from.

The three composing modules (`MCRobustness`, `MCEquivalence`, `MCTools`) choose at the
start which component runs and leave the others in a first state, so their state spaces
add up and do not multiply: the components they join do not run at the same time on the
same state. They state the properties of the components under common names.

## What is checked

| Run | Question | Instance |
|---|---|---|
| `run_lifecycle` | one directory, commands in any order, crashes, altered artifacts | 2 formats (one fair), 2 pairs, claims and prompt, 2 profile runs |
| `bounded_process` | the supervisor, its tails, and that it returns | a worker and 1 descendant, budget 2, chunks of 1 byte, 2 bytes a stream |
| `fresh_workers` | the pool, its contract and its liveness | 4 processes, 2 threads, 2 values of evidence |
| `nyc_capture` | the capture, its contract and that it ends | 3 ids, 2 contents, a target of 2 rows, 2 changes |
| `robustness` | both suites and one case | 1 case and 1 mutation, 7 files each, budgets 11 and 20, 2 attempts; 3 native targets, budget 12, 2 attempts; 3 expectations, limits below, at and above the requested one |
| `equivalence` | one run's conclusions, and merges | 2 pairs with a shared reference, one with 2 candidates, 4 intervals; 2 shards, 3 pairs, 2 protocols, 2 merges |
| `atomic_write` | overlapping replacements of one document | 3 calls, 2 temporary names, payloads of 2 parts |
| `tools` | the sweep, the tracker, the release | 2 threads, 2 broken calls, 2 changes by people; 2 labels or milestones, 2 findings, 2 faults, 2 edits; 2 runs, 2 slots, 1 kill |
| `verify_regresses`, `torn_report`, `silent_survivor`, `complete_without_source` | four promises of the repository, violated | as above; the third with 1 byte a stream, the last with 2 ids and no change |

*run_lifecycle.* `RankedPassedRoundTrip`: whatever is ranked in a manifest, a report or
an archive was proved by verify, and an artifact altered before verify never is.
`SpoiledNeverCompared`: an artifact altered between verify and the equivalence run is
never benchmarked by it. `ReportShowsEvidence`: a REPORTED manifest has a report that
shows it, and the results that are, or after a crash will be, on disk.
`ManifestNotAheadOfResults`: a reportable manifest of a results-first profile has the
results of the same run. `MetadataBeforeJobs`: the estimand on disk is that of the
running jobs. `EntriesFollowContract`: refinement of `LifecycleContract`.

*bounded_process.* `CrashIsTheWorkersOwn`: a case is CRASHED only if the worker died of a
signal of its own. `KillReachesGroup`: after `killpg` whatever lives on has left the
group. `NothingUnread`, `ResponseIsWhole`: a verdict rests on complete output after a
clean exit in time. `BudgetIsShared`: the tails fill exactly the budget and each
stream keeps its half. `AlwaysReturns`.

*fresh_workers.* `NothingRunsAfterReturn`, `FollowsContract` (refinement of `JobContract`,
which contains that a job is MEASURED only from all of its processes), `AlwaysDecided`.

*nyc_capture.* `OutputIsSnapshot`: refinement of `SnapshotContract`, source.csv is the
table of one moment. `RowsHaveEvidence`, `CompleteIsWhole`, `FinalIsFinal`, `AlwaysEnds`.

*robustness.* `BudgetIsKept`, `ResultsAreFounded`: a measured result has all its evidence
files, written by the attempt that published it. `GreenIsEarned`: a green gate means that
nothing is missing. `PassIsEarned`, `FailIsTheTargets`: for one case, against the
history of what the worker did.

*equivalence.* `ConclusionsAgree`, `VerdictIsFounded`: verdicts, states, status and the
two records on sizes, against what was measured. The status tells which formats this run
benchmarked and which failed in it (`StatusAgrees`), beside any that failed before. `MergedIsARun`: jobs, evidence,
environment, files and timings of a merged run are those of one run; `OneMergeInOutput`.

*atomic_write.* `FollowsContract`: refinement of `DocumentContract`.
`PrivateUntilPublished`: no payload can be read by others before it is the document.

*tools.* `NothingTwice`: no second issue or reply, whatever answers are lost.
`BrokenSweepIsTakenUp`: what a broken sweep leaves is never what sweeps refuse.
`AuditWritesWhatIs`, `ArchiveIsFounded`, and the liveness of the three: `BothConverge`,
`EventuallyPackaged`.

Why the bounds are enough. Two formats are the least that give a pair, a fair and a
non-fair entry, and a run in which one entry has failed and another has not; two
profile runs are the least that let a second profile or a second verify meet what a
first one left after a crash. One descendant can be in or out of the group, hold either
pipe, and outlive the worker; two bytes a stream against a budget of two reach a
partial read, a filled tail and an exhausted budget. Whatever the supervisor's instance leaves out
is in the proofs, which cover any number of descendants and any budget. Four processes
on two threads reach a state with one failed, one running, one cancelled and one
still pending. Two rows wanted of three ids give captures of one page and of two, rows
that appear before and after the cursor, and tables too small; two changes let a row
change and change back under a capture. A budget of 11 ends the bounded suite inside a
case and one of 20 does not, and two attempts let one meet the other's files; the native
budget of 12 holds the evidence of some targets and not of others. The intervals lie within,
beyond on either side of and across the bounds, and touch them. Three calls of
`atomic_write_json` are the least in which a third one finds a document, a failed
call's temporary and a call under way; two names make them meet. Two threads let one
obstruct the other; two broken calls let a second sweep break where the first one was
continued; two edits let a thread be resolved and reopened.

Deadlock checking is off where a model may really stop: a job that has returned, a
supervised process that waits for ever, a directory whose prepare died, a capture, suite,
merge or release that has ended.

Fairness. Of the supervisor: its own steps, the clock and the kernel's delivery of
signals are weakly fair, and nothing is assumed of the supervised processes. Of the
pool: the calling thread and the pool's threads run, and each process ends because
`subprocess.run` has a timeout. Of the capture: it goes on or fails, because each request
has a timeout. Of the sweep: the schedule starts it again and a started one goes on;
its calls fail and people edit only finitely often (the bounds), which the property
speaks of: when that ends, the work converges. Of the tracker: a command goes on, and apply
is given again (strongly fair, since between two of them verify may be given instead). Of
the release: whoever wants it starts the finalization again, a started one goes on, and
runs with results are reported. The run lifecycle has no liveness: a
command may always be the last one.

Each property of a passing run has a mutant in `PROJECT.json`: a definition of the
model with a bug that code like this could have, under which TLC finds the property
violated. The mutated forms stand beside the definitions, marked "A bug".

## What the runs found

* `verify_regresses`. `verify_run` recomputes the run's state from its entries and never
  looks at the state it has. Claims, prompt and robustness move the run and not its
  entries, so verifying such a run again takes it from BENCHMARKED or REPORTED back
  to ROUNDTRIP_VERIFIED (`workflow.py:363-379`), against the contract at
  `workflow.py:190-191`, and a second profile may then run on it. The entries
  themselves always follow the contract (`EntriesFollowContract`).
* `torn_report`. `report.md` is the one document written in place (`report.py:846`). A
  second rendering that is stopped there leaves REPORTED documents and an empty
  report; `package_run` wants the report only to exist and archives it, against
  `release.py:424-425`.
* `silent_survivor`. The supervisor's loop can end without `cleanup_group`: both pipes
  are at end of file and the leader exits before the next test. A descendant that
  closed its pipes then runs on, and `cleanup_incomplete` is false, against
  `src/docs/specs/robustness-v1.md:44`. `KillReachesGroup` holds nonetheless: it
  speaks of what happens once the group *is* killed.
* `complete_without_source`. `succeeded` is set after `finalize_capture` has written
  COMPLETE (`dataset_sources.py:182-183`). A KeyboardInterrupt in between is caught like any
  error; the record, no longer active, stays, and the `finally` clause removes
  source.csv, against `dataset_sources.py:180-181`.

Four more promises do not hold of the model. They are stated in the modules, and a
configuration beside them, which is not one of the runs above, makes TLC show the
behaviour (`tlc -config <cfg> <module>`):

* `HardBudget` (`RobustnessSuite`, `HardBudget.cfg`). `import_path` copies before it counts
  (`robustness/evidence.py:78-85`): a copy that fails half way leaves bytes in the store
  that the budget does not know of, while `src/docs/specs/robustness-v1.md:22` asks for
  a hard budget. `BudgetIsKept` is what does hold: the budget is kept apart from those.
* `MutationsCounted` (`RobustnessSuite`, `MutationsCounted.cfg`). `_incomplete` drops the
  recipe of a mutation (`robustness/profile.py:273`), and the summary counts mutations by
  it (`robustness/summary.py:175-178`), so one that could not be carried out is in the
  results and not in the denominator that `src/README.md:79` describes.
* `CrashIsKept` (`MCRobustness`, `CrashIsKept.cfg`). A native target that crashed and whose
  evidence does not fit is published as BUDGET_EXHAUSTED, verdict INCOMPLETE
  (`robustness/native.py:404-410`), against `src/docs/native-robustness.md:14`.
* `SyncForward` (`AuditSync`, `SyncRegresses.cfg`). Of two overlapping commands the one
  that loaded APPLIED and ends last writes it over the VERIFIED of the other
  (`tools/audit_tracker.py:496-521`), against `tools/audit_github.py:21-23`.

Seen while modelling and kept as hazards or notes: `run_equivalence` writes its
manifest before its results; a crashed claims run blocks the directory, as does a crashed
merge its output; a fair run without fair entries is FAILED with status MEASURED; an equivalence run is
MEASURED or UNSUPPORTED also beside entries that FAILED in prepare or verify, which its status
does not speak of (`equivalence_run.py:165-207`); a checksum may be
older than its archive; a slow supervisor may report a complete run as timed out; a
write that is killed between the rename and the restored mode leaves a document of mode
0600; a loss of power may bring back an earlier document after the call has returned; two
sweeps at once create two issues; one thread whose issue a person closed stops the sweep
for all threads.

## What is proved

The proof modules prove for every value of the constants (any sets of formats, pairs and
profiles; any number of descendants, processes, threads, calls and names; any budget), from
the assumptions named in the modules:

* `RunLifecycle_proofs`: `TypeCorrect`, `RankedIsProved`, `EntriesImplementContract`.
  `RankedPassedRoundTrip` is not inductive: it says nothing of the manifest in a
  command's memory, which the next step writes. The invariant `SafeInv` adds that
  both copies of each document are sound, that an entry still ENCODED was never
  proved, that memory differs from the disk only as the command at `pc` may have
  changed it, and that an artifact altered before it was verified stays so marked.
  The refinement of the contract follows from the same invariant: each write moves
  each entry from the durable state to the one in memory, and `MemoryFollows` says
  that this is one legal transition.
  Further `NothingSpoiledIsCompared`, `ReportIsOfTheEvidence`, `ResultsBackManifest`,
  `EstimandPrecedesJobs`, about the documents as records. The invariant
  `RecordInv` says of a manifest that its results back it, that its estimand is that of the
  run it shows, and that it compares nothing altered. It says so of the manifest on disk
  always, and of the one in memory from the moment it may be written; until then memory is
  the disk but for what was verified. An artifact altered since it was verified stops
  admission, and `WhileMeasuring` keeps that for the pairs whose jobs run.
* `BoundedProcess_proofs`: `SharedBudget` (with `BudgetIsFilled`, `NoStarvation`), from the
  arithmetic of one trim (a lemma per case: which tail is above its floor, and whether
  the excess fits). Then `SupervisorTypes`, `GroupIsKilled`, `CrashIsOwn`, `AllIsRead`,
  `VerdictIsWhole`: the invariant `ProcessInv` relates `pc` to what the loop has
  established: a leader killed by the supervisor has timed out, a pipe no longer
  watched has neither bytes nor a writer unless the drain was given up, and
  the tails are the whole output while it is within the budget.
* `FreshWorkers_proofs`: `TypeCorrect`, `Measured`, `Quiet`, `Bounded`, `Implements`. The
  invariant relates futures, outcomes and `pc`: a cancelled future has no outcome, only a
  consumed failure leads to the cancel loop, and the cancel loop has passed every
  future below `next`. `Bounded` (`BoundedConcurrency`) is an invariant by itself: only `Start`
  adds to the running futures.
* `NycCapture_proofs`: `EvidencePrecedesRows`, `EndedStays`, `CompleteCaptures`,
  `PublishesSnapshots`. The invariant `Inv` says that the
  evidence in memory covers the rows received and the files, because it is what the
  next write makes the record, that it equals the record where rows are handed on or
  published, and that a record that has ended exists only at points from which no
  write follows. That `source.csv` is a snapshot of one revision, and so the refinement of
  `SnapshotContract`, rests on `ReadInv`: the rows received are the first rows of the table
  while its revision is the one read at the start, since a page begins after the last row
  received. `WholeInv` adds what a COMPLETE record says of the file.
* `Equivalence_proofs` (of `MCEquivalence`), the merge: `MergeIsOneRun`, `OneMergeWrites`. The
  properties speak of the published documents only. `ShardsInv` adds that a fully measured
  shard is a run over its pairs, `ReadOK` that what a merge has read so far is one too
  (`RunsJoin`: jobs and evidence of two sets of pairs are those of each), and `WritingInv`
  that the merge that writes is the owner of the directory. A shard is measured once, so
  what a merge has read of it stays; and at most one of the base run and the shards is
  altered, so a shard accepted for its files was measured on them.
* `Equivalence_proofs`, the run: `ConclusionsOfARun`, `VerdictsAreFounded`, and for both
  `DocumentShapes`. `RunInv` says which jobs are run (`JobsAdmitted`: on fresh artifacts, with
  the sizes the estimand expects), and that every candidate of a pair none of whose jobs
  failed has its interval (`Intervalled`); nothing is concluded before the end, and then every
  conclusion is computed from what no step changes any more. Until then an entry that is
  FAILED failed before the run (`NothingYet`), which tells it from one whose jobs failed. It
  rests on three facts of the registry: there is a pair (`RegisteredAssumption`), a candidate
  belongs to one pair (`CandidatesAssumption`, `PAIR_SPECS`,
  `equivalence_compare.py:91-164`), and the formats that reach the terminal state are formats
  (`TerminalAssumption`).
* `Robustness_proofs` (of `MCRobustness`): `PassEarnedByTheWorker`, `FailChargedToTheTarget`,
  `EvidenceWithinBudget`, `MeasuredHasEvidence`, `GreenMeansCarriedOut`, `ShapesAreKept`.
  `CaseInv`: what a worker is going to answer follows from the path it took, what it printed is
  that answer or cannot be parsed, the way the process ended tells which events there were,
  and a result is what is concluded from these. `SuiteInv`: the files of the attempt under way
  are its own and are written in order, their bytes are counted, and what is left of the
  budget covers the outcome of the case at hand (`RoomForOutcome`), so that no result is
  lost to the budget after its worker ran. `NativeInv` says the same of the native suite, where
  the evidence of a target is written after it ended. The proof is for any list of targets, any
  file sizes and any budget. It also corrected the model: two arms of the outcome's `CASE`
  overlapped, and TLA+ gives them no order as the code's `if` chain does
  (`robustness/runner.py`), so `Outcome` is an `IF` chain now.
* `Tools_proofs` (of `MCTools`): `WhatASweepLeaves`, `TheRegistryIsTrue`, `NothingIsDoneTwice`,
  `TheArchiveIsFounded`, `ToolsTyped`; an invariant for each tool.
  `CloseoutInv` (the sweep): no two issues have one thread, the only reply to a thread names
  its issue, and the issues a sweep knows are all there are, because it is the only one under
  way; while nobody has edited, labels, priorities and resolutions are as sweeps left them.
  `AuditInv` (the tracker, any number of commands): what a command has seen is still there, since
  nobody closes issues, and unless somebody edited it, what looked as declared is as declared;
  so the phase after which nothing is left to do is followed by a true registry.
  `OnceInv` adds that a command plans with the issues that are there.
  `NothingIsDoneTwice` therefore assumes `OneCommand`: two overlapping commands can both
  find an issue missing and both create it, and nothing in the code keeps them apart.
  `ReleaseInv` (the release): while a finalization is under way the documents of a run only
  advance from BENCHMARKED to REPORTED, and a copy is not newer than the digest of its row, nor
  the digest than the document. Hence a copy that equals the document when it is packaged has
  the digest (`CopyHasDigests`), though the digest was taken from the run and not from the
  copy. It also needs that completeness does not change with a report, as it is decided
  twice (`BeforeFully`). The proof is for any candidates, slots, runs and kills.
* `AtomicWrite_proofs`: `TypeCorrect`, `DocumentWhole`, `UnpublishedIsPrivate`, `TemporaryIsOwned`,
  `Implements`. That the document is whole is not inductive, since `Replace` publishes
  whatever has the temporary name. `NameInv` adds that a call under way owns its name,
  and `FileInv` that a file is private until it is published and synchronised in full before.
  With them every step publishes, loses power or stutters in the contract.

The invariants of the `MC` modules are proved of `MCSpec`, so they hold whichever part is
chosen at the start; the sizes, targets, pairs and measured outcomes that a configuration
fixes (`NativeSizes`, `Selected`, `RunPairs`, `Reference`, ...) are constants there, and the
theorems hold for every value that satisfies the named assumptions.

Only model-checked: the liveness properties (`AlwaysReturns`, `AlwaysDecided`, `AlwaysEnds`,
`BothConverge`, `EventuallyPackaged`), because the prover cannot reason about fairness and
ENABLED. Every invariant and every action property that a run checks is proved. Two more
things are out of its reach and are avoided by the way the modules are written: induction
over data and RECURSIVE operators.

## Plan

What there is was built in this order: the run lifecycle; the supervisor; the pool; the
capture; then the suites, the verdicts, the document writes, the merge and the tools.
What would come next, by what it would add:

1. `ShardMerge` as a refinement of one `EquivalenceVerdicts` run over all pairs, instead of
   the equalities of `MergedIsARun`.

## Not modelled

Format adapters, claims, prompts and measured workers are calls of other libraries or
straight computations; the model has their outcomes as choices. Statistics are data: the
bootstrap is any interval it may return. The tables of robustness cases and mutations are
data without state. Rendering, wording and layout of reports are left out, as are the path
rewriting inside archives, argument parsing, the downloads of the other datasets, and the
one-time declaration of labels. Path containment, symlinks, owners and strict parsing are
checks of single calls without a history. `PROJECT.json` gives the reason for each
component.

Three simplifications inside the modules: in `RobustnessCase` what a target prints reaches
stdout and a worker that has booted does not exit nonzero (floods and exit codes are in
`BoundedProcess`), and a rejection stands also for the harness's own schema comparison
(`robustness/targets.py:84-87`); in `Revalidation` no run is measured anew while the archive
is built; in `AuditSync` one command runs at a time, so an effect whose answer was lost is
what the next reading finds.
