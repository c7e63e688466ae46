---------------------------- MODULE FreshWorkers ----------------------------
(***************************************************************************)
(* One benchmark job (run_job in runner.py): its fresh processes are       *)
(* submitted to a bounded thread pool, the calling thread consumes the     *)
(* futures as they complete, and the first failure cancels what has not    *)
(* started and waits for what is running.                                  *)
(***************************************************************************)
EXTENDS Integers, FiniteSets

CONSTANTS
    Processes,      \* config.fresh_processes: the job's attempts are 1..Processes
    Workers,        \* config.fresh_workers
    EvidenceValues  \* what a successful worker reports; equal in a sound run

ASSUME ProcessesAssumption == Processes \in Nat \ {0}
ASSUME WorkersAssumption == Workers \in Nat \ {0}
ASSUME EvidenceAssumption ==
    EvidenceValues \cap {"open", "failed", "raised", "skipped", "none"} = {}

Attempts == 1..Processes

\* max_workers=min(fresh_workers, fresh_processes)
PoolSize == IF Workers <= Processes THEN Workers ELSE Processes

VARIABLES
    future,         \* future[i]: "pending", "running", "finished", "cancelled"
    outcome,        \* outcome[i]: "none", "failed", "raised", or the evidence
    consumed,       \* the futures as_completed has yielded to the calling thread
    pc,             \* the calling thread: "collect", "cancel", "shutdown", "join", "returned"
    next,           \* the next future the cancel loop comes to
    result          \* what run_job returns: "none", "FAILED", "MEASURED"

vars == <<future, outcome, consumed, pc, next, result>>

In(st) == {i \in Attempts : future[i] = st}

Init ==
    /\ future = [i \in Attempts |-> "pending"]
    /\ outcome = [i \in Attempts |-> "none"]
    /\ consumed = {}
    /\ pc = "collect" /\ next = 1
    /\ result = "none"

-----------------------------------------------------------------------------
(* The pool's threads *)

\* A bug: the threads stop taking work at a failure, and the join still waits for it.
StartUntilFailure(i) ==
    /\ i \in In("pending") /\ \A j \in In("pending") : i <= j
    /\ Cardinality(In("running")) < PoolSize
    /\ result = "none"
    /\ future' = [future EXCEPT ![i] = "running"]
    /\ UNCHANGED <<outcome, consumed, pc, next, result>>

\* A free thread takes the oldest pending future off the queue.
Start(i) ==
    /\ i \in In("pending") /\ \A j \in In("pending") : i <= j
    /\ Cardinality(In("running")) < PoolSize
    /\ future' = [future EXCEPT ![i] = "running"]
    /\ UNCHANGED <<outcome, consumed, pc, next, result>>

\* _run_fresh_process ends, at the latest when its timeout kills the worker: it
\* returns the evidence or a failure, or it raises (the command cannot be started).
Complete(i) ==
    /\ i \in In("running")
    /\ future' = [future EXCEPT ![i] = "finished"]
    /\ \E o \in EvidenceValues \cup {"failed", "raised"} : outcome' = [outcome EXCEPT ![i] = o]
    /\ UNCHANGED <<consumed, pc, next, result>>

-----------------------------------------------------------------------------
(* The calling thread *)

\* as_completed yields a finished future that succeeded.
ConsumeSuccess(i) ==
    /\ pc = "collect" /\ i \in In("finished") \ consumed
    /\ outcome[i] \in EvidenceValues
    /\ consumed' = consumed \cup {i}
    /\ UNCHANGED <<future, outcome, pc, next, result>>

\* A bug: a failed process is dropped and the rest is collected.
ConsumeAndForget(i) ==
    /\ pc = "collect" /\ i \in In("finished") \ consumed
    /\ outcome[i] = "failed"
    /\ consumed' = consumed \cup {i}
    /\ UNCHANGED <<future, outcome, pc, next, result>>

\* It yields a failure: that is what run_job will return.
ConsumeFailure(i) ==
    /\ pc = "collect" /\ i \in In("finished") \ consumed
    /\ outcome[i] = "failed"
    /\ consumed' = consumed \cup {i}
    /\ result' = "FAILED"
    /\ pc' = "cancel"
    /\ UNCHANGED <<future, outcome, next>>

\* future.result() raises: nothing is cancelled, the finally clause joins the pool
\* and _run_job_evidence makes the exception a FAILED result.
ConsumeException(i) ==
    /\ pc = "collect" /\ i \in In("finished") \ consumed
    /\ outcome[i] = "raised"
    /\ consumed' = consumed \cup {i}
    /\ result' = "FAILED"
    /\ pc' = "join"
    /\ UNCHANGED <<future, outcome, next>>

\* for pending in futures: pending.cancel() -- a running future cannot be cancelled,
\* and the threads go on taking later ones while the loop runs.
Cancel ==
    /\ pc = "cancel" /\ next <= Processes
    /\ future' = IF future[next] = "pending" THEN [future EXCEPT ![next] = "cancelled"]
                 ELSE future
    /\ next' = next + 1
    /\ UNCHANGED <<outcome, consumed, pc, result>>

CancelDone ==
    /\ pc = "cancel" /\ next > Processes
    /\ pc' = "shutdown"
    /\ UNCHANGED <<future, outcome, consumed, next, result>>

\* A bug: the pool is shut down without waiting for its threads.
ShutdownNoWait ==
    /\ pc = "shutdown"
    /\ pc' = "returned"
    /\ UNCHANGED <<future, outcome, consumed, next, result>>

\* executor.shutdown(wait=True, cancel_futures=True)
Shutdown ==
    /\ pc = "shutdown"
    /\ future' = [i \in Attempts |-> IF future[i] = "pending" THEN "cancelled" ELSE future[i]]
    /\ pc' = "join"
    /\ UNCHANGED <<outcome, consumed, next, result>>

\* The pool's threads have run out of work: run_job returns the failure.
Join ==
    /\ pc = "join"
    /\ In("pending") = {} /\ In("running") = {}
    /\ pc' = "returned"
    /\ UNCHANGED <<future, outcome, consumed, next, result>>

\* Every process succeeded: the job is measured if their evidence agrees with the last's.
Aggregate ==
    /\ pc = "collect" /\ consumed = Attempts
    /\ result' = IF \A i \in Attempts : outcome[i] = outcome[Processes] THEN "MEASURED"
                 ELSE "FAILED"
    /\ pc' = "returned"
    /\ UNCHANGED <<future, outcome, consumed, next>>

Caller == \/ \E i \in Attempts : ConsumeSuccess(i) \/ ConsumeFailure(i) \/ ConsumeException(i)
          \/ Cancel \/ CancelDone \/ Shutdown \/ Join \/ Aggregate
Pool == \E i \in Attempts : Start(i) \/ Complete(i)

Next == Caller \/ Pool

\* The calling thread and the pool's threads run; every worker ends because
\* subprocess.run bounds it with timeout_seconds.
Fairness == WF_vars(Caller) /\ WF_vars(\E i \in Attempts : Start(i))
            /\ \A i \in Attempts : WF_vars(Complete(i))

Spec == Init /\ [][Next]_vars /\ Fairness

-----------------------------------------------------------------------------
(* Properties *)

\* Every variable has its type.
TypeOK ==
    /\ future \in [Attempts -> {"pending", "running", "finished", "cancelled"}]
    /\ outcome \in [Attempts -> {"none", "failed", "raised"} \cup EvidenceValues]
    /\ consumed \subseteq Attempts
    /\ pc \in {"collect", "cancel", "shutdown", "join", "returned"}
    /\ next \in 1..(Processes + 1)
    /\ result \in {"none", "FAILED", "MEASURED"}

\* No process is silently removed: a job is MEASURED only if every fresh process ran,
\* succeeded and reported the same evidence (runner.py:234-249).
MeasuredMeansEveryProcess ==
    result = "MEASURED" =>
        \E e \in EvidenceValues : \A i \in Attempts : future[i] = "finished" /\ outcome[i] = e

\* At most fresh_workers processes measure at the same time, so they do not contend
\* for more than was declared.
BoundedConcurrency == Cardinality(In("running")) <= PoolSize

\* When run_job has returned, no process of the job is running or can still start: the
\* next job is measured alone (runner.py:237, 241-243).
NothingRunsAfterReturn == pc = "returned" => In("running") = {} /\ In("pending") = {}

Contract == INSTANCE JobContract WITH
    Attempts <- Attempts,
    ended <- [i \in Attempts |->
                IF future[i] = "cancelled" THEN "skipped"
                ELSE IF outcome[i] = "none" THEN "open"
                ELSE IF outcome[i] = "raised" THEN "failed" ELSE outcome[i]],
    verdict <- IF pc = "returned" THEN result ELSE "none"

\* The pool implements the contract of a job: attempts are skipped only after a failure,
\* and the job is decided once, when no attempt is open, by the contract's rule: a
\* cancelled attempt is never the failure that is reported, nor does it hide one
\* (runner.py:229-249).
FollowsContract == Contract!Spec

\* run_job returns, however its processes end.
AlwaysDecided == <>(pc = "returned")

=============================================================================
