--------------------------- MODULE BoundedProcess ---------------------------
(***************************************************************************)
(* The supervision of one robustness worker (robustness/runner.py,         *)
(* _process and _outcome).  The supervisor starts the worker as the leader *)
(* of its own process group, reads its two pipes, kills the group when the *)
(* leader exits or the deadline passes, and bounds the final drain of the  *)
(* pipes, which a descendant that left the group may hold open.            *)
(*                                                                         *)
(* The supervised processes fork, leave the group, close pipes, write and  *)
(* exit as they like and when they like, or never.                         *)
(***************************************************************************)
EXTENDS OutputTail

CONSTANTS
    Leader,         \* the worker
    Descendants     \* the processes it may come to have started

ASSUME LeaderAssumption == Leader \notin Descendants

Processes == {Leader} \cup Descendants
Pipes == {"stdout", "stderr"}

VARIABLES
    life,           \* life[p]: "unborn", "alive", "doomed" (SIGKILL is pending), "dead"
    detached,       \* the processes that left the group with setsid()
    holds,          \* holds[p]: the pipes whose write end p has open
    pending,        \* pending[q]: bytes written to pipe q and not yet read
    exit,           \* how the leader ended: "none", "zero", "nonzero", "signal", "killed"
    pc,             \* the supervisor's place in the loop
    open,           \* the pipes its selector still watches
    deadline,       \* the case's deadline has passed
    drain,          \* the drain grace: "off", "running", "over"
    cleanupSent,    \* killpg has been called
    timedOut,       \* evidence: timed_out
    incomplete,     \* evidence: cleanup_incomplete
    observed        \* the outcome of the case, "none" until it is decided

os == <<life, detached, holds, exit>>
evidence == <<timedOut, incomplete, observed>>
clock == <<deadline, drain>>
vars == <<os, pending, pc, open, clock, cleanupSent, evidence, tailVars>>

Running(p) == life[p] \in {"alive", "doomed"}
Polled == ~Running(Leader)          \* process.poll() is not None
Written(q) == \E p \in Processes : Running(p) /\ q \in holds[p]   \* q has a writer

Init ==
    /\ life = [p \in Processes |-> IF p = Leader THEN "alive" ELSE "unborn"]
    /\ detached = {}
    /\ holds = [p \in Processes |-> IF p = Leader THEN Pipes ELSE {}]
    /\ pending = [q \in Pipes |-> 0]
    /\ exit = "none"
    /\ pc = "test" /\ open = Pipes
    /\ deadline = FALSE /\ drain = "off"
    /\ cleanupSent = FALSE
    /\ timedOut = FALSE /\ incomplete = FALSE /\ observed = "none"
    /\ TailInit

-----------------------------------------------------------------------------
(* The supervised processes *)

Fork(p, k) ==
    /\ life[p] = "alive" /\ life[k] = "unborn"
    /\ life' = [life EXCEPT ![k] = "alive"]
    /\ holds' = [holds EXCEPT ![k] = holds[p]]
    /\ detached' = IF p \in detached THEN detached \cup {k} ELSE detached
    /\ UNCHANGED <<pending, exit, pc, open, clock, cleanupSent, evidence, tailVars>>

\* setsid(): a group leader cannot call it.
Detach(k) ==
    /\ k # Leader /\ life[k] = "alive"
    /\ detached' = detached \cup {k}
    /\ UNCHANGED <<life, holds, pending, exit, pc, open, clock, cleanupSent, evidence, tailVars>>

ClosePipe(p, q) ==
    /\ life[p] = "alive" /\ q \in holds[p]
    /\ holds' = [holds EXCEPT ![p] = @ \ {q}]
    /\ UNCHANGED <<life, detached, pending, exit, pc, open, clock, cleanupSent, evidence, tailVars>>

BytesOf(q) == IF q = "stdout" THEN outBytes ELSE errBytes

Write(p, q) ==
    /\ life[p] = "alive" /\ q \in holds[p]
    /\ pending[q] < MaxChunk
    /\ BytesOf(q) + pending[q] < MaxBytes
    /\ pending' = [pending EXCEPT ![q] = @ + 1]
    /\ UNCHANGED <<os, pc, open, clock, cleanupSent, evidence, tailVars>>

Die(p, how) ==
    /\ life' = [life EXCEPT ![p] = "dead"]
    /\ holds' = [holds EXCEPT ![p] = {}]
    /\ exit' = IF p = Leader THEN how ELSE exit
    /\ UNCHANGED <<detached, pending, pc, open, clock, cleanupSent, evidence, tailVars>>

Exit(p, how) == life[p] = "alive" /\ Die(p, how)

\* The kernel delivers a pending SIGKILL.
Deliver(p) == life[p] = "doomed" /\ Die(p, "killed")

\* Time passes.
DeadlinePasses ==
    /\ ~deadline /\ deadline' = TRUE
    /\ UNCHANGED <<os, pending, pc, open, drain, cleanupSent, evidence, tailVars>>
DrainGracePasses ==
    /\ drain = "running" /\ drain' = "over"
    /\ UNCHANGED <<os, pending, pc, open, deadline, cleanupSent, evidence, tailVars>>

-----------------------------------------------------------------------------
(* _process *)

\* A bug: only the leader is killed.
KillLeader ==
    /\ cleanupSent' = TRUE
    /\ life' = IF Running(Leader) THEN [life EXCEPT ![Leader] = "doomed"] ELSE life

\* cleanup_group: SIGKILL to every member of the group, once.
KillGroup ==
    /\ cleanupSent' = TRUE
    /\ life' = IF cleanupSent THEN life
               ELSE [p \in Processes |-> IF Running(p) /\ p \notin detached
                                         THEN "doomed" ELSE life[p]]

\* while selector.get_map() or process.poll() is None
LoopTest ==
    /\ pc = "test"
    /\ pc' = IF open # {} \/ ~Polled THEN "check" ELSE "wait"
    /\ UNCHANGED <<os, pending, open, clock, cleanupSent, evidence, tailVars>>

\* A bug: the drain is not bounded.
DrainForever == drain' = drain

StartDrain == drain' = IF drain = "off" THEN "running" ELSE drain

\* A bug: the deadline kills the group but is not recorded.
CheckLeaderUnrecorded ==
    /\ pc = "check"
    /\ IF Polled \/ deadline THEN KillGroup /\ StartDrain
       ELSE UNCHANGED <<life, cleanupSent, drain>>
    /\ pc' = "drain"
    /\ UNCHANGED <<detached, holds, exit, pending, open, deadline, evidence, tailVars>>

\* The leader has exited, or the deadline has passed, or neither.
CheckLeader ==
    /\ pc = "check"
    /\ IF Polled \/ deadline THEN KillGroup /\ StartDrain
       ELSE UNCHANGED <<life, cleanupSent, drain>>
    /\ timedOut' = (timedOut \/ (~Polled /\ deadline))
    /\ pc' = "drain"
    /\ UNCHANGED <<detached, holds, exit, pending, open, deadline, incomplete, observed, tailVars>>

\* The grace is over: give the pipes up and say that cleanup is incomplete.
GiveUp ==
    /\ pc = "drain" /\ drain = "over"
    /\ timedOut' = TRUE /\ incomplete' = TRUE
    /\ open' = {}
    /\ pc' = "wait"
    /\ UNCHANGED <<os, pending, clock, cleanupSent, observed, tailVars>>

\* Nothing is left to read: sleep and test again.  Otherwise select.
KeepGoing ==
    /\ pc = "drain" /\ drain # "over"
    /\ pc' = IF open = {} THEN "test" ELSE "select"
    /\ UNCHANGED <<os, pending, open, clock, cleanupSent, evidence, tailVars>>

\* What reading all that is pending does to the tails: stdout first, then stderr.
Retain(n, m) ==
    LET t == AppendStdout(outTail, errTail, n)
        u == AppendStderr(t[1], t[2], m)
    IN /\ outTail' = u[1] /\ errTail' = u[2]
       /\ outBytes' = outBytes + n /\ errBytes' = errBytes + m

Pending(q) == IF q \in open THEN pending[q] ELSE 0

\* A bug: the loop leaves the pipes as soon as the leader has been reaped.
SelectUntilExit ==
    /\ pc = "select"
    /\ Retain(Pending("stdout"), Pending("stderr"))
    /\ open' = IF Polled THEN {} ELSE {q \in open : pending[q] > 0 \/ Written(q)}
    /\ pending' = [q \in Pipes |-> IF q \in open THEN 0 ELSE pending[q]]
    /\ pc' = "test"
    /\ UNCHANGED <<os, clock, cleanupSent, evidence>>

\* select returns the readable pipes: one with bytes yields a chunk, one without
\* bytes and without a writer yields end of file and is unregistered.
Select ==
    /\ pc = "select"
    /\ Retain(Pending("stdout"), Pending("stderr"))
    /\ open' = {q \in open : pending[q] > 0 \/ Written(q)}
    /\ pending' = [q \in Pipes |-> IF q \in open THEN 0 ELSE pending[q]]
    /\ pc' = "test"
    /\ UNCHANGED <<os, clock, cleanupSent, evidence>>

\* An exception in the loop or the wait after it (an interrupt): the finally block kills a live leader.
Interrupt ==
    /\ pc \in {"test", "check", "drain", "select", "wait"}
    /\ IF Polled THEN UNCHANGED <<life, cleanupSent>> ELSE KillGroup
    /\ open' = {}
    /\ pc' = "unwind"
    /\ UNCHANGED <<detached, holds, exit, pending, clock, evidence, tailVars>>

\* process.wait() in the finally block, then the exception goes on.
Unwind ==
    /\ pc = "unwind" /\ Polled
    /\ pc' = "raised"
    /\ UNCHANGED <<os, pending, open, clock, cleanupSent, evidence, tailVars>>

\* What the response of worker.py says besides HARNESS_FAILED.  _outcome itself takes
\* any outcome's name; worker.py uses no other.
Responses == {"ROUNDTRIP_EQUAL", "ACCEPTED", "REJECTED", "VALUE_MISMATCH", "UNSUPPORTED"}

OutputExhausted == outBytes + errBytes > Budget

\* A bug: an exhausted output budget goes unnoticed.
OutcomeOfTail ==
    IF timedOut THEN {"TIMED_OUT"}
    ELSE IF exit \in {"signal", "killed"} THEN {"CRASHED"}
    ELSE IF exit # "zero" THEN {"HARNESS_FAILED"}
    ELSE Responses \cup {"HARNESS_FAILED"}

\* _outcome: a timeout hides a signal, which hides exhaustion, which hides an exit code.
Outcome ==
    IF timedOut THEN {"TIMED_OUT"}
    ELSE IF exit \in {"signal", "killed"} THEN {"CRASHED"}
    ELSE IF OutputExhausted THEN {"BUDGET_EXHAUSTED"}
    ELSE IF exit # "zero" THEN {"HARNESS_FAILED"}
    ELSE Responses \cup {"HARNESS_FAILED"}

\* process.wait() returns once the leader is gone; the case is classified.
Classify ==
    /\ pc = "wait" /\ Polled
    /\ observed' \in Outcome
    /\ pc' = "done"
    /\ UNCHANGED <<os, pending, open, clock, cleanupSent, timedOut, incomplete, tailVars>>

Supervise == LoopTest \/ CheckLeader \/ GiveUp \/ KeepGoing \/ Select \/ Unwind \/ Classify

ProcessStep ==
    \/ \E p \in Processes, k \in Descendants : Fork(p, k)
    \/ \E k \in Descendants : Detach(k)
    \/ \E p \in Processes, q \in Pipes : ClosePipe(p, q) \/ Write(p, q)
    \/ \E p \in Processes : \E how \in {"zero", "nonzero", "signal"} : Exit(p, how)

Delivery == \E p \in Processes : Deliver(p)

Next == Supervise \/ Interrupt \/ ProcessStep \/ Delivery
        \/ DeadlinePasses \/ DrainGracePasses

\* The supervisor runs, time passes and the kernel delivers signals.  Nothing is
\* assumed of the supervised processes.
Fairness ==
    /\ WF_vars(Supervise) /\ WF_vars(DeadlinePasses) /\ WF_vars(DrainGracePasses)
    /\ \A p \in Processes : WF_vars(Deliver(p))

Spec == Init /\ [][Next]_vars /\ Fairness

-----------------------------------------------------------------------------
(* Properties *)

\* Every variable has its type.
TypeOK ==
    /\ life \in [Processes -> {"unborn", "alive", "doomed", "dead"}]
    /\ detached \subseteq Descendants
    /\ holds \in [Processes -> SUBSET Pipes]
    /\ pending \in [Pipes -> Nat]
    /\ exit \in {"none", "zero", "nonzero", "signal", "killed"}
    /\ pc \in {"test", "check", "drain", "select", "wait", "done", "unwind", "raised"}
    /\ open \subseteq Pipes
    /\ deadline \in BOOLEAN /\ drain \in {"off", "running", "over"}
    /\ cleanupSent \in BOOLEAN /\ timedOut \in BOOLEAN /\ incomplete \in BOOLEAN
    /\ observed \in Responses \cup {"none", "TIMED_OUT", "CRASHED", "BUDGET_EXHAUSTED",
                                    "HARNESS_FAILED"}
    /\ TailTypeOK

\* The supervisor's own SIGKILL is never reported as a crash of the worker: CRASHED
\* is said only of a leader that died of a signal of its own, also when it dies
\* between the deadline and the kill (runner.py:289-297, 350-355).
CrashIsTheWorkersOwn == observed = "CRASHED" => exit = "signal"

\* Once the group has been killed no member of it goes on: a process that runs on
\* afterwards has left the group (runner.py:271-279).
KillReachesGroup ==
    cleanupSent => \A p \in Processes : life[p] = "alive" => p \in detached

\* Unless the case is classified TIMED_OUT nothing the processes wrote is lost: both
\* pipes were read to the end of file, with no writer left (runner.py:288-326).
NothingUnread ==
    pc = "done" /\ ~timedOut =>
        \A q \in Pipes : pending[q] = 0 /\ ~Written(q)

\* A verdict taken from the worker's response rests on the complete response: the
\* worker exited with zero in time and no byte of its output was dropped
\* (runner.py:371-391).
ResponseIsWhole ==
    observed \in Responses =>
        /\ exit = "zero" /\ ~timedOut
        /\ outTail = outBytes /\ errTail = errBytes

\* The supervisor never hangs: whatever the worker and its descendants do, holding a
\* pipe or running forever included, the call returns (runner.py:299-308).
AlwaysReturns == <>(pc \in {"done", "raised"})

\* docs/specs/robustness-v1.md:44: record cleanup_incomplete when a descendant
\* outlives the cleanup, rather than silently claiming cleanup success.
NoSilentSurvivor ==
    pc = "done" /\ ~incomplete => \A p \in Processes : life[p] # "alive"

=============================================================================
