--------------------------- MODULE RobustnessCase ---------------------------
(***************************************************************************)
(* One robustness case: the measured worker (robustness_worker_bootstrap   *)
(* and robustness/worker.py), the process it runs in, and the supervisor   *)
(* that turns what the process did into an observed outcome and a verdict. *)
(*                                                                         *)
(* The target is code under test: wherever it runs it may reject the       *)
(* artifact, raise, print, crash the process or never return.              *)
(***************************************************************************)
EXTENDS RobustnessVerdicts, Naturals

CONSTANTS
    Expectations,   \* the expectations of the cases that are run
    Inherited       \* the resource limit the supervisor's own process runs under

Requested == 2      \* the worker's default resource limit, on the scale of Inherited

ExpectationsAssumption ==
    Expectations \subseteq {"MUST_ROUNDTRIP", "MUST_REJECT", "MUST_NOT_CRASH"}
InheritedAssumption == Inherited \subseteq Nat

VARIABLES
    expectation,    \* what the case expects of the target
    inherited,      \* the limit inherited by the supervisor and by the worker
    limit,          \* the limit in force in the worker
    stage,          \* what the worker is doing
    answer,         \* the response it is going to print
    out,            \* its standard output: "none", "noise", or the response printed
    flooded,        \* it has written more than the output budget
    process,        \* how it ended, as the supervisor sees it
    result,         \* the case result
    path            \* history: what happened, to relate it to the verdict

vars == <<expectation, inherited, limit, stage, answer, out, flooded, process,
          result, path>>

None == [observed |-> "NONE", limit |-> 0]
Running == [timedOut |-> FALSE, signal |-> FALSE, exit |-> "running"]
NoResult == [observed |-> "NONE", verdict |-> "NONE", limits |-> "NONE"]

Init ==
    /\ expectation \in Expectations
    /\ inherited \in Inherited
    /\ limit = inherited
    /\ stage = "boot"
    /\ answer = None
    /\ out = None
    /\ flooded = FALSE
    /\ process = Running
    /\ result = NoResult
    /\ path = {}

-----------------------------------------------------------------------------
(* The worker *)

(* The cap a process can have: the requested one unless a tighter one is
   inherited. *)
EffectiveLimit(bound) == IF bound < Requested THEN bound ELSE Requested

Goto(next, event) ==
    /\ stage' = next
    /\ path' = path \cup {event}
    /\ UNCHANGED <<expectation, inherited, out, flooded, result>>

Answer(observed, event) ==
    /\ Goto("print", event)
    /\ answer' = [observed |-> observed, limit |-> limit]
    /\ UNCHANGED <<limit, process>>

Boot ==
    /\ stage = "boot"
    /\ Goto("setup", "booted")
    /\ limit' = EffectiveLimit(inherited)
    /\ UNCHANGED <<answer, process>>

(* A limit that cannot be installed, or an import that fails, leaves the
   bootstrap with a traceback: exit code 1 and nothing on standard output. *)
BootFails ==
    /\ stage = "boot"
    /\ Goto("exit", "boot failed")
    /\ process' = [Running EXCEPT !.exit = "nonzero"]
    /\ UNCHANGED <<limit, answer>>

\* A bug: an error of the worker's own setup is reported as the target's rejection.
SetupAsRejection ==
    \/ /\ stage = "setup"
       /\ Goto("read", "set up")
       /\ UNCHANGED <<limit, answer, process>>
    \/ /\ stage = "setup"
       /\ Answer("REJECTED", "setup failed")

Setup ==
    \/ /\ stage = "setup"
       /\ Goto("read", "set up")
       /\ UNCHANGED <<limit, answer, process>>
    \/ /\ stage = "setup"
       /\ Answer("HARNESS_FAILED", "setup failed")

(* The adapter's read, after the physical schema was compared with the
   expected one where the case is not a round trip.  Only what the adapter
   declares as a parser's rejection is the target's. *)
Read ==
    /\ stage = "read"
    /\ \/ IF expectation = "MUST_ROUNDTRIP"
          THEN Goto("verify", "accepted") /\ UNCHANGED <<limit, answer, process>>
          ELSE Answer("ACCEPTED", "accepted")
       \/ Answer("REJECTED", "rejected")
       \/ Answer("UNSUPPORTED", "module missing")
       \/ Answer("HARNESS_FAILED", "undeclared error")

Verify ==
    /\ stage = "verify"
    /\ \/ Answer("ROUNDTRIP_EQUAL", "equal")
       \/ Answer("VALUE_MISMATCH", "different")
       \/ Answer("VALUE_MISMATCH", "verification raised ValueError")
       \/ Answer("UNSUPPORTED", "module missing")
       \/ Answer("HARNESS_FAILED", "undeclared error")

PrintResponse ==
    /\ stage = "print"
    /\ stage' = "printed"
    /\ out' = IF out = None THEN answer ELSE out
    /\ path' = path \cup {"printed"}
    /\ UNCHANGED <<expectation, inherited, limit, answer, flooded, process, result>>

Exit ==
    /\ stage = "printed"
    /\ Goto("exit", "exited")
    /\ process' = [Running EXCEPT !.exit = "zero"]
    /\ UNCHANGED <<limit, answer>>

(* Code under test prints, and what it prints is not part of the response. *)
Noise ==
    /\ stage \in {"read", "verify"}
    /\ out' = [observed |-> "NOISE", limit |-> 0]
    /\ flooded' \in {flooded, TRUE}
    /\ UNCHANGED <<expectation, inherited, limit, stage, answer, process, result, path>>

(* It brings the process down, even after the response was printed. *)
Crash ==
    /\ stage \in {"read", "verify", "print", "printed"}
    /\ stage' = "exit"
    /\ process' = [timedOut |-> FALSE, signal |-> TRUE, exit |-> "none"]
    /\ path' = path \cup {"crashed"}
    /\ UNCHANGED <<expectation, inherited, limit, answer, out, flooded, result>>

(* It has not ended, or left its pipes open, when the deadline passes. *)
Timeout ==
    /\ process.timedOut = FALSE /\ result = NoResult
    /\ stage' = "exit"
    /\ process' = [timedOut |-> TRUE, signal |-> FALSE, exit |-> "none"]
    /\ path' = path \cup {"timed out"}
    /\ UNCHANGED <<expectation, inherited, limit, answer, out, flooded, result>>

-----------------------------------------------------------------------------
(* The supervisor *)

Response == out.observed \notin {"NONE", "NOISE"}

(* The first test that applies decides; the response is parsed last. *)
Outcome ==
    IF process.timedOut THEN "TIMED_OUT"
    ELSE IF process.signal THEN "CRASHED"
    ELSE IF flooded THEN "BUDGET_EXHAUSTED"
    ELSE IF process.exit # "zero" \/ ~ Response THEN "HARNESS_FAILED"
    ELSE out.observed

Answered ==
    /\ ~ process.timedOut /\ ~ process.signal /\ ~ flooded
    /\ process.exit = "zero"
    /\ Response

PlannedLimit == EffectiveLimit(inherited)

Confirmed == Answered /\ out.limit = PlannedLimit

Observed == IF Answered /\ ~ Confirmed THEN "HARNESS_FAILED" ELSE Outcome

Classify ==
    /\ stage = "exit"
    /\ result = NoResult
    /\ result' = [observed |-> Observed,
                  verdict  |-> Verdict(expectation, Observed),
                  limits   |-> IF Confirmed THEN "APPLIED" ELSE "UNCONFIRMED"]
    /\ UNCHANGED <<expectation, inherited, limit, stage, answer, out, flooded,
                   process, path>>

Worker == Boot \/ BootFails \/ Setup \/ Read \/ Verify \/ PrintResponse \/ Exit
Target == Noise \/ Crash \/ Timeout

Next == Worker \/ Target \/ Classify

Spec == Init /\ [][Next]_vars

-----------------------------------------------------------------------------
(* Properties *)

Observations == {"ROUNDTRIP_EQUAL", "ACCEPTED", "REJECTED", "VALUE_MISMATCH",
                 "CRASHED", "TIMED_OUT", "UNSUPPORTED", "BUDGET_EXHAUSTED",
                 "HARNESS_FAILED"}

(* Every variable keeps its shape, and a result has one of the outcomes and
   verdicts of model.py. *)
TypeOK ==
    /\ expectation \in Expectations /\ inherited \in Inherited
    /\ limit \in Nat
    /\ stage \in {"boot", "setup", "read", "verify", "print", "printed", "exit"}
    /\ flooded \in BOOLEAN
    /\ process.exit \in {"running", "zero", "nonzero", "none"}
    /\ result # NoResult =>
          /\ result.observed \in Observations
          /\ result.verdict \in {"PASS", "FAIL", "INCOMPLETE"}
          /\ result.limits \in {"APPLIED", "UNCONFIRMED"}

(* A PASS was earned: the worker ran under the requested cap and not above the
   one it inherited, set itself up, printed its response and left by itself
   within its deadline and output budget; a round trip was compared and equal, and what had to be rejected
   was rejected by the adapter's own declaration, not by a harness error. *)
PassIsEarned ==
    result.verdict = "PASS" =>
        /\ {"booted", "set up", "printed", "exited"} \subseteq path
        /\ path \cap {"crashed", "timed out"} = {}
        /\ ~ flooded
        /\ limit <= Requested /\ limit <= inherited
        /\ expectation = "MUST_ROUNDTRIP" => "equal" \in path
        /\ expectation = "MUST_REJECT" => "rejected" \in path

(* A FAIL is the target's: it crashed, did not end, changed the values,
   accepted what it had to reject or rejected what it had to read.  A missing
   module, a limit that could not be installed, a flooded pipe or a harness
   error is never charged to it. *)
FailIsTheTargets ==
    result.verdict = "FAIL" =>
        \/ path \cap {"crashed", "timed out", "different",
                       "verification raised ValueError"} # {}
        \/ expectation = "MUST_REJECT" /\ "accepted" \in path
        \/ expectation = "MUST_ROUNDTRIP" /\ "rejected" \in path

(* A process that died of a signal is CRASHED and fails its case whatever it
   had printed, and however much, unless it was killed for the deadline. *)
CrashIsSeen ==
    result # NoResult /\ "crashed" \in path /\ "timed out" \notin path =>
        result.observed = "CRASHED" /\ result.verdict = "FAIL"

=============================================================================
