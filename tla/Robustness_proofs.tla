------------------------- MODULE Robustness_proofs --------------------------
(***************************************************************************)
(* Proofs about the robustness harness, for any cases, targets, budgets,   *)
(* file sizes and limits.  What runs is chosen at the start (MCRobustness) *)
(* and each part has an invariant of its own: the case within its process, *)
(* the bounded suite and the native suite.                                 *)
(***************************************************************************)
EXTENDS MCRobustness, TLAPS

(***************************************************************************)
(* The case.  What the worker is going to answer follows from its path,    *)
(* what it printed is that answer or cannot be parsed, how the process     *)
(* ended tells which events there were, and once there is a result nothing *)
(* it was made of changes any more.                                        *)
(***************************************************************************)
(* What the invariants take from the model, by names of their own. *)
Planned == Case!EffectiveLimit(inherited)
Unprinted == Case!None
Unended == Case!Running
Unresolved == Case!NoResult
Seen == Case!Outcome
Heard == Case!Answered
Trusted == Case!Confirmed
Observed == Case!Observed
Judged(expected, observed) == Case!Verdict(expected, observed)

Started == {"setup", "read", "verify", "print", "printed"}
Answers == {"ROUNDTRIP_EQUAL", "ACCEPTED", "REJECTED", "VALUE_MISMATCH", "UNSUPPORTED",
            "HARNESS_FAILED"}
Mismatch == {"different", "verification raised ValueError"}

(* The answer a, given under limit l to a case that expects e, says what
   happened on the path p. *)
Answered(a, l, e, p) ==
    /\ a.observed \in Answers /\ a.limit = l
    /\ a.observed # "HARNESS_FAILED" => "set up" \in p
    /\ a.observed = "ROUNDTRIP_EQUAL" => e = "MUST_ROUNDTRIP" /\ "equal" \in p
    /\ a.observed = "ACCEPTED" => e # "MUST_ROUNDTRIP" /\ "accepted" \in p
    /\ a.observed = "REJECTED" => "rejected" \in p
    /\ a.observed = "VALUE_MISMATCH" => p \cap Mismatch # {}

WorkerInv ==
    /\ stage \in Started \cup {"boot", "exit"}
    /\ stage \in Started => "booted" \in path
    /\ stage = "boot" => "booted" \notin path
    /\ "booted" \in path => limit = Planned
    /\ stage \in {"read", "verify"} => "set up" \in path
    /\ stage = "verify" => expectation = "MUST_ROUNDTRIP"
    /\ stage \in {"print", "printed"} => Answered(answer, limit, expectation, path)
    /\ stage = "printed" => "printed" \in path

(* What can be parsed is the answer, printed after everything it says. *)
OutputInv ==
    /\ out.observed \in Answers \cup {"NONE", "NOISE"}
    /\ out.observed = "NONE" => out = Unprinted
    /\ out.observed \in Answers => "booted" \in path /\ Answered(out, limit, expectation, path)

ProcessInv ==
    /\ process.timedOut \in BOOLEAN /\ process.signal \in BOOLEAN
    /\ process.exit \in {"running", "zero", "nonzero", "none"}
    /\ stage # "exit" => process = Unended
    /\ stage = "exit" => process # Unended
    /\ (process.timedOut = TRUE) <=> "timed out" \in path
    /\ (process.signal = TRUE) <=> "crashed" \in path /\ "timed out" \notin path
    /\ process.exit = "zero" => {"printed", "exited"} \subseteq path

Concluded ==
    [observed |-> Observed, verdict |-> Judged(expectation, Observed),
     limits |-> IF Trusted THEN "APPLIED" ELSE "UNCONFIRMED"]

CaseTyped ==
    /\ expectation \in Expectations /\ inherited \in Inherited
    /\ limit \in Nat /\ flooded \in BOOLEAN

CaseInv ==
    /\ CaseTyped /\ WorkerInv /\ OutputInv /\ ProcessInv
    /\ result # Unresolved => stage = "exit" /\ result = Concluded

USE DEF Planned, Case!EffectiveLimit, Case!Requested, Unprinted, Case!None,
        Unended, Case!Running, Unresolved, Case!NoResult

\* A case begins in its invariant.
LEMMA CaseInit == Case!Init => CaseInv
<1> SUFFICES ASSUME Case!Init PROVE CaseInv
  OBVIOUS
<1>1. WorkerInv
  BY DEF Case!Init, WorkerInv, Started
<1>2. OutputInv
  BY DEF Case!Init, OutputInv, Unprinted, Case!None, Answers
<1>3. ProcessInv
  BY DEF Case!Init, ProcessInv, Unended, Case!Running
<1>4. CaseTyped
  BY CaseAssumption DEF Case!Init, CaseTyped, Case!InheritedAssumption
<1>5. QED
  BY <1>1, <1>2, <1>3, <1>4 DEF Case!Init, CaseInv

\* An answer stays right when the path grows.
LEMMA AnswerStays ==
    ASSUME NEW a, NEW l, NEW e, NEW p, NEW q, p \subseteq q, Answered(a, l, e, p)
    PROVE  Answered(a, l, e, q)
  BY DEF Answered

\* The limit that is put in force is a number.
LEMMA LimitIsNat == inherited \in Inherited => Planned \in Nat
  BY CaseAssumption DEF Case!InheritedAssumption, Planned, Case!EffectiveLimit, Case!Requested

\* What a case concludes from stays while what it is made of does.
LEMMA ConcludedStays ==
    UNCHANGED <<expectation, inherited, out, flooded, process>> => Concluded' = Concluded
  BY DEF Concluded, Judged, Trusted, Observed, Seen, Heard, Case!Observed, Case!Outcome,
         Case!Answered, Case!Confirmed, Case!Response, Case!PlannedLimit

\* What is concluded from must not change once there is a result: before it
\* leaves, the worker has none.
LEMMA NoResultYet == CaseInv /\ stage # "exit" => result = Unresolved
  BY DEF CaseInv

(* The worker is going to answer o after the event v. *)
LEMMA AnswerGiven ==
    ASSUME CaseInv, NEW o \in Answers, NEW v, v \notin {"timed out", "crashed"},
           Case!Answer(o, v), stage \in {"setup", "read", "verify"},
           Answered([observed |-> o, limit |-> limit], limit, expectation, path \cup {v})
    PROVE  CaseInv'
<1> USE DEF Case!Answer, Case!Goto
<1>0. CaseTyped /\ WorkerInv /\ OutputInv /\ ProcessInv /\ result = Unresolved
  BY DEF CaseInv
<1>1. WorkerInv'
  BY <1>0 DEF WorkerInv, Started
<1>2. OutputInv'
  BY <1>0, AnswerStays DEF OutputInv
<1>3. ProcessInv'
  BY <1>0 DEF ProcessInv, Unended, Case!Running
<1>4. QED
  BY <1>0, <1>1, <1>2, <1>3 DEF CaseInv, CaseTyped

(* The worker goes on to stage n over the event v. *)
LEMMA WentOn ==
    ASSUME CaseInv, NEW n \in {"read", "verify"}, NEW v, v \notin {"timed out", "crashed"},
           Case!Goto(n, v), UNCHANGED <<limit, answer, process>>,
           stage \in {"setup", "read"}, "set up" \in path \cup {v},
           n = "verify" => expectation = "MUST_ROUNDTRIP"
    PROVE  CaseInv'
<1> USE DEF Case!Goto
<1>0. CaseTyped /\ WorkerInv /\ OutputInv /\ ProcessInv /\ result = Unresolved
  BY DEF CaseInv
<1>1. WorkerInv'
  BY <1>0 DEF WorkerInv, Started
<1>2. OutputInv'
  BY <1>0, AnswerStays DEF OutputInv
<1>3. ProcessInv'
  BY <1>0 DEF ProcessInv, Unended, Case!Running
<1>4. QED
  BY <1>0, <1>1, <1>2, <1>3 DEF CaseInv, CaseTyped

\* The worker's steps keep the invariant: one by one.
LEMMA BootKeeps == CaseInv /\ (Case!Boot \/ Case!BootFails) => CaseInv'
<1> SUFFICES ASSUME CaseInv, Case!Boot \/ Case!BootFails PROVE CaseInv'
  OBVIOUS
<1> USE DEF Case!Boot, Case!BootFails, Case!Goto
<1>0. CaseTyped /\ WorkerInv /\ OutputInv /\ ProcessInv /\ result = Unresolved
  BY DEF CaseInv
<1>1. WorkerInv'
  BY <1>0 DEF WorkerInv, Started
<1>2. OutputInv'
  BY <1>0 DEF OutputInv, WorkerInv
<1>3. ProcessInv'
  <2>0. process = Unended
    BY <1>0 DEF ProcessInv
  <2>1. process = Unended /\ path' \cap {"timed out", "crashed"} = {}
    BY <1>0, <2>0 DEF ProcessInv
  <2>2. CASE Case!Boot
    BY <2>1, <2>2 DEF ProcessInv
  <2>3. CASE Case!BootFails
    <3>1. /\ process'.timedOut = FALSE /\ process'.signal = FALSE
          /\ process'.exit = "nonzero"
      BY <2>1, <2>3
    <3>2. process' # Unended /\ stage' = "exit"
      BY <3>1, <2>3
    <3>3. QED
      BY <2>1, <3>1, <3>2 DEF ProcessInv
  <2>4. QED
    BY <2>2, <2>3
<1>4. CaseTyped'
  BY <1>0, LimitIsNat DEF CaseTyped
<1>5. QED
  BY <1>0, <1>1, <1>2, <1>3, <1>4 DEF CaseInv

\* Resolving the target and setting it up, or failing to.
LEMMA SetupKeeps == CaseInv /\ Case!Setup => CaseInv'
<1> SUFFICES ASSUME CaseInv, Case!Setup PROVE CaseInv'
  OBVIOUS
<1>1. CASE stage = "setup" /\ Case!Answer("HARNESS_FAILED", "setup failed")
  BY <1>1, AnswerGiven DEF Answered, Answers
<1>2. CASE stage = "setup" /\ Case!Goto("read", "set up") /\ UNCHANGED <<limit, answer, process>>
  BY <1>2, WentOn
<1>3. QED
  BY <1>1, <1>2 DEF Case!Setup

\* Reading the input: accepted, rejected, or on to the verification.
LEMMA ReadKeeps == CaseInv /\ Case!Read => CaseInv'
<1> SUFFICES ASSUME CaseInv, Case!Read PROVE CaseInv'
  OBVIOUS
<1>0. stage = "read" /\ "set up" \in path
  BY DEF Case!Read, CaseInv, WorkerInv
<1>1. CASE /\ expectation = "MUST_ROUNDTRIP" /\ Case!Goto("verify", "accepted")
           /\ UNCHANGED <<limit, answer, process>>
  BY <1>0, <1>1, WentOn
<1>2. CASE expectation # "MUST_ROUNDTRIP" /\ Case!Answer("ACCEPTED", "accepted")
  BY <1>0, <1>2, AnswerGiven DEF Answered, Answers
<1>3. CASE Case!Answer("REJECTED", "rejected")
  BY <1>0, <1>3, AnswerGiven DEF Answered, Answers
<1>4. CASE Case!Answer("UNSUPPORTED", "module missing")
  BY <1>0, <1>4, AnswerGiven DEF Answered, Answers
<1>5. CASE Case!Answer("HARNESS_FAILED", "undeclared error")
  BY <1>0, <1>5, AnswerGiven DEF Answered, Answers
<1>6. QED
  BY <1>1, <1>2, <1>3, <1>4, <1>5 DEF Case!Read

\* Comparing what was read with what was written.
LEMMA VerifyKeeps == CaseInv /\ Case!Verify => CaseInv'
<1> SUFFICES ASSUME CaseInv, Case!Verify PROVE CaseInv'
  OBVIOUS
<1>0. stage = "verify" /\ "set up" \in path /\ expectation = "MUST_ROUNDTRIP"
  BY DEF Case!Verify, CaseInv, WorkerInv
<1>1. CASE Case!Answer("ROUNDTRIP_EQUAL", "equal")
  BY <1>0, <1>1, AnswerGiven DEF Answered, Answers
<1>2. CASE Case!Answer("VALUE_MISMATCH", "different")
  BY <1>0, <1>2, AnswerGiven DEF Answered, Answers, Mismatch
<1>3. CASE Case!Answer("VALUE_MISMATCH", "verification raised ValueError")
  BY <1>0, <1>3, AnswerGiven DEF Answered, Answers, Mismatch
<1>4. CASE Case!Answer("UNSUPPORTED", "module missing")
  BY <1>0, <1>4, AnswerGiven DEF Answered, Answers
<1>5. CASE Case!Answer("HARNESS_FAILED", "undeclared error")
  BY <1>0, <1>5, AnswerGiven DEF Answered, Answers
<1>6. QED
  BY <1>1, <1>2, <1>3, <1>4, <1>5 DEF Case!Verify

\* The response is printed, or the pipe is closed on it.
LEMMA PrintKeeps == CaseInv /\ Case!PrintResponse => CaseInv'
<1> SUFFICES ASSUME CaseInv, Case!PrintResponse PROVE CaseInv'
  OBVIOUS
<1> USE DEF Case!PrintResponse
<1>0. CaseTyped /\ WorkerInv /\ OutputInv /\ ProcessInv /\ result = Unresolved
  BY DEF CaseInv
<1>1. WorkerInv'
  BY <1>0, AnswerStays DEF WorkerInv, Started
<1>2. OutputInv'
  <2>1. "booted" \in path /\ Answered(answer, limit, expectation, path)
    BY <1>0 DEF WorkerInv, Started
  <2>2. CASE out = Unprinted
    <3>1. out' = answer /\ answer.observed \in Answers
      BY <2>1, <2>2 DEF Answered
    <3>2. Answered(answer, limit, expectation, path)'
      BY <2>1, AnswerStays
    <3>3. answer.observed # "NONE"
      BY <3>1 DEF Answers
    <3>4. QED
      BY <2>1, <3>1, <3>2, <3>3 DEF OutputInv
  <2>3. CASE out # Unprinted
    BY <1>0, <2>3, AnswerStays DEF OutputInv
  <2>4. QED
    BY <2>2, <2>3
<1>3. ProcessInv'
  BY <1>0 DEF ProcessInv
<1>4. QED
  BY <1>0, <1>1, <1>2, <1>3 DEF CaseInv, CaseTyped

\* The worker ends on its own; what it printed stays.
LEMMA ExitKeeps == CaseInv /\ Case!Exit => CaseInv'
<1> SUFFICES ASSUME CaseInv, Case!Exit PROVE CaseInv'
  OBVIOUS
<1> USE DEF Case!Exit, Case!Goto
<1>0. CaseTyped /\ WorkerInv /\ OutputInv /\ ProcessInv /\ result = Unresolved
  BY DEF CaseInv
<1>1. WorkerInv'
  BY <1>0 DEF WorkerInv, Started
<1>2. OutputInv'
  BY <1>0, AnswerStays DEF OutputInv
<1>3. ProcessInv'
  BY <1>0 DEF ProcessInv, WorkerInv, Unended, Case!Running
<1>4. QED
  BY <1>0, <1>1, <1>2, <1>3 DEF CaseInv, CaseTyped

\* What code under test may do at any point of its run keeps it too.
LEMMA NoiseKeeps == CaseInv /\ Case!Noise => CaseInv'
<1> SUFFICES ASSUME CaseInv, Case!Noise PROVE CaseInv'
  OBVIOUS
<1> USE DEF Case!Noise
<1>0. CaseTyped /\ WorkerInv /\ OutputInv /\ ProcessInv /\ result = Unresolved
  BY DEF CaseInv
<1>1. WorkerInv'
  BY <1>0 DEF WorkerInv
<1>2. OutputInv'
  BY DEF OutputInv, Answers
<1>3. ProcessInv'
  BY <1>0 DEF ProcessInv
<1>4. QED
  BY <1>0, <1>1, <1>2, <1>3 DEF CaseInv, CaseTyped

\* A signal ends the worker at any stage; what it printed stays.
LEMMA CrashKeeps == CaseInv /\ Case!Crash => CaseInv'
<1> SUFFICES ASSUME CaseInv, Case!Crash PROVE CaseInv'
  OBVIOUS
<1> USE DEF Case!Crash
<1>0. CaseTyped /\ WorkerInv /\ OutputInv /\ ProcessInv /\ result = Unresolved
  BY DEF CaseInv
<1>1. WorkerInv'
  BY <1>0 DEF WorkerInv, Started
<1>2. OutputInv'
  BY <1>0, AnswerStays DEF OutputInv
<1>3. ProcessInv'
  <2>a. stage # "exit"
    OBVIOUS
  <2>b. process = Unended
    BY <1>0, <2>a DEF ProcessInv
  <2>c. "timed out" \notin path
    BY <1>0, <2>b DEF ProcessInv, Unended, Case!Running
  <2>1. process = Unended /\ "timed out" \notin path'
    BY <2>b, <2>c
  <2>2. process'.timedOut = FALSE /\ process'.signal = TRUE /\ process'.exit = "none"
    OBVIOUS
  <2>3. process' # Unended
    BY <2>2 DEF Unended, Case!Running
  <2>4. QED
    BY <2>1, <2>2, <2>3 DEF ProcessInv
<1>4. QED
  BY <1>0, <1>1, <1>2, <1>3 DEF CaseInv, CaseTyped

\* The supervisor stops the worker at any stage; what it printed stays.
LEMMA TimeoutKeeps == CaseInv /\ Case!Timeout => CaseInv'
<1> SUFFICES ASSUME CaseInv, Case!Timeout PROVE CaseInv'
  OBVIOUS
<1> USE DEF Case!Timeout
<1>0. CaseTyped /\ WorkerInv /\ OutputInv /\ ProcessInv /\ result = Unresolved
  BY DEF CaseInv
<1>1. WorkerInv'
  BY <1>0 DEF WorkerInv, Started
<1>2. OutputInv'
  BY <1>0, AnswerStays DEF OutputInv
<1>3. ProcessInv'
  BY <1>0 DEF ProcessInv, Unended, Case!Running
<1>4. QED
  BY <1>0, <1>1, <1>2, <1>3 DEF CaseInv, CaseTyped

\* The supervisor concludes once, from what is final.
LEMMA ClassifyKeeps == CaseInv /\ Case!Classify => CaseInv'
<1> SUFFICES ASSUME CaseInv, Case!Classify PROVE CaseInv'
  OBVIOUS
<1>0. UNCHANGED <<expectation, inherited, limit, stage, answer, out, flooded, process, path>>
  BY DEF Case!Classify
<1>1. WorkerInv' /\ OutputInv' /\ ProcessInv' /\ CaseTyped'
  <2>1. WorkerInv' /\ CaseTyped'
    BY <1>0 DEF CaseInv, WorkerInv, CaseTyped
  <2>2. OutputInv'
    BY <1>0 DEF CaseInv, OutputInv
  <2>3. ProcessInv'
    BY <1>0 DEF CaseInv, ProcessInv
  <2>4. QED
    BY <2>1, <2>2, <2>3
<1>2. stage' = "exit" /\ result' = Concluded
  BY DEF Case!Classify, Concluded, Judged, Observed, Trusted
<1>3. QED
  BY <1>0, <1>1, <1>2, ConcludedStays DEF CaseInv

\* Nothing of the case moves, while a suite runs.
LEMMA CaseStutters == CaseInv /\ UNCHANGED ofCase => CaseInv'
<1> SUFFICES ASSUME CaseInv, UNCHANGED ofCase PROVE CaseInv'
  OBVIOUS
<1> USE DEF ofCase
<1>1. WorkerInv' /\ OutputInv' /\ ProcessInv' /\ CaseTyped'
  <2>1. WorkerInv' /\ CaseTyped'
    BY DEF CaseInv, WorkerInv, CaseTyped
  <2>2. OutputInv'
    BY DEF CaseInv, OutputInv
  <2>3. ProcessInv'
    BY DEF CaseInv, ProcessInv
  <2>4. QED
    BY <2>1, <2>2, <2>3
<1>2. QED
  BY <1>1, ConcludedStays DEF CaseInv

\* Every step of a case.
LEMMA CaseStepKeeps == CaseInv /\ Case!Next => CaseInv'
  BY BootKeeps, SetupKeeps, ReadKeeps, VerifyKeeps, PrintKeeps, ExitKeeps, NoiseKeeps, CrashKeeps,
     TimeoutKeeps, ClassifyKeeps DEF Case!Next, Case!Worker, Case!Target

\* The observation is the outcome, unless the limit was not confirmed.
LEMMA ObservedIs == Observed = IF Heard /\ ~ Trusted THEN "HARNESS_FAILED" ELSE Seen
  BY DEF Observed, Case!Observed, Heard, Trusted, Seen

\* What can be observed of a process that has ended: either it was stopped, or
\* it died, or the harness could not make it out, or it answered under the
\* planned limit.
LEMMA HowObserved ==
    ASSUME CaseInv
    PROVE  \/ Observed = "TIMED_OUT" /\ "timed out" \in path
           \/ Observed = "CRASHED" /\ "timed out" \notin path /\ "crashed" \in path
           \/ /\ Observed \in {"BUDGET_EXHAUSTED", "HARNESS_FAILED"}
              /\ path \cap {"timed out", "crashed"} = {}
           \/ /\ path \cap {"timed out", "crashed"} = {} /\ ~ flooded
              /\ Observed = out.observed /\ out.observed \in Answers
              /\ {"printed", "exited"} \subseteq path
<1>0. OutputInv /\ ProcessInv /\ flooded \in BOOLEAN
  BY DEF CaseInv, CaseTyped
<1>1. CASE process.timedOut = TRUE
  <2>1. "timed out" \in path
    BY <1>0, <1>1 DEF ProcessInv
  <2>2. ~ Heard /\ Seen = "TIMED_OUT"
    BY <1>1 DEF Heard, Case!Answered, Seen, Case!Outcome, Case!Response
  <2>3. QED
    BY <2>1, <2>2, ObservedIs
<1>2. CASE process.timedOut = FALSE /\ process.signal = TRUE
  <2>1. "timed out" \notin path /\ "crashed" \in path
    BY <1>0, <1>2 DEF ProcessInv
  <2>2. ~ Heard /\ Seen = "CRASHED"
    BY <1>2 DEF Heard, Case!Answered, Seen, Case!Outcome, Case!Response
  <2>3. QED
    BY <2>1, <2>2, ObservedIs
<1>3. CASE process.timedOut = FALSE /\ process.signal = FALSE
  <2>1. path \cap {"timed out", "crashed"} = {}
    BY <1>0, <1>3 DEF ProcessInv
  <2>2. CASE Heard
    <3>1. /\ out.observed \in Answers /\ {"printed", "exited"} \subseteq path /\ ~ flooded
          /\ Seen = out.observed
      BY <1>0, <2>2
      DEF OutputInv, ProcessInv, Heard, Case!Answered, Seen, Case!Outcome, Case!Response
    <3>2. Observed \in {out.observed, "HARNESS_FAILED"}
      BY <3>1 DEF Observed, Case!Observed, Seen, Case!Outcome, Case!Answered, Case!Confirmed,
         Case!PlannedLimit, Case!Response
    <3>3. QED
      BY <2>1, <3>1, <3>2
  <2>3. CASE ~ Heard
    BY <1>3, <2>1, <2>3, <1>0 DEF Observed, Case!Observed, Heard, Case!Answered,
       Case!Outcome, Case!Confirmed, Case!PlannedLimit, Case!Response
  <2>4. QED
    BY <2>2, <2>3
<1>4. QED
  BY <1>0, <1>1, <1>2, <1>3 DEF ProcessInv

\* The answer that was heard, by what is known of its path.
LEMMA HeardIsSo ==
    ASSUME CaseInv, out.observed \in Answers
    PROVE  Answered(out, limit, expectation, path) /\ "booted" \in path
  BY DEF CaseInv, OutputInv

\* A verdict is passed on an observation, by the case's expectation.
LEMMA ResultIsConcluded ==
    ASSUME CaseInv, result # Unresolved
    PROVE  /\ result.observed = Observed
           /\ result.verdict = Judged(expectation, Observed)
           /\ expectation \in {"MUST_ROUNDTRIP", "MUST_REJECT", "MUST_NOT_CRASH"}
  BY CaseAssumption DEF CaseInv, CaseTyped, Concluded, Case!ExpectationsAssumption

\* A PASS was earned.
LEMMA PassEarned == CaseInv => Case!PassIsEarned
<1> SUFFICES ASSUME CaseInv, result.verdict = "PASS"
             PROVE  /\ {"booted", "set up", "printed", "exited"} \subseteq path
                    /\ path \cap {"crashed", "timed out"} = {}
                    /\ ~ flooded
                    /\ limit <= Case!Requested /\ limit <= inherited
                    /\ expectation = "MUST_ROUNDTRIP" => "equal" \in path
                    /\ expectation = "MUST_REJECT" => "rejected" \in path
  BY DEF Case!PassIsEarned
<1>1. result # Unresolved
  BY DEF Unresolved, Case!NoResult
<1>2. Judged(expectation, Observed) = "PASS"
  BY <1>1, ResultIsConcluded
<1>3. /\ Observed \in {"ROUNDTRIP_EQUAL", "ACCEPTED", "REJECTED"}
      /\ expectation = "MUST_ROUNDTRIP" => Observed = "ROUNDTRIP_EQUAL"
      /\ expectation = "MUST_REJECT" => Observed = "REJECTED"
  BY <1>1, <1>2, ResultIsConcluded DEF Judged, Case!Verdict
<1>4. /\ path \cap {"timed out", "crashed"} = {} /\ ~ flooded
      /\ Observed = out.observed /\ out.observed \in Answers
      /\ {"printed", "exited"} \subseteq path
  BY <1>3, HowObserved
<1>5. Answered(out, limit, expectation, path) /\ "booted" \in path
  BY <1>4, HeardIsSo
<1>6. limit = Planned /\ inherited \in Nat
  BY <1>5, CaseAssumption DEF CaseInv, WorkerInv, CaseTyped, Case!InheritedAssumption
<1>7. limit <= Case!Requested /\ limit <= inherited
  BY <1>6 DEF Planned, Case!EffectiveLimit, Case!Requested
<1>8. QED
  BY <1>3, <1>4, <1>5, <1>7 DEF Answered

\* A FAIL is the target's.
LEMMA FailCharged == CaseInv => Case!FailIsTheTargets
<1> SUFFICES ASSUME CaseInv, result.verdict = "FAIL"
             PROVE  \/ path \cap ({"crashed", "timed out"} \cup Mismatch) # {}
                    \/ expectation = "MUST_REJECT" /\ "accepted" \in path
                    \/ expectation = "MUST_ROUNDTRIP" /\ "rejected" \in path
  BY DEF Case!FailIsTheTargets, Mismatch
<1>1. result # Unresolved
  BY DEF Unresolved, Case!NoResult
<1>2. Judged(expectation, Observed) = "FAIL"
  BY <1>1, ResultIsConcluded
<1>3. CASE path \cap {"timed out", "crashed"} # {}
  BY <1>3
<1>4. CASE path \cap {"timed out", "crashed"} = {}
  <2>1. Observed \notin {"UNSUPPORTED", "BUDGET_EXHAUSTED", "HARNESS_FAILED"}
    BY <1>2 DEF Judged, Case!Verdict
  <2>2. Observed = out.observed /\ out.observed \in Answers
    BY <1>4, <2>1, HowObserved
  <2>3. Answered(out, limit, expectation, path)
    BY <2>2, HeardIsSo
  <2>4. CASE out.observed = "VALUE_MISMATCH"
    BY <2>3, <2>4 DEF Answered
  <2>5. CASE out.observed = "ROUNDTRIP_EQUAL"
    BY <1>1, <1>2, <2>2, <2>3, <2>5, ResultIsConcluded DEF Answered, Judged, Case!Verdict
  <2>6. CASE out.observed = "ACCEPTED"
    BY <1>1, <1>2, <2>2, <2>3, <2>6, ResultIsConcluded DEF Answered, Judged, Case!Verdict
  <2>7. CASE out.observed = "REJECTED"
    BY <1>1, <1>2, <2>2, <2>3, <2>7, ResultIsConcluded DEF Answered, Judged, Case!Verdict
  <2>8. QED
    BY <2>1, <2>2, <2>4, <2>5, <2>6, <2>7 DEF Answers
<1>5. QED
  BY <1>3, <1>4

\* A crash is seen.
LEMMA CrashSeen == CaseInv => Case!CrashIsSeen
<1> SUFFICES ASSUME CaseInv, result # Unresolved, "crashed" \in path, "timed out" \notin path
             PROVE  result.observed = "CRASHED" /\ result.verdict = "FAIL"
  BY DEF Case!CrashIsSeen
<1>1. Observed = "CRASHED"
  BY HowObserved
<1>2. QED
  BY <1>1, ResultIsConcluded DEF Judged, Case!Verdict

\* Every variable of a case keeps its shape.
LEMMA CaseShapes == CaseInv => Case!TypeOK
<1> SUFFICES ASSUME CaseInv PROVE Case!TypeOK
  OBVIOUS
<1>1. /\ CaseTyped /\ stage \in Started \cup {"boot", "exit"}
      /\ process.exit \in {"running", "zero", "nonzero", "none"}
  BY DEF CaseInv, WorkerInv, ProcessInv
<1>2. ASSUME result # Unresolved
      PROVE  /\ result.observed \in Answers \cup {"CRASHED", "TIMED_OUT", "BUDGET_EXHAUSTED"}
             /\ result.verdict \in {"PASS", "FAIL", "INCOMPLETE"}
             /\ result.limits \in {"APPLIED", "UNCONFIRMED"}
  <2>1. result = Concluded /\ result.observed = Observed
        /\ result.verdict = Judged(expectation, Observed)
    BY <1>2, ResultIsConcluded DEF CaseInv
  <2>2. result.verdict \in {"PASS", "FAIL", "INCOMPLETE"}
    BY <2>1 DEF Judged, Case!Verdict
  <2>3. result.limits \in {"APPLIED", "UNCONFIRMED"}
    BY <2>1 DEF Concluded
  <2>4. Observed \in Answers \cup {"CRASHED", "TIMED_OUT", "BUDGET_EXHAUSTED"}
    BY HowObserved DEF Answers
  <2>5. QED
    BY <2>1, <2>2, <2>3, <2>4
<1>3. QED
  BY <1>1, <1>2 DEF Case!TypeOK, CaseTyped, Started, Answers, Case!Observations

\* The case is at rest while a suite runs, in its first state.
LEMMA CaseAlways == MCSpec => []CaseInv
<1>1. MCInit => CaseInv
  BY CaseInit DEF MCInit, CaseAtRest
<1>2. CaseInv /\ [MCNext]_all => CaseInv'
  BY CaseStepKeeps, CaseStutters
     DEF MCNext, BoundedStep, NativeStep, CaseStep, all
<1>3. QED
  BY <1>1, <1>2, PTL DEF MCSpec

(* Whatever the code under test does and whenever it dies, for every limit
   inherited from the supervisor: a PASS of a robustness case was earned. *)
THEOREM PassEarnedByTheWorker == MCSpec => []PassIsEarned
  BY CaseAlways, PassEarned, PTL DEF PassIsEarned

(* A FAIL of a case is charged to the target and never to an error of the
   harness, and no crash is reported as anything else. *)
THEOREM FailChargedToTheTarget == MCSpec => []FailIsTheTargets
<1>1. CaseInv => FailIsTheTargets
  BY FailCharged, CrashSeen DEF FailIsTheTargets
<1>2. QED
  BY CaseAlways, <1>1, PTL

-----------------------------------------------------------------------------
(***************************************************************************)
(* The bounded suite.  The bytes on disk are those its store has counted   *)
(* and those of failed stores; a worker that ran has room for its output   *)
(* and its result until they are stored; the observations are those of the *)
(* cases before the present one, in order, and what they call measured has *)
(* its seven files, which nothing ever overwrites.                         *)
(***************************************************************************)
HIDE DEF Planned, Case!EffectiveLimit, Case!Requested, Unprinted, Case!None,
         Unended, Case!Running, Unresolved, Case!NoResult

Verdicts == {"PASS", "FAIL", "INCOMPLETE"}
CaseRecord == [item : Nat, core : {TRUE}, verdict : Verdicts, recipe : BOOLEAN,
               observed : {"MEASURED", "UNSUPPORTED", "HARNESS_FAILED", "BUDGET_EXHAUSTED"}]
WorkerRan == [verdict : Verdicts, size : Nat \X Nat \X Nat]

(* The observations o are those of the first cases, made in attempt a, with f
   the files that were written whole. *)
Founded(o, a, f) ==
    /\ o \in Seq(CaseRecord)
    /\ \A k \in 1..Len(o) :
          /\ o[k].item = k /\ k \in Items
          /\ o[k].observed # "MEASURED" => o[k].verdict = "INCOMPLETE"
          /\ o[k].observed = "MEASURED" => a > 0 /\ \A n \in 1..7 : f[k][n] = a

(* They are those of a suite that came to its end. *)
CameToItsEnd(o) ==
    Len(o) = Cases + Mutations \/ \E k \in 1..Len(o) : o[k].verdict = "INCOMPLETE"

SuiteTyped ==
    /\ TypeOK
    /\ published \in [attempt : Nat, obs : Seq(CaseRecord)]
    /\ ran = NotRun \/ ran \in WorkerRan

BytesCounted ==
    pc # "idle" => disk = used + leaked /\ used <= budget /\ attempt > 0

(* What the worker produced and is not stored yet fits. *)
RoomForOutcome ==
    /\ next = 5 => used + ran.size[1] + ran.size[2] + ran.size[3] <= budget
    /\ next = 6 => used + ran.size[2] + ran.size[3] <= budget
    /\ next = 7 => used + ran.size[3] <= budget

AtWork ==
    /\ pc = "encode" => next = 1 /\ ran = NotRun
    /\ pc \in {"encode", "store"} =>
          Len(obs) = item - 1 /\ worked \subseteq 1..item /\ (item \in worked <=> ran # NotRun)
    /\ pc = "store" => item \in Items /\ \A n \in 1..(next - 1) : file[item][n] = attempt
    /\ pc = "store" /\ ran # NotRun => next >= 5 /\ RoomForOutcome
    /\ pc \in {"finish", "manifest"} => CameToItsEnd(obs)

ObservedRightly ==
    /\ Founded(obs, attempt, file)
    /\ \A k \in 1..Len(obs) : k \in worked => obs[k].observed # "BUDGET_EXHAUSTED"

PublishedRightly ==
    /\ Founded(published.obs, published.attempt, file)
    /\ published.obs # << >> => CameToItsEnd(published.obs)

SuiteInv == SuiteTyped /\ BytesCounted /\ AtWork /\ ObservedRightly /\ PublishedRightly

\* There are seven files, and the worker runs before the fifth.
LEMMA SevenFiles == Len(Files) = 7
  BY DEF Files

FilesGrow == \A i \in Items, n \in 1..7 : file[i][n] # Absent => file'[i][n] = file[i][n]

\* What is founded stays so while no file that is there changes.
LEMMA FoundedStays ==
    ASSUME NEW o, NEW a, Founded(o, a, file), FilesGrow
    PROVE  Founded(o, a, file')
  BY DEF Founded, FilesGrow, Absent

\* A file is put where there was none.
LEMMA PutGrows ==
    ASSUME SuiteTyped, item \in Items, file[item][next] = Absent,
           NEW v \in {Torn} \cup (1..MaxAttempts), NEW size \in Nat, Put(v, size)
    PROVE  /\ FilesGrow /\ file'[item][next] = v /\ disk' = disk + size
           /\ file' \in [Items -> [1..7 -> {Torn, Absent} \cup (1..MaxAttempts)]]
           /\ \A n \in 1..7 : n # next => file'[item][n] = file[item][n]
  BY SevenFiles DEF SuiteTyped, TypeOK, Put, FilesGrow

(* An observation ends a case: the next one begins. *)
LEMMA ObserveKeeps ==
    ASSUME SuiteTyped, AtWork, ObservedRightly, pc \in {"encode", "store"}, item \in Items,
           NEW o \in {"MEASURED", "UNSUPPORTED", "HARNESS_FAILED"}, NEW v \in Verdicts,
           o # "MEASURED" => v = "INCOMPLETE",
           o = "MEASURED" => attempt > 0 /\ \A n \in 1..7 : file'[item][n] = attempt,
           Observe(o, v), FilesGrow, attempt' = attempt
    PROVE  /\ AtWork' /\ ObservedRightly' /\ pc' = "encode" /\ item' \in 1..(Cases + Mutations + 1)
           /\ next' = 1 /\ ran' = NotRun /\ UNCHANGED worked
<1> DEFINE e == Observation(o, v)
<1>0. obs' = Append(obs, e) /\ item' = item + 1 /\ next' = 1 /\ ran' = NotRun /\ pc' = "encode"
      /\ UNCHANGED worked
  BY DEF Observe
<1>1. item \in Nat /\ item \in 1..(Cases + Mutations) /\ Cases + Mutations \in Nat
  BY CasesAssumption DEF Items
<1>2. e \in CaseRecord /\ e.item = item /\ e.observed = o /\ e.verdict = v
  BY <1>1 DEF Observation, CaseRecord
<1>3. obs \in Seq(CaseRecord) /\ Len(obs) = item - 1
  BY DEF ObservedRightly, Founded, AtWork
<1> HIDE DEF e
<1>4. /\ obs' \in Seq(CaseRecord) /\ Len(obs') = item /\ obs'[item] = e
      /\ \A k \in 1..Len(obs) : obs'[k] = obs[k]
  BY <1>0, <1>1, <1>2, <1>3
<1>5. Founded(obs, attempt, file')
  BY FoundedStays DEF ObservedRightly
<1>6. Founded(obs', attempt, file')
  BY <1>1, <1>2, <1>3, <1>4, <1>5 DEF Founded
<1>7. ASSUME NEW k \in 1..Len(obs'), k \in worked PROVE obs'[k].observed # "BUDGET_EXHAUSTED"
  <2>1. CASE k = item
    BY <1>2, <1>4, <2>1
  <2>2. CASE k # item
    <3>1. k \in 1..Len(obs)
      BY <1>1, <1>3, <1>4, <2>2
    <3>2. QED
      BY <1>4, <1>7, <3>1 DEF ObservedRightly
  <2>3. QED
    BY <2>1, <2>2
<1>8. ObservedRightly'
  BY <1>0, <1>6, <1>7 DEF ObservedRightly
<1>9. AtWork'
  BY <1>0, <1>1, <1>3, <1>4 DEF AtWork
<1>10. QED
  BY <1>0, <1>1, <1>8, <1>9

(* The budget is exhausted before the worker of the case ran: the case is
   listed and the suite ends. *)
LEMMA ExhaustKeeps ==
    ASSUME SuiteTyped, AtWork, ObservedRightly, pc = "store", ran = NotRun,
           Exhaust, UNCHANGED <<file, attempt>>
    PROVE  AtWork' /\ ObservedRightly'
<1> DEFINE e == Observation("BUDGET_EXHAUSTED", "INCOMPLETE")
<1>0. obs' = Append(obs, e) /\ pc' = "finish" /\ UNCHANGED <<item, next, ran, worked>>
  BY DEF Exhaust
<1>1. item \in Nat /\ item \in 1..(Cases + Mutations) /\ Cases + Mutations \in Nat
  BY CasesAssumption DEF Items, AtWork
<1>2. /\ e \in CaseRecord /\ e.item = item /\ e.observed = "BUDGET_EXHAUSTED"
      /\ e.verdict = "INCOMPLETE"
  BY <1>1 DEF Observation, CaseRecord, Verdicts
<1>3. obs \in Seq(CaseRecord) /\ Len(obs) = item - 1 /\ item \notin worked
  BY DEF ObservedRightly, Founded, AtWork
<1> HIDE DEF e
<1>4. /\ obs' \in Seq(CaseRecord) /\ Len(obs') = item /\ obs'[item] = e
      /\ \A k \in 1..Len(obs) : obs'[k] = obs[k]
  BY <1>0, <1>1, <1>2, <1>3
<1>5. Founded(obs', attempt, file)
  BY <1>1, <1>2, <1>3, <1>4 DEF Founded, ObservedRightly, Items
<1>6. \A k \in 1..Len(obs') : k \in worked => obs'[k].observed # "BUDGET_EXHAUSTED"
  BY <1>1, <1>2, <1>3, <1>4 DEF ObservedRightly
<1>7. ObservedRightly'
  BY <1>0, <1>5, <1>6 DEF ObservedRightly
<1>8. CameToItsEnd(obs')
  BY <1>1, <1>2, <1>4 DEF CameToItsEnd
<1>9. AtWork'
  BY <1>0, <1>8 DEF AtWork
<1>10. QED
  BY <1>7, <1>9

\* What was published stays as it is while no file that is there changes.
LEMMA PublishedStays ==
    PublishedRightly /\ FilesGrow /\ UNCHANGED published => PublishedRightly'
  BY FoundedStays DEF PublishedRightly

\* A suite begins in its invariant.
LEMMA SuiteInit == Init => SuiteInv
<1> SUFFICES ASSUME Init PROVE SuiteInv
  OBVIOUS
<1> USE DEF Init
<1>1. SuiteTyped
  <2>1. TypeOK
    <3>1. file \in [Items -> [1..Len(Files) -> {Torn, Absent} \cup (1..MaxAttempts)]]
      OBVIOUS
    <3>2. item \in 1..(Cases + Mutations + 1) /\ next \in 1..Len(Files)
      BY SevenFiles, CasesAssumption
    <3>3. /\ attempt = 0 /\ pc = "idle" /\ worked = {} /\ benchmarked = FALSE
          /\ budget = 0 /\ used = 0 /\ disk = 0 /\ leaked = 0
      OBVIOUS
    <3> HIDE DEF Init
    <3>4. attempt \in 0..MaxAttempts /\ worked \subseteq Items
      BY <3>3, AttemptsAssumption
    <3>5. /\ budget \in Nat /\ used \in Nat /\ disk \in Nat /\ leaked \in Nat
          /\ benchmarked \in BOOLEAN
      BY <3>3
    <3>6. QED
      BY <3>1, <3>2, <3>3, <3>4, <3>5, Zenon DEF TypeOK
  <2>2. published \in [attempt : Nat, obs : Seq(CaseRecord)]
    BY DEF NoResults
  <2>3. QED
    BY <2>1, <2>2 DEF SuiteTyped
<1>2. BytesCounted /\ AtWork
  BY DEF BytesCounted, AtWork
<1>3. ObservedRightly /\ PublishedRightly
  BY DEF ObservedRightly, PublishedRightly, Founded, NoResults
<1>4. QED
  BY <1>1, <1>2, <1>3 DEF SuiteInv

(* An observation, in a step that leaves the rest as it is: with the shapes. *)
LEMMA ObservedKeeps ==
    ASSUME SuiteInv, pc \in {"encode", "store"}, item \in Items,
           NEW o \in {"MEASURED", "UNSUPPORTED", "HARNESS_FAILED"}, NEW v \in Verdicts,
           o # "MEASURED" => v = "INCOMPLETE",
           o = "MEASURED" => \A n \in 1..7 : file'[item][n] = attempt,
           Observe(o, v), FilesGrow, UNCHANGED <<attempt, budget, published, benchmarked>>,
           file' \in [Items -> [1..7 -> {Torn, Absent} \cup (1..MaxAttempts)]],
           used' \in Nat, disk' \in Nat, leaked' \in Nat,
           disk' = used' + leaked' /\ used' <= budget
    PROVE  SuiteInv'
<1>0. /\ SuiteTyped /\ BytesCounted /\ AtWork /\ ObservedRightly /\ PublishedRightly
      /\ attempt > 0
  BY DEF SuiteInv, BytesCounted
<1>1. /\ AtWork' /\ ObservedRightly' /\ pc' = "encode" /\ item' \in 1..(Cases + Mutations + 1)
      /\ next' = 1 /\ ran' = NotRun /\ UNCHANGED worked
  BY <1>0, ObserveKeeps
<1>2. SuiteTyped'
  <2>1. TypeOK'
    <3>1. /\ attempt' \in 0..MaxAttempts /\ budget' \in Nat /\ benchmarked' \in BOOLEAN
          /\ worked' \subseteq Items
      BY <1>0, <1>1 DEF SuiteTyped, TypeOK
    <3>2. pc' = "encode" /\ item' \in 1..(Cases + Mutations + 1) /\ next' \in 1..Len(Files)
      BY <1>1, SevenFiles
    <3>3. file' \in [Items -> [1..Len(Files) -> {Torn, Absent} \cup (1..MaxAttempts)]]
      BY SevenFiles
    <3>4. QED
      BY <3>1, <3>2, <3>3 DEF TypeOK
  <2>2. QED
    BY <1>0, <1>1, <2>1 DEF SuiteTyped
<1>3. BytesCounted'
  BY <1>0 DEF BytesCounted
<1>4. PublishedRightly'
  BY <1>0, PublishedStays
<1>5. QED
  BY <1>1, <1>2, <1>3, <1>4 DEF SuiteInv

\* An input that does not fit is listed as such and ends the suite.
LEMMA ExhaustedKeeps ==
    ASSUME SuiteInv, pc = "store", ran = NotRun, Exhaust,
           UNCHANGED <<attempt, store, durable>>
    PROVE  SuiteInv'
<1>0. SuiteTyped /\ BytesCounted /\ AtWork /\ ObservedRightly /\ PublishedRightly
  BY DEF SuiteInv
<1>1. AtWork' /\ ObservedRightly'
  BY <1>0, ExhaustKeeps DEF store
<1>2. SuiteTyped'
  BY <1>0 DEF SuiteTyped, TypeOK, Exhaust, store, durable
<1>3. BytesCounted' /\ FilesGrow
  BY <1>0 DEF BytesCounted, store, FilesGrow
<1>4. PublishedRightly'
  BY <1>0, <1>3, PublishedStays DEF durable
<1>5. QED
  BY <1>1, <1>2, <1>3, <1>4 DEF SuiteInv

(* A file of the case is stored: before the worker ran, or with its outcome,
   for which there is room. *)
LEMMA StoreFileKeeps ==
    ASSUME SuiteInv, pc = "store", NEW size \in Nat, StoreFile(size),
           \/ next < 5 /\ ran = NotRun
           \/ next \in {5, 6, 7} /\ ran # NotRun /\ size = ran.size[next - 4]
    PROVE  SuiteInv'
<1>0. /\ SuiteTyped /\ BytesCounted /\ AtWork /\ ObservedRightly /\ PublishedRightly
      /\ TypeOK /\ item \in Items /\ next \in 1..7 /\ Len(Files) = 7
  BY SevenFiles DEF SuiteInv, SuiteTyped, AtWork, TypeOK
<1>1. /\ disk = used + leaked /\ used <= budget /\ attempt \in 1..MaxAttempts
      /\ used \in Nat /\ leaked \in Nat /\ budget \in Nat /\ disk \in Nat
  BY <1>0, AttemptsAssumption DEF BytesCounted, TypeOK
<1>2. UNCHANGED <<attempt, budget, published, benchmarked>>
  BY DEF StoreFile, durable
<1>3. ASSUME AlreadyThere(size) PROVE SuiteInv'
  <2>1. Observe("HARNESS_FAILED", "INCOMPLETE") /\ UNCHANGED <<used, file, disk, leaked>>
    BY <1>3 DEF AlreadyThere
  <2>2. FilesGrow /\ file' \in [Items -> [1..7 -> {Torn, Absent} \cup (1..MaxAttempts)]]
    BY <1>0, <2>1 DEF FilesGrow, TypeOK
  <2>3. QED
    BY <1>0, <1>1, <1>2, <2>1, <2>2, ObservedKeeps DEF Verdicts
<1>4. ASSUME DoesNotFit(size) PROVE SuiteInv'
  <2>1. Exhaust /\ UNCHANGED <<attempt, store, durable>> /\ used + size > budget
    BY <1>1, <1>2, <1>4 DEF DoesNotFit, Fits, store, durable
  <2>2. ran = NotRun
    <3>1. SUFFICES ASSUME next \in {5, 6, 7}, ran # NotRun, size = ran.size[next - 4]
                   PROVE  used + size <= budget
      BY <1>1, <2>1
    <3>2. RoomForOutcome /\ ran \in WorkerRan
      BY <1>0, <3>1 DEF AtWork, SuiteTyped
    <3>3. ran.size[1] \in Nat /\ ran.size[2] \in Nat /\ ran.size[3] \in Nat
      BY <3>2 DEF WorkerRan
    <3>4. QED
      BY <1>1, <3>1, <3>2, <3>3 DEF RoomForOutcome
  <2>3. QED
    BY <2>1, <2>2, ExhaustedKeeps
<1>5. ASSUME Stored(size) PROVE SuiteInv'
  <2>1. /\ file[item][next] = Absent /\ used + size <= budget /\ used' = used + size
        /\ Put(attempt, size) /\ UNCHANGED leaked
    BY <1>5 DEF Stored, Fits
  <2>2. /\ FilesGrow /\ file'[item][next] = attempt /\ disk' = disk + size
        /\ file' \in [Items -> [1..7 -> {Torn, Absent} \cup (1..MaxAttempts)]]
        /\ \A n \in 1..7 : n # next => file'[item][n] = file[item][n]
    BY <1>0, <1>1, <2>1, PutGrows
  <2>3. ASSUME NEW n \in 1..next PROVE file'[item][n] = attempt
    <3>1. CASE n = next
      BY <2>2, <3>1
    <3>2. CASE n # next
      <4>1. n \in 1..(next - 1) /\ n \in 1..7
        BY <1>0, <3>2 DEF AtWork, SuiteTyped, TypeOK
      <4>2. QED
        BY <1>0, <2>2, <3>2, <4>1 DEF AtWork
    <3>3. QED
      BY <3>1, <3>2
  <2>4. CASE next = 7
    <3>1. Observe("MEASURED", ran.verdict)
      BY <1>0, <1>5, <2>4 DEF Stored
    <3>2. ran.verdict \in Verdicts
      BY <1>0, <2>4 DEF SuiteTyped, WorkerRan
    <3>3. QED
      BY <1>0, <1>1, <1>2, <2>1, <2>2, <2>3, <2>4, <3>1, <3>2, ObservedKeeps
  <2>5. CASE next # 7
    <3>0. next' = next + 1 /\ UNCHANGED <<pc, item, ran, obs, worked>>
      BY <1>0, <1>5, <2>5 DEF Stored
    <3>1. SuiteTyped'
      BY <1>0, <1>1, <1>2, <2>1, <2>2, <2>5, <3>0 DEF SuiteTyped, TypeOK
    <3>2. BytesCounted'
      BY <1>1, <1>2, <2>1, <2>2 DEF BytesCounted
    <3>3. AtWork'
      <4>1. ran # NotRun => next >= 5 /\ RoomForOutcome
        BY <1>0 DEF AtWork
      <4>2. ran # NotRun => RoomForOutcome'
        <5>1. SUFFICES ASSUME ran # NotRun PROVE RoomForOutcome'
          OBVIOUS
        <5>2. ran.size[1] \in Nat /\ ran.size[2] \in Nat /\ ran.size[3] \in Nat
          BY <1>0, <5>1 DEF SuiteTyped, WorkerRan
        <5>3. next \in {5, 6} /\ size = ran.size[next - 4]
          BY <2>5, <5>1
        <5>4. CASE next = 5
          BY <1>1, <1>2, <2>1, <3>0, <4>1, <5>1, <5>2, <5>3, <5>4 DEF RoomForOutcome
        <5>5. CASE next = 6
          BY <1>1, <1>2, <2>1, <3>0, <4>1, <5>1, <5>2, <5>3, <5>5 DEF RoomForOutcome
        <5>6. QED
          BY <5>3, <5>4, <5>5
      <4>3. \A n \in 1..(next' - 1) : file'[item][n] = attempt
        BY <1>0, <2>3, <3>0
      <4>4. QED
        BY <1>0, <1>2, <3>0, <4>1, <4>2, <4>3 DEF AtWork
    <3>4. ObservedRightly'
      BY <1>0, <1>2, <2>2, <3>0, FoundedStays DEF ObservedRightly
    <3>5. PublishedRightly'
      BY <1>0, <1>2, <2>2, PublishedStays
    <3>6. QED
      BY <3>1, <3>2, <3>3, <3>4, <3>5 DEF SuiteInv
  <2>6. QED
    BY <2>4, <2>5
<1>6. ASSUME StoreFails(size) PROVE SuiteInv'
  <2>1. PICK written \in 0..size : Put(Torn, written) /\ leaked' = leaked + written
    BY <1>6 DEF StoreFails
  <2>2. /\ file[item][next] = Absent /\ UNCHANGED used
        /\ Observe("HARNESS_FAILED", "INCOMPLETE")
    BY <1>6 DEF StoreFails
  <2>3. /\ FilesGrow /\ disk' = disk + written
        /\ file' \in [Items -> [1..7 -> {Torn, Absent} \cup (1..MaxAttempts)]]
    BY <1>0, <2>1, <2>2, PutGrows
  <2>4. QED
    BY <1>0, <1>1, <1>2, <2>1, <2>2, <2>3, ObservedKeeps DEF Verdicts
<1>7. QED
  BY <1>3, <1>4, <1>5, <1>6 DEF StoreFile

\* The command starts with what it finds on disk.
LEMMA BeginKeeps == SuiteInv /\ Begin => SuiteInv'
<1> SUFFICES ASSUME SuiteInv, Begin PROVE SuiteInv'
  OBVIOUS
<1>0. SuiteTyped /\ TypeOK /\ PublishedRightly
  BY DEF SuiteInv, SuiteTyped
<1>1. /\ attempt' = attempt + 1 /\ attempt < MaxAttempts /\ budget' \in Budgets /\ used' = disk
      /\ leaked' = 0 /\ item' = 1 /\ next' = 1 /\ ran' = NotRun /\ obs' = << >> /\ worked' = {}
      /\ pc' = (IF disk > budget' THEN "idle" ELSE "encode")
      /\ UNCHANGED <<file, disk, published, benchmarked>>
  BY DEF Begin, durable
<1>2. SuiteTyped'
  <2>1. /\ attempt' \in 0..MaxAttempts /\ pc' \in {"idle", "encode"} /\ budget' \in Nat
        /\ used' \in Nat /\ disk' \in Nat /\ leaked' \in Nat
        /\ item' \in 1..(Cases + Mutations + 1) /\ next' \in 1..Len(Files)
        /\ worked' \subseteq Items
    BY <1>0, <1>1, SevenFiles, AttemptsAssumption, BudgetsAssumption, CasesAssumption DEF TypeOK
  <2>2. QED
    BY <1>0, <1>1, <2>1 DEF SuiteTyped, TypeOK
<1>3. BytesCounted'
  <2>1. disk \in Nat /\ budget' \in Nat /\ attempt \in Nat
    BY <1>0, <1>1, BudgetsAssumption, AttemptsAssumption DEF TypeOK
  <2>2. QED
    BY <1>1, <2>1 DEF BytesCounted
<1>4. AtWork'
  BY <1>1 DEF AtWork
<1>5. ObservedRightly'
  BY <1>1 DEF ObservedRightly, Founded
<1>6. PublishedRightly'
  BY <1>0, <1>1, PublishedStays DEF FilesGrow
<1>7. QED
  BY <1>2, <1>3, <1>4, <1>5, <1>6 DEF SuiteInv

\* An adapter that is missing, or an exception, leaves an incomplete case.
LEMMA IncompleteKeeps ==
    ASSUME SuiteInv, pc \in {"encode", "store"}, item \in Items, Incomplete,
           UNCHANGED <<attempt, store, durable>>
    PROVE  SuiteInv'
<1>1. PICK o \in {"UNSUPPORTED", "HARNESS_FAILED"} : Observe(o, "INCOMPLETE")
  BY DEF Incomplete
<1>2. UNCHANGED <<attempt, budget, used, file, disk, leaked, published, benchmarked>>
  BY DEF store, durable
<1>3. /\ FilesGrow /\ file' \in [Items -> [1..7 -> {Torn, Absent} \cup (1..MaxAttempts)]]
      /\ used' \in Nat /\ disk' \in Nat /\ leaked' \in Nat
      /\ disk' = used' + leaked' /\ used' <= budget
  BY <1>2, SevenFiles DEF SuiteInv, SuiteTyped, TypeOK, BytesCounted, FilesGrow
<1>4. QED
  BY <1>1, <1>2, <1>3, ObservedKeeps DEF Verdicts

\* Encoding the input of a case: it begins, is unsupported or fails.
LEMMA EncodeKeeps == SuiteInv /\ Encode => SuiteInv'
<1> SUFFICES ASSUME SuiteInv, Encode PROVE SuiteInv'
  OBVIOUS
<1>0. pc = "encode" /\ item \in Items /\ UNCHANGED <<attempt, store, durable>>
  BY DEF Encode
<1>1. CASE Incomplete
  BY <1>0, <1>1, IncompleteKeeps
<1>2. CASE pc' = "store" /\ UNCHANGED memory
  <2>1. /\ pc' = "store" /\ SuiteTyped /\ next = 1 /\ ran = NotRun
        /\ UNCHANGED <<attempt, budget, used, file, disk, leaked, published, benchmarked,
                       item, next, ran, obs, worked>>
    BY <1>0, <1>2 DEF store, durable, memory, SuiteInv, AtWork
  <2>2. SuiteTyped'
    BY <2>1 DEF SuiteTyped, TypeOK
  <2>3. BytesCounted'
    BY <1>0, <2>1 DEF SuiteInv, BytesCounted
  <2>4. AtWork'
    BY <1>0, <2>1 DEF SuiteInv, AtWork
  <2>5. ObservedRightly' /\ PublishedRightly'
    BY <2>1 DEF SuiteInv, ObservedRightly, PublishedRightly
  <2>6. QED
    BY <2>2, <2>3, <2>4, <2>5 DEF SuiteInv
<1>3. QED
  BY <1>1, <1>2 DEF Encode

\* Storing a file of the case: written, torn, or the budget is exhausted.
LEMMA StoreKeeps == SuiteInv /\ (StoreInput \/ StoreOutcome) => SuiteInv'
<1> SUFFICES ASSUME SuiteInv, StoreInput \/ StoreOutcome PROVE SuiteInv'
  OBVIOUS
<1>0. next \in 1..7 /\ (pc = "store" /\ ran # NotRun => next >= 5) /\ SuiteTyped
  BY SevenFiles DEF SuiteInv, SuiteTyped, TypeOK, AtWork
<1>1. CASE StoreInput
  <2>1. PICK size \in FileSizes : StoreFile(size)
    BY <1>1 DEF StoreInput
  <2>2. pc = "store" /\ next < 5
    BY <1>1 DEF StoreInput, Launch
  <2>3. ran = NotRun /\ size \in Nat
    BY <1>0, <2>2, SizesAssumption
  <2>4. QED
    BY <2>1, <2>2, <2>3, StoreFileKeeps
<1>2. CASE StoreOutcome
  <2>1. pc = "store" /\ next \in {5, 6, 7} /\ ran # NotRun
    BY <1>0, <1>2 DEF StoreOutcome, Launch
  <2>2. StoreFile(ran.size[next - 4])
    <3>1. next - Launch + 1 = next - 4
      BY <2>1 DEF Launch
    <3>2. QED
      BY <1>2, <3>1 DEF StoreOutcome
  <2>3. ran.size[next - 4] \in Nat
    BY <1>0, <2>1 DEF SuiteTyped, WorkerRan
  <2>4. QED
    BY <2>1, <2>2, <2>3, StoreFileKeeps
<1>3. QED
  BY <1>1, <1>2

\* The worker's output and result are within what is left of the budget.
LEMMA RunWorkerKeeps == SuiteInv /\ RunWorker => SuiteInv'
<1> SUFFICES ASSUME SuiteInv, RunWorker PROVE SuiteInv'
  OBVIOUS
<1>0. /\ SuiteTyped /\ TypeOK /\ AtWork /\ pc = "store" /\ next = 5 /\ ran = NotRun
      /\ budget \in Nat /\ used \in Nat /\ Remaining >= Reserve /\ item \in Items
  BY DEF SuiteInv, SuiteTyped, TypeOK, RunWorker, Launch, AtWork
<1>1. UNCHANGED <<attempt, pc, budget, used, file, disk, leaked, item, next, obs, published,
                  benchmarked>> /\ worked' = worked \cup {item}
  BY DEF RunWorker, store, durable
<1>2. PICK verdict \in Verdicts, stdout \in 0..OutputBudget, stderr \in 0..OutputBudget,
           response \in 0..Reserve :
         /\ stdout + stderr <= OutputBudget
         /\ ran' = [verdict |-> verdict, size |-> <<stdout, stderr, response>>]
  BY DEF RunWorker, Verdicts
<1>3. OutputBudget \in Int /\ OutputBudget <= budget - used - Reserve
  BY <1>0, OutputAssumption DEF OutputBudget, Remaining
<1>4. ran' \in WorkerRan /\ ran' # NotRun
  <2>1. stdout \in Nat /\ stderr \in Nat /\ response \in Nat
    BY <1>3, OutputAssumption
  <2>2. QED
    BY <1>2, <2>1 DEF WorkerRan, NotRun, Verdicts
<1>5. RoomForOutcome'
  <2>1. ran'.size[1] = stdout /\ ran'.size[2] = stderr /\ ran'.size[3] = response
    BY <1>2
  <2>2. used + stdout + stderr + response <= budget
    BY <1>0, <1>2, <1>3, OutputAssumption
  <2>3. QED
    BY <1>0, <1>1, <2>1, <2>2 DEF RoomForOutcome
<1>6. SuiteTyped'
  BY <1>0, <1>1, <1>4 DEF SuiteTyped, TypeOK
<1>7. BytesCounted'
  BY <1>1 DEF SuiteInv, BytesCounted
<1>8. AtWork'
  BY <1>0, <1>1, <1>4, <1>5 DEF AtWork, Items
<1>9. ObservedRightly'
  <2>1. Len(obs) = item - 1 /\ item \in Nat
    BY <1>0 DEF AtWork, Items
  <2>2. QED
    BY <1>1, <2>1 DEF SuiteInv, ObservedRightly
<1>10. PublishedRightly'
  BY <1>1 DEF SuiteInv, PublishedRightly
<1>11. QED
  BY <1>6, <1>7, <1>8, <1>9, <1>10 DEF SuiteInv

\* The worker is not launched, or ends without a usable outcome.
LEMMA LaunchKeeps == SuiteInv /\ (RefuseLaunch \/ WorkerFails) => SuiteInv'
<1> SUFFICES ASSUME SuiteInv, RefuseLaunch \/ WorkerFails PROVE SuiteInv'
  OBVIOUS
<1>1. pc = "store" /\ ran = NotRun /\ UNCHANGED <<attempt, store, durable>>
  BY DEF RefuseLaunch, WorkerFails
<1>2. item \in Items
  BY <1>1 DEF SuiteInv, AtWork
<1>3. QED
  BY <1>1, <1>2, ExhaustedKeeps, IncompleteKeeps DEF RefuseLaunch, WorkerFails

(* The suite ends: what is published is what was observed. *)
LEMMA EndKeeps == SuiteInv /\ (AllDone \/ PublishResults \/ PublishManifest) => SuiteInv'
<1> SUFFICES ASSUME SuiteInv, AllDone \/ PublishResults \/ PublishManifest PROVE SuiteInv'
  OBVIOUS
<1>0. /\ SuiteTyped /\ TypeOK /\ BytesCounted /\ AtWork /\ ObservedRightly /\ PublishedRightly
      /\ attempt \in Nat /\ obs \in Seq(CaseRecord)
  BY AttemptsAssumption DEF SuiteInv, SuiteTyped, TypeOK, ObservedRightly, Founded
<1>1. CASE AllDone
  <2>1. /\ pc = "encode" /\ item \notin Items /\ pc' = "finish"
        /\ UNCHANGED <<attempt, budget, used, file, disk, leaked, published, benchmarked,
                       item, next, ran, obs, worked>>
    BY <1>1 DEF AllDone, store, durable, memory
  <2>2. item = Cases + Mutations + 1 /\ Len(obs) = item - 1
    BY <1>0, <2>1, CasesAssumption DEF Items, TypeOK, AtWork
  <2>3. CameToItsEnd(obs)
    BY <2>2, CasesAssumption DEF CameToItsEnd
  <2>4. SuiteTyped' /\ BytesCounted' /\ AtWork'
    BY <1>0, <2>1, <2>3 DEF SuiteTyped, TypeOK, BytesCounted, AtWork
  <2>5. ObservedRightly' /\ PublishedRightly'
    BY <1>0, <2>1 DEF ObservedRightly, PublishedRightly
  <2>6. QED
    BY <2>4, <2>5 DEF SuiteInv
<1>2. CASE PublishResults
  <2>1. /\ pc = "finish" /\ pc' = "manifest"
        /\ UNCHANGED <<attempt, budget, used, file, disk, leaked, benchmarked,
                       item, next, ran, obs, worked>>
        /\ published' = [attempt |-> attempt, obs |-> obs]
    BY <1>2 DEF PublishResults, store, memory
  <2>2. published'.attempt = attempt /\ published'.obs = obs
        /\ published' \in [attempt : Nat, obs : Seq(CaseRecord)]
    BY <1>0, <2>1
  <2>3. SuiteTyped' /\ BytesCounted' /\ AtWork'
    BY <1>0, <2>1, <2>2 DEF SuiteTyped, TypeOK, BytesCounted, AtWork
  <2>4. ObservedRightly' /\ PublishedRightly'
    BY <1>0, <2>1, <2>2 DEF ObservedRightly, PublishedRightly, AtWork
  <2>5. QED
    BY <2>3, <2>4 DEF SuiteInv
<1>3. CASE PublishManifest
  <2>1. /\ pc = "manifest" /\ pc' = "idle" /\ benchmarked' = TRUE
        /\ UNCHANGED <<attempt, budget, used, file, disk, leaked, published,
                       item, next, ran, obs, worked>>
    BY <1>3 DEF PublishManifest, store, memory
  <2>2. SuiteTyped' /\ BytesCounted' /\ AtWork'
    BY <1>0, <2>1 DEF SuiteTyped, TypeOK, BytesCounted, AtWork
  <2>3. ObservedRightly' /\ PublishedRightly'
    BY <1>0, <2>1 DEF ObservedRightly, PublishedRightly
  <2>4. QED
    BY <2>2, <2>3 DEF SuiteInv
<1>4. QED
  BY <1>1, <1>2, <1>3

(* The process is killed, perhaps while it writes a file. *)
LEMMA KillKeeps == SuiteInv /\ Kill => SuiteInv'
<1> SUFFICES ASSUME SuiteInv, Kill PROVE SuiteInv'
  OBVIOUS
<1>0. /\ SuiteTyped /\ TypeOK /\ AtWork /\ ObservedRightly /\ PublishedRightly
      /\ next \in 1..7 /\ disk \in Nat
  BY SevenFiles DEF SuiteInv, SuiteTyped, TypeOK
<1>1. /\ pc # "idle" /\ pc' = "idle"
      /\ UNCHANGED <<attempt, budget, used, leaked, item, next, ran, obs, worked, published,
                     benchmarked>>
  BY DEF Kill, memory, durable
<1>2. /\ FilesGrow /\ disk' \in Nat
      /\ file' \in [Items -> [1..7 -> {Torn, Absent} \cup (1..MaxAttempts)]]
  <2>1. CASE UNCHANGED <<file, disk>>
    BY <1>0, <2>1, SevenFiles DEF FilesGrow, TypeOK
  <2>2. CASE ~ UNCHANGED <<file, disk>>
    <3>1. /\ pc = "store" /\ file[item][next] = Absent /\ (next < Launch \/ ran # NotRun)
          /\ \E size \in IF next < Launch THEN FileSizes ELSE {ran.size[next - Launch + 1]} :
                \E written \in 0..size : Put(Torn, written)
      BY <2>2 DEF Kill
    <3>2. PICK size \in IF next < Launch THEN FileSizes ELSE {ran.size[next - Launch + 1]} :
                 \E written \in 0..size : Put(Torn, written)
      BY <3>1
    <3>3. size \in Nat
      <4>1. CASE next < Launch
        BY <3>2, <4>1, SizesAssumption
      <4>2. CASE ~ (next < Launch)
        <5>1. next \in {5, 6, 7} /\ ran \in WorkerRan /\ size = ran.size[next - 4]
          BY <1>0, <3>1, <3>2, <4>2 DEF Launch, SuiteTyped
        <5>2. QED
          BY <5>1 DEF WorkerRan
      <4>3. QED
        BY <4>1, <4>2
    <3>4. PICK written \in 0..size : Put(Torn, written)
      BY <3>2
    <3>5. written \in Nat /\ item \in Items
      BY <1>0, <3>1, <3>3 DEF AtWork
    <3>6. /\ FilesGrow /\ disk' = disk + written
          /\ file' \in [Items -> [1..7 -> {Torn, Absent} \cup (1..MaxAttempts)]]
      BY <1>0, <3>1, <3>4, <3>5, PutGrows
    <3>7. QED
      BY <1>0, <3>5, <3>6
  <2>3. QED
    BY <2>1, <2>2
<1>3. SuiteTyped'
  BY <1>0, <1>1, <1>2, SevenFiles DEF SuiteTyped, TypeOK
<1>4. BytesCounted' /\ AtWork'
  BY <1>1 DEF BytesCounted, AtWork
<1>5. ObservedRightly'
  BY <1>0, <1>1, <1>2, FoundedStays DEF ObservedRightly
<1>6. PublishedRightly'
  BY <1>0, <1>1, <1>2, PublishedStays
<1>7. QED
  BY <1>3, <1>4, <1>5, <1>6 DEF SuiteInv

\* Nothing of the suite moves.
LEMMA SuiteStutters == SuiteInv /\ UNCHANGED vars => SuiteInv'
<1> SUFFICES ASSUME SuiteInv, UNCHANGED vars PROVE SuiteInv'
  OBVIOUS
<1> USE DEF vars, store, memory, durable
<1>1. SuiteTyped' /\ BytesCounted'
  BY DEF SuiteInv, SuiteTyped, TypeOK, BytesCounted
<1>2. AtWork'
  BY DEF SuiteInv, AtWork, RoomForOutcome
<1>3. ObservedRightly' /\ PublishedRightly'
  BY DEF SuiteInv, ObservedRightly, PublishedRightly
<1>4. QED
  BY <1>1, <1>2, <1>3 DEF SuiteInv

\* Every step of the bounded suite.
LEMMA SuiteStep == SuiteInv /\ [Next]_vars => SuiteInv'
  BY BeginKeeps, EncodeKeeps, StoreKeeps, RunWorkerKeeps, LaunchKeeps, EndKeeps, KillKeeps,
     SuiteStutters DEF Next

(* What a suite's invariant says of its properties. *)
LEMMA SuiteBudget == SuiteInv => DiskWithinBudget /\ BudgetHidesNoResult
<1> SUFFICES ASSUME SuiteInv PROVE DiskWithinBudget /\ BudgetHidesNoResult
  OBVIOUS
<1>1. DiskWithinBudget
  BY DEF SuiteInv, SuiteTyped, TypeOK, BytesCounted, DiskWithinBudget
<1>2. DOMAIN obs = 1..Len(obs) /\ \A k \in 1..Len(obs) : obs[k].item = k
  BY DEF SuiteInv, ObservedRightly, Founded
<1>3. BudgetHidesNoResult
  BY <1>2 DEF SuiteInv, ObservedRightly, BudgetHidesNoResult
<1>4. QED
  BY <1>1, <1>3

\* The invariant says that results have their evidence.
LEMMA SuiteEvidence == SuiteInv => ResultsHaveEvidence
<1> SUFFICES ASSUME SuiteInv PROVE ResultsHaveEvidence
  OBVIOUS
<1>1. Founded(published.obs, published.attempt, file)
  BY DEF SuiteInv, PublishedRightly
<1>2. DOMAIN published.obs = 1..Len(published.obs)
  BY <1>1 DEF Founded
<1>3. QED
  BY <1>1, <1>2, SevenFiles DEF Founded, ResultsHaveEvidence

\* The invariant says that a green suite was carried out.
LEMMA SuiteGreen == SuiteInv => GreenMeansAll
<1> SUFFICES ASSUME SuiteInv, Green(published.obs), NEW i \in Items
             PROVE  /\ \E k \in DOMAIN published.obs :
                          /\ published.obs[k].item = i
                          /\ published.obs[k].observed = "MEASURED"
                          /\ published.obs[k].verdict = "PASS"
                    /\ \A n \in 1..Len(Files) : file[i][n] = published.attempt
  BY DEF GreenMeansAll
<1> DEFINE o == published.obs
<1>1. /\ Founded(o, published.attempt, file) /\ o \in Seq(CaseRecord)
      /\ o # << >> => CameToItsEnd(o)
  BY DEF SuiteInv, PublishedRightly, Founded
<1>2. DOMAIN o = 1..Len(o)
  BY <1>1
<1>3. o # << >>
  BY DEF Green, Core
<1>4. \A k \in 1..Len(o) : o[k].core = TRUE /\ o[k].verdict \in Verdicts
  <2>1. \A k \in 1..Len(o) : o[k] \in CaseRecord
    BY <1>1
  <2>2. \A r \in CaseRecord : r.core = TRUE /\ r.verdict \in Verdicts
    BY DEF CaseRecord
  <2>3. QED
    BY <2>1, <2>2
<1>5. \A k \in 1..Len(o) : o[k].verdict = "PASS"
  BY <1>2, <1>4 DEF Green, Blockers, Core, Verdicts
<1>6. Len(o) = Cases + Mutations
  BY <1>1, <1>3, <1>5 DEF CameToItsEnd
<1>7. /\ i \in 1..Len(o) /\ o[i].item = i /\ o[i].verdict = "PASS" /\ o[i].observed = "MEASURED"
      /\ \A n \in 1..7 : file[i][n] = published.attempt
  BY <1>1, <1>5, <1>6 DEF Items, Founded
<1>8. QED
  BY <1>2, <1>7, SevenFiles

-----------------------------------------------------------------------------
(***************************************************************************)
(* The native suite.  Its targets are asked for in order, the same one     *)
(* perhaps twice.  What an observation says of a process is what the       *)
(* process did, unless the same target has just been run again: then its   *)
(* files are there already and the command is left before it publishes.    *)
(***************************************************************************)
Asked == {Selected[k] : k \in DOMAIN Selected}
Present == Selected[t]
Outcomes == {"TIMED_OUT", "CRASHED", "ACCEPTED", "TARGET_FAILED"}
NotMeasured == {"UNSUPPORTED", "HARNESS_FAILED", "BUDGET_EXHAUSTED"}
TargetRecord == [target : Asked, core : BOOLEAN, observed : Outcomes \cup NotMeasured,
                 verdict : Verdicts]

(* File k of target n is in the store f, written in attempt a, if it has one. *)
Stored5(n, k, a, f) == f[n][k] = a \/ (k = 2 /\ n \notin WithCorpus)

(* The observations o of the first targets, made in attempt a, with files f. *)
Reported(o, a, f) ==
    /\ o \in Seq(TargetRecord) /\ Len(o) <= Len(Selected)
    /\ \A k \in 1..Len(o) :
          /\ o[k].target = Selected[k] /\ (Selected[k] \in CoreTargets => o[k].core = TRUE)
          /\ o[k].verdict = "PASS" => o[k].observed = "ACCEPTED"
          /\ o[k].observed = "HARNESS_FAILED" => o[k].verdict = "INCOMPLETE"
          /\ o[k].observed \in Outcomes =>
                a > 0 /\ \A n \in 1..5 : Stored5(Selected[k], n, a, f)

NativeTyped ==
    /\ attempt \in 0..MaxAttempts /\ pc \in {"idle", "check", "store", "manifest"}
    /\ t \in 1..(Len(Selected) + 1) /\ next \in 1..5
    /\ outcome \in Outcomes \cup {"NONE", "HARNESS_FAILED"}
    /\ ended \in [Asked -> Outcomes \cup {"NONE", "HARNESS_FAILED"}]
    /\ file \in [Asked -> [1..5 -> 0..MaxAttempts]]
    /\ used \in Nat /\ used = disk /\ used <= Budget
    /\ published \in [attempt : Nat, obs : Seq(TargetRecord)]
    /\ published.attempt <= attempt

NativeAtWork ==
    /\ pc # "idle" => attempt > 0
    /\ pc \in {"check", "store"} => Len(obs) = t - 1 /\ published.attempt < attempt
    /\ pc = "check" => next = 1
    /\ pc = "store" => /\ t \in 1..Len(Selected) /\ outcome = ended[Present] /\ outcome # "NONE"
                       /\ \A n \in 1..(next - 1) : Stored5(Present, n, attempt, file)

NativeReported ==
    /\ Reported(obs, attempt, file)
    /\ pc \in {"check", "store"} =>
          \A k \in 1..Len(obs) : obs[k].observed \in Outcomes =>
              \/ obs[k].observed = ended[Selected[k]]
              \/ pc = "store" /\ next = 1 /\ Present = Selected[k]

NativePublished ==
    /\ (published.obs = << >> /\ published.attempt = 0) \/ Len(published.obs) = Len(Selected)
    /\ Reported(published.obs, published.attempt, file)
    /\ published.attempt = attempt =>
          \A k \in 1..Len(published.obs) : published.obs[k].observed \in Outcomes =>
              published.obs[k].observed = ended[Selected[k]]

NativeInv == NativeTyped /\ NativeAtWork /\ NativeReported /\ NativePublished

(* The actions of the model, by names of their own. *)
Listed(o) == Native!Observe(o)
Continued == Native!Continue

\* What the assumptions say of the targets, the budget and the sizes.
LEMMA NativeConstants ==
    /\ Selected \in Seq(STRING) /\ DOMAIN Selected = 1..Len(Selected) /\ Len(Selected) \in Nat
    /\ CoreTargets \subseteq Asked /\ Budget \in Nat /\ NativeSizes \subseteq Nat
    /\ \A k \in 1..Len(Selected) : Selected[k] \in Asked
<1>1. /\ Selected \in Seq(STRING) /\ CoreTargets \subseteq Asked
      /\ Budget \in Nat /\ NativeSizes \subseteq Nat
  BY NativeAssumption DEF Native!TargetsAssumption, Native!BudgetAssumption, Native!Targets, Asked
<1>2. DOMAIN Selected = 1..Len(Selected) /\ Len(Selected) \in Nat
  BY <1>1
<1>3. QED
  BY <1>1, <1>2 DEF Asked

NativeGrow == \A n \in Asked, k \in 1..5 : file[n][k] # 0 => file'[n][k] = file[n][k]

\* What is reported stays right when files are added.
LEMMA ReportedStays ==
    ASSUME NEW o, NEW a, Reported(o, a, file), NativeGrow
    PROVE  Reported(o, a, file')
  BY NativeConstants DEF Reported, NativeGrow, Stored5

\* What listing a target writes.
LEMMA ListedIs ==
    ASSUME NEW o, Listed(o)
    PROVE  /\ obs' = Append(obs, [target |-> Present, core |-> Present \in CoreTargets,
                                  observed |-> o, verdict |-> Verdict("MUST_NOT_CRASH", o)])
           /\ t' = t + 1 /\ outcome' = "NONE" /\ next' = 1 /\ pc' = "check"
  BY DEF Listed, Native!Observe, Native!Target, Present, Native!Verdict, Verdict

\* How a target whose file is there, or that has none, goes on.
LEMMA ContinuedIs ==
    Continued => \/ next = 5 /\ Listed(outcome)
                 \/ next # 5 /\ next' = next + 1 /\ UNCHANGED <<pc, t, outcome, obs>>
<1>1. Len(Native!Files) = 5
  BY DEF Native!Files
<1>2. QED
  BY <1>1 DEF Continued, Listed, Native!Continue

(* Before the first file of a target is stored, no observation of this
   attempt has measured it. *)
LEMMA NotMeasuredYet ==
    ASSUME NativeInv, pc = "store", next = 1 => file[Present][1] = 0
    PROVE  \A k \in 1..Len(obs) :
               obs[k].observed \in Outcomes => obs[k].observed = ended[Selected[k]]
  BY DEF NativeInv, NativeReported, Reported, Stored5

(* A target is listed, and the suite goes on to the next one. *)
LEMMA ListedKeeps ==
    ASSUME NativeInv, pc \in {"check", "store"}, t \in 1..Len(Selected),
           NEW o \in Outcomes \cup NotMeasured, Listed(o), NativeGrow,
           UNCHANGED <<attempt, ended, published>>,
           o \in Outcomes => /\ \A n \in 1..5 : Stored5(Present, n, attempt, file')
                             /\ ended[Present] = o,
           pc = "store" /\ next = 1 => file[Present][1] = 0,
           file' \in [Asked -> [1..5 -> 0..MaxAttempts]],
           used' \in Nat, used' = disk', used' <= Budget
    PROVE  NativeInv'
<1> DEFINE e == [target |-> Present, core |-> Present \in CoreTargets,
                 observed |-> o, verdict |-> Verdict("MUST_NOT_CRASH", o)]
<1>0. /\ NativeTyped /\ NativeAtWork /\ NativeReported /\ NativePublished
      /\ obs' = Append(obs, e) /\ t' = t + 1 /\ outcome' = "NONE" /\ next' = 1 /\ pc' = "check"
      /\ Present = Selected[t] /\ Present \in Asked /\ t \in Nat /\ Len(Selected) \in Nat
  BY ListedIs, NativeConstants DEF NativeInv, Present
<1>1. Verdict("MUST_NOT_CRASH", o) \in Verdicts
  BY DEF Verdict, Verdicts
<1>2. /\ Verdict("MUST_NOT_CRASH", o) = "PASS" => o = "ACCEPTED"
      /\ o = "HARNESS_FAILED" => Verdict("MUST_NOT_CRASH", o) = "INCOMPLETE"
  BY DEF Verdict, Outcomes, NotMeasured
<1>3. /\ e \in TargetRecord /\ e.target = Selected[t]
      /\ (Selected[t] \in CoreTargets => e.core = TRUE)
      /\ e.observed = o /\ e.verdict = Verdict("MUST_NOT_CRASH", o)
  <2>1. e.core = (Selected[t] \in CoreTargets)
    BY <1>0
  <2>2. e.target = Selected[t] /\ e.observed = o /\ e.verdict = Verdict("MUST_NOT_CRASH", o)
    BY <1>0
  <2>3. e \in TargetRecord
    BY <1>0, <1>1 DEF TargetRecord
  <2>4. Selected[t] \in CoreTargets => e.core = TRUE
    BY <2>1, Zenon
  <2>5. QED
    BY <2>2, <2>3, <2>4
<1> HIDE DEF e
<1>4. /\ obs' \in Seq(TargetRecord) /\ Len(obs') = t /\ obs'[t] = e
      /\ Len(obs) = t - 1 /\ \A k \in 1..Len(obs) : obs'[k] = obs[k]
  BY <1>0, <1>3 DEF NativeAtWork, NativeReported, Reported
<1>5. Reported(obs, attempt, file')
  BY <1>0, ReportedStays DEF NativeReported
<1>6. attempt > 0
  BY <1>0 DEF NativeAtWork
<1>7. Reported(obs', attempt, file')
  <2>1. obs' \in Seq(TargetRecord) /\ Len(obs') <= Len(Selected)
    BY <1>0, <1>4 DEF NativeTyped
  <2>2. \A k \in 1..Len(obs') : k = t \/ k \in 1..Len(obs)
    BY <1>0, <1>4
  <2>3. QED
    BY <1>0, <1>2, <1>3, <1>4, <1>5, <1>6, <2>1, <2>2 DEF Reported
<1>8. \A k \in 1..Len(obs) :
          obs[k].observed \in Outcomes => obs[k].observed = ended[Selected[k]]
  BY <1>0, NotMeasuredYet DEF NativeReported
<1>9. \A k \in 1..Len(obs') :
          obs'[k].observed \in Outcomes => obs'[k].observed = ended[Selected[k]]
  <2>1. SUFFICES ASSUME NEW k \in 1..Len(obs'), obs'[k].observed \in Outcomes
                 PROVE  obs'[k].observed = ended[Selected[k]]
    OBVIOUS
  <2>2. CASE k = t
    BY <1>0, <1>3, <1>4, <2>1, <2>2
  <2>3. CASE k # t
    <3>1. k \in 1..Len(obs)
      BY <1>0, <1>4, <2>3
    <3>2. QED
      BY <1>4, <1>8, <2>1, <3>1
  <2>4. QED
    BY <2>2, <2>3
<1>10. NativeReported'
  BY <1>0, <1>7, <1>9 DEF NativeReported
<1>11. NativeTyped'
  <2>1. /\ t' \in 1..(Len(Selected) + 1) /\ next' \in 1..5 /\ pc' = "check" /\ outcome' = "NONE"
        /\ attempt \in 0..MaxAttempts /\ published.attempt <= attempt
        /\ ended \in [Asked -> Outcomes \cup {"NONE", "HARNESS_FAILED"}]
        /\ published \in [attempt : Nat, obs : Seq(TargetRecord)]
    BY <1>0 DEF NativeTyped
  <2>2. QED
    BY <2>1 DEF NativeTyped
<1>12. NativeAtWork'
  BY <1>0, <1>4, <1>6 DEF NativeAtWork
<1>13. NativePublished'
  BY <1>0, ReportedStays DEF NativePublished
<1>14. QED
  BY <1>10, <1>11, <1>12, <1>13 DEF NativeInv

\* The first state has no attempt, and so no evidence to be missing.
LEMMA NativeInit == Native!Init => NativeInv
<1> SUFFICES ASSUME Native!Init PROVE NativeInv
  OBVIOUS
<1>0. /\ attempt = 0 /\ pc = "idle" /\ t = 1 /\ outcome = "NONE" /\ next = 1 /\ obs = << >>
      /\ used = 0 /\ disk = 0 /\ published = [attempt |-> 0, obs |-> << >>]
      /\ file = [n \in Asked |-> [k \in 1..5 |-> 0]]
      /\ ended = [n \in Asked |-> "NONE"]
  <2>1. DOMAIN Native!Files = 1..5
    BY DEF Native!Files
  <2>2. QED
    BY <2>1 DEF Native!Init, Native!Targets, Native!NoResults, Asked
<1>1. NativeTyped
  <2>1. /\ file \in [Asked -> [1..5 -> 0..MaxAttempts]]
        /\ ended \in [Asked -> Outcomes \cup {"NONE", "HARNESS_FAILED"}]
    BY <1>0, AttemptsAssumption
  <2>2. published \in [attempt : Nat, obs : Seq(TargetRecord)] /\ published.attempt <= attempt
    BY <1>0
  <2>3. t \in 1..(Len(Selected) + 1) /\ attempt \in 0..MaxAttempts /\ used <= Budget
    BY <1>0, NativeConstants, AttemptsAssumption
  <2>4. QED
    BY <1>0, <2>1, <2>2, <2>3 DEF NativeTyped
<1>2. NativeAtWork /\ NativeReported /\ NativePublished
  BY <1>0, NativeConstants DEF NativeAtWork, NativeReported, NativePublished, Reported
<1>3. QED
  BY <1>1, <1>2 DEF NativeInv

\* An attempt begins: it forgets what earlier ones listed, not what they stored.
LEMMA NativeBeginKeeps == NativeInv /\ Native!Begin => NativeInv'
<1> SUFFICES ASSUME NativeInv, Native!Begin PROVE NativeInv'
  OBVIOUS
<1>0. /\ attempt < MaxAttempts /\ attempt' = attempt + 1 /\ pc' = "check" /\ t' = 1
      /\ outcome' = "NONE" /\ next' = 1 /\ obs' = << >> /\ used' = disk
      /\ ended' = [n \in Asked |-> "NONE"] /\ UNCHANGED <<file, disk, published>>
  BY DEF Native!Begin, Native!Targets, Asked
<1>1. NativeTyped /\ NativePublished /\ attempt \in Nat /\ published.attempt \in Nat
  BY AttemptsAssumption DEF NativeInv, NativeTyped
<1>2. NativeTyped'
  <2>1. ended' \in [Asked -> Outcomes \cup {"NONE", "HARNESS_FAILED"}]
    BY <1>0
  <2>2. t' \in 1..(Len(Selected) + 1) /\ attempt' \in 0..MaxAttempts
        /\ published'.attempt <= attempt'
    BY <1>0, <1>1, NativeConstants, AttemptsAssumption DEF NativeTyped
  <2>3. QED
    BY <1>0, <1>1, <2>1, <2>2 DEF NativeTyped
<1>3. published'.attempt < attempt' /\ attempt' > 0
  BY <1>0, <1>1 DEF NativeTyped
<1>4. NativeAtWork' /\ NativeReported'
  BY <1>0, <1>3, NativeConstants DEF NativeAtWork, NativeReported, Reported
<1>5. NativePublished'
  BY <1>0, <1>1, <1>3 DEF NativePublished
<1>6. QED
  BY <1>2, <1>4, <1>5 DEF NativeInv

\* A target that is not available, or cannot be prepared, is listed as such.
LEMMA NativeNotRunKeeps == NativeInv /\ Native!NotRun => NativeInv'
<1> SUFFICES ASSUME NativeInv, Native!NotRun PROVE NativeInv'
  OBVIOUS
<1>0. /\ pc = "check" /\ t \in DOMAIN Selected
      /\ \E o \in NotMeasured : Listed(o)
      /\ UNCHANGED <<attempt, ended, published, used, file, disk>>
  BY DEF Native!NotRun, Native!store, Listed, NotMeasured
<1>1. PICK o \in NotMeasured : Listed(o)
  BY <1>0
<1>2. t \in 1..Len(Selected) /\ o \notin Outcomes
  BY <1>0, NativeConstants DEF NotMeasured, Outcomes
<1>3. /\ NativeGrow /\ file' \in [Asked -> [1..5 -> 0..MaxAttempts]]
      /\ used' \in Nat /\ used' = disk' /\ used' <= Budget
  BY <1>0 DEF NativeInv, NativeTyped, NativeGrow
<1>4. QED
  BY <1>0, <1>1, <1>2, <1>3, ListedKeeps

\* The fuzzer of a target ends.
LEMMA NativeRunKeeps == NativeInv /\ Native!Run => NativeInv'
<1> SUFFICES ASSUME NativeInv, Native!Run PROVE NativeInv'
  OBVIOUS
<1>0. /\ pc = "check" /\ t \in DOMAIN Selected
      /\ outcome' \in Outcomes \cup {"HARNESS_FAILED"}
      /\ ended' = [ended EXCEPT ![Present] = outcome'] /\ pc' = "store"
      /\ UNCHANGED <<attempt, t, next, obs, used, file, disk, published>>
  BY DEF Native!Run, Native!store, Native!ProcessOutcomes, Native!Target, Present, Outcomes
<1>1. /\ NativeTyped /\ NativeAtWork /\ NativeReported /\ NativePublished
      /\ t \in 1..Len(Selected) /\ Present \in Asked /\ next = 1 /\ outcome' # "NONE"
      /\ published.attempt < attempt /\ Present' = Present
      /\ published.attempt \in Nat /\ attempt \in Nat
  <2>1. NativeTyped /\ NativeAtWork /\ NativeReported /\ NativePublished
    BY DEF NativeInv
  <2>2. t \in 1..Len(Selected) /\ next = 1 /\ published.attempt < attempt
    BY <1>0, <2>1, NativeConstants DEF NativeAtWork, NativeTyped
  <2>3. Present \in Asked
    BY <2>2, NativeConstants DEF Present
  <2>4. outcome' # "NONE"
    BY <1>0 DEF Outcomes
  <2>5. Present' = Present
    BY <1>0 DEF Present
  <2>6. published.attempt \in Nat /\ attempt \in Nat
    BY <2>1, AttemptsAssumption DEF NativeTyped
  <2>7. QED
    BY <2>1, <2>2, <2>3, <2>4, <2>5, <2>6
<1>2. /\ ended' \in [Asked -> Outcomes \cup {"NONE", "HARNESS_FAILED"}]
      /\ ended'[Present] = outcome'
      /\ \A n \in Asked : n # Present => ended'[n] = ended[n]
  BY <1>0, <1>1 DEF NativeTyped
<1>3. NativeTyped'
  BY <1>0, <1>1, <1>2 DEF NativeTyped
<1>4. NativeAtWork'
  BY <1>0, <1>1, <1>2 DEF NativeAtWork
<1>5. NativeReported'
  <2>1. Reported(obs, attempt, file)'
    BY <1>0, <1>1 DEF NativeReported
  <2>2. \A k \in 1..Len(obs) : obs[k].observed \in Outcomes =>
            obs[k].observed = ended'[Selected[k]] \/ Present = Selected[k]
    <3>1. \A k \in 1..Len(obs) : k \in 1..Len(Selected)
      BY <1>1, NativeConstants DEF NativeReported, Reported
    <3>2. QED
      BY <1>0, <1>1, <1>2, <3>1, NativeConstants DEF NativeReported
  <2>3. QED
    BY <1>0, <1>1, <2>1, <2>2 DEF NativeReported
<1>6. NativePublished'
  BY <1>0, <1>1 DEF NativePublished
<1>7. QED
  BY <1>3, <1>4, <1>5, <1>6 DEF NativeInv

\* A file is put where there was none.
LEMMA NativePutGrows ==
    ASSUME NativeTyped, Present \in Asked, NEW size \in Nat, file[Present][next] = 0,
           file' = [file EXCEPT ![Present][next] = attempt]
    PROVE  /\ NativeGrow /\ file'[Present][next] = attempt
           /\ file' \in [Asked -> [1..5 -> 0..MaxAttempts]]
           /\ \A k \in 1..5 : k # next => file'[Present][k] = file[Present][k]
  BY DEF NativeTyped, NativeGrow

(* The next file of a target is there, or it has none: the case goes on, or
   is listed with the outcome of its process. *)
LEMMA ContinuedKeeps ==
    ASSUME NativeInv, pc = "store", Continued, NativeGrow,
           UNCHANGED <<attempt, ended, published>>,
           Stored5(Present, next, attempt, file'),
           \A k \in 1..5 : k # next => file'[Present][k] = file[Present][k],
           next = 1 => file[Present][1] = 0,
           file' \in [Asked -> [1..5 -> 0..MaxAttempts]],
           used' \in Nat, used' = disk', used' <= Budget
    PROVE  NativeInv'
<1>0. /\ NativeTyped /\ NativeAtWork /\ NativeReported /\ NativePublished
      /\ t \in 1..Len(Selected) /\ next \in 1..5 /\ outcome = ended[Present] /\ outcome # "NONE"
      /\ outcome \in Outcomes \cup {"HARNESS_FAILED"}
  BY DEF NativeInv, NativeAtWork, NativeTyped
<1>1. ASSUME NEW k \in 1..next PROVE Stored5(Present, k, attempt, file')
  <2>1. CASE k = next
    BY <2>1
  <2>2. CASE k # next
    <3>0. next \in 1..5 /\ k \in 1..next
      BY <1>0
    <3>1. k \in 1..(next - 1) /\ k \in 1..5
      BY ONLY <2>2, <3>0
    <3>2. Stored5(Present, k, attempt, file)
      BY <1>0, <3>1 DEF NativeAtWork
    <3>3. file'[Present][k] = file[Present][k]
      BY <2>2, <3>1
    <3>4. QED
      BY ONLY <3>2, <3>3 DEF Stored5
  <2>3. QED
    BY <2>1, <2>2
<1>2. CASE next = 5 /\ Listed(outcome)
  <2>1. outcome \in Outcomes \cup NotMeasured
    BY <1>0 DEF NotMeasured
  <2>2. QED
    BY <1>0, <1>1, <1>2, <2>1, ListedKeeps
<1>3. CASE next # 5 /\ next' = next + 1 /\ UNCHANGED <<pc, t, outcome, obs>>
  <2>0. Present' = Present
    BY <1>3 DEF Present
  <2>1. NativeTyped'
    <3>0. next' \in 1..5
      <4>1. next \in 1..5 /\ next # 5 /\ next' = next + 1
        BY <1>0, <1>3
      <4>2. QED
        BY ONLY <4>1
    <3>1. /\ next' \in 1..5 /\ pc' \in {"idle", "check", "store", "manifest"}
          /\ t' \in 1..(Len(Selected) + 1)
      BY <1>0, <1>3, <3>0 DEF NativeTyped
    <3>2. /\ outcome' \in Outcomes \cup {"NONE", "HARNESS_FAILED"}
          /\ ended \in [Asked -> Outcomes \cup {"NONE", "HARNESS_FAILED"}]
          /\ published \in [attempt : Nat, obs : Seq(TargetRecord)]
          /\ published.attempt <= attempt /\ attempt \in 0..MaxAttempts
      BY <1>0, <1>3 DEF NativeTyped
    <3>3. QED
      BY <3>1, <3>2 DEF NativeTyped
  <2>2. NativeAtWork'
    BY <1>0, <1>1, <1>3, <2>0 DEF NativeAtWork
  <2>3. Reported(obs, attempt, file')
    BY <1>0, ReportedStays DEF NativeReported
  <2>4. \A k \in 1..Len(obs) :
            obs[k].observed \in Outcomes => obs[k].observed = ended[Selected[k]]
    BY NotMeasuredYet
  <2>5. NativeReported'
    BY <1>3, <2>3, <2>4 DEF NativeReported
  <2>6. NativePublished'
    BY <1>0, ReportedStays DEF NativePublished
  <2>7. QED
    BY <2>1, <2>2, <2>5, <2>6 DEF NativeInv
<1>4. QED
  BY <1>2, <1>3, ContinuedIs

\* A file of a target is stored, has no room, or the attempt is broken off.
LEMMA NativeStoreKeeps == NativeInv /\ Native!StoreFile => NativeInv'
<1> SUFFICES ASSUME NativeInv, Native!StoreFile PROVE NativeInv'
  OBVIOUS
<1>0. PICK size \in NativeSizes :
          \/ /\ next = 2 /\ Present \notin WithCorpus /\ Continued /\ UNCHANGED <<used, file, disk>>
          \/ /\ file[Present][next] = 0 /\ used + size <= Budget /\ Continued
             /\ file' = [file EXCEPT ![Present][next] = attempt]
             /\ disk' = disk + size /\ used' = used + size
          \/ /\ file[Present][next] = 0 /\ Listed("BUDGET_EXHAUSTED")
             /\ UNCHANGED <<used, file, disk>>
          \/ pc' = "idle" /\ UNCHANGED <<t, outcome, next, obs, used, file, disk>>
  BY DEF Native!StoreFile, Native!Skip, Native!Fits, Native!Stored, Native!DoesNotFit, Native!Raise,
         Native!store, Native!work, Native!Target, Present, Continued, Listed
<1>1. pc = "store" /\ UNCHANGED <<attempt, ended, published>>
  BY DEF Native!StoreFile
<1>2. /\ NativeTyped /\ NativeAtWork /\ NativeReported /\ NativePublished
      /\ t \in 1..Len(Selected) /\ next \in 1..5 /\ Present \in Asked /\ size \in Nat
      /\ used \in Nat /\ used = disk /\ used <= Budget /\ Budget \in Nat
      /\ file \in [Asked -> [1..5 -> 0..MaxAttempts]]
  BY <1>1, NativeConstants DEF NativeInv, NativeAtWork, NativeTyped, Present
<1>3. CASE next = 2 /\ Present \notin WithCorpus /\ Continued /\ UNCHANGED <<used, file, disk>>
  <2>1. NativeGrow /\ Stored5(Present, next, attempt, file')
    BY <1>3 DEF NativeGrow, Stored5
  <2>2. QED
    BY <1>1, <1>2, <1>3, <2>1, ContinuedKeeps
<1>4. CASE /\ file[Present][next] = 0 /\ used + size <= Budget /\ Continued
           /\ file' = [file EXCEPT ![Present][next] = attempt]
           /\ disk' = disk + size /\ used' = used + size
  <2>1. /\ NativeGrow /\ file'[Present][next] = attempt
        /\ file' \in [Asked -> [1..5 -> 0..MaxAttempts]]
        /\ \A k \in 1..5 : k # next => file'[Present][k] = file[Present][k]
    BY <1>2, <1>4, NativePutGrows
  <2>2. Stored5(Present, next, attempt, file')
    BY <2>1 DEF Stored5
  <2>3. used' \in Nat /\ used' = disk' /\ used' <= Budget /\ (next = 1 => file[Present][1] = 0)
    BY <1>2, <1>4
  <2>4. QED
    BY ONLY NativeInv, <1>1, <1>4, <2>1, <2>2, <2>3, ContinuedKeeps
<1>5. CASE /\ file[Present][next] = 0 /\ Listed("BUDGET_EXHAUSTED")
           /\ UNCHANGED <<used, file, disk>>
  <2>1. "BUDGET_EXHAUSTED" \in NotMeasured /\ "BUDGET_EXHAUSTED" \notin Outcomes /\ NativeGrow
    BY <1>5 DEF NotMeasured, Outcomes, NativeGrow
  <2>2. QED
    BY <1>1, <1>2, <1>5, <2>1, ListedKeeps
<1>6. CASE pc' = "idle" /\ UNCHANGED <<t, outcome, next, obs, used, file, disk>>
  <2>1. NativeTyped' /\ NativeAtWork'
    BY <1>1, <1>2, <1>6 DEF NativeTyped, NativeAtWork
  <2>2. NativeReported' /\ NativePublished'
    BY <1>1, <1>2, <1>6 DEF NativeReported, NativePublished
  <2>3. QED
    BY <2>1, <2>2 DEF NativeInv
<1>7. QED
  BY <1>0, <1>3, <1>4, <1>5, <1>6

\* What is published is what was observed, and the manifest follows.
LEMMA NativeEndKeeps ==
    NativeInv /\ (Native!PublishResults \/ Native!PublishManifest \/ Native!Kill) => NativeInv'
<1> SUFFICES ASSUME NativeInv, Native!PublishResults \/ Native!PublishManifest \/ Native!Kill
             PROVE  NativeInv'
  OBVIOUS
<1>0. /\ NativeTyped /\ NativeAtWork /\ NativeReported /\ NativePublished
      /\ UNCHANGED <<attempt, t, outcome, next, obs, used, file, disk, ended>>
  BY DEF NativeInv, Native!PublishResults, Native!PublishManifest, Native!Kill,
         Native!work, Native!store
<1>1. CASE Native!PublishResults
  <2>1. /\ pc = "check" /\ t \notin DOMAIN Selected /\ pc' = "manifest"
        /\ published' = [attempt |-> attempt, obs |-> obs]
    BY <1>1 DEF Native!PublishResults
  <2>2. /\ published'.attempt = attempt /\ published'.obs = obs /\ attempt > 0
        /\ obs \in Seq(TargetRecord) /\ attempt \in Nat /\ Len(obs) = Len(Selected)
    BY <1>0, <2>1, NativeConstants, AttemptsAssumption
       DEF NativeTyped, NativeAtWork, NativeReported, Reported
  <2>3. published' \in [attempt : Nat, obs : Seq(TargetRecord)]
    BY <2>1, <2>2
  <2>4. NativeTyped'
    BY <1>0, <2>1, <2>2, <2>3 DEF NativeTyped
  <2>5. NativeAtWork' /\ NativeReported'
    BY <1>0, <2>1, <2>2 DEF NativeAtWork, NativeReported
  <2>6. NativePublished'
    BY <1>0, <2>1, <2>2 DEF NativePublished, NativeReported
  <2>7. QED
    BY <2>4, <2>5, <2>6 DEF NativeInv
<1>2. CASE Native!PublishManifest \/ Native!Kill
  <2>1. pc # "idle" /\ pc' = "idle" /\ UNCHANGED published
    BY <1>2 DEF Native!PublishManifest, Native!Kill
  <2>2. NativeTyped' /\ NativeAtWork'
    BY <1>0, <2>1 DEF NativeTyped, NativeAtWork
  <2>3. NativeReported' /\ NativePublished'
    BY <1>0, <2>1 DEF NativeReported, NativePublished
  <2>4. QED
    BY <2>2, <2>3 DEF NativeInv
<1>3. QED
  BY <1>1, <1>2

\* Every step of the native suite.
LEMMA NativeStepKeeps == NativeInv /\ Native!Next => NativeInv'
  BY NativeBeginKeeps, NativeNotRunKeeps, NativeRunKeeps, NativeStoreKeeps, NativeEndKeeps
     DEF Native!Next

\* Nothing of the native suite moves.
LEMMA NativeStutters == NativeInv /\ UNCHANGED <<vars, ofNative>> => NativeInv'
<1> SUFFICES ASSUME NativeInv, UNCHANGED <<vars, ofNative>> PROVE NativeInv'
  OBVIOUS
<1>0. UNCHANGED <<attempt, pc, t, outcome, next, obs, used, file, disk, ended, published>>
  BY DEF vars, store, memory, durable, ofNative
<1>1. NativeTyped' /\ NativeAtWork'
  BY <1>0 DEF NativeInv, NativeTyped, NativeAtWork, Present
<1>2. NativeReported' /\ NativePublished'
  BY <1>0 DEF NativeInv, NativeReported, NativePublished, Present
<1>3. QED
  BY <1>1, <1>2 DEF NativeInv

\* What the invariant of the native suite says of its properties.
LEMMA NativeListed == NativeInv => Native!EveryTargetListed
<1> SUFFICES ASSUME NativeInv, published # [attempt |-> 0, obs |-> << >>]
             PROVE  /\ Len(published.obs) = Len(Selected)
                    /\ \A k \in DOMAIN Selected : published.obs[k].target = Selected[k]
  BY DEF Native!EveryTargetListed, Native!NoResults
<1>1. published \in [attempt : Nat, obs : Seq(TargetRecord)]
  BY DEF NativeInv, NativeTyped
<1>2. ~ (published.obs = << >> /\ published.attempt = 0)
  BY <1>1
<1>3. QED
  BY <1>2, NativeConstants DEF NativeInv, NativePublished, Reported

\* The invariant says that outcomes have their evidence.
LEMMA NativeEvidence == NativeInv => Native!OutcomeHasEvidence
<1> DEFINE o == published.obs
<1>0. DOMAIN Native!Files = 1..5 /\ \A n \in 1..5 : Native!Files[n] = "corpus" <=> n = 2
  BY DEF Native!Files
<1> SUFFICES ASSUME NativeInv, NEW k \in DOMAIN o, o[k].observed \in Outcomes
             PROVE  /\ \A n \in 1..5 : \/ file[o[k].target][n] = published.attempt
                                       \/ n = 2 /\ o[k].target \notin WithCorpus
                    /\ published.attempt = attempt => o[k].observed = ended[o[k].target]
  BY <1>0, Zenon DEF Native!OutcomeHasEvidence, Outcomes
<1>1. Reported(o, published.attempt, file)
  BY DEF NativeInv, NativePublished
<1>2. k \in 1..Len(o) /\ o[k].target = Selected[k]
  BY <1>1 DEF Reported
<1>3. QED
  BY <1>1, <1>2 DEF NativeInv, NativePublished, Reported, Stored5

\* The invariant says that a green suite passed every core target.
LEMMA NativeGreen == NativeInv => Native!GreenMeansCorePassed
<1> DEFINE o == published.obs
<1>0. Len(Native!Files) = 5
  BY DEF Native!Files
<1>1. Native!Green(o) <=> Green(o)
  BY DEF Native!Green, Native!Core, Native!Blockers, Green, Core, Blockers
<1> SUFFICES ASSUME NativeInv, Green(o), NEW n \in CoreTargets
             PROVE  /\ \E k \in DOMAIN o : o[k].target = n /\ o[k].observed = "ACCEPTED"
                    /\ file[n][5] = published.attempt
  BY <1>0, <1>1, Zenon DEF Native!GreenMeansCorePassed
<1>2. Reported(o, published.attempt, file) /\ o \in Seq(TargetRecord)
  BY DEF NativeInv, NativePublished, Reported
<1>3. DOMAIN o = 1..Len(o) /\ o # << >>
  BY <1>2 DEF Green, Core
<1>4. Len(o) = Len(Selected)
  BY <1>3 DEF NativeInv, NativePublished
<1>5. PICK k \in 1..Len(Selected) : Selected[k] = n
  BY NativeConstants DEF Asked
<1>6. o[k].target = n /\ o[k].core = TRUE /\ o[k] \in TargetRecord
  BY <1>2, <1>4, <1>5 DEF Reported
<1>7. o[k].verdict \in Verdicts
  BY <1>6 DEF TargetRecord
<1>8. o[k].verdict = "PASS"
  BY <1>3, <1>4, <1>6, <1>7 DEF Green, Blockers, Core, Verdicts
<1>9. o[k].observed = "ACCEPTED" /\ Stored5(n, 5, published.attempt, file)
  BY <1>2, <1>4, <1>5, <1>8 DEF Reported, Outcomes
<1>10. QED
  BY <1>3, <1>4, <1>6, <1>9 DEF Stored5

-----------------------------------------------------------------------------
(***************************************************************************)
(* Whatever of the harness runs keeps its invariant, and the rest waits.   *)
(***************************************************************************)
SuitesInv ==
    /\ running \in {"bounded", "native", "case"}
    /\ running = "bounded" => SuiteInv
    /\ running = "native" => NativeInv

\* Both suites keep their invariants, whichever of them runs.
LEMMA SuitesAlways == MCSpec => []SuitesInv
<1>1. MCInit => SuitesInv
  BY SuiteInit, NativeInit DEF MCInit, SuitesInv
<1>2. SuitesInv /\ [MCNext]_all => SuitesInv'
  <2> SUFFICES ASSUME SuitesInv, [MCNext]_all PROVE SuitesInv'
    OBVIOUS
  <2>1. CASE BoundedStep
    BY <2>1, SuiteStep DEF SuitesInv, BoundedStep
  <2>2. CASE NativeStep
    BY <2>2, NativeStepKeeps DEF SuitesInv, NativeStep
  <2>3. CASE CaseStep
    BY <2>3 DEF SuitesInv, CaseStep
  <2>4. CASE UNCHANGED all
    <3>1. UNCHANGED running /\ UNCHANGED vars /\ UNCHANGED <<vars, ofNative>>
      BY <2>4 DEF all
    <3>2. QED
      BY <3>1, SuiteStutters, NativeStutters DEF SuitesInv
  <2>5. QED
    BY <2>1, <2>2, <2>3, <2>4 DEF MCNext
<1>3. QED
  BY <1>1, <1>2, PTL DEF MCSpec

(* The evidence of a bounded suite stays within its budget, and a worker that
   ran is never reported as a case that did not fit, for any budgets, reserve,
   output cap and file sizes. *)
THEOREM EvidenceWithinBudget == MCSpec => []BudgetIsKept
<1>1. SuitesInv => BudgetIsKept
  BY SuiteBudget DEF SuitesInv, BudgetIsKept
<1>2. QED
  BY SuitesAlways, <1>1, PTL

(* What a published results.json says was measured has its evidence, of the
   attempt that published it, for any number of cases and any targets. *)
THEOREM MeasuredHasEvidence == MCSpec => []ResultsAreFounded
<1>1. SuitesInv => ResultsAreFounded
  BY SuiteEvidence, NativeListed, NativeEvidence DEF SuitesInv, ResultsAreFounded
<1>2. QED
  BY SuitesAlways, <1>1, PTL

(* A green gate means that every case of the bounded suite passed in one
   attempt, and that every CORE target of a native suite ran to its end. *)
THEOREM GreenMeansCarriedOut == MCSpec => []GreenIsEarned
<1>1. SuitesInv => GreenIsEarned
  BY SuiteGreen, NativeGreen DEF SuitesInv, GreenIsEarned
<1>2. QED
  BY SuitesAlways, <1>1, PTL

(* Every variable of what runs keeps its shape. *)
THEOREM ShapesAreKept == MCSpec => []MCTypeOK
<1>1. NativeInv => Native!TypeOK
  <2>1. DOMAIN Native!Files = 1..5
    BY DEF Native!Files
  <2>2. QED
    BY <2>1 DEF NativeInv, NativeTyped, Native!TypeOK, Native!Targets, Asked
<1>2. SuiteInv => TypeOK
  BY DEF SuiteInv, SuiteTyped
<1>3. CaseInv /\ SuitesInv => MCTypeOK
  BY <1>1, <1>2, CaseShapes DEF SuitesInv, MCTypeOK
<1>4. QED
  BY CaseAlways, SuitesAlways, <1>3, PTL

=============================================================================
