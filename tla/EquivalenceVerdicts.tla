------------------------ MODULE EquivalenceVerdicts ------------------------
(***************************************************************************)
(* What an equivalence run concludes: which of the selected pairs can be   *)
(* measured, the admission of their size evidence, the interval of every   *)
(* metric, the verdict on every candidate and every pair, and the states   *)
(* of the formats, the run and the results (equivalence_run.py,            *)
(* equivalence_admission.py, equivalence_compare.py, equivalence.py).      *)
(* RunLifecycle models when the documents are written; this module models  *)
(* what they say.                                                          *)
(*                                                                         *)
(* A ratio is an integer on a scale where One is the ratio 1.              *)
(***************************************************************************)
EXTENDS Integers, FiniteSets, Sequences

CONSTANTS
    Pairs,          \* the registered pairs
    Reference,      \* Reference[p]: the format the others are compared with
    Candidates,     \* Candidates[p]: the formats compared with it
    Expected,       \* the size observations an admitted format has
    One, Delta,     \* the ratio 1 and the bound of the primary metric
    Intervals,      \* the intervals the bootstrap may return for the primary metric
    Descriptive     \* those it may return for the other metrics

Required(p) == {Reference[p]} \cup Candidates[p]
Formats == UNION {Required(p) : p \in Pairs}

ScaleAssumption == One \in Int /\ Delta \in Nat
IntervalsAssumption ==
    \A i \in Intervals : i.lower \in Int /\ i.upper \in Int /\ i.lower <= i.upper
ExpectedAssumption == Expected \in Nat /\ Expected >= 2
RegisteredAssumption == Pairs # {}
ReferenceAssumption == \A p \in Pairs : Reference[p] \notin Candidates[p]
\* A registered candidate is compared in one pair (PAIR_SPECS).
CandidatesAssumption == \A p, q \in Pairs : p # q => Candidates[p] \cap Candidates[q] = {}

VARIABLES
    pc,             \* "admit", "measure", "conclude", "done", "rejected"
    selected,       \* the pairs of the command
    entry,          \* entry[f]: what prepare and verify made of format f
    sizes,          \* sizes[f]: the valid size observations of its artifact
    fresh,          \* the formats whose first observation is of the artifact there is
    failed,         \* the formats with a benchmark job that failed
    primary,        \* primary[f]: the native_bytes interval of candidate f
    secondary,      \* secondary[f]: its other intervals, as one
    verdict,        \* verdict[p]: the pair's verdict in the evidence
    storage,        \* storage[f]: the verdict recorded for all sizes of candidate f
    state,          \* state[f]: the format's state in the manifest, if it is there
    runState,       \* the state of manifest and results
    status          \* the status of the results

inputs == <<selected, entry, sizes, fresh>>
measured == <<failed, primary, secondary>>
conclusions == <<verdict, storage, state, runState, status>>
vars == <<pc, inputs, measured, conclusions>>

NoInterval == [lower |-> 0, upper |-> 0]

(* What a format may be when the command starts: usable, comparable only in
   another lane, verified but not FULL_COMPARABLE, without its library, failed
   in prepare or verify, or not prepared at all.  One format that is verified
   makes the run ROUNDTRIP_VERIFIED, whatever the others are, and it need not
   be of a registered pair. *)
Entries == {"verified", "wrong lane", "not comparable", "unsupported", "failed", "absent"}

StateBefore(e) ==
    CASE e = "unsupported" -> "UNSUPPORTED"
      [] e = "failed" -> "FAILED"
      [] e = "absent" -> "NONE"
      [] OTHER -> "ROUNDTRIP_VERIFIED"

Init ==
    /\ pc = "admit"
    /\ selected \in (SUBSET Pairs) \ {{}}
    /\ entry \in [Formats -> Entries]
    /\ \/ sizes = [f \in Formats |-> Expected] /\ fresh = Formats
       \/ \E f \in Formats :
             \/ sizes = [[g \in Formats |-> Expected] EXCEPT ![f] = Expected - 1]
                /\ fresh = Formats
             \/ sizes = [g \in Formats |-> Expected] /\ fresh = Formats \ {f}
    /\ failed = {}
    /\ primary = [f \in Formats |-> NoInterval]
    /\ secondary = [f \in Formats |-> NoInterval]
    /\ verdict = [p \in Pairs |-> "NONE"]
    /\ storage = [f \in Formats |-> "NONE"]
    /\ state = [f \in Formats |-> StateBefore(entry[f])]
    /\ runState = "ROUNDTRIP_VERIFIED" /\ status = "NONE"

-----------------------------------------------------------------------------
(* Selection and admission *)

Missing == {p \in selected : \E f \in Required(p) : entry[f] # "verified"}
MeasuredNames == UNION {Required(p) : p \in selected \ Missing}

Admissible(f) == sizes[f] = Expected /\ f \in fresh

Admit ==
    /\ pc = "admit"
    /\ \A f \in MeasuredNames : Admissible(f)
    /\ pc' = "measure"
    /\ UNCHANGED <<inputs, measured, conclusions>>

Reject ==
    /\ pc = "admit"
    /\ \E f \in MeasuredNames : ~ Admissible(f)
    /\ pc' = "rejected"
    /\ UNCHANGED <<inputs, measured, conclusions>>

(* The jobs run, and the bootstrap returns an interval for what they give. *)
Measure ==
    /\ pc = "measure"
    /\ failed' \in SUBSET MeasuredNames
    /\ LET compared == UNION {Candidates[p] : p \in {q \in selected \ Missing :
                                                Required(q) \cap failed' = {}}}
       IN  \E sized \in [compared -> Intervals], timed \in [compared -> Descriptive] :
              /\ primary' = [f \in Formats |-> IF f \in compared THEN sized[f] ELSE NoInterval]
              /\ secondary' = [f \in Formats |-> IF f \in compared THEN timed[f] ELSE NoInterval]
    /\ pc' = "conclude"
    /\ UNCHANGED <<inputs, conclusions>>

-----------------------------------------------------------------------------
(* Verdicts *)

Classify(interval) ==
    IF interval.lower >= One - Delta /\ interval.upper <= One + Delta
    THEN "PRACTICALLY_EQUIVALENT"
    ELSE IF interval.upper < One - Delta \/ interval.lower > One + Delta
    THEN "MEANINGFUL_DIFFERENCE"
    ELSE "INCONCLUSIVE"

(* The verdict on several metrics: one difference decides. *)
ClassifyMetrics(intervals) ==
    LET verdicts == {Classify(intervals[i]) : i \in DOMAIN intervals} IN
    IF "MEANINGFUL_DIFFERENCE" \in verdicts THEN "MEANINGFUL_DIFFERENCE"
    ELSE IF verdicts = {"PRACTICALLY_EQUIVALENT"} THEN "PRACTICALLY_EQUIVALENT"
    ELSE "INCONCLUSIVE"

(* The record of a candidate's sizes beside its verdict: the bytes of the
   primary endpoint and the transported bytes. *)
StorageEvidence(reference, f) ==
    IF sizes[reference] < 2 \/ sizes[f] < 2
    THEN "NOT_APPLICABLE"
    ELSE ClassifyMetrics(<<primary[f], secondary[f]>>)

\* A bug: the metrics that are descriptive only take part in the verdict.
CandidateVerdictOfAll(reference, f) ==
    IF Classify(secondary[f]) = "MEANINGFUL_DIFFERENCE"
    THEN "MEANINGFUL_DIFFERENCE"
    ELSE Classify(primary[f])

(* The verdict on a candidate is that of the primary endpoint; it needs two
   size observations of either format.  The other metrics are descriptive. *)
CandidateVerdict(reference, f) ==
    IF sizes[reference] < 2 \/ sizes[f] < 2
    THEN "NOT_APPLICABLE"
    ELSE Classify(primary[f])

PairEvidence(p) ==
    LET verdicts == {CandidateVerdict(Reference[p], f) : f \in Candidates[p]} IN
    IF "MEANINGFUL_DIFFERENCE" \in verdicts THEN "MEANINGFUL_DIFFERENCE"
    ELSE IF verdicts \subseteq {"PRACTICALLY_EQUIVALENT"} THEN "PRACTICALLY_EQUIVALENT"
    ELSE IF "INCONCLUSIVE" \in verdicts THEN "INCONCLUSIVE"
    ELSE "NOT_APPLICABLE"

\* A bug: only the candidate's own failures keep a pair from being compared.
PairVerdictOfCandidates(p) ==
    IF p \in Missing \/ Candidates[p] \cap failed # {}
    THEN "NOT_APPLICABLE"
    ELSE PairEvidence(p)

PairVerdict(p) ==
    IF p \in Missing \/ Required(p) \cap failed # {}
    THEN "NOT_APPLICABLE"
    ELSE PairEvidence(p)

Successful == MeasuredNames \ failed

RunState == IF Successful # {} \/ Missing # {} THEN "BENCHMARKED" ELSE "FAILED"

\* A bug: the status is the state of the run.
StatusOfRun == RunState

Status ==
    IF failed = {} /\ Successful # {} THEN "MEASURED"
    ELSE IF failed # {} /\ (Successful # {} \/ Missing # {}) THEN "PARTIAL"
    ELSE IF Missing # {} THEN "UNSUPPORTED"
    ELSE "FAILED"

Conclude ==
    /\ pc = "conclude"
    /\ pc' = "done"
    /\ verdict' = [p \in Pairs |-> IF p \in selected THEN PairVerdict(p) ELSE "NONE"]
    /\ storage' = [f \in Formats |->
                     IF \E p \in selected \ Missing :
                           f \in Candidates[p] /\ Required(p) \cap failed = {}
                     THEN StorageEvidence(Reference[CHOOSE p \in selected : f \in Candidates[p]], f)
                     ELSE "NONE"]
    /\ state' = [f \in Formats |->
                   IF f \notin MeasuredNames THEN state[f]
                   ELSE IF f \in failed THEN "FAILED" ELSE "BENCHMARKED"]
    /\ runState' = RunState
    /\ status' = Status
    /\ UNCHANGED <<inputs, measured>>

Next == Admit \/ Reject \/ Measure \/ Conclude

Spec == Init /\ [][Next]_vars

-----------------------------------------------------------------------------
(* Properties *)

Compared == {"PRACTICALLY_EQUIVALENT", "MEANINGFUL_DIFFERENCE", "INCONCLUSIVE"}

(* The shape of the state. *)
TypeOK ==
    /\ pc \in {"admit", "measure", "conclude", "done", "rejected"}
    /\ failed \subseteq MeasuredNames
    /\ verdict \in [Pairs -> Compared \cup {"NONE", "NOT_APPLICABLE"}]
    /\ state \in [Formats ->
                    {"NONE", "UNSUPPORTED", "ROUNDTRIP_VERIFIED", "BENCHMARKED", "FAILED"}]
    /\ status \in {"NONE", "MEASURED", "PARTIAL", "UNSUPPORTED", "FAILED"}

(* A pair has a comparison exactly when every format of it was measured
   without a failure: the evidence of the pairs, the entries of the manifest
   and the shared reference of two pairs cannot disagree. *)
ComparedIsMeasured ==
    pc = "done" =>
        \A p \in selected :
            verdict[p] \in Compared <=> \A f \in Required(p) : state[f] = "BENCHMARKED"

(* Admission is what the comparison needs: a pair without a verdict lacks a
   format or had a job fail, never the size observations; and no verdict rests
   on the sizes of an artifact that is no longer the one in the directory. *)
AdmittedIsComparable ==
    pc = "done" =>
        \A p \in selected :
            /\ verdict[p] = "NOT_APPLICABLE" =>
                  \E f \in Required(p) : entry[f] # "verified" \/ state[f] = "FAILED"
            /\ verdict[p] \in Compared => Required(p) \subseteq fresh

(* What the verdict of a pair means: equivalent says that every candidate's
   size interval lies within the bounds, different that one lies outside;
   the metrics that are not the primary endpoint decide nothing. *)
VerdictMeansItsIntervals ==
    pc = "done" =>
        \A p \in selected : verdict[p] \in Compared =>
            /\ verdict[p] = "PRACTICALLY_EQUIVALENT" <=>
                  \A f \in Candidates[p] :
                      primary[f].lower >= One - Delta /\ primary[f].upper <= One + Delta
            /\ verdict[p] = "MEANINGFUL_DIFFERENCE" <=>
                  \E f \in Candidates[p] :
                      primary[f].upper < One - Delta \/ primary[f].lower > One + Delta

(* The two records on a candidate's sizes cannot contradict each other: sizes
   that are all equivalent make the pair equivalent, and a pair that differs
   has a candidate whose sizes differ. *)
StorageAgrees ==
    pc = "done" =>
        \A p \in selected : verdict[p] \in Compared =>
            /\ verdict[p] = "MEANINGFUL_DIFFERENCE" =>
                  \E f \in Candidates[p] : storage[f] = "MEANINGFUL_DIFFERENCE"
            /\ (\A f \in Candidates[p] : storage[f] = "PRACTICALLY_EQUIVALENT") =>
                  verdict[p] = "PRACTICALLY_EQUIVALENT"

(* equivalence_run.py:177-178: only a failure without any other evidence makes
   the run non-reportable; a missing pair is evidence. *)
FailedRunHasNothing ==
    pc = "done" =>
        (runState = "FAILED" <=>
            /\ \A f \in Formats : state[f] # "BENCHMARKED"
            /\ \A p \in selected : \A f \in Required(p) : entry[f] = "verified")

(* The formats that the command benchmarked, and those that failed in it: a
   format that failed in prepare or verify stays FAILED as well. *)
Benchmarked == {f \in Formats : state[f] = "BENCHMARKED"}
FailedHere == {f \in Formats : state[f] = "FAILED" /\ entry[f] # "failed"}

(* The status can be told from the entries: MEASURED hides no format that failed
   in this command, PARTIAL and FAILED differ by the state of the run, and
   UNSUPPORTED is said only of a command that measured nothing.  It does not
   speak of a format that failed before: MEASURED and UNSUPPORTED may stand
   beside an entry that is FAILED. *)
StatusAgrees ==
    pc = "done" =>
        /\ status = "MEASURED" <=> Benchmarked # {} /\ FailedHere = {}
        /\ status = "PARTIAL" <=> FailedHere # {} /\ runState = "BENCHMARKED"
        /\ status = "UNSUPPORTED" <=> Benchmarked = {} /\ FailedHere = {}
        /\ status = "FAILED" <=> runState = "FAILED"

=============================================================================
