--------------------------- MODULE MCEquivalence ---------------------------
(***************************************************************************)
(* The merge of shards (ShardMerge), over two pairs with one reference and *)
(* one with a format that is not supported; or the conclusions of one      *)
(* equivalence run (EquivalenceVerdicts), over the two registered pairs    *)
(* that share their reference, one of them with two candidates.  Which of  *)
(* them happens is chosen at the start; the other stays in a first state.  *)
(***************************************************************************)
EXTENDS ShardMerge, TLC

CONSTANTS                                               \* of EquivalenceVerdicts
    RunPairs, Reference, Candidates, Expected, One, Delta, Intervals, Descriptive

VARIABLES
    command,                                            \* "run" or "merge"
    pc, selected, entry, sizes, fresh, failed,          \* of EquivalenceVerdicts
    primary, secondary, verdict, storage, state, runState, status

ShardFormats == {"reference", "first", "second", "unsupported"}
ShardPairs == [p1 |-> {"reference", "first"}, p2 |-> {"reference", "second"},
               p3 |-> {"reference", "unsupported"}]
ShardSelections == {{"p1"}, {"p2", "p3"}, {"p3"}}
ShardFailures == {{}, {"reference"}, {"first"}}

MergeSymmetry == Permutations(Merges)

RowPairs == {"avro", "rows"}
RowReference == [avro |-> "object_jsonl", rows |-> "object_jsonl"]
RowCandidates == [avro |-> {"avro_ocf"}, rows |-> {"msgpack_rows", "cbor_rows"}]

\* Within the band 8..12, beyond it on either side, and across its edges.
SomeIntervals == {[lower |-> 8, upper |-> 12], [lower |-> 13, upper |-> 14],
                  [lower |-> 6, upper |-> 7], [lower |-> 12, upper |-> 13]}
SomeDescriptive == {[lower |-> 8, upper |-> 12], [lower |-> 13, upper |-> 14]}

Run == INSTANCE EquivalenceVerdicts WITH Pairs <- RunPairs

ASSUME RunAssumption ==
    /\ Run!ScaleAssumption /\ Run!IntervalsAssumption /\ Run!RegisteredAssumption
    /\ Run!ExpectedAssumption /\ Run!ReferenceAssumption /\ Run!CandidatesAssumption

ofRun == <<pc, selected, entry, sizes, fresh, failed,
           primary, secondary, verdict, storage, state, runState, status>>
all == <<command, vars, ofRun>>

\* A first state of EquivalenceVerdicts.
RunAtRest ==
    /\ pc = "admit" /\ selected = RunPairs
    /\ entry = [f \in Run!Formats |-> "verified"]
    /\ sizes = [f \in Run!Formats |-> Expected] /\ fresh = Run!Formats
    /\ failed = {}
    /\ primary = [f \in Run!Formats |-> Run!NoInterval] /\ secondary = primary
    /\ verdict = [p \in RunPairs |-> "NONE"]
    /\ storage = [f \in Run!Formats |-> "NONE"]
    /\ state = [f \in Run!Formats |-> "ROUNDTRIP_VERIFIED"]
    /\ runState = "ROUNDTRIP_VERIFIED" /\ status = "NONE"

MCInit ==
    \/ command = "run" /\ Init /\ Run!Init
    \/ command = "merge" /\ Init /\ RunAtRest

RunStep == command = "run" /\ Run!Next /\ UNCHANGED <<command, vars>>
MergeStep == command = "merge" /\ Next /\ UNCHANGED <<command, ofRun>>

MCNext == RunStep \/ MergeStep

MCSpec == MCInit /\ [][MCNext]_all

-----------------------------------------------------------------------------
(* Properties, beside those of ShardMerge *)

(* The type invariants of both. *)
MCTypeOK == TypeOK /\ Run!TypeOK

(* What one run concludes agrees with itself: a pair is compared exactly when
   all its formats were measured on artifacts that are still there, the run is
   FAILED exactly when there is no evidence, and the status tells which formats
   this command benchmarked and which failed in it. *)
ConclusionsAgree ==
    /\ Run!ComparedIsMeasured /\ Run!AdmittedIsComparable
    /\ Run!FailedRunHasNothing /\ Run!StatusAgrees

(* The verdict of a pair says where the size intervals of its candidates lie,
   and the record of all sizes beside it does not contradict it. *)
VerdictIsFounded == Run!VerdictMeansItsIntervals /\ Run!StorageAgrees

=============================================================================
