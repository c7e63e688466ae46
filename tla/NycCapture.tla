----------------------------- MODULE NycCapture -----------------------------
(***************************************************************************)
(* One capture of the NYC 311 source (nyc_rows in nyc_snapshot.py and      *)
(* materialize_official in dataset_sources.py).  A generator reads the     *)
(* table page by page behind a keyset cursor, between two readings of the  *)
(* table's revision, and persists capture.json on the way; its consumer    *)
(* writes the rows to a partial file, which becomes source.csv when the    *)
(* generator has ended without an error.  The source changes at any time,  *)
(* a step may fail or be interrupted, and the process may be killed.       *)
(*                                                                         *)
(* The source is trusted in two things: a change gives the table a new     *)
(* revision, and a page holds rows in the cursor's order without a gap.  It *)
(* may cut a page short, exceed the limit, or send the first rows again.   *)
(***************************************************************************)
EXTENDS Integers, FiniteSets

CONSTANTS
    Ids,            \* row ids, in the order of the cursor
    Content,        \* what the columns of a row hold
    Target,         \* snapshot_rows_target
    MaxRevision,    \* how often the source changes (bounds the model)
    Nothing         \* a file that is not there

ASSUME IdsAssumption == Ids \subseteq Nat \ {0} /\ IsFiniteSet(Ids)
ASSUME TargetAssumption == Target \in Nat \ {0}
ASSUME RevisionAssumption == MaxRevision \in Nat

Tables == UNION {[rows -> Content] : rows \in SUBSET Ids}
ASSUME NothingAssumption == Nothing \notin Tables

NoRows == [x \in {} |-> Nothing]
Absent == [status |-> "ABSENT"]
Torn == [status |-> "TORN"]      \* write_text has truncated capture.json and not filled it

VARIABLES
    table, revision,    \* the source
    record,             \* capture.json
    partial,            \* the rows in source.csv.partial, or Nothing
    output,             \* the rows in source.csv, or Nothing
    summary,            \* materialization.json exists
    pc,                 \* where the capture is
    filling,            \* it has truncated capture.json and is about to fill it
    evidence,           \* the evidence in memory; covered: the rows of VALIDATED pages
    got,                \* the rows received
    emitted,            \* their number as the code counts them
    cursor,             \* last_cursor, 0 before the first page
    before              \* the revision read before the first page

source == <<table, revision>>
files == <<partial, output, summary>>
progress == <<got, emitted, cursor, before>>
vars == <<source, record, files, pc, filling, evidence, progress>>

Init ==
    /\ table \in Tables /\ revision = 0
    /\ record = Absent /\ output = Nothing /\ summary = FALSE
    /\ partial = NoRows                 \* _write_rows has opened it
    /\ pc = "start" /\ filling = FALSE
    /\ evidence = [status |-> "CAPTURE_STARTED", covered |-> {}, matched |-> FALSE]
    /\ got = NoRows /\ emitted = 0 /\ cursor = 0 /\ before = 0

Change ==
    /\ revision < MaxRevision
    /\ table' \in Tables /\ revision' = revision + 1
    /\ UNCHANGED <<record, files, pc, filling, evidence, progress>>

-----------------------------------------------------------------------------
(* _persist_capture *)

\* Where the record is written, and what comes after it.
Then == [start |-> "metadata", page |-> "deliver", captured |-> "publish",
         complete |-> "return", failing |-> "caught", fail |-> "cleanup"]

Truncate ==
    /\ pc \in DOMAIN Then /\ ~filling
    /\ record' = Torn /\ filling' = TRUE
    /\ UNCHANGED <<source, files, pc, evidence, progress>>

Fill ==
    /\ filling
    /\ record' = evidence /\ filling' = FALSE
    /\ pc' = Then[pc]
    /\ UNCHANGED <<source, files, evidence, progress>>

-----------------------------------------------------------------------------
(* nyc_rows *)

MetadataBefore ==
    /\ pc = "metadata"
    /\ before' = revision
    /\ pc' = "request"
    /\ UNCHANGED <<source, record, files, filling, evidence, got, emitted, cursor>>

\* The pages that begin after id c.
PagesAfter(c) ==
    LET rest == {x \in DOMAIN table : x > c}
    IN {page \in SUBSET rest : \A x \in page, y \in rest \ page : x < y}

Pages == PagesAfter(cursor) \cup PagesAfter(0)

\* The page joins the rows and the evidence.
Accept(page) ==
    /\ got' = [x \in DOMAIN got \cup page |-> IF x \in page THEN table[x] ELSE got[x]]
    /\ emitted' = emitted + Cardinality(page)
    /\ cursor' = IF page = {} THEN cursor ELSE CHOOSE x \in page : \A y \in page : y <= x
    /\ evidence' = [evidence EXCEPT !.covered = @ \cup page]

\* A bug: a page without rows is not an error.
ReceiveAnything ==
    /\ pc = "request"
    /\ \E page \in Pages :
          /\ page \cap DOMAIN got = {} /\ emitted + Cardinality(page) <= Target
          /\ Accept(page)
    /\ pc' = "page"
    /\ UNCHANGED <<source, record, files, filling, before>>

\* A bug: the page is handed on before it is recorded.
ReceiveUnrecorded ==
    /\ pc = "request"
    /\ \E page \in Pages :
          /\ page # {} /\ page \cap DOMAIN got = {} /\ emitted + Cardinality(page) <= Target
          /\ Accept(page)
    /\ pc' = "deliver"
    /\ UNCHANGED <<source, record, files, filling, before>>

\* A page is validated: it has rows, none of them seen before, and not too many.
Receive ==
    /\ pc = "request"
    /\ \E page \in Pages :
          /\ page # {} /\ page \cap DOMAIN got = {} /\ emitted + Cardinality(page) <= Target
          /\ Accept(page)
    /\ pc' = "page"
    /\ UNCHANGED <<source, record, files, filling, before>>

\* The rows are yielded to _write_rows.
Deliver ==
    /\ pc = "deliver"
    /\ partial' = got
    /\ pc' = IF emitted < Target THEN "request" ELSE "after"
    /\ UNCHANGED <<source, record, output, summary, filling, evidence, progress>>

\* A bug: the two revisions are recorded and not compared.
MetadataRecorded ==
    /\ pc = "after"
    /\ evidence' = [evidence EXCEPT !.matched = TRUE, !.status = "CAPTURED"]
    /\ pc' = "captured"
    /\ UNCHANGED <<source, record, files, filling, progress>>

\* A bug: the outcome of the comparison is not put into the evidence.
MetadataUnmatched ==
    /\ pc = "after"
    /\ revision = before
    /\ evidence' = [evidence EXCEPT !.status = "CAPTURED"]
    /\ pc' = "captured"
    /\ UNCHANGED <<source, record, files, filling, progress>>

MetadataAfter ==
    /\ pc = "after"
    /\ revision = before
    /\ evidence' = [evidence EXCEPT !.matched = TRUE, !.status = "CAPTURED"]
    /\ pc' = "captured"
    /\ UNCHANGED <<source, record, files, filling, progress>>

-----------------------------------------------------------------------------
(* materialize_official *)

\* partial.replace(output)
Publish ==
    /\ pc = "publish"
    /\ output' = partial /\ partial' = Nothing
    /\ pc' = "summary"
    /\ UNCHANGED <<source, record, summary, filling, evidence, progress>>

\* materialization.json, then finalize_capture on the record as it is on disk.
Summarise ==
    /\ pc = "summary"
    /\ summary' = TRUE
    /\ evidence' = [record EXCEPT !.status = "COMPLETE"]
    /\ pc' = "complete"
    /\ UNCHANGED <<source, record, partial, output, filling, progress>>

Return ==
    /\ pc = "return"
    /\ pc' = "done"
    /\ UNCHANGED <<source, record, files, filling, evidence, progress>>

-----------------------------------------------------------------------------
(* Errors, interrupts and kills *)

\* Inside the generator's try: the evidence in memory is written once more, as FAILED.
FailCapturing ==
    /\ pc \in {"metadata", "request", "page", "deliver", "after", "captured"}
    /\ evidence' = [evidence EXCEPT !.status = "FAILED"]
    /\ pc' = "failing" /\ filling' = FALSE
    /\ UNCHANGED <<source, record, files, progress>>

\* Outside it, or in writing that.
FailMaterializing ==
    /\ pc \in {"start", "deliver", "publish", "summary", "complete", "return", "failing"}
    /\ pc' = "caught" /\ filling' = FALSE
    /\ UNCHANGED <<source, record, files, evidence, progress>>

ActiveStatus == {"CAPTURE_STARTED", "CAPTURED"}

\* A bug: a record that has ended is rewritten as well.
CatchAny ==
    /\ pc = "caught"
    /\ IF record.status \in ActiveStatus \cup {"COMPLETE", "FAILED"}
       THEN evidence' = [record EXCEPT !.status = "FAILED"] /\ pc' = "fail"
       ELSE UNCHANGED evidence /\ pc' = "cleanup"
    /\ UNCHANGED <<source, record, files, filling, progress>>

\* fail_active_capture reads the record and rewrites it only if it is active.  It may
\* not be there, and a torn one cannot be read.
Catch ==
    /\ pc = "caught"
    /\ IF record.status \in ActiveStatus
       THEN evidence' = [record EXCEPT !.status = "FAILED"] /\ pc' = "fail"
       ELSE UNCHANGED evidence /\ pc' = "cleanup"
    /\ UNCHANGED <<source, record, files, filling, progress>>

\* The handler itself fails.
FailFailing ==
    /\ pc \in {"caught", "fail"}
    /\ pc' = "cleanup" /\ filling' = FALSE
    /\ UNCHANGED <<source, record, files, evidence, progress>>

\* The finally clause removes the three files one after the other.
Unlink ==
    /\ pc = "cleanup"
    /\ IF partial # Nothing THEN partial' = Nothing /\ UNCHANGED <<output, summary, pc>>
       ELSE IF output # Nothing THEN output' = Nothing /\ UNCHANGED <<partial, summary, pc>>
       ELSE summary' = FALSE /\ pc' = "raised" /\ UNCHANGED <<partial, output>>
    /\ UNCHANGED <<source, record, filling, evidence, progress>>

Kill ==
    /\ pc \notin {"done", "raised", "killed"}
    /\ pc' = "killed" /\ filling' = FALSE
    /\ UNCHANGED <<source, record, files, evidence, progress>>

Capture == Truncate \/ Fill \/ MetadataBefore \/ Receive \/ Deliver \/ MetadataAfter
           \/ Publish \/ Summarise \/ Return
Failure == FailCapturing \/ FailMaterializing \/ Catch \/ FailFailing \/ Unlink

Next == Capture \/ Failure \/ Kill \/ Change

\* The capture goes on or fails: each request has a timeout.
Fairness == WF_vars(Capture \/ Failure)

Spec == Init /\ [][Next]_vars /\ Fairness

-----------------------------------------------------------------------------
(* Properties *)

Rows == Tables
Evidence == [status : ActiveStatus \cup {"COMPLETE", "FAILED"},
             covered : SUBSET Ids, matched : BOOLEAN]

\* Every variable has its type; a record that is there is complete or torn.
TypeOK ==
    /\ table \in Tables /\ revision \in 0..MaxRevision
    /\ record \in {Absent, Torn} \cup Evidence
    /\ partial \in {Nothing} \cup Rows /\ output \in {Nothing} \cup Rows
    /\ summary \in BOOLEAN
    /\ pc \in {"start", "metadata", "request", "page", "deliver", "after", "captured", "publish",
               "summary", "complete", "return", "done", "failing", "caught", "fail", "cleanup", "raised",
               "killed"}
    /\ filling \in BOOLEAN /\ (filling => pc \in DOMAIN Then)
    /\ evidence \in Evidence
    /\ got \in Rows /\ emitted \in 0..Target /\ cursor \in Ids \cup {0}
    /\ before \in 0..MaxRevision

Contract == INSTANCE SnapshotContract WITH
                taken <- IF evidence.matched THEN got ELSE Nothing,
                published <- output

\* source.csv is never a mixture of two states of the source: whenever it exists,
\* also after a kill, it holds the first Target rows as they all were at one moment,
\* although they were read page by page (nyc_snapshot.py:186-248).
OutputIsSnapshot == Contract!Spec

\* A page is in the durable record before any of its rows is handed on: whatever is
\* in the partial file or in source.csv has its page in the record, unless writing
\* the record was cut off (nyc_snapshot.py:230-234).
RowsHaveEvidence ==
    record # Torn /\ record # Absent =>
        /\ partial # Nothing => DOMAIN partial \subseteq record.covered
        /\ output # Nothing => DOMAIN output \subseteq record.covered

\* A record that says COMPLETE is of one revision and covers exactly the rows of
\* source.csv, unless an interrupt withdrew the file (dataset_sources.py:152-182).
CompleteIsWhole ==
    record.status = "COMPLETE" =>
        /\ record.matched
        /\ pc \notin {"cleanup", "raised", "killed"} =>
              summary /\ output # Nothing /\ DOMAIN output = record.covered

\* COMPLETE and FAILED are final: no handler rewrites a record that has ended
\* (nyc_snapshot.py:100, _CAPTURE_TRANSITIONS).
FinalIsFinal ==
    [][record.status \in {"COMPLETE", "FAILED"} => record' = record]_record

\* The capture ends although the source may grow, shrink or repeat itself: every
\* page brings rows that are not there yet (nyc_snapshot.py:186, 212-219).
AlwaysEnds == <>(pc \in {"done", "raised", "killed"})

\* Says dataset_sources.py:180-181: CAPTURED -> COMPLETE atomically advances
\* DISCOVERED -> ENCODED.  So a COMPLETE capture has its encoded source.
CompleteHasSource == record.status = "COMPLETE" => output # Nothing

=============================================================================
