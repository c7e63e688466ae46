------------------------- MODULE NycCapture_proofs --------------------------
(***************************************************************************)
(* Proofs about NycCapture, for every source, target and number of         *)
(* changes: evidence precedes rows, a record that has ended stays, a       *)
(* COMPLETE one is whole, and what is published is a snapshot.             *)
(***************************************************************************)
EXTENDS NycCapture, FiniteSetTheorems, TLAPS

(***************************************************************************)
(* The inductive invariant.  Before an error the evidence in memory covers *)
(* exactly the rows received, and at the points where rows are handed on   *)
(* it is what the record holds.  Rows in a file are covered by the         *)
(* evidence in memory as well as by the record, because the next thing     *)
(* written to the record is that evidence.  A record that has ended is     *)
(* only there at points from which no writing follows.                     *)
(***************************************************************************)
Typed ==
    /\ table \in Tables
    /\ DOMAIN got \subseteq Ids
    /\ record \in {Absent, Torn} \cup Evidence
    /\ evidence \in Evidence
    /\ filling \in BOOLEAN
Sound == {"start", "metadata", "request", "page", "deliver", "after", "captured", "publish",
          "summary"}
Received == pc \in Sound => evidence.covered = DOMAIN got
Recorded == pc \in {"deliver", "publish", "summary"} => record = evidence
FilesCovered ==
    /\ partial # Nothing => DOMAIN partial \subseteq evidence.covered
    /\ output # Nothing => DOMAIN output \subseteq evidence.covered
Ended ==
    /\ record.status = "COMPLETE" => pc \in {"return", "done", "caught", "cleanup", "raised", "killed"}
    /\ record.status = "FAILED" => pc \in {"caught", "cleanup", "raised", "killed"}
Written ==
    /\ pc \in {"start", "metadata", "request", "page", "deliver", "after"} =>
          evidence.status = "CAPTURE_STARTED"
    /\ pc \in {"captured", "publish", "summary"} => evidence.status = "CAPTURED"
    /\ pc = "complete" => evidence.status = "COMPLETE"
    /\ pc \in {"failing", "fail"} => evidence.status = "FAILED"
    /\ filling => pc \in DOMAIN Then

Inv == Typed /\ Received /\ Recorded /\ FilesCovered /\ RowsHaveEvidence /\ Ended /\ Written

\* A table has only ids.
LEMMA TableIds == \A t \in Tables : DOMAIN t \subseteq Ids
  BY DEF Tables

\* At first no row has been received.
LEMMA NothingReceived == DOMAIN NoRows = {}
  BY DEF NoRows

\* The invariant holds when the partial file has just been opened.
LEMMA InvInit == Init => Inv
  <1> SUFFICES ASSUME Init PROVE Inv
    OBVIOUS
  <1>1. /\ record = Absent /\ output = Nothing /\ partial = NoRows /\ got = NoRows
        /\ pc = "start" /\ filling = FALSE /\ table \in Tables
        /\ evidence = [status |-> "CAPTURE_STARTED", covered |-> {}, matched |-> FALSE]
    BY DEF Init
  <1>2. Typed /\ Received /\ FilesCovered
    BY <1>1, NothingReceived
    DEF Typed, Received, FilesCovered, Evidence, ActiveStatus
  <1>3. Recorded /\ RowsHaveEvidence
    BY <1>1 DEF Recorded, RowsHaveEvidence
  <1>4. Ended /\ Written
    BY <1>1 DEF Ended, Written, Absent
  <1> QED
    BY <1>2, <1>3, <1>4 DEF Inv

\* Writing the record, in two steps.
LEMMA TruncateKeepsInv == Inv /\ Truncate => Inv'
  BY DEF Truncate, source, files, progress, Inv, Typed, Sound, Received, Recorded, FilesCovered,
         RowsHaveEvidence, Ended, Written, Evidence, ActiveStatus, Absent, Torn, Then

\* The evidence in memory becomes the record, and the capture goes on.
LEMMA FillKeepsInv == Inv /\ Fill => Inv'
  <1> SUFFICES ASSUME Inv, Fill PROVE Inv'
    OBVIOUS
  <1>1. pc \in {"start", "page", "captured", "complete", "failing", "fail"}
    BY DEF Fill, Inv, Written, Then
  <1>2. /\ pc = "start" => pc' = "metadata"
        /\ pc = "page" => pc' = "deliver"
        /\ pc = "captured" => pc' = "publish"
        /\ pc = "complete" => pc' = "return"
        /\ pc = "failing" => pc' = "caught"
        /\ pc = "fail" => pc' = "cleanup"
    BY DEF Fill, Then
  <1>3. record' = evidence /\ filling' = FALSE /\ UNCHANGED <<table, partial, output, evidence, got>>
    BY DEF Fill, source, files, progress
  <1>4. Typed' /\ Received' /\ FilesCovered' /\ RowsHaveEvidence' /\ Recorded'
    BY <1>1, <1>2, <1>3
    DEF Inv, Typed, Sound, Received, FilesCovered, RowsHaveEvidence, Recorded, Evidence
  <1>5. Ended' /\ Written'
    BY <1>1, <1>2, <1>3 DEF Inv, Ended, Written
  <1> QED
    BY <1>4, <1>5 DEF Inv

\* The evidence grows by the ids of a page and the rows received by its rows.
LEMMA ReceiveKeepsInv == Inv /\ Receive => Inv'
  <1> SUFFICES ASSUME Inv, Receive PROVE Inv'
    OBVIOUS
  <1>1. PICK page \in Pages : Accept(page)
    BY DEF Receive
  <1>2. page \subseteq Ids
    BY TableIds DEF Pages, PagesAfter, Inv, Typed
  <1>3. DOMAIN got' = DOMAIN got \cup page
    BY <1>1 DEF Accept
  <1>4. evidence' = [evidence EXCEPT !.covered = @ \cup page]
    BY <1>1 DEF Accept
  <1> QED
    BY <1>2, <1>3, <1>4
    DEF Receive, source, files, Inv, Typed, Sound, Received, Recorded, FilesCovered,
        RowsHaveEvidence, Ended, Written, Evidence, ActiveStatus, Absent, Torn, Then

\* The rows are handed on when the record already holds their page.
LEMMA DeliverKeepsInv == Inv /\ Deliver => Inv'
  BY DEF Deliver, source, files, progress, Inv, Typed, Sound, Received, Recorded, FilesCovered,
         RowsHaveEvidence, Ended, Written, Evidence, ActiveStatus, Absent, Torn, Then

\* The other steps of a capture that goes on.
LEMMA CaptureKeepsInv ==
    Inv /\ (MetadataBefore \/ MetadataAfter \/ Publish \/ Summarise \/ Return) => Inv'
  <1> SUFFICES ASSUME Inv, MetadataBefore \/ MetadataAfter \/ Publish \/ Summarise \/ Return
               PROVE  Inv'
    OBVIOUS
  <1> USE DEF source, files, progress, Inv, Typed, Sound, Received, Recorded, FilesCovered,
              RowsHaveEvidence, Ended, Written, Evidence, ActiveStatus, Absent, Torn, Then
  <1>1. CASE MetadataBefore
    BY <1>1 DEF MetadataBefore
  <1>2. CASE MetadataAfter
    BY <1>2 DEF MetadataAfter
  <1>3. CASE Publish
    BY <1>3 DEF Publish
  <1>4. CASE Summarise
    BY <1>4 DEF Summarise
  <1>5. CASE Return
    BY <1>5 DEF Return
  <1> QED
    BY <1>1, <1>2, <1>3, <1>4, <1>5

\* Errors, interrupts, kills, and changes of the source.
LEMMA FailureKeepsInv == Inv /\ (Failure \/ Kill \/ Change) => Inv'
  <1> SUFFICES ASSUME Inv, Failure \/ Kill \/ Change PROVE Inv'
    OBVIOUS
  <1> USE DEF source, files, progress, Inv, Typed, Sound, Received, Recorded, FilesCovered,
              RowsHaveEvidence, Ended, Written, Evidence, ActiveStatus, Absent, Torn, Then
  <1>1. CASE FailCapturing
    BY <1>1 DEF FailCapturing
  <1>2. CASE FailMaterializing
    BY <1>2 DEF FailMaterializing
  <1>3. CASE Catch
    BY <1>3 DEF Catch
  <1>4. CASE FailFailing
    BY <1>4 DEF FailFailing
  <1>5. CASE Unlink
    BY <1>5 DEF Unlink
  <1>6. CASE Kill
    BY <1>6 DEF Kill
  <1>7. CASE Change
    BY <1>7 DEF Change
  <1> QED
    BY <1>1, <1>2, <1>3, <1>4, <1>5, <1>6, <1>7 DEF Failure

\* Every step keeps the invariant.
LEMMA StepKeepsInv == Inv /\ [Next]_vars => Inv'
  <1> SUFFICES ASSUME Inv, [Next]_vars PROVE Inv'
    OBVIOUS
  <1>1. CASE Next
    BY <1>1, TruncateKeepsInv, FillKeepsInv, ReceiveKeepsInv, DeliverKeepsInv, CaptureKeepsInv,
       FailureKeepsInv
    DEF Next, Capture
  <1>2. CASE UNCHANGED vars
    BY <1>2 DEF vars, source, files, progress, Inv, Typed, Sound, Received, Recorded, FilesCovered,
                RowsHaveEvidence, Ended, Written
  <1> QED
    BY <1>1, <1>2

\* The page of every row in the partial file and in source.csv is in the durable
\* record, whatever the source does and wherever the capture is interrupted
\* (nyc_snapshot.py:230-234).
THEOREM EvidencePrecedesRows == Spec => []RowsHaveEvidence
<1>1. Inv => RowsHaveEvidence
  BY DEF Inv
<1>2. QED
  BY InvInit, StepKeepsInv, <1>1, PTL DEF Spec

\* No step changes a record that says COMPLETE or FAILED (nyc_snapshot.py:95-101).
THEOREM EndedStays == Spec => FinalIsFinal
<1>1. Inv /\ [Next]_vars => [record.status \in {"COMPLETE", "FAILED"} => record' = record]_record
  <2> SUFFICES ASSUME Inv, [Next]_vars, record.status \in {"COMPLETE", "FAILED"}
               PROVE  record' = record
    OBVIOUS
  <2>1. pc \in {"return", "done", "caught", "cleanup", "raised", "killed"}
    BY DEF Inv, Ended
  <2>2. ~Truncate
    BY <2>1 DEF Truncate, Then
  <2>3. ~Fill
    BY <2>1 DEF Fill, Inv, Written, Then
  <2> QED
    BY <2>2, <2>3
    DEF Next, Capture, Failure, vars, MetadataBefore, Receive, Deliver, MetadataAfter, Publish,
        Summarise, Return, FailCapturing, FailMaterializing, Catch, FailFailing, Unlink, Kill, Change
<1>2. QED
  BY InvInit, StepKeepsInv, <1>1, PTL DEF Spec, FinalIsFinal

-----------------------------------------------------------------------------
(***************************************************************************)
(* The rows received.  As long as the revision has not changed since it    *)
(* was read first, they are the table's first rows with the contents the   *)
(* table has.  The cursor is the id of a row received, so that the rows    *)
(* not received are exactly those after it.                                *)
(***************************************************************************)
Reading == {"request", "page", "deliver", "after"}
Unread == {"start", "metadata"}

\* The rows are the first ones of the table t.
FirstRowsOf(t, rows) ==
    /\ DOMAIN rows \subseteq DOMAIN t
    /\ \A x \in DOMAIN rows : rows[x] = t[x]
    /\ \A x \in DOMAIN rows, y \in DOMAIN t \ DOMAIN rows : x < y

Counted ==
    /\ got \in Tables /\ table \in Tables
    /\ emitted = Cardinality(DOMAIN got) /\ emitted <= Target
    /\ before \in Nat /\ revision \in Nat /\ before <= revision
    /\ IF DOMAIN got = {} THEN cursor = 0 ELSE cursor \in DOMAIN got
    /\ pc \in Unread => DOMAIN got = {}
    /\ pc = "after" => emitted = Target

ReadInv ==
    /\ Counted
    /\ pc \in Reading /\ revision = before => FirstRowsOf(table, got)

\* Every set of rows is finite.
LEMMA FiniteRows == \A t \in Tables : DOMAIN t \subseteq Nat \ {0} /\ IsFiniteSet(DOMAIN t)
  BY TableIds, IdsAssumption, FS_Subset

\* A page has a last row: among the sets of the rows after a row of it, a smallest one
\* under inclusion is empty.
LEMMA LastRow ==
    ASSUME NEW page \in SUBSET Ids, page # {}
    PROVE  \E x \in page : \A y \in page : y <= x
<1> DEFINE After(x) == {y \in page : ~(y <= x)}
           Afters == {After(x) : x \in page}
<1>1. IsFiniteSet(page) /\ page \subseteq Nat
  BY IdsAssumption, FS_Subset
<1>2. Afters \subseteq SUBSET page /\ Afters # {}
  OBVIOUS
<1>3. PICK T \in Afters : \A U \in Afters : ~ (<<U, T>> \in StrictSubsetOrdering(page))
  <2> HIDE DEF Afters
  <2>1. IsWellFoundedOn(StrictSubsetOrdering(page), SUBSET page)
    <3>1. FiniteSubsetsOf(page) = SUBSET page
      BY <1>1, FS_FiniteSubsetsOfFinite
    <3>2. QED
      BY <3>1, FS_StrictSubsetOrderingWellFounded
  <2>2. QED
    BY <1>2, <2>1, WFMin
<1>4. PICK x \in page : T = After(x)
  BY <1>3
<1>5. ASSUME NEW y \in page, ~(y <= x) PROVE FALSE
  <2>1. After(y) \subseteq After(x) /\ After(y) # After(x)
    <3>1. \A z \in page : z \in Int
      BY <1>1
    <3>2. y \in After(x) /\ y \notin After(y)
      BY <1>5, <3>1
    <3>3. ASSUME NEW z \in After(y) PROVE z \in After(x)
      BY <1>5, <3>1
    <3>4. QED
      BY <3>2, <3>3
  <2>2. <<After(y), T>> \in StrictSubsetOrdering(page)
    BY <1>4, <2>1 DEF StrictSubsetOrdering
  <2>3. QED
    BY <1>3, <2>2
<1>6. QED
  BY <1>5

\* A page that begins where the first rows end, or at the beginning, and repeats none
\* of them extends them to the first rows of a longer table.
LEMMA PageExtends ==
    ASSUME NEW t \in Tables, NEW rows \in Tables, NEW c, FirstRowsOf(t, rows),
           IF DOMAIN rows = {} THEN c = 0 ELSE c \in DOMAIN rows,
           NEW rest, rest = {x \in DOMAIN t : x > c} \/ rest = {x \in DOMAIN t : x > 0},
           NEW page \in SUBSET rest, page # {}, page \cap DOMAIN rows = {},
           \A x \in page, y \in rest \ page : x < y
    PROVE  FirstRowsOf(t, [x \in DOMAIN rows \cup page |-> IF x \in page THEN t[x] ELSE rows[x]])
<1>1. DOMAIN t \subseteq Nat \ {0} /\ DOMAIN rows \subseteq Nat \ {0}
  BY FiniteRows
<1>2. \A y \in DOMAIN t \ DOMAIN rows : y \in rest
  BY <1>1 DEF FirstRowsOf
<1>3. \A x \in DOMAIN rows \cup page, y \in DOMAIN t \ (DOMAIN rows \cup page) : x < y
  BY <1>2 DEF FirstRowsOf
<1>4. DOMAIN rows \cup page \subseteq DOMAIN t
  BY DEF FirstRowsOf
<1>5. QED
  BY <1>3, <1>4 DEF FirstRowsOf

\* Nothing has been received when the partial file has just been opened.
LEMMA ReadInit == Init => ReadInv
<1> SUFFICES ASSUME Init PROVE ReadInv
  OBVIOUS
<1>1. NoRows \in Tables
  BY DEF NoRows, Tables
<1>2. Cardinality(DOMAIN got) = 0 /\ DOMAIN got = {}
  BY NothingReceived, FS_EmptySet DEF Init
<1>3. QED
  BY <1>1, <1>2, TargetAssumption DEF Init, ReadInv, Counted, Reading

\* A page accepted extends the first rows.
LEMMA ReceiveReads == ReadInv /\ Receive => ReadInv'
<1> SUFFICES ASSUME ReadInv, Receive PROVE ReadInv'
  OBVIOUS
<1>1. PICK page \in Pages :
        /\ page # {} /\ page \cap DOMAIN got = {} /\ emitted + Cardinality(page) <= Target
        /\ Accept(page)
  BY DEF Receive
<1>2. /\ pc = "request" /\ pc' = "page" /\ UNCHANGED <<table, revision, before>>
  BY DEF Receive, source
<1>3. PICK c \in {cursor, 0} : page \in PagesAfter(c)
  BY DEF Pages
<1>4. page \subseteq DOMAIN table /\ page \in SUBSET Ids /\ IsFiniteSet(page)
  BY <1>3, TableIds, IdsAssumption, FS_Subset DEF PagesAfter, ReadInv, Counted
<1>5. got' = [x \in DOMAIN got \cup page |-> IF x \in page THEN table[x] ELSE got[x]]
  BY <1>1 DEF Accept
<1>6. got' \in Tables
  <2>1. PICK rows \in SUBSET Ids : got \in [rows -> Content]
    BY DEF ReadInv, Counted, Tables
  <2>2. PICK all \in SUBSET Ids : table \in [all -> Content]
    BY DEF ReadInv, Counted, Tables
  <2>3. got' \in [rows \cup page -> Content]
    BY <1>4, <1>5, <2>1, <2>2
  <2>4. QED
    BY <1>4, <2>1, <2>3 DEF Tables
<1>7. DOMAIN got' = DOMAIN got \cup page
  BY <1>5
<1>8. emitted' = Cardinality(DOMAIN got') /\ emitted' <= Target
  <2>1. IsFiniteSet(DOMAIN got) /\ emitted = Cardinality(DOMAIN got)
    BY FiniteRows DEF ReadInv, Counted
  <2>2. Cardinality(DOMAIN got \cup page) = Cardinality(DOMAIN got) + Cardinality(page) - 0
    BY <1>1, <1>4, <2>1, FS_Union, FS_EmptySet
  <2>3. emitted' = emitted + Cardinality(page)
    BY <1>1 DEF Accept
  <2>4. Cardinality(page) \in Nat /\ Cardinality(DOMAIN got) \in Nat
    BY <1>4, <2>1, FS_CardinalityType
  <2>5. QED
    BY <1>1, <1>7, <2>1, <2>2, <2>3, <2>4
<1>9. cursor' \in page
  <2>1. cursor' = CHOOSE x \in page : \A y \in page : y <= x
    BY <1>1 DEF Accept
  <2>2. QED
    BY <1>1, <1>4, <2>1, LastRow
<1>10. Counted'
  BY <1>1, <1>2, <1>6, <1>7, <1>8, <1>9 DEF ReadInv, Counted, Unread
<1>11. ASSUME revision = before PROVE FirstRowsOf(table, got)'
  <2>1. FirstRowsOf(table, got)
    BY <1>2, <1>11 DEF ReadInv, Reading
  <2> DEFINE rest == {x \in DOMAIN table : x > c}
  <2>2. /\ rest = {x \in DOMAIN table : x > cursor} \/ rest = {x \in DOMAIN table : x > 0}
        /\ page \in SUBSET rest /\ \A x \in page, y \in rest \ page : x < y
    BY <1>3 DEF PagesAfter
  <2> HIDE DEF rest
  <2>3. /\ table \in Tables /\ got \in Tables
        /\ IF DOMAIN got = {} THEN cursor = 0 ELSE cursor \in DOMAIN got
    BY DEF ReadInv, Counted
  <2>4. FirstRowsOf(table, got')
    BY <1>1, <1>5, <2>1, <2>2, <2>3, PageExtends
  <2>5. QED
    BY <1>2, <2>4 DEF FirstRowsOf
<1>12. QED
  BY <1>2, <1>10, <1>11 DEF ReadInv

\* The other steps leave the rows alone; a change of the table is a new revision.
LEMMA StepReads == Inv /\ ReadInv /\ [Next]_vars => ReadInv'
<1> SUFFICES ASSUME Inv, ReadInv, [Next]_vars PROVE ReadInv'
  OBVIOUS
<1> USE TargetAssumption DEF ReadInv, Counted, Reading, Unread, source, files, progress
<1>1. CASE Receive
  BY <1>1, ReceiveReads
<1>2. CASE Change
  <2>1. revision' # before'
    BY <1>2 DEF Change
  <2>2. QED
    BY <1>2, <2>1 DEF Change
<1>3. CASE MetadataBefore
  <2>1. FirstRowsOf(table, got)'
    BY <1>3 DEF MetadataBefore, FirstRowsOf
  <2>2. QED
    BY <1>3, <2>1 DEF MetadataBefore
<1>4. CASE Deliver
  <2>1. emitted \in Nat
    BY FiniteRows, FS_CardinalityType
  <2>2. FirstRowsOf(table, got)' <=> FirstRowsOf(table, got)
    BY <1>4 DEF Deliver, FirstRowsOf
  <2>3. QED
    BY <1>4, <2>1, <2>2 DEF Deliver
<1>5. CASE Fill
  <2>1. /\ pc \in {"start", "page", "captured", "complete", "failing", "fail"}
        /\ pc = "start" => pc' = "metadata"
        /\ pc = "page" => pc' = "deliver"
        /\ pc \notin {"start", "page"} => pc' \in {"publish", "return", "caught", "cleanup"}
    BY <1>5 DEF Fill, Inv, Written, Then
  <2>2. FirstRowsOf(table, got)' <=> FirstRowsOf(table, got)
    BY <1>5 DEF Fill, FirstRowsOf
  <2>3. QED
    BY <1>5, <2>1, <2>2 DEF Fill
<1>6. CASE Truncate \/ UNCHANGED vars
  <2>1. FirstRowsOf(table, got)' <=> FirstRowsOf(table, got)
    BY <1>6 DEF Truncate, vars, FirstRowsOf
  <2>2. QED
    BY <1>6, <2>1 DEF Truncate, vars
<1>7. CASE MetadataAfter \/ Publish \/ Summarise \/ Return \/ Failure \/ Kill
  <2>1. /\ UNCHANGED <<table, revision, got, emitted, cursor, before>>
        /\ pc' \notin Reading \cup Unread
    BY <1>7
    DEF MetadataAfter, Publish, Summarise, Return, Failure, Kill, FailCapturing,
        FailMaterializing, Catch, FailFailing, Unlink
  <2>2. QED
    BY <2>1
<1>8. QED
  BY <1>1, <1>2, <1>3, <1>4, <1>5, <1>6, <1>7 DEF Next, Capture

-----------------------------------------------------------------------------
(***************************************************************************)
(* What is published.  The evidence says that the revisions matched from   *)
(* the second reading on, the record says it only if the evidence does,    *)
(* and both say it as long as source.csv is there.  What is renamed to     *)
(* source.csv are the rows received.                                       *)
(***************************************************************************)
Readable == record \notin {Absent, Torn}

Matched ==
    /\ pc \in Unread \cup Reading => ~evidence.matched
    /\ pc \in {"captured", "publish", "summary", "complete"} => evidence.matched
    /\ output # Nothing => evidence.matched
    /\ Readable /\ output # Nothing => record.matched
    /\ Readable /\ record.matched => evidence.matched

Renamed ==
    /\ pc \in {"after", "captured", "publish"} => partial = got
    /\ pc \in {"summary", "complete"} => output # Nothing /\ DOMAIN output = evidence.covered
    /\ pc = "complete" => summary

WholeInv == Matched /\ Renamed /\ CompleteIsWhole

\* At first nothing has matched and nothing is published.
LEMMA WholeInit == Init => WholeInv
  BY DEF Init, WholeInv, Matched, Renamed, CompleteIsWhole, Readable, Unread, Reading, Absent, Torn

\* The rows received are not the mark of a missing file.
LEMMA RowsAreThere == ReadInv => got # Nothing
  BY NothingAssumption DEF ReadInv, Counted

\* The record is written from the evidence in memory.
LEMMA FillPublishes == Inv /\ WholeInv /\ Fill => WholeInv'
<1> SUFFICES ASSUME Inv, WholeInv, Fill PROVE WholeInv'
  OBVIOUS
<1>1. /\ pc \in {"start", "page", "captured", "complete", "failing", "fail"}
      /\ pc = "start" => pc' = "metadata"
      /\ pc = "page" => pc' = "deliver"
      /\ pc = "captured" => pc' = "publish"
      /\ pc = "complete" => pc' = "return"
      /\ pc = "failing" => pc' = "caught"
      /\ pc = "fail" => pc' = "cleanup"
  BY DEF Fill, Inv, Written, Then
<1>2. /\ record' = evidence
      /\ UNCHANGED <<partial, output, summary, evidence, got>>
  BY DEF Fill, source, files, progress
<1>3. Matched'
  BY <1>1, <1>2 DEF WholeInv, Matched, Readable, Unread, Reading
<1>4. Renamed'
  BY <1>1, <1>2 DEF WholeInv, Renamed
<1>5. CompleteIsWhole'
  <2>1. evidence.status = "COMPLETE" => pc = "complete"
    BY <1>1 DEF Inv, Written
  <2>2. QED
    BY <1>1, <1>2, <2>1 DEF WholeInv, Matched, Renamed, CompleteIsWhole
<1>6. QED
  BY <1>3, <1>4, <1>5 DEF WholeInv

\* Every step keeps what is said of the published rows.
LEMMA StepPublishes == Inv /\ ReadInv /\ WholeInv /\ [Next]_vars => WholeInv'
<1> SUFFICES ASSUME Inv, ReadInv, WholeInv, [Next]_vars PROVE WholeInv'
  OBVIOUS
<1> USE DEF WholeInv, Matched, Renamed, CompleteIsWhole, Readable, Unread, Reading,
            source, files, progress, Inv, Typed, Evidence
<1>1. CASE Truncate
  BY <1>1 DEF Truncate, Torn, Absent, Then
<1>2. CASE Fill
  BY <1>2, FillPublishes
<1>3. CASE Receive
  BY <1>3 DEF Receive, Accept, Ended
<1>4. CASE MetadataBefore \/ Deliver \/ Change \/ UNCHANGED vars
  BY <1>4 DEF MetadataBefore, Deliver, Change, vars, Ended
<1>5. CASE MetadataAfter
  BY <1>5 DEF MetadataAfter, Ended
<1>6. CASE Publish
  BY <1>6, RowsAreThere DEF Publish, Received, Recorded, Sound, Ended, Written
<1>7. CASE Summarise
  BY <1>7 DEF Summarise, Received, Recorded, Sound, Ended, Written
<1>8. CASE Return
  BY <1>8 DEF Return
<1>9. CASE FailCapturing \/ FailMaterializing
  BY <1>9 DEF FailCapturing, FailMaterializing, Ended
<1>10. CASE Catch
  BY <1>10 DEF Catch, ActiveStatus, Absent, Torn, Ended
<1>11. CASE FailFailing \/ Unlink \/ Kill
  BY <1>11 DEF FailFailing, Unlink, Kill, Ended
<1>12. QED
  BY <1>1, <1>2, <1>3, <1>4, <1>5, <1>6, <1>7, <1>8, <1>9, <1>10, <1>11
  DEF Next, Capture, Failure

\* A record that says COMPLETE is of one revision, and covers exactly the rows of
\* source.csv unless an interrupt withdrew the file (dataset_sources.py:152-182).
THEOREM CompleteCaptures == Spec => []CompleteIsWhole
<1>1. WholeInv => CompleteIsWhole
  BY DEF WholeInv
<1>2. QED
  BY InvInit, ReadInit, WholeInit, StepKeepsInv, StepReads, StepPublishes, <1>1, PTL DEF Spec

\* What the contract calls taken.
Taken == IF evidence.matched THEN got ELSE Nothing

\* The contract counts as the capture does.
LEMMA SameCount == \A S : Contract!Cardinality(S) = Cardinality(S)
  BY Zenon DEF Cardinality, Contract!Cardinality

\* The second reading of an unchanged revision takes the snapshot: the rows received
\* are the table's first Target rows.
LEMMA MatchTakes == ReadInv /\ WholeInv /\ MetadataAfter => Contract!Take
<1> SUFFICES ASSUME ReadInv, WholeInv, MetadataAfter PROVE Contract!Take
  OBVIOUS
<1>1. /\ pc = "after" /\ revision = before /\ ~evidence.matched /\ emitted = Target
      /\ FirstRowsOf(table, got) /\ got \in Tables /\ Cardinality(DOMAIN got) = Target
  BY DEF MetadataAfter, ReadInv, Counted, Reading, WholeInv, Matched
<1>2. UNCHANGED <<table, output, got>>
  BY DEF MetadataAfter, source, files, progress
<1>3. Taken = Nothing /\ Taken' = got
  <2>1. evidence'.matched
    BY DEF MetadataAfter, WholeInv, Matched
  <2>2. QED
    BY <1>1, <1>2, <2>1 DEF Taken
<1>4. got = [x \in DOMAIN got |-> table[x]]
  <2>1. got = [x \in DOMAIN got |-> got[x]]
    BY <1>1 DEF Tables
  <2>2. QED
    BY <1>1, <2>1 DEF FirstRowsOf
<1>5. DOMAIN got \in SUBSET DOMAIN table /\ Contract!IsFirst(table, DOMAIN got)
  BY <1>1, SameCount DEF FirstRowsOf, Contract!IsFirst
<1>6. \E rows \in SUBSET DOMAIN table :
         Contract!IsFirst(table, rows) /\ Taken' = [x \in rows |-> table[x]]
  BY <1>3, <1>4, <1>5
<1>7. QED
  BY <1>2, <1>3, <1>6 DEF Contract!Take, Taken

\* Every other step changes the table, publishes what was taken, withdraws it, or is
\* not seen by the contract.
LEMMA StepRefines ==
    Inv /\ ReadInv /\ ReadInv' /\ WholeInv /\ WholeInv' /\ [Next]_vars
        => [Contract!Next]_<<table, Taken, output>>
<1> SUFFICES ASSUME Inv, ReadInv, ReadInv', WholeInv, WholeInv', [Next]_vars
             PROVE  Contract!Next \/ UNCHANGED <<table, Taken, output>>
  OBVIOUS
<1> USE DEF source, files, progress
<1>1. CASE MetadataAfter
  BY <1>1, MatchTakes DEF Contract!Next
<1>2. CASE Change
  <2>1. table' \in Tables /\ UNCHANGED <<Taken, output>>
    BY <1>2 DEF Change, Taken
  <2>2. QED
    BY <2>1 DEF Contract!Next, Contract!Change, Taken
<1>3. CASE Publish
  <2>1. /\ evidence.matched /\ partial = got /\ output' = partial /\ got # Nothing
        /\ UNCHANGED <<table, evidence, got>>
    BY <1>3, RowsAreThere DEF Publish, WholeInv, Matched, Renamed
  <2>2. Taken # Nothing /\ output' = Taken /\ UNCHANGED <<table, Taken>>
    BY <2>1 DEF Taken
  <2>3. QED
    BY <2>2 DEF Contract!Next, Contract!Publish, Taken
<1>4. CASE Receive
  <2>1. ~evidence.matched /\ ~evidence'.matched /\ UNCHANGED <<table, output>>
    BY <1>4 DEF Receive, WholeInv, Matched, Reading
  <2>2. QED
    BY <2>1 DEF Taken
<1>5. CASE Truncate \/ Fill \/ MetadataBefore \/ Deliver \/ Return \/ FailMaterializing
           \/ FailFailing \/ Kill \/ UNCHANGED vars
  BY <1>5 DEF Truncate, Fill, MetadataBefore, Deliver, Return, FailMaterializing, FailFailing,
              Kill, vars, Taken
<1>6. CASE FailCapturing
  BY <1>6 DEF FailCapturing, Taken, Inv, Typed, Evidence
<1>7. CASE Summarise
  <2>1. /\ record = evidence /\ evidence' = [record EXCEPT !.status = "COMPLETE"]
        /\ UNCHANGED <<table, output, got>>
    BY <1>7 DEF Summarise, Inv, Recorded
  <2>2. evidence'.matched = evidence.matched
    BY <2>1 DEF Inv, Typed, Evidence
  <2>3. QED
    BY <2>1, <2>2 DEF Taken
<1>8. CASE Catch
  <2>1. UNCHANGED <<table, output, got>>
    BY <1>8 DEF Catch
  <2>2. CASE record.status \in ActiveStatus
    <3>1. Readable /\ evidence' = [record EXCEPT !.status = "FAILED"] /\ record \in Evidence
      BY <1>8, <2>2 DEF Catch, Readable, Absent, Torn, ActiveStatus, Inv, Typed
    <3>2. evidence'.matched = record.matched
      BY <3>1 DEF Evidence
    <3>3. CASE record.matched
      <4>1. evidence.matched /\ evidence'.matched
        BY <3>1, <3>2, <3>3 DEF WholeInv, Matched
      <4>2. QED
        BY <2>1, <4>1 DEF Taken
    <3>4. CASE ~record.matched
      <4>1. output = Nothing /\ output' = Nothing /\ Taken' = Nothing
        BY <2>1, <3>1, <3>2, <3>4 DEF WholeInv, Matched, Taken
      <4>2. QED
        BY <2>1, <4>1 DEF Contract!Next, Contract!Withdraw, Taken
    <3>5. QED
      BY <3>3, <3>4
  <2>3. CASE record.status \notin ActiveStatus
    BY <1>8, <2>1, <2>3 DEF Catch, Taken
  <2>4. QED
    BY <2>2, <2>3
<1>9. CASE Unlink
  <2>1. UNCHANGED <<table, Taken>> /\ output' \in {output, Nothing}
    BY <1>9 DEF Unlink, Taken
  <2>2. QED
    BY <2>1 DEF Contract!Next, Contract!Withdraw, Taken
<1>10. QED
  BY <1>1, <1>2, <1>3, <1>4, <1>5, <1>6, <1>7, <1>8, <1>9 DEF Next, Capture, Failure

\* Whatever is published is the table's first Target rows as they all were at one
\* moment, although they were read page by page while the table changed.
THEOREM PublishesSnapshots == Spec => OutputIsSnapshot
<1>1. Init => Contract!Init
  BY DEF Init, Contract!Init
<1>2. Inv /\ ReadInv /\ ReadInv' /\ WholeInv /\ WholeInv' /\ [Next]_vars
         => [Contract!Next]_Contract!vars
  BY StepRefines DEF Taken, Contract!vars
<1>3. QED
  BY InvInit, ReadInit, WholeInit, StepKeepsInv, StepReads, StepPublishes, <1>1, <1>2, PTL
  DEF Spec, OutputIsSnapshot, Contract!Spec

=============================================================================
