------------------------- MODULE AtomicWrite_proofs -------------------------
(***************************************************************************)
(* Proofs about atomic_write_json, for every number of calls, every set of *)
(* temporary names and every length of the payload.                        *)
(***************************************************************************)
EXTENDS AtomicWrite, TLAPS

(***************************************************************************)
(* The inductive invariant.  A temporary name belongs to the one call that *)
(* created it and has not published it; a call holds no byte before it has *)
(* made its file private; what was ever published was synchronised in      *)
(* full, so neither the call itself nor a loss of power can shorten it.    *)
(***************************************************************************)
NameOfOwner ==
    \A n \in Names : \A w \in Writes :
        temporary[n] = w =>
            name[w] = n /\ pc[w] \in {"created", "private", "complete", "failed"}
NamesHeld == \A w \in Writes : pc[w] \in {"created", "private", "complete"} => name[w] \in Names
Unwritten == \A w \in Writes : pc[w] \in {"idle", "opened", "created"} => length[w] = 0
Ordered == \A w \in Writes : durable[w] <= length[w]
CompleteIsDurable == \A w \in Writes : pc[w] = "complete" => durable[w] = Size
PastIsDurable ==
    \A w \in Writes : w \in past => durable[w] = Size /\ pc[w] \in {"published", "done", "failed"}
PublishedIsPast == \A w \in Writes : pc[w] = "published" => w \in past
PrivateStep == \A w \in Writes : pc[w] \in {"private", "complete"} => mode[w] = Private
DocumentWasPublished == document \in past /\ Absent \in past

FileInv ==
    /\ Unwritten /\ Ordered /\ CompleteIsDurable /\ PastIsDurable
    /\ PublishedIsPast /\ PrivateStep /\ PrivateUntilPublished /\ DocumentWasPublished
NameInv == OwnTemporary /\ NameOfOwner /\ NamesHeld
IInv == TypeOK /\ NameInv /\ FileInv

\* The type of the state, which the step of every call keeps.
LEMMA TypeStep ==
    ASSUME TypeOK, NameInv, [Next]_vars PROVE TypeOK'
<1> USE WritesAssumption, NamesAssumption, SizeAssumption
    DEF TypeOK, Modes, Private, Default, Absent, Free, inodes, directory, Step
<1>1. ASSUME NEW w \in Writes, Open(w) PROVE TypeOK'
  BY <1>1 DEF Open
<1>2. ASSUME NEW w \in Writes, NEW n \in Names, Create(w, n) PROVE TypeOK'
  BY <1>2 DEF Create
<1>3. ASSUME NEW w \in Writes, Narrow(w) PROVE TypeOK'
  BY <1>3 DEF Narrow
<1>4. ASSUME NEW w \in Writes, Write(w) PROVE TypeOK'
  BY <1>4 DEF Write
<1>5. ASSUME NEW w \in Writes, Flush(w) PROVE TypeOK'
  BY <1>5 DEF Flush
<1>6. ASSUME NEW w \in Writes, Replace(w) PROVE TypeOK'
  BY <1>6 DEF Replace, NameInv, OwnTemporary, NamesHeld
<1>7. ASSUME NEW w \in Writes, Restore(w) PROVE TypeOK'
  BY <1>7 DEF Restore
<1>8. ASSUME NEW w \in Writes, Fail(w) PROVE TypeOK'
  BY <1>8 DEF Fail
<1>9. ASSUME PowerLoss PROVE TypeOK'
  BY <1>9 DEF PowerLoss
<1>10. CASE UNCHANGED vars
  BY <1>10 DEF vars
<1>11. QED
  BY <1>1, <1>2, <1>3, <1>4, <1>5, <1>6, <1>7, <1>8, <1>9, <1>10 DEF Next

\* A temporary name has one owner, because it is created exclusively.
LEMMA NameStep ==
    ASSUME TypeOK, NameInv, [Next]_vars PROVE NameInv'
<1> USE WritesAssumption, NamesAssumption
    DEF TypeOK, NameInv, OwnTemporary, NameOfOwner, NamesHeld, Free, inodes, directory, Step
<1>1. ASSUME NEW w \in Writes, Open(w) PROVE NameInv'
  BY <1>1 DEF Open
<1>2. ASSUME NEW w \in Writes, NEW n \in Names, Create(w, n) PROVE NameInv'
  BY <1>2 DEF Create
<1>3. ASSUME NEW w \in Writes, Narrow(w) PROVE NameInv'
  BY <1>3 DEF Narrow
<1>4. ASSUME NEW w \in Writes, Write(w) PROVE NameInv'
  BY <1>4 DEF Write
<1>5. ASSUME NEW w \in Writes, Flush(w) PROVE NameInv'
  BY <1>5 DEF Flush
<1>6. ASSUME NEW w \in Writes, Replace(w) PROVE NameInv'
  BY <1>6 DEF Replace
<1>7. ASSUME NEW w \in Writes, Restore(w) PROVE NameInv'
  BY <1>7 DEF Restore
<1>8. ASSUME NEW w \in Writes, Fail(w) PROVE NameInv'
  BY <1>8 DEF Fail, Running
<1>9. ASSUME PowerLoss PROVE NameInv'
  BY <1>9 DEF PowerLoss, Running
<1>10. CASE UNCHANGED vars
  BY <1>10 DEF vars
<1>11. QED
  BY <1>1, <1>2, <1>3, <1>4, <1>5, <1>6, <1>7, <1>8, <1>9, <1>10 DEF Next

\* A call that completes its file replaces the document with that very file.
LEMMA ReplaceOwn ==
    ASSUME TypeOK, NameInv, FileInv, NEW w \in Writes, Replace(w)
    PROVE  /\ document' = w /\ past' = past \cup {w} /\ w \notin past
           /\ length[w] = Size
BY SizeAssumption DEF Replace, Step, NameInv, OwnTemporary, FileInv, CompleteIsDurable,
   PastIsDurable, Ordered, TypeOK

\* What was published stays synchronised, and what is not stays private.
LEMMA FileStep ==
    ASSUME TypeOK, NameInv, FileInv, [Next]_vars PROVE FileInv'
<1> USE WritesAssumption, SizeAssumption
    DEF TypeOK, FileInv, Unwritten, Ordered, CompleteIsDurable, PastIsDurable, PublishedIsPast,
        PrivateStep, PrivateUntilPublished, DocumentWasPublished, Absent, inodes, directory, Step
<1>1. ASSUME NEW w \in Writes, Open(w) PROVE FileInv'
  BY <1>1 DEF Open
<1>2. ASSUME NEW w \in Writes, NEW n \in Names, Create(w, n) PROVE FileInv'
  BY <1>2 DEF Create
<1>3. ASSUME NEW w \in Writes, Narrow(w) PROVE FileInv'
  BY <1>3 DEF Narrow
<1>4. ASSUME NEW w \in Writes, Write(w) PROVE FileInv'
  BY <1>4 DEF Write
<1>5. ASSUME NEW w \in Writes, Flush(w) PROVE FileInv'
  BY <1>5 DEF Flush
<1>6. ASSUME NEW w \in Writes, Replace(w) PROVE FileInv'
  <2>1. document' = w /\ past' = past \cup {w}
    BY <1>6, ReplaceOwn
  <2>2. QED
    BY <1>6, <2>1 DEF Replace
<1>7. ASSUME NEW w \in Writes, Restore(w) PROVE FileInv'
  BY <1>7 DEF Restore
<1>8. ASSUME NEW w \in Writes, Fail(w) PROVE FileInv'
  BY <1>8 DEF Fail, Running
<1>9. ASSUME PowerLoss PROVE FileInv'
  <2>1. PICK kept \in [Writes -> 0..Size] :
            /\ \A w \in Writes : durable[w] <= kept[w] /\ kept[w] <= length[w]
            /\ length' = kept
    BY <1>9 DEF PowerLoss
  <2>2. \A w \in Writes : length'[w] <= length[w] /\ durable[w] <= length'[w]
    BY <2>1
  <2>3. QED
    BY <1>9, <2>1, <2>2 DEF PowerLoss, Running
<1>10. CASE UNCHANGED vars
  BY <1>10 DEF vars
<1>11. QED
  BY <1>1, <1>2, <1>3, <1>4, <1>5, <1>6, <1>7, <1>8, <1>9, <1>10 DEF Next

\* The inductive invariant holds in every state.
THEOREM Invariance == Spec => []IInv
<1>1. Init => IInv
  BY WritesAssumption, NamesAssumption, SizeAssumption
  DEF Init, IInv, TypeOK, Modes, NameInv, OwnTemporary, NameOfOwner, NamesHeld, FileInv, Unwritten,
      Ordered, CompleteIsDurable, PastIsDurable, PublishedIsPast, PrivateStep,
      PrivateUntilPublished, DocumentWasPublished, Absent, Free, Private, Default
<1>2. IInv /\ [Next]_vars => IInv'
  BY TypeStep, NameStep, FileStep DEF IInv
<1>3. QED
  BY <1>1, <1>2, PTL DEF Spec

-----------------------------------------------------------------------------

\* Type correctness.
THEOREM TypeCorrect == Spec => []TypeOK
<1>1. IInv => TypeOK
  BY DEF IInv
<1>2. QED
  BY <1>1, Invariance, PTL

\* Every published write has its whole payload.
LEMMA PastIsWhole == ASSUME TypeOK, FileInv PROVE \A w \in Writes : w \in past => length[w] = Size
BY SizeAssumption DEF TypeOK, FileInv, PastIsDurable, Ordered

\* The document is absent or whole, whatever fails (json_contract.py:252-259).
THEOREM DocumentWhole == Spec => []DocumentIsWhole
<1>1. IInv => DocumentIsWhole
  BY PastIsWhole DEF IInv, DocumentIsWhole, FileInv, DocumentWasPublished, TypeOK
<1>2. QED
  BY <1>1, Invariance, PTL

\* What is not published is readable by its owner only, whatever fails.
THEOREM UnpublishedIsPrivate == Spec => []PrivateUntilPublished
<1>1. IInv => PrivateUntilPublished
  BY DEF IInv, FileInv
<1>2. QED
  BY <1>1, Invariance, PTL

\* A call publishes the file it created, and no other.
THEOREM TemporaryIsOwned == Spec => []OwnTemporary
<1>1. IInv => OwnTemporary
  BY DEF IInv, NameInv
<1>2. QED
  BY <1>1, Invariance, PTL

-----------------------------------------------------------------------------

\* Initially there is no document.
LEMMA ContractInit == Init => Contract!Init
BY DEF Init, Contract!Init, Contract!Absent, Seen, Absent

\* Every step publishes one write, loses power or leaves the document alone.
LEMMA ContractStep == IInv /\ [Next]_vars => [Contract!Next]_<<Seen, past>>
<1> SUFFICES ASSUME IInv, [Next]_vars PROVE [Contract!Next]_<<Seen, past>>
  OBVIOUS
<1> USE DEF IInv
<1>1. TypeOK' /\ FileInv'
  BY TypeStep, FileStep
<1>2. Seen = document
  BY PastIsWhole DEF Seen, FileInv, DocumentWasPublished, TypeOK
<1>3. Seen' = document'
  <2>1. document' # Absent => length'[document'] = Size
    <3>1. \A w \in Writes : w \in past' => length'[w] = Size
      BY <1>1, SizeAssumption DEF TypeOK, FileInv, PastIsDurable, Ordered
    <3>2. QED
      BY <1>1, <3>1 DEF FileInv, DocumentWasPublished, TypeOK
  <2>2. QED
    BY <2>1, SizeAssumption DEF Seen, Absent
<1>4. ASSUME NEW w \in Writes, Replace(w) PROVE Contract!Publish(w)
  BY <1>2, <1>3, <1>4, ReplaceOwn DEF Contract!Publish
<1>5. ASSUME PowerLoss PROVE Contract!PowerLoss
  BY <1>2, <1>3, <1>5 DEF PowerLoss, Contract!PowerLoss
<1>6. ASSUME NEW w \in Writes,
             \/ Open(w) \/ (\E n \in Names : Create(w, n)) \/ Narrow(w)
             \/ Write(w) \/ Flush(w) \/ Restore(w) \/ Fail(w)
      PROVE  document' = document /\ past' = past
  BY <1>6 DEF Open, Create, Narrow, Write, Flush, Restore, Fail, directory
<1>7. CASE UNCHANGED vars
  BY <1>2, <1>3, <1>7 DEF vars, directory
<1>8. QED
  BY <1>2, <1>3, <1>4, <1>5, <1>6, <1>7 DEF Next, Contract!Next

\* The system calls implement the contract: a document that changes at one
\* moment per write, at most once, and is never seen in part.
THEOREM Implements == Spec => FollowsContract
<1>1. Contract!Spec <=> Contract!Init /\ [][Contract!Next]_<<Seen, past>>
  BY DEF Contract!Spec
<1>2. QED
  BY ContractInit, ContractStep, Invariance, <1>1, PTL DEF Spec, FollowsContract
=============================================================================
