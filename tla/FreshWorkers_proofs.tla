------------------------ MODULE FreshWorkers_proofs -------------------------
(***************************************************************************)
(* Proofs about the pool of FreshWorkers, for every number of processes    *)
(* and workers and every set of evidence values.                           *)
(***************************************************************************)
EXTENDS FreshWorkers, FiniteSetTheorems, TLAPS

\* Type correctness is inductive by itself.
THEOREM TypeCorrect == Spec => []TypeOK
<1>1. Init => TypeOK
  BY ProcessesAssumption DEF Init, TypeOK, Attempts
<1>2. TypeOK /\ [Next]_vars => TypeOK'
  <2> SUFFICES ASSUME TypeOK, [Next]_vars PROVE TypeOK'
    OBVIOUS
  <2> USE ProcessesAssumption DEF TypeOK, Attempts
  <2>1. ASSUME NEW i \in Attempts, Start(i) PROVE TypeOK'
    BY <2>1 DEF Start
  <2>2. ASSUME NEW i \in Attempts, Complete(i) PROVE TypeOK'
    BY <2>2 DEF Complete
  <2>3. ASSUME NEW i \in Attempts, ConsumeSuccess(i) PROVE TypeOK'
    BY <2>3 DEF ConsumeSuccess
  <2>4. ASSUME NEW i \in Attempts, ConsumeFailure(i) PROVE TypeOK'
    BY <2>4 DEF ConsumeFailure
  <2>5. ASSUME NEW i \in Attempts, ConsumeException(i) PROVE TypeOK'
    BY <2>5 DEF ConsumeException
  <2>6. CASE Cancel
    BY <2>6 DEF Cancel
  <2>7. CASE CancelDone
    BY <2>7 DEF CancelDone
  <2>8. CASE Shutdown
    BY <2>8 DEF Shutdown
  <2>9. CASE Join
    BY <2>9 DEF Join
  <2>10. CASE Aggregate
    BY <2>10 DEF Aggregate
  <2>11. CASE UNCHANGED vars
    BY <2>11 DEF vars
  <2>12. QED
    BY <2>1, <2>2, <2>3, <2>4, <2>5, <2>6, <2>7, <2>8, <2>9, <2>10, <2>11
    DEF Next, Caller, Pool
<1>3. QED
  BY <1>1, <1>2, PTL DEF Spec

-----------------------------------------------------------------------------

(***************************************************************************)
(* What the calling thread relies on.  An attempt has an outcome exactly   *)
(* when its future has finished, and what has been consumed has finished.  *)
(* While the thread collects it has consumed successes only and nothing is *)
(* cancelled; once it has stopped collecting some process has failed; the  *)
(* cancel loop leaves nothing pending behind it.  MEASURED is only said on *)
(* return, and FAILED is never said of processes that agree.               *)
(***************************************************************************)
Settled == \A i \in Attempts : (future[i] = "finished") <=> (outcome[i] # "none")
ConsumedFinished == \A i \in consumed : future[i] = "finished"
Collecting ==
    pc = "collect" =>
        /\ result = "none" /\ next = 1
        /\ \A i \in consumed : outcome[i] \in EvidenceValues
        /\ \A i \in Attempts : future[i] # "cancelled"
Failing ==
    pc \in {"cancel", "shutdown", "join"} =>
        /\ result = "FAILED"
        /\ \E i \in Attempts : outcome[i] \in {"failed", "raised"}
Swept ==
    /\ pc = "cancel" => \A i \in Attempts : i < next => future[i] # "pending"
    /\ pc = "shutdown" => \A i \in Attempts : future[i] # "pending"
Agree == \E e \in EvidenceValues : \A i \in Attempts : outcome[i] = e
Decided ==
    /\ result = "MEASURED" => pc = "returned" /\ Agree
    /\ pc = "returned" => result # "none"
    /\ pc = "returned" /\ result = "FAILED" => ~Agree

Inv == TypeOK /\ Settled /\ ConsumedFinished /\ Collecting /\ Failing /\ Swept /\ Decided
       /\ NothingRunsAfterReturn

\* The invariant holds at the start.
LEMMA InvInit == Init => Inv
  BY ProcessesAssumption
  DEF Init, Inv, TypeOK, Attempts, In, Settled, ConsumedFinished, Collecting, Failing, Swept,
      Decided, NothingRunsAfterReturn

\* Every step of the calling thread and of the pool's threads keeps it.
LEMMA InvNext == Inv /\ TypeOK' /\ [Next]_vars => Inv'
  <1> SUFFICES ASSUME Inv, TypeOK', [Next]_vars PROVE Inv'
    OBVIOUS
  <1> USE ProcessesAssumption, EvidenceAssumption
      DEF Inv, TypeOK, Attempts, In, Settled, ConsumedFinished, Collecting, Failing, Swept,
          Decided, NothingRunsAfterReturn
  <1>1. ASSUME NEW i \in Attempts, Start(i) PROVE Inv'
    BY <1>1 DEF Start, Agree
  <1>2. ASSUME NEW i \in Attempts, Complete(i) PROVE Inv'
    <2>1. outcome[i] = "none" /\ ~Agree /\ pc # "returned"
      BY <1>2 DEF Complete, Agree
    <2>2. QED
      BY <1>2, <2>1 DEF Complete
  <1>3. ASSUME NEW i \in Attempts, ConsumeSuccess(i) PROVE Inv'
    BY <1>3 DEF ConsumeSuccess, Agree
  <1>4. ASSUME NEW i \in Attempts, ConsumeFailure(i) PROVE Inv'
    BY <1>4 DEF ConsumeFailure, Agree
  <1>5. ASSUME NEW i \in Attempts, ConsumeException(i) PROVE Inv'
    BY <1>5 DEF ConsumeException, Agree
  <1>6. CASE Cancel
    BY <1>6 DEF Cancel, Agree
  <1>7. CASE CancelDone
    BY <1>7 DEF CancelDone, Agree
  <1>8. CASE Shutdown
    BY <1>8 DEF Shutdown, Agree
  <1>9. CASE Join
    <2>1. ~Agree
      BY <1>9 DEF Join, Agree
    <2>2. QED
      BY <1>9, <2>1 DEF Join, Agree
  <1>10. CASE Aggregate
    <2>1. \A i \in Attempts : future[i] = "finished" /\ outcome[i] \in EvidenceValues
      BY <1>10 DEF Aggregate
    <2>2. Agree <=> \A i \in Attempts : outcome[i] = outcome[Processes]
      BY <2>1 DEF Agree
    <2>3. QED
      BY <1>10, <2>1, <2>2 DEF Aggregate, Agree
  <1>11. CASE UNCHANGED vars
    BY <1>11 DEF vars, Agree
  <1>12. QED
    BY <1>1, <1>2, <1>3, <1>4, <1>5, <1>6, <1>7, <1>8, <1>9, <1>10, <1>11
    DEF Next, Caller, Pool

\* So the invariant always holds.
LEMMA Invariance == Spec => []Inv
<1>1. Spec => []TypeOK
  BY TypeCorrect
<1>2. QED
  BY <1>1, InvInit, InvNext, PTL DEF Spec

\* docs/specs/measurement-estimand-v1.md, "fail_job_on_any_unsuccessful_process_without_
\* imputation": a MEASURED job rests on every one of its fresh processes.
THEOREM Measured == Spec => []MeasuredMeansEveryProcess
<1>1. Inv => MeasuredMeansEveryProcess
  BY EvidenceAssumption DEF Inv, Settled, Decided, Agree, MeasuredMeansEveryProcess
<1>2. QED
  BY <1>1, Invariance, PTL

\* When run_job has returned, no process of the job runs or can still start.
THEOREM Quiet == Spec => []NothingRunsAfterReturn
<1>1. Inv => NothingRunsAfterReturn
  BY DEF Inv
<1>2. QED
  BY <1>1, Invariance, PTL

-----------------------------------------------------------------------------

\* Never do more processes measure at the same time than the job declares: only Start
\* adds to the running ones, and it wants a free thread.
THEOREM Bounded == Spec => []BoundedConcurrency
<1> USE ProcessesAssumption, WorkersAssumption
<1>1. ASSUME TypeOK PROVE In("running") \subseteq Attempts /\ IsFiniteSet(In("running"))
  <2>1. IsFiniteSet(Attempts)
    BY FS_Interval DEF Attempts
  <2>2. In("running") \subseteq Attempts
    BY DEF In
  <2>3. QED
    BY <2>1, <2>2, FS_Subset
<1>2. PoolSize \in Nat
  BY DEF PoolSize
<1>3. Init => BoundedConcurrency
  <2> SUFFICES ASSUME Init PROVE BoundedConcurrency
    OBVIOUS
  <2>1. In("running") = {}
    BY DEF Init, In
  <2>2. QED
    BY <2>1, <1>2, FS_EmptySet DEF BoundedConcurrency
<1>4. TypeOK /\ TypeOK' /\ BoundedConcurrency /\ [Next]_vars => BoundedConcurrency'
  <2> SUFFICES ASSUME TypeOK, TypeOK', BoundedConcurrency, [Next]_vars
               PROVE Cardinality(In("running")') <= PoolSize
    BY DEF BoundedConcurrency, PoolSize
  <2>1. ASSUME NEW i \in Attempts, Start(i) PROVE Cardinality(In("running")') <= PoolSize
    <3>1. In("running")' = In("running") \cup {i}
      BY <2>1 DEF Start, In, TypeOK
    <3>2. /\ IsFiniteSet(In("running") \cup {i})
          /\ Cardinality(In("running") \cup {i}) =
                IF i \in In("running") THEN Cardinality(In("running"))
                ELSE Cardinality(In("running")) + 1
      <4>1. IsFiniteSet(In("running"))
        BY <1>1
      <4>2. QED
        BY ONLY <4>1, FS_AddElement
    <3>3. Cardinality(In("running")) < PoolSize
      BY <2>1 DEF Start
    <3>4. Cardinality(In("running")) \in Nat
      BY <1>1, FS_CardinalityType
    <3>5. Cardinality(In("running")') = Cardinality(In("running") \cup {i})
      BY <3>1
    <3>6. \/ Cardinality(In("running")') = Cardinality(In("running"))
          \/ Cardinality(In("running")') = Cardinality(In("running")) + 1
      BY <3>2, <3>5
    <3>7. ASSUME NEW c \in Nat, NEW p \in Nat, NEW d, c < p, d = c \/ d = c + 1
          PROVE  d <= p
      BY <3>7
    <3>8. QED
      BY <3>3, <3>4, <3>6, <3>7, <1>2
  <2>2. ASSUME In("running")' \subseteq In("running")
        PROVE  Cardinality(In("running")') <= PoolSize
    <3>1. /\ Cardinality(In("running")') <= Cardinality(In("running"))
          /\ Cardinality(In("running")) \in Nat /\ Cardinality(In("running")') \in Nat
      BY <2>2, <1>1, FS_Subset, FS_CardinalityType
    <3>2. QED
      BY <3>1, <1>2 DEF BoundedConcurrency
  <2>3. ASSUME NEW i \in Attempts, Complete(i) PROVE In("running")' \subseteq In("running")
    BY <2>3 DEF Complete, In, TypeOK
  <2>4. CASE Cancel
    BY <2>2, <2>4 DEF Cancel, In, TypeOK
  <2>5. CASE Shutdown
    BY <2>2, <2>5 DEF Shutdown, In, TypeOK
  <2>6. ASSUME UNCHANGED future PROVE In("running")' \subseteq In("running")
    BY <2>6 DEF In
  <2>7. QED
    BY <2>1, <2>2, <2>3, <2>4, <2>5, <2>6
    DEF Next, Caller, Pool, ConsumeSuccess, ConsumeFailure, ConsumeException, CancelDone, Join,
        Aggregate, vars
<1>5. QED
  BY <1>3, <1>4, TypeCorrect, PTL DEF Spec

-----------------------------------------------------------------------------

\* run_job implements the contract of a job, step by step.
THEOREM Implements == Spec => FollowsContract
<1> DEFINE ended == [i \in Attempts |->
                       IF future[i] = "cancelled" THEN "skipped"
                       ELSE IF outcome[i] = "none" THEN "open"
                       ELSE IF outcome[i] = "raised" THEN "failed" ELSE outcome[i]]
           verdict == IF pc = "returned" THEN result ELSE "none"
<1>1. Init => Contract!Init
  BY DEF Init, Contract!Init
<1>2. Inv /\ Inv' /\ [Next]_vars => [Contract!Next]_(Contract!vars)
  <2> SUFFICES ASSUME Inv, Inv', [Next]_vars PROVE [Contract!Next]_(Contract!vars)
    OBVIOUS
  <2> USE ProcessesAssumption, EvidenceAssumption
      DEF Inv, TypeOK, Attempts, In, Settled, ConsumedFinished, Collecting, Failing, Swept,
          Decided, NothingRunsAfterReturn, Contract!vars
  <2>1. ASSUME NEW i \in Attempts, Start(i) PROVE UNCHANGED Contract!vars
    BY <2>1 DEF Start
  <2>2. ASSUME NEW i \in Attempts, Complete(i) PROVE Contract!End(i)
    <3>1. PICK o \in EvidenceValues \cup {"failed", "raised"} : outcome' = [outcome EXCEPT ![i] = o]
      BY <2>2 DEF Complete
    <3>2. ended[i] = "open" /\ pc # "returned" /\ UNCHANGED verdict
      BY <2>2 DEF Complete
    <3>3. ended' = [ended EXCEPT ![i] = IF o = "raised" THEN "failed" ELSE o]
      BY <2>2, <3>1 DEF Complete
    <3>4. QED
      BY <3>2, <3>3 DEF Contract!End
  <2>3. ASSUME NEW i \in Attempts, ConsumeSuccess(i) \/ ConsumeFailure(i) \/ ConsumeException(i)
        PROVE UNCHANGED Contract!vars
    BY <2>3 DEF ConsumeSuccess, ConsumeFailure, ConsumeException
  <2>4. CASE Cancel
    <3>1. CASE future[next] = "pending"
      <4>1. next \in Attempts /\ ended[next] = "open" /\ UNCHANGED verdict
        BY <2>4, <3>1 DEF Cancel
      <4>2. \E j \in Attempts : ended[j] = "failed"
        BY <2>4 DEF Cancel
      <4>3. ended' = [ended EXCEPT ![next] = "skipped"]
        BY <2>4, <3>1, <4>1 DEF Cancel
      <4>4. QED
        BY <4>1, <4>2, <4>3 DEF Contract!Next, Contract!Skip
    <3>2. CASE future[next] # "pending"
      BY <2>4, <3>2 DEF Cancel
    <3>3. QED
      BY <3>1, <3>2
  <2>5. CASE CancelDone
    BY <2>5 DEF CancelDone
  <2>6. CASE Shutdown
    <3>1. future' = future
      BY <2>6 DEF Shutdown
    <3>2. QED
      BY <2>6, <3>1 DEF Shutdown
  <2>7. CASE Join \/ Aggregate
    <3>1. verdict = "none" /\ UNCHANGED ended /\ verdict' = result' /\ pc' = "returned"
      BY <2>7 DEF Join, Aggregate
    <3>2. \A i \in Attempts : ended[i] # "open"
      <4>1. \A i \in Attempts : future[i] \in {"finished", "cancelled"}
        BY <2>7 DEF Join, Aggregate
      <4>2. QED
        BY <4>1
    <3>3. \A i \in Attempts, e \in EvidenceValues : ended[i] = e <=> outcome[i] = e
      <4>1. \A i \in Attempts : future[i] \in {"finished", "cancelled"}
        BY <2>7 DEF Join, Aggregate
      <4>2. QED
        BY <4>1
    <3>4. Contract!AllAgree <=> Agree
      BY <3>3 DEF Contract!AllAgree, Agree
    <3>5. outcome' = outcome /\ (Agree' <=> Agree)
      BY <2>7 DEF Join, Aggregate, Agree
    <3>6. result' = IF Agree THEN "MEASURED" ELSE "FAILED"
      BY <3>1, <3>5
    <3>7. QED
      BY <3>1, <3>2, <3>4, <3>6 DEF Contract!Next, Contract!Decide
  <2>8. CASE UNCHANGED vars
    BY <2>8 DEF vars
  <2>9. QED
    BY <2>1, <2>2, <2>3, <2>4, <2>5, <2>6, <2>7, <2>8
    DEF Next, Caller, Pool, Contract!Next
<1>3. QED
  BY <1>1, <1>2, Invariance, PTL DEF Spec, FollowsContract, Contract!Spec

=============================================================================
