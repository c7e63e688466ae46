------------------------ MODULE RunLifecycle_proofs -------------------------
(***************************************************************************)
(* Proofs about the documents of one run directory, for every set of       *)
(* formats, pairs and profiles and any number of profile runs.             *)
(***************************************************************************)
EXTENDS RunLifecycle, TLAPS

\* The manifests whose entries are those of one selection.
ManifestOf(selected) ==
    [state : ExecutionState, formats : [selected -> ExecutionState],
     proved : SUBSET selected, sizes : BOOLEAN, measurement : 0..MaxRuns,
     endpoints : SUBSET Pairs, by : [run : 0..MaxRuns, lane : Lanes \cup {"none"}]]

\* A manifest belongs to the selection of its own entries.
LEMMA Selection ==
    \A m : m \in Manifests <=> Entries(m) \in SUBSET Formats /\ m \in ManifestOf(Entries(m))
<1>1. ASSUME NEW m, m \in Manifests
      PROVE  Entries(m) \in SUBSET Formats /\ m \in ManifestOf(Entries(m))
  <2>1. PICK selected \in SUBSET Formats : m \in ManifestOf(selected)
    BY <1>1 DEF Manifests, ManifestOf
  <2>2. Entries(m) = selected
    BY <2>1 DEF ManifestOf, Entries
  <2>3. QED
    BY <2>1, <2>2
<1>2. ASSUME NEW m, Entries(m) \in SUBSET Formats, m \in ManifestOf(Entries(m))
      PROVE  m \in Manifests
  BY <1>2 DEF Manifests, ManifestOf
<1>3. QED
  BY <1>1, <1>2

\* Advancing entries changes the entries' states and nothing else.
LEMMA AdvanceEntries ==
    ASSUME NEW m \in Manifests, NEW from, NEW to \in ExecutionState, NEW n, n = Advance(m, from, to)
    PROVE  /\ n \in Manifests /\ Entries(n) = Entries(m)
           /\ \A f \in Entries(m) : n.formats[f] = IF f \in from THEN to ELSE m.formats[f]
           /\ n.state = m.state /\ n.proved = m.proved /\ n.sizes = m.sizes
           /\ n.measurement = m.measurement /\ n.endpoints = m.endpoints /\ n.by = m.by
<1>1. m \in ManifestOf(Entries(m)) /\ Entries(m) \in SUBSET Formats
  BY Selection
<1>2. /\ Entries(n) = Entries(m)
      /\ n.formats = [f \in Entries(m) |-> IF f \in from THEN to ELSE m.formats[f]]
  BY <1>1 DEF Advance, ManifestOf, Entries
<1>3. /\ n.state = m.state /\ n.proved = m.proved /\ n.sizes = m.sizes
      /\ n.measurement = m.measurement /\ n.endpoints = m.endpoints /\ n.by = m.by
  BY <1>1 DEF Advance, ManifestOf, Entries
<1>4. n.formats \in [Entries(m) -> ExecutionState]
  BY <1>1, <1>2 DEF ManifestOf
<1>5. n \in ManifestOf(Entries(n))
  BY <1>1, <1>2, <1>4 DEF Advance, ManifestOf
<1>6. QED
  BY <1>1, <1>2, <1>3, <1>5, Selection


\* What the commands record in a manifest besides the states of its entries.
WithState(m, st) == [m EXCEPT !.state = st]
WithRun(m, st, b) == [m EXCEPT !.state = st, !.by = b]
WithEstimand(m, k) == [m EXCEPT !.measurement = k]
WithEndpoints(m, k, pairs) == [m EXCEPT !.measurement = k, !.endpoints = pairs]
WithProof(m, f) == [m EXCEPT !.proved = @ \cup {f}]

SameEntries(n, m) == n.formats = m.formats /\ n.proved = m.proved /\ Entries(n) = Entries(m)

\* Recording a state, a profile run, its metadata or a proof leaves the entries alone.
LEMMA Recording ==
    ASSUME NEW m \in Manifests
    PROVE  /\ \A st \in ExecutionState :
                /\ WithState(m, st) \in Manifests /\ WithState(m, st).state = st
                /\ SameEntries(WithState(m, st), m)
           /\ \A st \in ExecutionState, b \in [run : 0..MaxRuns, lane : Lanes \cup {"none"}] :
                /\ WithRun(m, st, b) \in Manifests /\ WithRun(m, st, b).state = st
                /\ SameEntries(WithRun(m, st, b), m)
           /\ \A k \in 0..MaxRuns :
                WithEstimand(m, k) \in Manifests /\ SameEntries(WithEstimand(m, k), m)
           /\ \A k \in 0..MaxRuns, pairs \in SUBSET Pairs :
                /\ WithEndpoints(m, k, pairs) \in Manifests
                /\ SameEntries(WithEndpoints(m, k, pairs), m)
           /\ \A f \in Entries(m) :
                /\ WithProof(m, f) \in Manifests /\ WithProof(m, f).formats = m.formats
                /\ WithProof(m, f).proved = m.proved \cup {f}
                /\ Entries(WithProof(m, f)) = Entries(m)
<1>1. m \in ManifestOf(Entries(m)) /\ Entries(m) \in SUBSET Formats
  BY Selection
<1>2. \A n : n \in ManifestOf(Entries(m)) /\ n.formats = m.formats => n \in Manifests
  BY <1>1, Selection DEF Entries
<1>3. QED
  BY <1>1, <1>2
  DEF ManifestOf, SameEntries, Entries, WithState, WithRun, WithEstimand, WithEndpoints, WithProof

\* The documents a report persists are typed, and the manifest's entries have stepped.
LEMMA AsReported ==
    /\ \A m \in Manifests : \A n : n = AsReportedManifest(m) =>
          /\ n \in Manifests /\ Entries(n) = Entries(m) /\ n.proved = m.proved
          /\ n.state = StepReported(m.state)
          /\ \A f \in Entries(m) : n.formats[f] = StepReported(m.formats[f])
    /\ \A r \in ResultsDocuments : AsReportedResults(r) \in ResultsDocuments
<1>1. ASSUME NEW m \in Manifests, NEW n, n = AsReportedManifest(m)
      PROVE  /\ n \in Manifests /\ Entries(n) = Entries(m) /\ n.proved = m.proved
             /\ n.state = StepReported(m.state)
             /\ \A f \in Entries(m) : n.formats[f] = StepReported(m.formats[f])
  <2> DEFINE a == Advance(m, InState(m, {Benchmarked}), Reported)
  <2>1. Reported \in ExecutionState
    BY DEF ExecutionState
  <2>2. /\ a \in Manifests /\ Entries(a) = Entries(m) /\ a.proved = m.proved
        /\ a.state = m.state
        /\ \A f \in Entries(m) :
              a.formats[f] = IF f \in InState(m, {Benchmarked}) THEN Reported ELSE m.formats[f]
    BY <2>1, AdvanceEntries
  <2>3. n = WithState(a, StepReported(a.state)) /\ StepReported(a.state) \in ExecutionState
    <3>1. a.state \in ExecutionState
      BY <2>2, Selection DEF ManifestOf
    <3>2. QED
      BY <1>1, <2>1, <2>2, <3>1, Selection
      DEF AsReportedManifest, StepReported, ManifestOf, WithState
  <2>4. \A f \in Entries(m) : a.formats[f] = StepReported(m.formats[f])
    BY <2>2 DEF InState, StepReported
  <2> HIDE DEF a
  <2>5. n \in Manifests /\ n.state = StepReported(a.state) /\ SameEntries(n, a)
    BY <2>2, <2>3, Recording
  <2>6. QED
    BY <2>2, <2>4, <2>5 DEF SameEntries, Entries
<1>2. ASSUME NEW r \in ResultsDocuments PROVE AsReportedResults(r) \in ResultsDocuments
  BY <1>2 DEF ResultsDocuments, AsReportedResults, StepReported, ExecutionState,
              Benchmarked, Reported, Active, Failures
<1>3. QED
  BY <1>1, <1>2

\* What prepare_run starts from is typed.
LEMMA Fresh ==
    ASSUME NEW selected \in SUBSET Formats, NEW enough \in BOOLEAN
    PROVE  /\ NewManifest(selected, enough) \in Manifests
           /\ Entries(NewManifest(selected, enough)) = selected
<1> DEFINE m == NewManifest(selected, enough)
<1>1. Entries(m) = selected
  BY DEF NewManifest, Entries
<1>2. m \in ManifestOf(selected)
  <2>1. [f \in selected |-> Discovered] \in [selected -> ExecutionState]
    BY DEF ExecutionState, Active
  <2>2. Discovered \in ExecutionState
    BY DEF ExecutionState, Active
  <2>3. 0 \in 0..MaxRuns
    BY RunsAssumption
  <2>4. NoRun \in [run : 0..MaxRuns, lane : Lanes \cup {"none"}]
    BY <2>3 DEF NoRun
  <2>5. {} \in SUBSET selected /\ {} \in SUBSET Pairs
    OBVIOUS
  <2>6. QED
    BY <2>1, <2>2, <2>3, <2>4, <2>5 DEF NewManifest, ManifestOf
<1>3. QED
  BY <1>1, <1>2, Selection

-----------------------------------------------------------------------------

\* A command that is running holds a manifest, and the results it is to write.
WithManifest == {"encode", "verify", "fairJobs", "publish", "pairJobs", "pairResults",
                 "reportText", "reportManifest", "reportResults"} \cup Profiles
WithResults == {"pairResults", "reportText", "reportManifest", "reportResults"}
MemoryOK ==
    /\ pc \in WithManifest => man \in Manifests
    /\ pc \in WithResults => res \in ResultsDocuments

TypeInv == TypeOK /\ MemoryOK

\* The states, lanes and documents the actions name are typed.
LEMMA Names ==
    /\ {Discovered, Encoded, Verified, Benchmarked, Reported, Unsupported, Failed} = ExecutionState
    /\ Lanes = {"fair", "claims", "prompt", "robustness", "equivalence"}
    /\ Absent \notin Manifests /\ Absent \notin ResultsDocuments
    /\ \A m \in Manifests : m.state \in ExecutionState
    /\ \A r \in ResultsDocuments : r.state \in {Benchmarked, Reported, Failed}
    /\ \A st \in {Benchmarked, Failed}, lane \in Lanes, obs \in {"none"} \cup ExecutionState :
          runs \in 0..MaxRuns => Results(st, lane, obs) \in ResultsDocuments
    /\ \A lane \in Lanes : runs \in 0..MaxRuns
          => Run(lane) \in [run : 0..MaxRuns, lane : Lanes \cup {"none"}]
<1>1. {Discovered, Encoded, Verified, Benchmarked, Reported, Unsupported, Failed} = ExecutionState
      /\ Lanes = {"fair", "claims", "prompt", "robustness", "equivalence"}
  BY DEF ExecutionState, Active, Failures, Lanes, ResultsFirst
<1>2. \A m \in Manifests : m.state \in ExecutionState
  BY Selection DEF ManifestOf
<1>3. \A r \in ResultsDocuments : r.state \in {Benchmarked, Reported, Failed}
  BY DEF ResultsDocuments
<1>4. Absent.state = "ABSENT"
  BY DEF Absent
<1>5. Absent \notin Manifests /\ Absent \notin ResultsDocuments
  BY <1>1, <1>2, <1>3, <1>4
  DEF Discovered, Encoded, Verified, Benchmarked, Reported, Unsupported, Failed
<1>6. \A st \in {Benchmarked, Failed}, lane \in Lanes, obs \in {"none"} \cup ExecutionState :
          runs \in 0..MaxRuns => Results(st, lane, obs) \in ResultsDocuments
  BY DEF Results, Run, ResultsDocuments
<1>7. \A lane \in Lanes : runs \in 0..MaxRuns
          => Run(lane) \in [run : 0..MaxRuns, lane : Lanes \cup {"none"}]
  BY DEF Run
<1>8. QED
  BY <1>1, <1>2, <1>3, <1>5, <1>6, <1>7


\* The empty directory satisfies the type invariant.
LEMMA TypeInit == Init => TypeInv
<1> SUFFICES ASSUME Init PROVE TypeInv
  OBVIOUS
<1>1. pc \notin WithManifest /\ pc \notin WithResults
  BY ProfilesAssumption DEF Init, WithManifest, WithResults
<1>2. artifact \in [Formats -> {"absent", "encoded", "altered"}]
      /\ spoiled \in [Formats -> {"no"} \cup ExecutionState]
  BY DEF Init
<1>3. Absent \in Reports /\ Absent \in Archives
  BY DEF Reports, Archives
<1>4. runs \in 0..MaxRuns
  BY RunsAssumption DEF Init
<1>5. QED
  BY <1>1, <1>2, <1>3, <1>4 DEF Init, TypeInv, TypeOK, MemoryOK

\* prepare_run and verify_run keep the types.
LEMMA TypePrepareVerify == TypeInv /\ (Prepare \/ Verify) => TypeInv'
<1> SUFFICES ASSUME TypeInv, Prepare \/ Verify PROVE TypeInv'
  OBVIOUS
<1> USE Names, ProfilesAssumption DEF TypeInv, TypeOK, MemoryOK, WithManifest, WithResults
<1>1. CASE PrepareMkdir
  <2>1. PICK selected \in SUBSET Formats, enough \in BOOLEAN : man' = NewManifest(selected, enough)
    BY <1>1 DEF PrepareMkdir
  <2>2. man' \in Manifests
    BY <2>1, Fresh
  <2>3. QED
    BY <1>1, <2>2 DEF PrepareMkdir, documents, release
<1>2. ASSUME NEW f \in Formats, EncodeFormat(f) PROVE TypeInv'
  <2>1. PICK st \in {Encoded} \cup Failures :
          /\ man' = Advance(man, {f}, st)
          /\ artifact' = [artifact EXCEPT ![f] = IF st = Encoded THEN "encoded" ELSE "absent"]
    BY <1>2 DEF EncodeFormat
  <2>2. man \in Manifests /\ st \in ExecutionState
    BY <1>2 DEF EncodeFormat, Failures
  <2>3. man' \in Manifests
    BY <2>1, <2>2, AdvanceEntries
  <2>4. QED
    BY <1>2, <2>1, <2>3 DEF EncodeFormat, documents, release
<1>3. CASE PrepareWrite
  <2>1. manifest' = WithState(man, Encoded) /\ man \in Manifests
    BY <1>3 DEF PrepareWrite, WithState
  <2>2. manifest' \in Manifests
    BY <2>1, Recording
  <2>3. QED
    BY <1>3, <2>2 DEF PrepareWrite, Finish, files, release
<1>4. CASE VerifyLoad
  BY <1>4 DEF VerifyLoad, files, documents, release
<1>5. CASE VerifyNothing
  <2>1. manifest' = WithState(manifest, Failed) /\ manifest \in Manifests
    BY <1>5 DEF VerifyNothing, WithState
  <2>2. manifest' \in Manifests
    BY <2>1, Recording
  <2>3. QED
    BY <1>5, <2>2 DEF VerifyNothing, files, release, memory
<1>6. ASSUME NEW f \in Formats, VerifyEntry(f) PROVE TypeInv'
  <2>1. man \in Manifests /\ f \in Entries(man)
    BY <1>6 DEF VerifyEntry, InState
  <2>2. \A st \in ExecutionState : Advance(man, {f}, st) \in Manifests
                                   /\ Entries(Advance(man, {f}, st)) = Entries(man)
    BY <2>1, AdvanceEntries
  <2>3. man' = WithProof(Advance(man, {f}, Verified), f) \/ man' = Advance(man, {f}, Failed)
    BY <1>6 DEF VerifyEntry, VerifyPasses, WithProof
  <2>4. man' \in Manifests
    <3>1. /\ Advance(man, {f}, Verified) \in Manifests /\ Advance(man, {f}, Failed) \in Manifests
          /\ f \in Entries(Advance(man, {f}, Verified))
      BY <2>1, <2>2
    <3>2. WithProof(Advance(man, {f}, Verified), f) \in Manifests
      BY <3>1, Recording
    <3>3. QED
      BY <2>3, <3>1, <3>2
  <2>5. QED
    BY <1>6, <2>4 DEF VerifyEntry, files, documents, release
<1>7. CASE VerifyWrite
  <2>1. man \in Manifests /\ VerifiedRunState(man) \in ExecutionState
    BY <1>7 DEF VerifyWrite, VerifiedRunState
  <2>2. manifest' = WithState(man, VerifiedRunState(man))
    BY <1>7 DEF VerifyWrite, WithState
  <2>3. manifest' \in Manifests
    BY <2>1, <2>2, Recording
  <2>4. QED
    BY <1>7, <2>3 DEF VerifyWrite, Finish, files, release
<1>8. QED
  BY <1>1, <1>2, <1>3, <1>4, <1>5, <1>6, <1>7 DEF Prepare, Verify


\* What a measured run publishes is typed, and moves Verified entries only.
LEMMA Measured ==
    ASSUME NEW m \in Manifests, NEW good, NEW bad, NEW st \in {Benchmarked, Failed},
           NEW lane \in Lanes, runs \in 0..MaxRuns,
           NEW n, n = WithRun(Advance(Advance(m, good, Benchmarked), bad, Failed), st, Run(lane))
    PROVE  /\ n \in Manifests /\ n.proved = m.proved /\ Entries(n) = Entries(m)
           /\ \A f \in Entries(m) :
                n.formats[f] = IF f \in bad THEN Failed
                               ELSE IF f \in good THEN Benchmarked ELSE m.formats[f]
<1> DEFINE a == Advance(m, good, Benchmarked)
           b == Advance(a, bad, Failed)
<1>1. /\ a \in Manifests /\ Entries(a) = Entries(m) /\ a.proved = m.proved
      /\ \A f \in Entries(m) : a.formats[f] = IF f \in good THEN Benchmarked ELSE m.formats[f]
  BY Names, AdvanceEntries
<1>2. /\ b \in Manifests /\ Entries(b) = Entries(a) /\ b.proved = a.proved
      /\ \A f \in Entries(a) : b.formats[f] = IF f \in bad THEN Failed ELSE a.formats[f]
  <2> HIDE DEF a
  <2>1. QED
    BY <1>1, Names, AdvanceEntries
<1>3. n = WithRun(b, st, Run(lane))
  OBVIOUS
<1> HIDE DEF a, b
<1>4. n \in Manifests /\ SameEntries(n, b)
  <2>1. st \in ExecutionState /\ Run(lane) \in [run : 0..MaxRuns, lane : Lanes \cup {"none"}]
    BY Names
  <2>2. QED
    BY <1>2, <1>3, <2>1, Recording
<1>5. QED
  BY <1>1, <1>2, <1>4 DEF SameEntries

\* The profile runs keep the types.
LEMMA TypeProfiles ==
    TypeInv /\ (Fair \/ Profile \/ PublishManifest \/ Equivalence) => TypeInv'
<1> SUFFICES ASSUME TypeInv, Fair \/ Profile \/ PublishManifest \/ Equivalence PROVE TypeInv'
  OBVIOUS
<1> USE Names, ProfilesAssumption, RunsAssumption
    DEF TypeInv, TypeOK, MemoryOK, WithManifest, WithResults
<1>1. CASE FairStart
  <2>1. manifest \in Manifests /\ runs + 1 \in 0..MaxRuns
    BY <1>1 DEF FairStart, CanRunProfile
  <2>2. manifest' = WithEstimand(manifest, runs + 1)
    BY <1>1 DEF FairStart, WithEstimand
  <2>3. manifest' \in Manifests
    BY <2>1, <2>2, Recording
  <2>4. QED
    BY <1>1, <2>1, <2>3 DEF FairStart, files, release
<1>2. CASE FairResults
  <2>1. PICK bad \in SUBSET (InState(man, {Verified}) \cap FairFormats),
             st \in {Benchmarked, Failed} :
          /\ results' = Results(st, "fair", "none")
          /\ man' = WithRun(Advance(Advance(man, (InState(man, {Verified}) \cap FairFormats) \ bad,
                                            Benchmarked), bad, Failed), st, Run("fair"))
    BY <1>2 DEF FairResults, WithRun
  <2>2. man \in Manifests
    BY <1>2 DEF FairResults
  <2>3. man' \in Manifests
    BY <2>1, <2>2, Measured
  <2>4. results' \in ResultsDocuments
    BY <2>1
  <2>5. QED
    BY <1>2, <2>3, <2>4 DEF FairResults, files, release
<1>3. ASSUME NEW lane \in Profiles, ProfileStart(lane) PROVE TypeInv'
  BY <1>3 DEF ProfileStart, CanRunProfile, documents, release
<1>4. ASSUME NEW lane \in Profiles, ProfileResults(lane) PROVE TypeInv'
  <2>1. man \in Manifests /\ lane \in Lanes
    BY <1>4 DEF ProfileResults
  <2>2. man' = WithRun(man, Benchmarked, Run(lane))
    BY <1>4 DEF ProfileResults, WithRun
  <2>3. man' \in Manifests
    BY <2>1, <2>2, Recording
  <2>4. results' \in ResultsDocuments
    BY <1>4, <2>1 DEF ProfileResults, Observations, Failures
  <2>5. QED
    BY <1>4, <2>3, <2>4 DEF ProfileResults, files, release
<1>5. CASE PublishManifest
  BY <1>5 DEF PublishManifest, Finish, files, release
<1>6. CASE EquivalenceStart
  <2>1. manifest \in Manifests /\ runs + 1 \in 0..MaxRuns
    BY <1>6 DEF EquivalenceStart, CanRunProfile
  <2>2. PICK pairs \in SUBSET Pairs : manifest' = WithEndpoints(manifest, runs + 1, pairs)
    BY <1>6 DEF EquivalenceStart, WithEndpoints
  <2>3. manifest' \in Manifests
    BY <2>1, <2>2, Recording
  <2>4. QED
    BY <1>6, <2>1, <2>3 DEF EquivalenceStart, files, release
<1>7. CASE EquivalenceManifest
  <2> DEFINE measured == UNION Complete(man, man.endpoints)
  <2>1. PICK bad \in SUBSET measured, st \in {Benchmarked, Failed} :
          /\ res' = Results(st, "equivalence", "none")
          /\ manifest' = WithRun(Advance(Advance(man, measured \ bad, Benchmarked), bad, Failed),
                                 st, Run("equivalence"))
    BY <1>7 DEF EquivalenceManifest, WithRun
  <2> HIDE DEF measured
  <2>2. man \in Manifests
    BY <1>7 DEF EquivalenceManifest
  <2>3. manifest' \in Manifests
    BY <2>1, <2>2, Measured
  <2>4. res' \in ResultsDocuments
    BY <2>1
  <2>5. QED
    BY <1>7, <2>3, <2>4 DEF EquivalenceManifest, files, release
<1>8. CASE EquivalenceResults
  BY <1>8 DEF EquivalenceResults, Finish, files, release
<1>9. QED
  BY <1>1, <1>2, <1>3, <1>4, <1>5, <1>6, <1>7, <1>8 DEF Fair, Profile, Equivalence

\* Rendering, packaging, a crash and a disturbance keep the types.
LEMMA TypeRelease ==
    TypeInv /\ (Render \/ Package \/ Abort \/ \E f \in Formats : Disturb(f)) => TypeInv'
<1> SUFFICES ASSUME TypeInv, Render \/ Package \/ Abort \/ \E f \in Formats : Disturb(f)
             PROVE  TypeInv'
  OBVIOUS
<1> USE Names, ProfilesAssumption DEF TypeInv, TypeOK, MemoryOK, WithManifest, WithResults
<1>1. CASE ReportOpen
  <2>1. manifest \in Manifests /\ results \in ResultsDocuments
    BY <1>1 DEF ReportOpen, Reportable, Absent, Benchmarked, Reported
  <2>2. man' \in Manifests /\ res' \in ResultsDocuments
    BY <1>1, <2>1, AsReported DEF ReportOpen
  <2>3. report' \in Reports
    BY <1>1 DEF ReportOpen, Reports
  <2>4. QED
    BY <1>1, <2>2, <2>3 DEF ReportOpen, files, release
<1>2. CASE ReportText
  <2>1. man \in Manifests /\ res \in ResultsDocuments
    BY <1>2 DEF ReportText
  <2>2. report' \in Reports
    BY <1>2, <2>1 DEF ReportText, Reports
  <2>3. QED
    BY <1>2, <2>1, <2>2 DEF ReportText, files, release
<1>3. CASE ReportManifest
  BY <1>3 DEF ReportManifest, files, release
<1>4. CASE ReportResults
  BY <1>4 DEF ReportResults, Finish, files, release
<1>5. CASE PackageArchive
  <2>1. manifest \in Manifests /\ results \in ResultsDocuments
    BY <1>5 DEF PackageArchive, Packageable, Absent, Reported
  <2>2. archive' \in Archives
    BY <1>5, <2>1 DEF PackageArchive, Archives
  <2>3. checksum' \in BOOLEAN
    BY <1>5 DEF PackageArchive
  <2>4. QED
    BY <1>5, <2>2, <2>3 DEF PackageArchive, files, documents
<1>6. CASE PackageChecksum
  BY <1>6 DEF PackageChecksum, Finish, files, documents
<1>7. CASE Abort
  BY <1>7 DEF Abort, Finish, files, documents, release
<1>8. ASSUME NEW f \in Formats, Disturb(f) PROVE TypeInv'
  <2>1. DurableState(f) \in ExecutionState
    <3>1. CASE manifest # Absent /\ f \in Entries(manifest)
      <4>1. manifest \in ManifestOf(Entries(manifest))
        BY <3>1, Selection
      <4>2. QED
        BY <3>1, <4>1 DEF DurableState, ManifestOf
    <3>2. CASE ~(manifest # Absent /\ f \in Entries(manifest))
      BY <3>2 DEF DurableState
    <3>3. QED
      BY <3>1, <3>2
  <2>2. spoiled' \in [Formats -> {"no"} \cup ExecutionState]
    BY <1>8, <2>1 DEF Disturb
  <2>3. QED
    BY <1>8, <2>2 DEF Disturb, documents, release, memory
<1>9. QED
  BY <1>1, <1>2, <1>3, <1>4, <1>5, <1>6, <1>7, <1>8 DEF Render, Package

\* The type invariant holds, with what a running command holds in memory.
LEMMA TypeInvariance == Spec => []TypeInv
<1>1. TypeInv /\ [Next]_vars => TypeInv'
  <2>1. TypeInv /\ UNCHANGED vars => TypeInv'
    BY DEF vars, files, documents, release, memory, TypeInv, TypeOK, MemoryOK
  <2>2. QED
    BY <2>1, TypePrepareVerify, TypeProfiles, TypeRelease DEF Next
<1>2. QED
  BY <1>1, TypeInit, PTL DEF Spec

\* Every document is absent or complete, whatever crashes.
THEOREM TypeCorrect == Spec => []TypeOK
<1>1. TypeInv => TypeOK
  BY DEF TypeInv
<1>2. QED
  BY <1>1, TypeInvariance, PTL


-----------------------------------------------------------------------------
(***************************************************************************)
(* The inductive invariant.  A ranked entry has been proved; a proved      *)
(* entry is past ENCODED and was not altered while it was ENCODED.  What a *)
(* command holds in memory follows from the manifest on disk by one legal  *)
(* transition per entry, so that a crash and the write are both safe; and  *)
(* a rendered or archived manifest proves no more than the one on disk.    *)
(***************************************************************************)
Sound(m) ==
    /\ InState(m, Ranked) \subseteq m.proved
    /\ \A f \in m.proved : m.formats[f] \notin {Discovered, Encoded} /\ spoiled[f] # Encoded

Follows(n, m) ==
    /\ Entries(n) = Entries(m) /\ m.proved \subseteq n.proved
    /\ \A f \in Entries(m) : \/ n.formats[f] = m.formats[f]
                             \/ LegalTransition(m.formats[f], n.formats[f])

ShownBy(m) == m \in Manifests /\ InState(m, Ranked) \subseteq m.proved
              /\ manifest # Absent /\ m.proved \subseteq manifest.proved

DocumentsSound ==
    /\ manifest # Absent => Sound(manifest)
    /\ report.state = Reported => ShownBy(report.of[1])
    /\ archive # Absent => ShownBy(archive.of[1])

Encoding ==
    pc = "encode" =>
        /\ runDir /\ manifest = Absent /\ man.proved = {}
        /\ \A f \in Entries(man) : man.formats[f] \in {Discovered, Encoded} \cup Failures
        /\ \A f \in Formats : spoiled[f] = "no"

\* The commands before they have touched an entry in memory.
Untouched == {"fairJobs", "pairJobs"} \cup Profiles

MemoryFollows ==
    pc \in WithManifest \ {"encode"} =>
        /\ manifest # Absent /\ Sound(man) /\ Follows(man, manifest)
        /\ pc \in Untouched => man.formats = manifest.formats
        /\ pc = "verify" => \A f \in Entries(man) : man.formats[f] = Encoded
                                                      => manifest.formats[f] = Encoded
        /\ pc = "reportText" => man.proved = manifest.proved

Artifacts ==
    /\ \A f \in Formats : artifact[f] = "encoded" => spoiled[f] = "no"
    /\ ~runDir => /\ manifest = Absent
                  /\ \A f \in Formats : artifact[f] = "absent" /\ spoiled[f] = "no"

SafeInv == DocumentsSound /\ Encoding /\ MemoryFollows /\ Artifacts

\* A write that follows the manifest on disk moves each entry by a legal transition.
Legal == \A f \in Formats : \/ DurableState(f)' = DurableState(f)
                            \/ LegalTransition(DurableState(f), DurableState(f)')


\* The states are different strings, none of them the mark of an untouched format.
LEMMA Distinct ==
    /\ Discovered # Encoded /\ Discovered \notin Ranked /\ Encoded \notin Ranked
    /\ Failures \cap (Ranked \cup {Discovered, Encoded}) = {}
    /\ Verified \notin {Benchmarked, Reported} /\ Benchmarked # Reported
    /\ "no" # Encoded
  BY DEF Discovered, Encoded, Verified, Benchmarked, Reported, Unsupported, Failed,
         Failures, Ranked

\* The legal transitions the commands make.
LEMMA LegalMoves ==
    /\ \A st \in {Encoded} \cup Failures : LegalTransition(Discovered, st)
    /\ LegalTransition(Encoded, Verified) /\ LegalTransition(Encoded, Failed)
    /\ LegalTransition(Verified, Benchmarked) /\ LegalTransition(Verified, Failed)
    /\ LegalTransition(Benchmarked, Reported)
  BY DEF LegalTransition, Forward, Active, Failures

\* An entry's durable state is the one in the manifest.
LEMMA FollowingIsLegal ==
    ASSUME manifest # Absent, manifest' # Absent, Follows(manifest', manifest) PROVE Legal
  BY DEF Legal, Follows, DurableState

\* The empty directory satisfies the invariant.
LEMMA SafeInit == Init => SafeInv
  BY ProfilesAssumption
  DEF Init, SafeInv, DocumentsSound, Encoding, MemoryFollows, Artifacts, WithManifest,
      Absent, Reported

\* prepare_run keeps it, and its one write moves the entries legally.
LEMMA SafePrepare == TypeInv /\ TypeInv' /\ SafeInv /\ Prepare => SafeInv' /\ Legal
<1> SUFFICES ASSUME TypeInv, TypeInv', SafeInv, Prepare PROVE SafeInv' /\ Legal
  OBVIOUS
<1> USE ProfilesAssumption, Distinct
    DEF SafeInv, DocumentsSound, Encoding, MemoryFollows, Artifacts, WithManifest, Untouched
<1>1. CASE PrepareMkdir
  <2>1. PICK selected \in SUBSET Formats, enough \in BOOLEAN : man' = NewManifest(selected, enough)
    BY <1>1 DEF PrepareMkdir
  <2>2. man'.proved = {} /\ \A f \in Entries(man') : man'.formats[f] = Discovered
    BY <2>1 DEF NewManifest, Entries
  <2>3. pc' = "encode" /\ manifest = Absent /\ UNCHANGED <<manifest, report, archive, artifact, spoiled>>
    BY <1>1 DEF PrepareMkdir, documents, release
  <2>4. runDir' = TRUE /\ UNCHANGED manifest
    BY <1>1 DEF PrepareMkdir, documents
  <2>5. DocumentsSound'
    BY <2>3 DEF ShownBy
  <2>6. Encoding' /\ MemoryFollows' /\ Artifacts'
    BY <1>1, <2>2, <2>3, <2>4 DEF PrepareMkdir
  <2>7. Legal
    BY <2>3 DEF Legal, DurableState
  <2>8. QED
    BY <2>5, <2>6, <2>7
<1>2. ASSUME NEW f \in Formats, EncodeFormat(f) PROVE SafeInv' /\ Legal
  <2>1. PICK st \in {Encoded} \cup Failures :
          /\ man' = Advance(man, {f}, st)
          /\ artifact' = [artifact EXCEPT ![f] = IF st = Encoded THEN "encoded" ELSE "absent"]
    BY <1>2 DEF EncodeFormat
  <2>2. pc = "encode" /\ man \in Manifests /\ UNCHANGED <<pc, manifest, report, archive, spoiled, runDir>>
    BY <1>2 DEF EncodeFormat, documents, release, TypeInv, MemoryOK
  <2>3. /\ Entries(man') = Entries(man) /\ man'.proved = man.proved
        /\ \A g \in Entries(man) : man'.formats[g] = IF g \in {f} THEN st ELSE man.formats[g]
    BY <2>1, <2>2, AdvanceEntries, Names DEF Failures
  <2>4. Encoding'
    BY <2>2, <2>3
  <2>5. Artifacts'
    BY <2>1, <2>2
  <2>6. DocumentsSound' /\ MemoryFollows'
    BY <2>2 DEF ShownBy, Sound
  <2>7. Legal
    BY <2>2 DEF Legal, DurableState
  <2>8. QED
    BY <2>4, <2>5, <2>6, <2>7
<1>3. CASE PrepareWrite
  <2>1. pc = "encode" /\ manifest = Absent /\ man \in Manifests /\ man.proved = {} /\ pc' = "idle"
        /\ InState(man, {Discovered}) = {} /\ UNCHANGED <<report, archive, artifact, spoiled, runDir>>
    BY <1>3 DEF PrepareWrite, Finish, files, release, TypeInv, MemoryOK
  <2>2. manifest' \in Manifests /\ SameEntries(manifest', man)
    BY <1>3, <2>1, Recording, Names DEF PrepareWrite, WithState
  <2>3. \A f \in Entries(man) : manifest'.formats[f] \in {Encoded} \cup Failures
    BY <2>1, <2>2 DEF SameEntries, InState
  <2>4. manifest' # Absent /\ Sound(manifest)'
    BY <2>1, <2>2, <2>3, Names DEF Sound, SameEntries, InState
  <2>5. DocumentsSound'
    BY <2>1, <2>4 DEF ShownBy
  <2>6. Encoding' /\ MemoryFollows' /\ Artifacts'
    BY <1>3, <2>1 DEF Sound
  <2>7. Legal
    BY <2>1, <2>2, <2>3, LegalMoves DEF Legal, DurableState, SameEntries
  <2>8. QED
    BY <2>5, <2>6, <2>7
<1>4. QED
  BY <1>1, <1>2, <1>3 DEF Prepare


\* A write of a sound manifest that follows the one on disk is safe and legal.
LEMMA WriteSafe ==
    ASSUME DocumentsSound, manifest # Absent, manifest' # Absent, Follows(manifest', manifest),
           Sound(manifest)', UNCHANGED <<report, archive>>
    PROVE  DocumentsSound' /\ Legal
  BY FollowingIsLegal DEF DocumentsSound, ShownBy, Follows

\* A step that writes no document and alters no artifact leaves the documents sound.
LEMMA StillSafe ==
    ASSUME DocumentsSound, UNCHANGED <<manifest, report, archive, spoiled>>
    PROVE  DocumentsSound' /\ Legal /\ \A m : Sound(m) => Sound(m)'
  BY DEF DocumentsSound, ShownBy, Sound, Legal, DurableState

\* verify_run keeps the invariant: it proves only what has never been altered.
LEMMA SafeVerify == TypeInv /\ TypeInv' /\ SafeInv /\ Verify => SafeInv' /\ Legal
<1> SUFFICES ASSUME TypeInv, TypeInv', SafeInv, Verify PROVE SafeInv' /\ Legal
  OBVIOUS
<1> USE ProfilesAssumption, Distinct
    DEF SafeInv, Encoding, MemoryFollows, Artifacts, WithManifest, Untouched
<1>1. CASE VerifyLoad
  <2>1. UNCHANGED <<manifest, report, archive, artifact, spoiled, runDir>> /\ man' = manifest
        /\ pc' = "verify" /\ manifest # Absent
    BY <1>1 DEF VerifyLoad, files, documents, release
  <2>2. DocumentsSound' /\ Legal /\ Sound(man)'
    BY <2>1, StillSafe DEF DocumentsSound
  <2>3. Follows(man, manifest)'
    BY <2>1 DEF Follows
  <2>4. QED
    BY <2>1, <2>2, <2>3
<1>2. CASE VerifyNothing
  <2>1. /\ manifest' = WithState(manifest, Failed) /\ manifest \in Manifests /\ pc' = pc /\ pc = "idle"
        /\ UNCHANGED <<report, archive, artifact, spoiled, runDir>>
    BY <1>2 DEF VerifyNothing, WithState, files, release, memory, TypeInv, TypeOK
  <2>2. manifest' \in Manifests /\ SameEntries(manifest', manifest)
    BY <2>1, Recording, Names
  <2>3. manifest' # Absent /\ manifest # Absent /\ Follows(manifest', manifest)
    BY <2>1, <2>2, Names DEF SameEntries, Follows
  <2>4. Sound(manifest)'
    BY <2>1, <2>2, <2>3 DEF DocumentsSound, Sound, SameEntries, InState
  <2>5. DocumentsSound' /\ Legal
    BY <2>1, <2>3, <2>4, WriteSafe
  <2>6. QED
    BY <2>1, <2>3, <2>5
<1>3. ASSUME NEW f \in Formats, VerifyEntry(f) PROVE SafeInv' /\ Legal
  <2>1. /\ pc = "verify" /\ man \in Manifests /\ f \in Entries(man) /\ man.formats[f] = Encoded
        /\ UNCHANGED <<manifest, report, archive, artifact, spoiled, runDir, pc>>
    BY <1>3 DEF VerifyEntry, InState, files, documents, release, TypeInv, MemoryOK
  <2>2. manifest.formats[f] = Encoded /\ f \notin man.proved /\ Sound(man) /\ Follows(man, manifest)
    BY <2>1 DEF Sound
  <2>3. \/ artifact[f] = "encoded" /\ man' = WithProof(Advance(man, {f}, Verified), f)
        \/ man' = Advance(man, {f}, Failed)
    BY <1>3 DEF VerifyEntry, VerifyPasses, WithProof
  <2>4. PICK st \in {Verified, Failed} :
          /\ Entries(man') = Entries(man)
          /\ \A g \in Entries(man) : man'.formats[g] = IF g \in {f} THEN st ELSE man.formats[g]
          /\ IF st = Verified THEN man'.proved = man.proved \cup {f} /\ spoiled[f] = "no"
             ELSE man'.proved = man.proved
    <3>1. CASE man' = Advance(man, {f}, Failed)
      <4>1. Failed # Verified
        BY DEF Failed, Verified
      <4>2. QED
        BY <2>1, <3>1, <4>1, AdvanceEntries, Names
    <3>2. CASE artifact[f] = "encoded" /\ man' = WithProof(Advance(man, {f}, Verified), f)
      <4> DEFINE a == Advance(man, {f}, Verified)
      <4>1. /\ a \in Manifests /\ Entries(a) = Entries(man) /\ a.proved = man.proved
            /\ \A g \in Entries(man) : a.formats[g] = IF g \in {f} THEN Verified ELSE man.formats[g]
        BY <2>1, AdvanceEntries, Names
      <4>2. spoiled[f] = "no"
        BY <3>2
      <4> HIDE DEF a
      <4>3. /\ WithProof(a, f).formats = a.formats /\ WithProof(a, f).proved = a.proved \cup {f}
            /\ Entries(WithProof(a, f)) = Entries(a)
        BY <2>1, <4>1, Recording
      <4>4. man' = WithProof(a, f)
        BY <3>2 DEF a
      <4>5. QED
        BY <4>1, <4>2, <4>3, <4>4
    <3>3. QED
      BY <2>3, <3>1, <3>2
  <2>5. Sound(man)' /\ Follows(man, manifest)'
    <3>1. InState(man, Ranked)' \subseteq man'.proved
      BY <2>1, <2>2, <2>4 DEF Sound, InState, Failures
    <3>2. \A g \in man'.proved : man'.formats[g] \notin {Discovered, Encoded} /\ spoiled'[g] # Encoded
      <4>1. man.proved \subseteq Entries(man)
        BY <2>1, Selection DEF ManifestOf
      <4>2. Verified \notin {Discovered, Encoded} /\ Failed \notin {Discovered, Encoded}
        BY DEF Verified, Failed, Discovered, Encoded
      <4>3. QED
        BY <2>1, <2>2, <2>4, <4>1, <4>2 DEF Sound
    <3>3. Follows(man, manifest)'
      BY <2>1, <2>2, <2>4, LegalMoves DEF Follows
    <3>4. QED
      BY <3>1, <3>2, <3>3 DEF Sound
  <2>6. DocumentsSound' /\ Legal
    BY <2>1, StillSafe
  <2>7. QED
    BY <2>1, <2>4, <2>5, <2>6
<1>4. CASE VerifyWrite
  <2>1. pc = "verify" /\ pc' = "idle" /\ man \in Manifests
        /\ manifest' = WithState(man, VerifiedRunState(man))
        /\ UNCHANGED <<report, archive, artifact, spoiled, runDir>>
    BY <1>4 DEF VerifyWrite, WithState, Finish, files, release, TypeInv, MemoryOK
  <2>2. VerifiedRunState(man) \in ExecutionState
    BY <2>1, Names DEF VerifiedRunState
  <2>3. manifest' \in Manifests /\ SameEntries(manifest', man)
    BY <2>1, <2>2, Recording
  <2>4. manifest # Absent /\ manifest' # Absent /\ Follows(manifest', manifest)
    BY <2>1, <2>3, Names DEF SameEntries, Follows
  <2>5. Sound(manifest)'
    BY <2>1, <2>3 DEF Sound, SameEntries, InState
  <2>6. DocumentsSound' /\ Legal
    BY <2>1, <2>4, <2>5, WriteSafe
  <2>7. QED
    BY <2>1, <2>4, <2>6
<1>5. QED
  BY <1>1, <1>2, <1>3, <1>4 DEF Verify


\* Benchmarking verified entries, or failing them, is sound and follows.
LEMMA MeasuredSound ==
    ASSUME TypeInv, NEW m \in Manifests, Sound(m), NEW good, NEW bad,
           good \cup bad \subseteq InState(m, {Verified}),
           NEW st \in {Benchmarked, Failed}, NEW lane \in Lanes,
           NEW n, n = WithRun(Advance(Advance(m, good, Benchmarked), bad, Failed), st, Run(lane))
    PROVE  n \in Manifests /\ Sound(n) /\ Follows(n, m)
<1>1. runs \in 0..MaxRuns
  BY DEF TypeInv, TypeOK
<1>2. /\ n \in Manifests /\ n.proved = m.proved /\ Entries(n) = Entries(m)
      /\ \A f \in Entries(m) :
            n.formats[f] = IF f \in bad THEN Failed
                           ELSE IF f \in good THEN Benchmarked ELSE m.formats[f]
  BY <1>1, Measured
<1>3. m.proved \subseteq Entries(m)
  BY Selection DEF ManifestOf
<1>4. \A f \in good \cup bad : m.formats[f] = Verified /\ f \in m.proved
  BY DEF InState, Sound, Ranked
<1>5. Failed \notin Ranked /\ {Failed, Benchmarked} \cap {Discovered, Encoded} = {}
  BY DEF Failed, Ranked, Verified, Benchmarked, Reported, Discovered, Encoded
<1>6. InState(n, Ranked) \subseteq n.proved
  BY <1>2, <1>4, <1>5 DEF Sound, InState
<1>7. \A f \in n.proved : n.formats[f] \notin {Discovered, Encoded} /\ spoiled[f] # Encoded
  BY <1>2, <1>3, <1>5 DEF Sound
<1>8. Follows(n, m)
  BY <1>2, <1>4, LegalMoves DEF Follows
<1>9. QED
  BY <1>2, <1>6, <1>7, <1>8 DEF Sound

\* The profile runs keep the invariant: only verified entries are measured.
LEMMA SafeProfiles ==
    TypeInv /\ TypeInv' /\ SafeInv /\ (Fair \/ Profile \/ PublishManifest \/ Equivalence)
        => SafeInv' /\ Legal
<1> SUFFICES ASSUME TypeInv, TypeInv', SafeInv, Fair \/ Profile \/ PublishManifest \/ Equivalence
             PROVE  SafeInv' /\ Legal
  OBVIOUS
<1> USE ProfilesAssumption
    DEF SafeInv, Encoding, MemoryFollows, Artifacts, WithManifest, Untouched
<1>1. CASE FairStart \/ EquivalenceStart
  <2>1. /\ pc' \in {"fairJobs", "pairJobs"} /\ manifest \in Manifests /\ man' = manifest'
        /\ UNCHANGED <<report, archive, artifact, spoiled, runDir>>
    BY <1>1 DEF FairStart, EquivalenceStart, CanRunProfile, files, release, TypeInv, TypeOK
  <2>2. manifest' \in Manifests /\ SameEntries(manifest', manifest)
    <3>1. runs + 1 \in 0..MaxRuns
      BY <1>1, RunsAssumption DEF FairStart, EquivalenceStart, CanRunProfile, TypeInv, TypeOK
    <3>2. \/ manifest' = WithEstimand(manifest, runs + 1)
          \/ \E pairs \in SUBSET Pairs : manifest' = WithEndpoints(manifest, runs + 1, pairs)
      BY <1>1 DEF FairStart, EquivalenceStart, WithEstimand, WithEndpoints
    <3>3. QED
      BY <2>1, <3>1, <3>2, Recording
  <2>3. manifest # Absent /\ manifest' # Absent /\ Follows(manifest', manifest)
    BY <2>1, <2>2, Names DEF SameEntries, Follows
  <2>4. Sound(manifest)' /\ Sound(man)' /\ Follows(man, manifest)'
    BY <2>1, <2>2, <2>3 DEF DocumentsSound, Sound, SameEntries, InState, Follows
  <2>5. DocumentsSound' /\ Legal
    BY <2>1, <2>3, <2>4, WriteSafe
  <2>6. QED
    BY <2>1, <2>3, <2>4, <2>5
<1>2. CASE FairResults
  <2>1. PICK bad \in SUBSET (InState(man, {Verified}) \cap FairFormats),
             st \in {Benchmarked, Failed} :
          man' = WithRun(Advance(Advance(man, (InState(man, {Verified}) \cap FairFormats) \ bad,
                                         Benchmarked), bad, Failed), st, Run("fair"))
    BY <1>2 DEF FairResults, WithRun
  <2>2. /\ pc = "fairJobs" /\ pc' = "publish" /\ man \in Manifests /\ Sound(man)
        /\ UNCHANGED <<manifest, report, archive, artifact, spoiled, runDir>>
    BY <1>2 DEF FairResults, files, release, TypeInv, MemoryOK
  <2>3. Sound(man') /\ Follows(man', man)
    BY <2>1, <2>2, MeasuredSound, Names
  <2>4. Sound(man)' /\ Follows(man, manifest)'
    BY <2>2, <2>3 DEF Sound, Follows, Entries
  <2>5. DocumentsSound' /\ Legal
    BY <2>2, StillSafe
  <2>6. QED
    BY <2>2, <2>4, <2>5
<1>3. ASSUME NEW lane \in Profiles, ProfileStart(lane) PROVE SafeInv' /\ Legal
  <2>1. /\ pc' = lane /\ man' = manifest /\ manifest # Absent
        /\ UNCHANGED <<manifest, report, archive, artifact, spoiled, runDir>>
    BY <1>3 DEF ProfileStart, CanRunProfile, documents, release
  <2>2. DocumentsSound' /\ Legal /\ Sound(man)'
    BY <2>1, StillSafe DEF DocumentsSound
  <2>3. Follows(man, manifest)'
    BY <2>1 DEF Follows
  <2>4. QED
    BY <2>1, <2>2, <2>3
<1>4. ASSUME NEW lane \in Profiles, ProfileResults(lane) PROVE SafeInv' /\ Legal
  <2>1. /\ pc = lane /\ pc' = "publish" /\ man \in Manifests /\ lane \in Lanes
        /\ UNCHANGED <<manifest, report, archive, artifact, spoiled, runDir>>
    BY <1>4, Names DEF ProfileResults, files, release, TypeInv, MemoryOK
  <2>2. man' = WithRun(man, Benchmarked, Run(lane))
    BY <1>4 DEF ProfileResults, WithRun
  <2>3. SameEntries(man', man)
    BY <2>1, <2>2, Recording, Names DEF TypeInv, TypeOK
  <2>4. Sound(man)' /\ Follows(man, manifest)'
    BY <2>1, <2>3 DEF SameEntries, Sound, InState, Follows
  <2>5. DocumentsSound' /\ Legal
    BY <2>1, StillSafe
  <2>6. QED
    BY <2>1, <2>4, <2>5
<1>5. CASE PublishManifest
  <2>1. /\ pc = "publish" /\ pc' = "idle" /\ man \in Manifests /\ manifest' = man
        /\ UNCHANGED <<report, archive, artifact, spoiled, runDir>>
    BY <1>5 DEF PublishManifest, Finish, files, release, TypeInv, MemoryOK
  <2>2. manifest # Absent /\ manifest' # Absent /\ Follows(manifest', manifest) /\ Sound(manifest)'
    BY <2>1, Names DEF Follows, Sound
  <2>3. DocumentsSound' /\ Legal
    BY <2>1, <2>2, WriteSafe
  <2>4. QED
    BY <2>1, <2>2, <2>3
<1>6. CASE EquivalenceManifest
  <2> DEFINE measured == UNION Complete(man, man.endpoints)
  <2>1. PICK bad \in SUBSET measured, st \in {Benchmarked, Failed} :
          manifest' = WithRun(Advance(Advance(man, measured \ bad, Benchmarked), bad, Failed),
                              st, Run("equivalence"))
    BY <1>6 DEF EquivalenceManifest, WithRun
  <2>2. measured \subseteq InState(man, {Verified})
    BY DEF Complete
  <2>3. /\ pc = "pairJobs" /\ pc' = "pairResults" /\ man \in Manifests /\ Sound(man)
        /\ manifest # Absent /\ man' = manifest'
        /\ UNCHANGED <<report, archive, artifact, spoiled, runDir>>
    BY <1>6 DEF EquivalenceManifest, files, release, TypeInv, MemoryOK
  <2> HIDE DEF measured
  <2>4. manifest' \in Manifests /\ Sound(manifest') /\ Follows(manifest', man)
    BY <2>1, <2>2, <2>3, MeasuredSound, Names
  <2>5. manifest' # Absent /\ Follows(manifest', manifest)
    BY <2>3, <2>4, Names DEF Follows, Entries
  <2>6. Sound(manifest)' /\ Sound(man)' /\ Follows(man, manifest)'
    BY <2>3, <2>4 DEF Sound, Follows
  <2>7. DocumentsSound' /\ Legal
    BY <2>3, <2>5, <2>6, WriteSafe
  <2>8. QED
    BY <2>3, <2>5, <2>6, <2>7
<1>7. CASE EquivalenceResults
  <2>1. /\ pc' = "idle" /\ UNCHANGED <<manifest, report, archive, artifact, spoiled, runDir>>
    BY <1>7 DEF EquivalenceResults, Finish, files, release
  <2>2. DocumentsSound' /\ Legal
    BY <2>1, StillSafe
  <2>3. QED
    BY <2>1, <2>2
<1>8. QED
  BY <1>1, <1>2, <1>3, <1>4, <1>5, <1>6, <1>7 DEF Fair, Profile, Equivalence


\* Rendering, packaging and a crash keep the invariant, and so does an alteration of
\* an artifact: a proved entry is no longer ENCODED.
LEMMA SafeRelease ==
    TypeInv /\ TypeInv' /\ SafeInv /\ (Render \/ Package \/ Abort \/ \E f \in Formats : Disturb(f))
        => SafeInv' /\ Legal
<1> SUFFICES ASSUME TypeInv, TypeInv', SafeInv,
                    Render \/ Package \/ Abort \/ \E f \in Formats : Disturb(f)
             PROVE  SafeInv' /\ Legal
  OBVIOUS
<1> USE ProfilesAssumption
    DEF SafeInv, Encoding, MemoryFollows, Artifacts, WithManifest, Untouched
<1>1. CASE ReportOpen
  <2>1. /\ pc = "idle" /\ pc' = "reportText" /\ man' = AsReportedManifest(manifest)
        /\ report' = Torn /\ manifest # Absent /\ manifest \in Manifests
        /\ UNCHANGED <<manifest, archive, artifact, spoiled, runDir>>
    BY <1>1 DEF ReportOpen, Reportable, Absent, Benchmarked, Reported, files, release,
                TypeInv, TypeOK
  <2>2. /\ Entries(man') = Entries(manifest) /\ man'.proved = manifest.proved
        /\ \A f \in Entries(manifest) : man'.formats[f] = StepReported(manifest.formats[f])
    BY <2>1, AsReported
  <2>3. manifest.proved \subseteq Entries(manifest) /\ Sound(manifest)
    BY <2>1, Selection DEF ManifestOf, DocumentsSound
  <2>4. Sound(man)'
    <3>1. InState(man, Ranked)' \subseteq man'.proved
      BY <2>2, <2>3 DEF Sound, InState, StepReported, Ranked
    <3>2. Reported \notin {Discovered, Encoded}
      BY DEF Reported, Discovered, Encoded
    <3>3. \A f \in man'.proved : man'.formats[f] \notin {Discovered, Encoded} /\ spoiled'[f] # Encoded
      BY <2>1, <2>2, <2>3, <3>2 DEF Sound, StepReported
    <3>4. QED
      BY <3>1, <3>3 DEF Sound
  <2>5. Follows(man, manifest)'
    BY <2>1, <2>2, LegalMoves DEF Follows, StepReported
  <2>6. DocumentsSound' /\ Legal
    BY <2>1, <2>3 DEF DocumentsSound, ShownBy, Sound, Torn, Reported, Legal, DurableState
  <2>7. QED
    BY <2>1, <2>2, <2>4, <2>5, <2>6
<1>2. CASE ReportText
  <2>1. /\ pc = "reportText" /\ pc' = "reportManifest" /\ man \in Manifests
        /\ report' = [state |-> Reported, of |-> <<man, res>>]
        /\ UNCHANGED <<man, manifest, archive, artifact, spoiled, runDir>>
    BY <1>2 DEF ReportText, files, release, TypeInv, MemoryOK
  <2>2. report'.of[1] = man
    BY <2>1
  <2>3. ShownBy(report.of[1])'
    BY <2>1, <2>2 DEF ShownBy, Sound
  <2>4. DocumentsSound' /\ Legal
    BY <2>1, <2>3 DEF DocumentsSound, ShownBy, Sound, Legal, DurableState
  <2>5. Sound(man)' /\ Follows(man, manifest)'
    BY <2>1 DEF Sound, Follows
  <2>6. QED
    BY <2>1, <2>4, <2>5
<1>3. CASE ReportManifest
  <2>1. /\ pc = "reportManifest" /\ pc' = "reportResults" /\ man \in Manifests /\ manifest' = man
        /\ UNCHANGED <<man, report, archive, artifact, spoiled, runDir>>
    BY <1>3 DEF ReportManifest, files, release, TypeInv, MemoryOK
  <2>2. /\ manifest # Absent /\ manifest' # Absent /\ Follows(manifest', manifest)
        /\ Sound(manifest)' /\ Sound(man)'
    BY <2>1, Names DEF Follows, Sound
  <2>3. DocumentsSound' /\ Legal
    BY <2>1, <2>2, WriteSafe
  <2>4. Follows(man, manifest)'
    BY <2>1 DEF Follows
  <2>5. QED
    BY <2>1, <2>2, <2>3, <2>4
<1>4. CASE ReportResults \/ PackageChecksum \/ Abort
  <2>1. pc' = "idle" /\ UNCHANGED <<manifest, report, archive, artifact, spoiled, runDir>>
    BY <1>4 DEF ReportResults, PackageChecksum, Abort, Finish, files, documents, release
  <2>2. DocumentsSound' /\ Legal
    BY <2>1, StillSafe
  <2>3. QED
    BY <2>1, <2>2
<1>5. CASE PackageArchive
  <2>1. /\ pc' = "checksum" /\ manifest # Absent /\ manifest \in Manifests
        /\ archive' = [state |-> Reported, of |-> <<manifest, results>>, report |-> report]
        /\ UNCHANGED <<manifest, report, artifact, spoiled, runDir>>
    BY <1>5 DEF PackageArchive, Packageable, Absent, Reported, files, documents, TypeInv, TypeOK
  <2>2. archive'.of[1] = manifest
    BY <2>1
  <2>3. ShownBy(archive.of[1])'
    BY <2>1, <2>2 DEF ShownBy, DocumentsSound, Sound
  <2>4. DocumentsSound' /\ Legal
    BY <2>1, <2>3 DEF DocumentsSound, ShownBy, Sound, Legal, DurableState
  <2>5. QED
    BY <2>1, <2>4
<1>6. ASSUME NEW f \in Formats, Disturb(f) PROVE SafeInv' /\ Legal
  <2>1. /\ artifact[f] = "encoded" /\ artifact' = [artifact EXCEPT ![f] = "altered"]
        /\ spoiled' = [spoiled EXCEPT ![f] = IF pc = "idle" THEN DurableState(f) ELSE @]
        /\ UNCHANGED <<runDir, manifest, report, archive, pc, man>>
        /\ artifact \in [Formats -> {"absent", "encoded", "altered"}]
        /\ spoiled \in [Formats -> {"no"} \cup ExecutionState] /\ spoiled[f] = "no" /\ runDir
    BY <1>6 DEF Disturb, documents, release, memory, TypeInv, TypeOK
  <2>2. ASSUME manifest # Absent PROVE Sound(manifest)'
    <3>1. Sound(manifest) /\ manifest.proved \subseteq Entries(manifest)
          /\ manifest.proved \subseteq Formats
      BY <2>2, Selection DEF DocumentsSound, TypeInv, TypeOK, ManifestOf
    <3>2. f \in manifest.proved => DurableState(f) # Encoded
      BY <2>2, <3>1 DEF DurableState, Sound
    <3>3. QED
      BY <2>1, <3>1, <3>2 DEF Sound, InState
  <2>3. ASSUME pc # "idle", Sound(man) PROVE Sound(man)'
    BY <2>1, <2>3 DEF Sound, InState
  <2>4. DocumentsSound' /\ Legal
    <3>1. \A m : ShownBy(m) => ShownBy(m)'
      BY <2>1 DEF ShownBy, InState
    <3>2. DocumentsSound'
      BY <2>1, <2>2, <3>1 DEF DocumentsSound
    <3>3. Legal
      BY <2>1 DEF Legal, DurableState
    <3>4. QED
      BY <3>2, <3>3
  <2>5. Artifacts'
    BY <2>1
  <2>6. Encoding' /\ MemoryFollows'
    BY <2>1, <2>3 DEF Follows
  <2>7. QED
    BY <2>4, <2>5, <2>6
<1>7. QED
  BY <1>1, <1>2, <1>3, <1>4, <1>5, <1>6 DEF Render, Package

\* Every step keeps the invariant and moves the durable entries legally.
LEMMA SafeNext == TypeInv /\ TypeInv' /\ SafeInv /\ [Next]_vars => SafeInv' /\ Legal
<1>1. SafeInv /\ UNCHANGED vars => SafeInv' /\ Legal
  BY DEF vars, files, documents, release, memory, SafeInv, DocumentsSound, Encoding,
         MemoryFollows, Artifacts, ShownBy, Sound, Follows, Legal, DurableState
<1>2. QED
  BY <1>1, SafePrepare, SafeVerify, SafeProfiles, SafeRelease DEF Next

\* So the invariant always holds.
LEMMA SafeInvariance == Spec => []SafeInv
  BY TypeInvariance, SafeInit, SafeNext, PTL DEF Spec

\* No manifest, rendered report or archive ever shows a format as verified, measured
\* or reported whose artifact verify_run has not proved.
THEOREM RankedIsProved == Spec => []RankedPassedRoundTrip
<1>1. TypeInv /\ SafeInv => RankedPassedRoundTrip
  <2> SUFFICES ASSUME TypeInv, SafeInv PROVE RankedPassedRoundTrip
    OBVIOUS
  <2> DEFINE sound(m) == /\ InState(m, Ranked) \subseteq m.proved
                         /\ \A f \in m.proved : spoiled[f] # Encoded
  <2>1. manifest # Absent => sound(manifest)
    BY DEF SafeInv, DocumentsSound, Sound
  <2>2. \A m : ShownBy(m) => sound(m)
    BY <2>1 DEF ShownBy
  <2>3. report.state = Reported => sound(report.of[1])
    BY <2>2 DEF SafeInv, DocumentsSound
  <2>4. archive # Absent => sound(archive.of[1])
    BY <2>2 DEF SafeInv, DocumentsSound
  <2>5. QED
    BY <2>1, <2>3, <2>4 DEF RankedPassedRoundTrip
<1>2. QED
  BY <1>1, TypeInvariance, SafeInvariance, PTL

\* The contract speaks of the same states and transitions as the model.
LEMMA SameLifecycle ==
    /\ Contract!Discovered = Discovered /\ Contract!ExecutionState = ExecutionState
    /\ \A a, b : LegalTransition(a, b) => Contract!LegalTransition(a, b)
<1> USE DEF Discovered, Encoded, Verified, Benchmarked, Reported, Unsupported, Failed, Failures,
            Active, Contract!Discovered, Contract!Encoded, Contract!Verified,
            Contract!Benchmarked, Contract!Reported, Contract!Unsupported, Contract!Failed,
            Contract!Failures, Contract!Active
<1>1. Contract!Discovered = Discovered /\ Contract!ExecutionState = ExecutionState
  BY DEF ExecutionState, Contract!ExecutionState
<1>2. \A a, b : LegalTransition(a, b) => Contract!LegalTransition(a, b)
  BY DEF LegalTransition, Forward, Contract!LegalTransition, Contract!Forward
<1>3. QED
  BY <1>1, <1>2

\* Each durable write moves each entry by at most one legal transition of model.py,
\* whatever the order of the commands and wherever they crash.
THEOREM EntriesImplementContract == Spec => EntriesFollowContract
<1>1. Init => Contract!Init
  BY SameLifecycle DEF Init, Contract!Init, DurableState
<1>2. TypeInv' /\ Legal => [Contract!Move]_([f \in Formats |-> DurableState(f)])
  <2> SUFFICES ASSUME TypeInv', Legal PROVE Contract!Move
    OBVIOUS
  <2> DEFINE next == [f \in Formats |-> DurableState(f)']
  <2>1. next \in [Formats -> ExecutionState]
    <3>1. ASSUME NEW f \in Formats PROVE DurableState(f)' \in ExecutionState
      <4>1. CASE manifest' # Absent /\ f \in Entries(manifest')
        <5>1. manifest' \in ManifestOf(Entries(manifest'))
          BY <4>1, Selection DEF TypeInv, TypeOK
        <5>2. QED
          BY <4>1, <5>1 DEF DurableState, ManifestOf
      <4>2. CASE ~(manifest' # Absent /\ f \in Entries(manifest'))
        BY <4>2, Names DEF DurableState
      <4>3. QED
        BY <4>1, <4>2
    <3>2. QED
      BY <3>1
  <2>2. \A f \in Formats : next[f] = [g \in Formats |-> DurableState(g)][f]
                           \/ LegalTransition([g \in Formats |-> DurableState(g)][f], next[f])
    BY DEF Legal
  <2>3. [f \in Formats |-> DurableState(f)]' = next
    OBVIOUS
  <2> HIDE DEF next
  <2>4. QED
    BY <2>1, <2>2, <2>3, SameLifecycle DEF Contract!Move
<1>3. QED
  BY <1>1, <1>2, TypeInvariance, SafeInvariance, SafeNext, PTL
  DEF Spec, EntriesFollowContract, Contract!Spec

-----------------------------------------------------------------------------
(* What the documents say of each other: the manifest and the results, the   *)
(* manifest and the estimand, the report and the evidence, a comparison and  *)
(* the artifacts it was made of.                                             *)

(***************************************************************************)
(* The inductive invariant.  A manifest m is good beside results r and the *)
(* history s of alterations if its entries are not ahead of its state, its *)
(* estimand is that of the run it shows, the results back it, and it       *)
(* compares nothing that was altered.  What a command holds in memory is   *)
(* good too from the moment it may be written, and before that it is the   *)
(* manifest on disk but for what was verified.                             *)
(***************************************************************************)
Settled(m) ==
    /\ m.state # Encoded => InState(m, {Encoded}) = {}
    /\ m.state = Verified => InState(m, Reportable) = {}
    /\ m.state = Reported => InState(m, {Benchmarked}) = {}

Estimand(m) ==
    m.state \in Reportable /\ m.by.lane \in {"fair", "equivalence"} =>
        /\ m.measurement = m.by.run
        /\ m.by.lane = "equivalence" => m.endpoints # {}

Backed(m, r) ==
    m.state \in Reportable /\ m.by.lane \in ResultsFirst =>
        r.state \in Reportable /\ r.by = m.by

Unspoiled(m, s) ==
    m.by.lane = "equivalence" => \A f \in InState(m, Reportable) : s[f] # Verified

Good(m, r, s) == Settled(m) /\ Estimand(m) /\ Backed(m, r) /\ Unspoiled(m, s)

Shown == manifest # Absent => Good(manifest, results, spoiled)

WhilePreparing == pc = "encode" => manifest = Absent /\ man.by = NoRun

WhileVerifying ==
    pc = "verify" =>
        /\ manifest # Absent /\ man.state = manifest.state /\ man.by = manifest.by
        /\ InState(man, Reportable) = InState(manifest, Reportable)
        /\ manifest.state # Encoded => man = manifest

Jobs == {"fairJobs", "pairJobs"} \cup Profiles

WhileMeasuring ==
    /\ pc \in Jobs \cup {"publish"} => manifest # Absent /\ manifest.state = Verified
    /\ pc \in Jobs => man = manifest
    /\ pc \in {"fairJobs", "pairJobs"} => manifest.measurement = runs
    /\ pc = "pairJobs" =>
          /\ manifest.endpoints # {}
          /\ \A f \in UNION Complete(manifest, manifest.endpoints) : spoiled[f] # Verified
    /\ pc = "publish" => Good(man, results, spoiled) /\ man.state # Reported
    /\ pc = "pairResults" =>
          manifest # Absent /\ manifest.by.lane = "equivalence" /\ manifest.state # Reported

Rendering == {"reportText", "reportManifest", "reportResults"}

WhileRendering ==
    /\ pc \in Rendering =>
          /\ manifest # Absent /\ results # Absent
          /\ Good(man, results, spoiled) /\ man.state = Reported
          /\ results.state \in Reportable /\ res = AsReportedResults(results)
          /\ manifest.state = Reported => man = manifest
    /\ pc \in {"reportManifest", "reportResults"} =>
          report.state = Reported /\ report.of = <<man, res>>
    /\ pc = "reportResults" => manifest = man

RecordInv ==
    /\ Shown /\ ReportShowsEvidence
    /\ WhilePreparing /\ WhileVerifying /\ WhileMeasuring /\ WhileRendering

\* Two manifests with the same fields are the same.
LEMMA SameManifest ==
    ASSUME NEW m \in Manifests, NEW n \in Manifests,
           n.state = m.state, n.formats = m.formats, n.proved = m.proved, n.sizes = m.sizes,
           n.measurement = m.measurement, n.endpoints = m.endpoints, n.by = m.by
    PROVE  n = m
  BY DEF Manifests

\* What a command records changes the fields it records and no other.
LEMMA Fields ==
    ASSUME NEW m \in Manifests
    PROVE  /\ \A st : /\ WithState(m, st).by = m.by /\ WithState(m, st).state = st
                      /\ WithState(m, st).measurement = m.measurement
                      /\ WithState(m, st).endpoints = m.endpoints
                      /\ WithState(m, st).formats = m.formats
                      /\ WithState(m, st).proved = m.proved
                      /\ WithState(m, st).sizes = m.sizes
           /\ \A st, b : /\ WithRun(m, st, b).by = b /\ WithRun(m, st, b).state = st
                         /\ WithRun(m, st, b).measurement = m.measurement
                         /\ WithRun(m, st, b).endpoints = m.endpoints
                         /\ WithRun(m, st, b).formats = m.formats
           /\ \A k : /\ WithEstimand(m, k).by = m.by /\ WithEstimand(m, k).state = m.state
                     /\ WithEstimand(m, k).measurement = k
                     /\ WithEstimand(m, k).formats = m.formats
           /\ \A k, pairs : /\ WithEndpoints(m, k, pairs).by = m.by
                            /\ WithEndpoints(m, k, pairs).state = m.state
                            /\ WithEndpoints(m, k, pairs).measurement = k
                            /\ WithEndpoints(m, k, pairs).endpoints = pairs
                            /\ WithEndpoints(m, k, pairs).formats = m.formats
           /\ \A f : /\ WithProof(m, f).by = m.by /\ WithProof(m, f).state = m.state
                     /\ WithProof(m, f).formats = m.formats
  BY DEF Manifests, WithState, WithRun, WithEstimand, WithEndpoints, WithProof

\* A manifest whose state is not reportable is good if its entries are settled and
\* it is not one of a comparison of altered artifacts.
LEMMA NotYetReportable ==
    ASSUME NEW m, NEW r, NEW s, m.state \notin Reportable, Settled(m), Unspoiled(m, s)
    PROVE  Good(m, r, s)
  BY DEF Good, Estimand, Backed

\* The states that tell the documents apart are different.
LEMMA States ==
    /\ Verified \notin Reportable /\ Encoded \notin Reportable /\ Failed \notin Reportable
    /\ Unsupported \notin Reportable /\ Discovered \notin Reportable
    /\ Verified # Encoded /\ Verified # Failed /\ Failed # Encoded /\ Benchmarked # Encoded
    /\ Unsupported # Encoded /\ Unsupported # Verified /\ Benchmarked # Verified
    /\ Reported # Encoded /\ Reported # Verified /\ Reported # Benchmarked
    /\ Failed # Reported /\ Failed # Benchmarked /\ Unsupported # Reported
    /\ Reportable = {Benchmarked, Reported} /\ Absent.state \notin ExecutionState
  BY DEF Discovered, Encoded, Verified, Benchmarked, Reported, Unsupported, Failed,
         Failures, Active, ExecutionState, Reportable, Absent

\* A measured run leaves no entry behind its state, and benchmarks what it measured only.
LEMMA MeasuredRecord ==
    ASSUME NEW m \in Manifests, Settled(m), m.state = Verified,
           NEW good, NEW bad, NEW st \in {Benchmarked, Failed},
           NEW lane \in Lanes, runs \in 0..MaxRuns,
           NEW n, n = WithRun(Advance(Advance(m, good, Benchmarked), bad, Failed), st, Run(lane))
    PROVE  /\ n \in Manifests /\ Settled(n) /\ n.state = st /\ n.by = Run(lane)
           /\ n.measurement = m.measurement /\ n.endpoints = m.endpoints
           /\ InState(n, Reportable) \subseteq good
<1> DEFINE a == Advance(m, good, Benchmarked)
           b == Advance(a, bad, Failed)
<1>1. a \in Manifests /\ a.measurement = m.measurement /\ a.endpoints = m.endpoints
  BY Names, AdvanceEntries
<1>2. b \in Manifests /\ b.measurement = a.measurement /\ b.endpoints = a.endpoints
  <2> HIDE DEF a
  <2>1. QED
    BY <1>1, Names, AdvanceEntries
<1>3. n = WithRun(b, st, Run(lane))
  OBVIOUS
<1>4. /\ n \in Manifests /\ Entries(n) = Entries(m)
      /\ \A f \in Entries(m) :
            n.formats[f] = IF f \in bad THEN Failed
                           ELSE IF f \in good THEN Benchmarked ELSE m.formats[f]
  BY Measured
<1> HIDE DEF a, b
<1>5. /\ n.state = st /\ n.by = Run(lane)
      /\ n.measurement = m.measurement /\ n.endpoints = m.endpoints
  BY <1>1, <1>2, <1>3, Fields
<1>6. InState(n, {Encoded}) = {} /\ InState(n, Reportable) \subseteq good
  BY <1>4, States DEF InState, Settled
<1>7. Settled(n)
  BY <1>5, <1>6, States DEF Settled
<1>8. QED
  BY <1>4, <1>5, <1>6, <1>7

\* Rendering twice is rendering once: the reported form of reported documents is theirs,
\* and it keeps what a document says of the run.
LEMMA ReportedForm ==
    /\ \A m \in Manifests : \A n : n = AsReportedManifest(m) =>
          /\ n.by = m.by /\ n.measurement = m.measurement /\ n.endpoints = m.endpoints
          /\ n.sizes = m.sizes
          /\ m.state = Reported /\ Settled(m) => n = m
    /\ \A r \in ResultsDocuments :
          /\ AsReportedResults(r).by = r.by
          /\ AsReportedResults(r).state = StepReported(r.state)
          /\ AsReportedResults(AsReportedResults(r)) = AsReportedResults(r)
<1>1. ASSUME NEW m \in Manifests, NEW n, n = AsReportedManifest(m)
      PROVE  /\ n.by = m.by /\ n.measurement = m.measurement /\ n.endpoints = m.endpoints
             /\ n.sizes = m.sizes
             /\ m.state = Reported /\ Settled(m) => n = m
  <2> DEFINE a == Advance(m, InState(m, {Benchmarked}), Reported)
  <2>1. /\ a \in Manifests /\ a.by = m.by /\ a.measurement = m.measurement
        /\ a.endpoints = m.endpoints /\ a.sizes = m.sizes
    BY Names, AdvanceEntries
  <2>2. n = WithState(a, StepReported(a.state))
    BY <1>1, <2>1 DEF AsReportedManifest, WithState, Manifests
  <2> HIDE DEF a
  <2>3. /\ n.by = m.by /\ n.measurement = m.measurement /\ n.endpoints = m.endpoints
        /\ n.sizes = m.sizes
    BY <2>1, <2>2, Fields
  <2>4. ASSUME m.state = Reported, Settled(m) PROVE n = m
    <3>1. /\ n \in Manifests /\ Entries(n) = Entries(m) /\ n.proved = m.proved
          /\ n.state = StepReported(m.state)
          /\ \A f \in Entries(m) : n.formats[f] = StepReported(m.formats[f])
      BY <1>1, AsReported
    <3>2. \A f \in Entries(m) : n.formats[f] = m.formats[f]
      BY <2>4, <3>1, States DEF Settled, InState, StepReported
    <3>3. n.formats = m.formats
      <4>1. n.formats \in [Entries(m) -> ExecutionState] /\ m.formats \in [Entries(m) -> ExecutionState]
        BY <3>1, Selection DEF ManifestOf
      <4>2. QED
        BY <3>2, <4>1
    <3>4. n.state = m.state
      BY <2>4, <3>1, States DEF StepReported
    <3>5. QED
      BY <2>3, <3>1, <3>3, <3>4, SameManifest
  <2>5. QED
    BY <2>3, <2>4
<1>2. ASSUME NEW r \in ResultsDocuments
      PROVE  /\ AsReportedResults(r).by = r.by
             /\ AsReportedResults(r).state = StepReported(r.state)
             /\ AsReportedResults(AsReportedResults(r)) = AsReportedResults(r)
  <2>1. \A q \in ResultsDocuments :
           /\ AsReportedResults(q).by = q.by
           /\ AsReportedResults(q).state = StepReported(q.state)
           /\ AsReportedResults(q).obs = StepReported(q.obs)
    BY DEF AsReportedResults, ResultsDocuments
  <2>2. \A st : StepReported(StepReported(st)) = StepReported(st)
    BY States DEF StepReported
  <2>3. /\ AsReportedResults(r) \in ResultsDocuments
        /\ AsReportedResults(AsReportedResults(r)) \in ResultsDocuments
    BY <1>2, AsReported
  <2>4. \A p, q \in ResultsDocuments :
           p.state = q.state /\ p.by = q.by /\ p.obs = q.obs => p = q
    BY DEF ResultsDocuments
  <2>5. QED
    BY <1>2, <2>1, <2>2, <2>3, <2>4
<1>3. QED
  BY <1>1, <1>2

-----------------------------------------------------------------------------

InMemory == WhilePreparing /\ WhileVerifying /\ WhileMeasuring /\ WhileRendering

\* Between commands nothing is held in memory.
LEMMA AtRest == pc' \in {"idle", "checksum"} => InMemory'
  BY ProfilesAssumption
  DEF InMemory, WhilePreparing, WhileVerifying, WhileMeasuring, WhileRendering, Jobs, Rendering

\* A manifest that does not say REPORTED claims no report.
LEMMA NoReportClaimed ==
    /\ manifest.state # Reported => ReportShowsEvidence
    /\ manifest'.state # Reported => ReportShowsEvidence'
  BY DEF ReportShowsEvidence

\* A step that writes no document leaves them as good as they were.
LEMMA DocumentsKept ==
    UNCHANGED <<manifest, results, spoiled>> =>
        /\ Shown => Shown'
        /\ report' = report /\ ReportShowsEvidence => ReportShowsEvidence'
  BY DEF Shown, ReportShowsEvidence

\* The empty directory satisfies the invariant.
LEMMA RecordInit == Init => RecordInv
<1> SUFFICES ASSUME Init PROVE RecordInv
  OBVIOUS
<1>1. manifest = Absent /\ pc = "idle"
  BY DEF Init
<1>2. Shown /\ ReportShowsEvidence
  BY <1>1, NoReportClaimed, States, Names DEF Shown
<1>3. WhilePreparing /\ WhileVerifying /\ WhileMeasuring /\ WhileRendering
  BY <1>1, ProfilesAssumption
  DEF WhilePreparing, WhileVerifying, WhileMeasuring, WhileRendering, Jobs, Rendering
<1>4. QED
  BY <1>2, <1>3 DEF RecordInv

\* prepare_run keeps it: a manifest it writes shows no run.
LEMMA RecordPrepare == TypeInv /\ SafeInv /\ RecordInv /\ Prepare => RecordInv'
<1> SUFFICES ASSUME TypeInv, SafeInv, RecordInv, Prepare PROVE RecordInv'
  OBVIOUS
<1>1. CASE PrepareMkdir
  <2>1. /\ pc' = "encode" /\ manifest = Absent
        /\ UNCHANGED <<manifest, results, report, spoiled>>
    BY <1>1 DEF PrepareMkdir, documents, SafeInv, Artifacts
  <2>2. man'.by = NoRun
    BY <1>1 DEF PrepareMkdir, NewManifest
  <2>3. Shown' /\ ReportShowsEvidence'
    BY <2>1, DocumentsKept DEF RecordInv
  <2>4. QED
    BY <2>1, <2>2, <2>3, ProfilesAssumption
    DEF RecordInv, WhilePreparing, WhileVerifying, WhileMeasuring, WhileRendering, Jobs, Rendering
<1>2. ASSUME NEW f \in Formats, EncodeFormat(f) PROVE RecordInv'
  <2>1. /\ pc = "encode" /\ pc' = "encode" /\ man \in Manifests
        /\ UNCHANGED <<manifest, results, report, spoiled>>
    BY <1>2 DEF EncodeFormat, documents, TypeInv, MemoryOK, WithManifest
  <2>2. man'.by = man.by
    BY <1>2, <2>1, AdvanceEntries, Names DEF EncodeFormat, Failures
  <2>3. Shown' /\ ReportShowsEvidence'
    BY <2>1, DocumentsKept DEF RecordInv
  <2>4. QED
    BY <2>1, <2>2, <2>3, ProfilesAssumption
    DEF RecordInv, WhilePreparing, WhileVerifying, WhileMeasuring, WhileRendering, Jobs, Rendering
<1>3. CASE PrepareWrite
  <2>1. /\ man \in Manifests /\ man.by = NoRun /\ manifest' = WithState(man, Encoded)
        /\ pc' = "idle"
    BY <1>3 DEF PrepareWrite, Finish, WithState, TypeInv, MemoryOK, WithManifest,
                RecordInv, WhilePreparing
  <2>2. manifest'.state = Encoded /\ manifest'.by.lane = "none"
    BY <2>1, Fields DEF NoRun
  <2>3. Good(manifest, results, spoiled)'
    BY <2>2, States DEF Good, Settled, Estimand, Backed, Unspoiled
  <2>4. Shown' /\ ReportShowsEvidence'
    BY <2>2, <2>3, NoReportClaimed, States DEF Shown
  <2>5. QED
    BY <2>1, <2>4, AtRest DEF RecordInv, InMemory
<1>4. QED
  BY <1>1, <1>2, <1>3 DEF Prepare

\* verify_run keeps it: it gives a manifest a reportable state only if it leaves it as it is.
LEMMA RecordVerify == TypeInv /\ RecordInv /\ Verify => RecordInv'
<1> SUFFICES ASSUME TypeInv, RecordInv, Verify PROVE RecordInv'
  OBVIOUS
<1>1. CASE VerifyLoad
  <2>1. /\ pc' = "verify" /\ manifest # Absent /\ man' = manifest
        /\ UNCHANGED <<manifest, results, report, spoiled>>
    BY <1>1 DEF VerifyLoad, documents
  <2>2. Shown' /\ ReportShowsEvidence'
    BY <2>1, DocumentsKept DEF RecordInv
  <2>3. WhileVerifying'
    BY <2>1 DEF WhileVerifying, InState
  <2>4. QED
    BY <2>1, <2>2, <2>3, ProfilesAssumption
    DEF RecordInv, WhilePreparing, WhileMeasuring, WhileRendering, Jobs, Rendering
<1>2. CASE VerifyNothing
  <2>1. /\ pc' = "idle" /\ manifest \in Manifests /\ Entries(manifest) = {}
        /\ manifest' = WithState(manifest, Failed)
    BY <1>2 DEF VerifyNothing, memory, WithState, TypeInv, TypeOK
  <2>2. manifest'.state = Failed /\ Entries(manifest') = {}
    BY <2>1, Fields DEF Entries
  <2>3. Good(manifest, results, spoiled)'
    BY <2>2, States DEF Good, Settled, Estimand, Backed, Unspoiled, InState
  <2>4. Shown' /\ ReportShowsEvidence'
    BY <2>2, <2>3, NoReportClaimed, States DEF Shown
  <2>5. QED
    BY <2>1, <2>4, AtRest DEF RecordInv, InMemory
<1>3. ASSUME NEW f \in Formats, VerifyEntry(f) PROVE RecordInv'
  <2>1. /\ pc = "verify" /\ pc' = "verify" /\ man \in Manifests /\ f \in InState(man, {Encoded})
        /\ UNCHANGED <<manifest, results, report, spoiled>>
    BY <1>3 DEF VerifyEntry, documents, TypeInv, MemoryOK, WithManifest
  <2>2. manifest.state = Encoded
    BY <2>1 DEF RecordInv, WhileVerifying, Shown, Good, Settled
  <2>3. PICK st \in {Verified, Failed} :
           \/ man' = Advance(man, {f}, st)
           \/ man' = WithProof(Advance(man, {f}, st), f)
    BY <1>3 DEF VerifyEntry, VerifyPasses, WithProof
  <2>4. /\ man'.state = man.state /\ man'.by = man.by
        /\ Entries(man') = Entries(man)
        /\ \A g \in Entries(man) : man'.formats[g] = IF g \in {f} THEN st ELSE man.formats[g]
    <3> DEFINE a == Advance(man, {f}, st)
    <3>1. /\ a \in Manifests /\ a.state = man.state /\ a.by = man.by /\ Entries(a) = Entries(man)
          /\ \A g \in Entries(man) : a.formats[g] = IF g \in {f} THEN st ELSE man.formats[g]
      BY <2>1, AdvanceEntries, Names
    <3>2. man' = a \/ man' = WithProof(a, f)
      BY <2>3
    <3> HIDE DEF a
    <3>3. man'.state = a.state /\ man'.by = a.by /\ man'.formats = a.formats
      BY <3>1, <3>2, Fields
    <3>4. QED
      BY <3>1, <3>3 DEF Entries
  <2>5. InState(man', Reportable) = InState(man, Reportable)
    BY <2>1, <2>4, States DEF InState
  <2>6. WhileVerifying'
    BY <2>1, <2>2, <2>4, <2>5 DEF RecordInv, WhileVerifying, InState
  <2>7. Shown' /\ ReportShowsEvidence'
    BY <2>1, DocumentsKept DEF RecordInv
  <2>8. QED
    BY <2>1, <2>6, <2>7, ProfilesAssumption
    DEF RecordInv, WhilePreparing, WhileMeasuring, WhileRendering, Jobs, Rendering
<1>4. CASE VerifyWrite
  <2>1. /\ pc = "verify" /\ pc' = "idle" /\ man \in Manifests /\ manifest \in Manifests
        /\ InState(man, {Encoded}) = {}
        /\ manifest' = WithState(man, VerifiedRunState(man))
        /\ UNCHANGED <<results, report, spoiled>>
    BY <1>4 DEF VerifyWrite, Finish, WithState, TypeInv, TypeOK, MemoryOK, WithManifest,
                RecordInv, WhileVerifying
  <2>2. /\ manifest # Absent /\ Good(manifest, results, spoiled)
        /\ man.state = manifest.state /\ man.by = manifest.by
        /\ InState(man, Reportable) = InState(manifest, Reportable)
        /\ manifest.state # Encoded => man = manifest
    BY <2>1 DEF RecordInv, Shown, WhileVerifying
  <2>3. /\ manifest'.state = VerifiedRunState(man) /\ manifest'.by = man.by
        /\ manifest'.measurement = man.measurement /\ manifest'.endpoints = man.endpoints
        /\ \A S : InState(manifest', S) = InState(man, S)
    BY <2>1, Fields DEF InState, Entries
  <2>4. CASE VerifiedRunState(man) = man.state
    <3>1. CASE manifest.state = Encoded
      <4>1. Good(manifest', results, spoiled)
        BY <2>1, <2>2, <2>3, <2>4, <3>1, States
        DEF Good, Settled, Estimand, Backed, Unspoiled
      <4>2. QED
        BY <2>1, <2>2, <2>3, <2>4, <3>1, <4>1, AtRest, NoReportClaimed, States
        DEF RecordInv, Shown, InMemory
    <3>2. CASE manifest.state # Encoded
      <4>1. manifest' = manifest
        <5>1. WithState(manifest, manifest.state) \in Manifests
          BY <2>1, Recording, Names
        <5>2. WithState(manifest, manifest.state) = manifest
          BY <2>1, <5>1, Fields, SameManifest
        <5>3. QED
          BY <2>1, <2>2, <2>4, <3>2, <5>2
      <4>2. QED
        BY <2>1, <4>1, AtRest, DocumentsKept DEF RecordInv, InMemory
    <3>3. QED
      BY <3>1, <3>2
  <2>5. CASE VerifiedRunState(man) # man.state
    <3>1. /\ VerifiedRunState(man) \in {Verified, Failed, Unsupported}
          /\ InState(man, Failures \cup {Verified}) = Entries(man)
      BY <2>5 DEF VerifiedRunState
    <3>2. InState(man, Reportable) = {}
      BY <3>1, States DEF InState, Failures
    <3>3. Good(manifest', results, spoiled)
      BY <2>1, <2>3, <3>1, <3>2, States DEF Good, Settled, Estimand, Backed, Unspoiled
    <3>4. QED
      BY <2>1, <2>3, <3>1, <3>3, AtRest, NoReportClaimed, States DEF RecordInv, Shown, InMemory
  <2>6. QED
    BY <2>4, <2>5
<1>5. QED
  BY <1>1, <1>2, <1>3, <1>4 DEF Verify

\* A verified manifest stays good whatever the results become, and with new metadata.
LEMMA VerifiedIsGood ==
    ASSUME NEW m, NEW n, NEW r, NEW q, NEW s, Good(m, r, s), m.state = Verified,
           n.state = m.state, n.by = m.by, n.formats = m.formats
    PROVE  Good(n, q, s)
  BY States DEF Good, Settled, Estimand, Backed, Unspoiled, InState, Entries

\* The profile runs keep it: metadata, jobs, results and manifest in this order, or,
\* for a comparison, the manifest before the results and of admitted artifacts only.
LEMMA RecordProfiles ==
    TypeInv /\ SafeInv /\ RecordInv /\ (Fair \/ Profile \/ PublishManifest \/ Equivalence)
        => RecordInv'
<1> SUFFICES ASSUME TypeInv, SafeInv, RecordInv,
                    Fair \/ Profile \/ PublishManifest \/ Equivalence
             PROVE  RecordInv'
  OBVIOUS
<1>1. CASE FairStart
  <2>1. /\ pc' = "fairJobs" /\ runs' = runs + 1 /\ manifest # Absent /\ manifest \in Manifests
        /\ manifest.state = Verified /\ man' = manifest' /\ runs + 1 \in 0..MaxRuns
        /\ manifest' = WithEstimand(manifest, runs + 1)
        /\ UNCHANGED <<results, spoiled>>
    BY <1>1, RunsAssumption DEF FairStart, CanRunProfile, WithEstimand, TypeInv, TypeOK
  <2>2. /\ manifest'.state = Verified /\ manifest'.by = manifest.by
        /\ manifest'.formats = manifest.formats /\ manifest'.measurement = runs'
    BY <2>1, Fields
  <2>3. manifest' # Absent
    BY <2>1, Recording, Names
  <2>4. Shown' /\ ReportShowsEvidence'
    BY <2>1, <2>2, VerifiedIsGood, NoReportClaimed, States DEF RecordInv, Shown
  <2>5. QED
    BY <2>1, <2>2, <2>3, <2>4, ProfilesAssumption
    DEF RecordInv, WhilePreparing, WhileVerifying, WhileMeasuring, WhileRendering, Jobs, Rendering
<1>2. CASE FairResults
  <2> DEFINE measured == InState(man, {Verified}) \cap FairFormats
  <2>1. PICK bad \in SUBSET measured, st \in {Benchmarked, Failed} :
          /\ results' = Results(st, "fair", "none")
          /\ man' = WithRun(Advance(Advance(man, measured \ bad, Benchmarked), bad, Failed),
                            st, Run("fair"))
    BY <1>2 DEF FairResults, WithRun
  <2>2. /\ pc = "fairJobs" /\ pc' = "publish" /\ man \in Manifests /\ runs \in 0..MaxRuns
        /\ UNCHANGED <<manifest, report, spoiled>>
        /\ manifest # Absent /\ manifest.state = Verified /\ man = manifest
        /\ manifest.measurement = runs /\ Good(manifest, results, spoiled)
    BY <1>2 DEF FairResults, TypeInv, TypeOK, MemoryOK, WithManifest, RecordInv, Shown,
                WhileMeasuring, Jobs
  <2> HIDE DEF measured
  <2>3. Settled(man') /\ man'.state = st /\ man'.by = Run("fair") /\ man'.measurement = runs
    BY <2>1, <2>2, MeasuredRecord, Names DEF Good
  <2>4. Good(man', results', spoiled)
    BY <2>1, <2>3, States DEF Good, Estimand, Backed, Unspoiled, Results, Run
  <2>5. Shown' /\ ReportShowsEvidence'
    BY <2>2, VerifiedIsGood, NoReportClaimed, States DEF Shown
  <2>6. QED
    BY <2>2, <2>3, <2>4, <2>5, ProfilesAssumption, States
    DEF RecordInv, WhilePreparing, WhileVerifying, WhileMeasuring, WhileRendering, Jobs, Rendering
<1>3. ASSUME NEW lane \in Profiles, ProfileStart(lane) PROVE RecordInv'
  <2>1. /\ pc' = lane /\ manifest # Absent /\ manifest.state = Verified /\ man' = manifest
        /\ UNCHANGED <<manifest, results, report, spoiled>>
    BY <1>3 DEF ProfileStart, CanRunProfile, documents
  <2>2. Shown' /\ ReportShowsEvidence'
    BY <2>1, DocumentsKept DEF RecordInv
  <2>3. QED
    BY <2>1, <2>2, ProfilesAssumption
    DEF RecordInv, WhilePreparing, WhileVerifying, WhileMeasuring, WhileRendering, Jobs, Rendering
<1>4. ASSUME NEW lane \in Profiles, ProfileResults(lane) PROVE RecordInv'
  <2>1. /\ pc = lane /\ pc' = "publish" /\ man \in Manifests
        /\ \E obs : results' = Results(Benchmarked, lane, obs)
        /\ man' = WithRun(man, Benchmarked, Run(lane))
        /\ UNCHANGED <<manifest, report, spoiled>>
        /\ manifest # Absent /\ manifest.state = Verified /\ man = manifest
        /\ Good(manifest, results, spoiled)
    BY <1>4 DEF ProfileResults, WithRun, TypeInv, TypeOK, MemoryOK, WithManifest, RecordInv, Shown,
                WhileMeasuring, Jobs
  <2>2. /\ man'.state = Benchmarked /\ man'.by = Run(lane) /\ man'.formats = man.formats
    BY <2>1, Fields
  <2>3. Settled(man')
    BY <2>1, <2>2, States DEF Good, Settled, InState, Entries
  <2>4. Good(man', results', spoiled)
    BY <2>1, <2>2, <2>3, ProfilesAssumption, States
    DEF Good, Estimand, Backed, Unspoiled, Results, Run
  <2>5. Shown' /\ ReportShowsEvidence'
    BY <2>1, VerifiedIsGood, NoReportClaimed, States DEF Shown
  <2>6. QED
    BY <2>1, <2>2, <2>4, <2>5, ProfilesAssumption, States
    DEF RecordInv, WhilePreparing, WhileVerifying, WhileMeasuring, WhileRendering, Jobs, Rendering
<1>5. CASE PublishManifest
  <2>1. /\ pc' = "idle" /\ manifest' = man /\ Good(man, results, spoiled) /\ man.state # Reported
        /\ UNCHANGED <<results, spoiled>>
    BY <1>5 DEF PublishManifest, Finish, RecordInv, WhileMeasuring
  <2>2. QED
    BY <2>1, AtRest, NoReportClaimed DEF RecordInv, Shown, InMemory
<1>6. CASE EquivalenceStart
  <2>1. PICK pairs \in (SUBSET Pairs) \ {{}} :
          /\ \A f \in UNION Complete(manifest, pairs) : Admitted(manifest, f)
          /\ manifest' = WithEndpoints(manifest, runs + 1, pairs)
    BY <1>6 DEF EquivalenceStart, WithEndpoints
  <2>2. /\ pc' = "pairJobs" /\ runs' = runs + 1 /\ manifest # Absent /\ manifest \in Manifests
        /\ manifest.state = Verified /\ man' = manifest' /\ runs + 1 \in 0..MaxRuns
        /\ UNCHANGED <<results, spoiled>>
    BY <1>6, RunsAssumption DEF EquivalenceStart, CanRunProfile, TypeInv, TypeOK
  <2>3. /\ manifest'.state = Verified /\ manifest'.by = manifest.by
        /\ manifest'.formats = manifest.formats /\ manifest'.measurement = runs'
        /\ manifest'.endpoints = pairs /\ manifest' # Absent
    <3>1. manifest' \in Manifests
      BY <2>1, <2>2, Recording
    <3>2. QED
      BY <2>1, <2>2, <3>1, Fields, Names
  <2>4. Shown' /\ ReportShowsEvidence'
    BY <2>2, <2>3, VerifiedIsGood, NoReportClaimed, States DEF RecordInv, Shown
  <2>5. \A f \in UNION Complete(manifest', manifest'.endpoints) : spoiled'[f] # Verified
    <3>1. Complete(manifest', manifest'.endpoints) = Complete(manifest, pairs)
      BY <2>3 DEF Complete, InState, Entries
    <3>2. ASSUME NEW f \in UNION Complete(manifest, pairs) PROVE spoiled[f] = "no"
      <4>1. f \in Formats /\ artifact[f] = "encoded"
        BY <2>1, PairsAssumption DEF Complete, Admitted
      <4>2. QED
        BY <4>1 DEF SafeInv, Artifacts
    <3>3. Verified # "no"
      BY DEF Verified
    <3>4. QED
      BY <2>2, <3>1, <3>2, <3>3
  <2>6. manifest'.endpoints # {}
    BY <2>1, <2>3
  <2>7. WhileMeasuring'
    <3>1. pc' \notin {"publish", "pairResults"}
      BY <2>2
    <3>2. manifest'.measurement = runs'
      BY <2>3
    <3>3. QED
      BY <2>2, <2>3, <2>5, <2>6, <3>1, <3>2, Zenon DEF WhileMeasuring
  <2>8. QED
    BY <2>2, <2>4, <2>7, ProfilesAssumption
    DEF RecordInv, WhilePreparing, WhileVerifying, WhileRendering, Rendering
<1>7. CASE EquivalenceManifest
  <2> DEFINE measured == UNION Complete(man, man.endpoints)
  <2>1. PICK bad \in SUBSET measured, st \in {Benchmarked, Failed} :
          manifest' = WithRun(Advance(Advance(man, measured \ bad, Benchmarked), bad, Failed),
                              st, Run("equivalence"))
    BY <1>7 DEF EquivalenceManifest, WithRun
  <2>2. /\ pc = "pairJobs" /\ pc' = "pairResults" /\ man \in Manifests /\ runs \in 0..MaxRuns
        /\ man' = manifest' /\ UNCHANGED spoiled
        /\ manifest # Absent /\ man.state = Verified /\ man = manifest
        /\ man.measurement = runs /\ man.endpoints # {} /\ Good(man, results, spoiled)
        /\ \A f \in measured : spoiled[f] # Verified
    BY <1>7 DEF EquivalenceManifest, TypeInv, TypeOK, MemoryOK, WithManifest, RecordInv, Shown,
                WhileMeasuring, Jobs
  <2> HIDE DEF measured
  <2>3. /\ manifest' \in Manifests /\ Settled(manifest')
        /\ manifest'.state = st /\ manifest'.by = Run("equivalence")
        /\ manifest'.measurement = runs /\ manifest'.endpoints # {}
        /\ InState(manifest', Reportable) \subseteq measured \ bad
    BY <2>1, <2>2, MeasuredRecord, Names DEF Good
  <2>4. Good(manifest', results', spoiled')
    BY <2>2, <2>3, States DEF Good, Estimand, Backed, Unspoiled, Run, ResultsFirst
  <2>5. Shown' /\ ReportShowsEvidence'
    BY <2>3, <2>4, NoReportClaimed, States DEF Shown
  <2>6. QED
    BY <2>2, <2>3, <2>5, ProfilesAssumption, Names, States
    DEF RecordInv, WhilePreparing, WhileVerifying, WhileMeasuring, WhileRendering, Jobs, Rendering,
        Run
<1>8. CASE EquivalenceResults
  <2>1. /\ pc = "pairResults" /\ pc' = "idle" /\ UNCHANGED <<manifest, spoiled>>
        /\ manifest # Absent /\ manifest.by.lane = "equivalence" /\ manifest.state # Reported
        /\ Good(manifest, results, spoiled)
    BY <1>8 DEF EquivalenceResults, Finish, RecordInv, WhileMeasuring, Shown
  <2>2. Good(manifest, results', spoiled)
    BY <2>1 DEF Good, Backed, ResultsFirst
  <2>3. QED
    BY <2>1, <2>2, AtRest, NoReportClaimed DEF RecordInv, Shown, InMemory
<1>9. QED
  BY <1>1, <1>2, <1>3, <1>4, <1>5, <1>6, <1>7, <1>8 DEF Fair, Profile, Equivalence

\* Rendering keeps it: the report shows what the next two writes make the documents.
LEMMA RecordRender == TypeInv /\ RecordInv /\ Render => RecordInv'
<1> SUFFICES ASSUME TypeInv, RecordInv, Render PROVE RecordInv'
  OBVIOUS
<1>1. CASE ReportOpen
  <2>1. /\ pc' = "reportText" /\ manifest # Absent /\ results # Absent
        /\ manifest \in Manifests /\ results \in ResultsDocuments
        /\ manifest.state \in Reportable /\ results.state \in Reportable
        /\ man' = AsReportedManifest(manifest) /\ res' = AsReportedResults(results)
        /\ report' = Torn /\ UNCHANGED <<manifest, results, spoiled>>
        /\ Good(manifest, results, spoiled)
    BY <1>1, States, Names DEF ReportOpen, TypeInv, TypeOK, RecordInv, Shown
  <2>2. /\ man'.state = Reported /\ Entries(man') = Entries(manifest)
        /\ \A f \in Entries(manifest) : man'.formats[f] = StepReported(manifest.formats[f])
    BY <2>1, AsReported, States DEF StepReported
  <2>3. /\ man'.by = manifest.by /\ man'.measurement = manifest.measurement
        /\ man'.endpoints = manifest.endpoints
        /\ manifest.state = Reported => man' = manifest
    BY <2>1, ReportedForm DEF Good
  <2>4. /\ InState(man', {Encoded}) = InState(manifest, {Encoded})
        /\ InState(man', Reportable) = InState(manifest, Reportable)
        /\ InState(man', {Benchmarked}) = {}
    BY <2>2, States DEF InState, StepReported
  <2>5. Good(man', results, spoiled)
    BY <2>1, <2>2, <2>3, <2>4, States DEF Good, Settled, Estimand, Backed, Unspoiled
  <2>6. Shown' /\ ReportShowsEvidence'
    BY <2>1 DEF Shown, ReportShowsEvidence
  <2>7. WhileRendering'
    BY <2>1, <2>2, <2>3, <2>5 DEF WhileRendering
  <2>8. QED
    BY <2>1, <2>6, <2>7, ProfilesAssumption
    DEF RecordInv, WhilePreparing, WhileVerifying, WhileMeasuring, Jobs
<1>2. CASE ReportText
  <2>1. /\ pc = "reportText" /\ pc' = "reportManifest"
        /\ report' = [state |-> Reported, of |-> <<man, res>>]
        /\ UNCHANGED <<manifest, results, man, res, spoiled>>
    BY <1>2 DEF ReportText
  <2>2. WhileRendering'
    BY <2>1 DEF RecordInv, WhileRendering, Rendering
  <2>3. Shown' /\ ReportShowsEvidence'
    BY <2>1 DEF RecordInv, WhileRendering, Rendering, Shown, ReportShowsEvidence
  <2>4. QED
    BY <2>1, <2>2, <2>3, ProfilesAssumption
    DEF RecordInv, WhilePreparing, WhileVerifying, WhileMeasuring, Jobs
<1>3. CASE ReportManifest
  <2>1. /\ pc = "reportManifest" /\ pc' = "reportResults" /\ manifest' = man
        /\ man \in Manifests /\ UNCHANGED <<results, report, man, res, spoiled>>
    BY <1>3 DEF ReportManifest, TypeInv, MemoryOK, WithManifest
  <2>2. WhileRendering'
    BY <2>1, Names DEF RecordInv, WhileRendering, Rendering
  <2>3. Shown' /\ ReportShowsEvidence'
    BY <2>1 DEF RecordInv, WhileRendering, Rendering, Shown, ReportShowsEvidence
  <2>4. QED
    BY <2>1, <2>2, <2>3, ProfilesAssumption
    DEF RecordInv, WhilePreparing, WhileVerifying, WhileMeasuring, Jobs
<1>4. CASE ReportResults
  <2>1. /\ pc = "reportResults" /\ pc' = "idle" /\ results' = res
        /\ results # Absent /\ results \in ResultsDocuments /\ res = AsReportedResults(results)
        /\ results.state \in Reportable /\ UNCHANGED <<manifest, report, spoiled>>
        /\ Good(man, results, spoiled) /\ manifest = man
        /\ report.state = Reported /\ report.of = <<man, res>>
    BY <1>4 DEF ReportResults, Finish, TypeInv, TypeOK, RecordInv, WhileRendering, Rendering
  <2>2. results'.by = results.by /\ results'.state = Reported /\ AsReportedResults(results') = res
    BY <2>1, ReportedForm, States DEF StepReported
  <2>3. Good(manifest, results', spoiled)
    BY <2>1, <2>2, States DEF Good, Backed
  <2>4. Shown' /\ ReportShowsEvidence'
    BY <2>1, <2>2, <2>3 DEF Shown, ReportShowsEvidence
  <2>5. QED
    BY <2>1, <2>4, AtRest DEF RecordInv, InMemory
<1>5. QED
  BY <1>1, <1>2, <1>3, <1>4 DEF Render

\* Packaging and a crash keep it, and an artifact altered between two commands is
\* recorded with the state its entry has, which a measured entry has left behind.
LEMMA RecordRest ==
    TypeInv /\ SafeInv /\ RecordInv /\ (Package \/ Abort \/ \E f \in Formats : Disturb(f))
        => RecordInv'
<1> SUFFICES ASSUME TypeInv, SafeInv, RecordInv,
                    Package \/ Abort \/ \E f \in Formats : Disturb(f)
             PROVE  RecordInv'
  OBVIOUS
<1>1. CASE Package \/ Abort
  <2>1. pc' \in {"idle", "checksum"} /\ UNCHANGED <<manifest, results, report, spoiled>>
    BY <1>1 DEF Package, PackageArchive, PackageChecksum, Abort, Finish, documents
  <2>2. QED
    BY <2>1, AtRest, DocumentsKept DEF RecordInv, InMemory
<1>2. ASSUME NEW f \in Formats, Disturb(f) PROVE RecordInv'
  <2>1. /\ UNCHANGED <<manifest, results, report, pc, man, res, runs>>
        /\ spoiled \in [Formats -> {"no"} \cup ExecutionState]
        /\ spoiled' = [spoiled EXCEPT ![f] = IF pc = "idle" THEN DurableState(f) ELSE @]
    BY <1>2 DEF Disturb, documents, memory, TypeInv, TypeOK
  <2>2. ReportShowsEvidence'
    BY <2>1 DEF RecordInv, ReportShowsEvidence
  <2>3. CASE pc = "idle"
    <3>1. ASSUME manifest # Absent PROVE Good(manifest, results, spoiled')
      <4>1. Good(manifest, results, spoiled) /\ Entries(manifest) \subseteq Formats
        BY <3>1, Selection DEF RecordInv, Shown, TypeInv, TypeOK
      <4>2. f \in InState(manifest, Reportable) => DurableState(f) # Verified
        BY <3>1, States DEF DurableState, InState
      <4>3. \A g \in InState(manifest, Reportable) : spoiled[g] # Verified => spoiled'[g] # Verified
        BY <2>1, <2>3, <4>1, <4>2 DEF InState
      <4>4. QED
        BY <4>1, <4>3 DEF Good, Unspoiled
    <3>2. QED
      BY <2>1, <2>2, <2>3, <3>1, AtRest DEF RecordInv, Shown, InMemory
  <2>4. CASE pc # "idle"
    <3>1. spoiled' = spoiled
      BY <2>1, <2>4
    <3>2. QED
      BY <2>1, <2>2, <3>1
      DEF RecordInv, Shown, WhilePreparing, WhileVerifying, WhileMeasuring, WhileRendering,
          InState, Entries, Complete
  <2>5. QED
    BY <2>3, <2>4
<1>3. QED
  BY <1>1, <1>2

\* Every step keeps the invariant.
LEMMA RecordNext == TypeInv /\ SafeInv /\ RecordInv /\ [Next]_vars => RecordInv'
<1>1. RecordInv /\ UNCHANGED vars => RecordInv'
  BY DEF vars, files, documents, release, memory, RecordInv, Shown, ReportShowsEvidence,
         WhilePreparing, WhileVerifying, WhileMeasuring, WhileRendering, InState, Entries, Complete
<1>2. QED
  BY <1>1, RecordPrepare, RecordVerify, RecordProfiles, RecordRender, RecordRest DEF Next

\* So it always holds.
LEMMA RecordInvariance == Spec => []RecordInv
  BY TypeInvariance, SafeInvariance, RecordInit, RecordNext, PTL DEF Spec

-----------------------------------------------------------------------------

\* run_equivalence never benchmarks an artifact that was altered after verify_run:
\* admission compares the digests, and no other command opens a way around it.
THEOREM NothingSpoiledIsCompared == Spec => []SpoiledNeverCompared
<1>1. RecordInv => SpoiledNeverCompared
  BY DEF RecordInv, Shown, Good, Unspoiled, SpoiledNeverCompared
<1>2. QED
  BY <1>1, RecordInvariance, PTL

\* A REPORTED manifest has a report that shows it and its results, unless a second
\* rendering has just torn it; a crash between render_report's writes loses nothing.
THEOREM ReportIsOfTheEvidence == Spec => []ReportShowsEvidence
<1>1. RecordInv => ReportShowsEvidence
  BY DEF RecordInv
<1>2. QED
  BY <1>1, RecordInvariance, PTL

\* Where results.json is written first, a manifest whose evidence can be reported has
\* the results of its own run beside it, whatever crashed before.
THEOREM ResultsBackManifest == Spec => []ManifestNotAheadOfResults
<1>1. RecordInv => ManifestNotAheadOfResults
  BY States DEF RecordInv, Shown, Good, Backed, ManifestNotAheadOfResults, Reportable,
                Absent, Benchmarked, Reported
<1>2. QED
  BY <1>1, RecordInvariance, PTL

\* While jobs run, and in every manifest they have benchmarked, the estimand on disk is
\* the one of that run, and a comparison has declared its endpoints.
THEOREM EstimandPrecedesJobs == Spec => []MetadataBeforeJobs
<1>1. RecordInv => MetadataBeforeJobs
  BY States DEF RecordInv, Shown, Good, Estimand, WhileMeasuring, MetadataBeforeJobs, Reportable,
                Absent, Benchmarked, Reported
<1>2. QED
  BY <1>1, RecordInvariance, PTL

=============================================================================
