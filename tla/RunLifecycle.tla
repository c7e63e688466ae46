---------------------------- MODULE RunLifecycle ----------------------------
(***************************************************************************)
(* One run directory and the CLI commands that move its evidence along:    *)
(* prepare, verify, the profile runs (fair, claims, prompt, robustness,    *)
(* equivalence), report and package.  A command is a sequential program    *)
(* that loads manifest.json into memory and replaces documents one at a    *)
(* time; it may stop between any two of its writes.  Commands on one       *)
(* directory run one after the other (README.md:92 keeps profiles in       *)
(* directories of their own; the code takes no lock).                      *)
(*                                                                         *)
(* A digest of a document is modelled by the document it is the digest of. *)
(***************************************************************************)
EXTENDS Evidence, Integers

CONSTANTS
    Formats,        \* the formats the adapters encode
    FairFormats,    \* those whose entry is in the fair lane
    Pairs,          \* the equivalence pairs: the set of formats each requires
    Profiles,       \* the profiles used besides fair and equivalence
    MaxRuns         \* how many profile runs are started (bounds the model)

ASSUME FairAssumption == FairFormats \subseteq Formats
ASSUME PairsAssumption == Pairs \subseteq SUBSET Formats
ASSUME ProfilesAssumption == Profiles \subseteq {"claims", "prompt", "robustness"}
ASSUME RunsAssumption == MaxRuns \in Nat

VARIABLES
    runDir,         \* the directory exists
    claimsDir,      \* its claims/ directory exists
    artifact,       \* artifact[f]: "absent", as "encoded" by prepare, or "altered":
                    \* changed or removed since
    manifest,       \* manifest.json
    results,        \* results.json
    report,         \* report.md
    archive,        \* the package written last
    checksum,       \* the adjacent .sha256 file is the digest of that package
    pc,             \* where the running command is; "idle" between commands
    man,            \* the manifest the running command holds in memory
    res,            \* the results it holds in memory
    runs,           \* profile runs started so far
    spoiled         \* history: the durable state entry f had when its artifact
                    \* was altered between two commands ("no" if it never was)

files == <<runDir, claimsDir, artifact>>
documents == <<manifest, results, report>>
release == <<archive, checksum>>
memory == <<pc, man, res>>
vars == <<files, documents, release, memory, runs, spoiled>>

-----------------------------------------------------------------------------
(* Documents *)

Absent == [state |-> "ABSENT"]
Torn   == [state |-> "TORN"]     \* write_text has truncated the file and not filled it

ResultsFirst == {"fair", "claims", "prompt", "robustness"}
Lanes == ResultsFirst \cup {"equivalence"}

NoRun == [run |-> 0, lane |-> "none"]
Run(lane) == [run |-> runs, lane |-> lane]

(* formats: the state of each selected entry.  proved: the entries whose   *)
(* observation zero says roundtrip_verified.  sizes: prepare made as many  *)
(* size observations as equivalence expects.  measurement: the profile run *)
(* whose estimand metadata is recorded.  endpoints: the pairs whose        *)
(* endpoints are declared.  by: the profile run that measured (history).   *)
NewManifest(selected, enough) ==
    [state |-> Discovered, formats |-> [f \in selected |-> Discovered], proved |-> {},
     sizes |-> enough, measurement |-> 0, endpoints |-> {}, by |-> NoRun]

Entries(m) == DOMAIN m.formats
InState(m, S) == {f \in Entries(m) : m.formats[f] \in S}

\* Every entry of `from` goes to `to`, the other entries keep their state.
Advance(m, from, to) ==
    [m EXCEPT !.formats = [f \in Entries(m) |-> IF f \in from THEN to ELSE m.formats[f]]]

\* obs: the state of the profile's observation; fair and equivalence jobs have none.
Results(st, lane, obs) == [state |-> st, by |-> Run(lane), obs |-> obs]

StepReported(st) == IF st = Benchmarked THEN Reported ELSE st

\* _report_observations, then the transition of the document itself.
AsReportedManifest(m) ==
    [Advance(m, InState(m, {Benchmarked}), Reported) EXCEPT !.state = StepReported(@)]
AsReportedResults(r) == [r EXCEPT !.state = StepReported(@), !.obs = StepReported(@)]

Init ==
    /\ runDir = FALSE /\ claimsDir = FALSE
    /\ artifact = [f \in Formats |-> "absent"]
    /\ manifest = Absent /\ results = Absent /\ report = Absent
    /\ archive = Absent /\ checksum = FALSE
    /\ pc = "idle" /\ man = Absent /\ res = Absent
    /\ runs = 0
    /\ spoiled = [f \in Formats |-> "no"]

Finish == pc' = "idle" /\ man' = Absent /\ res' = Absent

-----------------------------------------------------------------------------
(* prepare_run *)

\* The leaf is created exclusively: a directory is prepared once.
PrepareMkdir ==
    /\ pc = "idle" /\ ~runDir
    /\ runDir' = TRUE
    /\ pc' = "encode"
    /\ \E selected \in SUBSET Formats, enough \in BOOLEAN : man' = NewManifest(selected, enough)
    /\ UNCHANGED <<claimsDir, artifact, documents, release, res, runs, spoiled>>

\* An adapter that fails leaves no artifact: UNSUPPORTED on an import error, else FAILED.
EncodeFormat(f) ==
    /\ pc = "encode"
    /\ f \in InState(man, {Discovered})
    /\ \E st \in {Encoded} \cup Failures :
          /\ man' = Advance(man, {f}, st)
          /\ artifact' = [artifact EXCEPT ![f] = IF st = Encoded THEN "encoded" ELSE "absent"]
    /\ UNCHANGED <<runDir, claimsDir, documents, release, pc, res, runs, spoiled>>

PrepareWrite ==
    /\ pc = "encode"
    /\ InState(man, {Discovered}) = {}
    /\ manifest' = [man EXCEPT !.state = Encoded]
    /\ Finish
    /\ UNCHANGED <<files, results, report, release, runs, spoiled>>

-----------------------------------------------------------------------------
(* verify_run *)

VerifyLoad ==
    /\ pc = "idle" /\ manifest # Absent
    /\ Entries(manifest) # {}
    /\ pc' = "verify" /\ man' = manifest
    /\ UNCHANGED <<files, documents, release, res, runs, spoiled>>

\* transition(ENCODED, FAILED) is legal whatever state the manifest is really in.
VerifyNothing ==
    /\ pc = "idle" /\ manifest # Absent
    /\ Entries(manifest) = {}
    /\ manifest' = [manifest EXCEPT !.state = Failed]
    /\ UNCHANGED <<files, results, report, release, memory, runs, spoiled>>

\* A bug: the digest is not compared.
VerifyWithoutDigest(f) == man' = [Advance(man, {f}, Verified) EXCEPT !.proved = @ \cup {f}]

\* The artifact reads back equal and has the digest observation zero recorded.
VerifyPasses(f) ==
    /\ artifact[f] = "encoded"
    /\ man' = [Advance(man, {f}, Verified) EXCEPT !.proved = @ \cup {f}]

\* A bug: entries that have already ended are verified again.
VerifyEveryEntry(f) ==
    /\ pc = "verify"
    /\ f \in Entries(man)
    /\ VerifyPasses(f) \/ man' = Advance(man, {f}, Failed)
    /\ UNCHANGED <<files, documents, release, pc, res, runs, spoiled>>

VerifyEntry(f) ==
    /\ pc = "verify"
    /\ f \in InState(man, {Encoded})
    /\ \/ VerifyPasses(f)
       \/ man' = Advance(man, {f}, Failed)
    /\ UNCHANGED <<files, documents, release, pc, res, runs, spoiled>>

\* The run state verify_run computes from the entries, whatever it was before.
VerifiedRunState(m) ==
    IF InState(m, Failures \cup {Verified}) # Entries(m) THEN m.state
    ELSE IF InState(m, {Verified}) # {} THEN Verified
    ELSE IF InState(m, {Failed}) # {} THEN Failed ELSE Unsupported

VerifyWrite ==
    /\ pc = "verify"
    /\ InState(man, {Encoded}) = {}
    /\ manifest' = [man EXCEPT !.state = VerifiedRunState(man)]
    /\ Finish
    /\ UNCHANGED <<files, results, report, release, runs, spoiled>>

-----------------------------------------------------------------------------
(* The profile runs.  Each requires a ROUNDTRIP_VERIFIED manifest. *)

CanRunProfile ==
    /\ pc = "idle" /\ runs < MaxRuns
    /\ manifest # Absent /\ manifest.state = Verified

\* A bug: the metadata stays in memory until the jobs have ended.
FairStartInMemory ==
    /\ CanRunProfile
    /\ runs' = runs + 1
    /\ man' = [manifest EXCEPT !.measurement = runs + 1]
    /\ pc' = "fairJobs"
    /\ UNCHANGED <<files, documents, release, res, spoiled>>

\* run_fair: the estimand metadata is written before the jobs start.
FairStart ==
    /\ CanRunProfile
    /\ runs' = runs + 1
    /\ manifest' = [manifest EXCEPT !.measurement = runs + 1]
    /\ man' = manifest'
    /\ pc' = "fairJobs"
    /\ UNCHANGED <<files, results, report, release, res, spoiled>>

\* A bug: the manifest is written before the results.
FairManifestFirst ==
    /\ pc = "fairJobs"
    /\ LET measured == InState(man, {Verified}) \cap FairFormats IN
          /\ measured # {}
          /\ manifest' = [Advance(man, measured, Benchmarked)
                             EXCEPT !.state = Benchmarked, !.by = Run("fair")]
          /\ res' = Results(Benchmarked, "fair", "none")
    /\ man' = manifest'
    /\ pc' = "pairResults"
    /\ UNCHANGED <<files, results, report, release, runs, spoiled>>

\* The jobs of the formats in bad fail; results.json is written before the manifest.
FairResults ==
    /\ pc = "fairJobs"
    /\ LET measured == InState(man, {Verified}) \cap FairFormats IN
       \E bad \in SUBSET measured :
          LET st == IF bad # measured THEN Benchmarked ELSE Failed IN
          /\ results' = Results(st, "fair", "none")
          /\ man' = [Advance(Advance(man, measured \ bad, Benchmarked), bad, Failed)
                        EXCEPT !.state = st, !.by = Run("fair")]
    /\ pc' = "publish"
    /\ UNCHANGED <<files, manifest, report, release, res, runs, spoiled>>

\* run_claims, run_prompt, run_bounded and run_native: _load.  claims/ must be new.
ProfileStart(lane) ==
    /\ CanRunProfile
    /\ lane = "claims" => ~claimsDir
    /\ claimsDir' = (claimsDir \/ lane = "claims")
    /\ runs' = runs + 1
    /\ man' = manifest
    /\ pc' = lane
    /\ UNCHANGED <<runDir, artifact, documents, release, res, spoiled>>

\* A claim may fail or be unsupported (_attempt); the other observations are BENCHMARKED.
Observations(lane) == IF lane = "claims" THEN {Benchmarked} \cup Failures ELSE {Benchmarked}

\* _finish: the results first ...
ProfileResults(lane) ==
    /\ pc = lane
    /\ \E obs \in Observations(lane) : results' = Results(Benchmarked, lane, obs)
    /\ man' = [man EXCEPT !.state = Benchmarked, !.by = Run(lane)]
    /\ pc' = "publish"
    /\ UNCHANGED <<files, manifest, report, release, res, runs, spoiled>>

\* ... then the manifest, as run_fair does.
PublishManifest ==
    /\ pc = "publish"
    /\ manifest' = man
    /\ Finish
    /\ UNCHANGED <<files, results, report, release, runs, spoiled>>

\* run_equivalence measures the pairs all of whose formats are verified.
Complete(m, pairs) == {p \in pairs : p \subseteq InState(m, {Verified})}

\* A bug: a stale digest is not noticed.
AdmittedByRecord(m, f) == m.sizes /\ f \in m.proved

\* validate_equivalence_admission of one format.
Admitted(m, f) == m.sizes /\ f \in m.proved /\ artifact[f] = "encoded"

EquivalenceStart ==
    /\ CanRunProfile
    /\ runs' = runs + 1
    /\ \E pairs \in (SUBSET Pairs) \ {{}} :
          /\ \A f \in UNION Complete(manifest, pairs) : Admitted(manifest, f)
          /\ manifest' = [manifest EXCEPT !.measurement = runs + 1, !.endpoints = pairs]
    /\ man' = manifest'
    /\ pc' = "pairJobs"
    /\ UNCHANGED <<files, results, report, release, res, spoiled>>

\* Here the manifest is written first, and the results after it.
EquivalenceManifest ==
    /\ pc = "pairJobs"
    /\ LET measured == UNION Complete(man, man.endpoints)
           missing == man.endpoints \ Complete(man, man.endpoints)
       IN \E bad \in SUBSET measured :
          LET st == IF bad # measured \/ missing # {} THEN Benchmarked ELSE Failed IN
          /\ manifest' = [Advance(Advance(man, measured \ bad, Benchmarked), bad, Failed)
                             EXCEPT !.state = st, !.by = Run("equivalence")]
          /\ res' = Results(st, "equivalence", "none")
    /\ man' = manifest'
    /\ pc' = "pairResults"
    /\ UNCHANGED <<files, results, report, release, runs, spoiled>>

EquivalenceResults ==
    /\ pc = "pairResults"
    /\ results' = res
    /\ Finish
    /\ UNCHANGED <<files, manifest, report, release, runs, spoiled>>

-----------------------------------------------------------------------------
(* render_report *)

Reportable == {Benchmarked, Reported}

\* The transitions are made in memory; then write_text truncates report.md ...
ReportOpen ==
    /\ pc = "idle"
    /\ manifest.state \in Reportable /\ results.state \in Reportable
    /\ man' = AsReportedManifest(manifest)
    /\ res' = AsReportedResults(results)
    /\ report' = Torn
    /\ pc' = "reportText"
    /\ UNCHANGED <<files, manifest, results, release, runs, spoiled>>

\* A bug: the digests are those of the documents before their transition.
ReportTextEarly ==
    /\ pc = "reportText"
    /\ report' = [state |-> Reported, of |-> <<manifest, results>>]
    /\ pc' = "reportManifest"
    /\ UNCHANGED <<files, manifest, results, release, man, res, runs, spoiled>>

\* ... and fills it with the evidence and the digests of both documents.
ReportText ==
    /\ pc = "reportText"
    /\ report' = [state |-> Reported, of |-> <<man, res>>]
    /\ pc' = "reportManifest"
    /\ UNCHANGED <<files, manifest, results, release, man, res, runs, spoiled>>

ReportManifest ==
    /\ pc = "reportManifest"
    /\ manifest' = man
    /\ pc' = "reportResults"
    /\ UNCHANGED <<files, results, report, release, man, res, runs, spoiled>>

ReportResults ==
    /\ pc = "reportResults"
    /\ results' = res
    /\ Finish
    /\ UNCHANGED <<files, manifest, report, release, runs, spoiled>>

-----------------------------------------------------------------------------
(* package_run *)

\* _release_files wants report.md to exist, whatever it contains.  It also wants the
\* artifacts of the entries that have not failed: an altered artifact may be there
\* or not, and packaging then happens or is refused.
Packageable ==
    /\ manifest.state = Reported /\ results.state = Reported
    /\ report # Absent

\* The archive appears by a rename.  Digests in the report are rewritten to the
\* archived documents'; the evidence the report shows is archived as it is.
PackageArchive ==
    /\ pc = "idle"
    /\ Packageable
    /\ archive' = [state |-> Reported, of |-> <<manifest, results>>, report |-> report]
    /\ checksum' = (checksum /\ archive' = archive)
    /\ pc' = "checksum"
    /\ UNCHANGED <<files, documents, man, res, runs, spoiled>>

PackageChecksum ==
    /\ pc = "checksum"
    /\ checksum' = TRUE
    /\ Finish
    /\ UNCHANGED <<files, documents, archive, runs, spoiled>>

-----------------------------------------------------------------------------
(* The environment *)

\* The process is killed, or an exception leaves the command: memory is lost.
Abort ==
    /\ pc # "idle"
    /\ Finish
    /\ UNCHANGED <<files, documents, release, runs, spoiled>>

DurableState(f) ==
    IF manifest # Absent /\ f \in Entries(manifest) THEN manifest.formats[f] ELSE Discovered

\* Something outside the commands changes or removes an artifact.
Disturb(f) ==
    /\ artifact[f] = "encoded"
    /\ artifact' = [artifact EXCEPT ![f] = "altered"]
    /\ spoiled' = [spoiled EXCEPT ![f] = IF pc = "idle" THEN DurableState(f) ELSE @]
    /\ UNCHANGED <<runDir, claimsDir, documents, release, memory, runs>>

Prepare == PrepareMkdir \/ (\E f \in Formats : EncodeFormat(f)) \/ PrepareWrite
Verify == VerifyLoad \/ VerifyNothing \/ (\E f \in Formats : VerifyEntry(f)) \/ VerifyWrite
Fair == FairStart \/ FairResults
Profile == \E lane \in Profiles : ProfileStart(lane) \/ ProfileResults(lane)
Equivalence == EquivalenceStart \/ EquivalenceManifest \/ EquivalenceResults
Render == ReportOpen \/ ReportText \/ ReportManifest \/ ReportResults
Package == PackageArchive \/ PackageChecksum

Next == Prepare \/ Verify \/ Fair \/ Profile \/ PublishManifest \/ Equivalence
        \/ Render \/ Package \/ Abort \/ (\E f \in Formats : Disturb(f))

Spec == Init /\ [][Next]_vars

-----------------------------------------------------------------------------
(* Properties *)

Manifests ==
    UNION { [state : ExecutionState, formats : [selected -> ExecutionState],
             proved : SUBSET selected, sizes : BOOLEAN, measurement : 0..MaxRuns,
             endpoints : SUBSET Pairs, by : [run : 0..MaxRuns, lane : Lanes \cup {"none"}]]
            : selected \in SUBSET Formats }
ResultsDocuments == [state : {Benchmarked, Reported, Failed},
                     by : [run : 0..MaxRuns, lane : Lanes],
                     obs : {"none"} \cup ExecutionState]
Reports == {Absent, Torn} \cup [state : {Reported}, of : Manifests \X ResultsDocuments]
Archives == {Absent} \cup [state : {Reported}, of : Manifests \X ResultsDocuments,
                           report : Reports]

\* Every variable has its type; in particular a document is absent or complete.
TypeOK ==
    /\ runDir \in BOOLEAN /\ claimsDir \in BOOLEAN
    /\ artifact \in [Formats -> {"absent", "encoded", "altered"}]
    /\ manifest = Absent \/ manifest \in Manifests
    /\ results \in {Absent} \cup ResultsDocuments
    /\ report \in Reports
    /\ archive \in Archives /\ checksum \in BOOLEAN
    /\ pc \in {"idle", "encode", "verify", "fairJobs", "publish", "pairJobs", "pairResults",
               "reportText", "reportManifest", "reportResults", "checksum"} \cup Profiles
    /\ man = Absent \/ man \in Manifests
    /\ res \in {Absent} \cup ResultsDocuments
    /\ runs \in 0..MaxRuns
    /\ spoiled \in [Formats -> {"no"} \cup ExecutionState]

Ranked == {Verified, Benchmarked, Reported}

\* No document ever shows a format as verified, measured or reported unless
\* verify_run proved its artifact: not the manifest, not the one a report was
\* rendered from, not an archived one; and a format whose artifact was altered
\* between prepare and verify is never among them (workflow.py:341-353).
RankedPassedRoundTrip ==
    LET sound(m) == /\ InState(m, Ranked) \subseteq m.proved
                    /\ \A f \in m.proved : spoiled[f] # Encoded
    IN /\ manifest # Absent => sound(manifest)
       /\ report.state = Reported => sound(report.of[1])
       /\ archive # Absent => sound(archive.of[1])

\* run_equivalence never benchmarks an artifact that is not the one verified: if
\* it was altered after verify and before the command, admission stops the run
\* (equivalence_admission.py:82-89), and a later pass of another profile or a
\* second verify does not open a way around it.
SpoiledNeverCompared ==
    manifest # Absent /\ manifest.by.lane = "equivalence" =>
        \A f \in InState(manifest, Reportable) : spoiled[f] # Verified

\* A manifest that says REPORTED has a report.md, and unless a second rendering has
\* just torn it, the report shows exactly that manifest, and exactly the results on
\* disk or those that rendering again after a crash would persist.  So a crash
\* between render_report's writes loses nothing that running it again does not
\* restore (report.py:845-856).
ReportShowsEvidence ==
    manifest.state = Reported =>
        \/ report = Torn
        \/ report.state = Reported /\ report.of = <<manifest, AsReportedResults(results)>>

\* For the profiles that write results.json before manifest.json, the manifest is
\* never ahead: whenever it says that a run's evidence can be reported, the
\* results on disk are those of the same run, whatever crashed before
\* (fair_run.py:100-103, profile_run.py:41-44).
ManifestNotAheadOfResults ==
    manifest.state \in Reportable /\ manifest.by.lane \in ResultsFirst =>
        results.state \in Reportable /\ results.by = manifest.by

\* While the jobs of a fair or equivalence run are running, and in every manifest
\* such a run has benchmarked, the estimand on disk is the one of that run, and
\* the endpoints of an equivalence run are declared (equivalence_run.py:122-126).
MetadataBeforeJobs ==
    /\ pc \in {"fairJobs", "pairJobs"} =>
          manifest.measurement = runs /\ (pc = "pairJobs" => manifest.endpoints # {})
    /\ manifest.state \in Reportable /\ manifest.by.lane \in {"fair", "equivalence"} =>
          /\ manifest.measurement = manifest.by.run
          /\ manifest.by.lane = "equivalence" => manifest.endpoints # {}

Contract == INSTANCE LifecycleContract WITH
                Items <- Formats, state <- [f \in Formats |-> DurableState(f)]

\* Across crashes, repeated verifies and several profiles, the durable state of each
\* format's entry moves only along the lifecycle of model.py:79-80, one legal
\* transition per write, and never out of a terminal state.
EntriesFollowContract == Contract!Spec

\* workflow.py:190-191: DISCOVERED -> ... -> REPORTED, and terminal evidence never
\* ranks; workflow.py:326: only ENCODED evidence advances to ROUNDTRIP_VERIFIED in
\* verify_run.  Said of the run's own state: each write moves it by a legal
\* transition or not at all.
RunFollowsContract ==
    [][manifest # Absent /\ manifest'.state # manifest.state
         => LegalTransition(manifest.state, manifest'.state)]_manifest

\* release.py:424-425: an archive is REPORTED only after the report's digests and the
\* archived documents agree.  Said of what the archived report shows.
ArchivedReportAgrees ==
    archive # Absent => /\ archive.report.state = Reported
                        /\ archive.report.of = archive.of

=============================================================================
