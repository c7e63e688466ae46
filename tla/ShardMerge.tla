----------------------------- MODULE ShardMerge -----------------------------
(***************************************************************************)
(* merge_equivalence_shards (shards.py): copies of one verified run, the   *)
(* shards, measure pairs of formats on their own and are merged into one   *)
(* run, while shards are still being measured, files are altered and other *)
(* merges into the same directory are under way, or are killed.            *)
(*                                                                         *)
(* The jobs of a format are one job.  What a job returns depends on the    *)
(* artifact it reads; its timings are those of the shard that ran it.      *)
(***************************************************************************)
EXTENDS Naturals, FiniteSets

CONSTANTS
    Shards,         \* the number of shards, in the order of their paths
    FormatNames, Pairs,
    FormatsOf,      \* FormatsOf[p]: the reference and the candidates of pair p
    Terminal,       \* the formats that failed or are unsupported in the base run
    Selections,     \* the sets of pairs a shard may be measured with
    Failures,       \* the sets of formats whose jobs may fail in one measurement
    Protocols,      \* environment, measurement and equivalence contract
    Merges,         \* commands that merge into one output directory
    None            \* a document that is not there

ASSUME ShardsAssumption == Shards \in Nat
ASSUME PairsAssumption == FormatsOf \in [Pairs -> SUBSET FormatNames]
ASSUME SelectionsAssumption == Selections \subseteq (SUBSET Pairs) \ {{}}
ASSUME TerminalAssumption == Terminal \subseteq FormatNames
ASSUME NoneAssumption == None \notin Merges

VARIABLES
    base,           \* the content of the base run: its input and artifacts
    shard,          \* shard[s]: content and documents of a shard
    merge,          \* merge[m]: what a merge has read
    output,         \* the output directory
    quiet           \* history: nothing was altered

vars == <<base, shard, merge, output, quiet>>

Absent == [owner |-> None, content |-> None, manifest |-> None, results |-> None]
Measured == {"BENCHMARKED", "REPORTED"}

Init ==
    /\ base = "original"
    /\ shard = [s \in 1..Shards |->
                  [content |-> "original", terminal |-> Terminal,
                   manifest |-> "ROUNDTRIP_VERIFIED", results |-> None]]
    /\ merge = [m \in Merges |-> [pc |-> "start", next |-> 1, base |-> "original"]]
    /\ output = Absent
    /\ quiet = TRUE

-----------------------------------------------------------------------------
(* Measuring a shard: run_equivalence *)

Missing(p, terminal) == FormatsOf[p] \cap terminal # {}

(* The formats a run over these pairs measures, and what it says of each pair. *)
JobsOf(pairs, terminal) == UNION {FormatsOf[p] : p \in {q \in pairs : ~ Missing(q, terminal)}}
EvidenceOf(pairs, terminal, failed) ==
    [p \in pairs |-> IF Missing(p, terminal) \/ FormatsOf[p] \cap failed # {}
                     THEN "NOT_APPLICABLE" ELSE "compared"]

(* The results are computed before the manifest is written and written after it. *)
Bench(s, pairs, failed, protocol) ==
    LET jobs == JobsOf(pairs, shard[s].terminal) IN
    /\ shard[s].manifest = "ROUNDTRIP_VERIFIED"
    /\ failed \subseteq jobs
    /\ shard' = [shard EXCEPT ![s] =
          [shard[s] EXCEPT !.manifest = IF jobs \ failed # {} \/ jobs # JobsOf(pairs, {})
                                 THEN "BENCHMARKED" ELSE "FAILED",
                    !.terminal = @ \cup failed,
                    !.results = [state |-> "unwritten", on |-> shard[s].content,
                                 jobs |-> jobs, protocol |-> protocol,
                                 pairs |-> EvidenceOf(pairs, shard[s].terminal, failed),
                                 status |-> IF failed = {} /\ jobs # {}
                                            THEN "MEASURED" ELSE "other"]]]
    /\ UNCHANGED <<base, merge, output, quiet>>

HasResults(s) == shard[s].results # None /\ shard[s].results.state # "unwritten"

WriteResults(s) ==
    /\ shard[s].results # None /\ ~ HasResults(s)
    /\ shard' = [shard EXCEPT ![s].results.state = shard[s].manifest]
    /\ UNCHANGED <<base, merge, output, quiet>>

(* render_report; the merge accepts either state of either document. *)
Report(s) ==
    /\ HasResults(s) /\ shard[s].manifest = "BENCHMARKED"
    /\ shard' = [shard EXCEPT ![s].manifest = "REPORTED", ![s].results.state = "REPORTED"]
    /\ UNCHANGED <<base, merge, output, quiet>>

(* Somebody changes the input or an artifact of one of the runs. *)
Alter ==
    /\ quiet /\ quiet' = FALSE
    /\ \/ base' = "altered" /\ UNCHANGED shard
       \/ \E s \in 1..Shards : shard' = [shard EXCEPT ![s].content = "altered"] /\ UNCHANGED base
    /\ UNCHANGED <<merge, output>>

-----------------------------------------------------------------------------
(* Merging *)

(* The base run is read and hashed; the output must not be there yet. *)
ReadBase(m) ==
    /\ merge[m].pc = "start" /\ output = Absent
    /\ merge' = [merge EXCEPT ![m] =
          [pc |-> "shards", next |-> 1, base |-> base, manifest |-> None,
           jobs |-> [f \in {} |-> 0], results |-> [f \in {} |-> None],
           pairs |-> [p \in {} |-> None], measuredBy |-> [p \in {} |-> 0],
           shared |-> {}, protocols |-> {}]]
    /\ UNCHANGED <<base, shard, output, quiet>>

ReadManifest(m) ==
    /\ merge[m].pc = "shards" /\ merge[m].next <= Shards
    /\ merge' = [merge EXCEPT ![m].pc = "manifest",
                              ![m].manifest = [state |-> shard[merge[m].next].manifest,
                                               terminal |-> shard[merge[m].next].terminal]]
    /\ UNCHANGED <<base, shard, output, quiet>>

\* A bug: a shard need not be fully measured.
AcceptableAny(m, s) ==
    LET r == shard[s].results IN
    /\ HasResults(s)
    /\ shard[s].content = merge[m].base
    /\ merge[m].manifest.state \in Measured /\ r.state \in Measured
    /\ DOMAIN r.pairs \cap DOMAIN merge[m].pairs = {}

(* Every check of a shard: files and terminal formats as in the base run,
   finished, fully measured, no pair a second time, and jobs that another
   shard has measured too returned the same. *)
Acceptable(m, s) ==
    LET r == shard[s].results IN
    /\ HasResults(s)
    /\ shard[s].content = merge[m].base
    /\ merge[m].manifest.terminal = Terminal
    /\ merge[m].manifest.state \in Measured /\ r.state \in Measured
    /\ r.status = "MEASURED"
    /\ r.jobs \cap Terminal = {}
    /\ DOMAIN r.pairs # {}
    /\ \A f \in r.jobs \cap DOMAIN merge[m].jobs : merge[m].results[f] = r.on
    /\ DOMAIN r.pairs \cap DOMAIN merge[m].pairs = {}

Extended(f, domain, value) ==
    [x \in DOMAIN f \cup domain |-> IF x \in DOMAIN f THEN f[x] ELSE value]

(* The jobs of a shard that were measured before. *)
Shared(m, s) == shard[s].results.jobs \cap DOMAIN merge[m].jobs

AddShard(m) ==
    LET s == merge[m].next
        r == shard[s].results
    IN
    /\ merge[m].pc = "manifest" /\ Acceptable(m, s)
    /\ merge' = [merge EXCEPT ![m] =
          [merge[m] EXCEPT !.pc = "shards", !.next = s + 1,
                    !.jobs = Extended(@, r.jobs, s),
                    !.results = Extended(@, r.jobs, r.on),
                    !.pairs = [p \in DOMAIN @ \cup DOMAIN r.pairs |->
                                  IF p \in DOMAIN @ THEN @[p] ELSE r.pairs[p]],
                    !.measuredBy = Extended(@, DOMAIN r.pairs, s),
                    !.shared = @ \cup Shared(m, s),
                    !.protocols = @ \cup {r.protocol}]]
    /\ UNCHANGED <<base, shard, output, quiet>>

Goto(m, pc) == merge' = [merge EXCEPT ![m].pc = pc]

(* What an ended command has read is forgotten. *)
End(m, pc) == merge' = [merge EXCEPT ![m] = [pc |-> pc, next |-> 1, base |-> @.base]]

Compare(m) ==
    /\ merge[m].pc = "shards" /\ merge[m].next > Shards
    /\ Cardinality(merge[m].protocols) = 1
    /\ Goto(m, "compared")
    /\ UNCHANGED <<base, shard, output, quiet>>

\* A bug: a directory that is there is taken.
MakeOutputAnyway(m) ==
    /\ merge[m].pc = "compared"
    /\ output' = [output EXCEPT !.owner = m]
    /\ Goto(m, "made")
    /\ UNCHANGED <<base, shard, quiet>>

(* The last level is created exclusively, whatever was seen before. *)
MakeOutput(m) ==
    /\ merge[m].pc = "compared" /\ output = Absent
    /\ output' = [output EXCEPT !.owner = m]
    /\ Goto(m, "made")
    /\ UNCHANGED <<base, shard, quiet>>

(* Hard links to the base run's files, and a copy of its manifest. *)
LinkFiles(m) ==
    /\ merge[m].pc = "made"
    /\ output' = [output EXCEPT !.content = base,
                                !.manifest = [doc |-> None, benchmarked |-> {}]]
    /\ Goto(m, "linked")
    /\ UNCHANGED <<base, shard, quiet>>

Merged(m) ==
    [by |-> m, pairs |-> merge[m].pairs, measuredBy |-> merge[m].measuredBy,
     shared |-> merge[m].shared, protocols |-> merge[m].protocols]

(* The formats with a job become BENCHMARKED. *)
WriteManifest(m) ==
    /\ merge[m].pc = "linked"
    /\ output' = [output EXCEPT !.manifest =
                     [doc |-> Merged(m), benchmarked |-> DOMAIN merge[m].jobs]]
    /\ Goto(m, "manifest written")
    /\ UNCHANGED <<base, shard, quiet>>

WriteMerged(m) ==
    /\ merge[m].pc = "manifest written"
    /\ output' = [output EXCEPT !.results =
                     [doc |-> Merged(m), jobs |-> merge[m].jobs, on |-> merge[m].results]]
    /\ End(m, "done")
    /\ UNCHANGED <<base, shard, quiet>>

(* A check fails, or the command is killed; what was written is left. *)
Stop(m) ==
    /\ merge[m].pc \notin {"done", "stopped"}
    /\ End(m, "stopped")
    /\ UNCHANGED <<base, shard, output, quiet>>

Next ==
    \/ \E s \in 1..Shards :
          \/ \E pairs \in Selections, failed \in Failures, protocol \in Protocols :
                Bench(s, pairs, failed, protocol)
          \/ WriteResults(s) \/ Report(s)
    \/ Alter
    \/ \E m \in Merges :
          \/ ReadBase(m) \/ ReadManifest(m) \/ AddShard(m) \/ Compare(m)
          \/ MakeOutput(m) \/ LinkFiles(m) \/ WriteManifest(m) \/ WriteMerged(m)
          \/ Stop(m)

Spec == Init /\ [][Next]_vars

-----------------------------------------------------------------------------
(* Properties *)

Published == output.results # None

(* The shape of the state. *)
TypeOK ==
    /\ base \in {"original", "altered"} /\ quiet \in BOOLEAN
    /\ \A s \in 1..Shards :
          /\ shard[s].content \in {"original", "altered"} /\ shard[s].terminal \subseteq FormatNames
          /\ shard[s].manifest \in Measured \cup {"ROUNDTRIP_VERIFIED", "FAILED"}
    /\ \A m \in Merges : merge[m].next \in 1..(Shards + 1)
    /\ output.owner \in Merges \cup {None}
    /\ Published => DOMAIN output.results.jobs \subseteq FormatNames

(* The jobs a run over all the merged pairs has, and its evidence for each pair,
   without a failure. *)
EvidenceOfOneRun ==
    Published =>
        LET r == output.results IN
        /\ DOMAIN r.jobs = JobsOf(DOMAIN r.doc.pairs, Terminal)
        /\ r.doc.pairs = EvidenceOf(DOMAIN r.doc.pairs, Terminal, {})
        /\ output.manifest.benchmarked = DOMAIN r.jobs

(* All of it was measured under one environment, protocol and contract. *)
OneProtocol ==
    Published => \A s \in {output.results.doc.measuredBy[p] : p \in DOMAIN output.results.doc.pairs} :
                    output.results.doc.protocols = {shard[s].results.protocol}

(* Every merged job read the files the merged run holds, as long as nobody
   changed a file while the merge was under way. *)
MeasuredWhatIsKept ==
    Published => \/ \A f \in DOMAIN output.results.on : output.results.on[f] = output.content
                 \/ base # merge[output.results.doc.by].base

(* The verdict of a pair rests on the timings that are merged, except for jobs
   that are listed as shared. *)
SharedIsListed ==
    Published =>
        LET d == output.results.doc IN
        \A p \in DOMAIN d.pairs : d.pairs[p] = "compared" =>
            \A f \in FormatsOf[p] :
                output.results.jobs[f] = d.measuredBy[p] \/ f \in d.shared

(* What is merged is what one run over all its pairs could have produced: its
   jobs and its evidence for each pair, under one environment and protocol, on
   the files the merged directory holds unless the base run was altered
   meanwhile, and on the timings that are merged, except for jobs that are
   listed as shared. *)
MergedIsARun == EvidenceOfOneRun /\ OneProtocol /\ MeasuredWhatIsKept /\ SharedIsListed

(* The output directory holds the documents of the one merge that created it,
   the results after the manifest, whoever else wanted to merge there. *)
OneMergeInOutput ==
    /\ output.manifest # None /\ output.manifest.doc # None =>
          output.manifest.doc.by = output.owner
    /\ Published => output.results.doc = output.manifest.doc

=============================================================================
