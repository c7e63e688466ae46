-------------------------- MODULE Equivalence_proofs --------------------------
(***************************************************************************)
(* Proofs about MCEquivalence, for any registered pairs and any number of  *)
(* shards and of merges into one directory.  First the merge of shards,    *)
(* whatever is altered, fails or is killed meanwhile: what is published is *)
(* one run, and the documents are those of one merge.  Then the            *)
(* conclusions of a run, whatever is missing, fails or is measured: they   *)
(* agree with each other and with the intervals they rest on.              *)
(***************************************************************************)
EXTENDS MCEquivalence, FiniteSetTheorems, TLAPS

Verified == "ROUNDTRIP_VERIFIED"

Active == {"shards", "manifest", "compared", "made", "linked", "manifest written"}
Writing == {"made", "linked", "manifest written"}
Agreed == {"compared"} \cup Writing

\* The fields of the records, so that a step that changes one keeps the others.
ShardFields(r) ==
    r \in [content : {r.content}, terminal : {r.terminal},
           manifest : {r.manifest}, results : {r.results}]
ResultsFields(r) ==
    r \in [state : {r.state}, on : {r.on}, jobs : {r.jobs}, protocol : {r.protocol},
           pairs : {r.pairs}, status : {r.status}]
MergeFields(r) ==
    r \in [pc : {r.pc}, next : {r.next}, base : {r.base}, manifest : {r.manifest},
           jobs : {r.jobs}, results : {r.results}, pairs : {r.pairs},
           measuredBy : {r.measuredBy}, shared : {r.shared}, protocols : {r.protocols}]
OutputFields(r) ==
    r \in [owner : {r.owner}, content : {r.content}, manifest : {r.manifest},
           results : {r.results}]

(***************************************************************************)
(* The shards.  One is measured once, and if all its jobs succeeded its    *)
(* results are those of a run over its pairs.  At most one of the base run *)
(* and the shards is ever altered, so that a shard accepted for its files  *)
(* was measured on them.                                                   *)
(***************************************************************************)
RunOver(jobs, pairs) ==
    jobs = JobsOf(DOMAIN pairs, Terminal) /\ pairs = EvidenceOf(DOMAIN pairs, Terminal, {})

ShardOK(r) ==
    /\ ShardFields(r) /\ r.content \in {"original", "altered"}
    /\ r.manifest \in Measured \cup {Verified, "FAILED"} /\ r.terminal \subseteq FormatNames
    /\ r.manifest = Verified => r.results = None /\ r.terminal = Terminal
    /\ r.results # None =>
          /\ ResultsFields(r.results) /\ DOMAIN r.results.pairs \subseteq Pairs
          /\ r.content = "original" => r.results.on = "original"
          /\ r.results.status = "MEASURED" => RunOver(r.results.jobs, r.results.pairs)

ShardsInv ==
    /\ shard = [s \in 1..Shards |-> shard[s]]
    /\ \A s \in 1..Shards : ShardOK(shard[s])
    /\ base \in {"original", "altered"} /\ quiet \in BOOLEAN
    /\ base = "original" \/ \A s \in 1..Shards : shard[s].content = "original"
    /\ quiet => base = "original" /\ \A s \in 1..Shards : shard[s].content = "original"

(***************************************************************************)
(* What a merge has read so far, r, beside the shards sh: a run over its   *)
(* pairs, on the files of the base run as they were read; each pair was    *)
(* measured by a shard whose results stay, under a protocol listed, and a  *)
(* job that is not of the pair's shard is listed as shared.                *)
(***************************************************************************)
Listed(r) ==
    \A p \in DOMAIN r.pairs : r.pairs[p] = "compared" =>
        \A f \in FormatsOf[p] : r.jobs[f] = r.measuredBy[p] \/ f \in r.shared

MeasuredUnder(pairs, measuredBy, protocols, sh) ==
    /\ DOMAIN measuredBy = DOMAIN pairs
    /\ \A p \in DOMAIN pairs :
          /\ measuredBy[p] \in 1..Shards /\ sh[measuredBy[p]].manifest # Verified
          /\ sh[measuredBy[p]].results.protocol \in protocols

ReadOK(r, sh) ==
    /\ MergeFields(r) /\ r.next \in 1..(Shards + 1) /\ DOMAIN r.pairs \subseteq Pairs
    /\ RunOver(DOMAIN r.jobs, r.pairs)
    /\ DOMAIN r.results = DOMAIN r.jobs /\ \A f \in DOMAIN r.results : r.results[f] = r.base
    /\ MeasuredUnder(r.pairs, r.measuredBy, r.protocols, sh)
    /\ Listed(r)
    /\ IsFiniteSet(r.protocols)
    /\ r.pc \in {"shards", "manifest"} \/ Cardinality(r.protocols) = 1
    /\ r.pc = "manifest" => r.next \in 1..Shards

MergesInv ==
    /\ merge = [m \in Merges |-> merge[m]]
    /\ \A m \in Merges :
          /\ merge[m].base = "original" \/ merge[m].base = base
          /\ merge[m].next \in 1..(Shards + 1)
          /\ merge[m].pc \in Active => ReadOK(merge[m], shard)

(***************************************************************************)
(* The output directory.  Only the merge that created it writes to it, and *)
(* what it writes is what it has read.                                     *)
(***************************************************************************)
Kept(m) == base = merge[m].base => output.content = base

WritingInv ==
    \A m \in Merges :
        /\ merge[m].pc \in Writing => output.owner = m /\ output.results = None
        /\ merge[m].pc = "made" => output.manifest = None
        /\ merge[m].pc = "linked" =>
              output.manifest = [doc |-> None, benchmarked |-> {}] /\ Kept(m)
        /\ merge[m].pc = "manifest written" =>
              output.manifest = [doc |-> Merged(m), benchmarked |-> DOMAIN merge[m].jobs] /\ Kept(m)

PublishedInv ==
    Published =>
        LET d == output.results.doc IN
        /\ output.owner \in Merges /\ d.by \in Merges /\ DOMAIN d.pairs \subseteq Pairs
        /\ \A f \in DOMAIN output.results.on : output.results.on[f] = merge[d.by].base
        /\ Kept(d.by)
        /\ MeasuredUnder(d.pairs, d.measuredBy, d.protocols, shard)
        /\ IsFiniteSet(d.protocols) /\ Cardinality(d.protocols) = 1

OutputInv ==
    /\ OutputFields(output) /\ output.owner \in Merges \cup {None}
    /\ output.owner = None => output = Absent
    /\ WritingInv /\ PublishedInv
    /\ EvidenceOfOneRun /\ SharedIsListed /\ OneMergeInOutput

MergeInv == ShardsInv /\ MergesInv /\ OutputInv

\* The jobs and the evidence of two sets of pairs are those of each.
LEMMA RunsJoin ==
    ASSUME NEW A, NEW B
    PROVE  /\ JobsOf(A \cup B, Terminal) = JobsOf(A, Terminal) \cup JobsOf(B, Terminal)
           /\ EvidenceOf(A \cup B, Terminal, {}) =
                 [p \in A \cup B |-> IF p \in A THEN EvidenceOf(A, Terminal, {})[p]
                                     ELSE EvidenceOf(B, Terminal, {})[p]]
  BY DEF JobsOf, EvidenceOf

\* A pair that is compared has all its jobs.
LEMMA ComparedHasJobs ==
    ASSUME NEW A, NEW p \in A, EvidenceOf(A, Terminal, {})[p] = "compared"
    PROVE  FormatsOf[p] \subseteq JobsOf(A, Terminal)
  BY DEF EvidenceOf, JobsOf

\* Results of a shard that can be read stay, apart from their state.
Stays ==
    \A s \in 1..Shards : shard[s].manifest # Verified =>
        shard'[s].manifest # Verified /\ shard'[s].results.protocol = shard[s].results.protocol

\* What was measured under a protocol stays so.
LEMMA MeasuredStays ==
    ASSUME Stays, NEW pairs, NEW by, NEW protocols, MeasuredUnder(pairs, by, protocols, shard)
    PROVE  MeasuredUnder(pairs, by, protocols, shard')
  BY DEF Stays, MeasuredUnder

\* The empty output and the verified shards satisfy the invariant.
LEMMA MergeInit == Init => MergeInv
<1> SUFFICES ASSUME Init PROVE MergeInv
  OBVIOUS
<1>1. ShardsInv
  BY TerminalAssumption DEF Init, ShardsInv, ShardOK, ShardFields, Verified
<1>2. MergesInv
  <2>1. 1 \in 1..(Shards + 1)
    BY ShardsAssumption
  <2>2. QED
    BY <2>1 DEF Init, MergesInv, Active
<1>3. OutputInv
  BY DEF Init, OutputInv, OutputFields, WritingInv, PublishedInv, EvidenceOfOneRun, SharedIsListed,
         OneMergeInOutput, Published, Absent, Writing
<1>4. QED
  BY <1>1, <1>2, <1>3 DEF MergeInv

\* Measuring and reporting a shard.
LEMMA ShardStep ==
    ASSUME MergeInv, NEW s \in 1..Shards,
           \/ \E pairs \in Selections, broken \in Failures, protocol \in Protocols :
                 Bench(s, pairs, broken, protocol)
           \/ WriteResults(s) \/ Report(s)
    PROVE  ShardsInv' /\ Stays /\ UNCHANGED <<base, merge, output, quiet>>
<1>1. /\ ShardOK(shard[s]) /\ ShardFields(shard[s])
      /\ shard = [q \in 1..Shards |-> shard[q]]
  BY DEF MergeInv, ShardsInv, ShardOK
<1>2. UNCHANGED <<base, merge, output, quiet>>
  BY DEF Bench, WriteResults, Report
<1>3. ASSUME NEW r, shard' = [shard EXCEPT ![s] = r], ShardOK(r), r.content = shard[s].content,
             shard[s].manifest # Verified =>
                r.manifest # Verified /\ r.results.protocol = shard[s].results.protocol
      PROVE  ShardsInv' /\ Stays
  BY <1>1, <1>2, <1>3 DEF MergeInv, ShardsInv, Stays
<1>4. ASSUME NEW pairs \in Selections, NEW broken \in Failures, NEW protocol \in Protocols,
             Bench(s, pairs, broken, protocol)
      PROVE  ShardsInv' /\ Stays
  <2> DEFINE jobs == JobsOf(pairs, shard[s].terminal)
             new == [state |-> "unwritten", on |-> shard[s].content,
                     jobs |-> jobs, protocol |-> protocol,
                     pairs |-> EvidenceOf(pairs, shard[s].terminal, broken),
                     status |-> IF broken = {} /\ jobs # {} THEN "MEASURED" ELSE "other"]
             after == IF jobs \ broken # {} \/ jobs # JobsOf(pairs, {})
                      THEN "BENCHMARKED" ELSE "FAILED"
             r == [shard[s] EXCEPT !.manifest = after, !.terminal = shard[s].terminal \cup broken,
                                   !.results = new]
  <2>1. shard[s].manifest = Verified /\ shard[s].terminal = Terminal
    BY <1>1, <1>4 DEF Bench, ShardOK, Verified
  <2>2. shard' = [shard EXCEPT ![s] = r]
    BY <1>1, <1>4 DEF Bench
  <2>3. ResultsFields(new) /\ after # Verified /\ new.on = shard[s].content
    BY DEF ResultsFields, Verified
  <2>4. new.status = "MEASURED" => RunOver(new.jobs, new.pairs)
    BY <2>1 DEF RunOver, EvidenceOf
  <2>5. /\ ShardFields(r) /\ r.content = shard[s].content /\ r.manifest = after
        /\ r.results = new /\ r.terminal = shard[s].terminal \cup broken
    <3> HIDE DEF new, after
    <3>1. QED
      BY <1>1 DEF ShardFields
  <2> HIDE DEF new, after, r
  <2>6. r.terminal \subseteq FormatNames /\ DOMAIN new.pairs \subseteq Pairs
    <3>1. jobs \subseteq FormatNames /\ broken \subseteq jobs
      BY <1>4, PairsAssumption, SelectionsAssumption DEF Bench, JobsOf
    <3>2. DOMAIN new.pairs = pairs
      BY DEF new, EvidenceOf
    <3>3. QED
      BY <1>1, <2>5, <3>1, <3>2, SelectionsAssumption DEF ShardOK
  <2>7. after \in Measured \cup {Verified, "FAILED"}
    BY DEF after, Measured
  <2>8. ShardOK(r)
    BY <1>1, <2>3, <2>4, <2>5, <2>6, <2>7 DEF ShardOK
  <2>9. QED
    BY <1>3, <2>1, <2>2, <2>3, <2>5, <2>8
<1>5. CASE WriteResults(s)
  <2> DEFINE q == shard[s].results
             new == [q EXCEPT !.state = shard[s].manifest]
             r == [shard[s] EXCEPT !.results = new]
  <2>1. q # None /\ ResultsFields(q) /\ shard[s].manifest # Verified
    BY <1>1, <1>5 DEF WriteResults, ShardOK
  <2>2. shard' = [shard EXCEPT ![s] = r]
    BY <1>1, <1>5 DEF WriteResults
  <2>3. /\ ResultsFields(new) /\ new.on = q.on /\ new.jobs = q.jobs /\ new.pairs = q.pairs
        /\ new.status = q.status /\ new.protocol = q.protocol
    BY <2>1 DEF ResultsFields
  <2>4. /\ ShardFields(r) /\ r.content = shard[s].content /\ r.manifest = shard[s].manifest
        /\ r.results = new /\ r.terminal = shard[s].terminal
    <3> HIDE DEF new
    <3>1. QED
      BY <1>1 DEF ShardFields
  <2> HIDE DEF new, r
  <2>5. ShardOK(r)
    BY <1>1, <2>1, <2>3, <2>4 DEF ShardOK
  <2>6. QED
    BY <1>2, <1>3, <2>2, <2>3, <2>4, <2>5
<1>6. CASE Report(s)
  <2> DEFINE q == shard[s].results
             new == [q EXCEPT !.state = "REPORTED"]
             r == [shard[s] EXCEPT !.manifest = "REPORTED", !.results = new]
  <2>1. q # None /\ ResultsFields(q) /\ shard[s].manifest # Verified
    BY <1>1, <1>6 DEF Report, HasResults, ShardOK, Verified
  <2>2. shard' = [shard EXCEPT ![s] = r]
    BY <1>1, <1>6 DEF Report, ShardFields
  <2>3. /\ ResultsFields(new) /\ new.on = q.on /\ new.jobs = q.jobs /\ new.pairs = q.pairs
        /\ new.status = q.status /\ new.protocol = q.protocol
    BY <2>1 DEF ResultsFields
  <2>4. /\ ShardFields(r) /\ r.content = shard[s].content /\ r.manifest = "REPORTED"
        /\ r.results = new /\ r.terminal = shard[s].terminal
    <3> HIDE DEF new
    <3>1. QED
      BY <1>1 DEF ShardFields
  <2> HIDE DEF new, r
  <2>5. ShardOK(r)
    BY <1>1, <2>1, <2>3, <2>4 DEF ShardOK, Verified, Measured
  <2>6. QED
    BY <1>2, <1>3, <2>1, <2>2, <2>3, <2>4, <2>5 DEF Verified
<1>7. QED
  BY <1>2, <1>4, <1>5, <1>6

\* The invariant stays while no merge takes a step.
LEMMA MergesKept ==
    ASSUME MergeInv, ShardsInv', Stays, UNCHANGED <<merge, output>>,
           base' = base \/ (base = "original" /\ base' = "altered")
    PROVE  MergeInv'
<1>1. MergesInv'
  <2>1. ASSUME NEW m \in Merges, merge[m].pc \in Active
        PROVE  ReadOK(merge[m], shard')
    <3>1. ReadOK(merge[m], shard)
      BY <2>1 DEF MergeInv, MergesInv
    <3>2. MeasuredUnder(merge[m].pairs, merge[m].measuredBy, merge[m].protocols, shard')
      BY <3>1, MeasuredStays DEF ReadOK
    <3>3. QED
      BY <3>1, <3>2 DEF ReadOK
  <2>2. QED
    BY <2>1 DEF MergeInv, MergesInv
<1>2. \A m \in Merges : Kept(m) => Kept(m)'
  BY DEF MergeInv, MergesInv, Kept
<1>3. WritingInv'
  BY <1>2 DEF MergeInv, OutputInv, WritingInv, Merged
<1>4. PublishedInv'
  <2> SUFFICES ASSUME Published PROVE PublishedInv'
    BY DEF PublishedInv, Published
  <2> DEFINE d == output.results.doc
  <2>1. MeasuredUnder(d.pairs, d.measuredBy, d.protocols, shard')
    BY MeasuredStays DEF MergeInv, OutputInv, PublishedInv
  <2>2. QED
    BY <1>2, <2>1 DEF MergeInv, OutputInv, PublishedInv
<1>5. OutputInv'
  BY <1>3, <1>4 DEF MergeInv, OutputInv, OutputFields, EvidenceOfOneRun, SharedIsListed,
     OneMergeInOutput, Published
<1>6. QED
  BY <1>1, <1>5 DEF MergeInv

\* Altering the base run or a shard, which happens once.
LEMMA AlterStep == MergeInv /\ Alter => MergeInv'
<1> SUFFICES ASSUME MergeInv, Alter PROVE MergeInv'
  OBVIOUS
<1>1. base = "original" /\ \A s \in 1..Shards : shard[s].content = "original"
  BY DEF Alter, MergeInv, ShardsInv
<1>2. CASE base' = "altered" /\ UNCHANGED shard
  <2>1. ShardsInv'
    BY <1>1, <1>2 DEF Alter, MergeInv, ShardsInv
  <2>2. Stays
    BY <1>2 DEF Stays
  <2>3. UNCHANGED <<merge, output>>
    BY DEF Alter
  <2>4. QED
    BY <1>1, <1>2, <2>1, <2>2, <2>3, MergesKept
<1>3. ASSUME NEW s \in 1..Shards, shard' = [shard EXCEPT ![s].content = "altered"], UNCHANGED base
      PROVE  MergeInv'
  <2> DEFINE r == [shard[s] EXCEPT !.content = "altered"]
  <2>1. shard' = [shard EXCEPT ![s] = r]
    BY <1>3
  <2>2. /\ ShardFields(r) /\ r.content = "altered" /\ r.manifest = shard[s].manifest
        /\ r.results = shard[s].results /\ r.terminal = shard[s].terminal
    BY DEF MergeInv, ShardsInv, ShardOK, ShardFields
  <2> HIDE DEF r
  <2>3. ShardOK(r)
    BY <2>2 DEF MergeInv, ShardsInv, ShardOK
  <2>4. ShardsInv' /\ Stays
    BY <1>1, <1>3, <2>1, <2>2, <2>3 DEF Alter, MergeInv, ShardsInv, Stays
  <2>5. QED
    BY <1>3, <2>4, MergesKept DEF Alter
<1>4. QED
  BY <1>2, <1>3 DEF Alter

\* A shard that is accepted was measured on the files of the base run.
LEMMA MeasuredOnBase ==
    ASSUME MergeInv, NEW m \in Merges, NEW s \in 1..Shards, Acceptable(m, s)
    PROVE  /\ shard[s].results.on = merge[m].base /\ shard[s].manifest # Verified
           /\ ResultsFields(shard[s].results)
           /\ RunOver(shard[s].results.jobs, shard[s].results.pairs)
           /\ DOMAIN shard[s].results.pairs \subseteq Pairs
<1>1. ShardOK(shard[s]) /\ shard[s].results # None /\ shard[s].content = merge[m].base
  BY DEF MergeInv, ShardsInv, Acceptable, HasResults
<1>2. shard[s].content = "original"
  BY <1>1 DEF MergeInv, ShardsInv, MergesInv, ShardOK
<1>3. QED
  BY <1>1, <1>2 DEF ShardOK, Acceptable

\* What a merge has read stays right when a shard is added.
LEMMA ShardAdded ==
    ASSUME NEW q, NEW r, NEW s \in 1..Shards, ReadOK(q, shard), q.next = s,
           ResultsFields(r), RunOver(r.jobs, r.pairs), DOMAIN r.pairs \subseteq Pairs,
           r.on = q.base, DOMAIN r.pairs \cap DOMAIN q.pairs = {},
           shard[s].results = r, shard[s].manifest # Verified,
           NEW new, MergeFields(new), new.pc = "shards", new.next = s + 1, new.base = q.base,
           new.jobs = Extended(q.jobs, r.jobs, s),
           new.results = Extended(q.results, r.jobs, r.on),
           new.pairs = [p \in DOMAIN q.pairs \cup DOMAIN r.pairs |->
                           IF p \in DOMAIN q.pairs THEN q.pairs[p] ELSE r.pairs[p]],
           new.measuredBy = Extended(q.measuredBy, DOMAIN r.pairs, s),
           new.shared = q.shared \cup (r.jobs \cap DOMAIN q.jobs),
           new.protocols = q.protocols \cup {r.protocol}
    PROVE  ReadOK(new, shard)
<1> DEFINE A == DOMAIN q.pairs
           B == DOMAIN r.pairs
<1>1. /\ DOMAIN new.jobs = DOMAIN q.jobs \cup r.jobs /\ DOMAIN new.pairs = A \cup B
      /\ DOMAIN new.results = DOMAIN q.results \cup r.jobs
      /\ DOMAIN new.measuredBy = DOMAIN q.measuredBy \cup B
  BY DEF Extended
<1>2. RunOver(DOMAIN q.jobs, q.pairs) /\ MeasuredUnder(q.pairs, q.measuredBy, q.protocols, shard)
  BY DEF ReadOK
<1>3. RunOver(DOMAIN new.jobs, new.pairs)
  <2>1. /\ DOMAIN q.jobs = JobsOf(A, Terminal) /\ q.pairs = EvidenceOf(A, Terminal, {})
        /\ r.jobs = JobsOf(B, Terminal) /\ r.pairs = EvidenceOf(B, Terminal, {})
    BY <1>2 DEF RunOver
  <2>2. new.pairs = [p \in A \cup B |-> IF p \in A THEN q.pairs[p] ELSE r.pairs[p]]
    OBVIOUS
  <2> HIDE DEF A, B
  <2>3. /\ JobsOf(A \cup B, Terminal) = JobsOf(A, Terminal) \cup JobsOf(B, Terminal)
        /\ EvidenceOf(A \cup B, Terminal, {}) =
              [p \in A \cup B |-> IF p \in A THEN EvidenceOf(A, Terminal, {})[p]
                                  ELSE EvidenceOf(B, Terminal, {})[p]]
    BY ONLY RunsJoin
  <2>4. DOMAIN new.jobs = JobsOf(A \cup B, Terminal)
    BY <1>1, <2>1, <2>3
  <2>5. new.pairs = EvidenceOf(A \cup B, Terminal, {})
    BY <2>1, <2>2, <2>3
  <2>6. QED
    BY <1>1, <2>4, <2>5 DEF RunOver
<1>4. \A f \in DOMAIN new.results : new.results[f] = new.base
  BY <1>1 DEF ReadOK, Extended
<1>5. MeasuredUnder(new.pairs, new.measuredBy, new.protocols, shard)
  BY <1>1, <1>2 DEF MeasuredUnder, Extended
<1>6. ASSUME NEW p \in DOMAIN new.pairs, new.pairs[p] = "compared", NEW f \in FormatsOf[p]
      PROVE  new.jobs[f] = new.measuredBy[p] \/ f \in new.shared
  <2>1. CASE p \in A
    <3>1. q.pairs[p] = "compared" /\ new.measuredBy[p] = q.measuredBy[p]
      BY <1>2, <1>6, <2>1 DEF Extended, MeasuredUnder
    <3>2. FormatsOf[p] \subseteq JobsOf(A, Terminal)
      BY <1>2, <2>1, <3>1, ComparedHasJobs DEF RunOver
    <3>3. f \in DOMAIN q.jobs
      BY <1>2, <3>2 DEF RunOver
    <3>4. q.jobs[f] = q.measuredBy[p] \/ f \in q.shared
      BY <2>1, <3>1 DEF ReadOK, Listed
    <3>5. QED
      BY <3>1, <3>3, <3>4 DEF Extended
  <2>2. CASE p \notin A
    <3>1. p \in B /\ r.pairs[p] = "compared"
      BY <1>1, <1>6, <2>2
    <3>2. f \in r.jobs
      BY <3>1, ComparedHasJobs DEF RunOver
    <3>3. new.measuredBy[p] = s
      BY <1>2, <2>2, <3>1 DEF Extended, MeasuredUnder
    <3>4. QED
      BY <3>2, <3>3 DEF Extended
  <2>3. QED
    BY <2>1, <2>2
<1>7. IsFiniteSet(new.protocols)
  BY FS_AddElement DEF ReadOK
<1>8. new.next \in 1..(Shards + 1) /\ DOMAIN new.pairs \subseteq Pairs
  BY <1>1, ShardsAssumption DEF ReadOK
<1>9. QED
  BY <1>1, <1>3, <1>4, <1>5, <1>6, <1>7, <1>8 DEF ReadOK, Listed

\* The shards, when only a merge moves.
LEMMA ShardsStay ==
    MergeInv /\ UNCHANGED <<base, shard, quiet>> => ShardsInv'
  BY DEF MergeInv, ShardsInv

\* One merge reads or ends, and what it has read is right.
LEMMA OneReads ==
    ASSUME MergeInv, UNCHANGED <<base, shard, quiet>>, NEW m \in Merges, NEW r,
           merge' = [merge EXCEPT ![m] = r],
           r.base = "original" \/ r.base = base, r.next \in 1..(Shards + 1),
           r.pc \in Active => ReadOK(r, shard)
    PROVE  /\ MergesInv' /\ merge'[m] = r
           /\ \A n \in Merges \ {m} : merge'[n] = merge[n]
  BY DEF MergeInv, MergesInv

\* A step of a merge that leaves the output directory alone.
LEMMA OutputStays ==
    ASSUME MergeInv, UNCHANGED <<base, shard, output, quiet>>, NEW m \in Merges,
           \A n \in Merges \ {m} : merge'[n] = merge[n],
           merge'[m].pc \notin Writing, Published => merge'[m].base = merge[m].base
    PROVE  OutputInv'
<1>1. WritingInv'
  BY DEF MergeInv, OutputInv, WritingInv, Writing, Kept, Merged
<1>2. PublishedInv'
  <2> SUFFICES ASSUME Published PROVE PublishedInv'
    BY DEF PublishedInv, Published
  <2> DEFINE d == output.results.doc
  <2>1. d.by \in Merges /\ merge'[d.by].base = merge[d.by].base
    BY DEF MergeInv, OutputInv, PublishedInv
  <2>2. QED
    BY <2>1 DEF MergeInv, OutputInv, PublishedInv, Kept
<1>3. QED
  BY <1>1, <1>2 DEF MergeInv, OutputInv, OutputFields, EvidenceOfOneRun, SharedIsListed,
     OneMergeInOutput, Published

\* A merge that is under way has not read beyond the last shard.
LEMMA WithinShards ==
    ASSUME NEW r, NEW sh, ReadOK(r, sh)
    PROVE  r.next \in 1..(Shards + 1)
  BY DEF ReadOK

\* The steps of a merge that reads.
LEMMA ReadStep ==
    ASSUME MergeInv, NEW m \in Merges,
           ReadBase(m) \/ ReadManifest(m) \/ AddShard(m) \/ Compare(m) \/ Stop(m)
    PROVE  MergeInv'
<1>1. UNCHANGED <<base, shard, output, quiet>>
  BY DEF ReadBase, ReadManifest, AddShard, Compare, Stop, Goto, End
<1>2. ShardsInv'
  BY <1>1, ShardsStay
<1>3. merge[m].base = "original" \/ merge[m].base = base
  BY DEF MergeInv, MergesInv
<1>4. ASSUME NEW r, merge' = [merge EXCEPT ![m] = r], r.base = "original" \/ r.base = base,
             r.next \in 1..(Shards + 1), r.pc \in Active => ReadOK(r, shard), r.pc \notin Writing,
             Published => r.base = merge[m].base
      PROVE  MergeInv'
  BY <1>1, <1>2, <1>4, OneReads, OutputStays DEF MergeInv
<1>5. CASE ReadBase(m)
  <2> DEFINE r == [pc |-> "shards", next |-> 1, base |-> base, manifest |-> None,
                   jobs |-> [f \in {} |-> 0], results |-> [f \in {} |-> None],
                   pairs |-> [p \in {} |-> None], measuredBy |-> [p \in {} |-> 0],
                   shared |-> {}, protocols |-> {}]
  <2>1. merge' = [merge EXCEPT ![m] = r] /\ ~ Published
    BY <1>5 DEF ReadBase, Published, Absent
  <2>2. MergeFields(r) /\ r.pc = "shards" /\ r.base = base /\ r.next \in 1..(Shards + 1)
    BY ShardsAssumption DEF MergeFields
  <2>3. RunOver(DOMAIN r.jobs, r.pairs)
    BY DEF RunOver, JobsOf, EvidenceOf
  <2>4. ReadOK(r, shard)
    BY <2>2, <2>3, FS_EmptySet, ShardsAssumption DEF ReadOK, MeasuredUnder, Listed
  <2> HIDE DEF r
  <2>5. QED
    BY <1>4, <2>1, <2>2, <2>4 DEF Writing
<1>6. CASE ReadManifest(m)
  <2> DEFINE read == [state |-> shard[merge[m].next].manifest,
                      terminal |-> shard[merge[m].next].terminal]
             r == [merge[m] EXCEPT !.pc = "manifest", !.manifest = read]
  <2>1. merge[m].pc = "shards" /\ ReadOK(merge[m], shard) /\ merge[m].next <= Shards
    BY <1>6 DEF ReadManifest, MergeInv, MergesInv, Active
  <2>2. merge' = [merge EXCEPT ![m] = r]
    BY <1>6, <2>1 DEF ReadManifest, ReadOK, MergeFields
  <2>3. /\ MergeFields(r) /\ r.pc = "manifest" /\ r.next = merge[m].next
        /\ r.base = merge[m].base /\ r.jobs = merge[m].jobs /\ r.results = merge[m].results
        /\ r.pairs = merge[m].pairs /\ r.measuredBy = merge[m].measuredBy
        /\ r.shared = merge[m].shared /\ r.protocols = merge[m].protocols
    <3> HIDE DEF read
    <3>1. QED
      BY <2>1 DEF ReadOK, MergeFields
  <2> HIDE DEF r
  <2>4. r.next \in 1..Shards
    BY <2>1, <2>3, ShardsAssumption DEF ReadOK
  <2>5. ReadOK(r, shard)
    BY <2>1, <2>3, <2>4 DEF ReadOK, Listed
  <2>6. QED
    BY <1>3, <1>4, <2>2, <2>3, <2>5, WithinShards DEF Writing
<1>7. CASE AddShard(m)
  <2> DEFINE q == merge[m]
             s == q.next
             r == shard[s].results
             new == [q EXCEPT
                       !.pc = "shards", !.next = s + 1,
                       !.jobs = Extended(q.jobs, r.jobs, s),
                       !.results = Extended(q.results, r.jobs, r.on),
                       !.pairs = [p \in DOMAIN q.pairs \cup DOMAIN r.pairs |->
                                     IF p \in DOMAIN q.pairs THEN q.pairs[p] ELSE r.pairs[p]],
                       !.measuredBy = Extended(q.measuredBy, DOMAIN r.pairs, s),
                       !.shared = q.shared \cup (r.jobs \cap DOMAIN q.jobs),
                       !.protocols = q.protocols \cup {r.protocol}]
  <2>1. q.pc = "manifest" /\ Acceptable(m, s)
    BY <1>7 DEF AddShard
  <2>2. ReadOK(q, shard) /\ s \in 1..Shards
    BY <2>1 DEF MergeInv, MergesInv, ReadOK, Active
  <2>3. merge' = [merge EXCEPT ![m] = new]
    BY <1>7 DEF AddShard, Shared
  <2>4. /\ r.on = q.base /\ shard[s].manifest # Verified
        /\ ResultsFields(r) /\ RunOver(r.jobs, r.pairs) /\ DOMAIN r.pairs \subseteq Pairs
    BY <2>1, <2>2, MeasuredOnBase
  <2>5. DOMAIN r.pairs \cap DOMAIN q.pairs = {}
    BY <2>1 DEF Acceptable
  <2>6. /\ MergeFields(new) /\ new.pc = "shards" /\ new.next = s + 1 /\ new.base = q.base
        /\ new.jobs = Extended(q.jobs, r.jobs, s)
        /\ new.results = Extended(q.results, r.jobs, r.on)
        /\ new.pairs = [p \in DOMAIN q.pairs \cup DOMAIN r.pairs |->
                           IF p \in DOMAIN q.pairs THEN q.pairs[p] ELSE r.pairs[p]]
        /\ new.measuredBy = Extended(q.measuredBy, DOMAIN r.pairs, s)
        /\ new.shared = q.shared \cup (r.jobs \cap DOMAIN q.jobs)
        /\ new.protocols = q.protocols \cup {r.protocol}
    BY <2>2 DEF ReadOK, MergeFields
  <2> HIDE DEF new
  <2>7. ReadOK(new, shard)
    BY <2>2, <2>4, <2>5, <2>6, ShardAdded
  <2>8. QED
    BY <1>3, <1>4, <2>3, <2>6, <2>7, WithinShards DEF Writing
<1>8. CASE Compare(m)
  <2> DEFINE r == [merge[m] EXCEPT !.pc = "compared"]
  <2>1. ReadOK(merge[m], shard) /\ Cardinality(merge[m].protocols) = 1
    BY <1>8 DEF Compare, MergeInv, MergesInv, Active
  <2>2. merge' = [merge EXCEPT ![m] = r]
    BY <1>8 DEF Compare, Goto
  <2>3. /\ MergeFields(r) /\ r.pc = "compared" /\ r.next = merge[m].next
        /\ r.base = merge[m].base /\ r.jobs = merge[m].jobs /\ r.results = merge[m].results
        /\ r.pairs = merge[m].pairs /\ r.measuredBy = merge[m].measuredBy
        /\ r.shared = merge[m].shared /\ r.protocols = merge[m].protocols
    BY <2>1 DEF ReadOK, MergeFields
  <2> HIDE DEF r
  <2>4. ReadOK(r, shard)
    BY <2>1, <2>3 DEF ReadOK, Listed
  <2>5. QED
    BY <1>3, <1>4, <2>2, <2>3, <2>4, WithinShards DEF Writing
<1>9. CASE Stop(m)
  <2> DEFINE r == [pc |-> "stopped", next |-> 1, base |-> merge[m].base]
  <2>1. /\ merge' = [merge EXCEPT ![m] = r] /\ r.pc = "stopped" /\ r.base = merge[m].base
        /\ r.next \in 1..(Shards + 1)
    BY <1>9, ShardsAssumption DEF Stop, End
  <2> HIDE DEF r
  <2>2. QED
    BY <1>3, <1>4, <2>1 DEF Active, Writing
<1>10. QED
  BY <1>5, <1>6, <1>7, <1>8, <1>9

\* One merge goes on with what it has read.
LEMMA GoesOn ==
    ASSUME MergeInv, UNCHANGED <<base, shard, quiet>>, NEW m \in Merges, NEW label \in Agreed,
           merge[m].pc \in Agreed, Goto(m, label)
    PROVE  /\ MergesInv' /\ merge'[m].pc = label /\ merge'[m].base = merge[m].base
           /\ merge'[m].jobs = merge[m].jobs /\ Merged(m)' = Merged(m)
           /\ \A n \in Merges \ {m} : merge'[n] = merge[n]
<1> DEFINE r == [merge[m] EXCEPT !.pc = label]
<1>1. ReadOK(merge[m], shard)
  BY DEF MergeInv, MergesInv, Active, Agreed, Writing
<1>2. merge' = [merge EXCEPT ![m] = r]
  BY DEF Goto
<1>3. /\ MergeFields(r) /\ r.pc = label /\ r.next = merge[m].next
      /\ r.base = merge[m].base /\ r.jobs = merge[m].jobs /\ r.results = merge[m].results
      /\ r.pairs = merge[m].pairs /\ r.measuredBy = merge[m].measuredBy
      /\ r.shared = merge[m].shared /\ r.protocols = merge[m].protocols
  BY <1>1 DEF ReadOK, MergeFields
<1> HIDE DEF r
<1>4. ReadOK(r, shard)
  BY <1>1, <1>3 DEF ReadOK, Listed, Agreed, Writing
<1>5. /\ MergesInv' /\ merge'[m] = r
      /\ \A n \in Merges \ {m} : merge'[n] = merge[n]
  BY <1>2, <1>3, <1>4, OneReads DEF MergeInv, MergesInv
<1>6. QED
  BY <1>3, <1>5 DEF Merged

\* The output directory is created by one merge, as long as it is not there.
LEMMA MakeStep ==
    ASSUME MergeInv, NEW m \in Merges, MakeOutput(m)
    PROVE  MergeInv'
<1>1. UNCHANGED <<base, shard, quiet>> /\ Goto(m, "made") /\ merge[m].pc = "compared"
  BY DEF MakeOutput
<1>2. /\ MergesInv' /\ merge'[m].pc = "made" /\ \A n \in Merges \ {m} : merge'[n] = merge[n]
  BY <1>1, GoesOn DEF Agreed, Writing
<1>3. /\ OutputFields(output') /\ output'.owner = m
      /\ output'.manifest = None /\ output'.results = None
  BY DEF MakeOutput, Absent, OutputFields
<1>4. \A n \in Merges : merge[n].pc \notin Writing
  BY NoneAssumption DEF MakeOutput, Absent, MergeInv, OutputInv, WritingInv
<1>5. WritingInv'
  BY <1>2, <1>3, <1>4 DEF WritingInv, Writing
<1>6. OutputInv'
  BY <1>3, <1>5, NoneAssumption
  DEF OutputInv, OutputFields, PublishedInv, EvidenceOfOneRun, SharedIsListed, OneMergeInOutput,
      Published
<1>7. QED
  BY <1>1, <1>2, <1>6, ShardsStay DEF MergeInv

\* The base run's files are linked, and its manifest is copied.
LEMMA LinkStep ==
    ASSUME MergeInv, NEW m \in Merges, LinkFiles(m)
    PROVE  MergeInv'
<1> DEFINE copy == [doc |-> None, benchmarked |-> {}]
<1>1. UNCHANGED <<base, shard, quiet>> /\ Goto(m, "linked") /\ merge[m].pc = "made"
  BY DEF LinkFiles
<1>2. /\ MergesInv' /\ merge'[m].pc = "linked" /\ merge'[m].base = merge[m].base
      /\ \A n \in Merges \ {m} : merge'[n] = merge[n]
  BY <1>1, GoesOn DEF Agreed, Writing
<1>3. OutputFields(output) /\ output.owner = m /\ output.results = None
  BY <1>1 DEF MergeInv, OutputInv, WritingInv, Writing
<1>4. /\ OutputFields(output') /\ output'.owner = m /\ output'.content = base
      /\ output'.manifest = copy /\ output'.results = None
  <2> HIDE DEF copy
  <2>1. output' = [output EXCEPT !.content = base, !.manifest = copy]
    BY DEF LinkFiles, copy
  <2>2. QED
    BY <1>3, <2>1 DEF OutputFields
<1>5. \A n \in Merges \ {m} : merge[n].pc \notin Writing
  BY <1>3 DEF MergeInv, OutputInv, WritingInv
<1>6. WritingInv'
  <2>1. Kept(m)'
    BY <1>1, <1>4 DEF Kept
  <2>2. ASSUME NEW n \in Merges \ {m} PROVE merge'[n].pc \notin Writing
    BY <1>2, <1>5
  <2>3. QED
    BY <1>2, <1>4, <2>1, <2>2 DEF WritingInv, Writing
<1>7. OutputInv'
  BY <1>4, <1>6, NoneAssumption
  DEF OutputInv, PublishedInv, EvidenceOfOneRun, SharedIsListed, OneMergeInOutput, Published
<1>8. QED
  BY <1>1, <1>2, <1>7, ShardsStay DEF MergeInv

\* The manifest with the merged pairs replaces the copy.
LEMMA ManifestStep ==
    ASSUME MergeInv, NEW m \in Merges, WriteManifest(m)
    PROVE  MergeInv'
<1> DEFINE new == [doc |-> Merged(m), benchmarked |-> DOMAIN merge[m].jobs]
<1>1. UNCHANGED <<base, shard, quiet>> /\ Goto(m, "manifest written") /\ merge[m].pc = "linked"
  BY DEF WriteManifest
<1>2. /\ MergesInv' /\ merge'[m].pc = "manifest written" /\ merge'[m].base = merge[m].base
      /\ merge'[m].jobs = merge[m].jobs /\ Merged(m)' = Merged(m)
      /\ \A n \in Merges \ {m} : merge'[n] = merge[n]
  BY <1>1, GoesOn DEF Agreed, Writing
<1>3. OutputFields(output) /\ output.owner = m /\ output.results = None /\ Kept(m)
  BY <1>1 DEF MergeInv, OutputInv, WritingInv, Writing
<1>4. /\ OutputFields(output') /\ output'.owner = m /\ output'.content = output.content
      /\ output'.manifest = new /\ output'.results = None
  <2> HIDE DEF new
  <2>1. output' = [output EXCEPT !.manifest = new]
    BY DEF WriteManifest, new
  <2>2. QED
    BY <1>3, <2>1 DEF OutputFields
<1>5. \A n \in Merges \ {m} : merge[n].pc \notin Writing
  BY <1>3 DEF MergeInv, OutputInv, WritingInv
<1>6. Kept(m)'
  BY <1>1, <1>2, <1>3, <1>4 DEF Kept
<1>7. WritingInv'
  <2>1. output'.manifest = [doc |-> Merged(m)', benchmarked |-> DOMAIN merge'[m].jobs]
    BY <1>2, <1>4
  <2>2. ASSUME NEW n \in Merges \ {m} PROVE merge'[n].pc \notin Writing
    BY <1>2, <1>5
  <2>3. QED
    BY <1>2, <1>4, <1>6, <2>1, <2>2 DEF WritingInv, Writing
<1>8. output'.manifest.doc.by = output'.owner
  BY <1>4 DEF Merged
<1>9. OutputInv'
  BY <1>4, <1>7, <1>8, NoneAssumption
  DEF OutputInv, PublishedInv, EvidenceOfOneRun, SharedIsListed, OneMergeInOutput, Published
<1>10. QED
  BY <1>1, <1>2, <1>9, ShardsStay DEF MergeInv

\* The results are published, after the manifest that goes with them.
LEMMA PublishStep ==
    ASSUME MergeInv, NEW m \in Merges, WriteMerged(m)
    PROVE  MergeInv'
<1> DEFINE q == merge[m]
           new == [doc |-> Merged(m), jobs |-> q.jobs, on |-> q.results]
           r == [pc |-> "done", next |-> 1, base |-> q.base]
<1>1. /\ UNCHANGED <<base, shard, quiet>> /\ merge' = [merge EXCEPT ![m] = r]
      /\ q.pc = "manifest written"
  BY DEF WriteMerged, End
<1>2. /\ ReadOK(q, shard) /\ Cardinality(q.protocols) = 1
      /\ q.base = "original" \/ q.base = base
  BY <1>1 DEF MergeInv, MergesInv, Active, ReadOK
<1>3. /\ MergesInv' /\ merge'[m] = r
      /\ \A n \in Merges \ {m} : merge'[n] = merge[n]
  <2>1. r.pc = "done" /\ r.base = q.base /\ r.next \in 1..(Shards + 1)
    BY ShardsAssumption
  <2> HIDE DEF r
  <2>2. QED
    BY <1>1, <1>2, <2>1, OneReads DEF Active
<1>4. /\ OutputFields(output) /\ output.owner = m /\ Kept(m)
      /\ output.manifest = [doc |-> Merged(m), benchmarked |-> DOMAIN q.jobs]
  BY <1>1 DEF MergeInv, OutputInv, WritingInv, Writing
<1>5. /\ OutputFields(output') /\ output'.owner = m /\ output'.content = output.content
      /\ output'.manifest = output.manifest /\ output'.results = new
  <2> HIDE DEF new
  <2>1. output' = [output EXCEPT !.results = new]
    BY DEF WriteMerged, new
  <2>2. QED
    BY <1>4, <2>1 DEF OutputFields
<1>6. ASSUME NEW n \in Merges PROVE merge'[n].pc \notin Writing
  <2>1. CASE n = m
    <3>1. merge'[m].pc = "done"
      BY <1>3
    <3>2. QED
      BY <2>1, <3>1 DEF Writing
  <2>2. CASE n # m
    <3>1. merge'[n] = merge[n] /\ output.owner # n
      BY <1>3, <1>4, <2>2
    <3>2. QED
      BY <3>1 DEF MergeInv, OutputInv, WritingInv
  <2>3. QED
    BY <2>1, <2>2
<1>7. WritingInv'
  BY <1>6 DEF WritingInv, Writing
<1>8. PublishedInv'
  <2> DEFINE d == output'.results.doc
  <2>1. /\ d.by = m /\ d.pairs = q.pairs /\ d.measuredBy = q.measuredBy
        /\ d.protocols = q.protocols /\ output'.results.on = q.results
    BY <1>5 DEF Merged
  <2>2. merge'[m].base = q.base
    BY <1>3
  <2>3. Kept(m)'
    BY <1>1, <1>4, <1>5, <2>2 DEF Kept
  <2>4. MeasuredUnder(d.pairs, d.measuredBy, d.protocols, shard')
    BY <1>1, <1>2, <2>1 DEF ReadOK
  <2>5. \A f \in DOMAIN output'.results.on : output'.results.on[f] = merge'[d.by].base
    BY <1>2, <2>1, <2>2 DEF ReadOK
  <2>6. IsFiniteSet(d.protocols) /\ Cardinality(d.protocols) = 1 /\ DOMAIN d.pairs \subseteq Pairs
    BY <1>2, <2>1 DEF ReadOK
  <2> HIDE DEF new, r, q
  <2>7. QED
    BY <1>5, <2>1, <2>3, <2>4, <2>5, <2>6 DEF PublishedInv
<1>9. EvidenceOfOneRun'
  BY <1>2, <1>4, <1>5 DEF EvidenceOfOneRun, Merged, ReadOK, RunOver
<1>10. SharedIsListed'
  BY <1>2, <1>5 DEF SharedIsListed, Merged, ReadOK, Listed
<1>11. OneMergeInOutput'
  BY <1>4, <1>5 DEF OneMergeInOutput, Merged
<1>12. OutputInv'
  BY <1>5, <1>7, <1>8, <1>9, <1>10, <1>11, NoneAssumption DEF OutputInv
<1>13. QED
  BY <1>1, <1>3, <1>12, ShardsStay DEF MergeInv

\* The invariant holds from the beginning and every step keeps it.
LEMMA MergeSafe == Spec => []MergeInv
<1>1. Init => MergeInv
  BY MergeInit
<1>2. MergeInv /\ [Next]_vars => MergeInv'
  <2> SUFFICES ASSUME MergeInv, [Next]_vars PROVE MergeInv'
    OBVIOUS
  <2>1. ASSUME NEW s \in 1..Shards,
               \/ \E pairs \in Selections, broken \in Failures, protocol \in Protocols :
                     Bench(s, pairs, broken, protocol)
               \/ WriteResults(s) \/ Report(s)
        PROVE  MergeInv'
    BY <2>1, ShardStep, MergesKept
  <2>2. CASE Alter
    BY <2>2, AlterStep
  <2>3. ASSUME NEW m \in Merges,
               \/ ReadBase(m) \/ ReadManifest(m) \/ AddShard(m) \/ Compare(m)
               \/ MakeOutput(m) \/ LinkFiles(m) \/ WriteManifest(m) \/ WriteMerged(m)
               \/ Stop(m)
        PROVE  MergeInv'
    BY <2>3, ReadStep, MakeStep, LinkStep, ManifestStep, PublishStep
  <2>4. CASE UNCHANGED vars
    <3>1. ShardsInv' /\ Stays /\ UNCHANGED <<merge, output, base>>
      BY <2>4 DEF vars, MergeInv, ShardsInv, Stays
    <3>2. QED
      BY <3>1, MergesKept
  <2>5. QED
    BY <2>1, <2>2, <2>3, <2>4 DEF Next
<1>3. QED
  BY <1>1, <1>2, PTL DEF Spec

\* What merge_equivalence_shards publishes is what one run over all the pairs
\* could have given, however shards are measured, altered and merged at once:
\* the jobs, the evidence and the formats its manifest calls measured; one
\* environment, protocol and contract; measured on the files the output holds;
\* and a timing that is not of the pair's shard is of a job listed as shared.
THEOREM MergeIsOneRun == Spec => []MergedIsARun
<1>1. MergeInv => OneProtocol
  <2> SUFFICES ASSUME MergeInv, Published, NEW p \in DOMAIN output.results.doc.pairs
      PROVE  output.results.doc.protocols
                = {shard[output.results.doc.measuredBy[p]].results.protocol}
    BY DEF OneProtocol
  <2> DEFINE d == output.results.doc
             protocol == shard[d.measuredBy[p]].results.protocol
  <2>1. /\ protocol \in d.protocols
        /\ IsFiniteSet(d.protocols) /\ Cardinality(d.protocols) = 1
    BY DEF MergeInv, OutputInv, PublishedInv, MeasuredUnder
  <2> HIDE DEF d, protocol
  <2>2. PICK x : d.protocols = {x}
    BY <2>1, FS_Singleton
  <2>3. d.protocols = {protocol}
    BY <2>1, <2>2
  <2>4. QED
    BY <2>3 DEF d, protocol
<1>2. MergeInv => MeasuredWhatIsKept
  BY DEF MergeInv, OutputInv, PublishedInv, MeasuredWhatIsKept, Kept
<1>3. MergeInv => EvidenceOfOneRun /\ SharedIsListed
  BY DEF MergeInv, OutputInv
<1>4. MergeInv => MergedIsARun
  BY <1>1, <1>2, <1>3 DEF MergedIsARun
<1>5. QED
  BY <1>4, MergeSafe, PTL

\* The documents in the output directory are those of the merge that created
\* it, for any number of merges that wanted to write there.
THEOREM OneMergeWrites == Spec => []OneMergeInOutput
<1>1. MergeInv => OneMergeInOutput
  BY DEF MergeInv, OutputInv
<1>2. QED
  BY <1>1, MergeSafe, PTL

-----------------------------------------------------------------------------

(***************************************************************************)
(* The conclusions of one run.  The operators of EquivalenceVerdicts that  *)
(* the argument needs have a name here, and the lemmas below say what each *)
(* is; nothing else of them is used.                                       *)
(***************************************************************************)
FormatsOfPair(p) == Run!Required(p)
AllFormats == Run!Formats
Lacking == Run!Missing
Jobs == Run!MeasuredNames
VerdictOf(p) == Run!PairVerdict(p)
EvidenceFor(p) == Run!PairEvidence(p)
VerdictOn(r, f) == Run!CandidateVerdict(r, f)
SizesOf(r, f) == Run!StorageEvidence(r, f)
Class(i) == Run!Classify(i)
Comparison == Run!Compared
Before(e) == Run!StateBefore(e)
Done == Run!Benchmarked
FailedNow == Run!FailedHere

\* A pair has a format that is not verified, and what is measured is the formats
\* of the others.
LEMMA PairWords ==
    /\ \A p : FormatsOfPair(p) = {Reference[p]} \cup Candidates[p]
    /\ \A f : f \in AllFormats <=> \E p \in RunPairs : f \in FormatsOfPair(p)
    /\ \A p : p \in Lacking <=> p \in selected /\ \E f \in FormatsOfPair(p) : entry[f] # "verified"
    /\ \A f : f \in Jobs <=> \E p \in selected \ Lacking : f \in FormatsOfPair(p)
    /\ Comparison = {"PRACTICALLY_EQUIVALENT", "MEANINGFUL_DIFFERENCE", "INCONCLUSIVE"}
  BY DEF FormatsOfPair, AllFormats, Lacking, Jobs, Comparison, Run!Required, Run!Formats,
     Run!Missing, Run!MeasuredNames, Run!Compared

Within(i) == i.lower >= One - Delta /\ i.upper <= One + Delta
Outside(i) == i.upper < One - Delta \/ i.lower > One + Delta

\* An interval is within the bounds, outside of them, or neither.
LEMMA ClassWords ==
    ASSUME NEW i, i.lower \in Int, i.upper \in Int, i.lower <= i.upper
    PROVE  /\ Class(i) \in Comparison
           /\ Class(i) = "PRACTICALLY_EQUIVALENT" <=> Within(i)
           /\ Class(i) = "MEANINGFUL_DIFFERENCE" <=> Outside(i)
<1>1. One \in Int /\ Delta \in Int /\ Delta >= 0
  BY RunAssumption DEF Run!ScaleAssumption
<1>2. QED
  BY <1>1 DEF Class, Comparison, Within, Outside, Run!Classify, Run!Compared

\* The verdict on a candidate whose sizes are there is that of the primary metric.
LEMMA CandidateWords ==
    ASSUME NEW r, NEW f, sizes[r] = Expected, sizes[f] = Expected
    PROVE  VerdictOn(r, f) = Class(primary[f])
<1>1. Expected \in Int /\ Expected >= 2
  BY RunAssumption DEF Run!ExpectedAssumption
<1>2. ~ (sizes[r] < 2 \/ sizes[f] < 2)
  BY <1>1
<1>3. QED
  BY <1>2, Zenon DEF VerdictOn, Class, Run!CandidateVerdict

\* The verdict on a pair, if it lacks no format and no job of it failed, is its evidence.
LEMMA PairVerdictWords ==
    ASSUME NEW p
    PROVE  VerdictOf(p) = IF p \in Lacking \/ FormatsOfPair(p) \cap failed # {}
                          THEN "NOT_APPLICABLE" ELSE EvidenceFor(p)
  BY Zenon DEF VerdictOf, EvidenceFor, Lacking, FormatsOfPair, Run!PairVerdict

\* The evidence for a pair: one candidate that differs decides, and all must be equivalent.
LEMMA EvidenceWords ==
    ASSUME NEW p,
           \A f \in Candidates[p] : VerdictOn(Reference[p], f) \in Comparison
    PROVE  /\ EvidenceFor(p) \in Comparison
           /\ EvidenceFor(p) = "MEANINGFUL_DIFFERENCE" <=>
                 \E f \in Candidates[p] : VerdictOn(Reference[p], f) = "MEANINGFUL_DIFFERENCE"
           /\ EvidenceFor(p) = "PRACTICALLY_EQUIVALENT" <=>
                 \A f \in Candidates[p] : VerdictOn(Reference[p], f) = "PRACTICALLY_EQUIVALENT"
<1> DEFINE verdicts == {VerdictOn(Reference[p], f) : f \in Candidates[p]}
<1>1. EvidenceFor(p) = IF "MEANINGFUL_DIFFERENCE" \in verdicts THEN "MEANINGFUL_DIFFERENCE"
                       ELSE IF verdicts \subseteq {"PRACTICALLY_EQUIVALENT"}
                       THEN "PRACTICALLY_EQUIVALENT"
                       ELSE IF "INCONCLUSIVE" \in verdicts THEN "INCONCLUSIVE"
                       ELSE "NOT_APPLICABLE"
  BY Zenon DEF EvidenceFor, VerdictOn, Run!PairEvidence
<1>2. verdicts \subseteq Comparison
  OBVIOUS
<1>3. /\ EvidenceFor(p) \in Comparison
      /\ EvidenceFor(p) = "MEANINGFUL_DIFFERENCE" <=> "MEANINGFUL_DIFFERENCE" \in verdicts
      /\ EvidenceFor(p) = "PRACTICALLY_EQUIVALENT" <=> verdicts \subseteq {"PRACTICALLY_EQUIVALENT"}
  <2> HIDE DEF verdicts
  <2>1. QED
    BY <1>1, <1>2, PairWords
<1>4. QED
  BY <1>3

\* The record of the sizes of a candidate, whose intervals are there.
LEMMA StorageWords ==
    ASSUME NEW r, NEW f, sizes[r] = Expected, sizes[f] = Expected
    PROVE  /\ Class(primary[f]) = "MEANINGFUL_DIFFERENCE" => SizesOf(r, f) = "MEANINGFUL_DIFFERENCE"
           /\ SizesOf(r, f) = "PRACTICALLY_EQUIVALENT" =>
                 Class(primary[f]) = "PRACTICALLY_EQUIVALENT"
<1>1. Expected \in Int /\ Expected >= 2
  BY RunAssumption DEF Run!ExpectedAssumption
<1>2. ~ (sizes[r] < 2 \/ sizes[f] < 2)
  BY <1>1
<1> DEFINE both == <<primary[f], secondary[f]>>
           verdicts == {Class(both[i]) : i \in DOMAIN both}
<1>3. SizesOf(r, f) = IF "MEANINGFUL_DIFFERENCE" \in verdicts THEN "MEANINGFUL_DIFFERENCE"
                      ELSE IF verdicts = {"PRACTICALLY_EQUIVALENT"} THEN "PRACTICALLY_EQUIVALENT"
                      ELSE "INCONCLUSIVE"
  BY <1>2, Zenon DEF SizesOf, Class, Run!StorageEvidence, Run!ClassifyMetrics
<1>4. Class(primary[f]) \in verdicts
  <2>1. 1 \in DOMAIN both /\ both[1] = primary[f]
    OBVIOUS
  <2> HIDE DEF both
  <2>2. QED
    BY <2>1
<1> HIDE DEF verdicts
<1>5. QED
  BY <1>3, <1>4

(***************************************************************************)
(* The run.  What was admitted is what is measured and concluded from, and *)
(* every candidate of a pair without a failure has its interval.           *)
(***************************************************************************)
RunTyped ==
    /\ pc \in {"admit", "measure", "conclude", "done", "rejected"}
    /\ selected \subseteq RunPairs /\ failed \subseteq Jobs /\ selected # {}
    /\ verdict \in [RunPairs -> Comparison \cup {"NONE", "NOT_APPLICABLE"}]
    /\ state \in [AllFormats ->
                    {"NONE", "UNSUPPORTED", "ROUNDTRIP_VERIFIED", "BENCHMARKED", "FAILED"}]
    /\ status \in {"NONE", "MEASURED", "PARTIAL", "UNSUPPORTED", "FAILED"}

Whole(p) == p \notin Lacking /\ FormatsOfPair(p) \cap failed = {}

JobsAdmitted == \A f \in Jobs : sizes[f] = Expected /\ f \in fresh

Intervalled == \A p \in selected : Whole(p) => \A f \in Candidates[p] : primary[f] \in Intervals

\* No format is benchmarked, and one that failed did so before the command.
NothingYet ==
    \A f \in AllFormats : state[f] # "BENCHMARKED" /\ (state[f] = "FAILED" => entry[f] = "failed")

RunSound ==
    /\ pc \in {"measure", "conclude", "done"} => JobsAdmitted
    /\ pc \in {"conclude", "done"} => Intervalled
    /\ pc # "done" => NothingYet
    /\ ConclusionsAgree /\ VerdictIsFounded

RunInv == RunTyped /\ RunSound

\* The selection stays, and what is measured with it.
LEMMA SelectionStays ==
    ASSUME UNCHANGED <<selected, entry>>
    PROVE  Lacking' = Lacking /\ Jobs' = Jobs
<1>1. \A p : p \in Run!Missing' <=> p \in Run!Missing
  BY DEF Run!Missing, Run!Required
<1>2. Lacking' = Lacking
  BY <1>1, Zenon DEF Lacking
<1>3. Jobs' = Jobs
  BY DEF Jobs, Run!MeasuredNames, Run!Missing, Run!Required
<1>4. QED
  BY <1>2, <1>3

\* While no format changes its state, none is benchmarked and none fails.
LEMMA NothingYetStays ==
    ASSUME NothingYet, UNCHANGED <<entry, state>>
    PROVE  NothingYet'
<1>1. AllFormats' = AllFormats
  BY DEF AllFormats, Run!Formats, Run!Required
<1>2. QED
  BY <1>1 DEF NothingYet

\* Before the run is done nothing is concluded.
LEMMA NothingConcluded == pc # "done" => ConclusionsAgree /\ VerdictIsFounded
  BY DEF ConclusionsAgree, VerdictIsFounded, Run!ComparedIsMeasured, Run!AdmittedIsComparable,
     Run!FailedRunHasNothing, Run!StatusAgrees, Run!VerdictMeansItsIntervals, Run!StorageAgrees

\* The state that prepare and verify leave a format in.
LEMMA BeforeWords ==
    ASSUME NEW e
    PROVE  /\ Before(e) \in {"NONE", "UNSUPPORTED", "ROUNDTRIP_VERIFIED", "FAILED"}
           /\ Before(e) = "FAILED" => e = "failed"
<1>1. Before(e) = CASE e = "unsupported" -> "UNSUPPORTED"
                    [] e = "failed" -> "FAILED"
                    [] e = "absent" -> "NONE"
                    [] OTHER -> "ROUNDTRIP_VERIFIED"
  BY Zenon DEF Before, Run!StateBefore
<1>2. QED
  BY <1>1

\* What the first state has, also while a merge happens.
LEMMA RunInit == Run!Init \/ RunAtRest => RunInv
<1> SUFFICES ASSUME Run!Init \/ RunAtRest PROVE RunInv
  OBVIOUS
<1>1. /\ pc = "admit" /\ selected \subseteq RunPairs /\ failed = {} /\ status = "NONE"
      /\ selected # {}
  BY RunAssumption DEF Run!Init, RunAtRest, Run!RegisteredAssumption
<1>2. verdict = [p \in RunPairs |-> "NONE"]
  BY DEF Run!Init, RunAtRest
<1>3. /\ state \in [AllFormats ->
                     {"NONE", "UNSUPPORTED", "ROUNDTRIP_VERIFIED", "BENCHMARKED", "FAILED"}]
      /\ NothingYet
  <2>1. CASE RunAtRest
    BY <2>1 DEF RunAtRest, AllFormats, NothingYet
  <2>2. CASE Run!Init
    <3>1. state = [f \in AllFormats |-> Before(entry[f])]
      BY <2>2, Zenon DEF Run!Init, AllFormats, Before
    <3>2. QED
      BY <3>1, BeforeWords DEF NothingYet
  <2>3. QED
    BY <2>1, <2>2
<1>4. QED
  BY <1>1, <1>2, <1>3, NothingConcluded DEF RunInv, RunTyped, RunSound

\* What the conclusion writes.
LEMMA ConcludeWords ==
    ASSUME RunTyped, Run!Conclude
    PROVE  /\ pc = "conclude" /\ pc' = "done"
           /\ UNCHANGED <<selected, entry, sizes, fresh, failed, primary, secondary>>
           /\ verdict' = [p \in RunPairs |-> IF p \in selected THEN VerdictOf(p) ELSE "NONE"]
           /\ state' = [f \in AllFormats |-> IF f \notin Jobs THEN state[f]
                                             ELSE IF f \in failed THEN "FAILED" ELSE "BENCHMARKED"]
           /\ runState' = IF Jobs \ failed # {} \/ Lacking # {} THEN "BENCHMARKED" ELSE "FAILED"
           /\ status' = IF failed = {} /\ Jobs \ failed # {} THEN "MEASURED"
                        ELSE IF failed # {} /\ (Jobs \ failed # {} \/ Lacking # {}) THEN "PARTIAL"
                        ELSE IF Lacking # {} THEN "UNSUPPORTED"
                        ELSE "FAILED"
<1>1. /\ pc = "conclude" /\ pc' = "done"
      /\ UNCHANGED <<selected, entry, sizes, fresh, failed, primary, secondary>>
  BY DEF Run!Conclude, Run!inputs, Run!measured
<1>2. verdict' = [p \in RunPairs |-> IF p \in selected THEN VerdictOf(p) ELSE "NONE"]
  BY Zenon DEF Run!Conclude, VerdictOf
<1>3. state' = [f \in AllFormats |-> IF f \notin Jobs THEN state[f]
                                    ELSE IF f \in failed THEN "FAILED" ELSE "BENCHMARKED"]
  BY Zenon DEF Run!Conclude, AllFormats, Jobs
<1>4. runState' = IF Jobs \ failed # {} \/ Lacking # {} THEN "BENCHMARKED" ELSE "FAILED"
  BY Zenon DEF Run!Conclude, Run!RunState, Run!Successful, Jobs, Lacking
<1>5. status' = IF failed = {} /\ Jobs \ failed # {} THEN "MEASURED"
                ELSE IF failed # {} /\ (Jobs \ failed # {} \/ Lacking # {}) THEN "PARTIAL"
                ELSE IF Lacking # {} THEN "UNSUPPORTED"
                ELSE "FAILED"
  BY Zenon DEF Run!Conclude, Run!Status, Run!Successful, Jobs, Lacking
<1>6. QED
  BY <1>1, <1>2, <1>3, <1>4, <1>5

\* A candidate is compared in one pair, so that the record of its sizes is of
\* that pair's reference.
LEMMA StorageOfItsPair ==
    ASSUME RunTyped, Run!Conclude, NEW p \in selected, Whole(p), NEW f \in Candidates[p]
    PROVE  storage'[f] = SizesOf(Reference[p], f)
<1>1. \A q \in selected : f \in Candidates[q] => q = p
  BY RunAssumption DEF RunTyped, Run!CandidatesAssumption
<1>2. (CHOOSE q \in selected : f \in Candidates[q]) = p
  BY <1>1, Zenon
<1>3. f \in AllFormats
  BY PairWords DEF RunTyped
<1>4. storage' = [g \in AllFormats |->
                    IF \E q \in selected \ Lacking :
                          g \in Candidates[q] /\ FormatsOfPair(q) \cap failed = {}
                    THEN SizesOf(Reference[CHOOSE q \in selected : g \in Candidates[q]], g)
                    ELSE "NONE"]
  BY Zenon DEF Run!Conclude, AllFormats, Lacking, FormatsOfPair, SizesOf
<1>5. \E q \in selected \ Lacking : f \in Candidates[q] /\ FormatsOfPair(q) \cap failed = {}
  BY DEF Whole
<1>6. storage'[f] = SizesOf(Reference[CHOOSE q \in selected : f \in Candidates[q]], f)
  BY <1>3, <1>4, <1>5, Zenon
<1>7. QED
  BY <1>2, <1>6, Zenon

\* The verdict on a pair, and the record of the sizes of its candidates.
LEMMA PairConcluded ==
    ASSUME RunInv, Run!Conclude, NEW p \in selected
    PROVE  /\ verdict'[p] \in Comparison <=> Whole(p)
           /\ verdict'[p] \in Comparison \cup {"NOT_APPLICABLE"}
           /\ Whole(p) =>
                 /\ verdict'[p] = "PRACTICALLY_EQUIVALENT" <=>
                       \A f \in Candidates[p] : Within(primary[f])
                 /\ verdict'[p] = "MEANINGFUL_DIFFERENCE" <=>
                       \E f \in Candidates[p] : Outside(primary[f])
                 /\ \A f \in Candidates[p] :
                       /\ Outside(primary[f]) => storage'[f] = "MEANINGFUL_DIFFERENCE"
                       /\ storage'[f] = "PRACTICALLY_EQUIVALENT" => Within(primary[f])
<1>1. verdict'[p] = VerdictOf(p)
  BY ConcludeWords DEF RunInv, RunTyped
<1>2. CASE ~ Whole(p)
  <2>1. VerdictOf(p) = "NOT_APPLICABLE"
    BY <1>2, PairVerdictWords DEF Whole
  <2>2. QED
    BY <1>1, <1>2, <2>1, PairWords
<1>3. CASE Whole(p)
  <2>1. VerdictOf(p) = EvidenceFor(p)
    BY <1>3, PairVerdictWords DEF Whole
  <2>2. ASSUME NEW f \in FormatsOfPair(p) PROVE sizes[f] = Expected
    <3>1. f \in Jobs
      BY <1>3, PairWords DEF Whole
    <3>2. QED
      BY <3>1, ConcludeWords DEF RunInv, RunSound, JobsAdmitted
  <2>3. ASSUME NEW f \in Candidates[p]
        PROVE  /\ sizes[Reference[p]] = Expected /\ sizes[f] = Expected
               /\ VerdictOn(Reference[p], f) = Class(primary[f])
    BY <2>2, PairWords, CandidateWords
  <2>4. ASSUME NEW f \in Candidates[p]
        PROVE  /\ Class(primary[f]) \in Comparison
               /\ Class(primary[f]) = "PRACTICALLY_EQUIVALENT" <=> Within(primary[f])
               /\ Class(primary[f]) = "MEANINGFUL_DIFFERENCE" <=> Outside(primary[f])
    <3>1. primary[f] \in Intervals
      BY <1>3, ConcludeWords DEF RunInv, RunSound, Intervalled
    <3>2. /\ primary[f].lower \in Int /\ primary[f].upper \in Int
          /\ primary[f].lower <= primary[f].upper
      BY <3>1, RunAssumption DEF Run!IntervalsAssumption
    <3>3. QED
      BY <3>2, ClassWords
  <2>5. ASSUME NEW f \in Candidates[p]
        PROVE  /\ Outside(primary[f]) => storage'[f] = "MEANINGFUL_DIFFERENCE"
               /\ storage'[f] = "PRACTICALLY_EQUIVALENT" => Within(primary[f])
    <3>1. storage'[f] = SizesOf(Reference[p], f)
      BY <1>3, StorageOfItsPair DEF RunInv
    <3>2. QED
      BY <2>3, <2>4, <3>1, StorageWords
  <2>6. /\ EvidenceFor(p) \in Comparison
        /\ EvidenceFor(p) = "MEANINGFUL_DIFFERENCE" <=>
              \E f \in Candidates[p] : VerdictOn(Reference[p], f) = "MEANINGFUL_DIFFERENCE"
        /\ EvidenceFor(p) = "PRACTICALLY_EQUIVALENT" <=>
              \A f \in Candidates[p] : VerdictOn(Reference[p], f) = "PRACTICALLY_EQUIVALENT"
    BY <2>3, <2>4, EvidenceWords
  <2>7. QED
    BY <1>1, <1>3, <2>1, <2>3, <2>4, <2>5, <2>6
<1>4. QED
  BY <1>2, <1>3

\* A step before the conclusion leaves nothing concluded.
LEMMA AdmissionStep ==
    ASSUME RunInv, Run!Admit \/ Run!Reject
    PROVE  RunInv'
<1>1. /\ pc = "admit" /\ pc' \in {"measure", "rejected"}
      /\ UNCHANGED <<selected, entry, sizes, fresh, failed, verdict, state, status>>
  BY DEF Run!Admit, Run!Reject, Run!inputs, Run!measured, Run!conclusions
<1>2. Lacking' = Lacking /\ Jobs' = Jobs
  BY <1>1, SelectionStays
<1>3. pc' = "measure" => JobsAdmitted
  BY DEF Run!Admit, Run!Reject, Run!Admissible, JobsAdmitted, Jobs
<1>4. ConclusionsAgree' /\ VerdictIsFounded'
  <2>1. (pc # "done")'
    BY <1>1
  <2>2. QED
    BY <2>1, NothingConcluded, PTL
<1>5. RunTyped'
  BY <1>1, <1>2 DEF RunInv, RunTyped
<1>6. JobsAdmitted => JobsAdmitted'
  BY <1>1, <1>2 DEF JobsAdmitted
<1>7. NothingYet'
  BY <1>1, NothingYetStays DEF RunInv, RunSound
<1>8. QED
  BY <1>1, <1>3, <1>4, <1>5, <1>6, <1>7 DEF RunInv, RunSound

\* The measurement gives every candidate of a pair without a failure its interval.
LEMMA MeasureStep ==
    ASSUME RunInv, Run!Measure
    PROVE  RunInv'
<1>1. /\ pc = "measure" /\ pc' = "conclude" /\ failed' \subseteq Jobs
      /\ UNCHANGED <<selected, entry, sizes, fresh, verdict, state, status>>
  BY Zenon DEF Run!Measure, Run!inputs, Run!conclusions, Jobs
<1>2. Lacking' = Lacking /\ Jobs' = Jobs
  BY <1>1, SelectionStays
<1>3. Intervalled'
  <2> DEFINE compared == UNION {Candidates[p] : p \in {q \in selected \ Lacking :
                                                  FormatsOfPair(q) \cap failed' = {}}}
  <2>1. PICK sized \in [compared -> Intervals] :
           primary' = [f \in AllFormats |-> IF f \in compared THEN sized[f] ELSE Run!NoInterval]
    BY Zenon DEF Run!Measure, AllFormats, Lacking, FormatsOfPair
  <2>2. ASSUME NEW p \in selected, p \notin Lacking, FormatsOfPair(p) \cap failed' = {},
               NEW f \in Candidates[p]
        PROVE  primary'[f] \in Intervals
    <3>1. f \in compared
      BY <2>2
    <3>2. f \in AllFormats
      BY <2>2, PairWords DEF RunInv, RunTyped
    <3> HIDE DEF compared
    <3>3. primary'[f] = sized[f]
      BY <2>1, <3>1, <3>2, Zenon
    <3>4. QED
      BY <2>1, <3>1, <3>3
  <2>3. \A p : FormatsOfPair(p)' = FormatsOfPair(p)
    BY DEF FormatsOfPair, Run!Required
  <2>4. QED
    BY <1>1, <1>2, <2>2, <2>3 DEF Intervalled, Whole
<1>4. ConclusionsAgree' /\ VerdictIsFounded'
  <2>1. (pc # "done")'
    BY <1>1
  <2>2. QED
    BY <2>1, NothingConcluded, PTL
<1>5. RunTyped'
  BY <1>1, <1>2 DEF RunInv, RunTyped
<1>6. JobsAdmitted'
  BY <1>1, <1>2 DEF RunInv, RunSound, JobsAdmitted
<1>7. NothingYet'
  BY <1>1, NothingYetStays DEF RunInv, RunSound
<1>8. QED
  BY <1>1, <1>3, <1>4, <1>5, <1>6, <1>7 DEF RunInv, RunSound

\* The conclusion of a run agrees with itself and with what it rests on.
LEMMA ConcludeStep ==
    ASSUME RunInv, Run!Conclude
    PROVE  RunInv'
<1>1. /\ pc = "conclude" /\ pc' = "done"
      /\ UNCHANGED <<selected, entry, sizes, fresh, failed, primary, secondary>>
      /\ verdict' = [p \in RunPairs |-> IF p \in selected THEN VerdictOf(p) ELSE "NONE"]
      /\ state' = [f \in AllFormats |-> IF f \notin Jobs THEN state[f]
                                        ELSE IF f \in failed THEN "FAILED" ELSE "BENCHMARKED"]
      /\ runState' = IF Jobs \ failed # {} \/ Lacking # {} THEN "BENCHMARKED" ELSE "FAILED"
      /\ status' = IF failed = {} /\ Jobs \ failed # {} THEN "MEASURED"
                   ELSE IF failed # {} /\ (Jobs \ failed # {} \/ Lacking # {}) THEN "PARTIAL"
                   ELSE IF Lacking # {} THEN "UNSUPPORTED"
                   ELSE "FAILED"
  BY ConcludeWords DEF RunInv
<1>2. /\ selected \subseteq RunPairs /\ selected # {} /\ failed \subseteq Jobs /\ JobsAdmitted /\ Intervalled
      /\ state \in [AllFormats ->
                     {"NONE", "UNSUPPORTED", "ROUNDTRIP_VERIFIED", "BENCHMARKED", "FAILED"}]
      /\ NothingYet
  BY <1>1 DEF RunInv, RunTyped, RunSound
<1>3. Lacking' = Lacking /\ Jobs' = Jobs
  BY <1>1, SelectionStays
<1>4. ASSUME NEW p \in selected, NEW f \in FormatsOfPair(p) PROVE f \in AllFormats
  BY <1>2, PairWords
<1>5. \A f \in Jobs : f \in AllFormats
  BY <1>4, PairWords
<1>6. ASSUME NEW f \in AllFormats
      PROVE  /\ state'[f] = "BENCHMARKED" <=> f \in Jobs \ failed
             /\ state'[f] = "FAILED" /\ entry[f] # "failed" <=> f \in failed
  <2>1. CASE f \in Jobs
    <3>1. entry[f] = "verified"
      BY <2>1, PairWords
    <3>2. state'[f] = IF f \in failed THEN "FAILED" ELSE "BENCHMARKED"
      BY <1>1, <2>1
    <3>3. QED
      BY <2>1, <3>1, <3>2
  <2>2. CASE f \notin Jobs
    <3>1. state'[f] = state[f] /\ f \notin failed
      BY <1>1, <1>2, <2>2
    <3>2. QED
      BY <1>2, <2>2, <3>1 DEF NothingYet
  <2>3. QED
    BY <2>1, <2>2
<1>7. ASSUME NEW p \in selected
      PROVE  Whole(p) <=> \A f \in FormatsOfPair(p) : state'[f] = "BENCHMARKED"
  <2>1. CASE Whole(p)
    BY <1>4, <1>6, <2>1, PairWords DEF Whole
  <2>2. CASE p \in Lacking
    <3>1. PICK f \in FormatsOfPair(p) : entry[f] # "verified"
      BY <2>2, PairWords
    <3>2. f \notin Jobs
      BY <3>1, PairWords
    <3>3. QED
      BY <1>4, <1>6, <2>2, <3>1, <3>2 DEF Whole
  <2>3. CASE FormatsOfPair(p) \cap failed # {}
    BY <1>4, <1>6, <2>3 DEF Whole
  <2>4. QED
    BY <2>1, <2>2, <2>3 DEF Whole
<1>8. Run!ComparedIsMeasured'
  <2>1. \A p \in selected :
           verdict'[p] \in Comparison <=> \A f \in FormatsOfPair(p) : state'[f] = "BENCHMARKED"
    BY <1>7, PairConcluded
  <2>2. QED
    BY <1>1, <2>1, Zenon
    DEF Run!ComparedIsMeasured, Comparison, FormatsOfPair, Run!Compared, Run!Required
<1>9. Run!AdmittedIsComparable'
  <2>1. ASSUME NEW p \in selected, verdict'[p] = "NOT_APPLICABLE"
        PROVE  \E f \in FormatsOfPair(p) : entry[f] # "verified" \/ state'[f] = "FAILED"
    <3>1. ~ Whole(p)
      BY <2>1, PairConcluded, PairWords
    <3>2. QED
      BY <1>4, <1>6, <3>1, PairWords DEF Whole
  <2>2. ASSUME NEW p \in selected, verdict'[p] \in Comparison
        PROVE  FormatsOfPair(p) \subseteq fresh
    <3>1. Whole(p)
      BY <2>2, PairConcluded
    <3>2. QED
      BY <1>2, <3>1, PairWords DEF Whole, JobsAdmitted
  <2>3. QED
    BY <1>1, <2>1, <2>2, Zenon
    DEF Run!AdmittedIsComparable, Comparison, FormatsOfPair, Run!Compared, Run!Required
<1>10. Run!FailedRunHasNothing'
  <2>1. (\A f \in AllFormats : state'[f] # "BENCHMARKED") <=> Jobs \ failed = {}
    BY <1>5, <1>6
  <2>2. (\A p \in selected : \A f \in FormatsOfPair(p) : entry[f] = "verified") <=> Lacking = {}
    BY PairWords
  <2>3. runState' = "FAILED" <=>
           /\ \A f \in AllFormats : state'[f] # "BENCHMARKED"
           /\ \A p \in selected : \A f \in FormatsOfPair(p) : entry[f] = "verified"
    BY <1>1, <2>1, <2>2
  <2>4. QED
    BY <1>1, <2>3, Zenon
    DEF Run!FailedRunHasNothing, AllFormats, FormatsOfPair, Run!Formats, Run!Required
<1>11. Run!StatusAgrees'
  <2>1. Done' = Jobs \ failed /\ FailedNow' = failed
    <3>1. \A f : f \in Done' <=> f \in AllFormats /\ state'[f] = "BENCHMARKED"
      BY Zenon DEF Done, Run!Benchmarked, AllFormats, Run!Formats, Run!Required
    <3>2. \A f : f \in FailedNow' <=>
                    f \in AllFormats /\ state'[f] = "FAILED" /\ entry[f] # "failed"
      BY <1>1, Zenon DEF FailedNow, Run!FailedHere, AllFormats, Run!Formats, Run!Required
    <3>3. QED
      BY <1>2, <1>5, <1>6, <3>1, <3>2
  <2>2. Jobs # {} \/ Lacking # {}
    <3>1. PICK p \in selected : TRUE
      BY <1>2
    <3>2. p \notin Lacking => Reference[p] \in Jobs
      BY <3>1, PairWords
    <3>3. QED
      BY <3>2
  <2>3. /\ status' = "MEASURED" <=> Done' # {} /\ FailedNow' = {}
        /\ status' = "PARTIAL" <=> FailedNow' # {} /\ runState' = "BENCHMARKED"
        /\ status' = "UNSUPPORTED" <=> Done' = {} /\ FailedNow' = {}
        /\ status' = "FAILED" <=> runState' = "FAILED"
    BY <1>1, <1>2, <2>1, <2>2
  <2>4. QED
    BY <2>3, Zenon DEF Run!StatusAgrees, Done, FailedNow
<1>12. Run!VerdictMeansItsIntervals' /\ Run!StorageAgrees'
  <2>1. ASSUME NEW p \in selected, verdict'[p] \in Comparison
        PROVE  /\ verdict'[p] = "PRACTICALLY_EQUIVALENT" <=>
                     \A f \in Candidates[p] : Within(primary[f])
               /\ verdict'[p] = "MEANINGFUL_DIFFERENCE" <=>
                     \E f \in Candidates[p] : Outside(primary[f])
               /\ verdict'[p] = "MEANINGFUL_DIFFERENCE" =>
                     \E f \in Candidates[p] : storage'[f] = "MEANINGFUL_DIFFERENCE"
               /\ (\A f \in Candidates[p] : storage'[f] = "PRACTICALLY_EQUIVALENT") =>
                     verdict'[p] = "PRACTICALLY_EQUIVALENT"
    BY <2>1, PairConcluded
  <2>2. QED
    BY <1>1, <2>1, Zenon
    DEF Run!VerdictMeansItsIntervals, Run!StorageAgrees, Comparison, Run!Compared, Within, Outside
<1>13. ConclusionsAgree' /\ VerdictIsFounded'
  BY <1>8, <1>9, <1>10, <1>11, <1>12, Zenon DEF ConclusionsAgree, VerdictIsFounded
<1>14. RunTyped'
  <2>1. \A p \in RunPairs : verdict'[p] \in Comparison \cup {"NONE", "NOT_APPLICABLE"}
    BY <1>1, PairConcluded
  <2>2. Comparison' = Comparison /\ AllFormats' = AllFormats
    BY DEF Comparison, AllFormats, Run!Compared, Run!Formats, Run!Required
  <2>3. verdict' \in [RunPairs -> Comparison \cup {"NONE", "NOT_APPLICABLE"}]
    BY <1>1, <2>1
  <2>4. state' \in [AllFormats ->
                       {"NONE", "UNSUPPORTED", "ROUNDTRIP_VERIFIED", "BENCHMARKED", "FAILED"}]
    BY <1>1, <1>2
  <2>5. status' \in {"NONE", "MEASURED", "PARTIAL", "UNSUPPORTED", "FAILED"}
    BY <1>1
  <2>6. QED
    BY <1>1, <1>2, <1>3, <2>2, <2>3, <2>4, <2>5 DEF RunTyped
<1>15. JobsAdmitted' /\ Intervalled'
  <2>1. \A p : Whole(p)' <=> Whole(p)
    BY <1>1, <1>3 DEF Whole, FormatsOfPair, Run!Required
  <2>2. QED
    BY <1>1, <1>2, <1>3, <2>1 DEF JobsAdmitted, Intervalled
<1>16. QED
  BY <1>1, <1>13, <1>14, <1>15 DEF RunInv, RunSound

\* Nothing of the run moves, in a step of a merge or in none.
LEMMA RunStays ==
    ASSUME RunInv, UNCHANGED ofRun
    PROVE  RunInv'
<1>1. UNCHANGED <<pc, selected, entry, sizes, fresh, failed, primary, secondary, verdict,
                  storage, state, runState, status>>
  BY DEF ofRun
<1>2. Lacking' = Lacking /\ Jobs' = Jobs
  BY <1>1, SelectionStays
<1>3. \A p : Whole(p)' <=> Whole(p)
  BY <1>1, <1>2 DEF Whole, FormatsOfPair, Run!Required
<1>4. JobsAdmitted' <=> JobsAdmitted
  BY <1>1, <1>2 DEF JobsAdmitted
<1>5. Intervalled' <=> Intervalled
  BY <1>1, <1>3 DEF Intervalled
<1>6. ConclusionsAgree' <=> ConclusionsAgree
  <2>1. Run!ComparedIsMeasured' <=> Run!ComparedIsMeasured
    BY <1>1, Zenon DEF Run!ComparedIsMeasured
  <2>2. Run!AdmittedIsComparable' <=> Run!AdmittedIsComparable
    BY <1>1, Zenon DEF Run!AdmittedIsComparable
  <2>3. Run!FailedRunHasNothing' <=> Run!FailedRunHasNothing
    BY <1>1, Zenon DEF Run!FailedRunHasNothing
  <2>4. Run!StatusAgrees' <=> Run!StatusAgrees
    BY <1>1, Zenon DEF Run!StatusAgrees, Run!Benchmarked, Run!FailedHere
  <2>5. QED
    BY <2>1, <2>2, <2>3, <2>4, Zenon DEF ConclusionsAgree
<1>7. VerdictIsFounded' <=> VerdictIsFounded
  BY <1>1, Zenon DEF VerdictIsFounded, Run!VerdictMeansItsIntervals, Run!StorageAgrees
<1>8. RunTyped'
  BY <1>1, <1>2 DEF RunInv, RunTyped
<1>9. NothingYet => NothingYet'
  BY <1>1, NothingYetStays
<1>10. QED
  BY <1>1, <1>4, <1>5, <1>6, <1>7, <1>8, <1>9 DEF RunInv, RunSound

-----------------------------------------------------------------------------
(* The two side by side *)

\* Whatever happens, a run or a merge, is a step of ShardMerge or leaves the
\* shards and the merges alone.
LEMMA MergeAmongThem == MCSpec => Spec
<1>1. MCInit => Init
  BY DEF MCInit
<1>2. [MCNext]_all => [Next]_vars
  BY DEF MCNext, RunStep, MergeStep, all
<1>3. QED
  BY <1>1, <1>2, PTL DEF MCSpec, Spec

\* The invariant of the run holds from the beginning and every step keeps it.
LEMMA RunSafe == MCSpec => []RunInv
<1>1. MCInit => RunInv
  BY RunInit DEF MCInit
<1>2. RunInv /\ [MCNext]_all => RunInv'
  <2> SUFFICES ASSUME RunInv, [MCNext]_all PROVE RunInv'
    OBVIOUS
  <2>1. CASE RunStep
    BY <2>1, AdmissionStep, MeasureStep, ConcludeStep, Zenon DEF RunStep, Run!Next
  <2>2. CASE MergeStep
    BY <2>2, RunStays DEF MergeStep
  <2>3. CASE UNCHANGED all
    BY <2>3, RunStays DEF all
  <2>4. QED
    BY <2>1, <2>2, <2>3 DEF MCNext
<1>3. QED
  BY <1>1, <1>2, PTL DEF MCSpec

\* What run_equivalence concludes agrees with itself, for any pairs, missing
\* formats and failed jobs: a pair is compared exactly when all its formats were
\* measured, on artifacts that are there with their sizes; the run is FAILED
\* exactly when there is no evidence, and the status says the same.
THEOREM ConclusionsOfARun == MCSpec => []ConclusionsAgree
<1>1. RunInv => ConclusionsAgree
  BY DEF RunInv, RunSound
<1>2. QED
  BY <1>1, RunSafe, PTL

\* A verdict of compare_candidate and pair_verdict says where the intervals of
\* the primary metric lie, for any bounds and intervals, and the record of all
\* sizes beside it does not contradict it.
THEOREM VerdictsAreFounded == MCSpec => []VerdictIsFounded
<1>1. RunInv => VerdictIsFounded
  BY DEF RunInv, RunSound
<1>2. QED
  BY <1>1, RunSafe, PTL

\* The shapes of the documents are kept by runs and merges alike.
THEOREM DocumentShapes == MCSpec => []MCTypeOK
<1>1. MergeInv => TypeOK
  <2> SUFFICES ASSUME MergeInv PROVE TypeOK
    OBVIOUS
  <2>1. base \in {"original", "altered"} /\ quiet \in BOOLEAN
    BY DEF MergeInv, ShardsInv
  <2>2. \A s \in 1..Shards :
           /\ shard[s].content \in {"original", "altered"}
           /\ shard[s].terminal \subseteq FormatNames
           /\ shard[s].manifest \in Measured \cup {"ROUNDTRIP_VERIFIED", "FAILED"}
    BY DEF MergeInv, ShardsInv, ShardOK, Verified
  <2>3. \A m \in Merges : merge[m].next \in 1..(Shards + 1)
    BY DEF MergeInv, MergesInv
  <2>4. output.owner \in Merges \cup {None}
    BY DEF MergeInv, OutputInv
  <2>5. ASSUME Published PROVE DOMAIN output.results.jobs \subseteq FormatNames
    <3>1. DOMAIN output.results.doc.pairs \subseteq Pairs
      BY <2>5 DEF MergeInv, OutputInv, PublishedInv
    <3>2. DOMAIN output.results.jobs = JobsOf(DOMAIN output.results.doc.pairs, Terminal)
      BY <2>5 DEF MergeInv, OutputInv, EvidenceOfOneRun
    <3>3. QED
      BY <3>1, <3>2, PairsAssumption DEF JobsOf
  <2>6. QED
    BY <2>1, <2>2, <2>3, <2>4, <2>5 DEF TypeOK
<1>2. RunInv => Run!TypeOK
  BY Zenon DEF RunInv, RunTyped, Run!TypeOK, Comparison, AllFormats, Jobs
<1>3. QED
  BY <1>1, <1>2, RunSafe, MergeSafe, MergeAmongThem, PTL DEF MCTypeOK

=============================================================================
