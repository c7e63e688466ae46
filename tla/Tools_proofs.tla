---------------------------- MODULE Tools_proofs ----------------------------
(***************************************************************************)
(* Proofs about MCTools, for any threads, findings, slots and runs, any    *)
(* number of lost answers, kills and changes by people.  The tools do not  *)
(* meet, so each has an invariant of its own: first the review sweep, then *)
(* the audit tracker, then the revalidation release.                       *)
(***************************************************************************)
EXTENDS MCTools, SequenceTheorems, FiniteSetTheorems, WellFoundedInduction, TLAPS

(***************************************************************************)
(* The review sweep.  First what holds of the hosting service: an issue    *)
(* belongs to one thread and no other has the same; the only reply to a    *)
(* thread names its issue; what the sweep resolved is answered.            *)
(***************************************************************************)
Labels == {Pending, Closed}
Issue == [thread : Threads, urgent : BOOLEAN, sound : BOOLEAN, labels : SUBSET Labels]

ServiceTyped ==
    /\ resolved \in [Threads -> {"nobody", "sweep", "person"}]
    /\ outdated \subseteq Threads /\ urgent \subseteq Threads
    /\ replies \in [Threads -> Seq(Nat)]
    /\ issues \in Seq(Issue)
    /\ batch \in BOOLEAN /\ edits \in Nat

AnIssueOf(t, n) == n \in DOMAIN issues /\ issues[n].thread = t

LabelsRight == \A n \in DOMAIN issues : issues[n].labels \in Lifecycles

IssuesApart ==
    \A m, n \in DOMAIN issues : issues[m].thread = issues[n].thread => m = n

RepliesRight ==
    \A t \in Threads :
        replies[t] = << >> \/ \E n \in DOMAIN issues : replies[t] = <<n>> /\ issues[n].thread = t

(* As long as nobody has changed anything, the threads and issues are as the
   sweeps left them. *)
Untouched ==
    edits = 0 =>
        /\ outdated = {}
        /\ \A t \in Threads : resolved[t] # "person"
        /\ \A n \in DOMAIN issues :
              /\ issues[n].sound = TRUE
              /\ issues[n].urgent = (issues[n].thread \in urgent)
              /\ Closed \in issues[n].labels => resolved[issues[n].thread] # "nobody"

ServiceInv ==
    /\ ServiceTyped /\ LabelsRight /\ IssuesApart /\ RepliesRight
    /\ ResolvedIsAnswered /\ ClosedIsLinked /\ Untouched

(***************************************************************************)
(* What a sweep knows, at its steps.  No other sweep is under way, so the  *)
(* issues and the replies are those it has read or made itself; what       *)
(* people may change it must not rely on.                                  *)
(***************************************************************************)
Reading == {"idle", "threads", "issues"}
BeforeReply == {"check reply", "reply"}
BeforeResolve == {"check resolve", "resolve"}
Labelling == {"label", "add", "check", "remove", "terminal"}
Working == {"read", "reread", "check link", "confirm"} \cup BeforeReply \cup BeforeResolve
           \cup Labelling

ViewFields(v) ==
    v \in [open : BOOLEAN, outdated : BOOLEAN, urgent : BOOLEAN, replies : {v.replies},
           priority : BOOLEAN, issue : {v.issue}]

SweepTyped ==
    /\ pc \in Reading \cup {"create", "created"} \cup Working
    /\ current \subseteq Threads /\ priority \subseteq current
    /\ tracked \in [Threads -> 0..Len(issues)]
    /\ work \subseteq Threads /\ item \in Threads \cup {NoThread}
    /\ ViewFields(view)

(* A thread has the issue the sweep knows of, or none. *)
TrackedRight ==
    \A t \in Threads :
        IF tracked[t] = 0 THEN \A n \in DOMAIN issues : issues[n].thread # t
        ELSE issues[tracked[t]].thread = t

AtWork ==
    /\ pc \notin Reading => TrackedRight /\ Untracked \subseteq current
    /\ pc \in {"idle", "threads"} => current = {} /\ priority = {}
    /\ pc \in Reading => work = {} /\ tracked = [t \in Threads |-> 0]
    /\ pc = "created" => item \in Threads /\ tracked[item] # 0
    /\ pc \in Working => item \in work /\ tracked[item] # 0 /\ Untracked = {}

Answered(t) == replies[t] = <<tracked[t]>>

ThreadSeen ==
    /\ pc \in BeforeReply => replies[item] = << >>
    /\ pc \in {"check link"} \cup BeforeReply =>
          /\ view.replies = replies[item]
          /\ view.open = TRUE => view.outdated = FALSE
          /\ view.outdated = TRUE => item \in outdated
    /\ pc \in BeforeResolve \cup {"confirm"} => Answered(item)
    /\ pc \in Labelling => Answered(item) \/ item \in outdated
    /\ pc \in {"remove", "terminal"} => Closed \in MyIssue.labels

(* As long as nobody has changed anything, the sweep knows what is urgent and
   which threads are resolved. *)
NothingElseChanged ==
    edits = 0 =>
        /\ priority = current \cap urgent
        /\ pc = "check link" /\ view.open = FALSE => resolved[item] # "nobody"
        /\ pc \in {"confirm"} \cup Labelling => resolved[item] # "nobody"

SweepInv == SweepTyped /\ AtWork /\ ThreadSeen /\ NothingElseChanged

CloseoutInv == ServiceInv /\ SweepInv


\* A finite sequence of issues has a length, and its places are counted from one.
LEMMA IssuePlaces ==
    ASSUME ServiceTyped
    PROVE  Len(issues) \in Nat /\ DOMAIN issues = 1..Len(issues)
  BY DEF ServiceTyped

\* In the first state there are no issues, and nobody has touched a thread.
LEMMA CloseoutInit == Init => CloseoutInv
<1> SUFFICES ASSUME Init PROVE CloseoutInv
  OBVIOUS
<1>1. issues = << >> /\ DOMAIN issues = {} /\ Len(issues) = 0
  BY DEF Init
<1>2. ServiceTyped
  BY DEF Init, ServiceTyped
<1>3. ServiceInv
  BY <1>1, <1>2 DEF Init, ServiceInv, LabelsRight, IssuesApart, RepliesRight, ResolvedIsAnswered,
     ClosedIsLinked, Untouched
<1>4. SweepInv
  BY <1>1 DEF Init, SweepInv, SweepTyped, AtWork, ThreadSeen, NothingElseChanged, Reading, Working,
     BeforeReply, BeforeResolve, Labelling, ViewFields, NoView
<1>5. QED
  BY <1>3, <1>4 DEF CloseoutInv

\* A step that leaves the service alone leaves alone what holds of it.
LEMMA ServiceStays ==
    ASSUME ServiceInv, UNCHANGED service
    PROVE  ServiceInv'
  BY DEF ServiceInv, ServiceTyped, LabelsRight, IssuesApart, RepliesRight, ResolvedIsAnswered,
     ClosedIsLinked, Untouched, service, threads

\* A sweep that ends forgets everything.
LEMMA SweepStops ==
    ASSUME ServiceInv', Stop
    PROVE  SweepInv'
<1>1. Len(issues)' \in Nat
  BY DEF ServiceInv, ServiceTyped
<1>2. SweepTyped'
  BY <1>1 DEF Stop, SweepTyped, Reading, ViewFields, NoView
<1>3. AtWork' /\ ThreadSeen' /\ NothingElseChanged'
  BY DEF Stop, AtWork, ThreadSeen, NothingElseChanged, Reading, Working, BeforeReply, BeforeResolve,
     Labelling
<1>4. QED
  BY <1>2, <1>3 DEF SweepInv

-----------------------------------------------------------------------------
(* The steps that only read *)

\* The sweep begins and reads the threads.
LEMMA ThreadsStep ==
    ASSUME CloseoutInv, Begin \/ ReadThreads
    PROVE  CloseoutInv'
<1>1. UNCHANGED <<service, tracked, work, item, view>>
  BY DEF Begin, ReadThreads, Move, found
<1>2. ServiceInv'
  BY <1>1, ServiceStays DEF CloseoutInv
<1>3. SweepInv'
  <2>1. /\ pc \in {"idle", "threads"} /\ pc' \in {"threads", "issues"}
        /\ current' \subseteq Threads /\ priority' \subseteq current'
        /\ pc' = "threads" => current' = {} /\ priority' = {}
        /\ priority' = current' \cap urgent
    BY DEF CloseoutInv, SweepInv, SweepTyped, AtWork, Begin, ReadThreads, Move, found
  <2>2. SweepTyped'
    BY <1>1, <2>1 DEF CloseoutInv, SweepInv, SweepTyped, Reading, service, ViewFields
  <2>3. AtWork' /\ ThreadSeen' /\ NothingElseChanged'
    BY <1>1, <2>1 DEF CloseoutInv, SweepInv, AtWork, ThreadSeen, NothingElseChanged, Reading, Working,
       BeforeReply, BeforeResolve, Labelling, service, threads
  <2>4. QED
    BY <2>2, <2>3 DEF SweepInv
<1>4. QED
  BY <1>2, <1>3 DEF CloseoutInv

\* The issue found for a thread is the thread's.
LEMMA TrackedWords ==
    ASSUME ServiceTyped
    PROVE  /\ Tracked \in [Threads -> 0..Len(issues)]
           /\ \A t \in Threads :
                 IF Tracked[t] = 0 THEN \A n \in DOMAIN issues : issues[n].thread # t
                 ELSE Tracked[t] \in DOMAIN issues /\ issues[Tracked[t]].thread = t
<1>1. ASSUME NEW t \in Threads
      PROVE  \/ IssuesOf(t) = {} /\ Tracked[t] = 0
             \/ /\ Tracked[t] \in DOMAIN issues /\ Tracked[t] # 0 /\ Tracked[t] \in 0..Len(issues)
                /\ issues[Tracked[t]].thread = t
  <2>1. Tracked[t] = IF IssuesOf(t) = {} THEN 0 ELSE CHOOSE n \in IssuesOf(t) : TRUE
    BY DEF Tracked
  <2>2. CASE IssuesOf(t) = {}
    BY <2>1, <2>2
  <2>3. CASE IssuesOf(t) # {}
    <3>1. Tracked[t] \in IssuesOf(t)
      BY <2>1, <2>3
    <3>2. QED
      BY <3>1, IssuePlaces DEF IssuesOf
  <2>4. QED
    BY <2>2, <2>3
<1>2. Tracked = [t \in Threads |-> Tracked[t]]
  BY DEF Tracked
<1>3. \A t \in Threads : Tracked[t] \in 0..Len(issues)
  BY <1>1, IssuePlaces
<1>4. QED
  BY <1>1, <1>2, <1>3 DEF IssuesOf

\* The sweep reads the issues and plans its work, or refuses.
LEMMA IssuesStep ==
    ASSUME CloseoutInv, ReadIssues
    PROVE  CloseoutInv'
<1>1. UNCHANGED service
  BY DEF ReadIssues
<1>2. ServiceInv'
  BY <1>1, ServiceStays DEF CloseoutInv
<1>3. SweepInv'
  <2>1. CASE Stop
    BY <1>2, <2>1, SweepStops
  <2>2. CASE ~ Stop
    <3>1. /\ pc' = "create" /\ tracked' = Tracked /\ work' = Recovery \cup Eligible
          /\ UNCHANGED <<failures, current, priority, item, view>>
          /\ pc = "issues"
      BY <2>2 DEF ReadIssues, Refuse
    <3>2. ServiceTyped
      BY DEF CloseoutInv, ServiceInv
    <3>3. /\ Recovery \subseteq Threads /\ \A t \in Recovery : Tracked[t] # 0
          /\ Eligible \subseteq current /\ current \subseteq Threads
      BY DEF CloseoutInv, SweepInv, SweepTyped, Recovery, Eligible
    <3>4. SweepTyped'
      BY <1>1, <3>1, <3>2, <3>3, TrackedWords
      DEF CloseoutInv, SweepInv, SweepTyped, service, ViewFields
    <3>5. TrackedRight'
      BY <1>1, <3>1, <3>2, TrackedWords DEF TrackedRight, service
    <3>6. (Untracked \subseteq current)'
      BY <3>1, <3>3 DEF Untracked
    <3>7. AtWork' /\ ThreadSeen' /\ NothingElseChanged'
      BY <1>1, <3>1, <3>5, <3>6 DEF CloseoutInv, SweepInv, AtWork, ThreadSeen, NothingElseChanged,
         Reading, Working, BeforeReply, BeforeResolve, Labelling, service, threads
    <3>8. QED
      BY <3>4, <3>7 DEF SweepInv
  <2>3. QED
    BY <2>1, <2>2
<1>4. QED
  BY <1>2, <1>3 DEF CloseoutInv

-----------------------------------------------------------------------------
(* The issues are created *)

\* What a new issue adds to the service.
LEMMA CreatedIssue ==
    ASSUME CloseoutInv, NEW t \in Untracked, pc = "create", issues' = Append(issues, NewIssue(t)),
           UNCHANGED <<threads, batch, edits>>
    PROVE  /\ ServiceInv'
           /\ Len(issues') = Len(issues) + 1 /\ DOMAIN issues' = DOMAIN issues \cup {Len(issues')}
           /\ \A n \in DOMAIN issues : issues'[n] = issues[n] /\ n # Len(issues')
           /\ issues'[Len(issues')].thread = t
<1> DEFINE last == Len(issues) + 1
<1>1. /\ t \in Threads /\ t \in current /\ priority \subseteq current
      /\ \A n \in DOMAIN issues : issues[n].thread # t
      /\ edits = 0 => priority = current \cap urgent
  BY DEF CloseoutInv, SweepInv, SweepTyped, AtWork, TrackedRight, NothingElseChanged, Untracked, Reading
<1>2. ServiceTyped /\ issues \in Seq(Issue)
  BY DEF CloseoutInv, ServiceInv, ServiceTyped
<1>3. /\ NewIssue(t) \in Issue /\ NewIssue(t).thread = t /\ NewIssue(t).labels = {Pending}
      /\ NewIssue(t).sound = TRUE /\ NewIssue(t).urgent = (t \in priority)
  BY <1>1 DEF NewIssue, Issue, Labels
<1>4. /\ Len(issues) \in Nat /\ DOMAIN issues = 1..Len(issues)
      /\ issues' \in Seq(Issue) /\ Len(issues') = last /\ DOMAIN issues' = 1..last
      /\ issues'[last] = NewIssue(t) /\ \A n \in 1..Len(issues) : issues'[n] = issues[n]
  <2> HIDE DEF last
  <2>1. Len(issues) \in Nat /\ DOMAIN issues = 1..Len(issues)
    BY <1>2, IssuePlaces
  <2>2. QED
    BY <1>2, <1>3, <2>1, AppendProperties DEF last
<1>5. /\ DOMAIN issues' = DOMAIN issues \cup {last} /\ last \notin DOMAIN issues
      /\ \A n \in DOMAIN issues : issues'[n] = issues[n]
  BY <1>4
<1> HIDE DEF last
<1>6. UNCHANGED <<resolved, outdated, urgent, replies, batch, edits>>
  BY DEF threads
<1>7. ServiceTyped'
  BY <1>2, <1>4, <1>6 DEF ServiceTyped
<1>8. LabelsRight' /\ IssuesApart'
  BY <1>1, <1>3, <1>4, <1>5 DEF CloseoutInv, ServiceInv, LabelsRight, IssuesApart, Lifecycles
<1>9. RepliesRight' /\ ResolvedIsAnswered'
  BY <1>5, <1>6 DEF CloseoutInv, ServiceInv, RepliesRight, ResolvedIsAnswered
<1>10. ClosedIsLinked'
  <2>1. Closed \notin issues'[last].labels
    BY <1>3, <1>4 DEF Pending, Closed
  <2>2. ASSUME NEW n \in DOMAIN issues, Closed \in issues'[n].labels
        PROVE  replies'[issues'[n].thread] = <<n>> \/ issues'[n].thread \in outdated'
    BY <1>5, <1>6, <2>2 DEF CloseoutInv, ServiceInv, ClosedIsLinked
  <2>3. QED
    BY <1>5, <2>1, <2>2 DEF ClosedIsLinked
<1>11. Untouched'
  BY <1>1, <1>3, <1>4, <1>5, <1>6 DEF CloseoutInv, ServiceInv, Untouched, Pending, Closed
<1>12. QED
  BY <1>3, <1>4, <1>5, <1>7, <1>8, <1>9, <1>10, <1>11 DEF ServiceInv

\* An issue is created, and the answer may be lost.
LEMMA CreateStep ==
    ASSUME CloseoutInv, CreateIssue
    PROVE  CloseoutInv'
<1>1. PICK t \in Untracked :
          /\ issues' = Append(issues, NewIssue(t))
          /\ \/ /\ tracked' = [tracked EXCEPT ![t] = Len(issues')]
                /\ item' = t
                /\ pc' = "created"
                /\ UNCHANGED <<failures, current, priority, work, view>>
             \/ Lost
  BY DEF CreateIssue
<1>2. pc = "create" /\ UNCHANGED <<threads, batch, edits>>
  BY DEF CreateIssue
<1>3. /\ ServiceInv'
      /\ Len(issues') = Len(issues) + 1 /\ DOMAIN issues' = DOMAIN issues \cup {Len(issues')}
      /\ \A n \in DOMAIN issues : issues'[n] = issues[n] /\ n # Len(issues')
      /\ issues'[Len(issues')].thread = t
  BY <1>1, <1>2, CreatedIssue
<1>4. CASE Lost
  BY <1>3, <1>4, SweepStops DEF Lost, CloseoutInv
<1>5. CASE /\ tracked' = [tracked EXCEPT ![t] = Len(issues')]
           /\ item' = t
           /\ pc' = "created"
           /\ UNCHANGED <<failures, current, priority, work, view>>
  <2>1. /\ Len(issues) \in Nat /\ DOMAIN issues = 1..Len(issues)
        /\ t \in Threads /\ t \in work /\ tracked \in [Threads -> 0..Len(issues)]
    BY IssuePlaces DEF CloseoutInv, ServiceInv, SweepInv, SweepTyped, Untracked
  <2>2. SweepTyped'
    BY <1>3, <1>5, <2>1 DEF CloseoutInv, SweepInv, SweepTyped, ViewFields
  <2>3. TrackedRight'
    <3>1. TrackedRight
      BY <1>2 DEF CloseoutInv, SweepInv, AtWork, Reading
    <3>2. ASSUME NEW u \in Threads
          PROVE  IF tracked'[u] = 0 THEN \A n \in DOMAIN issues' : issues'[n].thread # u
                 ELSE issues'[tracked'[u]].thread = u
      <4>1. CASE u = t
        BY <1>3, <1>5, <2>1, <4>1
      <4>2. CASE u # t /\ tracked[u] = 0
        BY <1>3, <1>5, <2>1, <3>1, <4>2 DEF TrackedRight
      <4>3. CASE u # t /\ tracked[u] # 0
        BY <1>3, <1>5, <2>1, <3>1, <4>3 DEF TrackedRight
      <4>4. QED
        BY <4>1, <4>2, <4>3
    <3>3. QED
      BY <3>2 DEF TrackedRight
  <2>4. (Untracked \subseteq current)' /\ tracked'[t] # 0
    <3>1. Untracked \subseteq current
      BY <1>2 DEF CloseoutInv, SweepInv, AtWork, Reading
    <3>2. tracked'[t] # 0
      BY <1>3, <1>5, <2>1
    <3>3. QED
      BY <1>5, <2>1, <3>1, <3>2 DEF Untracked
  <2>5. AtWork' /\ ThreadSeen' /\ NothingElseChanged'
    BY <1>2, <1>5, <2>1, <2>3, <2>4 DEF CloseoutInv, SweepInv, AtWork, ThreadSeen, NothingElseChanged,
       Reading, Working, BeforeReply, BeforeResolve, Labelling, threads
  <2>6. QED
    BY <1>3, <2>2, <2>5 DEF CloseoutInv, SweepInv
<1>6. QED
  BY <1>1, <1>4, <1>5

(***************************************************************************)
(* The steps that read one thread or its issue, and go on or stop.  They   *)
(* leave the service and the plan alone, so that what the sweep is to know *)
(* at its next step is all there is to show.                               *)
(***************************************************************************)
LEMMA ReadOnly ==
    ASSUME CloseoutInv, UNCHANGED <<service, current, priority, tracked, work>>,
           pc \in {"create", "created"} \cup Working, pc' \in {"create"} \cup Working,
           item' \in Threads \cup {NoThread}, ViewFields(view)',
           pc' \in Working => item' \in work /\ Untracked = {},
           ThreadSeen', NothingElseChanged'
    PROVE  CloseoutInv'
<1>1. ServiceInv'
  BY ServiceStays DEF CloseoutInv
<1>2. SweepTyped'
  BY DEF CloseoutInv, SweepInv, SweepTyped, service
<1>3. TrackedRight' /\ (Untracked \subseteq current)' /\ Untracked' = Untracked
  BY DEF CloseoutInv, SweepInv, AtWork, TrackedRight, Untracked, service, Reading, Working, BeforeReply,
     BeforeResolve, Labelling
<1>4. AtWork'
  BY <1>3 DEF AtWork, Reading, Working, BeforeReply, BeforeResolve, Labelling, Untracked
<1>5. QED
  BY <1>1, <1>2, <1>4 DEF CloseoutInv, SweepInv

\* The created issue is confirmed, or the last thread was done.
LEMMA ConfirmFinishStep ==
    ASSUME CloseoutInv, ConfirmCreated \/ Finish
    PROVE  CloseoutInv'
<1>1. UNCHANGED service
  BY DEF ConfirmCreated, Finish
<1>2. CASE Stop
  BY <1>1, <1>2, SweepStops, ServiceStays DEF CloseoutInv
<1>3. CASE ~ Stop
  <2>1. /\ pc = "created" /\ item' = NoThread /\ pc' = "create"
        /\ UNCHANGED <<failures, current, priority, tracked, work, view>>
    BY <1>3 DEF ConfirmCreated, Finish, Refuse, found
  <2>2. ViewFields(view)'
    BY <2>1 DEF CloseoutInv, SweepInv, SweepTyped, ViewFields
  <2>3. ThreadSeen' /\ NothingElseChanged'
    BY <1>1, <2>1 DEF CloseoutInv, SweepInv, ThreadSeen, NothingElseChanged, Working, BeforeReply,
       BeforeResolve, Labelling, service, threads
  <2>4. QED
    BY <1>1, <2>1, <2>2, <2>3, ReadOnly DEF Working, BeforeReply, BeforeResolve, Labelling
<1>4. QED
  BY <1>2, <1>3

-----------------------------------------------------------------------------
(* One thread after the other is closed *)

\* What the steps on one thread start from.
LEMMA Known ==
    ASSUME CloseoutInv, pc \in Working
    PROVE  /\ ServiceTyped /\ SweepTyped
           /\ item \in work /\ item \in Threads
           /\ tracked[item] # 0 /\ tracked[item] \in DOMAIN issues
           /\ MyIssue = issues[tracked[item]] /\ MyIssue.thread = item
           /\ Untracked = {} /\ ViewFields(view)
<1>1. /\ ServiceTyped /\ SweepTyped /\ item \in work /\ tracked[item] # 0 /\ Untracked = {}
      /\ TrackedRight
  BY DEF CloseoutInv, ServiceInv, SweepInv, AtWork, Working, Reading, BeforeReply, BeforeResolve,
     Labelling
<1>2. QED
  BY <1>1, IssuePlaces DEF SweepTyped, TrackedRight, MyIssue

\* A thread is done with.
LEMMA DoneStep ==
    ASSUME CloseoutInv, pc \in Working, UNCHANGED service, ItemDone
    PROVE  CloseoutInv'
<1>1. /\ pc' = "create" /\ work' = work \ {item} /\ item' = NoThread /\ view' = NoView
      /\ UNCHANGED <<current, priority, tracked>>
  BY DEF ItemDone, found
<1>2. ServiceInv'
  BY ServiceStays DEF CloseoutInv
<1>3. SweepTyped'
  BY <1>1 DEF CloseoutInv, SweepInv, SweepTyped, ViewFields, NoView, service
<1>4. TrackedRight' /\ (Untracked \subseteq current)'
  BY <1>1 DEF CloseoutInv, SweepInv, AtWork, TrackedRight, Untracked, service, Reading, Working,
     BeforeReply, BeforeResolve, Labelling
<1>5. AtWork' /\ ThreadSeen' /\ NothingElseChanged'
  BY <1>1, <1>4 DEF CloseoutInv, SweepInv, AtWork, ThreadSeen, NothingElseChanged, Reading, Working,
     BeforeReply, BeforeResolve, Labelling, service, threads
<1>6. QED
  BY <1>2, <1>3, <1>5 DEF CloseoutInv, SweepInv

\* The next thread is taken.
LEMMA NextItemStep ==
    ASSUME CloseoutInv, NextItem
    PROVE  CloseoutInv'
<1>1. PICK t \in work : item' = t /\ view' = [NoView EXCEPT !.issue = issues[tracked[t]]]
  BY DEF NextItem
<1>2. /\ pc = "create" /\ pc' = "read" /\ Untracked = {}
      /\ UNCHANGED <<service, current, priority, tracked, work>>
  BY DEF NextItem, found
<1>3. ViewFields(view)'
  BY <1>1 DEF ViewFields, NoView
<1>4. ThreadSeen' /\ NothingElseChanged'
  BY <1>2 DEF CloseoutInv, SweepInv, ThreadSeen, NothingElseChanged, Working, BeforeReply,
     BeforeResolve, Labelling, service, threads
<1>5. t \in Threads
  BY DEF CloseoutInv, SweepInv, SweepTyped
<1>6. QED
  BY <1>1, <1>2, <1>3, <1>4, <1>5, ReadOnly DEF Working

\* What is read of a thread.
LEMMA ReadWords ==
    ASSUME ServiceTyped, NEW v, ViewFields(v), NEW t \in Threads
    PROVE  LET r == ThreadRead(v, t) IN
           /\ ViewFields(r) /\ r.replies = replies[t]
           /\ r.open = TRUE => IsOpen(t) /\ r.outdated = FALSE
           /\ r.open = FALSE => ~ IsOpen(t)
           /\ r.outdated = TRUE => t \in outdated
<1> DEFINE o == IsOpen(t)
           d == t \in outdated
           u == t \in urgent
           w == replies[t]
           r == ThreadRead(v, t)
<1>1. o \in BOOLEAN /\ d \in BOOLEAN /\ u \in BOOLEAN
  BY DEF IsOpen
<1>2. v = [open |-> v.open, outdated |-> v.outdated, urgent |-> v.urgent, replies |-> v.replies,
           priority |-> v.priority, issue |-> v.issue]
      /\ v.priority \in BOOLEAN
  BY DEF ViewFields
<1>3. r = [v EXCEPT !.open = o, !.outdated = d, !.urgent = u, !.replies = w]
  BY DEF ThreadRead
<1>4. /\ o = TRUE => IsOpen(t) /\ d = FALSE
      /\ o = FALSE => ~ IsOpen(t)
      /\ d = TRUE => t \in outdated
  BY DEF IsOpen
<1> HIDE DEF o, d, u, w, r
<1>5. r = [open |-> o, outdated |-> d, urgent |-> u, replies |-> w, priority |-> v.priority,
           issue |-> v.issue]
  BY <1>2, <1>3
<1>6. /\ ViewFields(r) /\ r.replies = w /\ r.open = o /\ r.outdated = d
  BY <1>1, <1>2, <1>5 DEF ViewFields
<1>7. QED
  BY <1>4, <1>6 DEF r, w

\* The thread is read.
LEMMA ReadThreadStep ==
    ASSUME CloseoutInv, ReadThread
    PROVE  CloseoutInv'
<1> DEFINE v == [ThreadRead(view, item) EXCEPT !.priority = item \in urgent]
<1>1. UNCHANGED service /\ pc = "read" /\ pc \in Working
  BY DEF ReadThread, Working
<1>2. CASE Stop
  BY <1>1, <1>2, SweepStops, ServiceStays DEF CloseoutInv
<1>3. /\ ServiceTyped /\ item \in work /\ item \in Threads /\ ViewFields(view) /\ Untracked = {}
  BY <1>1, Known
<1>4. CASE ItemDone
  BY <1>1, <1>4, DoneStep
<1>5. CASE ~ Stop /\ ~ ItemDone
  <2>1. /\ pc' = IF Unanswered(v) THEN "check reply" ELSE "check link"
        /\ view' = v /\ UNCHANGED <<current, priority, tracked, work, item>>
        /\ Unanswered(v) => v.open = TRUE
    BY <1>5 DEF ReadThread, Refuse, Move, found
  <2>2. /\ ViewFields(v) /\ v.replies = replies[item]
        /\ v.open = TRUE => IsOpen(item) /\ v.outdated = FALSE
        /\ v.open = FALSE => ~ IsOpen(item)
        /\ v.outdated = TRUE => item \in outdated
    <3> DEFINE r == ThreadRead(view, item)
               u == item \in urgent
    <3>1. /\ ViewFields(r) /\ r.replies = replies[item]
          /\ r.open = TRUE => IsOpen(item) /\ r.outdated = FALSE
          /\ r.open = FALSE => ~ IsOpen(item)
          /\ r.outdated = TRUE => item \in outdated
      BY <1>3, ReadWords, Zenon
    <3>0. u \in BOOLEAN
      OBVIOUS
    <3> HIDE DEF r, u
    <3>2. v = [r EXCEPT !.priority = u]
      BY DEF r, u
    <3> HIDE DEF v
    <3>3. r = [open |-> r.open, outdated |-> r.outdated, urgent |-> r.urgent, replies |-> r.replies,
               priority |-> r.priority, issue |-> r.issue]
      BY <3>1 DEF ViewFields
    <3>4. v = [open |-> r.open, outdated |-> r.outdated, urgent |-> r.urgent, replies |-> r.replies,
               priority |-> u, issue |-> r.issue]
      BY <3>2, <3>3
    <3>5. QED
      BY <3>0, <3>1, <3>4 DEF ViewFields
  <2> HIDE DEF v
  <2>3. Unanswered(v) => v.replies = << >>
    BY DEF Unanswered
  <2>4. ThreadSeen'
    BY <1>1, <2>1, <2>2, <2>3 DEF ThreadSeen, BeforeReply, BeforeResolve, Labelling, service, threads,
       IsOpen
  <2>5. NothingElseChanged'
    BY <1>1, <1>3, <2>1, <2>2 DEF CloseoutInv, ServiceInv, Untouched, SweepInv, NothingElseChanged,
       BeforeReply, BeforeResolve, Labelling, service, threads, IsOpen
  <2>6. QED
    BY <1>1, <1>3, <2>1, <2>2, <2>4, <2>5, ReadOnly DEF Working, BeforeReply
<1>6. QED
  BY <1>2, <1>4, <1>5

\* A step on one thread that refuses.
LEMMA Refused ==
    ASSUME CloseoutInv, UNCHANGED service, Stop
    PROVE  CloseoutInv'
  BY SweepStops, ServiceStays DEF CloseoutInv

\* The issue is read again, and what was read of the thread stays.
LEMMA IssueChecked ==
    ASSUME CloseoutInv, pc \in Working, NEW next, CheckIssue(next), ~ Stop
    PROVE  /\ pc' = next /\ UNCHANGED <<service, current, priority, tracked, work, item>>
           /\ ViewFields(view)' /\ view'.replies = view.replies /\ view'.open = view.open
           /\ view'.outdated = view.outdated
<1>1. /\ pc' = next /\ UNCHANGED <<service, current, priority, tracked, work, item>>
      /\ view' = [view EXCEPT !.issue = MyIssue]
  BY DEF CheckIssue, Refuse, Move, found
<1>2. ViewFields(view)
  BY Known
<1>3. view = [open |-> view.open, outdated |-> view.outdated, urgent |-> view.urgent,
              replies |-> view.replies, priority |-> view.priority, issue |-> view.issue]
  BY <1>2 DEF ViewFields
<1>4. view' = [open |-> view.open, outdated |-> view.outdated, urgent |-> view.urgent,
               replies |-> view.replies, priority |-> view.priority, issue |-> MyIssue]
  BY <1>1, <1>3
<1>5. QED
  BY <1>1, <1>2, <1>4 DEF ViewFields

\* The checks before a reply and before a resolution, and those of the labels.
LEMMA CheckStep ==
    ASSUME CloseoutInv, CheckReply \/ CheckResolve \/ Label \/ CheckClosed
    PROVE  CloseoutInv'
<1>1. UNCHANGED service /\ pc \in {"check reply", "check resolve", "label", "check"}
  BY DEF CheckReply, CheckResolve, Label, CheckClosed, CheckIssue
<1>2. pc \in Working
  BY <1>1 DEF Working, BeforeReply, BeforeResolve, Labelling
<1>3. CASE Stop
  BY <1>1, <1>3, Refused
<1>4. CASE ~ Stop
  <2>1. PICK next :
          /\ CheckIssue(next)
          /\ \/ pc = "check reply" /\ next = "reply"
             \/ pc = "check resolve" /\ next = "resolve"
             \/ pc = "label" /\ next \in {"add", "check"}
             \/ pc = "check" /\ next = "remove" /\ Closed \in MyIssue.labels
    BY <1>4, Zenon DEF CheckReply, CheckResolve, Label, CheckClosed, Refuse
  <2>2. /\ pc' = next /\ UNCHANGED <<service, current, priority, tracked, work, item>>
        /\ ViewFields(view)' /\ view'.replies = view.replies /\ view'.open = view.open
        /\ view'.outdated = view.outdated
    BY <1>2, <1>4, <2>1, IssueChecked
  <2>3. MyIssue' = MyIssue
    BY <2>2 DEF MyIssue, service
  <2>4. ThreadSeen'
    BY <2>1, <2>2, <2>3 DEF CloseoutInv, SweepInv, ThreadSeen, BeforeReply, BeforeResolve, Labelling,
       service, threads, Answered
  <2>5. NothingElseChanged'
    BY <2>1, <2>2 DEF CloseoutInv, SweepInv, NothingElseChanged, BeforeReply, BeforeResolve, Labelling,
       service, threads
  <2>6. QED
    BY <1>2, <2>1, <2>2, <2>4, <2>5, Known, ReadOnly DEF Working, BeforeReply, BeforeResolve, Labelling
<1>5. QED
  BY <1>3, <1>4

\* A thread that is read as linked has the sweep's reply, or was outdated.
LEMMA LinkedWords ==
    ASSUME NEW v, ViewFields(v), Linked(v), v.replies = replies[item],
           v.outdated = TRUE => item \in outdated
    PROVE  /\ Answered(item) \/ item \in outdated
           /\ v.outdated = FALSE => Answered(item)
  BY DEF Linked, ViewFields, Answered

\* The link is checked, on what was read of the thread.
LEMMA CheckLinkStep ==
    ASSUME CloseoutInv, CheckLink
    PROVE  CloseoutInv'
<1>1. UNCHANGED service /\ pc = "check link" /\ pc \in Working
  BY DEF CheckLink, Working
<1>2. CASE Stop
  BY <1>1, <1>2, Refused
<1>3. CASE ~ Stop
  <2>1. /\ Linked(view) /\ pc' = (IF view.open THEN "check resolve" ELSE "label")
        /\ UNCHANGED <<current, priority, tracked, work, item, view>>
    BY <1>3 DEF CheckLink, Refuse, Move, found
  <2>2. /\ ViewFields(view) /\ Untracked = {} /\ item \in work /\ item \in Threads
    BY <1>1, Known
  <2>3. /\ view.replies = replies[item]
        /\ view.open = TRUE => view.outdated = FALSE
        /\ view.outdated = TRUE => item \in outdated
    BY <1>1 DEF CloseoutInv, SweepInv, ThreadSeen
  <2>4. /\ Answered(item) \/ item \in outdated
        /\ view.outdated = FALSE => Answered(item)
    BY <2>1, <2>2, <2>3, LinkedWords
  <2>5. /\ (pc' = "check resolve" /\ view.open = TRUE) \/ (pc' = "label" /\ view.open = FALSE)
        /\ Answered(item)' <=> Answered(item)
    <3>1. view.open \in BOOLEAN
      BY <2>2 DEF ViewFields
    <3>2. (pc' = "check resolve" /\ view.open = TRUE) \/ (pc' = "label" /\ view.open = FALSE)
      BY <2>1, <3>1, Zenon
    <3>3. QED
      BY <1>1, <2>1, <3>2 DEF Answered, service, threads
  <2>6. ThreadSeen'
    BY <1>1, <2>1, <2>3, <2>4, <2>5 DEF ThreadSeen, BeforeReply, BeforeResolve, Labelling, service,
       threads
  <2>7. NothingElseChanged'
    BY <1>1, <2>1, <2>5 DEF CloseoutInv, SweepInv, NothingElseChanged, BeforeReply, BeforeResolve,
       Labelling, service, threads
  <2>8. ViewFields(view)'
    BY <2>1, <2>2 DEF ViewFields
  <2>9. QED
    BY <1>1, <2>1, <2>2, <2>5, <2>6, <2>7, <2>8, ReadOnly DEF Working, BeforeResolve, Labelling
<1>4. QED
  BY <1>2, <1>3

\* The thread is read again, after the reply and after the resolution.
LEMMA RereadStep ==
    ASSUME CloseoutInv, RereadReply \/ ConfirmResolved
    PROVE  CloseoutInv'
<1> DEFINE v == ThreadRead(view, item)
<1>1. UNCHANGED service /\ pc \in {"reread", "confirm"} /\ pc \in Working
  BY DEF RereadReply, ConfirmResolved, Working
<1>2. CASE Stop
  BY <1>1, <1>2, Refused
<1>3. CASE ~ Stop
  <2>1. /\ view' = v /\ UNCHANGED <<current, priority, tracked, work, item>>
        /\ \/ pc = "reread" /\ pc' = "check link"
           \/ pc = "confirm" /\ pc' = "label" /\ v.replies = <<tracked[item]>> /\ ~ v.open
    BY <1>3 DEF RereadReply, ConfirmResolved, Refuse, Move, found
  <2>2. /\ ServiceTyped /\ ViewFields(view) /\ Untracked = {} /\ item \in work /\ item \in Threads
    BY <1>1, Known
  <2>3. /\ ViewFields(v) /\ v.replies = replies[item]
        /\ v.open = TRUE => IsOpen(item) /\ v.outdated = FALSE
        /\ v.open = FALSE => ~ IsOpen(item)
        /\ v.outdated = TRUE => item \in outdated
    BY <2>2, ReadWords, Zenon
  <2> HIDE DEF v
  <2>4. ThreadSeen'
    BY <1>1, <2>1, <2>3 DEF ThreadSeen, BeforeReply, BeforeResolve, Labelling, service, threads, Answered
  <2>5. NothingElseChanged'
    BY <1>1, <2>1, <2>2, <2>3 DEF CloseoutInv, ServiceInv, Untouched, SweepInv, NothingElseChanged,
       BeforeReply, BeforeResolve, Labelling, service, threads, IsOpen
  <2>6. ViewFields(view)'
    BY <2>1, <2>3 DEF ViewFields
  <2>7. QED
    BY <1>1, <2>1, <2>2, <2>4, <2>5, <2>6, ReadOnly DEF Working, BeforeResolve, Labelling
<1>4. QED
  BY <1>2, <1>3

\* The terminal label is confirmed.
LEMMA TerminalStep ==
    ASSUME CloseoutInv, CheckTerminal
    PROVE  CloseoutInv'
<1>1. UNCHANGED service /\ pc \in Working
  BY DEF CheckTerminal, Working, Labelling
<1>2. CASE Stop
  BY <1>1, <1>2, Refused
<1>3. CASE ItemDone
  BY <1>1, <1>3, DoneStep
<1>4. QED
  BY <1>2, <1>3 DEF CheckTerminal, Refuse

-----------------------------------------------------------------------------
(* The calls that change the service, and what people do *)

\* An issue number that is not 0 is one of the issues.
LEMMA InRange ==
    ASSUME NEW l \in Nat, NEW S, NEW f \in [S -> 0..l], NEW s \in S, f[s] # 0
    PROVE  f[s] \in 1..l
  OBVIOUS

(***************************************************************************)
(* A call changes the thread or its issue, and the sweep goes on or does   *)
(* not learn what became of it.                                            *)
(***************************************************************************)
LEMMA Called ==
    ASSUME CloseoutInv, ServiceInv', pc \in Working,
           NEW next \in Working, (Move(next) /\ UNCHANGED view) \/ Lost,
           Len(issues') = Len(issues) /\ DOMAIN issues' = DOMAIN issues,
           \A n \in DOMAIN issues : issues'[n].thread = issues[n].thread,
           UNCHANGED <<urgent, edits>>,
           pc' = next => ThreadSeen' /\ (edits = 0 /\ next \in {"confirm"} \cup Labelling =>
                                            resolved'[item] # "nobody"),
           next # "check link"
    PROVE  CloseoutInv'
<1>1. CASE Lost
  BY <1>1, SweepStops DEF CloseoutInv, Lost
<1>2. CASE Move(next) /\ UNCHANGED view
  <2>1. pc' = next /\ UNCHANGED <<current, priority, tracked, work, item, view>>
    BY <1>2 DEF Move, found
  <2>2. /\ ServiceTyped /\ ViewFields(view) /\ Untracked = {} /\ item \in work /\ tracked[item] # 0
    BY Known
  <2>3. DOMAIN issues = 1..Len(issues) /\ Len(issues) \in Nat
    BY <2>2, IssuePlaces
  <2>4. TrackedRight
    BY DEF CloseoutInv, SweepInv, AtWork, Working, Reading, BeforeReply, BeforeResolve, Labelling
  <2>5. SweepTyped'
    BY <2>1 DEF CloseoutInv, SweepInv, SweepTyped, ViewFields
  <2>6. TrackedRight'
    <3>1. ASSUME NEW t \in Threads
          PROVE  IF tracked[t] = 0 THEN \A n \in DOMAIN issues' : issues'[n].thread # t
                 ELSE issues'[tracked[t]].thread = t
      <4>0. tracked \in [Threads -> 0..Len(issues)]
        BY DEF CloseoutInv, SweepInv, SweepTyped
      <4>1. tracked[t] # 0 => tracked[t] \in DOMAIN issues
        BY <2>3, <4>0, InRange
      <4>2. QED
        BY <2>4, <4>1 DEF TrackedRight
    <3>2. QED
      BY <2>1, <3>1 DEF TrackedRight
  <2>7. AtWork'
    BY <2>1, <2>2, <2>6 DEF AtWork, Working, Reading, BeforeReply, BeforeResolve, Labelling, Untracked
  <2>8. NothingElseChanged'
    BY <2>1 DEF CloseoutInv, SweepInv, NothingElseChanged
  <2>9. QED
    BY <2>1, <2>5, <2>7, <2>8 DEF CloseoutInv, SweepInv
<1>3. QED
  BY <1>1, <1>2

\* The reply is posted, the only one of the thread.
LEMMA ReplyStep ==
    ASSUME CloseoutInv, Reply
    PROVE  CloseoutInv'
<1>1. /\ pc = "reply" /\ pc \in Working
      /\ replies' = [replies EXCEPT ![item] = Append(@, tracked[item])]
      /\ (Move("reread") /\ UNCHANGED view) \/ Lost
      /\ UNCHANGED <<resolved, outdated, urgent, issues, batch, edits>>
  BY DEF Reply, Working, BeforeReply
<1>2. /\ ServiceTyped /\ item \in Threads /\ tracked[item] \in DOMAIN issues
      /\ issues[tracked[item]].thread = item
  BY <1>1, Known
<1>3. replies[item] = << >>
  BY <1>1 DEF CloseoutInv, SweepInv, ThreadSeen, BeforeReply
<1>4. /\ Append(replies[item], tracked[item]) = <<tracked[item]>>
      /\ tracked[item] \in Nat /\ <<tracked[item]>> \in Seq(Nat)
  BY <1>2, <1>3, IssuePlaces
<1>5. /\ replies' \in [Threads -> Seq(Nat)] /\ replies'[item] = <<tracked[item]>>
      /\ \A t \in Threads : t # item => replies'[t] = replies[t]
  BY <1>1, <1>2, <1>4 DEF ServiceTyped
<1>6. ServiceTyped' /\ LabelsRight' /\ IssuesApart' /\ Untouched'
  BY <1>1, <1>2, <1>5 DEF CloseoutInv, ServiceInv, ServiceTyped, LabelsRight, IssuesApart, Untouched
<1>7. RepliesRight'
  BY <1>1, <1>2, <1>5 DEF CloseoutInv, ServiceInv, RepliesRight
<1>8. ResolvedIsAnswered'
  <2>1. <<tracked[item]>> # << >>
    OBVIOUS
  <2>2. QED
    BY <1>1, <1>5, <2>1 DEF CloseoutInv, ServiceInv, ResolvedIsAnswered
<1>9. ClosedIsLinked'
  <2>1. ASSUME NEW n \in DOMAIN issues, Closed \in issues[n].labels
        PROVE  replies'[issues[n].thread] = <<n>> \/ issues[n].thread \in outdated
    <3>1. replies[issues[n].thread] = <<n>> \/ issues[n].thread \in outdated
      BY <2>1 DEF CloseoutInv, ServiceInv, ClosedIsLinked
    <3>2. <<n>> # << >>
      OBVIOUS
    <3>3. issues[n].thread \in Threads
      <4>1. issues[n] \in Issue
        BY <1>2, ElementOfSeq, IssuePlaces DEF ServiceTyped
      <4>2. QED
        BY <4>1 DEF Issue
    <3>4. QED
      BY <1>3, <1>5, <3>1, <3>2, <3>3
  <2>2. QED
    BY <1>1, <2>1 DEF ClosedIsLinked
<1>10. ServiceInv'
  BY <1>6, <1>7, <1>8, <1>9 DEF ServiceInv
<1>11. pc' = "reread" => ThreadSeen'
  BY DEF ThreadSeen, BeforeReply, BeforeResolve, Labelling
<1>12. "reread" \in Working /\ "reread" \notin {"confirm"} \cup Labelling
  BY DEF Working, Labelling
<1>13. QED
  BY <1>1, <1>10, <1>11, <1>12, Called

\* The thread is resolved, and has its answer.
LEMMA ResolveStep ==
    ASSUME CloseoutInv, Resolve
    PROVE  CloseoutInv'
<1>1. /\ pc = "resolve" /\ pc \in Working
      /\ resolved' = [resolved EXCEPT ![item] = IF @ = "nobody" THEN "sweep" ELSE @]
      /\ (Move("confirm") /\ UNCHANGED view) \/ Lost
      /\ UNCHANGED <<outdated, urgent, replies, issues, batch, edits>>
  BY DEF Resolve, Working, BeforeResolve
<1>2. ServiceTyped /\ item \in Threads
  BY <1>1, Known
<1>3. Answered(item) /\ replies[item] # << >>
  BY <1>1 DEF CloseoutInv, SweepInv, ThreadSeen, BeforeResolve, Answered
<1>4. /\ resolved' \in [Threads -> {"nobody", "sweep", "person"}] /\ resolved'[item] # "nobody"
      /\ \A t \in Threads : resolved'[t] = resolved[t] \/ (t = item /\ resolved'[t] = "sweep")
  <2>1. /\ resolved \in [Threads -> {"nobody", "sweep", "person"}]
        /\ resolved'[item] = IF resolved[item] = "nobody" THEN "sweep" ELSE resolved[item]
        /\ \A t \in Threads : t # item => resolved'[t] = resolved[t]
        /\ DOMAIN resolved' = Threads /\ resolved' = [t \in Threads |-> resolved'[t]]
    BY <1>1, <1>2 DEF ServiceTyped
  <2>2. resolved'[item] # "nobody" /\ (resolved'[item] = resolved[item] \/ resolved'[item] = "sweep")
    BY <2>1
  <2> DEFINE new == resolved'
  <2>3. \A t \in Threads : new[t] \in {"nobody", "sweep", "person"}
    <3> HIDE DEF new
    <3>1. ASSUME NEW t \in Threads PROVE new[t] \in {"nobody", "sweep", "person"}
      <4>1. CASE t = item
        BY <1>2, <2>1, <2>2, <4>1 DEF new
      <4>2. CASE t # item
        BY <2>1, <4>2 DEF new
      <4>3. QED
        BY <4>1, <4>2
    <3>2. QED
      BY <3>1
  <2>4. resolved' \in [Threads -> {"nobody", "sweep", "person"}]
    BY <2>1, <2>3, Zenon
  <2>5. \A t \in Threads : resolved'[t] = resolved[t] \/ (t = item /\ resolved'[t] = "sweep")
    BY <2>1, <2>2, Zenon
  <2>6. QED
    BY <2>2, <2>4, <2>5, Zenon
<1>5. ServiceTyped' /\ LabelsRight' /\ IssuesApart' /\ RepliesRight' /\ ClosedIsLinked'
  BY <1>1, <1>4 DEF CloseoutInv, ServiceInv, ServiceTyped, LabelsRight, IssuesApart, RepliesRight,
     ClosedIsLinked
<1>6. ResolvedIsAnswered'
  BY <1>1, <1>3, <1>4 DEF CloseoutInv, ServiceInv, ResolvedIsAnswered
<1>7. Untouched'
  BY <1>1, <1>2, <1>4 DEF CloseoutInv, ServiceInv, Untouched, ServiceTyped, Issue
<1>8. ServiceInv'
  BY <1>5, <1>6, <1>7 DEF ServiceInv
<1>9. pc' = "confirm" => ThreadSeen'
  <2>1. ASSUME pc' = "confirm" PROVE UNCHANGED <<item, tracked>>
    BY <1>1, <2>1 DEF Move, Lost, Stop, found
  <2>2. QED
    BY <1>1, <1>3, <2>1 DEF ThreadSeen, BeforeReply, BeforeResolve, Labelling, Answered
<1>10. "confirm" \in Working
  BY DEF Working
<1>11. QED
  BY <1>1, <1>4, <1>8, <1>9, <1>10, Called

\* One issue changes, but not its thread.
LEMMA IssueChanged ==
    ASSUME ServiceTyped, NEW n \in DOMAIN issues, NEW r \in Issue, r.thread = issues[n].thread,
           issues' = [issues EXCEPT ![n] = r]
    PROVE  /\ issues' \in Seq(Issue) /\ Len(issues') = Len(issues) /\ DOMAIN issues' = DOMAIN issues
           /\ issues'[n] = r /\ \A m \in DOMAIN issues : m # n => issues'[m] = issues[m]
           /\ \A m \in DOMAIN issues : issues'[m].thread = issues[m].thread
  BY IssuePlaces, ExceptSeq DEF ServiceTyped

\* What a change of the labels does to an issue.
LEMMA LabelWords ==
    ASSUME ServiceTyped, NEW n \in DOMAIN issues, NEW labels \in SUBSET Labels
    PROVE  LET r == [issues[n] EXCEPT !.labels = labels] IN
           /\ r \in Issue /\ r.thread = issues[n].thread /\ r.labels = labels
           /\ r.sound = issues[n].sound /\ r.urgent = issues[n].urgent
<1>1. issues[n] \in Issue
  BY ElementOfSeq, IssuePlaces DEF ServiceTyped
<1> DEFINE i == issues[n]
<1> HIDE DEF i
<1>2. \A j \in Issue :
         LET r == [j EXCEPT !.labels = labels] IN
         /\ r \in Issue /\ r.thread = j.thread /\ r.labels = labels
         /\ r.sound = j.sound /\ r.urgent = j.urgent
  BY DEF Issue
<1>3. QED
  BY <1>1, <1>2

\* The labels say that the source is closed only when the thread is answered.
LEMMA Relabelled ==
    ASSUME CloseoutInv, pc \in Working, NEW labels \in Lifecycles,
           issues' = [issues EXCEPT ![tracked[item]].labels = labels],
           UNCHANGED <<threads, batch, edits>>,
           Closed \in labels => Answered(item) \/ item \in outdated,
           Closed \in labels /\ edits = 0 => resolved[item] # "nobody"
    PROVE  /\ ServiceInv'
           /\ Len(issues') = Len(issues) /\ DOMAIN issues' = DOMAIN issues
           /\ issues'[tracked[item]].labels = labels
           /\ \A m \in DOMAIN issues : issues'[m].thread = issues[m].thread
<1> DEFINE n == tracked[item]
           r == [issues[n] EXCEPT !.labels = labels]
<1>1. ServiceTyped /\ n \in DOMAIN issues /\ issues[n].thread = item
  BY Known
<1>2. labels \in SUBSET Labels
  BY DEF Lifecycles, Labels
<1>3. /\ r \in Issue /\ r.thread = issues[n].thread /\ r.labels = labels
      /\ r.sound = issues[n].sound /\ r.urgent = issues[n].urgent
  BY <1>1, <1>2, LabelWords
<1>4. issues' = [issues EXCEPT ![n] = r]
  OBVIOUS
<1> HIDE DEF r, n
<1>5. /\ issues' \in Seq(Issue) /\ Len(issues') = Len(issues) /\ DOMAIN issues' = DOMAIN issues
      /\ issues'[n] = r /\ \A m \in DOMAIN issues : m # n => issues'[m] = issues[m]
      /\ \A m \in DOMAIN issues : issues'[m].thread = issues[m].thread
  BY <1>1, <1>3, <1>4, IssueChanged
<1>6. UNCHANGED <<resolved, outdated, urgent, replies, batch, edits>>
  BY DEF threads
<1>7. ServiceTyped' /\ LabelsRight' /\ IssuesApart' /\ RepliesRight' /\ ResolvedIsAnswered'
  <2>1. ServiceTyped'
    BY <1>1, <1>5, <1>6 DEF ServiceTyped
  <2>2. LabelsRight' /\ IssuesApart'
    BY <1>3, <1>5 DEF CloseoutInv, ServiceInv, LabelsRight, IssuesApart, Lifecycles
  <2>3. RepliesRight' /\ ResolvedIsAnswered'
    BY <1>5, <1>6 DEF CloseoutInv, ServiceInv, RepliesRight, ResolvedIsAnswered
  <2>4. QED
    BY <2>1, <2>2, <2>3
<1>8. ClosedIsLinked'
  <2>1. ASSUME NEW m \in DOMAIN issues, Closed \in issues'[m].labels
        PROVE  replies[issues[m].thread] = <<m>> \/ issues[m].thread \in outdated
    <3>1. CASE m = n
      BY <1>1, <1>3, <1>5, <2>1, <3>1 DEF Answered, n
    <3>2. CASE m # n
      BY <1>5, <2>1, <3>2 DEF CloseoutInv, ServiceInv, ClosedIsLinked
    <3>3. QED
      BY <3>1, <3>2
  <2>2. /\ \A m \in DOMAIN issues' : m \in DOMAIN issues /\ issues'[m].thread = issues[m].thread
        /\ replies' = replies /\ outdated' = outdated
    BY <1>5, <1>6
  <2>3. ASSUME NEW m \in DOMAIN issues', Closed \in issues'[m].labels
        PROVE  replies'[issues'[m].thread] = <<m>> \/ issues'[m].thread \in outdated'
    <3>1. m \in DOMAIN issues /\ issues'[m].thread = issues[m].thread
      BY <2>2
    <3>2. replies[issues[m].thread] = <<m>> \/ issues[m].thread \in outdated
      BY <2>1, <2>3, <3>1
    <3>3. QED
      BY <2>2, <3>1, <3>2
  <2>4. QED
    BY <2>3, Zenon DEF ClosedIsLinked
<1>9. Untouched'
  <2>1. ASSUME edits = 0, NEW m \in DOMAIN issues
        PROVE  /\ issues'[m].sound = issues[m].sound /\ issues'[m].urgent = issues[m].urgent
               /\ Closed \in issues'[m].labels => resolved[issues[m].thread] # "nobody"
    <3>1. CASE m = n
      BY <1>1, <1>3, <1>5, <2>1, <3>1
    <3>2. CASE m # n
      BY <1>5, <2>1, <3>2 DEF CloseoutInv, ServiceInv, Untouched
    <3>3. QED
      BY <3>1, <3>2
  <2>2. QED
    BY <1>5, <1>6, <2>1 DEF CloseoutInv, ServiceInv, Untouched
<1>10. QED
  BY <1>3, <1>5, <1>7, <1>8, <1>9 DEF ServiceInv, n

\* The labels are changed, after the thread is closed.
LEMMA RelabelStep ==
    ASSUME CloseoutInv, AddClosed \/ RemovePending
    PROVE  CloseoutInv'
<1>1. PICK labels, next :
          /\ \/ pc = "add" /\ labels = MyIssue.labels \cup {Closed} /\ next = "check"
             \/ pc = "remove" /\ labels = MyIssue.labels \ {Pending} /\ next = "terminal"
          /\ Relabel(labels, next)
  BY Zenon DEF AddClosed, RemovePending
<1>2. /\ pc \in Labelling /\ pc \in Working /\ next \in Labelling /\ next \in Working
      /\ next # "check link"
  BY <1>1 DEF Labelling, Working
<1>3. /\ issues' = [issues EXCEPT ![tracked[item]].labels = labels]
      /\ (Move(next) /\ UNCHANGED view) \/ Lost
      /\ UNCHANGED <<threads, batch, edits>>
  BY <1>1 DEF Relabel
<1>4. MyIssue.labels \in Lifecycles /\ MyIssue = issues[tracked[item]]
  BY <1>2, Known DEF CloseoutInv, ServiceInv, LabelsRight
<1>5. pc = "remove" => Closed \in MyIssue.labels
  BY DEF CloseoutInv, SweepInv, ThreadSeen
<1>6. labels \in Lifecycles /\ Closed \in labels
  BY <1>1, <1>4, <1>5 DEF Lifecycles, Pending, Closed
<1>7. /\ Answered(item) \/ item \in outdated
      /\ edits = 0 => resolved[item] # "nobody"
  BY <1>2 DEF CloseoutInv, SweepInv, ThreadSeen, NothingElseChanged
<1>8. /\ ServiceInv'
      /\ Len(issues') = Len(issues) /\ DOMAIN issues' = DOMAIN issues
      /\ issues'[tracked[item]].labels = labels
      /\ \A m \in DOMAIN issues : issues'[m].thread = issues[m].thread
  BY <1>2, <1>3, <1>6, <1>7, Relabelled
<1>9. UNCHANGED <<resolved, outdated, urgent, replies, edits>>
  BY <1>3 DEF threads
<1>10. pc' = next => ThreadSeen'
  <2>1. ASSUME pc' = next PROVE UNCHANGED <<item, tracked>>
    BY <1>2, <1>3, <2>1 DEF Move, Lost, Stop, found, Labelling
  <2>2. QED
    BY <1>2, <1>6, <1>7, <1>8, <1>9, <2>1
    DEF ThreadSeen, BeforeReply, BeforeResolve, Labelling, Answered, MyIssue
<1>11. QED
  BY <1>2, <1>3, <1>7, <1>8, <1>9, <1>10, Called

\* A sweep is broken.
LEMMA BreakStep ==
    ASSUME CloseoutInv, Break
    PROVE  CloseoutInv'
  BY Refused DEF Break, Lost

(***************************************************************************)
(* People change a thread or an issue; what the sweep knows for certain    *)
(* does not depend on it.                                                  *)
(***************************************************************************)
LEMMA PeopleStep ==
    ASSUME CloseoutInv, People
    PROVE  CloseoutInv'
<1>1. /\ edits' = edits + 1 /\ UNCHANGED <<replies, pc, current, priority, tracked, work, item, view>>
      /\ resolved' \in [Threads -> {"nobody", "sweep", "person"}]
      /\ \A t \in Threads : resolved'[t] = "sweep" => resolved[t] = "sweep"
      /\ outdated \subseteq outdated' /\ outdated' \subseteq Threads /\ urgent' \subseteq Threads
      /\ batch' \in BOOLEAN
      /\ issues' = issues \/ \E n \in DOMAIN issues : issues' = [issues EXCEPT ![n].sound = FALSE]
  <2> USE DEF Edit, sweep, found, CloseoutInv, ServiceInv, ServiceTyped
  <2>1. CASE \E t \in Threads : ResolveByHand(t)
    BY <2>1 DEF ResolveByHand
  <2>2. CASE \E t \in Threads : Reopen(t)
    BY <2>2 DEF Reopen
  <2>3. CASE \E t \in Threads : ChangeLines(t)
    BY <2>3 DEF ChangeLines
  <2>4. CASE \E t \in Threads : Escalate(t)
    BY <2>4 DEF Escalate
  <2>5. CASE \E n \in DOMAIN issues : Unclassify(n)
    BY <2>5 DEF Unclassify
  <2>6. CASE Merge
    BY <2>6 DEF Merge
  <2>7. QED
    BY <2>1, <2>2, <2>3, <2>4, <2>5, <2>6, Zenon DEF People
<1>2. ServiceTyped /\ edits \in Nat /\ edits' # 0
  BY <1>1 DEF CloseoutInv, ServiceInv, ServiceTyped
<1>3. /\ issues' \in Seq(Issue) /\ Len(issues') = Len(issues) /\ DOMAIN issues' = DOMAIN issues
      /\ \A m \in DOMAIN issues : /\ issues'[m].thread = issues[m].thread
                                  /\ issues'[m].labels = issues[m].labels
  <2>1. CASE issues' = issues
    BY <1>2, <2>1 DEF ServiceTyped
  <2>2. CASE \E n \in DOMAIN issues : issues' = [issues EXCEPT ![n].sound = FALSE]
    <3>1. PICK n \in DOMAIN issues : issues' = [issues EXCEPT ![n].sound = FALSE]
      BY <2>2
    <3> DEFINE r == [issues[n] EXCEPT !.sound = FALSE]
    <3>2. issues[n] \in Issue
      BY <1>2, ElementOfSeq, IssuePlaces DEF ServiceTyped
    <3>3. r \in Issue /\ r.thread = issues[n].thread /\ r.labels = issues[n].labels
      BY <3>2 DEF Issue
    <3>4. issues' = [issues EXCEPT ![n] = r]
      BY <3>1
    <3> HIDE DEF r
    <3>5. /\ issues' \in Seq(Issue) /\ Len(issues') = Len(issues) /\ DOMAIN issues' = DOMAIN issues
          /\ issues'[n] = r /\ \A m \in DOMAIN issues : m # n => issues'[m] = issues[m]
      BY <1>2, <3>3, <3>4, IssueChanged
    <3>6. QED
      BY <3>3, <3>5
  <2>3. QED
    BY <1>1, <2>1, <2>2
<1>4. ServiceInv'
  <2>1. ServiceTyped'
    BY <1>1, <1>2, <1>3 DEF ServiceTyped
  <2>2. LabelsRight' /\ IssuesApart'
    BY <1>3 DEF CloseoutInv, ServiceInv, LabelsRight, IssuesApart
  <2>3. RepliesRight' /\ ResolvedIsAnswered'
    BY <1>1, <1>3 DEF CloseoutInv, ServiceInv, RepliesRight, ResolvedIsAnswered
  <2>4. ClosedIsLinked'
    BY <1>1, <1>3 DEF CloseoutInv, ServiceInv, ClosedIsLinked
  <2>5. Untouched'
    BY <1>2 DEF Untouched
  <2>6. QED
    BY <2>1, <2>2, <2>3, <2>4, <2>5 DEF ServiceInv
<1>5. SweepTyped'
  BY <1>1, <1>3 DEF CloseoutInv, SweepInv, SweepTyped, ViewFields
<1>6. AtWork'
  <2>1. TrackedRight => TrackedRight'
    <3>1. ASSUME NEW t \in Threads, tracked[t] # 0 PROVE tracked[t] \in DOMAIN issues
      BY <1>2, <3>1, IssuePlaces, InRange DEF CloseoutInv, SweepInv, SweepTyped
    <3>2. QED
      BY <1>1, <1>3, <3>1 DEF TrackedRight
  <2>2. Untracked' = Untracked
    BY <1>1 DEF Untracked
  <2>3. QED
    BY <1>1, <2>1, <2>2 DEF CloseoutInv, SweepInv, AtWork
<1>7. ThreadSeen'
  <2>1. pc \in {"remove", "terminal"} => MyIssue'.labels = MyIssue.labels
    <3>1. pc \in {"remove", "terminal"} => tracked[item] \in DOMAIN issues
      BY Known DEF Working, Labelling
    <3>2. QED
      BY <1>1, <1>3, <3>1 DEF MyIssue
  <2>2. QED
    BY <1>1, <2>1 DEF CloseoutInv, SweepInv, ThreadSeen, Answered
<1>8. QED
  BY <1>2, <1>4, <1>5, <1>6, <1>7 DEF CloseoutInv, SweepInv, NothingElseChanged

-----------------------------------------------------------------------------
(* The sweep as a whole *)

\* Every step of a sweep and of the people around it keeps the invariant.
LEMMA CloseoutNext == CloseoutInv /\ [Next]_vars => CloseoutInv'
<1> SUFFICES ASSUME CloseoutInv, [Next]_vars PROVE CloseoutInv'
  OBVIOUS
<1>1. CASE Sweep
  BY <1>1, Zenon, ThreadsStep, IssuesStep, CreateStep, ConfirmFinishStep, NextItemStep, ReadThreadStep,
     CheckStep, CheckLinkStep, RereadStep, TerminalStep, ReplyStep, ResolveStep, RelabelStep
  DEF Sweep
<1>2. CASE UNCHANGED vars
  <2>1. ServiceInv'
    BY <1>2, ServiceStays DEF vars, CloseoutInv
  <2>2. UNCHANGED <<resolved, outdated, urgent, replies, issues, edits, pc, current, priority, tracked,
                    work, item, view>>
    BY <1>2 DEF vars, service, threads, sweep, found
  <2>3. SweepTyped' /\ AtWork'
    BY <2>2 DEF CloseoutInv, SweepInv, SweepTyped, AtWork, TrackedRight, Untracked, ViewFields
  <2>4. ThreadSeen' /\ NothingElseChanged'
    BY <2>2 DEF CloseoutInv, SweepInv, ThreadSeen, NothingElseChanged, Answered, MyIssue
  <2>5. QED
    BY <2>1, <2>3, <2>4 DEF CloseoutInv, SweepInv
<1>3. QED
  BY <1>1, <1>2, ThreadsStep, BreakStep, PeopleStep DEF Next

\* Whatever tool is used, the sweep and its service take a step of ReviewCloseout or none.
LEMMA CloseoutAmongThem == MCSpec => Spec
<1>1. MCInit => Init
  BY DEF MCInit, CloseoutAtRest
<1>2. [MCNext]_all => [Next]_vars
  BY DEF MCNext, CloseoutStep, AuditStep, ReleaseStep, all
<1>3. QED
  BY <1>1, <1>2, PTL DEF MCSpec, Spec

\* The invariant of the sweep holds always.
LEMMA CloseoutSafe == Spec => []CloseoutInv
<1>1. QED
  BY CloseoutInit, CloseoutNext, PTL DEF Spec

\* A thread has one issue at most, and one reply.
LEMMA OneOfEach == CloseoutInv => OneIssuePerThread /\ OneReplyPerThread
<1> SUFFICES ASSUME CloseoutInv PROVE OneIssuePerThread /\ OneReplyPerThread
  OBVIOUS
<1>1. ASSUME NEW t \in Threads PROVE Cardinality(IssuesOf(t)) <= 1
  <2>1. CASE IssuesOf(t) = {}
    BY <2>1, FS_EmptySet
  <2>2. CASE \E n \in DOMAIN issues : issues[n].thread = t
    <3>1. PICK n \in DOMAIN issues : issues[n].thread = t
      BY <2>2
    <3>2. IssuesOf(t) = {n}
      BY <3>1 DEF IssuesOf, CloseoutInv, ServiceInv, IssuesApart
    <3>3. QED
      BY <3>2, FS_Singleton
  <2>3. QED
    BY <2>1, <2>2 DEF IssuesOf
<1>2. ASSUME NEW t \in Threads, replies[t] # << >>
      PROVE  Len(replies[t]) = 1 /\ issues[replies[t][1]].thread = t
  <2>1. PICK n \in DOMAIN issues : replies[t] = <<n>> /\ issues[n].thread = t
    BY <1>2 DEF CloseoutInv, ServiceInv, RepliesRight
  <2>2. QED
    BY <2>1
<1>3. QED
  BY <1>1, <1>2 DEF OneIssuePerThread, OneReplyPerThread

\* As long as nobody has changed anything no sweep is obstructed.
LEMMA OnlyPeople == CloseoutInv => OnlyPeopleObstruct
<1> SUFFICES ASSUME CloseoutInv, edits = 0 PROVE ~ Obstructed
  BY DEF OnlyPeopleObstruct, CloseoutInv, ServiceInv, ServiceTyped
<1>1. ASSUME NEW n \in DOMAIN issues
      PROVE  /\ issues[n].sound = TRUE /\ issues[n].thread \in Threads
             /\ issues[n].urgent = (issues[n].thread \in urgent)
             /\ Closed \in issues[n].labels => ~ IsOpen(issues[n].thread)
             /\ ~ IsOpen(issues[n].thread) => replies[issues[n].thread] # << >>
  <2>1. issues[n].thread \in Threads
    <3>1. issues[n] \in Issue
      BY ElementOfSeq, IssuePlaces DEF CloseoutInv, ServiceInv, ServiceTyped
    <3>2. QED
      BY <3>1 DEF Issue
  <2>2. /\ issues[n].sound = TRUE /\ issues[n].urgent = (issues[n].thread \in urgent)
        /\ Closed \in issues[n].labels => ~ IsOpen(issues[n].thread)
    BY DEF CloseoutInv, ServiceInv, Untouched, IsOpen
  <2>3. ASSUME ~ IsOpen(issues[n].thread) PROVE resolved[issues[n].thread] = "sweep"
    BY <2>1, <2>3 DEF CloseoutInv, ServiceInv, ServiceTyped, Untouched, IsOpen
  <2>4. QED
    BY <2>1, <2>2, <2>3 DEF CloseoutInv, ServiceInv, ResolvedIsAnswered
<1>2. QED
  BY <1>1 DEF Obstructed

\* The shape of the service and the sweep.
LEMMA CloseoutShape == CloseoutInv => TypeOK
<1> SUFFICES ASSUME CloseoutInv PROVE TypeOK
  OBVIOUS
<1>1. ASSUME NEW t \in Threads, NEW k \in DOMAIN replies[t] PROVE replies[t][k] \in DOMAIN issues
  BY DEF CloseoutInv, ServiceInv, RepliesRight
<1>2. ASSUME NEW n \in DOMAIN issues PROVE issues[n].thread \in Threads
  <2>1. issues[n] \in Issue
    BY ElementOfSeq, IssuePlaces DEF CloseoutInv, ServiceInv, ServiceTyped
  <2>2. QED
    BY <2>1 DEF Issue
<1>3. QED
  BY <1>1, <1>2 DEF CloseoutInv, ServiceInv, ServiceTyped, LabelsRight, SweepInv, SweepTyped, TypeOK

\* Whatever happens to a sweep, what it leaves is what the next one can take up:
\* what it resolved is answered, what says it is closed is linked, and a state
\* that sweeps refuse takes a person's change (review_closeout.py).
THEOREM WhatASweepLeaves == MCSpec => []BrokenSweepIsTakenUp
<1>1. CloseoutInv => BrokenSweepIsTakenUp
  BY OnlyPeople DEF CloseoutInv, ServiceInv, BrokenSweepIsTakenUp
<1>2. QED
  BY <1>1, CloseoutAmongThem, CloseoutSafe, PTL

-----------------------------------------------------------------------------
(***************************************************************************)
(* The audit tracker.  Its actions have a name here, and the lemmas below  *)
(* say what each does; nothing else of AuditSync is used.                  *)
(***************************************************************************)
Started(c) == \E kind \in {"apply", "verify"} : Audit!Begin(c, kind)
IssuesRead(c) == Audit!ReadIssues(c)
FoundationRead(c) == Audit!ReadFoundation(c)
Mutated(c) == Audit!Mutate(c)
MutatedUnheard(c) == Audit!MutateLost(c)
Rechecked(c) == Audit!Recheck(c)
PhaseEnded(c) == Audit!NextPhase(c)
AppliedWritten(c) == Audit!WriteApplied(c)
ProjectRead(c) == Audit!ReadProject(c)
Verified(c) == Audit!Verify(c)
Killed(c) == Audit!Kill(c)
Edited == Audit!Edit
Placed == \E k \in Keys : Audit!Place(k)
ViewsSet == Audit!SetViews

PlanOf(c) == Audit!Plan(c)
NumberSeen(c, k) == Audit!SeenNumber(c, k)

Live == <<foundation, auditIssues, content, numbers>>
Ended(c) == command' = [command EXCEPT ![c] = [pc |-> "idle"]]
Becomes(c, r) == command' = [command EXCEPT ![c] = r]

(* Everything is as declared. *)
Declared ==
    /\ \A f \in Foundation : foundation[f] = "same"
    /\ \A k \in Keys : auditIssues[k] # {} /\ content[k] = "same"

CommandMoves(c) ==
    \/ Started(c) \/ IssuesRead(c) \/ FoundationRead(c) \/ Mutated(c) \/ MutatedUnheard(c)
    \/ Rechecked(c) \/ PhaseEnded(c) \/ AppliedWritten(c) \/ ProjectRead(c) \/ Verified(c)
    \/ Killed(c)

PeopleAct == Edited \/ Placed \/ ViewsSet

\* The steps of the tracker are these.
LEMMA AuditSteps ==
    ASSUME Audit!Next
    PROVE  (\E c \in Commands : CommandMoves(c)) \/ PeopleAct
  BY Zenon DEF Audit!Next, Audit!Step, CommandMoves, PeopleAct, Started, IssuesRead, FoundationRead,
     Mutated, MutatedUnheard, Rechecked, PhaseEnded, AppliedWritten, ProjectRead, Verified, Killed,
     Edited, Placed, ViewsSet

\* What a plan is: the foundation first, the issues when nothing of it differs.
LEMMA PlanWords ==
    ASSUME NEW c
    PROVE  /\ PlanOf(c) \subseteq Foundation \cup Keys
           /\ PlanOf(c) = {} =>
                 /\ \A f \in Foundation : foundation[f] = "same"
                 /\ \A k \in Keys : /\ command[c].seen.issues[k] # {}
                                    /\ command[c].seen.content[k] = "same"
  BY DEF PlanOf, Audit!Plan

\* The number of an issue that was seen is one of those seen.
LEMMA NumberWords ==
    ASSUME NEW c, NEW k, command[c].seen.issues[k] # {}
    PROVE  NumberSeen(c, k) \in command[c].seen.issues[k]
  BY DEF NumberSeen, Audit!SeenNumber

\* A command starts.
LEMMA StartedWords ==
    ASSUME NEW c, Started(c)
    PROVE  /\ command[c].pc = "idle"
           /\ \E kind \in {"apply", "verify"} :
                 Becomes(c, [pc |-> "read", kind |-> kind, phase |-> 1, key |-> Absent,
                             loaded |-> registry, plan |-> {}, seen |-> Absent])
           /\ clean' = [clean EXCEPT ![c] = TRUE]
           /\ UNCHANGED <<Live, project, registry, faults, auditEdits>>
  BY DEF Started, Live, Becomes, Audit!Begin, Audit!At, Audit!Update, Audit!live

\* The issues are read; two with one marker end the command.
LEMMA IssuesReadWords ==
    ASSUME NEW c, IssuesRead(c)
    PROVE  /\ command[c].pc = "read"
           /\ \/ Ended(c)
              \/ /\ \A k \in Keys : \A m, n \in auditIssues[k] : m = n
                 /\ Becomes(c, [command[c] EXCEPT !.pc = "read foundation",
                                  !.seen = [issues |-> auditIssues, content |-> content]])
           /\ UNCHANGED <<Live, project, registry, faults, auditEdits, clean>>
<1>1. command[c].pc = "read" /\ UNCHANGED <<Live, project, registry, faults, auditEdits, clean>>
  BY DEF IssuesRead, Live, Audit!ReadIssues, Audit!At, Audit!live
<1>2. (\E k \in Keys : \E m, n \in auditIssues[k] : m # n) => Ended(c)
  BY Zenon DEF IssuesRead, Ended, Audit!ReadIssues, Audit!Update, Audit!End, Audit!Idle
<1>3. ~ (\E k \in Keys : \E m, n \in auditIssues[k] : m # n) =>
         Becomes(c, [command[c] EXCEPT !.pc = "read foundation",
                       !.seen = [issues |-> auditIssues, content |-> content]])
  BY Zenon DEF IssuesRead, Becomes, Audit!ReadIssues, Audit!Update
<1>4. QED
  BY <1>1, <1>2, <1>3, Zenon

\* The labels and milestones are read, and the command plans.
LEMMA FoundationReadWords ==
    ASSUME NEW c, FoundationRead(c)
    PROVE  /\ command[c].pc = "read foundation" /\ command[c].key = Absent
           /\ UNCHANGED <<Live, project, registry, faults, auditEdits, clean>>
           /\ \/ Ended(c)
              \/ /\ command[c].kind = "verify" /\ \A k \in Keys : command[c].seen.issues[k] # {}
                 /\ Becomes(c, [command[c] EXCEPT !.plan = PlanOf(c), !.pc = "project"])
              \/ /\ command[c].kind = "record" /\ \A k \in Keys : command[c].seen.issues[k] # {}
                 /\ Becomes(c, [command[c] EXCEPT !.plan = PlanOf(c), !.pc = "write"])
              \/ /\ command[c].kind = "apply" /\ PlanOf(c) = {}
                 /\ Becomes(c, [command[c] EXCEPT !.plan = PlanOf(c), !.kind = "record", !.pc = "read"])
              \/ /\ command[c].kind = "apply"
                 /\ Becomes(c, [command[c] EXCEPT !.plan = PlanOf(c), !.pc = "apply"])
              \/ command[c].kind \notin {"verify", "record", "apply"}
  BY DEF FoundationRead, PlanOf, Live, Becomes, Ended, Audit!ReadFoundation, Audit!At, Audit!Update,
     Audit!End, Audit!Idle, Audit!live

\* What a mutation does to the service.
AppliedTo(c, k) ==
    IF k \in Foundation
    THEN /\ foundation' = [foundation EXCEPT ![k] = "same"]
         /\ UNCHANGED <<auditIssues, content, numbers>>
    ELSE /\ \/ /\ command[c].seen.issues[k] = {} /\ numbers' = numbers + 1
               /\ auditIssues' = [auditIssues EXCEPT ![k] = @ \cup {numbers + 1}]
            \/ command[c].seen.issues[k] # {} /\ UNCHANGED <<auditIssues, numbers>>
         /\ content' = [content EXCEPT ![k] = "same"]
         /\ UNCHANGED foundation

\* A mutation of the plan is made, and the next one is next.
LEMMA MutatedWords ==
    ASSUME NEW c, Mutated(c)
    PROVE  /\ command[c].pc = "apply"
           /\ \E k \in command[c].plan :
                 AppliedTo(c, k) /\ Becomes(c, [command[c] EXCEPT !.plan = @ \ {k}])
           /\ UNCHANGED <<project, registry, faults, auditEdits, clean>>
<1>1. ASSUME NEW k, Audit!Effect(c, k) PROVE AppliedTo(c, k)
  BY <1>1, Zenon DEF AppliedTo, Audit!Effect
<1>2. QED
  BY <1>1, Zenon DEF Mutated, Becomes, Audit!Mutate, Audit!At, Audit!Update

\* A mutation is made or not, and its answer does not come.
LEMMA UnheardWords ==
    ASSUME NEW c, MutatedUnheard(c)
    PROVE  /\ command[c].pc = "apply"
           /\ \E k \in command[c].plan :
                 /\ AppliedTo(c, k) \/ UNCHANGED Live
                 /\ Becomes(c, [command[c] EXCEPT !.pc = "read", !.key = k])
           /\ UNCHANGED <<project, registry, auditEdits, clean>>
<1>1. ASSUME NEW k, Audit!Effect(c, k) PROVE AppliedTo(c, k)
  BY <1>1, Zenon DEF AppliedTo, Audit!Effect
<1>2. QED
  BY <1>1, Zenon DEF MutatedUnheard, Becomes, Live, Audit!MutateLost, Audit!At, Audit!Update, Audit!live

\* What was read again decides whether the command goes on.
LEMMA RecheckedWords ==
    ASSUME NEW c, Rechecked(c)
    PROVE  /\ command[c].pc = "read foundation" /\ command[c].key # Absent
           /\ \/ Ended(c)
              \/ Becomes(c, [command[c] EXCEPT !.pc = "apply", !.key = Absent,
                                               !.plan = @ \ {command[c].key}])
           /\ UNCHANGED <<Live, project, registry, faults, auditEdits, clean>>
  BY Zenon DEF Rechecked, Live, Becomes, Ended, Audit!Recheck, Audit!At, Audit!Update, Audit!End,
     Audit!Idle, Audit!live

\* After the plan everything is read again, three times at most.
LEMMA PhaseWords ==
    ASSUME NEW c, PhaseEnded(c)
    PROVE  /\ command[c].pc = "apply"
           /\ \/ Ended(c)
              \/ /\ command[c].phase # 3
                 /\ Becomes(c, [command[c] EXCEPT !.pc = "read", !.phase = @ + 1])
           /\ UNCHANGED <<Live, project, registry, faults, auditEdits, clean>>
  BY Zenon DEF PhaseEnded, Live, Becomes, Ended, Audit!NextPhase, Audit!At, Audit!Update, Audit!End,
     Audit!Idle, Audit!live

(* What a command writes: the registry it loaded, with the state it reached and
   the numbers it has read. *)
Writes(c, reached) ==
    registry' = [command[c].loaded EXCEPT !.sync_state = reached,
                                          !.numbers = [k \in Keys |-> NumberSeen(c, k)]]

\* Apply writes the registry, APPLIED or as far as it was before.
LEMMA AppliedWords ==
    ASSUME NEW c, AppliedWritten(c)
    PROVE  /\ command[c].pc = "write" /\ Ended(c)
           /\ UNCHANGED <<Live, project, faults, auditEdits, clean>>
           /\ \/ command[c].loaded.sync_state = "VERIFIED" /\ Writes(c, "VERIFIED")
              \/ command[c].loaded.sync_state # "VERIFIED" /\ Writes(c, "APPLIED")
<1>1. \A reached : Audit!Write(c, reached) => Writes(c, reached)
  BY Zenon DEF Writes, NumberSeen, Audit!Write
<1>2. QED
  BY <1>1, Zenon DEF AppliedWritten, Live, Ended, Audit!WriteApplied, Audit!At, Audit!Update, Audit!End,
     Audit!Idle, Audit!live

\* The board is read.
LEMMA ProjectWords ==
    ASSUME NEW c, ProjectRead(c)
    PROVE  /\ command[c].pc = "project"
           /\ \/ Ended(c)
              \/ /\ \A k \in Keys : project[k] = NumberSeen(c, k)
                 /\ Becomes(c, [command[c] EXCEPT !.pc = "verify"])
           /\ UNCHANGED <<Live, project, registry, faults, auditEdits, clean>>
  BY Zenon DEF ProjectRead, NumberSeen, Live, Becomes, Ended, Audit!ReadProject, Audit!OnBoard, Audit!At,
     Audit!Goto, Audit!Update, Audit!End, Audit!Idle, Audit!live

\* Verify writes the registry, VERIFIED, or leaves it.
LEMMA VerifiedWords ==
    ASSUME NEW c, Verified(c)
    PROVE  /\ command[c].pc = "verify" /\ Ended(c)
           /\ UNCHANGED <<Live, project, faults, auditEdits, clean>>
           /\ \/ command[c].plan = {} /\ Writes(c, "VERIFIED")
              \/ UNCHANGED registry
<1>1. \A reached : Audit!Write(c, reached) => Writes(c, reached)
  BY Zenon DEF Writes, NumberSeen, Audit!Write
<1>2. QED
  BY <1>1, Zenon DEF Verified, Live, Ended, Audit!Verify, Audit!MayVerify, Audit!At, Audit!Update,
     Audit!End, Audit!Idle, Audit!live

\* A command is killed.
LEMMA KilledWords ==
    ASSUME NEW c, Killed(c)
    PROVE  Ended(c) /\ UNCHANGED <<Live, project, registry, auditEdits, clean>>
  BY Zenon DEF Killed, Live, Ended, Audit!Kill, Audit!Update, Audit!End, Audit!Idle, Audit!live

\* Somebody changes what is synchronized, fills the board, or verifies the views.
LEMMA PeopleWords ==
    /\ Edited =>
          /\ clean' = [c \in Commands |-> FALSE]
          /\ \/ /\ \E f \in Foundation : foundation' = [foundation EXCEPT ![f] = "other"]
                /\ UNCHANGED content
             \/ /\ \E k \in Keys : content' = [content EXCEPT ![k] = "other"]
                /\ UNCHANGED foundation
          /\ UNCHANGED <<auditIssues, numbers, project, registry, command, faults>>
    /\ Placed =>
          /\ \E k \in Keys : \E n \in auditIssues[k] :
                project[k] = 0 /\ project' = [project EXCEPT ![k] = n]
          /\ UNCHANGED <<Live, registry, command, faults, auditEdits, clean>>
    /\ ViewsSet =>
          /\ registry' = [registry EXCEPT !.views = TRUE]
          /\ UNCHANGED <<Live, project, command, faults, auditEdits, clean>>
<1>1. Edited =>
          /\ clean' = [c \in Commands |-> FALSE]
          /\ \/ /\ \E f \in Foundation : foundation' = [foundation EXCEPT ![f] = "other"]
                /\ UNCHANGED content
             \/ /\ \E k \in Keys : content' = [content EXCEPT ![k] = "other"]
                /\ UNCHANGED foundation
          /\ UNCHANGED <<auditIssues, numbers, project, registry, command, faults>>
  BY Zenon DEF Edited, Audit!Edit
<1>2. Placed =>
          /\ \E k \in Keys : \E n \in auditIssues[k] :
                project[k] = 0 /\ project' = [project EXCEPT ![k] = n]
          /\ UNCHANGED <<Live, registry, command, faults, auditEdits, clean>>
  BY DEF Placed, Live, Audit!Place, Audit!live
<1>3. ViewsSet =>
          /\ registry' = [registry EXCEPT !.views = TRUE]
          /\ UNCHANGED <<Live, project, command, faults, auditEdits, clean>>
  BY Zenon DEF ViewsSet, Live, Audit!SetViews, Audit!live
<1>4. QED
  BY <1>1, <1>2, <1>3

(***************************************************************************)
(* What a command knows.  Others may work and people may edit meanwhile:   *)
(* what was seen to be there stays, what the board has stays, and what was *)
(* as declared is so until somebody edits.                                 *)
(***************************************************************************)
AuditPcs == {"read", "read foundation", "apply", "project", "verify", "write"}
AfterReading == {"read foundation", "apply", "project", "verify", "write"}
Reached == {"project", "verify", "write"}
SyncStates == {"PLANNED", "APPLIED", "VERIFIED"}
Registry == [sync_state : SyncStates, numbers : [Keys -> Nat], views : BOOLEAN]

AuditTyped ==
    /\ foundation \in [Foundation -> {Absent, "same", "other"}]
    /\ content \in [Keys -> {"same", "other"}]
    /\ numbers \in Nat
    /\ auditIssues = [k \in Keys |-> auditIssues[k]] /\ \A k \in Keys : auditIssues[k] \subseteq 1..numbers
    /\ project \in [Keys -> 0..numbers]
    /\ registry \in Registry
    /\ command = [c \in Commands |-> command[c]] /\ clean \in [Commands -> BOOLEAN]

(* The issues a registry names are there, and on the board once it is verified. *)
Names(r) == r.sync_state # "PLANNED" => \A k \in Keys : r.numbers[k] \in auditIssues[k]
OnBoard(r) == r.sync_state = "VERIFIED" => \A k \in Keys : project[k] = r.numbers[k]

CommandTyped(c) ==
    /\ command[c] \in [pc : AuditPcs, kind : {"apply", "verify", "record"}, phase : 1..3,
                       key : {command[c].key}, loaded : Registry,
                       plan : SUBSET (Foundation \cup Keys), seen : {command[c].seen}]
    /\ Names(command[c].loaded) /\ OnBoard(command[c].loaded)

KindRight(c) ==
    /\ command[c].pc = "write" => command[c].kind = "record"
    /\ command[c].pc \in {"project", "verify"} => command[c].kind = "verify"
    /\ command[c].pc = "apply" => command[c].kind = "apply"
    /\ command[c].key # Absent /\ command[c].pc \in {"read", "read foundation"} =>
          command[c].kind = "apply"

SeenRight(c) ==
    /\ command[c].pc \in AfterReading =>
          \A k \in Keys :
              /\ command[c].seen.issues[k] \subseteq auditIssues[k]
              /\ \A m, n \in command[c].seen.issues[k] : m = n
              /\ command[c].loaded.sync_state # "PLANNED" =>
                    command[c].loaded.numbers[k] \in command[c].seen.issues[k]
              /\ clean[c] = TRUE /\ command[c].seen.content[k] = "same" => content[k] = "same"
    /\ command[c].pc \in Reached => \A k \in Keys : command[c].seen.issues[k] # {}
    /\ command[c].pc = "verify" => \A k \in Keys : project[k] \in command[c].seen.issues[k]

ConcludesRight(c) ==
    clean[c] = TRUE =>
        /\ command[c].kind = "record" => Declared
        /\ command[c].pc \in {"project", "verify"} /\ command[c].plan = {} => Declared

CommandInv(c) ==
    command[c].pc = "idle" \/ (CommandTyped(c) /\ KindRight(c) /\ SeenRight(c) /\ ConcludesRight(c))

AuditInv ==
    /\ AuditTyped /\ Names(registry) /\ OnBoard(registry)
    /\ \A c \in Commands : CommandInv(c)

(* What others may do to what a command knows. *)
Benign(c) ==
    /\ \A k \in Keys : auditIssues[k] \subseteq auditIssues'[k]
    /\ \A k \in Keys : project'[k] = project[k] \/ project[k] = 0
    /\ clean'[c] = TRUE =>
          /\ clean[c] = TRUE
          /\ \A f \in Foundation : foundation[f] = "same" => foundation'[f] = "same"
          /\ \A k \in Keys : content[k] = "same" => content'[k] = "same"

\* What people or another command do leaves a command what it knows.
LEMMA OthersKeep ==
    ASSUME AuditTyped, NEW c \in Commands, CommandInv(c), Benign(c), command'[c] = command[c]
    PROVE  CommandInv(c)'
<1>1. CASE command[c].pc = "idle"
  BY <1>1 DEF CommandInv
<1>2. CASE CommandTyped(c) /\ KindRight(c) /\ SeenRight(c) /\ ConcludesRight(c)
  <2>1. \A k \in Keys : auditIssues[k] \subseteq Nat /\ 0 \notin auditIssues[k]
    BY DEF AuditTyped
  <2>2. \A k \in Keys : \A n \in auditIssues[k] : project[k] = n => project'[k] = n
    BY <2>1 DEF Benign
  <2>3. CommandTyped(c)'
    <3>1. Names(command[c].loaded)'
      BY <1>2 DEF CommandTyped, Names, Benign
    <3>2. OnBoard(command[c].loaded)'
      BY <1>2, <2>2 DEF CommandTyped, Names, OnBoard
    <3>3. QED
      BY <1>2, <3>1, <3>2 DEF CommandTyped, Names, OnBoard
  <2>4. KindRight(c)'
    BY <1>2 DEF KindRight
  <2>5. SeenRight(c)'
    <3>1. command[c].pc = "verify" => \A k \in Keys : project'[k] \in command[c].seen.issues[k]
      BY <1>2, <2>2 DEF SeenRight, AfterReading
    <3>2. QED
      BY <1>2, <3>1 DEF SeenRight, Benign
  <2>6. ConcludesRight(c)'
    <3>1. clean'[c] = TRUE /\ Declared => clean[c] = TRUE /\ Declared'
      BY DEF Benign, Declared
    <3>2. QED
      BY <1>2, <3>1 DEF ConcludesRight, Benign
  <2>7. QED
    BY <2>3, <2>4, <2>5, <2>6 DEF CommandInv
<1>3. QED
  BY <1>1, <1>2 DEF CommandInv

\* The state in which nothing has been synchronized is one of these.
LEMMA AuditInit ==
    ASSUME Audit!Init
    PROVE  AuditInv
<1>1. /\ foundation \in [Foundation -> {Absent, "other"}]
      /\ auditIssues = [k \in Keys |-> {}] /\ content = [k \in Keys |-> "other"]
      /\ project = [k \in Keys |-> 0]
      /\ registry = [sync_state |-> "PLANNED", numbers |-> [k \in Keys |-> 0], views |-> FALSE]
      /\ command = [c \in Commands |-> [pc |-> "idle"]]
      /\ numbers = 0
      /\ clean = [c \in Commands |-> TRUE]
  BY Zenon DEF Audit!Init, Audit!Idle
<1>2. AuditTyped
  <2>1. registry \in Registry
    BY <1>1 DEF Registry, SyncStates
  <2>2. project \in [Keys -> 0..numbers]
    BY <1>1
  <2>3. auditIssues = [k \in Keys |-> auditIssues[k]] /\ \A k \in Keys : auditIssues[k] \subseteq 1..numbers
    BY <1>1
  <2>4. command = [c \in Commands |-> command[c]]
    BY <1>1
  <2>5. foundation \in [Foundation -> {Absent, "same", "other"}] /\ content \in [Keys -> {"same", "other"}]
    BY <1>1
  <2>6. clean \in [Commands -> BOOLEAN]
    BY <1>1
  <2>7. QED
    BY <1>1, <2>1, <2>2, <2>3, <2>4, <2>5, <2>6 DEF AuditTyped
<1>3. Names(registry) /\ OnBoard(registry)
  BY <1>1 DEF Names, OnBoard
<1>4. \A c \in Commands : CommandInv(c)
  BY <1>1 DEF CommandInv
<1>5. QED
  BY <1>2, <1>3, <1>4 DEF AuditInv

\* What is next for one command changes nothing for the others.
LEMMA NextIs ==
    ASSUME AuditInv, NEW c \in Commands, NEW r, Becomes(c, r)
    PROVE  /\ command'[c] = r /\ command' = [d \in Commands |-> command'[d]]
           /\ \A d \in Commands : d # c => command'[d] = command[d]
<1>1. command = [d \in Commands |-> command[d]]
  BY DEF AuditInv, AuditTyped
<1>2. QED
  BY <1>1 DEF Becomes

\* A step of one command that leaves the others what they know.
LEMMA OneSteps ==
    ASSUME AuditInv, NEW c \in Commands,
           \A d \in Commands : d # c => command'[d] = command[d] /\ Benign(d),
           AuditTyped', Names(registry)', OnBoard(registry)', CommandInv(c)'
    PROVE  AuditInv'
<1>1. ASSUME NEW d \in Commands, d # c PROVE CommandInv(d)'
  BY <1>1, OthersKeep DEF AuditInv
<1>2. QED
  BY <1>1 DEF AuditInv

\* A step of one command that changes nothing else.
LEMMA QuietStep ==
    ASSUME AuditInv, NEW c \in Commands, NEW r, Becomes(c, r),
           UNCHANGED <<Live, project, registry, clean>>, CommandInv(c)'
    PROVE  AuditInv'
<1>1. /\ \A d \in Commands : d # c => command'[d] = command[d]
      /\ command' = [d \in Commands |-> command'[d]]
  BY NextIs
<1>2. \A d \in Commands : Benign(d)
  BY DEF Benign, Live
<1>3. AuditTyped'
  BY <1>1 DEF AuditInv, AuditTyped, Live
<1>4. Names(registry)' /\ OnBoard(registry)'
  BY DEF AuditInv, Names, OnBoard, Live
<1>5. QED
  BY <1>1, <1>2, <1>3, <1>4, OneSteps

\* A command that ends knows nothing.
LEMMA EndedKnowsNothing ==
    ASSUME AuditInv, NEW c \in Commands, Ended(c)
    PROVE  /\ CommandInv(c)' /\ command'[c] = [pc |-> "idle"] /\ Becomes(c, [pc |-> "idle"])
<1>1. Becomes(c, [pc |-> "idle"])
  BY DEF Ended, Becomes
<1>2. command'[c] = [pc |-> "idle"]
  BY <1>1, NextIs
<1>3. QED
  BY <1>1, <1>2 DEF CommandInv

\* A command that ends changes nothing else.
LEMMA QuietEnd ==
    ASSUME AuditInv, NEW c \in Commands, Ended(c), UNCHANGED <<Live, project, registry, clean>>
    PROVE  AuditInv'
  BY EndedKnowsNothing, QuietStep

\* A command that starts has loaded the registry.
LEMMA StartedKeeps ==
    ASSUME AuditInv, NEW c \in Commands, Started(c)
    PROVE  AuditInv'
<1>1. PICK kind \in {"apply", "verify"} :
          Becomes(c, [pc |-> "read", kind |-> kind, phase |-> 1, key |-> Absent,
                      loaded |-> registry, plan |-> {}, seen |-> Absent])
  BY StartedWords
<1>2. /\ clean' = [clean EXCEPT ![c] = TRUE]
      /\ UNCHANGED <<Live, project, registry>>
  BY StartedWords
<1>3. /\ command'[c] = [pc |-> "read", kind |-> kind, phase |-> 1, key |-> Absent,
                        loaded |-> registry, plan |-> {}, seen |-> Absent]
      /\ \A d \in Commands : d # c => command'[d] = command[d]
      /\ command' = [d \in Commands |-> command'[d]]
  BY <1>1, NextIs
<1>4. AuditTyped'
  BY <1>2, <1>3 DEF AuditInv, AuditTyped, Live
<1>5. Names(registry)' /\ OnBoard(registry)'
  BY <1>2 DEF AuditInv, Names, OnBoard, Live
<1>6. \A d \in Commands : d # c => command'[d] = command[d] /\ Benign(d)
  BY <1>2, <1>3 DEF AuditInv, AuditTyped, Benign, Live
<1>7. CommandInv(c)'
  <2>1. CommandTyped(c)'
    <3>1. command'[c].loaded = registry /\ registry \in Registry
      BY <1>3 DEF AuditInv, AuditTyped
    <3>2. Names(command[c].loaded)' /\ OnBoard(command[c].loaded)'
      BY <1>2, <3>1 DEF AuditInv, Names, OnBoard, Live
    <3>3. QED
      BY <1>3, <3>1, <3>2 DEF CommandTyped, AuditPcs
  <2>2. KindRight(c)' /\ SeenRight(c)' /\ ConcludesRight(c)'
    BY <1>3 DEF KindRight, SeenRight, ConcludesRight, AfterReading, Reached
  <2>3. QED
    BY <2>1, <2>2 DEF CommandInv
<1>8. QED
  BY <1>4, <1>5, <1>6, <1>7, OneSteps

\* What a command that runs knows.
LEMMA Knows ==
    ASSUME AuditInv, NEW c \in Commands, command[c].pc # "idle"
    PROVE  CommandTyped(c) /\ KindRight(c) /\ SeenRight(c) /\ ConcludesRight(c)
  BY DEF AuditInv, CommandInv

\* A command that goes on quietly: what it knows after must be right.
LEMMA GoesOn ==
    ASSUME AuditInv, NEW c \in Commands, command[c].pc # "idle",
           NEW r, Becomes(c, r), UNCHANGED <<Live, project, registry, clean>>,
           r \in [pc : AuditPcs, kind : {"apply", "verify", "record"}, phase : 1..3,
                  key : {r.key}, loaded : Registry,
                  plan : SUBSET (Foundation \cup Keys), seen : {r.seen}],
           r.loaded = command[c].loaded,
           KindRight(c)', SeenRight(c)', ConcludesRight(c)'
    PROVE  AuditInv'
<1>1. command'[c] = r
  BY NextIs
<1>2. Names(command[c].loaded) /\ OnBoard(command[c].loaded)
  BY Knows DEF CommandTyped
<1>3. Names(command[c].loaded)' /\ OnBoard(command[c].loaded)'
  BY <1>1, <1>2 DEF Names, OnBoard, Live
<1>4. CommandTyped(c)'
  BY <1>1, <1>3 DEF CommandTyped
<1>5. QED
  BY <1>4, QuietStep DEF CommandInv

\* What was read is there, and the numbers loaded are among it.
LEMMA IssuesReadKeeps ==
    ASSUME AuditInv, NEW c \in Commands, IssuesRead(c)
    PROVE  AuditInv'
<1> DEFINE r == [command[c] EXCEPT !.pc = "read foundation",
                                   !.seen = [issues |-> auditIssues, content |-> content]]
<1>1. command[c].pc = "read" /\ UNCHANGED <<Live, project, registry, clean>>
  BY IssuesReadWords
<1>2. CASE Ended(c)
  BY <1>1, <1>2, QuietEnd
<1>3. CASE (\A k \in Keys : \A m, n \in auditIssues[k] : m = n) /\ Becomes(c, r)
  <2>1. CommandTyped(c) /\ KindRight(c) /\ ConcludesRight(c)
    BY <1>1, Knows
  <2>2. /\ r.pc = "read foundation" /\ r.kind = command[c].kind /\ r.key = command[c].key
        /\ r.loaded = command[c].loaded /\ r.plan = command[c].plan
        /\ r.seen = [issues |-> auditIssues, content |-> content]
        /\ r \in [pc : AuditPcs, kind : {"apply", "verify", "record"}, phase : 1..3,
                  key : {r.key}, loaded : Registry,
                  plan : SUBSET (Foundation \cup Keys), seen : {r.seen}]
    BY <2>1 DEF CommandTyped, AuditPcs
  <2>3. command'[c] = r
    BY <1>3, NextIs
  <2> HIDE DEF r
  <2>4. KindRight(c)'
    BY <1>1, <2>1, <2>2, <2>3 DEF KindRight
  <2>5. SeenRight(c)'
    <3>1. Names(command[c].loaded)
      BY <2>1 DEF CommandTyped
    <3>2. command'[c].seen.issues = auditIssues /\ command'[c].seen.content = content
      <4>1. /\ [issues |-> auditIssues, content |-> content].issues = auditIssues
            /\ [issues |-> auditIssues, content |-> content].content = content
        OBVIOUS
      <4>2. QED
        BY <2>2, <2>3, <4>1, Zenon
    <3>3. auditIssues' = auditIssues /\ content' = content
      BY <1>1 DEF Live
    <3>4. command'[c].pc = "read foundation" /\ command'[c].loaded = command[c].loaded
      BY <2>2, <2>3
    <3>5. \A k \in Keys : \A m, n \in auditIssues[k] : m = n
      BY <1>3
    <3>6. \A k \in Keys : command'[c].loaded.sync_state # "PLANNED" =>
                            command'[c].loaded.numbers[k] \in auditIssues[k]
      BY <3>1, <3>4 DEF Names
    <3>7. QED
      BY <3>2, <3>3, <3>4, <3>5, <3>6 DEF SeenRight, Reached
  <2>6. ConcludesRight(c)'
    BY <1>1, <2>1, <2>2, <2>3 DEF ConcludesRight, Declared, Live
  <2>7. QED
    BY <1>1, <1>3, <2>2, <2>4, <2>5, <2>6, GoesOn
<1>4. QED
  BY <1>2, <1>3, IssuesReadWords

\* A plan is empty only when everything is as declared.
LEMMA FoundationReadKeeps ==
    ASSUME AuditInv, NEW c \in Commands, FoundationRead(c)
    PROVE  AuditInv'
<1> DEFINE next == [command[c] EXCEPT !.plan = PlanOf(c)]
<1> DEFINE Good(r) ==
        /\ r \in [pc : AuditPcs, kind : {"apply", "verify", "record"}, phase : 1..3,
                  key : {r.key}, loaded : Registry,
                  plan : SUBSET (Foundation \cup Keys), seen : {r.seen}]
        /\ r.key = Absent /\ r.loaded = command[c].loaded /\ r.plan = PlanOf(c)
        /\ r.seen = command[c].seen
<1>1. /\ command[c].pc = "read foundation" /\ command[c].key = Absent
      /\ UNCHANGED <<Live, project, registry, clean>>
  BY FoundationReadWords
<1>2. CommandTyped(c) /\ KindRight(c) /\ SeenRight(c) /\ ConcludesRight(c)
  BY <1>1, Knows
<1>3. PlanOf(c) \subseteq Foundation \cup Keys
  BY PlanWords
<1>4. clean[c] = TRUE /\ PlanOf(c) = {} => Declared
  <2>1. SUFFICES ASSUME clean[c] = TRUE, PlanOf(c) = {} PROVE Declared
    OBVIOUS
  <2>2. /\ \A f \in Foundation : foundation[f] = "same"
        /\ \A k \in Keys : command[c].seen.issues[k] # {} /\ command[c].seen.content[k] = "same"
    BY <2>1, PlanWords
  <2>3. \A k \in Keys : auditIssues[k] # {} /\ content[k] = "same"
    BY <1>1, <1>2, <2>1, <2>2 DEF SeenRight, AfterReading
  <2>4. QED
    BY <2>2, <2>3 DEF Declared
<1>5. ASSUME NEW r, Becomes(c, r), Good(r),
             \/ r.pc = "project" /\ r.kind = "verify" /\ \A k \in Keys : command[c].seen.issues[k] # {}
             \/ r.pc = "write" /\ r.kind = "record" /\ command[c].kind = "record"
                  /\ \A k \in Keys : command[c].seen.issues[k] # {}
             \/ r.pc = "read" /\ r.kind = "record" /\ PlanOf(c) = {}
             \/ r.pc = "apply" /\ r.kind = "apply"
      PROVE  AuditInv'
  <2>1. command'[c] = r
    BY <1>5, NextIs
  <2>2. KindRight(c)'
    BY <1>5, <2>1 DEF KindRight
  <2>3. SeenRight(c)'
    <3>1. /\ command'[c].seen = command[c].seen /\ command'[c].loaded = command[c].loaded
          /\ command'[c].pc # "verify"
          /\ auditIssues' = auditIssues /\ content' = content /\ clean' = clean
      BY <1>1, <1>5, <2>1 DEF Live
    <3>2. command[c].pc \in AfterReading
      BY <1>1 DEF AfterReading
    <3>3. command'[c].pc \in Reached => \A k \in Keys : command[c].seen.issues[k] # {}
      BY <1>5, <2>1 DEF Reached
    <3>4. QED
      BY <1>2, <3>1, <3>2, <3>3 DEF SeenRight
  <2>4. ConcludesRight(c)'
    BY <1>1, <1>2, <1>4, <1>5, <2>1 DEF ConcludesRight, Declared, Live
  <2>5. QED
    BY <1>1, <1>5, <2>2, <2>3, <2>4, GoesOn
<1>6. command[c] \in [pc : AuditPcs, kind : {"apply", "verify", "record"}, phase : 1..3,
                      key : {Absent}, loaded : Registry,
                      plan : SUBSET (Foundation \cup Keys), seen : {command[c].seen}]
  BY <1>1, <1>2 DEF CommandTyped
<1>7. CASE Ended(c)
  BY <1>1, <1>7, QuietEnd
<1>8. CASE /\ command[c].kind = "verify" /\ \A k \in Keys : command[c].seen.issues[k] # {}
           /\ Becomes(c, [command[c] EXCEPT !.plan = PlanOf(c), !.pc = "project"])
  <2> DEFINE r == [command[c] EXCEPT !.plan = PlanOf(c), !.pc = "project"]
  <2>1. Good(r) /\ r.pc = "project" /\ r.kind = "verify"
    BY <1>3, <1>6, <1>8 DEF AuditPcs
  <2>2. QED
    BY <1>5, <1>8, <2>1
<1>9. CASE /\ command[c].kind = "record" /\ \A k \in Keys : command[c].seen.issues[k] # {}
           /\ Becomes(c, [command[c] EXCEPT !.plan = PlanOf(c), !.pc = "write"])
  <2> DEFINE r == [command[c] EXCEPT !.plan = PlanOf(c), !.pc = "write"]
  <2>1. Good(r) /\ r.pc = "write" /\ r.kind = "record"
    BY <1>3, <1>6, <1>9 DEF AuditPcs
  <2>2. QED
    BY <1>5, <1>9, <2>1
<1>10. CASE /\ command[c].kind = "apply" /\ PlanOf(c) = {}
            /\ Becomes(c, [command[c] EXCEPT !.plan = PlanOf(c), !.kind = "record", !.pc = "read"])
  <2> DEFINE r == [command[c] EXCEPT !.plan = PlanOf(c), !.kind = "record", !.pc = "read"]
  <2>1. Good(r) /\ r.pc = "read" /\ r.kind = "record"
    BY <1>3, <1>6, <1>10 DEF AuditPcs
  <2>2. QED
    BY <1>5, <1>10, <2>1
<1>11. CASE /\ command[c].kind = "apply"
            /\ Becomes(c, [command[c] EXCEPT !.plan = PlanOf(c), !.pc = "apply"])
  <2> DEFINE r == [command[c] EXCEPT !.plan = PlanOf(c), !.pc = "apply"]
  <2>1. Good(r) /\ r.pc = "apply" /\ r.kind = "apply"
    BY <1>3, <1>6, <1>11 DEF AuditPcs
  <2>2. QED
    BY <1>5, <1>11, <2>1
<1>12. command[c].kind \in {"verify", "record", "apply"}
  BY <1>6
<1>13. QED
  BY <1>7, <1>8, <1>9, <1>10, <1>11, <1>12, FoundationReadWords

\* A mutation takes nothing away: issues stay, and what is as declared stays so.
LEMMA AppliedAdds ==
    ASSUME AuditInv, NEW c, NEW k \in Foundation \cup Keys, AppliedTo(c, k) \/ UNCHANGED Live
    PROVE  /\ foundation' \in [Foundation -> {Absent, "same", "other"}]
           /\ content' \in [Keys -> {"same", "other"}]
           /\ numbers' \in Nat /\ numbers' >= numbers
           /\ auditIssues' = [j \in Keys |-> auditIssues'[j]]
           /\ \A j \in Keys : auditIssues'[j] \subseteq 1..numbers' /\ auditIssues[j] \subseteq auditIssues'[j]
           /\ \A f \in Foundation : foundation[f] = "same" => foundation'[f] = "same"
           /\ \A j \in Keys : content[j] = "same" => content'[j] = "same"
<1>1. AuditTyped
  BY DEF AuditInv
<1>2. CASE UNCHANGED Live
  BY <1>1, <1>2 DEF AuditTyped, Live
<1>3. CASE AppliedTo(c, k) /\ k \in Foundation
  BY <1>1, <1>3 DEF AuditTyped, AppliedTo
<1>4. CASE AppliedTo(c, k) /\ k \notin Foundation
  <2>1. /\ k \in Keys /\ content' = [content EXCEPT ![k] = "same"] /\ foundation' = foundation
        /\ \/ /\ numbers' = numbers + 1 /\ auditIssues' = [auditIssues EXCEPT ![k] = @ \cup {numbers + 1}]
           \/ auditIssues' = auditIssues /\ numbers' = numbers
    BY <1>4 DEF AppliedTo
  <2>2. foundation' \in [Foundation -> {Absent, "same", "other"}] /\ content' \in [Keys -> {"same", "other"}]
    BY <1>1, <2>1 DEF AuditTyped
  <2>3. \A j \in Keys : content[j] = "same" => content'[j] = "same"
    BY <1>1, <2>1 DEF AuditTyped
  <2>4. CASE auditIssues' = auditIssues /\ numbers' = numbers
    BY <1>1, <2>1, <2>2, <2>3, <2>4 DEF AuditTyped
  <2>5. CASE numbers' = numbers + 1 /\ auditIssues' = [auditIssues EXCEPT ![k] = @ \cup {numbers + 1}]
    <3>1. numbers \in Nat /\ numbers' \in Nat /\ numbers' >= numbers
      BY <1>1, <2>5 DEF AuditTyped
    <3>2. \A j \in Keys : auditIssues[j] \subseteq 1..numbers'
      BY <1>1, <2>5 DEF AuditTyped
    <3>3. \A j \in Keys : auditIssues'[j] = IF j = k THEN auditIssues[j] \cup {numbers'} ELSE auditIssues[j]
      BY <1>1, <2>1, <2>5 DEF AuditTyped
    <3>4. auditIssues' = [j \in Keys |-> auditIssues'[j]]
      BY <1>1, <2>1, <2>5 DEF AuditTyped
    <3>5. numbers' \in 1..numbers'
      BY <3>1, <2>5
    <3>6. \A j \in Keys : auditIssues'[j] \subseteq 1..numbers' /\ auditIssues[j] \subseteq auditIssues'[j]
      BY <3>2, <3>3, <3>5
    <3>7. QED
      BY <2>1, <2>2, <2>3, <3>1, <3>4, <3>6
  <2>6. QED
    BY <2>1, <2>4, <2>5
<1>5. QED
  BY <1>2, <1>3, <1>4

\* A mutation, and what the command does next, which it must know rightly.
LEMMA AppliedKeeps ==
    ASSUME AuditInv, NEW c \in Commands, command[c].pc = "apply", NEW k \in Foundation \cup Keys,
           AppliedTo(c, k) \/ UNCHANGED Live, UNCHANGED <<project, registry, clean>>,
           NEW r, Becomes(c, r),
           r \in [pc : {"apply", "read"}, kind : {"apply"}, phase : 1..3, key : {r.key},
                  loaded : {command[c].loaded}, plan : SUBSET (Foundation \cup Keys),
                  seen : {command[c].seen}]
    PROVE  AuditInv'
<1>1. /\ foundation' \in [Foundation -> {Absent, "same", "other"}]
      /\ content' \in [Keys -> {"same", "other"}]
      /\ numbers' \in Nat /\ numbers' >= numbers
      /\ auditIssues' = [j \in Keys |-> auditIssues'[j]]
      /\ \A j \in Keys : auditIssues'[j] \subseteq 1..numbers' /\ auditIssues[j] \subseteq auditIssues'[j]
      /\ \A f \in Foundation : foundation[f] = "same" => foundation'[f] = "same"
      /\ \A j \in Keys : content[j] = "same" => content'[j] = "same"
  BY AppliedAdds
<1>2. /\ command'[c] = r /\ command' = [d \in Commands |-> command'[d]]
      /\ \A d \in Commands : d # c => command'[d] = command[d]
  BY NextIs
<1>3. AuditTyped'
  <2>1. AuditTyped
    BY DEF AuditInv
  <2>2. project \in [Keys -> 0..numbers']
    BY <1>1, <2>1 DEF AuditTyped
  <2>3. QED
    BY <1>1, <1>2, <2>1, <2>2 DEF AuditTyped
<1>4. Names(registry)' /\ OnBoard(registry)'
  BY <1>1 DEF AuditInv, Names, OnBoard
<1>5. \A d \in Commands : Benign(d)
  BY <1>1 DEF Benign
<1>6. CommandTyped(c) /\ KindRight(c) /\ SeenRight(c) /\ ConcludesRight(c)
  BY Knows
<1>7. CommandTyped(c)'
  <2>1. command[c].loaded \in Registry /\ Names(command[c].loaded) /\ OnBoard(command[c].loaded)
    BY <1>6 DEF CommandTyped
  <2>2. Names(command[c].loaded)' /\ OnBoard(command[c].loaded)'
    BY <1>1, <1>2, <2>1 DEF Names, OnBoard
  <2>3. QED
    BY <1>2, <2>1, <2>2 DEF CommandTyped, AuditPcs
<1>8. KindRight(c)' /\ ConcludesRight(c)'
  BY <1>2 DEF KindRight, ConcludesRight
<1>9. SeenRight(c)'
  <2>1. command[c].pc \in AfterReading
    BY DEF AfterReading
  <2>2. /\ command'[c].seen = command[c].seen /\ command'[c].loaded = command[c].loaded
        /\ command'[c].pc \notin Reached /\ command'[c].pc # "verify"
    BY <1>2 DEF Reached
  <2>3. QED
    BY <1>1, <1>6, <2>1, <2>2 DEF SeenRight
<1>10. QED
  BY <1>2, <1>3, <1>4, <1>5, <1>7, <1>8, <1>9, OneSteps DEF CommandInv

\* A command that applies, and its record.
LEMMA Applying ==
    ASSUME AuditInv, NEW c \in Commands, command[c].pc = "apply"
    PROVE  command[c] \in [pc : {"apply"}, kind : {"apply"}, phase : 1..3, key : {command[c].key},
                           loaded : Registry, plan : SUBSET (Foundation \cup Keys),
                           seen : {command[c].seen}]
  BY Knows DEF CommandTyped, KindRight

\* A mutation that was answered.
LEMMA MutatedKeeps ==
    ASSUME AuditInv, NEW c \in Commands, Mutated(c)
    PROVE  AuditInv'
<1>1. command[c].pc = "apply" /\ UNCHANGED <<project, registry, clean>>
  BY MutatedWords
<1>2. PICK k \in command[c].plan : AppliedTo(c, k) /\ Becomes(c, [command[c] EXCEPT !.plan = @ \ {k}])
  BY MutatedWords
<1> DEFINE r == [command[c] EXCEPT !.plan = @ \ {k}]
<1>3. r \in [pc : {"apply", "read"}, kind : {"apply"}, phase : 1..3, key : {r.key},
             loaded : {command[c].loaded}, plan : SUBSET (Foundation \cup Keys),
             seen : {command[c].seen}]
  BY <1>1, Applying
<1>4. k \in Foundation \cup Keys
  BY <1>1, Applying
<1> HIDE DEF r
<1>5. QED
  BY <1>1, <1>2, <1>3, <1>4, AppliedKeeps DEF r

\* A mutation whose answer was lost.
LEMMA UnheardKeeps ==
    ASSUME AuditInv, NEW c \in Commands, MutatedUnheard(c)
    PROVE  AuditInv'
<1>1. command[c].pc = "apply" /\ UNCHANGED <<project, registry, clean>>
  BY UnheardWords
<1>2. PICK k \in command[c].plan : /\ AppliedTo(c, k) \/ UNCHANGED Live
                                   /\ Becomes(c, [command[c] EXCEPT !.pc = "read", !.key = k])
  BY UnheardWords
<1> DEFINE r == [command[c] EXCEPT !.pc = "read", !.key = k]
<1>3. r \in [pc : {"apply", "read"}, kind : {"apply"}, phase : 1..3, key : {r.key},
             loaded : {command[c].loaded}, plan : SUBSET (Foundation \cup Keys),
             seen : {command[c].seen}]
  BY <1>1, Applying
<1>4. k \in Foundation \cup Keys
  BY <1>1, Applying
<1> HIDE DEF r
<1>5. QED
  BY <1>1, <1>2, <1>3, <1>4, AppliedKeeps DEF r

\* A command that read again goes on with the rest of its plan.
LEMMA RecheckedKeeps ==
    ASSUME AuditInv, NEW c \in Commands, Rechecked(c)
    PROVE  AuditInv'
<1> DEFINE r == [command[c] EXCEPT !.pc = "apply", !.key = Absent, !.plan = @ \ {command[c].key}]
<1>1. /\ command[c].pc = "read foundation" /\ command[c].key # Absent
      /\ UNCHANGED <<Live, project, registry, clean>>
  BY RecheckedWords
<1>2. CASE Ended(c)
  BY <1>1, <1>2, QuietEnd
<1>3. CASE Becomes(c, r)
  <2>1. CommandTyped(c) /\ KindRight(c) /\ SeenRight(c)
    BY <1>1, Knows
  <2>2. /\ r \in [pc : AuditPcs, kind : {"apply", "verify", "record"}, phase : 1..3,
                  key : {r.key}, loaded : Registry,
                  plan : SUBSET (Foundation \cup Keys), seen : {r.seen}]
        /\ r.loaded = command[c].loaded /\ r.seen = command[c].seen /\ r.pc = "apply"
        /\ r.kind = "apply"
    BY <1>1, <2>1 DEF CommandTyped, KindRight, AuditPcs
  <2> HIDE DEF r
  <2>3. command'[c] = r
    BY <1>3, NextIs
  <2>4. KindRight(c)' /\ ConcludesRight(c)'
    BY <2>2, <2>3 DEF KindRight, ConcludesRight
  <2>5. SeenRight(c)'
    <3>1. /\ command'[c].seen = command[c].seen /\ command'[c].loaded = command[c].loaded
          /\ command'[c].pc \notin Reached /\ command'[c].pc # "verify"
          /\ auditIssues' = auditIssues /\ content' = content /\ clean' = clean
      BY <1>1, <2>2, <2>3 DEF Reached, Live
    <3>2. command[c].pc \in AfterReading
      BY <1>1 DEF AfterReading
    <3>3. QED
      BY <2>1, <3>1, <3>2 DEF SeenRight
  <2>6. QED
    BY <1>1, <1>3, <2>2, <2>4, <2>5, GoesOn
<1>4. QED
  BY <1>2, <1>3, RecheckedWords

\* A command begins another round, or gives up.
LEMMA PhaseKeeps ==
    ASSUME AuditInv, NEW c \in Commands, PhaseEnded(c)
    PROVE  AuditInv'
<1> DEFINE r == [command[c] EXCEPT !.pc = "read", !.phase = @ + 1]
<1>1. command[c].pc = "apply" /\ UNCHANGED <<Live, project, registry, clean>>
  BY PhaseWords
<1>2. CASE Ended(c)
  BY <1>1, <1>2, QuietEnd
<1>3. CASE command[c].phase # 3 /\ Becomes(c, r)
  <2> DEFINE next == command[c].phase + 1
  <2>0. /\ command[c] \in [pc : {"apply"}, kind : {"apply"}, phase : 1..3, key : {command[c].key},
                            loaded : Registry, plan : SUBSET (Foundation \cup Keys),
                            seen : {command[c].seen}]
        /\ next \in 1..3
    BY <1>1, <1>3, Applying
  <2> HIDE DEF next
  <2>1. /\ r \in [pc : AuditPcs, kind : {"apply", "verify", "record"}, phase : 1..3,
                  key : {r.key}, loaded : Registry,
                  plan : SUBSET (Foundation \cup Keys), seen : {r.seen}]
        /\ r.loaded = command[c].loaded /\ r.pc = "read" /\ r.kind = "apply"
    <3>1. r = [command[c] EXCEPT !.pc = "read", !.phase = next]
      BY DEF next
    <3>2. QED
      BY <2>0, <3>1 DEF AuditPcs
  <2> HIDE DEF r
  <2>2. command'[c] = r
    BY <1>3, NextIs
  <2>3. KindRight(c)' /\ ConcludesRight(c)' /\ SeenRight(c)'
    BY <2>1, <2>2 DEF KindRight, ConcludesRight, SeenRight, AfterReading, Reached
  <2>4. QED
    BY <1>1, <1>3, <2>1, <2>3, GoesOn
<1>4. QED
  BY <1>2, <1>3, PhaseWords

\* The board has what was seen.
LEMMA ProjectKeeps ==
    ASSUME AuditInv, NEW c \in Commands, ProjectRead(c)
    PROVE  AuditInv'
<1> DEFINE r == [command[c] EXCEPT !.pc = "verify"]
<1>1. command[c].pc = "project" /\ UNCHANGED <<Live, project, registry, clean>>
  BY ProjectWords
<1>2. CASE Ended(c)
  BY <1>1, <1>2, QuietEnd
<1>3. CASE (\A k \in Keys : project[k] = NumberSeen(c, k)) /\ Becomes(c, r)
  <2>1. CommandTyped(c) /\ KindRight(c) /\ SeenRight(c) /\ ConcludesRight(c)
    BY <1>1, Knows
  <2>2. /\ r \in [pc : AuditPcs, kind : {"apply", "verify", "record"}, phase : 1..3,
                  key : {r.key}, loaded : Registry,
                  plan : SUBSET (Foundation \cup Keys), seen : {r.seen}]
        /\ r.loaded = command[c].loaded /\ r.seen = command[c].seen /\ r.pc = "verify"
        /\ r.kind = "verify" /\ r.plan = command[c].plan
    BY <1>1, <2>1 DEF CommandTyped, KindRight, AuditPcs
  <2> HIDE DEF r
  <2>3. command'[c] = r
    BY <1>3, NextIs
  <2>4. KindRight(c)'
    BY <2>2, <2>3 DEF KindRight
  <2>5. ConcludesRight(c)'
    BY <1>1, <2>1, <2>2, <2>3 DEF ConcludesRight, Declared, Live
  <2>6. SeenRight(c)'
    <3>1. /\ command'[c].seen = command[c].seen /\ command'[c].loaded = command[c].loaded
          /\ auditIssues' = auditIssues /\ content' = content /\ clean' = clean /\ project' = project
      BY <1>1, <2>2, <2>3 DEF Live
    <3>2. command[c].pc \in AfterReading /\ command[c].pc \in Reached
      BY <1>1 DEF AfterReading, Reached
    <3>3. \A k \in Keys : project[k] \in command[c].seen.issues[k]
      BY <1>3, <2>1, <3>2, NumberWords DEF SeenRight
    <3>4. QED
      BY <2>1, <3>1, <3>2, <3>3 DEF SeenRight
  <2>7. QED
    BY <1>1, <1>3, <2>2, <2>4, <2>5, <2>6, GoesOn
<1>4. QED
  BY <1>2, <1>3, ProjectWords

\* A registry that is written names what was seen; and what is on the board when
\* it says so.
LEMMA WrittenKeeps ==
    ASSUME AuditInv, NEW c \in Commands, command[c].pc \in {"write", "verify"}, Ended(c),
           UNCHANGED <<Live, project, clean>>, NEW reached \in {"APPLIED", "VERIFIED"},
           Writes(c, reached),
           reached = "VERIFIED" => \A k \in Keys : project[k] \in command[c].seen.issues[k]
    PROVE  /\ AuditInv'
           /\ registry'.sync_state = reached
           /\ reached = "VERIFIED" => \A k \in Keys : project[k] = registry'.numbers[k]
<1>1. CommandTyped(c) /\ SeenRight(c) /\ AuditTyped
  BY Knows DEF AuditInv
<1>2. command[c].pc \in AfterReading /\ command[c].pc \in Reached
  BY DEF AfterReading, Reached
<1>3. \A k \in Keys : /\ NumberSeen(c, k) \in command[c].seen.issues[k]
                      /\ command[c].seen.issues[k] \subseteq auditIssues[k]
                      /\ \A m, n \in command[c].seen.issues[k] : m = n
  BY <1>1, <1>2, NumberWords DEF SeenRight
<1>4. \A k \in Keys : NumberSeen(c, k) \in Nat /\ NumberSeen(c, k) \in auditIssues[k]
  BY <1>1, <1>3 DEF AuditTyped
<1> DEFINE seen == [k \in Keys |-> NumberSeen(c, k)]
<1>5. command[c].loaded \in Registry
  BY <1>1 DEF CommandTyped
<1>6. registry' = [command[c].loaded EXCEPT !.sync_state = reached, !.numbers = seen]
  BY DEF Writes
<1>7. seen \in [Keys -> Nat] /\ \A k \in Keys : seen[k] = NumberSeen(c, k)
  BY <1>4
<1> HIDE DEF seen
<1>8. registry' \in Registry /\ registry'.sync_state = reached /\ registry'.numbers = seen
  BY <1>5, <1>6, <1>7 DEF Registry, SyncStates
<1>9. reached = "VERIFIED" => \A k \in Keys : project[k] = registry'.numbers[k]
  BY <1>3, <1>7, <1>8
<1>10. Names(registry)' /\ OnBoard(registry)'
  BY <1>4, <1>7, <1>8, <1>9 DEF Names, OnBoard, Live
<1>11. /\ command' = [d \in Commands |-> command'[d]]
       /\ \A d \in Commands : d # c => command'[d] = command[d]
  BY EndedKnowsNothing, NextIs
<1>12. AuditTyped'
  BY <1>1, <1>8, <1>11 DEF AuditTyped, Live
<1>13. \A d \in Commands : Benign(d)
  BY DEF Benign, Live
<1>14. CommandInv(c)'
  BY EndedKnowsNothing
<1>15. QED
  BY <1>8, <1>9, <1>10, <1>11, <1>12, <1>13, <1>14, OneSteps

\* Apply ends with what it reached in the registry; everything is as declared,
\* unless somebody edited.
LEMMA AppliedWrittenKeeps ==
    ASSUME AuditInv, NEW c \in Commands, AppliedWritten(c)
    PROVE  /\ AuditInv'
           /\ clean[c] = TRUE => Declared
           /\ registry'.sync_state = "VERIFIED" => \A k \in Keys : project[k] = registry'.numbers[k]
<1>1. command[c].pc = "write" /\ Ended(c) /\ UNCHANGED <<Live, project, clean>>
  BY AppliedWords
<1>2. CommandTyped(c) /\ KindRight(c) /\ SeenRight(c) /\ ConcludesRight(c)
  BY <1>1, Knows
<1>3. clean[c] = TRUE => Declared
  BY <1>1, <1>2 DEF KindRight, ConcludesRight
<1>4. CASE command[c].loaded.sync_state = "VERIFIED" /\ Writes(c, "VERIFIED")
  <2>1. \A k \in Keys : project[k] \in command[c].seen.issues[k]
    BY <1>1, <1>2, <1>4 DEF CommandTyped, OnBoard, SeenRight, AfterReading
  <2>2. QED
    BY <1>1, <1>3, <1>4, <2>1, WrittenKeeps
<1>5. CASE Writes(c, "APPLIED")
  BY <1>1, <1>3, <1>5, WrittenKeeps
<1>6. QED
  BY <1>4, <1>5, AppliedWords

\* Verify likewise, or it leaves the registry.
LEMMA VerifiedKeeps ==
    ASSUME AuditInv, NEW c \in Commands, Verified(c)
    PROVE  /\ AuditInv'
           /\ \/ UNCHANGED registry
              \/ /\ clean[c] = TRUE => Declared
                 /\ \A k \in Keys : project[k] = registry'.numbers[k]
<1>1. command[c].pc = "verify" /\ Ended(c) /\ UNCHANGED <<Live, project, clean>>
  BY VerifiedWords
<1>2. SeenRight(c) /\ ConcludesRight(c)
  BY <1>1, Knows
<1>3. CASE UNCHANGED registry
  BY <1>1, <1>3, QuietEnd
<1>4. CASE command[c].plan = {} /\ Writes(c, "VERIFIED")
  <2>1. clean[c] = TRUE => Declared
    BY <1>1, <1>2, <1>4 DEF ConcludesRight
  <2>2. \A k \in Keys : project[k] \in command[c].seen.issues[k]
    BY <1>1, <1>2 DEF SeenRight
  <2>3. QED
    BY <1>1, <1>4, <2>1, <2>2, WrittenKeeps
<1>5. QED
  BY <1>3, <1>4, VerifiedWords

\* People may do what they do to any command.
LEMMA PeopleKeep ==
    ASSUME AuditInv, Edited \/ Placed \/ ViewsSet
    PROVE  AuditInv' /\ registry'.sync_state = registry.sync_state /\ registry'.numbers = registry.numbers
<1>1. AuditTyped /\ Names(registry) /\ OnBoard(registry)
  BY DEF AuditInv
<1>2. ASSUME command' = command, \A c \in Commands : Benign(c) PROVE \A c \in Commands : CommandInv(c)'
  BY <1>1, <1>2, OthersKeep DEF AuditInv
<1>3. CASE Edited
  <2>1. /\ clean' = [c \in Commands |-> FALSE]
        /\ \/ /\ \E f \in Foundation : foundation' = [foundation EXCEPT ![f] = "other"]
              /\ UNCHANGED content
           \/ /\ \E k \in Keys : content' = [content EXCEPT ![k] = "other"]
              /\ UNCHANGED foundation
        /\ UNCHANGED <<auditIssues, numbers, project, registry, command>>
    BY <1>3, PeopleWords
  <2>2. \A c \in Commands : Benign(c)
    BY <2>1 DEF Benign
  <2>3. clean' \in [Commands -> BOOLEAN]
    BY <2>1
  <2>4. AuditTyped'
    BY <1>1, <2>1, <2>3 DEF AuditTyped
  <2>5. Names(registry)' /\ OnBoard(registry)'
    BY <1>1, <2>1 DEF Names, OnBoard
  <2>6. QED
    BY <1>2, <2>1, <2>2, <2>4, <2>5 DEF AuditInv
<1>4. CASE Placed
  <2>1. PICK k \in Keys : \E n \in auditIssues[k] :
           project[k] = 0 /\ project' = [project EXCEPT ![k] = n]
    BY <1>4, PeopleWords
  <2>2. PICK n \in auditIssues[k] : project[k] = 0 /\ project' = [project EXCEPT ![k] = n]
    BY <2>1
  <2>3. UNCHANGED <<Live, registry, command, clean>>
    BY <1>4, PeopleWords
  <2>4. \A j \in Keys : project'[j] = project[j] \/ project[j] = 0
    BY <1>1, <2>2 DEF AuditTyped
  <2>5. \A c \in Commands : Benign(c)
    BY <2>3, <2>4 DEF Benign, Live
  <2>6. n \in 0..numbers
    BY <1>1 DEF AuditTyped
  <2>7. AuditTyped'
    BY <1>1, <2>2, <2>3, <2>6 DEF AuditTyped, Live
  <2>8. Names(registry)' /\ OnBoard(registry)'
    <3>1. \A j \in Keys : 0 \notin auditIssues[j]
      BY <1>1 DEF AuditTyped
    <3>2. QED
      BY <1>1, <2>3, <2>4, <3>1 DEF Names, OnBoard, Live
  <2>9. QED
    BY <1>2, <2>3, <2>5, <2>7, <2>8 DEF AuditInv
<1>5. CASE ViewsSet
  <2>1. /\ registry' = [registry EXCEPT !.views = TRUE]
        /\ UNCHANGED <<Live, project, command, clean>>
    BY <1>5, PeopleWords
  <2>2. \A c \in Commands : Benign(c)
    BY <2>1 DEF Benign, Live
  <2>3. registry' \in Registry /\ registry'.sync_state = registry.sync_state /\ registry'.numbers = registry.numbers
    BY <1>1, <2>1 DEF AuditTyped, Registry
  <2>4. AuditTyped'
    BY <1>1, <2>1, <2>3 DEF AuditTyped, Live
  <2>5. Names(registry)' /\ OnBoard(registry)'
    BY <1>1, <2>1, <2>3 DEF Names, OnBoard, Live
  <2>6. QED
    BY <1>2, <2>1, <2>2, <2>3, <2>4, <2>5 DEF AuditInv
<1>6. QED
  BY <1>3, <1>4, <1>5

\* Every step keeps what is known, and a step that writes the registry finds
\* everything as declared, unless somebody edited.
LEMMA AuditStepKeeps ==
    ASSUME AuditInv, Audit!Next
    PROVE  /\ AuditInv'
           /\ \/ registry'.sync_state = registry.sync_state /\ registry'.numbers = registry.numbers
              \/ \E c \in Commands : command'[c] # command[c] /\ clean[c] = FALSE
              \/ /\ Declared
                 /\ registry'.sync_state = "VERIFIED" => \A k \in Keys : project[k] = registry'.numbers[k]
<1> DEFINE Right ==
        \/ registry'.sync_state = registry.sync_state /\ registry'.numbers = registry.numbers
        \/ \E c \in Commands : command'[c] # command[c] /\ clean[c] = FALSE
        \/ /\ Declared
           /\ registry'.sync_state = "VERIFIED" => \A k \in Keys : project[k] = registry'.numbers[k]
<1>1. ASSUME NEW c \in Commands, command[c].pc # "idle", Ended(c)
      PROVE  /\ command'[c] # command[c] /\ clean[c] \in BOOLEAN
    BY <1>1, EndedKnowsNothing DEF AuditInv, AuditTyped
<1>2. ASSUME NEW c \in Commands, CommandMoves(c)
      PROVE  AuditInv' /\ Right
  <2>1. CASE Started(c)
    BY <2>1, StartedKeeps, StartedWords, Zenon
  <2>2. CASE IssuesRead(c)
    BY <2>2, IssuesReadKeeps, IssuesReadWords, Zenon
  <2>3. CASE FoundationRead(c)
    BY <2>3, FoundationReadKeeps, FoundationReadWords, Zenon
  <2>4. CASE Mutated(c)
    BY <2>4, MutatedKeeps, MutatedWords, Zenon
  <2>5. CASE MutatedUnheard(c)
    BY <2>5, UnheardKeeps, UnheardWords, Zenon
  <2>6. CASE Rechecked(c)
    BY <2>6, RecheckedKeeps, RecheckedWords, Zenon
  <2>7. CASE PhaseEnded(c)
    BY <2>7, PhaseKeeps, PhaseWords, Zenon
  <2>8. CASE AppliedWritten(c)
    <3>1. command[c].pc = "write" /\ Ended(c)
      BY <2>8, AppliedWords
    <3>2. clean[c] = TRUE \/ (clean[c] = FALSE /\ command'[c] # command[c])
      BY <1>1, <3>1
    <3>3. /\ AuditInv' /\ (clean[c] = TRUE => Declared)
          /\ registry'.sync_state = "VERIFIED" => \A k \in Keys : project[k] = registry'.numbers[k]
      BY <2>8, AppliedWrittenKeeps
    <3>4. QED
      BY <3>2, <3>3
  <2>9. CASE ProjectRead(c)
    BY <2>9, ProjectKeeps, ProjectWords, Zenon
  <2>10. CASE Verified(c)
    <3>1. command[c].pc = "verify" /\ Ended(c)
      BY <2>10, VerifiedWords
    <3>2. clean[c] = TRUE \/ (clean[c] = FALSE /\ command'[c] # command[c])
      BY <1>1, <3>1
    <3>3. /\ AuditInv'
          /\ \/ UNCHANGED registry
             \/ /\ clean[c] = TRUE => Declared
                /\ \A k \in Keys : project[k] = registry'.numbers[k]
      BY <2>10, VerifiedKeeps
    <3>4. QED
      BY <3>2, <3>3
  <2>11. CASE Killed(c)
    <3>1. Ended(c) /\ UNCHANGED <<Live, project, registry, clean>>
      BY <2>11, KilledWords
    <3>2. QED
      BY <3>1, QuietEnd
  <2>12. QED
    BY <1>2, <2>1, <2>2, <2>3, <2>4, <2>5, <2>6, <2>7, <2>8, <2>9, <2>10, <2>11 DEF CommandMoves
<1>3. CASE PeopleAct
  BY <1>3, PeopleKeep DEF PeopleAct
<1> HIDE DEF Right
<1>4. (\E c \in Commands : CommandMoves(c)) \/ PeopleAct
  BY AuditSteps, Zenon
<1>5. CASE \E c \in Commands : CommandMoves(c)
  <2>1. PICK c \in Commands : CommandMoves(c)
    BY <1>5, Zenon
  <2>2. QED
    BY <1>2, <2>1, Zenon DEF Right
<1>6. CASE PeopleAct
  BY <1>3, <1>6, Zenon DEF Right
<1>7. QED
  BY <1>4, <1>5, <1>6, Zenon

\* Nothing else changes what is known.
LEMMA AuditRests ==
    ASSUME AuditInv, UNCHANGED ofAudit
    PROVE  AuditInv'
<1>1. UNCHANGED <<foundation, auditIssues, content, numbers, project, registry, command, clean>>
  BY DEF ofAudit
<1>2. \A c \in Commands : Benign(c)
  BY <1>1 DEF Benign
<1>3. \A c \in Commands : CommandInv(c)'
  BY <1>1, <1>2, OthersKeep DEF AuditInv
<1>4. AuditTyped'
  BY <1>1 DEF AuditInv, AuditTyped
<1>5. Names(registry)' /\ OnBoard(registry)'
  BY <1>1 DEF AuditInv, Names, OnBoard
<1>6. QED
  BY <1>3, <1>4, <1>5 DEF AuditInv

\* The tracker is used, or rests, in every step.
LEMMA AuditAmongThem ==
    ASSUME [MCNext]_all
    PROVE  (tool = "audit" /\ Audit!Next) \/ UNCHANGED ofAudit
  BY DEF MCNext, CloseoutStep, AuditStep, ReleaseStep, all

\* The invariant holds of every behaviour.
LEMMA AuditSafe == MCSpec => []AuditInv
<1>1. MCInit => AuditInv
  BY AuditInit, Zenon DEF MCInit, AuditAtRest
<1>2. AuditInv /\ [MCNext]_all => AuditInv'
  BY AuditAmongThem, AuditStepKeeps, AuditRests
<1>3. QED
  BY <1>1, <1>2, PTL DEF MCSpec

\* Whenever the audit tracker writes the registry and nobody has edited since it
\* began, labels, milestones and issues are as declared, and for VERIFIED the
\* board has the numbers that are written; with any number of commands at the
\* same time (audit_tracker.py apply and verify).
THEOREM TheRegistryIsTrue == MCSpec => AuditWritesWhatIs
<1> DEFINE Wrote == registry'.numbers # registry.numbers \/ registry'.sync_state # registry.sync_state
<1> DEFINE Right ==
        \/ \E c \in Commands : command'[c] # command[c] /\ ~ clean[c]
        \/ /\ Audit!InSync
           /\ registry'.sync_state = "VERIFIED" => \A k \in Keys : project[k] = registry'.numbers[k]
<1>1. Declared => Audit!InSync
  BY Zenon DEF Declared, Audit!InSync
<1>2. ASSUME NEW c, clean[c] = FALSE PROVE ~ clean[c]
  BY <1>2
<1>3. AuditInv /\ [MCNext]_all => [Wrote => Right]_<<Live, project, registry, command, faults, auditEdits, clean>>
  <2>1. SUFFICES ASSUME AuditInv, [MCNext]_all, Wrote PROVE Right
    OBVIOUS
  <2>2. Audit!Next
    BY <2>1, AuditAmongThem DEF ofAudit
  <2>3. QED
    BY <1>1, <1>2, <2>1, <2>2, AuditStepKeeps, Zenon
<1>4. QED
  BY <1>3, AuditSafe, PTL DEF MCSpec, AuditWritesWhatIs, Audit!WritesWhatIs, Audit!vars, Audit!live, Live

(***************************************************************************)
(* One command at a time.  Two of them could both see that an issue is     *)
(* missing and both create it: nothing in the code keeps them apart.  A    *)
(* single one plans with what is there, because nobody else creates        *)
(* issues, and reads again whenever an answer is lost.                     *)
(***************************************************************************)
OneCommand == \A c, d \in Commands : c = d

OnceEach == \A k \in Keys : \A m, n \in auditIssues[k] : m = n

PlansWithWhatIs(c) ==
    /\ command[c].pc = "read foundation" =>
          \A k \in Keys : command[c].seen.issues[k] = auditIssues[k]
    /\ command[c].pc = "apply" =>
          \A k \in Keys : k \in command[c].plan => command[c].seen.issues[k] = auditIssues[k]

OnceInv ==
    /\ OnceEach
    /\ registry.sync_state = "PLANNED" => registry.numbers = [k \in Keys |-> 0]
    /\ \A c \in Commands : PlansWithWhatIs(c)

\* As long as no issue is created, a command plans with what it has just read.
LEMMA OnceStays ==
    ASSUME OneCommand, OnceInv, auditIssues' = auditIssues, NEW c \in Commands,
           PlansWithWhatIs(c)',
           \/ UNCHANGED registry
           \/ registry'.sync_state \in {"APPLIED", "VERIFIED"}
    PROVE  OnceInv'
<1>1. \A d \in Commands : PlansWithWhatIs(d)'
  BY DEF OneCommand
<1>2. OnceEach' /\ (registry'.sync_state = "PLANNED" => registry'.numbers = [k \in Keys |-> 0])
  BY DEF OnceInv, OnceEach
<1>3. QED
  BY <1>1, <1>2 DEF OnceInv

\* The registry that is written is beyond PLANNED.
LEMMA WritesBeyondPlanned ==
    ASSUME AuditInv, NEW c \in Commands, command[c].pc # "idle",
           NEW reached \in {"APPLIED", "VERIFIED"}, Writes(c, reached)
    PROVE  registry'.sync_state \in {"APPLIED", "VERIFIED"}
<1>1. command[c].loaded \in Registry
  BY Knows DEF CommandTyped
<1>2. QED
  BY <1>1 DEF Writes, Registry

\* A mutation creates an issue only where there is none.
LEMMA OnceApplied ==
    ASSUME OneCommand, AuditInv, OnceInv, NEW c \in Commands, command[c].pc = "apply",
           NEW k \in command[c].plan, AppliedTo(c, k) \/ UNCHANGED Live, UNCHANGED registry,
           NEW r, Becomes(c, r),
           r.pc = "read" \/ (r.pc = "apply" /\ r.plan = command[c].plan \ {k} /\ r.seen = command[c].seen)
    PROVE  OnceInv'
<1>1. /\ \A j \in Keys : j # k => auditIssues'[j] = auditIssues[j]
      /\ k \in Keys => auditIssues'[k] = auditIssues[k]
                       \/ (command[c].seen.issues[k] = {} /\ auditIssues'[k] = auditIssues[k] \cup {numbers + 1})
  <2>1. auditIssues = [j \in Keys |-> auditIssues[j]]
    BY DEF AuditInv, AuditTyped
  <2>2. CASE auditIssues' = auditIssues
    BY <2>2
  <2>3. CASE command[c].seen.issues[k] = {} /\ auditIssues' = [auditIssues EXCEPT ![k] = @ \cup {numbers + 1}]
    BY <2>1, <2>3
  <2>4. QED
    BY <2>2, <2>3 DEF AppliedTo, Live
<1>2. k \in Keys => auditIssues[k] = command[c].seen.issues[k]
  BY DEF OnceInv, PlansWithWhatIs
<1>3. OnceEach'
  BY <1>1, <1>2 DEF OnceInv, OnceEach
<1>4. command'[c] = r
  BY NextIs
<1>5. PlansWithWhatIs(c)'
  BY <1>1, <1>4 DEF OnceInv, PlansWithWhatIs
<1>6. \A d \in Commands : PlansWithWhatIs(d)'
  BY <1>5 DEF OneCommand
<1>7. QED
  BY <1>3, <1>6 DEF OnceInv

\* Every step of the command keeps it.
LEMMA OnceCommand ==
    ASSUME OneCommand, AuditInv, OnceInv, NEW c \in Commands, CommandMoves(c)
    PROVE  OnceInv'
<1>1. ASSUME Ended(c) PROVE PlansWithWhatIs(c)'
  <2>1. command'[c].pc = "idle"
    BY <1>1, EndedKnowsNothing
  <2>2. QED
    BY <2>1 DEF PlansWithWhatIs
<1>2. command[c].pc # "idle" => CommandTyped(c)
  BY Knows
<1>3. CASE Started(c)
  <2>1. PICK kind \in {"apply", "verify"} :
            Becomes(c, [pc |-> "read", kind |-> kind, phase |-> 1, key |-> Absent,
                        loaded |-> registry, plan |-> {}, seen |-> Absent])
    BY <1>3, StartedWords
  <2>2. command'[c].pc = "read"
    BY <2>1, NextIs
  <2>3. PlansWithWhatIs(c)' /\ auditIssues' = auditIssues /\ UNCHANGED registry
    BY <1>3, <2>2, StartedWords DEF PlansWithWhatIs, Live
  <2>4. QED
    BY <2>3, OnceStays
<1>4. CASE IssuesRead(c)
  <2> DEFINE r == [command[c] EXCEPT !.pc = "read foundation",
                                     !.seen = [issues |-> auditIssues, content |-> content]]
  <2>1. command[c].pc = "read" /\ auditIssues' = auditIssues /\ UNCHANGED registry
    BY <1>4, IssuesReadWords DEF Live
  <2>2. CASE Becomes(c, r)
    <3>1. /\ r.pc = "read foundation" /\ r.seen = [issues |-> auditIssues, content |-> content]
      BY <1>2, <2>1 DEF CommandTyped
    <3>2. command'[c] = r
      BY <2>2, NextIs
    <3>3. [issues |-> auditIssues, content |-> content].issues = auditIssues
      OBVIOUS
    <3>4. command'[c].seen.issues = auditIssues /\ command'[c].pc = "read foundation"
      BY <3>1, <3>2, <3>3, Zenon
    <3>5. PlansWithWhatIs(c)'
      BY <2>1, <3>4 DEF PlansWithWhatIs
    <3>6. QED
      BY <2>1, <3>5, OnceStays
  <2>3. CASE Ended(c)
    BY <1>1, <2>1, <2>3, OnceStays
  <2>4. QED
    BY <1>4, <2>2, <2>3, IssuesReadWords
<1>5. CASE FoundationRead(c)
  <2>1. command[c].pc = "read foundation" /\ auditIssues' = auditIssues /\ UNCHANGED registry
    BY <1>5, FoundationReadWords DEF Live
  <2>2. ASSUME NEW r, Becomes(c, r),
               r.pc \in {"project", "write", "read"} \/ (r.pc = "apply" /\ r.seen = command[c].seen)
        PROVE  OnceInv'
    <3>1. command'[c] = r
      BY <2>2, NextIs
    <3>2. PlansWithWhatIs(c)'
      BY <2>1, <2>2, <3>1 DEF OnceInv, PlansWithWhatIs
    <3>3. QED
      BY <2>1, <3>2, OnceStays
  <2>3. CASE Ended(c)
    BY <1>1, <2>1, <2>3, OnceStays
  <2>4. command[c] \in [pc : AuditPcs, kind : {"apply", "verify", "record"}, phase : 1..3,
                        key : {command[c].key}, loaded : Registry,
                        plan : SUBSET (Foundation \cup Keys), seen : {command[c].seen}]
    BY <1>2, <2>1 DEF CommandTyped
  <2>5. CASE Becomes(c, [command[c] EXCEPT !.plan = PlanOf(c), !.pc = "project"])
    <3>1. [command[c] EXCEPT !.plan = PlanOf(c), !.pc = "project"].pc = "project"
      BY <2>4
    <3>2. QED
      BY <2>2, <2>5, <3>1
  <2>6. CASE Becomes(c, [command[c] EXCEPT !.plan = PlanOf(c), !.pc = "write"])
    <3>1. [command[c] EXCEPT !.plan = PlanOf(c), !.pc = "write"].pc = "write"
      BY <2>4
    <3>2. QED
      BY <2>2, <2>6, <3>1
  <2>7. CASE Becomes(c, [command[c] EXCEPT !.plan = PlanOf(c), !.kind = "record", !.pc = "read"])
    <3>1. [command[c] EXCEPT !.plan = PlanOf(c), !.kind = "record", !.pc = "read"].pc = "read"
      BY <2>4
    <3>2. QED
      BY <2>2, <2>7, <3>1
  <2>8. CASE Becomes(c, [command[c] EXCEPT !.plan = PlanOf(c), !.pc = "apply"])
    <3>1. /\ [command[c] EXCEPT !.plan = PlanOf(c), !.pc = "apply"].pc = "apply"
          /\ [command[c] EXCEPT !.plan = PlanOf(c), !.pc = "apply"].seen = command[c].seen
      BY <2>4
    <3>2. QED
      BY <2>2, <2>8, <3>1
  <2>9. command[c].kind \in {"verify", "record", "apply"}
    BY <2>4
  <2>10. QED
    BY <1>5, <2>3, <2>5, <2>6, <2>7, <2>8, <2>9, FoundationReadWords
<1>6. CASE Mutated(c)
  <2>1. command[c].pc = "apply" /\ UNCHANGED registry
    BY <1>6, MutatedWords
  <2>2. PICK k \in command[c].plan : AppliedTo(c, k) /\ Becomes(c, [command[c] EXCEPT !.plan = @ \ {k}])
    BY <1>6, MutatedWords
  <2> DEFINE r == [command[c] EXCEPT !.plan = @ \ {k}]
  <2>3. r.pc = "apply" /\ r.plan = command[c].plan \ {k} /\ r.seen = command[c].seen
    BY <2>1, Applying
  <2> HIDE DEF r
  <2>4. QED
    BY <2>1, <2>2, <2>3, OnceApplied DEF r
<1>7. CASE MutatedUnheard(c)
  <2>1. command[c].pc = "apply" /\ UNCHANGED registry
    BY <1>7, UnheardWords
  <2>2. PICK k \in command[c].plan : /\ AppliedTo(c, k) \/ UNCHANGED Live
                                     /\ Becomes(c, [command[c] EXCEPT !.pc = "read", !.key = k])
    BY <1>7, UnheardWords
  <2> DEFINE r == [command[c] EXCEPT !.pc = "read", !.key = k]
  <2>3. r.pc = "read"
    BY <2>1, Applying
  <2> HIDE DEF r
  <2>4. QED
    BY <2>1, <2>2, <2>3, OnceApplied DEF r
<1>8. CASE Rechecked(c)
  <2> DEFINE r == [command[c] EXCEPT !.pc = "apply", !.key = Absent, !.plan = @ \ {command[c].key}]
  <2>1. command[c].pc = "read foundation" /\ auditIssues' = auditIssues /\ UNCHANGED registry
    BY <1>8, RecheckedWords DEF Live
  <2>2. CASE Ended(c)
    BY <1>1, <2>1, <2>2, OnceStays
  <2>3. CASE Becomes(c, r)
    <3>1. r.pc = "apply" /\ r.seen = command[c].seen
      BY <1>2, <2>1 DEF CommandTyped
    <3>2. command'[c] = r
      BY <2>3, NextIs
    <3> HIDE DEF r
    <3>3. PlansWithWhatIs(c)'
      BY <2>1, <3>1, <3>2 DEF OnceInv, PlansWithWhatIs
    <3>4. QED
      BY <2>1, <3>3, OnceStays
  <2>4. QED
    BY <1>8, <2>2, <2>3, RecheckedWords
<1>9. CASE PhaseEnded(c)
  <2> DEFINE r == [command[c] EXCEPT !.pc = "read", !.phase = @ + 1]
  <2>1. command[c].pc = "apply" /\ auditIssues' = auditIssues /\ UNCHANGED registry
    BY <1>9, PhaseWords DEF Live
  <2>2. CASE Ended(c)
    BY <1>1, <2>1, <2>2, OnceStays
  <2>3. CASE Becomes(c, r)
    <3>1. r.pc = "read"
      BY <2>1, Applying
    <3>2. command'[c] = r
      BY <2>3, NextIs
    <3> HIDE DEF r
    <3>3. PlansWithWhatIs(c)'
      BY <3>1, <3>2 DEF PlansWithWhatIs
    <3>4. QED
      BY <2>1, <3>3, OnceStays
  <2>4. QED
    BY <1>9, <2>2, <2>3, PhaseWords
<1>10. CASE AppliedWritten(c)
  <2>1. command[c].pc = "write" /\ Ended(c) /\ auditIssues' = auditIssues
    BY <1>10, AppliedWords DEF Live
  <2>2. registry'.sync_state \in {"APPLIED", "VERIFIED"}
    BY <1>10, <2>1, AppliedWords, WritesBeyondPlanned
  <2>3. QED
    BY <1>1, <2>1, <2>2, OnceStays
<1>11. CASE ProjectRead(c)
  <2> DEFINE r == [command[c] EXCEPT !.pc = "verify"]
  <2>1. command[c].pc = "project" /\ auditIssues' = auditIssues /\ UNCHANGED registry
    BY <1>11, ProjectWords DEF Live
  <2>2. CASE Ended(c)
    BY <1>1, <2>1, <2>2, OnceStays
  <2>3. CASE Becomes(c, r)
    <3>1. r.pc = "verify"
      BY <1>2, <2>1 DEF CommandTyped
    <3>2. command'[c] = r
      BY <2>3, NextIs
    <3> HIDE DEF r
    <3>3. PlansWithWhatIs(c)'
      BY <3>1, <3>2 DEF PlansWithWhatIs
    <3>4. QED
      BY <2>1, <3>3, OnceStays
  <2>4. QED
    BY <1>11, <2>2, <2>3, ProjectWords
<1>12. CASE Verified(c)
  <2>1. command[c].pc = "verify" /\ Ended(c) /\ auditIssues' = auditIssues
    BY <1>12, VerifiedWords DEF Live
  <2>2. UNCHANGED registry \/ registry'.sync_state \in {"APPLIED", "VERIFIED"}
    BY <1>12, <2>1, VerifiedWords, WritesBeyondPlanned
  <2>3. QED
    BY <1>1, <2>1, <2>2, OnceStays
<1>13. CASE Killed(c)
  <2>1. Ended(c) /\ auditIssues' = auditIssues /\ UNCHANGED registry
    BY <1>13, KilledWords DEF Live
  <2>2. QED
    BY <1>1, <2>1, OnceStays
<1>14. QED
  BY <1>3, <1>4, <1>5, <1>6, <1>7, <1>8, <1>9, <1>10, <1>11, <1>12, <1>13 DEF CommandMoves

\* People create no issues.
LEMMA OnceNext ==
    ASSUME OneCommand, AuditInv, OnceInv, [MCNext]_all
    PROVE  OnceInv'
<1>1. ASSUME auditIssues' = auditIssues, command' = command,
             registry'.sync_state = registry.sync_state, registry'.numbers = registry.numbers
      PROVE  OnceInv'
  BY <1>1 DEF OnceInv, OnceEach, PlansWithWhatIs
<1>2. CASE UNCHANGED ofAudit
  BY <1>1, <1>2 DEF ofAudit
<1>3. CASE tool = "audit" /\ Audit!Next
  <2>1. (\E c \in Commands : CommandMoves(c)) \/ PeopleAct
    BY <1>3, AuditSteps, Zenon
  <2>2. CASE \E c \in Commands : CommandMoves(c)
    BY <2>2, OnceCommand, Zenon
  <2>3. CASE PeopleAct
    <3>1. registry'.sync_state = registry.sync_state /\ registry'.numbers = registry.numbers
      BY <2>3, PeopleKeep, Zenon DEF PeopleAct
    <3>2. auditIssues' = auditIssues /\ command' = command
      BY <2>3, PeopleWords, Zenon DEF PeopleAct, Live
    <3>3. QED
      BY <1>1, <3>1, <3>2, Zenon
  <2>4. QED
    BY <2>1, <2>2, <2>3, Zenon
<1>4. QED
  BY <1>2, <1>3, AuditAmongThem, Zenon

\* With one command at a time, no finding gets a second issue and a registry
\* beyond PLANNED names the issue of every finding.
LEMMA OneOfEachFinding == AuditInv /\ OnceInv => Audit!OneIssuePerKey /\ Audit!NumbersAreRight
<1>1. SUFFICES ASSUME AuditInv, OnceInv PROVE Audit!OneIssuePerKey /\ Audit!NumbersAreRight
  OBVIOUS
<1>2. Audit!OneIssuePerKey
  BY <1>1 DEF OnceInv, OnceEach, Audit!OneIssuePerKey
<1>3. registry.sync_state # "PLANNED" => \A k \in Keys : auditIssues[k] = {registry.numbers[k]}
  BY <1>1 DEF AuditInv, OnceInv, OnceEach, Names
<1>4. Audit!NumbersAreRight
  BY <1>1, <1>3 DEF OnceInv, Audit!NumbersAreRight
<1>5. QED
  BY <1>2, <1>4, Zenon

\* Whatever answers are lost, whatever is killed and however often a command is
\* repeated: no second issue or reply for a review thread, no second issue for
\* an audit finding and every number the registry has is right, when one tracker
\* runs at a time (review_closeout.py, audit_github.py).
THEOREM NothingIsDoneTwice == OneCommand => (MCSpec => []NothingTwice)
<1> SUFFICES ASSUME OneCommand PROVE MCSpec => []NothingTwice
  OBVIOUS
<1>1. MCInit => OnceInv
  <2>1. SUFFICES ASSUME MCInit PROVE OnceInv
    OBVIOUS
  <2>2. Audit!Init
    BY <2>1, Zenon DEF MCInit, AuditAtRest
  <2>3. /\ auditIssues = [k \in Keys |-> {}]
        /\ registry = [sync_state |-> "PLANNED", numbers |-> [k \in Keys |-> 0], views |-> FALSE]
        /\ command = [c \in Commands |-> [pc |-> "idle"]]
    BY <2>2, Zenon DEF Audit!Init, Audit!Idle
  <2>4. OnceEach /\ \A c \in Commands : PlansWithWhatIs(c)
    BY <2>3 DEF OnceEach, PlansWithWhatIs
  <2>5. registry.numbers = [k \in Keys |-> 0]
    BY <2>3
  <2>6. QED
    BY <2>4, <2>5 DEF OnceInv
<1>2. AuditInv /\ OnceInv /\ [MCNext]_all => OnceInv'
  BY OnceNext
<1>3. CloseoutInv /\ AuditInv /\ OnceInv => NothingTwice
  BY OneOfEach, OneOfEachFinding, Zenon DEF NothingTwice
<1>4. QED
  BY <1>1, <1>2, <1>3, AuditSafe, CloseoutAmongThem, CloseoutSafe, PTL DEF MCSpec

-----------------------------------------------------------------------------
(***************************************************************************)
(* The revalidation release.  Documents of a run only advance while a      *)
(* finalization is under way: a copy is not newer than the digest, and the *)
(* digest not newer than the document, so a copy that equals the document  *)
(* at packaging has its digest.                                            *)
(***************************************************************************)
States == {"BENCHMARKED", "REPORTED"}
Outcome == [status : {"MEASURED", "PARTIAL"}, verdicts : SUBSET (1..Slots)]
Manifest == [of : Nat, state : States]
Result == [of : Nat, state : States, outcome : Outcome]
Claim == [manifest : Manifest, results : Result]
Row == [state : {"COMPLETE", "INCOMPLETE"}, why : {None, "incomplete", "no run"},
        source : Runs \cup {None}, digests : Claim \cup {None}]

(* d is the document e, or what e was before it was reported. *)
Before(d, e) ==
    d = e \/ (d = [e EXCEPT !.state = "BENCHMARKED"] /\ e.state = "REPORTED")

Fully(results, k) == results.outcome.status = "MEASURED" /\ k \in results.outcome.verdicts

There(r) == run[r].manifest \in Manifest /\ run[r].results \in Result

RunsRight ==
    /\ measured \in [Runs -> Nat] /\ \A r \in Runs : measured[r] <= Measurements[r]
    /\ run \in [Runs -> [manifest : Manifest \cup {None}, results : Result \cup {None}]]
    /\ \A r \in Runs :
          /\ run[r].manifest # None => run[r].manifest.of = measured[r]
          /\ run[r].results # None => run[r].manifest # None /\ run[r].results.of = measured[r]

Making == {"choose", "load", "copy manifest", "copy results", "hash manifest", "hash results"}
OnSlot == {"load", "copy manifest", "copy results", "hash manifest", "hash results"}
Copied == {"copy results", "hash manifest", "hash results"}
Ending == {"report", "sums", "check", "package"}

BuildTyped ==
    /\ build \in [pc : {"idle", "reset"} \cup Making \cup Ending, slot : 1..(Slots + 1),
                  chosen : Runs \cup {None}, why : {None, "incomplete", "no run"},
                  loaded : {build.loaded}, hashed : {build.hashed}, rows : Seq(Row)]
    /\ out \in [claims : {out.claims}, results : {out.results}, report : {"absent", "part", "whole"},
                sums : SUBSET (1..Slots)]
    /\ out.claims = [k \in DOMAIN out.claims |-> out.claims[k]] /\ DOMAIN out.claims \subseteq 1..Slots
    /\ kills \in 0..Kills /\ Len(build.rows) <= Slots

(* A row says whether it is complete, and what it was taken from. *)
RowExplained(row) == (row.why = None) <=> (row.state = "COMPLETE")

RowRight(k) ==
    LET row == build.rows[k] IN
    row.source # None =>
        /\ row.digests \in Claim /\ out.claims[k] \in Claim
        /\ Before(out.claims[k].manifest, row.digests.manifest)
        /\ Before(out.claims[k].results, row.digests.results)
        /\ There(row.source)
        /\ Before(row.digests.manifest, run[row.source].manifest)
        /\ Before(row.digests.results, run[row.source].results)
        /\ row.state = "COMPLETE" => Fully(row.digests.results, k)

RowsRight ==
    /\ \A k \in DOMAIN build.rows : RowExplained(build.rows[k])
    /\ \A k \in DOMAIN build.rows : build.rows[k].state = "COMPLETE" => build.rows[k].source # None
    /\ build.pc # "idle" => \A k \in DOMAIN build.rows : RowRight(k)

SlotRight ==
    /\ build.pc \in OnSlot =>
          /\ build.slot <= Slots /\ build.chosen # None /\ There(build.chosen)
          /\ (build.why = None) <=> Fully(run[build.chosen].results, build.slot)
    /\ build.pc \in OnSlot \ {"load"} =>
          build.loaded \in Result /\ Before(build.loaded, run[build.chosen].results)
    /\ build.pc \in Copied =>
          /\ out.claims[build.slot] \in [manifest : Manifest, results : Result \cup {None}]
          /\ Before(out.claims[build.slot].manifest, run[build.chosen].manifest)
    /\ build.pc \in {"hash manifest", "hash results"} =>
          /\ out.claims[build.slot].results \in Result
          /\ Before(out.claims[build.slot].results, run[build.chosen].results)
    /\ build.pc = "hash results" =>
          /\ build.hashed \in Manifest
          /\ Before(out.claims[build.slot].manifest, build.hashed)
          /\ Before(build.hashed, run[build.chosen].manifest)

Sourced(rows) == {k \in DOMAIN rows : rows[k].source # None}

ProgressRight ==
    /\ build.pc = "reset" => build.rows = << >>
    /\ build.pc \in {"reset", "choose"} => build.slot = Len(build.rows) + 1
    /\ build.pc \in Making =>
          /\ out.results = None /\ build.slot = Len(build.rows) + 1
          /\ DOMAIN out.claims =
                Sourced(build.rows) \cup (IF build.pc \in Copied THEN {build.slot} ELSE {})
    /\ build.pc \in Ending =>
          /\ Len(build.rows) = Slots /\ out.results.rows = build.rows
          /\ DOMAIN out.claims = Sourced(build.rows)
          /\ out.results.completion_state = "COMPLETE" =>
                \A k \in DOMAIN build.rows : build.rows[k].state = "COMPLETE"
    /\ build.pc \in {"sums", "check", "package"} => out.report = "whole"
    /\ build.pc \in {"check", "package"} => out.sums = DOMAIN out.claims
    /\ build.pc = "package" =>
          /\ \A k \in DOMAIN build.rows : build.rows[k].state = "COMPLETE"
          /\ \A k \in 1..Slots : k < build.slot => out.claims[k] = build.rows[k].digests

ClaimsRight ==
    out.results # None => DOMAIN out.claims = {k \in 1..Slots : out.results.rows[k].source # None}

ArchiveRight ==
    archive # None =>
        /\ archive.report = "whole" /\ archive.sums = 1..Slots
        /\ \A k \in 1..Slots : /\ archive.rows[k].digests = archive.claims[k]
                               /\ Fully(archive.claims[k].results, k)

ReleaseInv ==
    /\ RunsRight /\ BuildTyped /\ RowsRight /\ SlotRight /\ ProgressRight /\ ClaimsRight /\ ArchiveRight

\* What is assumed of the slots and the runs.
LEMMA ReleaseConstants ==
    /\ Slots \in Nat /\ Candidates \in [1..Slots -> Seq(Runs)]
    /\ Measurements \in [Runs -> Nat] /\ Kills \in Nat
    /\ None \notin Runs /\ None \notin {"incomplete", "no run"}
    /\ None \notin Manifest /\ None \notin Result
  BY ReleaseAssumption DEF Release!SlotsAssumption, Release!CandidatesAssumption,
     Release!BoundsAssumption, Release!NoneAssumption, Release!Manifests, Release!Results,
     Release!DocumentStates, Release!Outcomes, Manifest, Result, Outcome, States

\* There is a number of slots, perhaps none.
LEMMA SlotsNumber == Slots \in Nat
  BY ReleaseConstants

RunMeasured(r) == Release!Measure(r)
RunFinished(r) == Release!FinishRun(r)
RunReported(r) == Release!Report(r)
BuildStarted == Release!Start
OutputReset == Release!Reset
RunChosen == Release!ChooseRun
RunLoaded == Release!Load
ManifestCopied == Release!CopyManifest
ResultsCopied == Release!CopyResults
ManifestHashed == Release!HashManifest
ResultsHashed == Release!HashResults
ResultsWritten == Release!WriteResults
ReportWritten == Release!WriteReport
SumsWritten == Release!WriteSums
CompletenessChecked == Release!CheckComplete
SlotPackaged == Release!PackageSlot
ArchiveWritten == Release!WriteArchive
BuildKilled == Release!Kill

Building ==
    \/ OutputReset \/ RunChosen \/ RunLoaded \/ ManifestCopied \/ ResultsCopied \/ ManifestHashed
    \/ ResultsHashed \/ ResultsWritten \/ ReportWritten \/ SumsWritten \/ CompletenessChecked
    \/ SlotPackaged \/ ArchiveWritten

\* The steps of the release are these.
LEMMA ReleaseSteps ==
    ASSUME Release!Next
    PROVE  \/ \E r \in Runs : RunMeasured(r) \/ RunFinished(r) \/ RunReported(r)
           \/ BuildStarted \/ Building \/ BuildKilled
  BY Zenon DEF Release!Next, Release!Builder, Building, RunMeasured, RunFinished, RunReported,
     BuildStarted, OutputReset, RunChosen, RunLoaded, ManifestCopied, ResultsCopied, ManifestHashed,
     ResultsHashed, ResultsWritten, ReportWritten, SumsWritten, CompletenessChecked, SlotPackaged,
     ArchiveWritten, BuildKilled

\* A run is measured, while nothing is finalized; its results come later, and
\* its documents are reported one after the other.
LEMMA RunWords ==
    ASSUME NEW r \in Runs
    PROVE  /\ RunMeasured(r) =>
                 /\ build.pc = "idle" /\ measured[r] < Measurements[r]
                 /\ measured' = [measured EXCEPT ![r] = @ + 1]
                 /\ run' = [run EXCEPT ![r] =
                       [manifest |-> [of |-> measured[r] + 1, state |-> "BENCHMARKED"], results |-> None]]
                 /\ UNCHANGED <<build, out, archive, kills>>
           /\ RunFinished(r) =>
                 /\ run[r].manifest # None /\ run[r].results = None
                 /\ \E outcome \in Outcome :
                       run' = [run EXCEPT ![r].results =
                          [of |-> measured[r], state |-> "BENCHMARKED", outcome |-> outcome]]
                 /\ UNCHANGED <<measured, build, out, archive, kills>>
           /\ RunReported(r) =>
                 /\ run[r].results # None
                 /\ \/ /\ run[r].manifest.state = "BENCHMARKED"
                       /\ run' = [run EXCEPT ![r].manifest.state = "REPORTED"]
                    \/ /\ run[r].results.state = "BENCHMARKED"
                       /\ run' = [run EXCEPT ![r].results.state = "REPORTED"]
                 /\ UNCHANGED <<measured, build, out, archive, kills>>
<1>1. RunMeasured(r) =>
          /\ build.pc = "idle" /\ measured[r] < Measurements[r]
          /\ measured' = [measured EXCEPT ![r] = @ + 1]
          /\ run' = [run EXCEPT ![r] =
                [manifest |-> [of |-> measured[r] + 1, state |-> "BENCHMARKED"], results |-> None]]
          /\ UNCHANGED <<build, out, archive, kills>>
  BY Zenon DEF RunMeasured, Release!Measure
<1>2. RunFinished(r) =>
          /\ run[r].manifest # None /\ run[r].results = None
          /\ \E outcome \in Outcome :
                run' = [run EXCEPT ![r].results =
                   [of |-> measured[r], state |-> "BENCHMARKED", outcome |-> outcome]]
          /\ UNCHANGED <<measured, build, out, archive, kills>>
  <2> DEFINE mine == {k \in 1..Slots : \E i \in DOMAIN Candidates[k] : Candidates[k][i] = r}
  <2>1. SUFFICES ASSUME RunFinished(r)
                 PROVE  /\ run[r].manifest # None /\ run[r].results = None
                        /\ \E outcome \in Outcome :
                              run' = [run EXCEPT ![r].results =
                                 [of |-> measured[r], state |-> "BENCHMARKED", outcome |-> outcome]]
                        /\ UNCHANGED <<measured, build, out, archive, kills>>
    OBVIOUS
  <2>2. /\ run[r].manifest # None /\ run[r].results = None
        /\ \E status \in {"MEASURED", "PARTIAL"}, verdicts \in SUBSET mine :
              run' = [run EXCEPT ![r].results =
                 [of |-> measured[r], state |-> "BENCHMARKED",
                  outcome |-> [status |-> status, verdicts |-> verdicts]]]
        /\ UNCHANGED <<measured, build, out, archive, kills>>
    BY <2>1, Zenon DEF RunFinished, Release!FinishRun, Release!Document, Release!Slot
  <2>3. \A status \in {"MEASURED", "PARTIAL"}, verdicts \in SUBSET mine :
           [status |-> status, verdicts |-> verdicts] \in Outcome
    BY DEF Outcome
  <2>4. QED
    BY <2>2, <2>3, Zenon
<1>3. RunReported(r) =>
          /\ run[r].results # None
          /\ \/ /\ run[r].manifest.state = "BENCHMARKED"
                /\ run' = [run EXCEPT ![r].manifest.state = "REPORTED"]
             \/ /\ run[r].results.state = "BENCHMARKED"
                /\ run' = [run EXCEPT ![r].results.state = "REPORTED"]
          /\ UNCHANGED <<measured, build, out, archive, kills>>
  BY Zenon DEF RunReported, Release!Report
<1>4. QED
  BY <1>1, <1>2, <1>3, Zenon

(* A row is added, and the next slot is next. *)
RowAdded(row) ==
    build' = [build EXCEPT !.pc = "choose", !.slot = @ + 1, !.rows = Append(@, row)]

\* A row is what the release appends.
LEMMA RowWords ==
    ASSUME NEW row, Release!AddRow(row)
    PROVE  RowAdded(row)
  BY Zenon DEF Release!AddRow, RowAdded

(* The candidates that have documents, the complete ones, and the first. *)
FoundAt(k) == {i \in DOMAIN Candidates[k] : /\ run[Candidates[k][i]].manifest # None
                                            /\ run[Candidates[k][i]].results # None}
CompleteAt(k) == {i \in FoundAt(k) : Fully(run[Candidates[k][i]].results, k)}
FirstAt(k, places) == Candidates[k][CHOOSE i \in places : \A j \in places : i <= j]
Chosen(k) == Release!Choose(k).chosen
Why(k) == Release!Choose(k).why

\* A nonempty set of numbers has a smallest one.
LEMMA Smallest ==
    ASSUME NEW S \in SUBSET Nat, S # {}
    PROVE  \E i \in S : \A j \in S : i <= j
<1> DEFINE less == OpToRel(<, Nat)
<1>1. IsWellFoundedOn(less, Nat)
  BY NatLessThanWellFounded
<1>2. \A i, j \in Nat : i < j => <<i, j>> \in less
  BY DEF OpToRel
<1> HIDE DEF less
<1>3. \E i \in S : \A j \in S : ~ (<<j, i>> \in less)
  BY <1>1, WFMin, Zenon
<1>4. PICK i \in S : \A j \in S : ~ (<<j, i>> \in less)
  BY <1>3
<1>5. ASSUME NEW j \in S PROVE i <= j
  <2>1. i \in Nat /\ j \in Nat /\ ~ (j < i)
    BY <1>2, <1>4
  <2>2. QED
    BY <2>1
<1>6. QED
  BY <1>5

\* The candidates of a slot are runs, in an order.
LEMMA CandidateRuns ==
    ASSUME NEW k \in 1..Slots
    PROVE  DOMAIN Candidates[k] \subseteq Nat /\ \A i \in DOMAIN Candidates[k] : Candidates[k][i] \in Runs
<1> DEFINE some == Candidates[k]
<1>1. some \in Seq(Runs)
  BY ReleaseConstants
<1> HIDE DEF some
<1>2. DOMAIN some = 1..Len(some) /\ Len(some) \in Nat /\ \A i \in 1..Len(some) : some[i] \in Runs
  BY <1>1
<1>3. DOMAIN some \subseteq Nat
  BY <1>2
<1>4. QED
  BY <1>2, <1>3 DEF some

\* The first of some candidates is one of them.
LEMMA FirstIsOne ==
    ASSUME NEW k \in 1..Slots, NEW places, places \subseteq DOMAIN Candidates[k], places # {}
    PROVE  \E i \in places : FirstAt(k, places) = Candidates[k][i]
<1>1. places \in SUBSET Nat
  BY CandidateRuns
<1>2. \E i \in places : \A j \in places : i <= j
  BY <1>1, Smallest
<1>3. (CHOOSE i \in places : \A j \in places : i <= j) \in places
  BY <1>2
<1>4. QED
  BY <1>3 DEF FirstAt

\* What is chosen has documents, and nothing is said against it just when they
\* are complete; a slot that has none says so.
LEMMA ChoiceWords ==
    ASSUME NEW k \in 1..Slots
    PROVE  \/ Chosen(k) = None /\ Why(k) = "no run"
           \/ /\ Chosen(k) \in Runs /\ Why(k) \in {None, "incomplete"}
              /\ run[Chosen(k)].manifest # None /\ run[Chosen(k)].results # None
              /\ (Why(k) = None) <=> Fully(run[Chosen(k)].results, k)
<1>1. /\ Chosen(k) = IF CompleteAt(k) # {} THEN FirstAt(k, CompleteAt(k))
                     ELSE IF FoundAt(k) # {} THEN FirstAt(k, FoundAt(k)) ELSE None
      /\ Why(k) = IF CompleteAt(k) # {} THEN None
                  ELSE IF FoundAt(k) # {} THEN "incomplete" ELSE "no run"
  <2> DEFINE complete == {i \in Release!Found(k) : Release!Complete(run[Candidates[k][i]].results, k)}
  <2>1. Release!Found(k) = FoundAt(k)
    BY Zenon DEF Release!Found, Release!Readable, FoundAt
  <2>2. complete = CompleteAt(k)
    BY <2>1, Zenon DEF CompleteAt, Fully, Release!Complete
  <2>3. \A places : Release!FirstOf(k, places) = FirstAt(k, places)
    BY Zenon DEF Release!FirstOf, FirstAt
  <2>4. Release!Choose(k) =
           IF CompleteAt(k) # {} THEN [chosen |-> FirstAt(k, CompleteAt(k)), why |-> None]
           ELSE IF FoundAt(k) # {} THEN [chosen |-> FirstAt(k, FoundAt(k)), why |-> "incomplete"]
           ELSE [chosen |-> None, why |-> "no run"]
    BY <2>1, <2>2, <2>3, Zenon DEF Release!Choose
  <2>5. \A a, b : [chosen |-> a, why |-> b].chosen = a /\ [chosen |-> a, why |-> b].why = b
    OBVIOUS
  <2>6. QED
    BY <2>4, <2>5, Zenon DEF Chosen, Why
<1>2. \A i \in DOMAIN Candidates[k] : Candidates[k][i] \in Runs
  BY CandidateRuns
<1>3. CompleteAt(k) \subseteq FoundAt(k) /\ FoundAt(k) \subseteq DOMAIN Candidates[k]
  BY DEF CompleteAt, FoundAt
<1>4. CASE CompleteAt(k) # {}
  <2>1. PICK i \in CompleteAt(k) : Chosen(k) = Candidates[k][i]
    BY <1>1, <1>3, <1>4, FirstIsOne
  <2>2. Why(k) = None
    BY <1>1, <1>4
  <2>3. QED
    BY <1>2, <1>3, <2>1, <2>2 DEF CompleteAt, FoundAt
<1>5. CASE CompleteAt(k) = {} /\ FoundAt(k) # {}
  <2>1. PICK i \in FoundAt(k) : Chosen(k) = Candidates[k][i]
    BY <1>1, <1>3, <1>5, FirstIsOne
  <2>2. Why(k) = "incomplete" /\ "incomplete" # None
    BY <1>1, <1>5, ReleaseConstants
  <2>3. ~ Fully(run[Chosen(k)].results, k)
    BY <1>5, <2>1 DEF CompleteAt
  <2>4. QED
    BY <1>2, <1>3, <2>1, <2>2, <2>3 DEF FoundAt
<1>6. CASE CompleteAt(k) = {} /\ FoundAt(k) = {}
  BY <1>1, <1>6
<1>7. QED
  BY <1>4, <1>5, <1>6

\* A finalization starts, and removes what an earlier one made.
LEMMA BeginWords ==
    /\ BuildStarted =>
          /\ build' = [pc |-> "reset", slot |-> 1, chosen |-> None, why |-> None, loaded |-> None,
                       hashed |-> None, rows |-> << >>]
          /\ UNCHANGED <<run, measured, out, archive, kills>>
    /\ OutputReset =>
          /\ build.pc = "reset" /\ build' = [build EXCEPT !.pc = "choose"]
          /\ out' = [claims |-> [k \in {} |-> None], results |-> None, report |-> "absent", sums |-> {}]
          /\ UNCHANGED <<run, measured, archive, kills>>
<1>1. BuildStarted =>
          /\ build' = [pc |-> "reset", slot |-> 1, chosen |-> None, why |-> None, loaded |-> None,
                       hashed |-> None, rows |-> << >>]
          /\ UNCHANGED <<run, measured, out, archive, kills>>
  BY DEF BuildStarted, Release!Start, Release!Idle
<1>2. OutputReset =>
          /\ build.pc = "reset" /\ build' = [build EXCEPT !.pc = "choose"]
          /\ out' = [claims |-> [k \in {} |-> None], results |-> None, report |-> "absent", sums |-> {}]
          /\ UNCHANGED <<run, measured, archive, kills>>
  BY Zenon DEF OutputReset, Release!Reset, Release!Goto, Release!Empty
<1>3. QED
  BY <1>1, <1>2, Zenon

\* A run is chosen for a slot, or the slot gets its row.
LEMMA ChosenWords ==
    ASSUME RunChosen
    PROVE  /\ build.pc = "choose" /\ build.slot <= Slots
           /\ UNCHANGED <<run, measured, out, archive, kills>>
           /\ \/ /\ Chosen(build.slot) = None
                 /\ RowAdded([state |-> "INCOMPLETE", why |-> Why(build.slot), source |-> None,
                              digests |-> None])
              \/ /\ Chosen(build.slot) # None
                 /\ build' = [build EXCEPT !.pc = "load", !.chosen = Chosen(build.slot),
                                           !.why = Why(build.slot)]
  BY RowWords, Zenon DEF RunChosen, Release!ChooseRun, Chosen, Why

\* The documents are read, copied and hashed, one after the other.
LEMMA TakenWords ==
    /\ RunLoaded =>
          /\ build.pc = "load" /\ UNCHANGED <<run, measured, out, archive, kills>>
          /\ build' = [build EXCEPT !.pc = "copy manifest", !.loaded = run[build.chosen].results]
    /\ ManifestCopied =>
          /\ build.pc = "copy manifest" /\ UNCHANGED <<run, measured, archive, kills>>
          /\ build' = [build EXCEPT !.pc = "copy results"]
          /\ out' = [out EXCEPT !.claims =
                [k \in DOMAIN @ \cup {build.slot} |->
                    IF k = build.slot THEN [manifest |-> run[build.chosen].manifest, results |-> None]
                    ELSE @[k]]]
    /\ ResultsCopied =>
          /\ build.pc = "copy results" /\ UNCHANGED <<run, measured, archive, kills>>
          /\ build' = [build EXCEPT !.pc = "hash manifest"]
          /\ out' = [out EXCEPT !.claims[build.slot].results = run[build.chosen].results]
    /\ ManifestHashed =>
          /\ build.pc = "hash manifest" /\ UNCHANGED <<run, measured, out, archive, kills>>
          /\ build' = [build EXCEPT !.pc = "hash results", !.hashed = run[build.chosen].manifest]
<1>1. RunLoaded =>
          /\ build.pc = "load" /\ UNCHANGED <<run, measured, out, archive, kills>>
          /\ build' = [build EXCEPT !.pc = "copy manifest", !.loaded = run[build.chosen].results]
  BY Zenon DEF RunLoaded, Release!Load
<1>2. ManifestCopied =>
          /\ build.pc = "copy manifest" /\ UNCHANGED <<run, measured, archive, kills>>
          /\ build' = [build EXCEPT !.pc = "copy results"]
          /\ out' = [out EXCEPT !.claims =
                [k \in DOMAIN @ \cup {build.slot} |->
                    IF k = build.slot THEN [manifest |-> run[build.chosen].manifest, results |-> None]
                    ELSE @[k]]]
  BY Zenon DEF ManifestCopied, Release!CopyManifest, Release!Goto
<1>3. ResultsCopied =>
          /\ build.pc = "copy results" /\ UNCHANGED <<run, measured, archive, kills>>
          /\ build' = [build EXCEPT !.pc = "hash manifest"]
          /\ out' = [out EXCEPT !.claims[build.slot].results = run[build.chosen].results]
  BY Zenon DEF ResultsCopied, Release!CopyResults, Release!Goto
<1>4. ManifestHashed =>
          /\ build.pc = "hash manifest" /\ UNCHANGED <<run, measured, out, archive, kills>>
          /\ build' = [build EXCEPT !.pc = "hash results", !.hashed = run[build.chosen].manifest]
  BY Zenon DEF ManifestHashed, Release!HashManifest
<1>5. QED
  BY <1>1, <1>2, <1>3, <1>4, Zenon

\* The row of a run says whether the documents that were loaded are complete.
LEMMA HashedWords ==
    ASSUME ResultsHashed
    PROVE  /\ build.pc = "hash results" /\ UNCHANGED <<run, measured, out, archive, kills>>
           /\ RowAdded([state |-> IF Fully(build.loaded, build.slot) THEN "COMPLETE" ELSE "INCOMPLETE",
                        why |-> IF Fully(build.loaded, build.slot) THEN None ELSE build.why,
                        source |-> build.chosen,
                        digests |-> [manifest |-> build.hashed, results |-> run[build.chosen].results]])
<1>1. Release!Complete(build.loaded, build.slot) <=> Fully(build.loaded, build.slot)
  BY DEF Release!Complete, Fully
<1>2. /\ build.pc = "hash results" /\ UNCHANGED <<run, measured, out, archive, kills>>
      /\ Release!AddRow([state |-> IF Fully(build.loaded, build.slot) THEN "COMPLETE" ELSE "INCOMPLETE",
                         why |-> IF Fully(build.loaded, build.slot) THEN None ELSE build.why,
                         source |-> build.chosen,
                         digests |-> [manifest |-> build.hashed, results |-> run[build.chosen].results]])
  BY <1>1, Zenon DEF ResultsHashed, Release!HashResults, Release!Complete, Fully
<1>3. QED
  BY <1>2, RowWords, Zenon

\* The aggregate is written, with its report and its sums.
LEMMA WrittenWords ==
    /\ ResultsWritten =>
          /\ build.pc = "choose" /\ build.slot > Slots /\ UNCHANGED <<run, measured, archive, kills>>
          /\ build' = [build EXCEPT !.pc = "report"]
          /\ out' = [out EXCEPT !.results =
                [rows |-> build.rows,
                 completion_state |-> IF \A k \in DOMAIN build.rows : build.rows[k].state = "COMPLETE"
                                      THEN "COMPLETE" ELSE "PARTIAL"]]
    /\ ReportWritten =>
          /\ build.pc = "report" /\ UNCHANGED <<run, measured, archive, kills>>
          /\ \/ out' = [out EXCEPT !.report = "part"] /\ UNCHANGED build
             \/ out' = [out EXCEPT !.report = "whole"] /\ build' = [build EXCEPT !.pc = "sums"]
    /\ SumsWritten =>
          /\ build.pc = "sums" /\ UNCHANGED <<run, measured, archive, kills>>
          /\ out' = [out EXCEPT !.sums = DOMAIN out.claims] /\ build' = [build EXCEPT !.pc = "check"]
<1>1. ResultsWritten =>
          /\ build.pc = "choose" /\ build.slot > Slots /\ UNCHANGED <<run, measured, archive, kills>>
          /\ build' = [build EXCEPT !.pc = "report"]
          /\ out' = [out EXCEPT !.results =
                [rows |-> build.rows,
                 completion_state |-> IF \A k \in DOMAIN build.rows : build.rows[k].state = "COMPLETE"
                                      THEN "COMPLETE" ELSE "PARTIAL"]]
  BY Zenon DEF ResultsWritten, Release!WriteResults, Release!Goto, Release!CompletionState
<1>2. ReportWritten =>
          /\ build.pc = "report" /\ UNCHANGED <<run, measured, archive, kills>>
          /\ \/ out' = [out EXCEPT !.report = "part"] /\ UNCHANGED build
             \/ out' = [out EXCEPT !.report = "whole"] /\ build' = [build EXCEPT !.pc = "sums"]
  BY Zenon DEF ReportWritten, Release!WriteReport, Release!Goto
<1>3. SumsWritten =>
          /\ build.pc = "sums" /\ UNCHANGED <<run, measured, archive, kills>>
          /\ out' = [out EXCEPT !.sums = DOMAIN out.claims] /\ build' = [build EXCEPT !.pc = "check"]
  BY Zenon DEF SumsWritten, Release!WriteSums, Release!Goto
<1>4. QED
  BY <1>1, <1>2, <1>3, Zenon

IdleBuild == [pc |-> "idle", slot |-> 1, chosen |-> None, why |-> None, loaded |-> None,
              hashed |-> None, rows |-> << >>]

\* It is packaged when it is complete and its copies equal the documents.
LEMMA PackagedWords ==
    /\ CompletenessChecked =>
          /\ build.pc = "check" /\ UNCHANGED <<run, measured, out, archive, kills>>
          /\ \/ /\ out.results.completion_state = "COMPLETE"
                /\ build' = [build EXCEPT !.pc = "package", !.slot = 1]
             \/ build' = IdleBuild
    /\ SlotPackaged =>
          /\ build.pc = "package" /\ build.slot <= Slots /\ UNCHANGED <<run, measured, out, archive, kills>>
          /\ \/ /\ out.claims[build.slot] = run[out.results.rows[build.slot].source]
                /\ build' = [build EXCEPT !.slot = @ + 1]
             \/ build' = IdleBuild
    /\ ArchiveWritten =>
          /\ build.pc = "package" /\ build.slot > Slots /\ UNCHANGED <<run, measured, out, kills>>
          /\ archive' = [rows |-> out.results.rows, claims |-> out.claims, report |-> out.report,
                         sums |-> out.sums]
          /\ build' = IdleBuild
    /\ BuildKilled =>
          /\ kills < Kills /\ kills' = kills + 1 /\ build' = IdleBuild
          /\ UNCHANGED <<run, measured, out, archive>>
<1>1. CompletenessChecked =>
          /\ build.pc = "check" /\ UNCHANGED <<run, measured, out, archive, kills>>
          /\ \/ /\ out.results.completion_state = "COMPLETE"
                /\ build' = [build EXCEPT !.pc = "package", !.slot = 1]
             \/ build' = IdleBuild
  BY Zenon DEF CompletenessChecked, Release!CheckComplete, Release!Idle, IdleBuild
<1>2. SlotPackaged =>
          /\ build.pc = "package" /\ build.slot <= Slots /\ UNCHANGED <<run, measured, out, archive, kills>>
          /\ \/ /\ out.claims[build.slot] = run[out.results.rows[build.slot].source]
                /\ build' = [build EXCEPT !.slot = @ + 1]
             \/ build' = IdleBuild
  BY Zenon DEF SlotPackaged, Release!PackageSlot, Release!Matches, Release!Idle, IdleBuild
<1>3. ArchiveWritten =>
          /\ build.pc = "package" /\ build.slot > Slots /\ UNCHANGED <<run, measured, out, kills>>
          /\ archive' = [rows |-> out.results.rows, claims |-> out.claims, report |-> out.report,
                         sums |-> out.sums]
          /\ build' = IdleBuild
  BY Zenon DEF ArchiveWritten, Release!WriteArchive, Release!Idle, IdleBuild
<1>4. BuildKilled =>
          /\ kills < Kills /\ kills' = kills + 1 /\ build' = IdleBuild
          /\ UNCHANGED <<run, measured, out, archive>>
  BY Zenon DEF BuildKilled, Release!Kill, Release!Idle, IdleBuild
<1>5. QED
  BY <1>1, <1>2, <1>3, <1>4, Zenon

\* Documents only advance, from what they were to what they are.
LEMMA BeforeChain ==
    ASSUME NEW d, NEW e, NEW f \in Manifest \cup Result, Before(d, e), Before(e, f)
    PROVE  Before(d, f)
  BY DEF Before, Manifest, Result

\* What lies between a document and itself is the document.
LEMMA BeforeBetween ==
    ASSUME NEW d, NEW e, NEW f \in Manifest \cup Result, Before(d, e), Before(e, f), d = f
    PROVE  e = f
  BY DEF Before, Manifest, Result

\* A result that is reported is as complete as it was.
LEMMA BeforeFully ==
    ASSUME NEW d, NEW e \in Result, Before(d, e)
    PROVE  d \in Result /\ \A k : Fully(d, k) <=> Fully(e, k)
<1>1. d \in Result /\ d.outcome = e.outcome
  BY DEF Before, Result, States
<1>2. QED
  BY <1>1 DEF Fully

(* While a finalization is under way, documents that are there stay, or are
   reported. *)
Advances ==
    \A r \in Runs : There(r) =>
        /\ There(r)'
        /\ Before(run[r].manifest, run'[r].manifest)
        /\ Before(run[r].results, run'[r].results)

\* A run is measured.
LEMMA MeasuredKeeps ==
    ASSUME RunsRight, NEW r \in Runs, RunMeasured(r)
    PROVE  RunsRight' /\ build.pc = "idle" /\ UNCHANGED <<build, out, archive, kills>>
<1>1. /\ build.pc = "idle" /\ measured[r] < Measurements[r]
      /\ measured' = [measured EXCEPT ![r] = @ + 1]
      /\ run' = [run EXCEPT ![r] =
            [manifest |-> [of |-> measured[r] + 1, state |-> "BENCHMARKED"], results |-> None]]
      /\ UNCHANGED <<build, out, archive, kills>>
  BY RunWords
<1> DEFINE m == [of |-> measured[r] + 1, state |-> "BENCHMARKED"]
<1> DEFINE docs == [manifest |-> m, results |-> None]
<1>2. measured[r] \in Nat /\ measured[r] + 1 \in Nat /\ measured[r] + 1 <= Measurements[r]
  <2>1. measured[r] \in Nat /\ Measurements[r] \in Nat
    BY ReleaseConstants DEF RunsRight
  <2>2. QED
    BY <1>1, <2>1
<1>3. m \in Manifest /\ m.of = measured[r] + 1
  BY <1>2 DEF Manifest, States
<1> HIDE DEF m
<1>4. docs \in [manifest : Manifest \cup {None}, results : Result \cup {None}]
      /\ docs.manifest = m /\ docs.results = None
  BY <1>3
<1> HIDE DEF docs
<1>5. run' = [run EXCEPT ![r] = docs]
  BY <1>1 DEF docs, m
<1>6. measured' \in [Runs -> Nat] /\ \A s \in Runs : measured'[s] <= Measurements[s]
  BY <1>1, <1>2 DEF RunsRight
<1>7. RunsRight'
  BY <1>1, <1>3, <1>4, <1>5, <1>6 DEF RunsRight
<1>8. QED
  BY <1>1, <1>7

\* Its results are there when it is finished.
LEMMA FinishedKeeps ==
    ASSUME RunsRight, NEW r \in Runs, RunFinished(r)
    PROVE  RunsRight' /\ Advances /\ UNCHANGED <<build, out, archive, kills>>
<1>1. /\ run[r].manifest # None /\ run[r].results = None
      /\ UNCHANGED <<measured, build, out, archive, kills>>
  BY RunWords
<1>2. PICK outcome \in Outcome :
          run' = [run EXCEPT ![r].results =
             [of |-> measured[r], state |-> "BENCHMARKED", outcome |-> outcome]]
  BY RunWords
<1> DEFINE doc == [of |-> measured[r], state |-> "BENCHMARKED", outcome |-> outcome]
<1>3. doc \in Result /\ doc.of = measured[r]
  BY DEF Result, States, RunsRight
<1> HIDE DEF doc
<1>4. run' = [run EXCEPT ![r].results = doc]
  BY <1>2 DEF doc
<1>5. /\ run' \in [Runs -> [manifest : Manifest \cup {None}, results : Result \cup {None}]]
      /\ \A s \in Runs : s # r => run'[s] = run[s]
      /\ run'[r].manifest = run[r].manifest /\ run'[r].results = doc
  BY <1>3, <1>4 DEF RunsRight
<1>6. RunsRight'
  BY <1>1, <1>3, <1>5 DEF RunsRight
<1>7. ~ There(r)
  BY <1>1, ReleaseConstants DEF There
<1>8. Advances
  BY <1>5, <1>7 DEF Advances, There, Before
<1>9. QED
  BY <1>1, <1>6, <1>8

\* Its documents are reported.
LEMMA ReportedKeeps ==
    ASSUME RunsRight, NEW r \in Runs, RunReported(r)
    PROVE  RunsRight' /\ Advances /\ UNCHANGED <<build, out, archive, kills>>
<1>1. run[r].results # None /\ UNCHANGED <<measured, build, out, archive, kills>>
  BY RunWords
<1>2. run[r].results \in Result /\ run[r].manifest \in Manifest
  BY <1>1 DEF RunsRight
<1> DEFINE m == [run[r].manifest EXCEPT !.state = "REPORTED"]
<1> DEFINE d == [run[r].results EXCEPT !.state = "REPORTED"]
<1>3. /\ m \in Manifest /\ m.of = run[r].manifest.of
      /\ run[r].manifest.state = "BENCHMARKED" => Before(run[r].manifest, m)
  BY <1>2 DEF Manifest, States, Before
<1>4. /\ d \in Result /\ d.of = run[r].results.of
      /\ run[r].results.state = "BENCHMARKED" => Before(run[r].results, d)
  BY <1>2 DEF Result, States, Before
<1>5. CASE run[r].manifest.state = "BENCHMARKED" /\ run' = [run EXCEPT ![r].manifest.state = "REPORTED"]
  <2>1. run' = [run EXCEPT ![r].manifest = m]
    BY <1>5
  <2> HIDE DEF m, d
  <2>2. /\ run' \in [Runs -> [manifest : Manifest \cup {None}, results : Result \cup {None}]]
        /\ \A s \in Runs : s # r => run'[s] = run[s]
        /\ run'[r].manifest = m /\ run'[r].results = run[r].results
    BY <1>3, <2>1 DEF RunsRight
  <2>3. RunsRight'
    <3>1. measured' = measured /\ run[r].results.of = measured[r] /\ run[r].manifest.of = measured[r]
      BY <1>1, <1>2, ReleaseConstants DEF RunsRight
    <3>2. m # None
      BY <1>3, ReleaseConstants
    <3>3. \A s \in Runs :
             /\ run'[s].manifest # None => run'[s].manifest.of = measured[s]
             /\ run'[s].results # None => run'[s].manifest # None /\ run'[s].results.of = measured[s]
      BY <1>3, <2>2, <3>1, <3>2 DEF RunsRight
    <3>4. QED
      BY <2>2, <3>1, <3>3 DEF RunsRight
  <2>4. Advances
    BY <1>2, <1>3, <1>5, <2>2 DEF Advances, There, Before
  <2>5. QED
    BY <1>1, <2>3, <2>4
<1>6. CASE run[r].results.state = "BENCHMARKED" /\ run' = [run EXCEPT ![r].results.state = "REPORTED"]
  <2>1. run' = [run EXCEPT ![r].results = d]
    BY <1>6
  <2> HIDE DEF m, d
  <2>2. /\ run' \in [Runs -> [manifest : Manifest \cup {None}, results : Result \cup {None}]]
        /\ \A s \in Runs : s # r => run'[s] = run[s]
        /\ run'[r].results = d /\ run'[r].manifest = run[r].manifest
    BY <1>4, <2>1 DEF RunsRight
  <2>3. RunsRight'
    BY <1>1, <1>2, <1>4, <2>2 DEF RunsRight
  <2>4. Advances
    BY <1>2, <1>4, <1>6, <2>2 DEF Advances, There, Before
  <2>5. QED
    BY <1>1, <2>3, <2>4
<1>7. QED
  BY <1>5, <1>6, RunWords

\* The rows of an aggregate are rows.
LEMMA RowIsRow ==
    ASSUME BuildTyped, NEW k \in DOMAIN build.rows
    PROVE  /\ build.rows[k] \in Row /\ k \in 1..Slots
           /\ DOMAIN build.rows = 1..Len(build.rows) /\ Len(build.rows) \in 0..Slots
<1> DEFINE rows == build.rows
<1>1. rows \in Seq(Row) /\ Len(rows) <= Slots /\ k \in DOMAIN rows
  BY DEF BuildTyped
<1> HIDE DEF rows
<1>2. DOMAIN rows = 1..Len(rows) /\ Len(rows) \in Nat /\ rows[k] \in Row
  BY <1>1
<1>3. k \in 1..Slots /\ Len(rows) \in 0..Slots
  <2>1. Slots \in Nat
    BY ReleaseConstants
  <2>2. Len(rows) \in 0..Slots
    BY <1>1, <1>2, <2>1
  <2>3. k \in 1..Slots
    BY <1>1, <1>2, <2>1
  <2>4. QED
    BY <2>2, <2>3
<1>4. QED
  BY <1>2, <1>3 DEF rows

\* What a finalization knows stays right when documents advance.
LEMMA RunsAdvance ==
    ASSUME ReleaseInv, RunsRight', Advances \/ build.pc = "idle", UNCHANGED <<build, out, archive, kills>>
    PROVE  ReleaseInv'
<1>1. ASSUME NEW r \in Runs, There(r), build.pc # "idle"
      PROVE  /\ There(r)' /\ run[r].manifest \in Manifest /\ run'[r].manifest \in Manifest
             /\ run[r].results \in Result /\ run'[r].results \in Result
             /\ Before(run[r].manifest, run'[r].manifest) /\ Before(run[r].results, run'[r].results)
             /\ \A d : Before(d, run[r].manifest) => Before(d, run'[r].manifest)
             /\ \A d : Before(d, run[r].results) => Before(d, run'[r].results)
             /\ \A k : Fully(run[r].results, k) <=> Fully(run'[r].results, k)
  <2>1. /\ There(r)' /\ run[r].manifest \in Manifest /\ run'[r].manifest \in Manifest
        /\ run[r].results \in Result /\ run'[r].results \in Result
        /\ Before(run[r].manifest, run'[r].manifest) /\ Before(run[r].results, run'[r].results)
    BY <1>1 DEF Advances, There
  <2>2. \A d : Before(d, run[r].manifest) => Before(d, run'[r].manifest)
    BY <2>1, BeforeChain
  <2>3. \A d : Before(d, run[r].results) => Before(d, run'[r].results)
    BY <2>1, BeforeChain
  <2>4. \A k : Fully(run[r].results, k) <=> Fully(run'[r].results, k)
    BY <2>1, BeforeFully
  <2>5. QED
    BY <2>1, <2>2, <2>3, <2>4
<1>2. BuildTyped' /\ ProgressRight' /\ ClaimsRight' /\ ArchiveRight'
  <2>1. BuildTyped'
    BY DEF ReleaseInv, BuildTyped
  <2>2. ProgressRight'
    BY DEF ReleaseInv, ProgressRight
  <2>3. ClaimsRight' /\ ArchiveRight'
    BY DEF ReleaseInv, ClaimsRight, ArchiveRight
  <2>4. QED
    BY <2>1, <2>2, <2>3
<1>3. RowsRight'
  <2>1. ASSUME build.pc # "idle", NEW k \in DOMAIN build.rows PROVE RowRight(k)'
    <3>1. SUFFICES ASSUME build.rows[k].source # None PROVE RowRight(k)'
      BY DEF RowRight
    <3>2. RowRight(k)
      BY <2>1 DEF ReleaseInv, RowsRight
    <3>3. build.rows[k] \in Row
      BY <2>1, RowIsRow DEF ReleaseInv
    <3>4. build.rows[k].source \in Runs /\ There(build.rows[k].source)
      BY <3>1, <3>2, <3>3 DEF Row, RowRight
    <3>5. QED
      BY <1>1, <2>1, <3>2, <3>4 DEF RowRight
  <2>2. QED
    BY <2>1 DEF ReleaseInv, RowsRight
<1>4. SlotRight'
  <2>1. CASE build.pc \notin OnSlot
    BY <2>1 DEF SlotRight, OnSlot, Copied
  <2>2. CASE build.pc \in OnSlot
    <3>1. build.pc # "idle" /\ build.chosen \in Runs /\ There(build.chosen)
      BY <2>2 DEF ReleaseInv, SlotRight, BuildTyped, OnSlot
    <3>2. /\ There(build.chosen)'
          /\ \A d : Before(d, run[build.chosen].manifest) => Before(d, run'[build.chosen].manifest)
          /\ \A d : Before(d, run[build.chosen].results) => Before(d, run'[build.chosen].results)
          /\ \A k : Fully(run[build.chosen].results, k) <=> Fully(run'[build.chosen].results, k)
      BY <1>1, <3>1
    <3>3. SlotRight
      BY DEF ReleaseInv
    <3>4. QED
      BY <3>2, <3>3 DEF SlotRight
  <2>3. QED
    BY <2>1, <2>2
<1>5. QED
  BY <1>2, <1>3, <1>4 DEF ReleaseInv

\* Rows stay right when they and the claims of their slots stay.
LEMMA RowsStay ==
    ASSUME RowsRight, build.pc # "idle", build'.rows = build.rows, run' = run,
           \A k \in Sourced(build.rows) : out'.claims[k] = out.claims[k]
    PROVE  RowsRight'
<1>1. ASSUME NEW k \in DOMAIN build.rows PROVE RowRight(k)'
  <2>1. SUFFICES ASSUME build.rows[k].source # None PROVE RowRight(k)'
    BY DEF RowRight
  <2>2. out'.claims[k] = out.claims[k] /\ RowRight(k)
    BY <1>1, <2>1 DEF RowsRight, Sourced
  <2>3. QED
    BY <2>2 DEF RowRight, There
<1>2. QED
  BY <1>1 DEF RowsRight

\* A finalization that ends leaves what it made.
LEMMA IdleKeeps ==
    ASSUME ReleaseInv, build' = IdleBuild, UNCHANGED <<run, measured, out>>,
           kills' \in 0..Kills, ArchiveRight'
    PROVE  ReleaseInv'
<1>1. /\ build'.pc = "idle" /\ build'.slot = 1 /\ build'.chosen = None /\ build'.why = None
      /\ build'.rows = << >>
  BY DEF IdleBuild
<1>2. DOMAIN build'.rows = {} /\ Len(build'.rows) = 0
  BY <1>1
<1>3. BuildTyped'
  <2>1. 1 \in 1..(Slots + 1) /\ << >> \in Seq(Row) /\ 0 <= Slots
    BY SlotsNumber
  <2>2. build' \in [pc : {"idle", "reset"} \cup Making \cup Ending, slot : 1..(Slots + 1),
                    chosen : Runs \cup {None}, why : {None, "incomplete", "no run"},
                    loaded : {build'.loaded}, hashed : {build'.hashed}, rows : Seq(Row)]
    BY <2>1 DEF IdleBuild
  <2>3. /\ out' \in [claims : {out'.claims}, results : {out'.results},
                     report : {"absent", "part", "whole"}, sums : SUBSET (1..Slots)]
        /\ out'.claims = [k \in DOMAIN out'.claims |-> out'.claims[k]]
        /\ DOMAIN out'.claims \subseteq 1..Slots
    BY DEF ReleaseInv, BuildTyped
  <2>4. QED
    BY <1>2, <2>1, <2>2, <2>3 DEF BuildTyped
<1>4. RowsRight'
  BY <1>1, <1>2 DEF RowsRight
<1>5. SlotRight' /\ ProgressRight'
  BY <1>1 DEF SlotRight, ProgressRight, OnSlot, Copied, Making, Ending
<1>6. RunsRight' /\ ClaimsRight'
  BY DEF ReleaseInv, RunsRight, ClaimsRight
<1>7. QED
  BY <1>3, <1>4, <1>5, <1>6 DEF ReleaseInv

\* A finalization that ends, or is killed, leaves the archive.
LEMMA EndKeeps ==
    ASSUME ReleaseInv, build' = IdleBuild, UNCHANGED <<run, measured, out, archive, kills>>
    PROVE  ReleaseInv'
<1>1. kills' \in 0..Kills /\ ArchiveRight'
  BY DEF ReleaseInv, BuildTyped, ArchiveRight
<1>2. QED
  BY <1>1, IdleKeeps

\* A kill is one of those that may happen.
LEMMA KillKeeps ==
    ASSUME ReleaseInv, BuildKilled
    PROVE  ReleaseInv'
<1>1. /\ kills < Kills /\ kills' = kills + 1 /\ build' = IdleBuild
      /\ UNCHANGED <<run, measured, out, archive>>
  BY PackagedWords
<1>2. kills \in 0..Kills /\ Kills \in Nat
  BY ReleaseConstants DEF ReleaseInv, BuildTyped
<1>3. kills' \in 0..Kills
  BY <1>1, <1>2
<1>4. ArchiveRight'
  BY <1>1 DEF ReleaseInv, ArchiveRight
<1>5. QED
  BY <1>1, <1>3, <1>4, IdleKeeps

\* What a finalization does next is typed, when it changes nothing else.
LEMMA BuildAgain ==
    ASSUME BuildTyped, UNCHANGED <<out, kills>>,
           build' \in [pc : {"idle", "reset"} \cup Making \cup Ending, slot : 1..(Slots + 1),
                       chosen : Runs \cup {None}, why : {None, "incomplete", "no run"},
                       loaded : {build'.loaded}, hashed : {build'.hashed}, rows : Seq(Row)],
           Len(build'.rows) <= Slots
    PROVE  BuildTyped'
<1>1. out' = out /\ kills' = kills
  OBVIOUS
<1>2. /\ out' \in [claims : {out'.claims}, results : {out'.results},
                   report : {"absent", "part", "whole"}, sums : SUBSET (1..Slots)]
      /\ out'.claims = [k \in DOMAIN out'.claims |-> out'.claims[k]]
      /\ DOMAIN out'.claims \subseteq 1..Slots /\ kills' \in 0..Kills
  BY <1>1, Zenon DEF BuildTyped
<1>3. QED
  BY <1>2, Zenon DEF BuildTyped

\* A finalization that starts knows nothing.
LEMMA BeginKeeps ==
    ASSUME ReleaseInv, BuildStarted
    PROVE  ReleaseInv'
<1>1. /\ build' = [pc |-> "reset", slot |-> 1, chosen |-> None, why |-> None, loaded |-> None,
                   hashed |-> None, rows |-> << >>]
      /\ UNCHANGED <<run, measured, out, archive, kills>>
  BY BeginWords
<1>2. /\ build'.pc = "reset" /\ build'.slot = 1 /\ build'.rows = << >>
  BY <1>1
<1>3. DOMAIN build'.rows = {} /\ Len(build'.rows) = 0
  BY <1>2
<1>4. BuildTyped'
  <2>1. 1 \in 1..(Slots + 1) /\ << >> \in Seq(Row) /\ 0 <= Slots
    BY SlotsNumber
  <2>2. build' \in [pc : {"idle", "reset"} \cup Making \cup Ending, slot : 1..(Slots + 1),
                    chosen : Runs \cup {None}, why : {None, "incomplete", "no run"},
                    loaded : {build'.loaded}, hashed : {build'.hashed}, rows : Seq(Row)]
    BY <1>1, <2>1
  <2>3. BuildTyped /\ UNCHANGED <<out, kills>> /\ Len(build'.rows) <= Slots
    BY <1>1, <1>3, <2>1 DEF ReleaseInv
  <2>4. QED
    BY <2>2, <2>3, BuildAgain, Zenon
<1>5. RowsRight'
  BY <1>3 DEF RowsRight
<1>6. SlotRight' /\ ProgressRight'
  BY <1>2, <1>3 DEF SlotRight, ProgressRight, OnSlot, Copied, Making, Ending
<1>7. RunsRight' /\ ClaimsRight' /\ ArchiveRight'
  BY <1>1 DEF ReleaseInv, RunsRight, ClaimsRight, ArchiveRight
<1>8. QED
  BY <1>4, <1>5, <1>6, <1>7 DEF ReleaseInv

\* The directory is empty when the slots are gone through.
LEMMA ResetKeeps ==
    ASSUME ReleaseInv, OutputReset
    PROVE  ReleaseInv'
<1>1. /\ build.pc = "reset" /\ build' = [build EXCEPT !.pc = "choose"]
      /\ out' = [claims |-> [k \in {} |-> None], results |-> None, report |-> "absent", sums |-> {}]
      /\ UNCHANGED <<run, measured, archive, kills>>
  BY BeginWords
<1>2. BuildTyped /\ build.rows = << >> /\ build.slot = Len(build.rows) + 1
  BY <1>1 DEF ReleaseInv, ProgressRight
<1>3. /\ build' \in [pc : {"choose"}, slot : {build.slot}, chosen : Runs \cup {None},
                     why : {None, "incomplete", "no run"}, loaded : {build'.loaded},
                     hashed : {build'.hashed}, rows : {build.rows}]
  BY <1>1, <1>2 DEF BuildTyped
<1>4. DOMAIN build.rows = {} /\ Sourced(build.rows) = {}
  BY <1>2 DEF Sourced
<1>5. /\ out'.results = None /\ DOMAIN out'.claims = {} /\ out'.report = "absent" /\ out'.sums = {}
      /\ out'.claims = [k \in DOMAIN out'.claims |-> out'.claims[k]]
  BY <1>1
<1>6. BuildTyped'
  <2>1. out' \in [claims : {out'.claims}, results : {out'.results}, report : {"absent", "part", "whole"},
                  sums : SUBSET (1..Slots)]
    BY <1>1
  <2>2. QED
    BY <1>1, <1>2, <1>3, <1>5, <2>1 DEF BuildTyped, Making
<1>7. RowsRight'
  BY <1>3, <1>4 DEF RowsRight
<1>8. SlotRight'
  BY <1>3 DEF SlotRight, OnSlot, Copied
<1>9. ProgressRight'
  BY <1>2, <1>3, <1>4, <1>5 DEF ProgressRight, Making, Copied, Ending
<1>10. RunsRight' /\ ClaimsRight' /\ ArchiveRight'
  BY <1>1, <1>5 DEF ReleaseInv, RunsRight, ClaimsRight, ArchiveRight
<1>11. QED
  BY <1>6, <1>7, <1>8, <1>9, <1>10 DEF ReleaseInv

\* Rows with one more.
LEMMA NextRow ==
    ASSUME NEW s \in Seq(Row), NEW e \in Row
    PROVE  /\ Append(s, e) \in Seq(Row) /\ Len(Append(s, e)) = Len(s) + 1 /\ Len(s) \in Nat
           /\ DOMAIN Append(s, e) = DOMAIN s \cup {Len(s) + 1} /\ Len(s) + 1 \notin DOMAIN s
           /\ \A k \in DOMAIN s : Append(s, e)[k] = s[k]
           /\ Append(s, e)[Len(s) + 1] = e
<1>1. /\ Append(s, e) \in Seq(Row) /\ Len(Append(s, e)) = Len(s) + 1 /\ Len(s) \in Nat
      /\ DOMAIN s = 1..Len(s)
  OBVIOUS
<1>2. DOMAIN Append(s, e) = 1..(Len(s) + 1)
  OBVIOUS
<1>3. 1..(Len(s) + 1) = (1..Len(s)) \cup {Len(s) + 1} /\ Len(s) + 1 \notin 1..Len(s)
  BY <1>1
<1>4. \A k \in DOMAIN s : Append(s, e)[k] = s[k]
  OBVIOUS
<1>5. Append(s, e)[Len(s) + 1] = e
  OBVIOUS
<1>6. QED
  BY <1>1, <1>2, <1>3, <1>4, <1>5

\* The slot after one of the slots.
LEMMA SlotAfter ==
    ASSUME NEW s, NEW l \in Nat, s = l + 1, s <= Slots
    PROVE  s + 1 \in 1..(Slots + 1) /\ s \in 1..Slots
  BY SlotsNumber

\* A row is added for the slot, which has a run or has none.
LEMMA RowKeeps ==
    ASSUME ReleaseInv, NEW row \in Row, RowAdded(row), RowExplained(row),
           UNCHANGED <<run, measured, out, archive, kills>>,
           build.slot <= Slots,
           \/ build.pc = "choose" /\ row.source = None
           \/ build.pc = "hash results" /\ row.source # None,
           row.state = "COMPLETE" => row.source # None,
           row.source # None =>
              /\ row.digests \in Claim /\ out.claims[build.slot] \in Claim
              /\ Before(out.claims[build.slot].manifest, row.digests.manifest)
              /\ Before(out.claims[build.slot].results, row.digests.results)
              /\ There(row.source)
              /\ Before(row.digests.manifest, run[row.source].manifest)
              /\ Before(row.digests.results, run[row.source].results)
              /\ row.state = "COMPLETE" => Fully(row.digests.results, build.slot)
    PROVE  ReleaseInv'
<1> DEFINE rows == build.rows
<1> DEFINE more == Append(build.rows, row)
<1>1. BuildTyped /\ RowsRight /\ ProgressRight /\ build.pc \in Making /\ build.pc # "idle"
  BY DEF ReleaseInv, Making
<1>2. rows \in Seq(Row) /\ build.slot = Len(rows) + 1
  BY <1>1 DEF BuildTyped, ProgressRight
<1>3. build' = [build EXCEPT !.pc = "choose", !.slot = @ + 1, !.rows = more]
  BY DEF RowAdded
<1>4. /\ more \in Seq(Row) /\ Len(more) = build.slot /\ Len(rows) \in Nat
      /\ DOMAIN more = DOMAIN rows \cup {build.slot} /\ build.slot \notin DOMAIN rows
      /\ \A k \in DOMAIN rows : more[k] = rows[k]
      /\ more[build.slot] = row
  <2>1. /\ more \in Seq(Row) /\ Len(more) = Len(rows) + 1 /\ Len(rows) \in Nat
        /\ DOMAIN more = DOMAIN rows \cup {Len(rows) + 1} /\ Len(rows) + 1 \notin DOMAIN rows
        /\ \A k \in DOMAIN rows : more[k] = rows[k]
        /\ more[Len(rows) + 1] = row
    BY <1>2, NextRow, Zenon
  <2> HIDE DEF rows, more
  <2>2. QED
    BY <1>2, <2>1
<1> HIDE DEF rows, more
<1>5. /\ build'.pc = "choose" /\ build'.slot = build.slot + 1 /\ build'.rows = more
      /\ build'.chosen = build.chosen /\ build'.why = build.why
      /\ build' \in [pc : {"choose"}, slot : {build.slot + 1}, chosen : Runs \cup {None},
                     why : {None, "incomplete", "no run"}, loaded : {build'.loaded},
                     hashed : {build'.hashed}, rows : {more}]
  BY <1>1, <1>3 DEF BuildTyped
<1>6. BuildTyped'
  <2>1. build.slot + 1 \in 1..(Slots + 1)
    BY <1>2, <1>4, SlotAfter
  <2>2. Len(more) <= Slots
    BY <1>4
  <2>3. build' \in [pc : {"idle", "reset"} \cup Making \cup Ending, slot : 1..(Slots + 1),
                    chosen : Runs \cup {None}, why : {None, "incomplete", "no run"},
                    loaded : {build'.loaded}, hashed : {build'.hashed}, rows : Seq(Row)]
    BY <1>4, <1>5, <2>1 DEF Making
  <2>4. QED
    BY <1>1, <1>5, <2>2, <2>3, BuildAgain
<1>7. RowsRight'
  <2>1. \A k \in DOMAIN rows : RowExplained(rows[k])
        /\ (rows[k].state = "COMPLETE" => rows[k].source # None)
    BY <1>1 DEF RowsRight, rows
  <2>2. ASSUME NEW k \in DOMAIN rows PROVE RowRight(k)'
    <3>1. build'.rows[k] = build.rows[k] /\ RowRight(k)
      BY <1>1, <1>4, <1>5, <2>2 DEF RowsRight, rows
    <3>2. QED
      BY <3>1 DEF RowRight, There
  <2>3. ASSUME NEW k \in DOMAIN more, k \notin DOMAIN rows PROVE RowRight(k)'
    <3>1. k = build.slot /\ build'.rows[k] = row
      BY <1>4, <1>5, <2>3
    <3>2. QED
      BY <3>1 DEF RowRight, There
  <2>4. \A k \in DOMAIN more : RowExplained(more[k]) /\ (more[k].state = "COMPLETE" => more[k].source # None)
    <3>1. SUFFICES ASSUME NEW k \in DOMAIN more
                   PROVE  RowExplained(more[k]) /\ (more[k].state = "COMPLETE" => more[k].source # None)
      OBVIOUS
    <3>2. (k \in DOMAIN rows /\ more[k] = rows[k]) \/ more[k] = row
      BY <1>4
    <3>3. QED
      BY <2>1, <3>2, Zenon
  <2>5. QED
    BY <1>5, <2>2, <2>3, <2>4, Zenon DEF RowsRight, RowExplained
<1>8. SlotRight'
  BY <1>5 DEF SlotRight, OnSlot, Copied
<1>9. ProgressRight'
  <2>1. Sourced(more) = Sourced(rows) \cup (IF row.source # None THEN {build.slot} ELSE {})
    BY <1>4 DEF Sourced
  <2>2. /\ out.results = None
        /\ DOMAIN out.claims = Sourced(rows) \cup (IF build.pc \in Copied THEN {build.slot} ELSE {})
    BY <1>1 DEF ProgressRight, rows
  <2>3. DOMAIN out.claims = Sourced(more)
    BY <2>1, <2>2 DEF Copied
  <2>4. QED
    BY <1>4, <1>5, <2>2, <2>3 DEF ProgressRight, Making, Copied, Ending
<1>10. RunsRight' /\ ClaimsRight' /\ ArchiveRight'
  BY DEF ReleaseInv, RunsRight, ClaimsRight, ArchiveRight
<1>11. QED
  BY <1>6, <1>7, <1>8, <1>9, <1>10 DEF ReleaseInv

\* A slot for which a run is chosen has it; one without has its row.
LEMMA ChosenKeeps ==
    ASSUME ReleaseInv, RunChosen
    PROVE  ReleaseInv'
<1>1. build.pc = "choose" /\ build.slot <= Slots /\ UNCHANGED <<run, measured, out, archive, kills>>
  BY ChosenWords
<1>2. BuildTyped /\ RowsRight /\ ProgressRight
  BY DEF ReleaseInv
<1>3. build.slot \in 1..Slots
  <2>1. build.slot \in 1..(Slots + 1)
    BY <1>2 DEF BuildTyped
  <2>2. QED
    BY <1>1, <2>1, SlotsNumber
<1> DEFINE row == [state |-> "INCOMPLETE", why |-> Why(build.slot), source |-> None, digests |-> None]
<1>4. CASE Chosen(build.slot) = None /\ RowAdded(row)
  <2>1. Why(build.slot) = "no run"
    BY <1>3, <1>4, ChoiceWords, ReleaseConstants
  <2>2. row \in Row /\ row.source = None /\ row.state = "INCOMPLETE" /\ row.why = "no run"
    BY <2>1 DEF Row
  <2>3. RowExplained(row)
    BY <2>2, ReleaseConstants DEF RowExplained
  <2> HIDE DEF row
  <2>4. QED
    BY <1>1, <1>4, <2>2, <2>3, RowKeeps
<1>5. CASE /\ Chosen(build.slot) # None
           /\ build' = [build EXCEPT !.pc = "load", !.chosen = Chosen(build.slot),
                                     !.why = Why(build.slot)]
  <2>1. /\ Chosen(build.slot) \in Runs /\ Why(build.slot) \in {None, "incomplete"}
        /\ run[Chosen(build.slot)].manifest # None /\ run[Chosen(build.slot)].results # None
        /\ (Why(build.slot) = None) <=> Fully(run[Chosen(build.slot)].results, build.slot)
    BY <1>3, <1>5, ChoiceWords
  <2>2. There(Chosen(build.slot))
    BY <2>1 DEF ReleaseInv, RunsRight, There
  <2>3. /\ build'.pc = "load" /\ build'.chosen = Chosen(build.slot) /\ build'.why = Why(build.slot)
        /\ build'.slot = build.slot /\ build'.rows = build.rows
        /\ build' \in [pc : {"load"}, slot : {build.slot}, chosen : Runs \cup {None},
                       why : {None, "incomplete", "no run"}, loaded : {build'.loaded},
                       hashed : {build'.hashed}, rows : {build.rows}]
    BY <1>2, <1>5, <2>1 DEF BuildTyped
  <2>4. BuildTyped'
    <3>1. build.slot \in 1..(Slots + 1) /\ build.rows \in Seq(Row) /\ Len(build.rows) <= Slots
      BY <1>2 DEF BuildTyped
    <3>2. QED
      BY <1>1, <1>2, <2>3, <3>1, BuildAgain DEF Making
  <2>5. RowsRight'
    BY <1>1, <1>2, <2>3, RowsStay
  <2>6. SlotRight'
    <3>1. /\ build'.slot <= Slots /\ build'.chosen # None
          /\ There(build.chosen)'
      BY <1>1, <1>5, <2>2, <2>3 DEF There
    <3>2. (build'.why = None) <=> Fully(run'[build'.chosen].results, build'.slot)
      BY <1>1, <2>1, <2>3, Zenon
    <3>3. build'.pc \notin OnSlot \ {"load"} /\ build'.pc \notin Copied
          /\ build'.pc \notin {"hash manifest", "hash results"} /\ build'.pc # "hash results"
      BY <2>3 DEF Copied
    <3>4. QED
      BY <3>1, <3>2, <3>3, Zenon DEF SlotRight
  <2>7. ProgressRight'
    BY <1>1, <1>2, <2>3 DEF ProgressRight, Making, Copied, Ending
  <2>8. RunsRight' /\ ClaimsRight' /\ ArchiveRight'
    BY <1>1 DEF ReleaseInv, RunsRight, ClaimsRight, ArchiveRight
  <2>9. QED
    BY <2>4, <2>5, <2>6, <2>7, <2>8 DEF ReleaseInv
<1>6. QED
  BY <1>4, <1>5, ChosenWords

\* A step on the slot that is being taken, which leaves the rows and their claims.
LEMMA SlotStep ==
    ASSUME ReleaseInv, build.pc \in OnSlot, NEW p \in OnSlot,
           build' \in [pc : {p}, slot : {build.slot}, chosen : {build.chosen}, why : {build.why},
                       loaded : {build'.loaded}, hashed : {build'.hashed}, rows : {build.rows}],
           UNCHANGED <<run, measured, archive, kills>>,
           out' \in [claims : {out'.claims}, results : {None}, report : {out.report}, sums : {out.sums}],
           out'.claims = [k \in DOMAIN out'.claims |-> out'.claims[k]],
           DOMAIN out'.claims = Sourced(build.rows) \cup (IF p \in Copied THEN {build.slot} ELSE {}),
           \A k \in Sourced(build.rows) : out'.claims[k] = out.claims[k],
           SlotRight'
    PROVE  ReleaseInv'
<1>1. BuildTyped /\ RowsRight /\ ProgressRight /\ SlotRight /\ build.pc # "idle" /\ build.pc \in Making
  BY DEF ReleaseInv, OnSlot, Making
<1>2. /\ build'.pc = p /\ build'.slot = build.slot /\ build'.rows = build.rows
      /\ out'.results = None
  OBVIOUS
<1>3. build.slot \in 1..(Slots + 1) /\ build.rows \in Seq(Row) /\ Len(build.rows) <= Slots
  BY <1>1 DEF BuildTyped
<1>4. DOMAIN out'.claims \subseteq 1..Slots
  <2>1. Sourced(build.rows) \subseteq 1..Slots
    BY <1>1, RowIsRow DEF Sourced
  <2>2. build.slot <= Slots
    BY <1>1 DEF SlotRight
  <2>3. build.slot \in 1..Slots
    BY <1>3, <2>2, SlotsNumber
  <2>4. QED
    BY <2>1, <2>3
<1>5. BuildTyped'
  <2>1. build' \in [pc : {"idle", "reset"} \cup Making \cup Ending, slot : 1..(Slots + 1),
                    chosen : Runs \cup {None}, why : {None, "incomplete", "no run"},
                    loaded : {build'.loaded}, hashed : {build'.hashed}, rows : Seq(Row)]
    BY <1>1, <1>3 DEF BuildTyped, OnSlot, Making
  <2>2. out.report \in {"absent", "part", "whole"} /\ out.sums \in SUBSET (1..Slots)
    BY <1>1 DEF BuildTyped
  <2>3. out' \in [claims : {out'.claims}, results : {out'.results}, report : {"absent", "part", "whole"},
                  sums : SUBSET (1..Slots)]
    BY <2>2
  <2>4. kills' \in 0..Kills
    BY <1>1 DEF BuildTyped
  <2>5. QED
    BY <1>2, <1>3, <1>4, <2>1, <2>3, <2>4 DEF BuildTyped
<1>6. RowsRight'
  BY <1>1, <1>2, RowsStay
<1>7. ProgressRight'
  BY <1>1, <1>2 DEF ProgressRight, Making, OnSlot, Ending
<1>8. RunsRight' /\ ClaimsRight' /\ ArchiveRight'
  BY <1>2 DEF ReleaseInv, RunsRight, ClaimsRight, ArchiveRight
<1>9. QED
  BY <1>5, <1>6, <1>7, <1>8 DEF ReleaseInv

\* What a finalization on a slot knows of it.
LEMMA OnSlotKnows ==
    ASSUME ReleaseInv, build.pc \in OnSlot
    PROVE  /\ build \in [pc : OnSlot, slot : {build.slot}, chosen : Runs, why : {build.why},
                         loaded : {build.loaded}, hashed : {build.hashed}, rows : {build.rows}]
           /\ out \in [claims : {out.claims}, results : {None}, report : {out.report}, sums : {out.sums}]
           /\ out.claims = [k \in DOMAIN out.claims |-> out.claims[k]]
           /\ DOMAIN out.claims =
                 Sourced(build.rows) \cup (IF build.pc \in Copied THEN {build.slot} ELSE {})
           /\ build.slot \notin DOMAIN build.rows
           /\ SlotRight /\ There(build.chosen)
           /\ run[build.chosen].manifest \in Manifest /\ run[build.chosen].results \in Result
<1>1. BuildTyped /\ ProgressRight /\ SlotRight /\ build.pc \in Making
  BY DEF ReleaseInv, OnSlot, Making
<1>2. There(build.chosen) /\ build.chosen # None
  BY <1>1 DEF SlotRight
<1>3. /\ build \in [pc : OnSlot, slot : {build.slot}, chosen : Runs, why : {build.why},
                    loaded : {build.loaded}, hashed : {build.hashed}, rows : {build.rows}]
  BY <1>1, <1>2 DEF BuildTyped
<1>4. /\ out \in [claims : {out.claims}, results : {None}, report : {out.report}, sums : {out.sums}]
      /\ out.claims = [k \in DOMAIN out.claims |-> out.claims[k]]
  BY <1>1 DEF BuildTyped, ProgressRight
<1>5. DOMAIN out.claims =
          Sourced(build.rows) \cup (IF build.pc \in Copied THEN {build.slot} ELSE {})
  BY <1>1 DEF ProgressRight
<1>6. build.slot \notin DOMAIN build.rows
  <2>1. build.slot = Len(build.rows) + 1 /\ build.rows \in Seq(Row)
    BY <1>1 DEF ProgressRight, BuildTyped
  <2>2. QED
    BY <2>1
<1>7. QED
  BY <1>1, <1>2, <1>3, <1>4, <1>5, <1>6 DEF There

\* The results that are loaded are those of the run.
LEMMA LoadedKeeps ==
    ASSUME ReleaseInv, RunLoaded
    PROVE  ReleaseInv'
<1>1. /\ build.pc = "load" /\ UNCHANGED <<run, measured, out, archive, kills>>
      /\ build' = [build EXCEPT !.pc = "copy manifest", !.loaded = run[build.chosen].results]
  BY TakenWords
<1>2. build.pc \in OnSlot /\ build.pc \notin Copied
  BY <1>1 DEF OnSlot, Copied
<1>3. /\ build \in [pc : OnSlot, slot : {build.slot}, chosen : Runs, why : {build.why},
                    loaded : {build.loaded}, hashed : {build.hashed}, rows : {build.rows}]
      /\ out \in [claims : {out.claims}, results : {None}, report : {out.report}, sums : {out.sums}]
      /\ out.claims = [k \in DOMAIN out.claims |-> out.claims[k]]
      /\ DOMAIN out.claims = Sourced(build.rows)
      /\ SlotRight /\ run[build.chosen].results \in Result
  BY <1>2, OnSlotKnows
<1>4. /\ build'.pc = "copy manifest" /\ build'.slot = build.slot /\ build'.chosen = build.chosen
      /\ build'.why = build.why /\ build'.loaded = run[build.chosen].results
      /\ build' \in [pc : {"copy manifest"}, slot : {build.slot}, chosen : {build.chosen},
                     why : {build.why}, loaded : {build'.loaded}, hashed : {build'.hashed},
                     rows : {build.rows}]
  BY <1>1, <1>3
<1>5. SlotRight'
  <2>1. /\ build.slot <= Slots /\ build.chosen # None /\ There(build.chosen)
        /\ (build.why = None) <=> Fully(run[build.chosen].results, build.slot)
    BY <1>2, <1>3 DEF SlotRight
  <2>2. /\ build'.loaded \in Result /\ Before(build'.loaded, run'[build'.chosen].results)
        /\ There(build.chosen)' /\ run' = run
    BY <1>1, <1>3, <1>4, <2>1 DEF Before, There
  <2>3. build'.pc \notin Copied /\ build'.pc \notin {"hash manifest", "hash results"} /\ build'.pc # "hash results"
    BY <1>4 DEF Copied
  <2>4. QED
    BY <1>4, <2>1, <2>2, <2>3, Zenon DEF SlotRight
<1>6. "copy manifest" \in OnSlot /\ "copy manifest" \notin Copied
  BY DEF OnSlot, Copied
<1>7. out' = out /\ build.pc \in OnSlot /\ UNCHANGED <<run, measured, archive, kills>>
  BY <1>1, <1>2
<1>8. /\ out' \in [claims : {out'.claims}, results : {None}, report : {out.report}, sums : {out.sums}]
      /\ out'.claims = [k \in DOMAIN out'.claims |-> out'.claims[k]]
      /\ \A k \in Sourced(build.rows) : out'.claims[k] = out.claims[k]
      /\ DOMAIN out'.claims =
            Sourced(build.rows) \cup (IF "copy manifest" \in Copied THEN {build.slot} ELSE {})
  BY <1>3, <1>6, <1>7
<1>9. build' \in [pc : {"copy manifest"}, slot : {build.slot}, chosen : {build.chosen},
                  why : {build.why}, loaded : {build'.loaded}, hashed : {build'.hashed},
                  rows : {build.rows}]
  BY <1>4
<1>10. QED
  BY <1>5, <1>6, <1>7, <1>8, <1>9, SlotStep, Zenon

\* The manifest that is copied is the run's.
LEMMA ManifestCopiedKeeps ==
    ASSUME ReleaseInv, ManifestCopied
    PROVE  ReleaseInv'
<1> DEFINE claim == [manifest |-> run[build.chosen].manifest, results |-> None]
<1> DEFINE more == [k \in DOMAIN out.claims \cup {build.slot} |->
                       IF k = build.slot THEN claim ELSE out.claims[k]]
<1>1. /\ build.pc = "copy manifest" /\ UNCHANGED <<run, measured, archive, kills>>
      /\ build' = [build EXCEPT !.pc = "copy results"]
      /\ out' = [out EXCEPT !.claims = more]
  BY TakenWords
<1>2. build.pc \in OnSlot \ {"load"} /\ build.pc \notin Copied
  BY <1>1 DEF OnSlot, Copied
<1>3. /\ build \in [pc : OnSlot, slot : {build.slot}, chosen : Runs, why : {build.why},
                    loaded : {build.loaded}, hashed : {build.hashed}, rows : {build.rows}]
      /\ out \in [claims : {out.claims}, results : {None}, report : {out.report}, sums : {out.sums}]
      /\ DOMAIN out.claims = Sourced(build.rows) /\ build.slot \notin DOMAIN build.rows
      /\ SlotRight /\ There(build.chosen) /\ run[build.chosen].manifest \in Manifest
  BY <1>2, OnSlotKnows
<1>4. claim \in [manifest : Manifest, results : Result \cup {None}]
      /\ claim.manifest = run[build.chosen].manifest
  BY <1>3
<1> HIDE DEF claim
<1>5. /\ DOMAIN more = Sourced(build.rows) \cup {build.slot} /\ more[build.slot] = claim
      /\ more = [k \in DOMAIN more |-> more[k]]
      /\ \A k \in Sourced(build.rows) : more[k] = out.claims[k]
  BY <1>3 DEF Sourced
<1> HIDE DEF more
<1>6. /\ out' \in [claims : {more}, results : {None}, report : {out.report}, sums : {out.sums}]
      /\ out'.claims = more
  BY <1>1, <1>3
<1>7. /\ build'.pc = "copy results" /\ build'.slot = build.slot /\ build'.chosen = build.chosen
      /\ build'.why = build.why /\ build'.loaded = build.loaded
      /\ build' \in [pc : {"copy results"}, slot : {build.slot}, chosen : {build.chosen},
                     why : {build.why}, loaded : {build'.loaded}, hashed : {build'.hashed},
                     rows : {build.rows}]
  BY <1>1, <1>3
<1>8. SlotRight'
  <2>1. /\ build.slot <= Slots /\ build.chosen # None
        /\ (build.why = None) <=> Fully(run[build.chosen].results, build.slot)
        /\ build.loaded \in Result /\ Before(build.loaded, run[build.chosen].results)
    BY <1>2, <1>3 DEF SlotRight
  <2>2. /\ out'.claims[build'.slot] \in [manifest : Manifest, results : Result \cup {None}]
        /\ Before(out'.claims[build'.slot].manifest, run'[build'.chosen].manifest)
        /\ There(build.chosen)' /\ run' = run
    BY <1>1, <1>3, <1>4, <1>5, <1>6, <1>7 DEF Before, There
  <2>3. build'.pc \notin {"hash manifest", "hash results"} /\ build'.pc # "hash results"
    BY <1>7
  <2>4. QED
    BY <1>7, <2>1, <2>2, <2>3, Zenon DEF SlotRight
<1>9. "copy results" \in OnSlot /\ "copy results" \in Copied
  BY DEF OnSlot, Copied
<1>10. /\ DOMAIN out'.claims = Sourced(build.rows) \cup {build.slot}
       /\ out'.claims = [k \in DOMAIN out'.claims |-> out'.claims[k]]
       /\ \A k \in Sourced(build.rows) : out'.claims[k] = out.claims[k]
  BY <1>5, <1>6
<1>11. /\ build.pc \in OnSlot /\ UNCHANGED <<run, measured, archive, kills>>
       /\ build' \in [pc : {"copy results"}, slot : {build.slot}, chosen : {build.chosen},
                      why : {build.why}, loaded : {build'.loaded}, hashed : {build'.hashed},
                      rows : {build.rows}]
  BY <1>1, <1>2, <1>7
<1>12. /\ out' \in [claims : {out'.claims}, results : {None}, report : {out.report}, sums : {out.sums}]
       /\ DOMAIN out'.claims =
             Sourced(build.rows) \cup (IF "copy results" \in Copied THEN {build.slot} ELSE {})
  BY <1>6, <1>9, <1>10
<1>13. QED
  BY <1>8, <1>9, <1>10, <1>11, <1>12, SlotStep, Zenon

\* The results that are copied are the run's.
LEMMA ResultsCopiedKeeps ==
    ASSUME ReleaseInv, ResultsCopied
    PROVE  ReleaseInv'
<1> DEFINE doc == run[build.chosen].results
<1> DEFINE more == [out.claims EXCEPT ![build.slot].results = doc]
<1>1. /\ build.pc = "copy results" /\ UNCHANGED <<run, measured, archive, kills>>
      /\ build' = [build EXCEPT !.pc = "hash manifest"]
      /\ out' = [out EXCEPT !.claims[build.slot].results = doc]
  BY TakenWords
<1>2. build.pc \in OnSlot \ {"load"} /\ build.pc \in Copied
  BY <1>1 DEF OnSlot, Copied
<1>3. /\ build \in [pc : OnSlot, slot : {build.slot}, chosen : Runs, why : {build.why},
                    loaded : {build.loaded}, hashed : {build.hashed}, rows : {build.rows}]
      /\ out \in [claims : {out.claims}, results : {None}, report : {out.report}, sums : {out.sums}]
      /\ out.claims = [k \in DOMAIN out.claims |-> out.claims[k]]
      /\ DOMAIN out.claims = Sourced(build.rows) \cup {build.slot} /\ build.slot \notin DOMAIN build.rows
      /\ SlotRight /\ There(build.chosen) /\ doc \in Result
  BY <1>2, OnSlotKnows
<1>4. /\ build.slot <= Slots /\ build.chosen # None
      /\ (build.why = None) <=> Fully(run[build.chosen].results, build.slot)
      /\ build.loaded \in Result /\ Before(build.loaded, run[build.chosen].results)
      /\ out.claims[build.slot] \in [manifest : Manifest, results : Result \cup {None}]
      /\ Before(out.claims[build.slot].manifest, run[build.chosen].manifest)
  BY <1>2, <1>3 DEF SlotRight
<1>5. out' = [out EXCEPT !.claims = more]
  BY <1>1, <1>3
<1> HIDE DEF doc
<1>6. /\ DOMAIN more = DOMAIN out.claims /\ more = [k \in DOMAIN more |-> more[k]]
      /\ \A k \in DOMAIN out.claims : k # build.slot => more[k] = out.claims[k]
      /\ more[build.slot] = [out.claims[build.slot] EXCEPT !.results = doc]
  BY <1>3
<1>7. /\ more[build.slot] \in [manifest : Manifest, results : Result \cup {None}]
      /\ more[build.slot].manifest = out.claims[build.slot].manifest
      /\ more[build.slot].results = doc
  BY <1>3, <1>4, <1>6
<1> HIDE DEF more
<1>8. /\ out' \in [claims : {more}, results : {None}, report : {out.report}, sums : {out.sums}]
      /\ out'.claims = more
  BY <1>3, <1>5
<1>9. /\ build'.pc = "hash manifest" /\ build'.slot = build.slot /\ build'.chosen = build.chosen
      /\ build'.why = build.why /\ build'.loaded = build.loaded
      /\ build' \in [pc : {"hash manifest"}, slot : {build.slot}, chosen : {build.chosen},
                     why : {build.why}, loaded : {build'.loaded}, hashed : {build'.hashed},
                     rows : {build.rows}]
  BY <1>1, <1>3
<1>10. SlotRight'
  <2>1. /\ out'.claims[build'.slot] \in [manifest : Manifest, results : Result \cup {None}]
        /\ Before(out'.claims[build'.slot].manifest, run'[build'.chosen].manifest)
        /\ There(build.chosen)' /\ run' = run
    BY <1>1, <1>3, <1>4, <1>7, <1>8, <1>9 DEF There
  <2>2. /\ out'.claims[build'.slot].results \in Result
        /\ Before(out'.claims[build'.slot].results, run'[build'.chosen].results)
    BY <1>1, <1>3, <1>7, <1>8, <1>9 DEF Before, doc
  <2>3. build'.pc # "hash results"
    BY <1>9
  <2>4. QED
    BY <1>4, <1>9, <2>1, <2>2, <2>3, Zenon DEF SlotRight
<1>11. "hash manifest" \in OnSlot /\ "hash manifest" \in Copied
  BY DEF OnSlot, Copied
<1>12. /\ DOMAIN out'.claims = Sourced(build.rows) \cup {build.slot}
       /\ out'.claims = [k \in DOMAIN out'.claims |-> out'.claims[k]]
       /\ \A k \in Sourced(build.rows) : out'.claims[k] = out.claims[k]
  BY <1>3, <1>6, <1>8 DEF Sourced
<1>13. /\ build.pc \in OnSlot /\ UNCHANGED <<run, measured, archive, kills>>
       /\ build' \in [pc : {"hash manifest"}, slot : {build.slot}, chosen : {build.chosen},
                      why : {build.why}, loaded : {build'.loaded}, hashed : {build'.hashed},
                      rows : {build.rows}]
  BY <1>1, <1>2, <1>9
<1>14. /\ out' \in [claims : {out'.claims}, results : {None}, report : {out.report}, sums : {out.sums}]
       /\ DOMAIN out'.claims =
             Sourced(build.rows) \cup (IF "hash manifest" \in Copied THEN {build.slot} ELSE {})
  BY <1>8, <1>11, <1>12
<1>15. QED
  BY <1>10, <1>11, <1>12, <1>13, <1>14, SlotStep, Zenon

\* The digest of the manifest is that of the run's.
LEMMA ManifestHashedKeeps ==
    ASSUME ReleaseInv, ManifestHashed
    PROVE  ReleaseInv'
<1>1. /\ build.pc = "hash manifest" /\ UNCHANGED <<run, measured, out, archive, kills>>
      /\ build' = [build EXCEPT !.pc = "hash results", !.hashed = run[build.chosen].manifest]
  BY TakenWords
<1>2. build.pc \in OnSlot \ {"load"} /\ build.pc \in Copied
  BY <1>1 DEF OnSlot, Copied
<1>3. /\ build \in [pc : OnSlot, slot : {build.slot}, chosen : Runs, why : {build.why},
                    loaded : {build.loaded}, hashed : {build.hashed}, rows : {build.rows}]
      /\ out \in [claims : {out.claims}, results : {None}, report : {out.report}, sums : {out.sums}]
      /\ out.claims = [k \in DOMAIN out.claims |-> out.claims[k]]
      /\ DOMAIN out.claims = Sourced(build.rows) \cup {build.slot}
      /\ SlotRight /\ There(build.chosen) /\ run[build.chosen].manifest \in Manifest
  BY <1>2, OnSlotKnows
<1>4. /\ build.slot <= Slots /\ build.chosen # None
      /\ (build.why = None) <=> Fully(run[build.chosen].results, build.slot)
      /\ build.loaded \in Result /\ Before(build.loaded, run[build.chosen].results)
      /\ out.claims[build.slot] \in [manifest : Manifest, results : Result \cup {None}]
      /\ Before(out.claims[build.slot].manifest, run[build.chosen].manifest)
      /\ out.claims[build.slot].results \in Result
      /\ Before(out.claims[build.slot].results, run[build.chosen].results)
  BY <1>1, <1>2, <1>3 DEF SlotRight
<1>5. /\ build'.pc = "hash results" /\ build'.slot = build.slot /\ build'.chosen = build.chosen
      /\ build'.why = build.why /\ build'.loaded = build.loaded
      /\ build'.hashed = run[build.chosen].manifest
      /\ build' \in [pc : {"hash results"}, slot : {build.slot}, chosen : {build.chosen},
                     why : {build.why}, loaded : {build'.loaded}, hashed : {build'.hashed},
                     rows : {build.rows}]
  BY <1>1, <1>3
<1>6. SlotRight'
  <2>1. run' = run /\ out' = out /\ There(build.chosen)'
    BY <1>1, <1>3 DEF There
  <2>2. /\ build'.hashed \in Manifest
        /\ Before(out'.claims[build'.slot].manifest, build'.hashed)
        /\ Before(build'.hashed, run'[build'.chosen].manifest)
    BY <1>3, <1>4, <1>5, <2>1 DEF Before
  <2>3. QED
    BY <1>4, <1>5, <2>1, <2>2, Zenon DEF SlotRight
<1>7. "hash results" \in OnSlot /\ "hash results" \in Copied
  BY DEF OnSlot, Copied
<1>8. out' = out /\ build.pc \in OnSlot /\ UNCHANGED <<run, measured, archive, kills>>
  BY <1>1, <1>2
<1>9. /\ out' \in [claims : {out'.claims}, results : {None}, report : {out.report}, sums : {out.sums}]
      /\ out'.claims = [k \in DOMAIN out'.claims |-> out'.claims[k]]
      /\ \A k \in Sourced(build.rows) : out'.claims[k] = out.claims[k]
      /\ DOMAIN out'.claims =
            Sourced(build.rows) \cup (IF "hash results" \in Copied THEN {build.slot} ELSE {})
  BY <1>3, <1>7, <1>8
<1>10. build' \in [pc : {"hash results"}, slot : {build.slot}, chosen : {build.chosen},
                   why : {build.why}, loaded : {build'.loaded}, hashed : {build'.hashed},
                   rows : {build.rows}]
  BY <1>5
<1>11. QED
  BY <1>6, <1>7, <1>8, <1>9, <1>10, SlotStep, Zenon

\* The row has the digests, and is complete just when nothing is said against it.
LEMMA HashedKeeps ==
    ASSUME ReleaseInv, ResultsHashed
    PROVE  ReleaseInv'
<1> DEFINE digests == [manifest |-> build.hashed, results |-> run[build.chosen].results]
<1> DEFINE full == Fully(build.loaded, build.slot)
<1> DEFINE row == [state |-> IF full THEN "COMPLETE" ELSE "INCOMPLETE",
                   why |-> IF full THEN None ELSE build.why,
                   source |-> build.chosen, digests |-> digests]
<1>1. build.pc = "hash results" /\ UNCHANGED <<run, measured, out, archive, kills>> /\ RowAdded(row)
  BY HashedWords
<1>2. build.pc \in OnSlot \ {"load"} /\ build.pc \in Copied
  BY <1>1 DEF OnSlot, Copied
<1>3. /\ SlotRight /\ There(build.chosen) /\ build.chosen \in Runs
      /\ run[build.chosen].manifest \in Manifest /\ run[build.chosen].results \in Result
  BY <1>2, OnSlotKnows
<1>4. /\ build.slot <= Slots /\ build.chosen # None
      /\ (build.why = None) <=> Fully(run[build.chosen].results, build.slot)
      /\ build.loaded \in Result /\ Before(build.loaded, run[build.chosen].results)
      /\ out.claims[build.slot] \in [manifest : Manifest, results : Result \cup {None}]
      /\ out.claims[build.slot].results \in Result
      /\ Before(out.claims[build.slot].results, run[build.chosen].results)
      /\ build.hashed \in Manifest
      /\ Before(out.claims[build.slot].manifest, build.hashed)
      /\ Before(build.hashed, run[build.chosen].manifest)
  BY <1>1, <1>2, <1>3 DEF SlotRight
<1>5. full <=> Fully(run[build.chosen].results, build.slot)
  BY <1>3, <1>4, BeforeFully
<1>6. /\ digests \in Claim /\ digests.manifest = build.hashed
      /\ digests.results = run[build.chosen].results
  BY <1>3, <1>4 DEF Claim
<1>7. build.why \in {None, "incomplete", "no run"}
  BY DEF ReleaseInv, BuildTyped
<1> HIDE DEF full, digests
<1>8. /\ row \in Row /\ row.source = build.chosen /\ row.digests = digests
      /\ row.state = (IF full THEN "COMPLETE" ELSE "INCOMPLETE")
      /\ row.why = (IF full THEN None ELSE build.why)
  BY <1>3, <1>6, <1>7 DEF Row
<1>9. row.state = "COMPLETE" => full
  BY <1>8
<1>10. RowExplained(row)
  BY <1>4, <1>5, <1>8 DEF RowExplained
<1> HIDE DEF row
<1>11. out.claims[build.slot] \in Claim
  BY <1>4 DEF Claim
<1>12. Before(row.digests.results, run[row.source].results)
  BY <1>6, <1>8 DEF Before
<1>13. QED
  BY <1>1, <1>3, <1>4, <1>5, <1>6, <1>8, <1>9, <1>10, <1>11, <1>12, RowKeeps

\* Rows are counted from one.
LEMMA RowsDomain == \A s \in Seq(Row) : DOMAIN s = 1..Len(s)
  OBVIOUS

\* There is a number of rows.
LEMMA RowsLength == \A s \in Seq(Row) : Len(s) \in Nat
  OBVIOUS

\* A step after the last slot, which leaves the rows and the claims.
LEMMA EndingStep ==
    ASSUME ReleaseInv, build.pc # "idle", NEW p \in Ending,
           build' \in [pc : {p}, slot : 1..(Slots + 1), chosen : {build.chosen}, why : {build.why},
                       loaded : {build.loaded}, hashed : {build.hashed}, rows : {build.rows}],
           UNCHANGED <<run, measured, archive, kills>>,
           out' \in [claims : {out.claims}, results : {out'.results},
                     report : {"absent", "part", "whole"}, sums : SUBSET (1..Slots)],
           Len(build.rows) = Slots, out'.results.rows = build.rows,
           DOMAIN out.claims = Sourced(build.rows),
           out'.results.completion_state = "COMPLETE" =>
              \A k \in DOMAIN build.rows : build.rows[k].state = "COMPLETE",
           p \in {"sums", "check", "package"} => out'.report = "whole",
           p \in {"check", "package"} => out'.sums = DOMAIN out.claims,
           p = "package" =>
              /\ \A k \in DOMAIN build.rows : build.rows[k].state = "COMPLETE"
              /\ \A k \in 1..Slots : k < build'.slot => out.claims[k] = build.rows[k].digests
    PROVE  ReleaseInv'
<1>1. /\ BuildTyped /\ RowsRight /\ build.rows \in Seq(Row) /\ Len(build.rows) <= Slots
      /\ build.chosen \in Runs \cup {None} /\ build.why \in {None, "incomplete", "no run"}
      /\ out.claims = [k \in DOMAIN out.claims |-> out.claims[k]] /\ DOMAIN out.claims \subseteq 1..Slots
      /\ kills \in 0..Kills
  BY DEF ReleaseInv, BuildTyped
<1>2. /\ build'.pc = p /\ build'.rows = build.rows /\ out'.claims = out.claims
      /\ p \notin OnSlot /\ p \notin Making /\ p \notin {"idle", "reset"}
  BY DEF Ending, OnSlot, Making
<1>3. BuildTyped'
  <2>1. build' \in [pc : {"idle", "reset"} \cup Making \cup Ending, slot : 1..(Slots + 1),
                    chosen : Runs \cup {None}, why : {None, "incomplete", "no run"},
                    loaded : {build'.loaded}, hashed : {build'.hashed}, rows : Seq(Row)]
    BY <1>1
  <2>2. QED
    BY <1>1, <1>2, <2>1 DEF BuildTyped
<1>4. RowsRight'
  BY <1>1, <1>2, RowsStay
<1>5. SlotRight'
  BY <1>2 DEF SlotRight, OnSlot, Copied
<1>6. ProgressRight'
  <2>1. p \notin {"reset", "choose"}
    BY DEF Ending
  <2>2. QED
    BY <1>2, <2>1 DEF ProgressRight
<1>7. ClaimsRight'
  <2>1. DOMAIN build.rows = 1..Slots
    BY <1>1, RowsDomain
  <2>2. QED
    BY <1>2, <2>1 DEF ClaimsRight, Sourced
<1>8. RunsRight' /\ ArchiveRight'
  BY DEF ReleaseInv, RunsRight, ArchiveRight
<1>9. QED
  BY <1>3, <1>4, <1>5, <1>6, <1>7, <1>8 DEF ReleaseInv

\* What is known after the last slot.
LEMMA EndingKnows ==
    ASSUME ReleaseInv, build.pc \in Ending
    PROVE  /\ build \in [pc : Ending, slot : 1..(Slots + 1), chosen : {build.chosen}, why : {build.why},
                         loaded : {build.loaded}, hashed : {build.hashed}, rows : {build.rows}]
           /\ out \in [claims : {out.claims}, results : {out.results},
                       report : {"absent", "part", "whole"}, sums : SUBSET (1..Slots)]
           /\ Len(build.rows) = Slots /\ out.results.rows = build.rows
           /\ DOMAIN build.rows = 1..Slots
           /\ DOMAIN out.claims = Sourced(build.rows) /\ DOMAIN out.claims \subseteq 1..Slots
           /\ out.results.completion_state = "COMPLETE" =>
                 \A k \in DOMAIN build.rows : build.rows[k].state = "COMPLETE"
           /\ build.pc \in {"sums", "check", "package"} => out.report = "whole"
           /\ build.pc \in {"check", "package"} => out.sums = DOMAIN out.claims
<1>1. BuildTyped /\ ProgressRight
  BY DEF ReleaseInv
<1>2. build.pc \notin {"idle", "reset"} /\ build.pc \notin Making
  BY DEF Ending, Making
<1>3. /\ build \in [pc : Ending, slot : 1..(Slots + 1), chosen : {build.chosen}, why : {build.why},
                    loaded : {build.loaded}, hashed : {build.hashed}, rows : {build.rows}]
      /\ out \in [claims : {out.claims}, results : {out.results},
                  report : {"absent", "part", "whole"}, sums : SUBSET (1..Slots)]
      /\ build.rows \in Seq(Row) /\ DOMAIN out.claims \subseteq 1..Slots
  BY <1>1, <1>2 DEF BuildTyped
<1>4. /\ Len(build.rows) = Slots /\ out.results.rows = build.rows
      /\ DOMAIN out.claims = Sourced(build.rows)
      /\ out.results.completion_state = "COMPLETE" =>
            \A k \in DOMAIN build.rows : build.rows[k].state = "COMPLETE"
      /\ build.pc \in {"sums", "check", "package"} => out.report = "whole"
      /\ build.pc \in {"check", "package"} => out.sums = DOMAIN out.claims
  BY <1>1 DEF ProgressRight
<1>5. DOMAIN build.rows = 1..Slots
  BY <1>3, <1>4
<1>6. QED
  BY <1>3, <1>4, <1>5

\* The results have all the rows.
LEMMA ResultsWrittenKeeps ==
    ASSUME ReleaseInv, ResultsWritten
    PROVE  ReleaseInv'
<1> DEFINE listed == [rows |-> build.rows,
                       completion_state |-> IF \A k \in DOMAIN build.rows : build.rows[k].state = "COMPLETE"
                                            THEN "COMPLETE" ELSE "PARTIAL"]
<1>1. /\ build.pc = "choose" /\ build.slot > Slots /\ UNCHANGED <<run, measured, archive, kills>>
      /\ build' = [build EXCEPT !.pc = "report"] /\ out' = [out EXCEPT !.results = listed]
  BY WrittenWords
<1>2. /\ listed.rows = build.rows
      /\ listed.completion_state = "COMPLETE" =>
            \A k \in DOMAIN build.rows : build.rows[k].state = "COMPLETE"
  OBVIOUS
<1> HIDE DEF listed
<1>3. /\ BuildTyped /\ build.slot = Len(build.rows) + 1 /\ DOMAIN out.claims = Sourced(build.rows)
  BY <1>1 DEF ReleaseInv, ProgressRight, Making, Copied
<1>4. Len(build.rows) = Slots
  <2>1. build.rows \in Seq(Row) /\ Len(build.rows) <= Slots
    BY <1>3 DEF BuildTyped
  <2>2. Len(build.rows) \in Nat
    BY <2>1, RowsLength
  <2>3. QED
    BY <1>1, <1>3, <2>1, <2>2, SlotsNumber
<1>5. /\ build' \in [pc : {"report"}, slot : 1..(Slots + 1), chosen : {build.chosen}, why : {build.why},
                     loaded : {build.loaded}, hashed : {build.hashed}, rows : {build.rows}]
      /\ out' \in [claims : {out.claims}, results : {out'.results},
                   report : {"absent", "part", "whole"}, sums : SUBSET (1..Slots)]
      /\ out'.results = listed
  BY <1>1, <1>3 DEF BuildTyped
<1>6. /\ "report" \in Ending /\ "report" \notin {"sums", "check", "package"}
      /\ "report" \notin {"check", "package"} /\ "report" # "package" /\ build.pc # "idle"
  BY <1>1 DEF Ending
<1>7. /\ out'.results.rows = build.rows
      /\ out'.results.completion_state = "COMPLETE" =>
            \A k \in DOMAIN build.rows : build.rows[k].state = "COMPLETE"
  BY <1>2, <1>5
<1>8. UNCHANGED <<run, measured, archive, kills>>
  BY <1>1
<1>9. DOMAIN out.claims = Sourced(build.rows)
  BY <1>3
<1>10. /\ "report" \in {"sums", "check", "package"} => out'.report = "whole"
       /\ "report" \in {"check", "package"} => out'.sums = DOMAIN out.claims
       /\ "report" = "package" =>
             /\ \A k \in DOMAIN build.rows : build.rows[k].state = "COMPLETE"
             /\ \A k \in 1..Slots : k < build'.slot => out.claims[k] = build.rows[k].digests
  BY <1>6
<1>11. "report" \in Ending /\ build.pc # "idle"
  BY <1>6
<1>12. QED
  BY <1>4, <1>5, <1>7, <1>8, <1>9, <1>10, <1>11, EndingStep, Zenon

\* The report is written in two parts.
LEMMA ReportWrittenKeeps ==
    ASSUME ReleaseInv, ReportWritten
    PROVE  ReleaseInv'
<1>1. /\ build.pc = "report" /\ UNCHANGED <<run, measured, archive, kills>>
      /\ \/ out' = [out EXCEPT !.report = "part"] /\ UNCHANGED build
         \/ out' = [out EXCEPT !.report = "whole"] /\ build' = [build EXCEPT !.pc = "sums"]
  BY WrittenWords
<1>2. build.pc \in Ending /\ build.pc # "idle" /\ "report" \in Ending /\ "sums" \in Ending
  BY <1>1 DEF Ending
<1>3. /\ build \in [pc : Ending, slot : 1..(Slots + 1), chosen : {build.chosen}, why : {build.why},
                    loaded : {build.loaded}, hashed : {build.hashed}, rows : {build.rows}]
      /\ out \in [claims : {out.claims}, results : {out.results},
                  report : {"absent", "part", "whole"}, sums : SUBSET (1..Slots)]
      /\ Len(build.rows) = Slots /\ out.results.rows = build.rows
      /\ DOMAIN out.claims = Sourced(build.rows)
      /\ out.results.completion_state = "COMPLETE" =>
            \A k \in DOMAIN build.rows : build.rows[k].state = "COMPLETE"
  BY <1>2, EndingKnows
<1>4. UNCHANGED <<run, measured, archive, kills>>
  BY <1>1
<1>5. /\ out' \in [claims : {out.claims}, results : {out'.results},
                   report : {"absent", "part", "whole"}, sums : SUBSET (1..Slots)]
      /\ out'.results = out.results
  BY <1>1, <1>3
<1>6. CASE out' = [out EXCEPT !.report = "part"] /\ UNCHANGED build
  <2>1. build' \in [pc : {"report"}, slot : 1..(Slots + 1), chosen : {build.chosen}, why : {build.why},
                    loaded : {build.loaded}, hashed : {build.hashed}, rows : {build.rows}]
    BY <1>1, <1>3, <1>6
  <2>2. "report" \notin {"sums", "check", "package"} /\ "report" \notin {"check", "package"}
        /\ "report" # "package"
    OBVIOUS
  <2>3. /\ out'.results.rows = build.rows
        /\ out'.results.completion_state = "COMPLETE" =>
              \A k \in DOMAIN build.rows : build.rows[k].state = "COMPLETE"
    BY <1>3, <1>5
  <2>4. QED
    BY <1>2, <1>3, <1>4, <1>5, <2>1, <2>2, <2>3, EndingStep, Zenon
<1>7. CASE out' = [out EXCEPT !.report = "whole"] /\ build' = [build EXCEPT !.pc = "sums"]
  <2>1. /\ build' \in [pc : {"sums"}, slot : 1..(Slots + 1), chosen : {build.chosen}, why : {build.why},
                       loaded : {build.loaded}, hashed : {build.hashed}, rows : {build.rows}]
        /\ out'.report = "whole"
    BY <1>1, <1>3, <1>7
  <2>2. "sums" \notin {"check", "package"} /\ "sums" # "package"
    OBVIOUS
  <2>3. /\ out'.results.rows = build.rows
        /\ out'.results.completion_state = "COMPLETE" =>
              \A k \in DOMAIN build.rows : build.rows[k].state = "COMPLETE"
    BY <1>3, <1>5
  <2>4. QED
    BY <1>2, <1>3, <1>4, <1>5, <2>1, <2>2, <2>3, EndingStep, Zenon
<1>8. QED
  BY <1>1, <1>6, <1>7

\* All claims are summed.
LEMMA SumsWrittenKeeps ==
    ASSUME ReleaseInv, SumsWritten
    PROVE  ReleaseInv'
<1>1. /\ build.pc = "sums" /\ UNCHANGED <<run, measured, archive, kills>>
      /\ out' = [out EXCEPT !.sums = DOMAIN out.claims] /\ build' = [build EXCEPT !.pc = "check"]
  BY WrittenWords
<1>2. build.pc \in Ending /\ build.pc # "idle" /\ "check" \in Ending /\ build.pc \in {"sums", "check", "package"}
  BY <1>1 DEF Ending
<1>3. /\ build \in [pc : Ending, slot : 1..(Slots + 1), chosen : {build.chosen}, why : {build.why},
                    loaded : {build.loaded}, hashed : {build.hashed}, rows : {build.rows}]
      /\ out \in [claims : {out.claims}, results : {out.results},
                  report : {"absent", "part", "whole"}, sums : SUBSET (1..Slots)]
      /\ Len(build.rows) = Slots /\ out.results.rows = build.rows
      /\ DOMAIN out.claims = Sourced(build.rows) /\ DOMAIN out.claims \subseteq 1..Slots
      /\ out.results.completion_state = "COMPLETE" =>
            \A k \in DOMAIN build.rows : build.rows[k].state = "COMPLETE"
      /\ out.report = "whole"
  BY <1>2, EndingKnows
<1>4. /\ out' \in [claims : {out.claims}, results : {out'.results},
                   report : {"absent", "part", "whole"}, sums : SUBSET (1..Slots)]
      /\ out'.results = out.results /\ out'.report = "whole" /\ out'.sums = DOMAIN out.claims
  BY <1>1, <1>3
<1>5. build' \in [pc : {"check"}, slot : 1..(Slots + 1), chosen : {build.chosen}, why : {build.why},
                  loaded : {build.loaded}, hashed : {build.hashed}, rows : {build.rows}]
  BY <1>1, <1>3
<1>6. /\ out'.results.rows = build.rows /\ "check" # "package"
      /\ out'.results.completion_state = "COMPLETE" =>
            \A k \in DOMAIN build.rows : build.rows[k].state = "COMPLETE"
  BY <1>3, <1>4
<1>7. UNCHANGED <<run, measured, archive, kills>>
  BY <1>1
<1>8. QED
  BY <1>2, <1>3, <1>4, <1>5, <1>6, <1>7, EndingStep, Zenon

\* Only what is complete is packaged.
LEMMA CheckedKeeps ==
    ASSUME ReleaseInv, CompletenessChecked
    PROVE  ReleaseInv'
<1>1. /\ build.pc = "check" /\ UNCHANGED <<run, measured, out, archive, kills>>
      /\ \/ /\ out.results.completion_state = "COMPLETE"
            /\ build' = [build EXCEPT !.pc = "package", !.slot = 1]
         \/ build' = IdleBuild
  BY PackagedWords
<1>2. CASE build' = IdleBuild
  BY <1>1, <1>2, EndKeeps
<1>3. CASE /\ out.results.completion_state = "COMPLETE"
           /\ build' = [build EXCEPT !.pc = "package", !.slot = 1]
  <2>1. build.pc \in Ending /\ build.pc # "idle" /\ "package" \in Ending
    BY <1>1 DEF Ending
  <2>2. /\ build \in [pc : Ending, slot : 1..(Slots + 1), chosen : {build.chosen}, why : {build.why},
                      loaded : {build.loaded}, hashed : {build.hashed}, rows : {build.rows}]
        /\ out \in [claims : {out.claims}, results : {out.results},
                    report : {"absent", "part", "whole"}, sums : SUBSET (1..Slots)]
        /\ Len(build.rows) = Slots /\ out.results.rows = build.rows
        /\ DOMAIN out.claims = Sourced(build.rows)
        /\ \A k \in DOMAIN build.rows : build.rows[k].state = "COMPLETE"
        /\ out.report = "whole" /\ out.sums = DOMAIN out.claims
    BY <1>1, <1>3, <2>1, EndingKnows
  <2>3. 1 \in 1..(Slots + 1)
    BY SlotsNumber
  <2>4. /\ build' \in [pc : {"package"}, slot : 1..(Slots + 1), chosen : {build.chosen}, why : {build.why},
                       loaded : {build.loaded}, hashed : {build.hashed}, rows : {build.rows}]
        /\ build'.slot = 1
    BY <1>3, <2>2, <2>3
  <2>5. \A k \in 1..Slots : k < build'.slot => out.claims[k] = build.rows[k].digests
    BY <2>4, SlotsNumber
  <2>6. /\ out' = out /\ UNCHANGED <<run, measured, archive, kills>>
    BY <1>1
  <2>7. /\ out' \in [claims : {out.claims}, results : {out'.results},
                     report : {"absent", "part", "whole"}, sums : SUBSET (1..Slots)]
        /\ out'.results.rows = build.rows /\ out'.report = "whole" /\ out'.sums = DOMAIN out.claims
    BY <2>2, <2>6
  <2>8. QED
    BY <2>1, <2>2, <2>4, <2>5, <2>6, <2>7, EndingStep, Zenon
<1>4. QED
  BY <1>1, <1>2, <1>3

\* A copy that equals the documents has the digests of its row, which lie
\* between the two.
LEMMA CopyHasDigests ==
    ASSUME NEW copy, NEW digests \in Claim, NEW documents \in Claim,
           Before(copy.manifest, digests.manifest), Before(copy.results, digests.results),
           Before(digests.manifest, documents.manifest), Before(digests.results, documents.results),
           copy = documents
    PROVE  copy = digests
<1>1. digests.manifest = documents.manifest
  <2>1. documents.manifest \in Manifest \cup Result
    BY DEF Claim
  <2>2. QED
    BY <2>1, BeforeBetween
<1>2. digests.results = documents.results
  <2>1. documents.results \in Manifest \cup Result
    BY DEF Claim
  <2>2. QED
    BY <2>1, BeforeBetween
<1>3. QED
  BY <1>1, <1>2 DEF Claim

\* A slot is packaged when its copies have the digests of its row.
LEMMA PackagedKeeps ==
    ASSUME ReleaseInv, SlotPackaged
    PROVE  ReleaseInv'
<1> DEFINE s == build.slot
<1> DEFINE row == build.rows[s]
<1>1. /\ build.pc = "package" /\ s <= Slots /\ UNCHANGED <<run, measured, out, archive, kills>>
      /\ \/ /\ out.claims[s] = run[out.results.rows[s].source]
            /\ build' = [build EXCEPT !.slot = @ + 1]
         \/ build' = IdleBuild
  BY PackagedWords
<1>2. CASE build' = IdleBuild
  BY <1>1, <1>2, EndKeeps
<1>3. CASE out.claims[s] = run[out.results.rows[s].source] /\ build' = [build EXCEPT !.slot = @ + 1]
  <2>1. build.pc \in Ending /\ build.pc # "idle" /\ "package" \in Ending
        /\ build.pc \in {"sums", "check", "package"} /\ build.pc \in {"check", "package"}
    BY <1>1 DEF Ending
  <2>2. /\ build \in [pc : Ending, slot : 1..(Slots + 1), chosen : {build.chosen}, why : {build.why},
                      loaded : {build.loaded}, hashed : {build.hashed}, rows : {build.rows}]
        /\ out \in [claims : {out.claims}, results : {out.results},
                    report : {"absent", "part", "whole"}, sums : SUBSET (1..Slots)]
        /\ Len(build.rows) = Slots /\ out.results.rows = build.rows /\ DOMAIN build.rows = 1..Slots
        /\ DOMAIN out.claims = Sourced(build.rows)
        /\ out.results.completion_state = "COMPLETE" =>
              \A k \in DOMAIN build.rows : build.rows[k].state = "COMPLETE"
        /\ out.report = "whole" /\ out.sums = DOMAIN out.claims
    BY <2>1, EndingKnows
  <2>3. /\ \A k \in DOMAIN build.rows : build.rows[k].state = "COMPLETE"
        /\ \A k \in 1..Slots : k < s => out.claims[k] = build.rows[k].digests
    BY <1>1 DEF ReleaseInv, ProgressRight
  <2>4. s \in 1..Slots
    <3>1. s \in 1..(Slots + 1)
      BY <2>2
    <3>2. QED
      BY <1>1, <3>1, SlotsNumber
  <2>5. row.source # None /\ RowRight(s)
    BY <2>1, <2>2, <2>3, <2>4 DEF ReleaseInv, RowsRight
  <2>6. /\ row.digests \in Claim
        /\ Before(out.claims[s].manifest, row.digests.manifest)
        /\ Before(out.claims[s].results, row.digests.results)
        /\ There(row.source)
        /\ Before(row.digests.manifest, run[row.source].manifest)
        /\ Before(row.digests.results, run[row.source].results)
    BY <2>5 DEF RowRight
  <2>7. run[row.source] \in Claim
    <3>1. row.source \in Runs
      <4>1. build.rows[s] \in Row
        BY <2>2, <2>4, RowIsRow DEF ReleaseInv
      <4>2. QED
        BY <2>5, <4>1 DEF Row
    <3>2. run[row.source] \in [manifest : Manifest \cup {None}, results : Result \cup {None}]
      BY <3>1 DEF ReleaseInv, RunsRight
    <3>3. QED
      BY <2>6, <3>2 DEF There, Claim
  <2>8. out.claims[s] = run[row.source]
    BY <1>3, <2>2
  <2>9. out.claims[s] = build.rows[s].digests
    BY <2>6, <2>7, <2>8, CopyHasDigests
  <2>10. /\ build' \in [pc : {"package"}, slot : 1..(Slots + 1), chosen : {build.chosen},
                        why : {build.why}, loaded : {build.loaded}, hashed : {build.hashed},
                        rows : {build.rows}]
         /\ build'.slot = s + 1
    <3>1. s + 1 \in 1..(Slots + 1)
      BY <2>4, SlotsNumber
    <3>2. QED
      BY <1>1, <1>3, <2>2, <3>1
  <2>11. \A k \in 1..Slots : k < build'.slot => out.claims[k] = build.rows[k].digests
    <3>1. ASSUME NEW k \in 1..Slots, k < s + 1 PROVE k < s \/ k = s
      BY <2>4, <3>1, SlotsNumber
    <3>2. QED
      BY <2>3, <2>9, <2>10, <3>1
  <2>12. out' = out /\ UNCHANGED <<run, measured, archive, kills>>
    BY <1>1
  <2>13. /\ out' \in [claims : {out.claims}, results : {out'.results},
                      report : {"absent", "part", "whole"}, sums : SUBSET (1..Slots)]
         /\ out'.results.rows = build.rows /\ out'.report = "whole" /\ out'.sums = DOMAIN out.claims
         /\ out'.results.completion_state = "COMPLETE" =>
               \A k \in DOMAIN build.rows : build.rows[k].state = "COMPLETE"
    BY <2>2, <2>12
  <2>14. QED
    BY <2>1, <2>2, <2>3, <2>10, <2>11, <2>12, <2>13, EndingStep, Zenon
<1>4. QED
  BY <1>1, <1>2, <1>3

\* What is archived has been found equal to the documents, slot by slot.
LEMMA ArchivedKeeps ==
    ASSUME ReleaseInv, ArchiveWritten
    PROVE  ReleaseInv'
<1>1. /\ build.pc = "package" /\ build.slot > Slots /\ UNCHANGED <<run, measured, out, kills>>
      /\ archive' = [rows |-> out.results.rows, claims |-> out.claims, report |-> out.report,
                     sums |-> out.sums]
      /\ build' = IdleBuild
  BY PackagedWords
<1>2. build.pc \in Ending /\ build.pc # "idle"
      /\ build.pc \in {"sums", "check", "package"} /\ build.pc \in {"check", "package"}
  BY <1>1 DEF Ending
<1>3. /\ out.results.rows = build.rows /\ DOMAIN build.rows = 1..Slots
      /\ DOMAIN out.claims = Sourced(build.rows)
      /\ out.report = "whole" /\ out.sums = DOMAIN out.claims
      /\ build.slot \in 1..(Slots + 1)
  BY <1>2, EndingKnows
<1>4. /\ \A k \in DOMAIN build.rows : build.rows[k].state = "COMPLETE"
      /\ \A k \in 1..Slots : k < build.slot => out.claims[k] = build.rows[k].digests
  BY <1>1 DEF ReleaseInv, ProgressRight
<1>5. \A k \in 1..Slots : build.rows[k].source # None /\ RowRight(k)
  BY <1>2, <1>3, <1>4 DEF ReleaseInv, RowsRight
<1>6. Sourced(build.rows) = 1..Slots
  BY <1>3, <1>5 DEF Sourced
<1>7. \A k \in 1..Slots : k < build.slot
  BY <1>1, <1>3, SlotsNumber
<1>8. \A k \in 1..Slots : /\ build.rows[k].digests = out.claims[k]
                          /\ Fully(out.claims[k].results, k)
  <2>1. ASSUME NEW k \in 1..Slots
        PROVE  build.rows[k].digests = out.claims[k] /\ Fully(out.claims[k].results, k)
    <3>1. build.rows[k].digests = out.claims[k]
      BY <1>4, <1>7
    <3>2. Fully(build.rows[k].digests.results, k)
      BY <1>3, <1>4, <1>5 DEF RowRight
    <3>3. QED
      BY <3>1, <3>2
  <2>2. QED
    BY <2>1
<1>9. /\ archive'.rows = build.rows /\ archive'.claims = out.claims /\ archive'.report = "whole"
      /\ archive'.sums = 1..Slots
  BY <1>1, <1>3, <1>6
<1>10. ArchiveRight'
  BY <1>8, <1>9 DEF ArchiveRight, Fully
<1>11. kills' \in 0..Kills
  BY <1>1 DEF ReleaseInv, BuildTyped
<1>12. UNCHANGED <<run, measured, out>>
  BY <1>1
<1>13. QED
  BY <1>1, <1>10, <1>11, <1>12, IdleKeeps, Zenon

\* Every step of the release keeps the invariant.
LEMMA ReleaseStepKeeps ==
    ASSUME ReleaseInv, Release!Next
    PROVE  ReleaseInv'
<1>1. ASSUME NEW r \in Runs, RunMeasured(r) \/ RunFinished(r) \/ RunReported(r)
      PROVE  ReleaseInv'
  <2>1. RunsRight
    BY DEF ReleaseInv
  <2>2. CASE RunMeasured(r)
    BY <2>1, <2>2, MeasuredKeeps, RunsAdvance
  <2>3. CASE RunFinished(r)
    BY <2>1, <2>3, FinishedKeeps, RunsAdvance
  <2>4. CASE RunReported(r)
    BY <2>1, <2>4, ReportedKeeps, RunsAdvance
  <2>5. QED
    BY <1>1, <2>2, <2>3, <2>4
<1>2. CASE Building
  BY <1>2, ResetKeeps, ChosenKeeps, LoadedKeeps, ManifestCopiedKeeps, ResultsCopiedKeeps,
     ManifestHashedKeeps, HashedKeeps, ResultsWrittenKeeps, ReportWrittenKeeps, SumsWrittenKeeps,
     CheckedKeeps, PackagedKeeps, ArchivedKeeps, Zenon DEF Building
<1>3. QED
  BY <1>1, <1>2, BeginKeeps, KillKeeps, ReleaseSteps, Zenon

\* Nothing is measured, built or packaged at first.
LEMMA ReleaseStart ==
    ASSUME Release!Init
    PROVE  ReleaseInv
<1>1. /\ run = [r \in Runs |-> [manifest |-> None, results |-> None]]
      /\ measured = [r \in Runs |-> 0] /\ archive = None /\ kills = 0 /\ build = IdleBuild
      /\ out = [claims |-> [k \in {} |-> None], results |-> None, report |-> "absent", sums |-> {}]
  BY Zenon DEF Release!Init, Release!Idle, Release!Empty, IdleBuild
<1>2. RunsRight
  <2>1. measured \in [Runs -> Nat] /\ \A r \in Runs : measured[r] = 0 /\ Measurements[r] \in Nat
    BY <1>1, ReleaseConstants
  <2>2. measured \in [Runs -> Nat] /\ \A r \in Runs : measured[r] <= Measurements[r]
    BY <2>1
  <2>3. \A r \in Runs : run[r] = [manifest |-> None, results |-> None]
    BY <1>1
  <2>4. \A r \in Runs : run[r].manifest = None /\ run[r].results = None
    BY <2>3
  <2>5. run \in [Runs -> [manifest : Manifest \cup {None}, results : Result \cup {None}]]
    BY <1>1
  <2>6. QED
    BY <2>2, <2>4, <2>5 DEF RunsRight
<1>3. /\ build.pc = "idle" /\ build.rows = << >>
      /\ DOMAIN build.rows = {} /\ Len(build.rows) = 0
  BY <1>1 DEF IdleBuild
<1>4. BuildTyped
  <2>1. 1 \in 1..(Slots + 1) /\ << >> \in Seq(Row) /\ 0 <= Slots
    BY SlotsNumber
  <2>2. kills \in 0..Kills
    <3>1. Kills \in Nat
      BY ReleaseConstants
    <3>2. QED
      BY <1>1, <3>1
  <2>3. build \in [pc : {"idle", "reset"} \cup Making \cup Ending, slot : 1..(Slots + 1),
                   chosen : Runs \cup {None}, why : {None, "incomplete", "no run"},
                   loaded : {build.loaded}, hashed : {build.hashed}, rows : Seq(Row)]
    BY <1>1, <2>1 DEF IdleBuild
  <2>4. /\ out \in [claims : {out.claims}, results : {out.results}, report : {"absent", "part", "whole"},
                    sums : SUBSET (1..Slots)]
        /\ out.claims = [k \in DOMAIN out.claims |-> out.claims[k]] /\ DOMAIN out.claims = {}
    BY <1>1
  <2>5. QED
    BY <1>3, <2>1, <2>2, <2>3, <2>4 DEF BuildTyped
<1>5. RowsRight /\ SlotRight /\ ProgressRight
  BY <1>3 DEF RowsRight, SlotRight, ProgressRight, OnSlot, Copied, Making, Ending
<1>6. out.results = None /\ ClaimsRight /\ ArchiveRight
  BY <1>1 DEF ClaimsRight, ArchiveRight
<1>7. QED
  BY <1>2, <1>4, <1>5, <1>6 DEF ReleaseInv

\* The finalization is used, or rests, in every step.
LEMMA ReleaseAmongThem ==
    ASSUME [MCNext]_all
    PROVE  (tool = "release" /\ Release!Next) \/ UNCHANGED ofRelease
  BY DEF MCNext, CloseoutStep, AuditStep, ReleaseStep, all

\* What rests stays right.
LEMMA ReleaseRests ==
    ASSUME ReleaseInv, UNCHANGED ofRelease
    PROVE  ReleaseInv'
<1>1. UNCHANGED <<run, measured, build, out, archive, kills>>
  BY DEF ofRelease
<1>2. RunsRight' /\ BuildTyped'
  BY <1>1 DEF ReleaseInv, RunsRight, BuildTyped
<1>3. RowsRight'
  BY <1>1 DEF ReleaseInv, RowsRight, RowRight, There
<1>4. SlotRight' /\ ProgressRight'
  <2>1. SlotRight /\ ProgressRight
    BY DEF ReleaseInv
  <2>2. SlotRight'
    BY <1>1, <2>1, Zenon DEF SlotRight, There
  <2>3. ProgressRight'
    BY <1>1, <2>1, Zenon DEF ProgressRight
  <2>4. QED
    BY <2>2, <2>3
<1>5. ClaimsRight' /\ ArchiveRight'
  BY <1>1 DEF ReleaseInv, ClaimsRight, ArchiveRight
<1>6. QED
  BY <1>2, <1>3, <1>4, <1>5 DEF ReleaseInv

\* The invariant holds of every behaviour.
LEMMA ReleaseSafe == MCSpec => []ReleaseInv
<1>1. MCInit => ReleaseInv
  BY ReleaseStart, Zenon DEF MCInit
<1>2. ReleaseInv /\ [MCNext]_all => ReleaseInv'
  BY ReleaseAmongThem, ReleaseStepKeeps, ReleaseRests, Zenon
<1>3. QED
  BY <1>1, <1>2, PTL DEF MCSpec

\* What is packaged is complete and has the digests of the documents packaged
\* with it, however many slots and runs there are and whoever reports the runs
\* meanwhile; the directory has the claims of the slots its results list, and a
\* row that is not complete says why (build_revalidation_aggregate.py, release.py).
THEOREM TheArchiveIsFounded == MCSpec => []ArchiveIsFounded
<1>1. ReleaseInv => ArchiveIsFounded
  <2>1. SUFFICES ASSUME ReleaseInv PROVE ArchiveIsFounded
    OBVIOUS
  <2>2. archive # None => \A k \in 1..Slots : archive.rows[k].digests = archive.claims[k]
    BY <2>1 DEF ReleaseInv, ArchiveRight
  <2>3. archive # None => /\ archive.report = "whole" /\ archive.sums = 1..Slots
                          /\ \A k \in 1..Slots : Fully(archive.claims[k].results, k)
    BY <2>1 DEF ReleaseInv, ArchiveRight
  <2>4. out.results # None => DOMAIN out.claims = {k \in 1..Slots : out.results.rows[k].source # None}
    BY <2>1 DEF ReleaseInv, ClaimsRight
  <2>5. \A k \in DOMAIN build.rows : (build.rows[k].why = None) <=> (build.rows[k].state = "COMPLETE")
    BY <2>1 DEF ReleaseInv, RowsRight, RowExplained
  <2>6. Release!ArchivedDigestsMatch
    BY <2>2, Zenon DEF Release!ArchivedDigestsMatch, Release!Slot
  <2>7. Release!ArchiveIsComplete
    BY <2>3, Zenon DEF Release!ArchiveIsComplete, Release!Slot, Fully
  <2>8. Release!ClaimsOfThisBuild /\ Release!IncompleteIsExplained
    BY <2>4, <2>5, Zenon DEF Release!ClaimsOfThisBuild, Release!IncompleteIsExplained, Release!Slot
  <2>9. QED
    BY <2>6, <2>7, <2>8, Zenon DEF ArchiveIsFounded
<1>2. QED
  BY <1>1, ReleaseSafe, PTL

-----------------------------------------------------------------------------
(* The shapes of the three. *)

\* The tracker's state is typed.
LEMMA AuditShape == AuditInv => Audit!TypeOK
<1>1. SUFFICES ASSUME AuditInv PROVE Audit!TypeOK
  OBVIOUS
<1>2. /\ foundation \in [Foundation -> {Absent, "same", "other"}]
      /\ content \in [Keys -> {"same", "other"}]
      /\ \A k \in Keys : auditIssues[k] \subseteq 1..numbers /\ project[k] \in 0..numbers
      /\ registry \in Registry
  BY <1>1 DEF AuditInv, AuditTyped
<1>3. registry.sync_state \in {"PLANNED", "APPLIED", "VERIFIED"}
  BY <1>2 DEF Registry, SyncStates
<1>4. ASSUME NEW c \in Commands, command[c].pc # "idle"
      PROVE  command[c].phase \in 1..3 /\ command[c].plan \subseteq Foundation \cup Keys
  BY <1>1, <1>4 DEF AuditInv, CommandInv, CommandTyped
<1>5. QED
  BY <1>2, <1>3, <1>4, Zenon DEF Audit!TypeOK, Audit!States, Audit!At

\* The finalization's state is typed.
LEMMA ReleaseShape == ReleaseInv => Release!TypeOK
<1>1. SUFFICES ASSUME ReleaseInv PROVE Release!TypeOK
  OBVIOUS
<1>2. \A r \in Runs : run[r].results # None => run[r].results.of = run[r].manifest.of
  BY <1>1 DEF ReleaseInv, RunsRight
<1>3. \A r \in Runs : measured[r] \in 0..Measurements[r]
  <2>1. ASSUME NEW r \in Runs PROVE measured[r] \in 0..Measurements[r]
    <3>1. Measurements[r] \in Nat /\ measured[r] \in Nat /\ measured[r] <= Measurements[r]
      BY <1>1, ReleaseConstants DEF ReleaseInv, RunsRight
    <3>2. QED
      BY <3>1
  <2>2. QED
    BY <2>1
<1>4. /\ kills \in 0..Kills /\ build.slot \in 1..(Slots + 1) /\ build.chosen \in Runs \cup {None}
      /\ build.why \in {None, "incomplete", "no run"}
      /\ DOMAIN out.claims \subseteq 1..Slots /\ out.sums \subseteq 1..Slots
      /\ out.report \in {"absent", "part", "whole"}
      /\ build.rows \in Seq(Row) /\ Len(build.rows) <= Slots
  BY <1>1 DEF ReleaseInv, BuildTyped
<1>5. Len(build.rows) < Slots + 1
  <2>1. Len(build.rows) \in Nat /\ Len(build.rows) <= Slots
    BY <1>4, RowsLength
  <2>2. QED
    BY <2>1, SlotsNumber
<1>6. QED
  BY <1>2, <1>3, <1>4, <1>5, Zenon DEF Release!TypeOK, Release!Slot

\* The type invariants of the three tools hold (review_closeout.py,
\* audit_github.py, finalize_revalidation.sh and what it calls).
THEOREM ToolsTyped == MCSpec => []MCTypeOK
<1>1. CloseoutInv /\ AuditInv /\ ReleaseInv => MCTypeOK
  BY CloseoutShape, AuditShape, ReleaseShape, Zenon DEF MCTypeOK
<1>2. QED
  BY <1>1, CloseoutAmongThem, CloseoutSafe, AuditSafe, ReleaseSafe, PTL

=============================================================================
