--------------------------- MODULE ReviewCloseout ---------------------------
(***************************************************************************)
(* The sweep that closes review threads of merged pull requests            *)
(* (tools/review_closeout.py): every open thread gets an issue, a reply    *)
(* that names it, and is resolved; the issue's lifecycle labels say how    *)
(* far that went.  Nothing but the hosting service keeps state: a sweep    *)
(* that stops anywhere - an error, a lost answer to a call that took       *)
(* effect, a kill - is continued by the next one from what it reads there. *)
(*                                                                         *)
(* Every call to the service is one step; people act between any two.  One *)
(* sweep runs at a time (docs/agents/issue-tracker.md:27).  An issue's     *)
(* other labels and its state are one flag, sound: open and classified. Of *)
(* the priority of a thread only whether it is urgent (P0 or P1) is kept.  *)
(***************************************************************************)
EXTENDS Naturals, Sequences, FiniteSets

CONSTANTS
    Threads,        \* the review threads of merged pull requests
    MaxFailures,    \* how many calls are lost or sweeps killed (bounds the model)
    MaxEdits,       \* how many changes people make (bounds the model)
    Edits           \* the kinds of change they make

ASSUME ThreadsAssumption == IsFiniteSet(Threads)
ASSUME BoundsAssumption == MaxFailures \in Nat /\ MaxEdits \in Nat
ASSUME EditsAssumption ==
    Edits \subseteq {"resolve", "reopen", "outdate", "unsound", "escalate", "merge"}

VARIABLES
    \* the hosting service
    resolved,       \* resolved[t]: who resolved the thread: "nobody", "sweep", "person"
    outdated,       \* the threads whose lines were changed
    urgent,         \* the threads of priority P0 or P1
    replies,        \* replies[t]: the issues named by the owner's tracking replies
    issues,         \* the issues in order of their creation
    batch,          \* enough merged pull requests have review threads
    edits,          \* changes made by people so far
    failures,       \* lost answers and broken sweeps so far
    \* the sweep
    pc,             \* its step; "idle" when none runs
    current,        \* the open threads it found
    priority,       \* those of them that were urgent then
    tracked,        \* tracked[t]: the issue of thread t it knows, 0 for none
    work,           \* the threads still to be closed
    item,           \* the thread it works on
    view            \* what it last read of that thread and of its issue

threads == <<resolved, outdated, urgent, replies>>
service == <<threads, issues, batch, edits>>
found == <<current, priority, tracked>>
sweep == <<found, work, item, view>>
vars == <<service, failures, pc, sweep>>

Pending == "closeout-pending"
Closed == "source-closed"
NoThread == "none"
NoIssue == [thread |-> NoThread, urgent |-> FALSE, sound |-> FALSE, labels |-> {}]
NoView == [open |-> FALSE, outdated |-> FALSE, urgent |-> FALSE, replies |-> << >>,
           priority |-> FALSE, issue |-> NoIssue]

Init ==
    /\ resolved = [t \in Threads |-> "nobody"]
    /\ outdated = {} /\ urgent \in SUBSET Threads
    /\ replies = [t \in Threads |-> << >>]
    /\ issues = << >>
    /\ batch \in BOOLEAN
    /\ edits = 0 /\ failures = 0 /\ pc = "idle"
    /\ current = {} /\ priority = {}
    /\ tracked = [t \in Threads |-> 0]
    /\ work = {} /\ item = NoThread /\ view = NoView

-----------------------------------------------------------------------------
(* Reading the service *)

IsOpen(t) == resolved[t] = "nobody" /\ t \notin outdated

IssuesOf(t) == {n \in DOMAIN issues : issues[n].thread = t}

(* An open, classified bug with the lifecycle label asked for, beside which
   only source-closed may stand. *)
ValidAs(issue, lifecycle) ==
    issue.sound /\ issue.labels = {lifecycle} \cup (issue.labels \cap {Closed})

ValidFor(issue, lifecycle, isUrgent) ==
    ValidAs(issue, lifecycle) /\ issue.urgent = isUrgent

ThreadRead(v, t) ==
    [v EXCEPT !.open = IsOpen(t), !.outdated = t \in outdated,
              !.urgent = t \in urgent, !.replies = replies[t]]

-----------------------------------------------------------------------------
(* A sweep starts, reads everything, and refuses or plans its work. *)

Move(next) == pc' = next /\ UNCHANGED <<failures, found, work, item>>

(* Any error ends the sweep; the next one starts from nothing. *)
Stop ==
    /\ pc' = "idle"
    /\ current' = {} /\ priority' = {}
    /\ tracked' = [t \in Threads |-> 0]
    /\ work' = {} /\ item' = NoThread /\ view' = NoView

Refuse == Stop /\ UNCHANGED failures

(* The call took effect, or failed, and the sweep does not learn which. *)
Lost ==
    /\ failures < MaxFailures
    /\ failures' = failures + 1
    /\ Stop

Begin ==
    /\ pc = "idle"
    /\ Move("threads")
    /\ UNCHANGED <<service, view>>

ReadThreads ==
    /\ pc = "threads"
    /\ current' = {t \in Threads : IsOpen(t)}
    /\ priority' = current' \cap urgent
    /\ pc' = "issues"
    /\ UNCHANGED <<service, failures, tracked, work, item, view>>

(* Below the threshold only urgent threads get an issue. *)
Eligible == IF batch THEN current ELSE priority

(* The issue whose body carries the thread's marker, in whatever state. *)
Tracked ==
    [t \in Threads |-> IF IssuesOf(t) = {} THEN 0 ELSE CHOOSE n \in IssuesOf(t) : TRUE]

\* A bug: only the threads that are open are taken up.
RecoveryNone == {}

(* Issues an earlier sweep left pending, whose thread is no longer open. *)
Recovery ==
    {t \in Threads \ current : Tracked[t] # 0 /\ Pending \in issues[Tracked[t]].labels}

(* Every open thread's issue, eligible or not, and every recovered one must be
   in the state a sweep leaves behind, before anything is changed. *)
Acceptable ==
    /\ \A t \in Threads : Cardinality(IssuesOf(t)) <= 1
    /\ \A t \in current : Tracked[t] # 0 =>
          /\ ValidFor(issues[Tracked[t]], Pending, t \in priority)
          /\ Closed \notin issues[Tracked[t]].labels
    /\ \A t \in Recovery : ValidAs(issues[Tracked[t]], Pending)

ReadIssues ==
    /\ pc = "issues"
    /\ IF Recovery \cup Eligible # {} /\ Acceptable
       THEN /\ tracked' = Tracked
            /\ work' = Recovery \cup Eligible
            /\ pc' = "create"
            /\ UNCHANGED <<failures, current, priority, item, view>>
       ELSE Refuse
    /\ UNCHANGED service

-----------------------------------------------------------------------------
(* All issues are created before any thread is touched. *)

\* A bug: the lifecycle label is forgotten.
NewIssueBare(t) ==
    [thread |-> t, urgent |-> t \in priority, sound |-> TRUE, labels |-> {}]

NewIssue(t) ==
    [thread |-> t, urgent |-> t \in priority, sound |-> TRUE, labels |-> {Pending}]

Untracked == {t \in work : tracked[t] = 0}

CreateIssue ==
    /\ pc = "create"
    /\ \E t \in Untracked :
          /\ issues' = Append(issues, NewIssue(t))
          /\ \/ /\ tracked' = [tracked EXCEPT ![t] = Len(issues')]
                /\ item' = t
                /\ pc' = "created"
                /\ UNCHANGED <<failures, current, priority, work, view>>
             \/ Lost
    /\ UNCHANGED <<threads, batch, edits>>

ConfirmCreated ==
    /\ pc = "created"
    /\ IF ValidFor(issues[tracked[item]], Pending, item \in priority)
       THEN /\ item' = NoThread
            /\ pc' = "create"
            /\ UNCHANGED <<failures, found, work, view>>
       ELSE Refuse
    /\ UNCHANGED service

Finish ==
    /\ pc = "create" /\ work = {}
    /\ Refuse
    /\ UNCHANGED service

-----------------------------------------------------------------------------
(* Then one thread after the other is closed, recovered ones first. *)

MyIssue == issues[tracked[item]]

NextItem ==
    /\ pc = "create" /\ Untracked = {}
    /\ \E t \in work :
          /\ t \in current => work \subseteq current
          /\ item' = t
          /\ view' = [NoView EXCEPT !.issue = issues[tracked[t]]]
    /\ pc' = "read"
    /\ UNCHANGED <<service, failures, found, work>>

ItemDone ==
    /\ pc' = "create"
    /\ work' = work \ {item} /\ item' = NoThread /\ view' = NoView
    /\ UNCHANGED <<failures, found>>

(* Exactly one canonical reply, which names the issue; an outdated thread may
   have none. *)
Linked(v) ==
    \/ v.replies = <<tracked[item]>>
    \/ v.outdated /\ v.replies = << >>

Unanswered(v) == ~ v.outdated /\ v.replies = << >>

Finished(issue) == Closed \in issue.labels /\ Pending \notin issue.labels

(* The thread is read; what was read of it and of the issue decides. *)
ReadThread ==
    /\ pc = "read"
    /\ LET v == [ThreadRead(view, item) EXCEPT !.priority = item \in urgent] IN
       IF Finished(v.issue)
       THEN IF ValidFor(v.issue, Closed, v.priority) /\ ~ v.open /\ Linked(v)
            THEN ItemDone ELSE Refuse
       ELSE IF \/ ~ ValidFor(v.issue, Pending, v.priority)
               \/ Closed \in v.issue.labels /\ v.open
               \/ Unanswered(v) /\ ~ v.open     \* closed before it was answered
       THEN Refuse
       ELSE Move(IF Unanswered(v) THEN "check reply" ELSE "check link") /\ view' = v
    /\ UNCHANGED service

(* The issue is read again just before the service is changed. *)
CheckIssue(next) ==
    /\ IF ValidFor(MyIssue, Pending, view.priority)
       THEN Move(next) /\ view' = [view EXCEPT !.issue = MyIssue]
       ELSE Refuse
    /\ UNCHANGED service

\* A bug: the thread is resolved before it is answered.
CheckReplyLater == pc = "check reply" /\ CheckIssue("resolve")

CheckReply == pc = "check reply" /\ CheckIssue("reply")

Reply ==
    /\ pc = "reply"
    /\ replies' = [replies EXCEPT ![item] = Append(@, tracked[item])]
    /\ \/ Move("reread") /\ UNCHANGED view
       \/ Lost
    /\ UNCHANGED <<resolved, outdated, urgent, issues, batch, edits>>

RereadReply ==
    /\ pc = "reread"
    /\ Move("check link") /\ view' = ThreadRead(view, item)
    /\ UNCHANGED service

CheckLink ==
    /\ pc = "check link"
    /\ IF ~ Linked(view) \/ (~ view.open /\ view.urgent # view.priority)
       THEN Refuse
       ELSE Move(IF view.open THEN "check resolve" ELSE "label") /\ UNCHANGED view
    /\ UNCHANGED service

CheckResolve == pc = "check resolve" /\ CheckIssue("resolve")

Resolve ==
    /\ pc = "resolve"
    /\ resolved' = [resolved EXCEPT ![item] = IF @ = "nobody" THEN "sweep" ELSE @]
    /\ \/ Move("confirm") /\ UNCHANGED view
       \/ Lost
    /\ UNCHANGED <<outdated, urgent, replies, issues, batch, edits>>

ConfirmResolved ==
    /\ pc = "confirm"
    /\ LET v == ThreadRead(view, item) IN
       IF v.replies = <<tracked[item]>> /\ ~ v.open /\ v.urgent = v.priority
       THEN Move("label") /\ view' = v
       ELSE Refuse
    /\ UNCHANGED service

Label ==
    /\ pc = "label"
    /\ CheckIssue(IF Closed \in MyIssue.labels THEN "check" ELSE "add")

Relabel(labels, next) ==
    /\ issues' = [issues EXCEPT ![tracked[item]].labels = labels]
    /\ \/ Move(next) /\ UNCHANGED view
       \/ Lost
    /\ UNCHANGED <<threads, batch, edits>>

AddClosed == pc = "add" /\ Relabel(MyIssue.labels \cup {Closed}, "check")

CheckClosed ==
    /\ pc = "check"
    /\ IF Closed \in MyIssue.labels
       THEN CheckIssue("remove")
       ELSE Refuse /\ UNCHANGED service

RemovePending == pc = "remove" /\ Relabel(MyIssue.labels \ {Pending}, "terminal")

CheckTerminal ==
    /\ pc = "terminal"
    /\ IF ValidFor(MyIssue, Closed, view.priority) THEN ItemDone ELSE Refuse
    /\ UNCHANGED service

(* A call fails without an effect, or the sweep is killed. *)
Break ==
    /\ pc # "idle"
    /\ Lost
    /\ UNCHANGED service

-----------------------------------------------------------------------------
(* People *)

Edit(kind) ==
    /\ kind \in Edits /\ edits < MaxEdits
    /\ edits' = edits + 1
    /\ UNCHANGED <<replies, failures, pc, sweep>>

ResolveByHand(t) ==
    /\ Edit("resolve") /\ resolved[t] = "nobody"
    /\ resolved' = [resolved EXCEPT ![t] = "person"]
    /\ UNCHANGED <<outdated, urgent, issues, batch>>

Reopen(t) ==
    /\ Edit("reopen") /\ resolved[t] # "nobody"
    /\ resolved' = [resolved EXCEPT ![t] = "nobody"]
    /\ UNCHANGED <<outdated, urgent, issues, batch>>

ChangeLines(t) ==
    /\ Edit("outdate") /\ t \notin outdated
    /\ outdated' = outdated \cup {t}
    /\ UNCHANGED <<resolved, urgent, issues, batch>>

(* The issue is closed or loses its classification. *)
Unclassify(n) ==
    /\ Edit("unsound") /\ issues[n].sound
    /\ issues' = [issues EXCEPT ![n].sound = FALSE]
    /\ UNCHANGED <<resolved, outdated, urgent, batch>>

(* A comment raises the priority of the thread. *)
Escalate(t) ==
    /\ Edit("escalate") /\ t \notin urgent
    /\ urgent' = urgent \cup {t}
    /\ UNCHANGED <<resolved, outdated, issues, batch>>

Merge ==
    /\ Edit("merge") /\ ~ batch
    /\ batch' = TRUE
    /\ UNCHANGED <<resolved, outdated, urgent, issues>>

People ==
    \/ \E t \in Threads : ResolveByHand(t) \/ Reopen(t) \/ ChangeLines(t) \/ Escalate(t)
    \/ \E n \in DOMAIN issues : Unclassify(n)
    \/ Merge

Sweep ==
    \/ ReadThreads \/ ReadIssues \/ CreateIssue \/ ConfirmCreated \/ NextItem \/ Finish
    \/ ReadThread \/ CheckReply \/ Reply \/ RereadReply \/ CheckLink
    \/ CheckResolve \/ Resolve \/ ConfirmResolved
    \/ Label \/ AddClosed \/ CheckClosed \/ RemovePending \/ CheckTerminal

Next == Begin \/ Sweep \/ Break \/ People

(* The schedule starts the sweep again and again, and a sweep that is not
   broken goes on. *)
Fairness == WF_vars(Begin) /\ WF_vars(Sweep)

Spec == Init /\ [][Next]_vars

FairSpec == Spec /\ Fairness

-----------------------------------------------------------------------------
(* Properties *)

Lifecycles == {{Pending}, {Pending, Closed}, {Closed}}

(* The shape of the state; an issue always has a lifecycle label. *)
TypeOK ==
    /\ resolved \in [Threads -> {"nobody", "sweep", "person"}]
    /\ outdated \subseteq Threads /\ urgent \subseteq Threads
    /\ \A t \in Threads : \A k \in DOMAIN replies[t] : replies[t][k] \in DOMAIN issues
    /\ \A n \in DOMAIN issues : issues[n].thread \in Threads /\ issues[n].labels \in Lifecycles
    /\ tracked \in [Threads -> 0..Len(issues)]
    /\ work \subseteq Threads /\ item \in Threads \cup {NoThread}

(* However often sweeps are broken, and whatever people do to the issues, a
   thread is never tracked by two issues. *)
OneIssuePerThread == \A t \in Threads : Cardinality(IssuesOf(t)) <= 1

(* A thread is answered at most once, with its own issue. *)
OneReplyPerThread ==
    \A t \in Threads :
        \/ replies[t] = << >>
        \/ Len(replies[t]) = 1 /\ issues[replies[t][1]].thread = t

(* The sweep resolves no thread that is not answered: whoever finds it
   resolved finds the issue it went to. *)
ResolvedIsAnswered == \A t \in Threads : resolved[t] = "sweep" => replies[t] # << >>

(* An issue that says its source is closed is linked from its thread, or the
   thread was outdated before it was answered. *)
ClosedIsLinked ==
    \A n \in DOMAIN issues :
        Closed \in issues[n].labels =>
            replies[issues[n].thread] = <<n>> \/ issues[n].thread \in outdated

(* The states a sweep refuses to continue from: an issue it left pending was
   closed, lost its classification or no longer has the priority of its
   thread; a thread was reopened; or it was resolved before it was answered.
   One such thread stops the sweep for all threads. *)
Obstructed ==
    \E n \in DOMAIN issues :
        LET t == issues[n].thread IN
            \/ Pending \in issues[n].labels /\
                  \/ ~ issues[n].sound
                  \/ issues[n].urgent # (t \in urgent)
                  \/ ~ IsOpen(t) /\ t \notin outdated /\ replies[t] = << >>
            \/ IsOpen(t) /\ Closed \in issues[n].labels

(* No broken sweep leaves such a state: it takes a person's change. *)
OnlyPeopleObstruct == Obstructed => edits > 0

Settled ==
    /\ \A t \in Threads : IsOpen(t) => ~ batch /\ t \notin urgent
    /\ \A n \in DOMAIN issues : issues[n].labels = {Closed}

(* When failures and changes end, every thread that is due is closed and every
   issue says so, or the sweep is obstructed. *)
Converges == <>[](Settled \/ Obstructed)

=============================================================================
