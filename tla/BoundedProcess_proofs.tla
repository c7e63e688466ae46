----------------------- MODULE BoundedProcess_proofs ------------------------
(***************************************************************************)
(* Proofs about the supervision of one worker, for every set of            *)
(* descendants, every output budget and chunk size and every amount of     *)
(* output: first the output tails it retains (OutputTail), then the        *)
(* processes, the pipes and the verdict (BoundedProcess).                  *)
(***************************************************************************)
EXTENDS BoundedProcess, TLAPS

-----------------------------------------------------------------------------
(* The retained tails *)

\* The two streams' shares of the budget are natural numbers and add up to it.
LEMMA Shares == Half \in Nat /\ Half <= Budget /\ Budget - Half \in Nat
  BY BudgetAssumption DEF Half

\* What trimming returns, if both floors fit into the budget and into their tails:
\* the tails shrink exactly to the budget, or are left alone within it, and neither
\* goes below its floor.
LEMMA TrimFits ==
    ASSUME NEW first \in Nat, NEW firstFloor \in Nat, NEW second \in Nat, NEW secondFloor \in Nat,
           firstFloor <= first, secondFloor <= second, firstFloor + secondFloor <= Budget
    PROVE  LET t == Trim(first, firstFloor, second, secondFloor)
           IN  /\ t[1] \in Nat /\ firstFloor <= t[1] /\ t[1] <= first
               /\ t[2] \in Nat /\ secondFloor <= t[2] /\ t[2] <= second
               /\ t[1] + t[2] = Smaller(Budget, first + second)
<1> DEFINE t == Trim(first, firstFloor, second, secondFloor)
           excess == Larger(0, first + second - Budget)
           taken == Smaller(excess, Larger(0, first - firstFloor))
           more == Smaller(excess - taken, Larger(0, second - secondFloor))
<1>1. excess \in Nat /\ (excess = 0 \/ excess = first + second - Budget)
                     /\ first + second - excess = Smaller(Budget, first + second)
  BY BudgetAssumption DEF Larger, Smaller
<1>2. taken \in Nat /\ taken <= excess /\ taken <= first - firstFloor
                    /\ (taken = excess \/ taken = first - firstFloor)
  BY <1>1 DEF Larger, Smaller
<1>3. more = excess - taken
  <2> HIDE DEF excess, taken
  <2>1. excess - taken <= second - secondFloor
    BY <1>1, <1>2, BudgetAssumption
  <2>2. QED
    BY <1>1, <1>2, <2>1 DEF Larger, Smaller
<1>4. t[1] = first - taken /\ t[2] = second - more
  BY DEF Trim
<1>5. more \in Nat /\ more <= second - secondFloor
  <2> HIDE DEF excess, taken
  <2>1. QED
    BY <1>1, <1>2, <1>3 DEF Larger, Smaller
<1>6. QED
  <2> HIDE DEF excess, taken, more
  <2>1. QED
    BY <1>1, <1>2, <1>3, <1>4, <1>5

\* The floors fit: each is at most its stream's share, and zero if the other stream
\* has no output.
LEMMA FloorsFit ==
    ASSUME NEW n \in Nat, NEW m \in Nat
    PROVE  /\ StdoutFloor(n, m) \in Nat /\ StderrFloor(m, n) \in Nat
           /\ StdoutFloor(n, m) <= n /\ StderrFloor(m, n) <= m
           /\ StdoutFloor(n, m) + StderrFloor(m, n) <= Budget
  BY Shares, BudgetAssumption DEF StdoutFloor, StderrFloor, Smaller

(***************************************************************************)
(* What the supervisor retains of ob and eb bytes of output: a suffix of   *)
(* each stream, together the budget or everything, each at least its share *)
(* if there was as much.                                                   *)
(***************************************************************************)
Kept(out, err, ob, eb) ==
    /\ out \in 0..ob /\ err \in 0..eb
    /\ out + err = Smaller(Budget, ob + eb)
    /\ out >= Smaller(ob, Half) /\ err >= Smaller(eb, Budget - Half)

\* Appending n bytes to stdout's tail retains what should be retained.
LEMMA StdoutKeeps ==
    ASSUME NEW ob \in Nat, NEW eb \in Nat, NEW n \in Nat, NEW out \in Nat, NEW err \in Nat,
           Kept(out, err, ob, eb), NEW u, u = AppendStdout(out, err, n)
    PROVE  Kept(u[1], u[2], ob + n, eb)
<1> DEFINE f == StdoutFloor(out + n, err)
           g == StderrFloor(err, out + n)
           t == Trim(out + n, f, err, g)
<1>1. out \in Nat /\ err \in Nat /\ out + n \in Nat /\ out <= ob /\ err <= eb
  BY DEF Kept
<1>2. f \in Nat /\ g \in Nat /\ f <= out + n /\ g <= err /\ f + g <= Budget
  BY <1>1, FloorsFit
<1>3. u = t
  BY DEF AppendStdout
<1>4. /\ f = IF err = 0 THEN 0 ELSE Smaller(out + n, Half)
      /\ g = IF out + n = 0 THEN 0 ELSE Smaller(err, Budget - Half)
  BY DEF StdoutFloor, StderrFloor
<1> HIDE DEF f, g
<1>5. /\ t[1] \in Nat /\ f <= t[1] /\ t[1] <= out + n
      /\ t[2] \in Nat /\ g <= t[2] /\ t[2] <= err
      /\ t[1] + t[2] = Smaller(Budget, out + n + err)
  <2> DEFINE grown == out + n
  <2>1. grown \in Nat /\ f <= grown /\ t = Trim(grown, f, err, g)
    BY <1>1, <1>2
  <2> HIDE DEF grown, t
  <2>2. LET x == Trim(grown, f, err, g)
        IN  /\ x[1] \in Nat /\ f <= x[1] /\ x[1] <= grown
            /\ x[2] \in Nat /\ g <= x[2] /\ x[2] <= err
            /\ x[1] + x[2] = Smaller(Budget, grown + err)
    <3>1. grown \in Nat /\ f \in Nat /\ err \in Nat /\ g \in Nat /\ f <= grown /\ g <= err
          /\ f + g <= Budget
      BY <1>1, <1>2, <2>1
    <3>2. QED
      BY ONLY <3>1, TrimFits
  <2>3. QED
    BY <2>1, <2>2 DEF grown
<1> HIDE DEF t
<1> USE Shares, BudgetAssumption
<1>6. t[1] + t[2] = Smaller(Budget, ob + n + eb)
  BY <1>1, <1>5 DEF Kept, Smaller
<1>7. t[1] >= Smaller(ob + n, Half)
  BY <1>1, <1>2, <1>4, <1>5 DEF Kept, Smaller
<1>8. t[2] >= Smaller(eb, Budget - Half)
  BY <1>1, <1>2, <1>4, <1>5 DEF Kept, Smaller
<1>9. QED
  BY <1>1, <1>3, <1>5, <1>6, <1>7, <1>8 DEF Kept

\* So does appending to stderr's.
LEMMA StderrKeeps ==
    ASSUME NEW ob \in Nat, NEW eb \in Nat, NEW n \in Nat, NEW out \in Nat, NEW err \in Nat,
           Kept(out, err, ob, eb), NEW u, u = AppendStderr(out, err, n)
    PROVE  Kept(u[1], u[2], ob, eb + n)
<1> DEFINE f == StderrFloor(err + n, out)
           g == StdoutFloor(out, err + n)
           t == Trim(err + n, f, out, g)
<1>1. out \in Nat /\ err \in Nat /\ err + n \in Nat /\ out <= ob /\ err <= eb
  BY DEF Kept
<1>2. f \in Nat /\ g \in Nat /\ f <= err + n /\ g <= out /\ f + g <= Budget
  <2>1. \A m \in Nat : /\ StdoutFloor(out, m) \in Nat /\ StderrFloor(m, out) \in Nat
                       /\ StdoutFloor(out, m) <= out /\ StderrFloor(m, out) <= m
                       /\ StdoutFloor(out, m) + StderrFloor(m, out) <= Budget
    BY <1>1, FloorsFit
  <2>2. f + g = g + f
    BY <1>1, <2>1
  <2>3. QED
    BY <1>1, <2>1, <2>2
<1>3. u[1] = t[2] /\ u[2] = t[1]
  BY DEF AppendStderr
<1>4. /\ f = IF out = 0 THEN 0 ELSE Smaller(err + n, Budget - Half)
      /\ g = IF err + n = 0 THEN 0 ELSE Smaller(out, Half)
  BY DEF StdoutFloor, StderrFloor
<1> HIDE DEF f, g
<1>5. /\ t[1] \in Nat /\ f <= t[1] /\ t[1] <= err + n
      /\ t[2] \in Nat /\ g <= t[2] /\ t[2] <= out
      /\ t[1] + t[2] = Smaller(Budget, err + n + out)
  <2> DEFINE grown == err + n
  <2>1. grown \in Nat /\ f <= grown /\ t = Trim(grown, f, out, g)
    BY <1>1, <1>2
  <2> HIDE DEF grown, t
  <2>2. LET x == Trim(grown, f, out, g)
        IN  /\ x[1] \in Nat /\ f <= x[1] /\ x[1] <= grown
            /\ x[2] \in Nat /\ g <= x[2] /\ x[2] <= out
            /\ x[1] + x[2] = Smaller(Budget, grown + out)
    <3>1. grown \in Nat /\ f \in Nat /\ out \in Nat /\ g \in Nat /\ f <= grown /\ g <= out
          /\ f + g <= Budget
      BY <1>1, <1>2, <2>1
    <3>2. QED
      BY ONLY <3>1, TrimFits
  <2>3. QED
    BY <2>1, <2>2 DEF grown
<1> HIDE DEF t
<1> USE Shares, BudgetAssumption
<1>6. t[1] + t[2] = Smaller(Budget, ob + eb + n)
  BY <1>1, <1>5 DEF Kept, Smaller
<1>7. t[1] >= Smaller(eb + n, Budget - Half)
  BY <1>1, <1>2, <1>4, <1>5 DEF Kept, Smaller
<1>8. t[2] >= Smaller(ob, Half)
  BY <1>1, <1>2, <1>4, <1>5 DEF Kept, Smaller
<1>9. QED
  BY <1>1, <1>3, <1>5, <1>6, <1>7, <1>8 DEF Kept

-----------------------------------------------------------------------------

TailInv == TailTypeOK /\ Kept(outTail, errTail, outBytes, errBytes)

\* Empty tails are what is kept of no output.
LEMMA TailInvInit == TailInit => TailInv
  BY Shares, BudgetAssumption DEF TailInit, TailInv, TailTypeOK, Kept, Smaller

\* A read of n bytes from either stream keeps the invariant.
LEMMA TailInvRead ==
    ASSUME TailInv, NEW n \in Nat, ReadStdout(n) \/ ReadStderr(n)
    PROVE  TailInv'
<1>1. CASE ReadStdout(n)
  <2>1. Kept(outTail', errTail', outBytes + n, errBytes)
    BY <1>1, StdoutKeeps DEF ReadStdout, TailInv, TailTypeOK
  <2>2. QED
    BY <1>1, <2>1 DEF ReadStdout, TailInv, TailTypeOK, Kept
<1>2. CASE ReadStderr(n)
  <2>1. Kept(outTail', errTail', outBytes, errBytes + n)
    BY <1>2, StderrKeeps DEF ReadStderr, TailInv, TailTypeOK
  <2>2. QED
    BY <1>2, <2>1 DEF ReadStderr, TailInv, TailTypeOK, Kept
<1>3. QED
  BY <1>1, <1>2

\* So the invariant always holds.
LEMMA TailInvariance == TailSpec => []TailInv
<1>1. TailInv /\ [TailNext]_tailVars => TailInv'
  <2> SUFFICES ASSUME TailInv, [TailNext]_tailVars PROVE TailInv'
    OBVIOUS
  <2>1. CASE TailNext
    <3>1. PICK n \in 1..MaxChunk : ReadStdout(n) \/ ReadStderr(n)
      BY <2>1 DEF TailNext
    <3>2. QED
      BY <3>1, TailInvRead, ChunkAssumption
  <2>2. CASE UNCHANGED tailVars
    BY <2>2 DEF tailVars, TailInv, TailTypeOK
  <2>3. QED
    BY <2>1, <2>2
<1>2. QED
  BY <1>1, TailInvInit, PTL DEF TailSpec

\* The retained tails fill the budget exactly: nothing is dropped while there is room.
THEOREM BudgetIsFilled == TailSpec => []TailsFillBudget
<1>1. TailInv => TailsFillBudget
  BY DEF TailInv, Kept, TailsFillBudget
<1>2. QED
  BY <1>1, TailInvariance, PTL

\* A noisy stream never pushes the other one below its own half of the budget.
THEOREM NoStarvation == TailSpec => []NeitherStreamStarves
<1>1. TailInv => NeitherStreamStarves
  BY DEF TailInv, Kept, NeitherStreamStarves
<1>2. QED
  BY <1>1, TailInvariance, PTL

\* For every budget and every chunk, the tails fill the budget and share it.
THEOREM SharedBudget == TailSpec => []BudgetIsShared
<1>1. TailsFillBudget /\ NeitherStreamStarves => BudgetIsShared
  BY DEF BudgetIsShared
<1>2. QED
  BY <1>1, BudgetIsFilled, NoStarvation, PTL

-----------------------------------------------------------------------------
(* The supervision *)

(***************************************************************************)
(* What the supervisor relies on.  The group is killed at most once and    *)
(* reaches all of its members; a leader that was killed was killed by an   *)
(* interrupt or is recorded as timed out; a pipe it no longer watches is   *)
(* exhausted, or the case is recorded as timed out; once it has decided    *)
(* the leader is gone.                                                     *)
(***************************************************************************)
Unwinding == pc \in {"unwind", "raised"}

KilledIsTimedOut ==
    life[Leader] = "doomed" \/ exit = "killed" => timedOut \/ Unwinding

Exhausted(q) == pending[q] = 0 /\ ~Written(q)
UnwatchedIsExhausted ==
    ~timedOut /\ ~Unwinding => /\ \A q \in Pipes \ open : Exhausted(q)
                               /\ pc \in {"wait", "done"} => open = {}

Decision ==
    /\ pc = "done" => Polled
    /\ observed # "none" => pc = "done" /\ observed \in Outcome

TailsKept == TailTypeOK /\ Kept(outTail, errTail, outBytes, errBytes)

ProcessInv ==
    /\ TypeOK /\ TailsKept
    /\ KillReachesGroup /\ KilledIsTimedOut /\ UnwatchedIsExhausted /\ Decision

\* The names that are told apart.
LEMMA Constants == Leader \in Processes /\ Leader \notin Descendants /\ Descendants \subseteq Processes
  BY LeaderAssumption DEF Processes

\* Whatever is pending and read is retained as OutputTail promises.
LEMMA RetainKeeps ==
    ASSUME TailsKept, NEW n \in Nat, NEW m \in Nat, Retain(n, m) PROVE TailsKept'
<1> DEFINE x == AppendStdout(outTail, errTail, n)
           y == AppendStderr(x[1], x[2], m)
<1>1. Kept(x[1], x[2], outBytes + n, errBytes)
  BY StdoutKeeps DEF TailsKept, TailTypeOK
<1>2. x[1] \in Nat /\ x[2] \in Nat
  BY <1>1 DEF Kept, TailsKept, TailTypeOK
<1>3. Kept(y[1], y[2], outBytes + n, errBytes + m)
  <2>1. outBytes + n \in Nat /\ errBytes \in Nat
    BY DEF TailsKept, TailTypeOK
  <2> HIDE DEF x
  <2>2. QED
    BY <1>1, <1>2, <2>1, StderrKeeps
<1>4. outTail' = y[1] /\ errTail' = y[2] /\ outBytes' = outBytes + n /\ errBytes' = errBytes + m
  BY DEF Retain
<1> HIDE DEF y
<1>5. QED
  BY <1>3, <1>4 DEF TailsKept, TailTypeOK, Kept

\* The supervisor starts in the invariant.
LEMMA ProcessInit == Init => ProcessInv
<1> SUFFICES ASSUME Init PROVE ProcessInv
  OBVIOUS
<1>1. TailsKept
  BY TailInvInit DEF Init, TailsKept, TailInv
<1>2. TypeOK
  BY <1>1 DEF Init, TypeOK, TailsKept, Processes, Pipes
<1>3. QED
  BY <1>1, <1>2, Constants
  DEF Init, ProcessInv, KillReachesGroup, KilledIsTimedOut, UnwatchedIsExhausted, Decision,
      Unwinding

\* The supervised processes keep it, whatever they do: they cannot reopen a pipe
\* without a writer, rejoin the group, or change how the leader ended.
LEMMA ProcessesKeep ==
    ProcessInv /\ (ProcessStep \/ Delivery \/ DeadlinePasses \/ DrainGracePasses) => ProcessInv'
<1> SUFFICES ASSUME ProcessInv, ProcessStep \/ Delivery \/ DeadlinePasses \/ DrainGracePasses
             PROVE  ProcessInv'
  OBVIOUS
<1> USE Constants DEF ProcessInv, TypeOK, TailsKept, KillReachesGroup, KilledIsTimedOut,
      UnwatchedIsExhausted, Decision, Unwinding, Exhausted, Written, Running, Polled
<1>1. ASSUME NEW p \in Processes, NEW k \in Descendants, Fork(p, k) PROVE ProcessInv'
  BY <1>1 DEF Fork, clock, evidence, tailVars, TailTypeOK, Outcome, OutputExhausted
<1>2. ASSUME NEW k \in Descendants, Detach(k) PROVE ProcessInv'
  BY <1>2 DEF Detach, clock, evidence, tailVars, TailTypeOK, Outcome, OutputExhausted
<1>3. ASSUME NEW p \in Processes, NEW q \in Pipes, ClosePipe(p, q) PROVE ProcessInv'
  BY <1>3 DEF ClosePipe, clock, evidence, tailVars, TailTypeOK, Outcome, OutputExhausted
<1>4. ASSUME NEW p \in Processes, NEW q \in Pipes, Write(p, q) PROVE ProcessInv'
  BY <1>4 DEF Write, os, clock, evidence, tailVars, TailTypeOK, Outcome, OutputExhausted
<1>5. ASSUME NEW p \in Processes, NEW how \in {"zero", "nonzero", "signal", "killed"},
             Die(p, how), life[p] = IF how = "killed" THEN "doomed" ELSE "alive"
      PROVE  ProcessInv'
  <2>1. /\ Running(p) /\ (how = "killed" => life[p] = "doomed")
        /\ life' = [life EXCEPT ![p] = "dead"] /\ holds' = [holds EXCEPT ![p] = {}]
        /\ exit' = IF p = Leader THEN how ELSE exit
        /\ UNCHANGED <<detached, pending, pc, open, deadline, drain, cleanupSent, timedOut,
                       incomplete, observed, outTail, errTail, outBytes, errBytes>>
    BY <1>5 DEF Die, clock, evidence, tailVars
  <2>2. TypeOK' /\ TailsKept'
    BY <2>1 DEF TailTypeOK
  <2>3. KillReachesGroup' /\ KilledIsTimedOut'
    BY <2>1
  <2>4. UnwatchedIsExhausted'
    BY <2>1
  <2>5. Decision'
    <3>1. pc' = "done" => Polled'
      BY <2>1
    <3>2. observed' # "none" => exit' = exit
      BY <2>1
    <3>3. QED
      BY <2>1, <3>1, <3>2 DEF Outcome, OutputExhausted
  <2>6. QED
    BY <2>2, <2>3, <2>4, <2>5
<1>6. CASE DeadlinePasses \/ DrainGracePasses
  <2>1. /\ deadline' \in BOOLEAN /\ drain' \in {"off", "running", "over"}
        /\ UNCHANGED <<life, detached, holds, exit, pending, pc, open, cleanupSent, timedOut,
                       incomplete, observed, outTail, errTail, outBytes, errBytes>>
    BY <1>6 DEF DeadlinePasses, DrainGracePasses, os, evidence, tailVars
  <2>2. TypeOK' /\ TailsKept'
    BY <2>1 DEF TailTypeOK
  <2>3. KillReachesGroup' /\ KilledIsTimedOut' /\ UnwatchedIsExhausted'
    BY <2>1
  <2>4. Decision'
    BY <2>1 DEF Outcome, OutputExhausted
  <2>5. QED
    BY <2>2, <2>3, <2>4
<1>7. CASE Delivery
  <2> HIDE DEF ProcessInv
  <2>1. PICK p \in Processes : Die(p, "killed") /\ life[p] = "doomed"
    BY <1>7 DEF Delivery, Deliver
  <2>2. QED
    BY <1>5, <2>1
<1>8. CASE ProcessStep
  <2> HIDE DEF ProcessInv
  <2>1. ASSUME NEW p \in Processes, NEW how \in {"zero", "nonzero", "signal"}, Exit(p, how)
        PROVE  ProcessInv'
    BY <1>5, <2>1 DEF Exit
  <2>2. QED
    BY <1>1, <1>2, <1>3, <1>4, <1>8, <2>1 DEF ProcessStep
<1>9. QED
  BY <1>6, <1>7, <1>8 DEF Delivery, ProcessStep


\* The kill reaches every member of the group that is still running.
LEMMA KillKeeps ==
    ASSUME ProcessInv, KillGroup
    PROVE  /\ life' \in [Processes -> {"unborn", "alive", "doomed", "dead"}]
           /\ cleanupSent' = TRUE
           /\ \A p \in Processes : /\ life'[p] = "alive" => p \in detached
                                   /\ (life'[p] \in {"alive", "doomed"}) <=> Running(p)
           /\ life'[Leader] = "doomed" => life[Leader] \in {"alive", "doomed"}
  BY Constants DEF ProcessInv, TypeOK, KillReachesGroup, KillGroup, Running

\* The supervisor's own steps keep the invariant.
LEMMA SupervisorKeeps == ProcessInv /\ (Supervise \/ Interrupt) => ProcessInv'
<1> SUFFICES ASSUME ProcessInv, Supervise \/ Interrupt PROVE ProcessInv'
  OBVIOUS
<1> USE Constants DEF ProcessInv, TypeOK, TailsKept, KillReachesGroup, KilledIsTimedOut,
      UnwatchedIsExhausted, Decision, Unwinding, Exhausted, Written, Running, Polled
<1>1. CASE LoopTest
  BY <1>1 DEF LoopTest, os, clock, evidence, tailVars, TailTypeOK
<1>2. CASE CheckLeader
  <2>1. /\ pc = "check" /\ pc' = "drain" /\ timedOut' = (timedOut \/ (~Polled /\ deadline))
        /\ UNCHANGED <<detached, holds, exit, pending, open, deadline, incomplete, observed,
                       outTail, errTail, outBytes, errBytes>>
    BY <1>2 DEF CheckLeader, tailVars
  <2>2. CASE Polled \/ deadline
    <3>1. KillGroup /\ StartDrain
      BY <1>2, <2>2 DEF CheckLeader
    <3>2. /\ life' \in [Processes -> {"unborn", "alive", "doomed", "dead"}]
          /\ cleanupSent' = TRUE
          /\ \A p \in Processes : /\ life'[p] = "alive" => p \in detached
                                  /\ (life'[p] \in {"alive", "doomed"}) <=> Running(p)
          /\ life'[Leader] = "doomed" => life[Leader] \in {"alive", "doomed"}
      BY <3>1, KillKeeps
    <3>3. TypeOK' /\ TailsKept'
      BY <2>1, <3>1, <3>2 DEF StartDrain, TailTypeOK
    <3>4. KillReachesGroup' /\ KilledIsTimedOut'
      BY <2>1, <2>2, <3>2
    <3>5. UnwatchedIsExhausted'
      BY <2>1, <3>2
    <3>6. Decision'
      BY <2>1
    <3>7. QED
      BY <3>3, <3>4, <3>5, <3>6
  <2>3. CASE ~(Polled \/ deadline)
    BY <1>2, <2>1, <2>3 DEF CheckLeader, TailTypeOK
  <2>4. QED
    BY <2>2, <2>3
<1>3. CASE GiveUp
  BY <1>3 DEF GiveUp, os, clock, tailVars, TailTypeOK
<1>4. CASE KeepGoing
  BY <1>4 DEF KeepGoing, os, clock, evidence, tailVars, TailTypeOK
<1>5. CASE Select
  <2>1. /\ pc = "select" /\ pc' = "test"
        /\ Retain(Pending("stdout"), Pending("stderr"))
        /\ open' = {q \in open : pending[q] > 0 \/ Written(q)}
        /\ pending' = [q \in Pipes |-> IF q \in open THEN 0 ELSE pending[q]]
        /\ UNCHANGED <<life, detached, holds, exit, deadline, drain, cleanupSent, timedOut,
                       incomplete, observed>>
    BY <1>5 DEF Select, os, clock, evidence
  <2>2. Pending("stdout") \in Nat /\ Pending("stderr") \in Nat
    BY DEF Pending, Pipes
  <2>3. TailsKept'
    BY <2>1, <2>2, RetainKeeps
  <2>4. TypeOK'
    BY <2>1, <2>3
  <2>5. KillReachesGroup' /\ KilledIsTimedOut' /\ Decision'
    BY <2>1
  <2>6. UnwatchedIsExhausted'
    BY <2>1
  <2>7. QED
    BY <2>3, <2>4, <2>5, <2>6
<1>6. CASE Interrupt
  <2>1. /\ pc' = "unwind" /\ open' = {} /\ pc # "done"
        /\ UNCHANGED <<detached, holds, exit, pending, deadline, drain, timedOut, incomplete,
                       observed, outTail, errTail, outBytes, errBytes>>
    BY <1>6 DEF Interrupt, clock, evidence, tailVars
  <2>2. CASE Polled
    BY <1>6, <2>1, <2>2 DEF Interrupt, TailTypeOK
  <2>3. CASE ~Polled
    <3>1. KillGroup
      BY <1>6, <2>3 DEF Interrupt
    <3>2. /\ life' \in [Processes -> {"unborn", "alive", "doomed", "dead"}]
          /\ cleanupSent' = TRUE
          /\ \A p \in Processes : life'[p] = "alive" => p \in detached
      BY <3>1, KillKeeps
    <3>3. QED
      BY <2>1, <3>2 DEF TailTypeOK
  <2>4. QED
    BY <2>2, <2>3
<1>7. CASE Unwind
  BY <1>7 DEF Unwind, os, clock, evidence, tailVars, TailTypeOK
<1>8. CASE Classify
  <2>1. /\ pc = "wait" /\ pc' = "done" /\ Polled /\ observed' \in Outcome
        /\ UNCHANGED <<life, detached, holds, exit, pending, open, deadline, drain, cleanupSent,
                       timedOut, incomplete, outTail, errTail, outBytes, errBytes>>
    BY <1>8 DEF Classify, os, clock, tailVars
  <2>2. Outcome \subseteq Responses \cup {"TIMED_OUT", "CRASHED", "BUDGET_EXHAUSTED", "HARNESS_FAILED"}
    BY DEF Outcome
  <2>3. TypeOK' /\ TailsKept'
    BY <2>1, <2>2 DEF TailTypeOK
  <2>4. Decision'
    BY <2>1 DEF Outcome, OutputExhausted
  <2>5. KillReachesGroup' /\ KilledIsTimedOut' /\ UnwatchedIsExhausted'
    BY <2>1
  <2>6. QED
    BY <2>3, <2>4, <2>5
<1>9. QED
  BY <1>1, <1>2, <1>3, <1>4, <1>5, <1>6, <1>7, <1>8 DEF Supervise

\* So the invariant always holds; no fairness is needed.
LEMMA ProcessInvariance == Spec => []ProcessInv
<1>1. ProcessInv /\ UNCHANGED vars => ProcessInv'
  BY DEF vars, os, clock, evidence, tailVars, ProcessInv, TypeOK, TailsKept, TailTypeOK,
         KillReachesGroup, KilledIsTimedOut, UnwatchedIsExhausted, Decision, Unwinding,
         Exhausted, Written, Running, Polled, Outcome, OutputExhausted
<1>2. ProcessInv /\ [Next]_vars => ProcessInv'
  BY <1>1, ProcessesKeep, SupervisorKeeps DEF Next
<1>3. QED
  BY <1>2, ProcessInit, PTL DEF Spec

\* Every variable of the supervisor and of the supervised processes has its type.
THEOREM SupervisorTypes == Spec => []TypeOK
<1>1. ProcessInv => TypeOK
  BY DEF ProcessInv
<1>2. QED
  BY <1>1, ProcessInvariance, PTL

\* Once the group has been killed only a process that left it runs on.
THEOREM GroupIsKilled == Spec => []KillReachesGroup
<1>1. ProcessInv => KillReachesGroup
  BY DEF ProcessInv
<1>2. QED
  BY <1>1, ProcessInvariance, PTL

\* The supervisor's own kill is never reported as a crash of the worker.
THEOREM CrashIsOwn == Spec => []CrashIsTheWorkersOwn
<1>1. ProcessInv => CrashIsTheWorkersOwn
  BY DEF ProcessInv, Decision, KilledIsTimedOut, Unwinding, Outcome, Responses,
         CrashIsTheWorkersOwn
<1>2. QED
  BY <1>1, ProcessInvariance, PTL

\* Unless the case is classified TIMED_OUT nothing written is lost.
THEOREM AllIsRead == Spec => []NothingUnread
<1>1. ProcessInv => NothingUnread
  BY DEF ProcessInv, UnwatchedIsExhausted, Unwinding, Exhausted, NothingUnread
<1>2. QED
  BY <1>1, ProcessInvariance, PTL

\* A verdict taken from the worker's response rests on the complete response.
THEOREM VerdictIsWhole == Spec => []ResponseIsWhole
<1>1. ProcessInv => ResponseIsWhole
  <2> SUFFICES ASSUME ProcessInv, observed \in Responses PROVE ResponseIsWhole
    BY DEF ResponseIsWhole
  <2>1. observed \in Outcome
    BY DEF ProcessInv, Decision, Responses
  <2>2. ~timedOut /\ exit = "zero" /\ ~OutputExhausted
    BY <2>1 DEF Outcome, Responses, ProcessInv, TypeOK
  <2>3. outTail + errTail = outBytes + errBytes /\ outTail \in 0..outBytes /\ errTail \in 0..errBytes
    BY <2>2, BudgetAssumption DEF ProcessInv, TailsKept, TailTypeOK, Kept, OutputExhausted, Smaller
  <2>4. QED
    BY <2>2, <2>3 DEF ResponseIsWhole, ProcessInv, TailsKept, TailTypeOK
<1>2. QED
  BY <1>1, ProcessInvariance, PTL

=============================================================================
