----------------------------- MODULE OutputTail -----------------------------
(***************************************************************************)
(* The two output tails the process supervisor retains (_append_tail in    *)
(* robustness/runner.py).  Each stream keeps a suffix of what was read     *)
(* from it and both suffixes together never exceed one budget, so a tail   *)
(* is modelled by its length.                                              *)
(***************************************************************************)
EXTENDS Integers

CONSTANTS
    Budget,         \* retention budget of the two tails together, in bytes
    MaxChunk,       \* largest chunk one read returns
    MaxBytes        \* bytes each stream delivers at most (bounds the model)

ASSUME BudgetAssumption == Budget \in Nat
ASSUME ChunkAssumption == MaxChunk \in Nat
ASSUME BytesAssumption == MaxBytes \in Nat

Smaller(a, b) == IF a <= b THEN a ELSE b
Larger(a, b) == IF a >= b THEN a ELSE b

\* The share of the budget a stream keeps when the other one has output too.
Half == Budget \div 2

\* What trimming may not take from a tail of length n when the other has length m.
StdoutFloor(n, m) == IF m = 0 THEN 0 ELSE Smaller(n, Half)
StderrFloor(n, m) == IF m = 0 THEN 0 ELSE Smaller(n, Budget - Half)

\* A bug: only the stream that has just grown is trimmed.
TrimFirstOnly(first, firstFloor, second, secondFloor) ==
    LET excess == Larger(0, first + second - Budget)
    IN <<first - Smaller(excess, Larger(0, first - firstFloor)), second>>

\* Trim the tail that has just grown first, down to its floor, then the other one.
Trim(first, firstFloor, second, secondFloor) ==
    LET excess == Larger(0, first + second - Budget)
        taken  == Smaller(excess, Larger(0, first - firstFloor))
    IN <<first - taken,
         second - Smaller(excess - taken, Larger(0, second - secondFloor))>>

\* The two lengths after n bytes are appended to stdout's tail, or to stderr's.
AppendStdout(out, err, n) ==
    Trim(out + n, StdoutFloor(out + n, err), err, StderrFloor(err, out + n))
AppendStderr(out, err, n) ==
    LET t == Trim(err + n, StderrFloor(err + n, out), out, StdoutFloor(out, err + n))
    IN <<t[2], t[1]>>

-----------------------------------------------------------------------------
(* The supervisor's reads, in any order and in chunks of any size. *)

VARIABLES
    outTail, errTail,       \* lengths of the retained tails
    outBytes, errBytes      \* bytes read so far

tailVars == <<outTail, errTail, outBytes, errBytes>>

TailInit == outTail = 0 /\ errTail = 0 /\ outBytes = 0 /\ errBytes = 0

ReadStdout(n) ==
    /\ outBytes + n <= MaxBytes
    /\ outBytes' = outBytes + n
    /\ outTail' = AppendStdout(outTail, errTail, n)[1]
    /\ errTail' = AppendStdout(outTail, errTail, n)[2]
    /\ UNCHANGED errBytes

ReadStderr(n) ==
    /\ errBytes + n <= MaxBytes
    /\ errBytes' = errBytes + n
    /\ outTail' = AppendStderr(outTail, errTail, n)[1]
    /\ errTail' = AppendStderr(outTail, errTail, n)[2]
    /\ UNCHANGED outBytes

TailNext == \E n \in 1..MaxChunk : ReadStdout(n) \/ ReadStderr(n)

TailSpec == TailInit /\ [][TailNext]_tailVars

-----------------------------------------------------------------------------

\* Lengths and counters are natural numbers.
TailTypeOK ==
    /\ outTail \in Nat /\ errTail \in Nat
    /\ outBytes \in Nat /\ errBytes \in Nat

\* Whatever the interleaving and the chunk sizes, the tails fill the budget exactly:
\* nothing is dropped while there is room, and never is more than the budget kept
\* (runner.py:215-231), so a stream is marked truncated only if the output really
\* exceeded the budget (runner.py:360-363).
TailsFillBudget == outTail + errTail = Smaller(Budget, outBytes + errBytes)

\* A noisy stream cannot push the other one's diagnostics out: each keeps its last
\* bytes up to its own half of the budget (runner.py:218-220).
NeitherStreamStarves ==
    /\ outTail >= Smaller(outBytes, Half)
    /\ errTail >= Smaller(errBytes, Budget - Half)

\* The budget that two pipes share is filled while there is output, and none of
\* them takes the other's half, whatever the order and size of the chunks.
BudgetIsShared == TailsFillBudget /\ NeitherStreamStarves

=============================================================================
