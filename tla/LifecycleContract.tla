------------------------- MODULE LifecycleContract --------------------------
(***************************************************************************)
(* What the lifecycle contract of model.py promises of a piece of durable  *)
(* evidence: it starts DISCOVERED and each durable change of its state is  *)
(* one legal transition.  One write of a document may move several items   *)
(* at once, each by its own transition.                                    *)
(***************************************************************************)
EXTENDS Evidence

CONSTANT Items          \* the pieces of evidence the contract speaks of

VARIABLE state          \* state[i]: the durable state of item i

Init == state = [i \in Items |-> Discovered]

Move == \E next \in [Items -> ExecutionState] :
            /\ \A i \in Items : next[i] = state[i] \/ LegalTransition(state[i], next[i])
            /\ state' = next

Spec == Init /\ [][Move]_state

=============================================================================
