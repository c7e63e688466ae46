-------------------------- MODULE SnapshotContract --------------------------
(***************************************************************************)
(* What a capture of a changing table promises: what it publishes is the   *)
(* table's first Target rows as they all were at one moment.               *)
(***************************************************************************)
EXTENDS Integers, FiniteSets

CONSTANTS
    Tables,         \* the tables the source may hold: functions from row ids to contents
    Target,         \* how many rows a snapshot has
    Nothing         \* no snapshot

VARIABLES
    table,          \* the source's table
    taken,          \* the snapshot, once it has been taken
    published       \* the snapshot, once it has been published

vars == <<table, taken, published>>

\* The first rows of t in the order of their ids.
IsFirst(t, rows) ==
    /\ rows \subseteq DOMAIN t /\ Cardinality(rows) = Target
    /\ \A x \in rows, y \in DOMAIN t \ rows : x < y

Init == table \in Tables /\ taken = Nothing /\ published = Nothing

Change == table' \in Tables /\ UNCHANGED <<taken, published>>

Take ==
    /\ taken = Nothing
    /\ \E rows \in SUBSET DOMAIN table :
          IsFirst(table, rows) /\ taken' = [x \in rows |-> table[x]]
    /\ UNCHANGED <<table, published>>

Publish ==
    /\ taken # Nothing /\ published' = taken
    /\ UNCHANGED <<table, taken>>

\* A capture that fails withdraws what it has published, and may forget what it took.
Withdraw ==
    /\ published' = Nothing /\ taken' \in {taken, Nothing}
    /\ UNCHANGED table

Next == Change \/ Take \/ Publish \/ Withdraw

Spec == Init /\ [][Next]_vars

=============================================================================
