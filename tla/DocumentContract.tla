-------------------------- MODULE DocumentContract --------------------------
(***************************************************************************)
(* What a writer of run documents may rely on: the document is absent or   *)
(* the whole payload of one write; a write takes effect at one moment or   *)
(* not at all, and at most once.  A loss of power may bring back a         *)
(* document that was there before, whole.                                  *)
(***************************************************************************)
CONSTANT Writes     \* the calls of atomic_write_json for one document
VARIABLES
    document,       \* the write whose payload the document is, or Absent
    past            \* the documents there have been

Absent == "absent"

Init == document = Absent /\ past = {Absent}

Publish(w) ==
    /\ w \notin past
    /\ document' = w
    /\ past' = past \cup {w}

PowerLoss ==
    /\ document' \in past
    /\ UNCHANGED past

Next == (\E w \in Writes : Publish(w)) \/ PowerLoss

Spec == Init /\ [][Next]_<<document, past>>
=============================================================================
