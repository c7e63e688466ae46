---------------------------- MODULE AtomicWrite ----------------------------
(***************************************************************************)
(* atomic_write_json (json_contract.py), system call by system call: calls *)
(* for one document that may overlap, fail at every step, be killed, and   *)
(* lose what was not synchronised when the power goes.                     *)
(*                                                                         *)
(* Every write has an inode of its own, so inodes are named by the write   *)
(* they belong to.  Other principals cannot change the directory, which    *)
(* the code verifies first (json_contract.py:82-93).  A random name that   *)
(* is taken is tried again, so a temporary name is any that is free.       *)
(***************************************************************************)
EXTENDS Naturals

CONSTANTS
    Writes,         \* the calls of atomic_write_json
    Names,          \* the names of temporary files
    Size            \* the number of parts a payload is written in

ASSUME WritesAssumption == {"absent", "none"} \cap Writes = {}
ASSUME NamesAssumption == "none" \notin Names
ASSUME SizeAssumption == Size \in Nat /\ Size > 0

VARIABLES
    pc,             \* pc[w]: the step of write w
    name,           \* name[w]: the name of its temporary file
    intended,       \* intended[w]: the mode the document is to have
    length,         \* length[w]: how much of its payload its inode holds
    durable,        \* durable[w]: how much of that was synchronised
    mode,           \* mode[w]: the mode of its inode
    temporary,      \* temporary[n]: the write whose inode has the temporary name n
    document,       \* the write whose inode has the document's name
    past            \* history: the writes that had it

inodes == <<length, durable, mode>>
directory == <<temporary, document, past>>
vars == <<pc, name, intended, inodes, directory>>

Absent == "absent"
Free == "none"          \* no temporary name, or no inode under one
Private == "0600"
Default == "default"    \* 0666 under the umask

Init ==
    /\ pc = [w \in Writes |-> "idle"]
    /\ name = [w \in Writes |-> Free]
    /\ intended = [w \in Writes |-> Default]
    /\ length = [w \in Writes |-> 0] /\ durable = [w \in Writes |-> 0]
    /\ mode = [w \in Writes |-> Private]
    /\ temporary = [n \in Names |-> Free]
    /\ document = Absent /\ past = {Absent}

-----------------------------------------------------------------------------

Step(w, from, to) ==
    /\ pc[w] = from
    /\ pc' = [pc EXCEPT ![w] = to]

Running(w) == pc[w] \notin {"idle", "done", "failed"}

(* The mode of the document that is there is kept; a new one has the default. *)
Open(w) ==
    /\ Step(w, "idle", "opened")
    /\ intended' = [intended EXCEPT ![w] = IF document = Absent THEN Default ELSE mode[document]]
    /\ UNCHANGED <<name, inodes, directory>>

\* A bug: a temporary file that is there is opened again.
CreateAny(w, n) ==
    /\ Step(w, "opened", "created")
    /\ name' = [name EXCEPT ![w] = n]
    /\ temporary' = [temporary EXCEPT ![n] = w]
    /\ mode' = [mode EXCEPT ![w] = intended[w]]
    /\ UNCHANGED <<intended, length, durable, document, past>>

(* O_CREAT and O_EXCL *)
Create(w, n) ==
    /\ Step(w, "opened", "created")
    /\ temporary[n] = Free
    /\ name' = [name EXCEPT ![w] = n]
    /\ temporary' = [temporary EXCEPT ![n] = w]
    /\ mode' = [mode EXCEPT ![w] = intended[w]]
    /\ UNCHANGED <<intended, length, durable, document, past>>

Narrow(w) ==
    /\ Step(w, "created", "private")
    /\ temporary[name[w]] = w               \* _temporary_name
    /\ mode' = [mode EXCEPT ![w] = Private]
    /\ UNCHANGED <<name, intended, length, durable, directory>>

\* A bug: the payload is written before the file is made private.
WriteEarly(w) ==
    /\ pc[w] \in {"created", "private"} /\ length[w] < Size
    /\ \E n \in (length[w] + 1)..Size : length' = [length EXCEPT ![w] = n]
    /\ UNCHANGED <<pc, name, intended, durable, mode, directory>>

(* One write call may take only a part. *)
Write(w) ==
    /\ pc[w] = "private" /\ length[w] < Size
    /\ \E n \in (length[w] + 1)..Size : length' = [length EXCEPT ![w] = n]
    /\ UNCHANGED <<pc, name, intended, durable, mode, directory>>

Flush(w) ==
    /\ length[w] = Size
    /\ Step(w, "private", "complete")
    /\ durable' = [durable EXCEPT ![w] = length[w]]
    /\ UNCHANGED <<name, intended, length, mode, directory>>

Replace(w) ==
    /\ Step(w, "complete", "published")
    /\ temporary' = [temporary EXCEPT ![name[w]] = Free]
    /\ document' = temporary[name[w]]
    /\ past' = past \cup {temporary[name[w]]}
    /\ UNCHANGED <<name, intended, inodes>>

Restore(w) ==
    /\ Step(w, "published", "done")
    /\ mode' = [mode EXCEPT ![w] = intended[w]]
    /\ UNCHANGED <<name, intended, length, durable, directory>>

(* A system call fails, or the process is killed: what is there is left. *)
Fail(w) ==
    /\ Running(w)
    /\ pc' = [pc EXCEPT ![w] = "failed"]
    /\ UNCHANGED <<name, intended, inodes, directory>>

(* Every process ends; of a file's bytes only those that were synchronised
   are certain, and of the document's names none: the directory is never
   synchronised. *)
PowerLoss ==
    /\ pc' = [w \in Writes |-> IF Running(w) THEN "failed" ELSE pc[w]]
    /\ \E kept \in [Writes -> 0..Size] :
          /\ \A w \in Writes : durable[w] <= kept[w] /\ kept[w] <= length[w]
          /\ length' = kept
    /\ document' \in past
    /\ UNCHANGED <<name, intended, durable, mode, temporary, past>>

Next ==
    \/ \E w \in Writes :
          \/ Open(w) \/ (\E n \in Names : Create(w, n)) \/ Narrow(w)
          \/ Write(w) \/ Flush(w) \/ Replace(w) \/ Restore(w) \/ Fail(w)
    \/ PowerLoss

Spec == Init /\ [][Next]_vars

-----------------------------------------------------------------------------
(* Properties *)

Modes == {Private, Default}

(* The shape of the state. *)
TypeOK ==
    /\ pc \in [Writes -> {"idle", "opened", "created", "private", "complete",
                          "published", "done", "failed"}]
    /\ name \in [Writes -> Names \cup {Free}]
    /\ intended \in [Writes -> Modes] /\ mode \in [Writes -> Modes]
    /\ length \in [Writes -> 0..Size] /\ durable \in [Writes -> 0..Size]
    /\ temporary \in [Names -> Writes \cup {Free}]
    /\ document \in Writes \cup {Absent} /\ past \subseteq Writes \cup {Absent}

(* Whoever opens the document, at any moment and after any failure, finds the
   whole payload of one write. *)
DocumentIsWhole == document # Absent => length[document] = Size

(* A payload that is not published can be read by nobody else
   (json_contract.py:252-254). *)
PrivateUntilPublished == \A w \in Writes : length[w] > 0 /\ w \notin past => mode[w] = Private

(* A call that is under way publishes its own file: no other call has taken
   its temporary name. *)
OwnTemporary ==
    \A w \in Writes : pc[w] \in {"created", "private", "complete"} => temporary[name[w]] = w

(* The document as its readers see it. *)
Seen == IF document # Absent /\ length[document] < Size THEN "torn" ELSE document

(* The contract of a document: whoever reads it sees the last write that was
   published, whole, or after a loss of power an earlier one. *)
Contract == INSTANCE DocumentContract WITH document <- Seen
FollowsContract == Contract!Spec

=============================================================================
