---------------------------- MODULE JobContract -----------------------------
(***************************************************************************)
(* What the measurement estimand promises of one benchmark job             *)
(* (docs/specs/measurement-estimand-v1.md, failure_strategy                *)
(* "fail_job_on_any_unsuccessful_process_without_imputation"): the job is  *)
(* decided once no attempt is left open, it is MEASURED exactly if every   *)
(* attempt succeeded with the same evidence, and an attempt is given up    *)
(* only because another one has failed.                                    *)
(***************************************************************************)

CONSTANTS
    Attempts,       \* the fresh processes of the job
    EvidenceValues  \* what a successful process can report

VARIABLES
    ended,          \* ended[i]: "open", "failed", "skipped", or the evidence reported
    verdict         \* "none", "MEASURED" or "FAILED"

vars == <<ended, verdict>>

Init == ended = [i \in Attempts |-> "open"] /\ verdict = "none"

End(i) ==
    /\ ended[i] = "open"
    /\ \E e \in EvidenceValues \cup {"failed"} : ended' = [ended EXCEPT ![i] = e]
    /\ UNCHANGED verdict

Skip(i) ==
    /\ ended[i] = "open"
    /\ \E j \in Attempts : ended[j] = "failed"
    /\ ended' = [ended EXCEPT ![i] = "skipped"]
    /\ UNCHANGED verdict

AllAgree == \E e \in EvidenceValues : \A i \in Attempts : ended[i] = e

Decide ==
    /\ verdict = "none"
    /\ \A i \in Attempts : ended[i] # "open"
    /\ verdict' = IF AllAgree THEN "MEASURED" ELSE "FAILED"
    /\ UNCHANGED ended

Next == Decide \/ \E i \in Attempts : End(i) \/ Skip(i)

Spec == Init /\ [][Next]_vars

=============================================================================
