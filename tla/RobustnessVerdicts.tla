------------------------- MODULE RobustnessVerdicts -------------------------
(***************************************************************************)
(* What both robustness suites use: the verdict on an observed outcome     *)
(* (model.py) and the gate over the observations of results.json           *)
(* (robustness/gate.py).                                                   *)
(***************************************************************************)
EXTENDS Sequences

\* A bug: any failure to read counts as the rejection that was expected.
VerdictAnyRefusal(expected, observed) ==
    IF observed \in {"UNSUPPORTED", "BUDGET_EXHAUSTED"}
    THEN "INCOMPLETE"
    ELSE IF observed \in CASE expected = "MUST_ROUNDTRIP" -> {"ROUNDTRIP_EQUAL"}
                           [] OTHER -> {"ACCEPTED", "REJECTED", "HARNESS_FAILED"}
         THEN "PASS"
         ELSE "FAIL"

Verdict(expected, observed) ==
    IF observed \in {"UNSUPPORTED", "BUDGET_EXHAUSTED", "HARNESS_FAILED"}
    THEN "INCOMPLETE"
    ELSE IF observed \in CASE expected = "MUST_ROUNDTRIP" -> {"ROUNDTRIP_EQUAL"}
                           [] expected = "MUST_REJECT"    -> {"REJECTED"}
                           [] OTHER -> {"ROUNDTRIP_EQUAL", "ACCEPTED", "REJECTED"}
         THEN "PASS"
         ELSE "FAIL"

Core(obs) == {k \in DOMAIN obs : obs[k].core}

Blockers(obs) ==
    {k \in Core(obs) : \/ obs[k].verdict \in {"FAIL", "INCOMPLETE"}
                       \/ obs[k].observed = "HARNESS_FAILED"}

Green(obs) == Core(obs) # {} /\ Blockers(obs) = {}

=============================================================================
