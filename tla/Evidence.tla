------------------------------ MODULE Evidence ------------------------------
(***************************************************************************)
(* The evidence states of model.py and the transitions `transition` lets   *)
(* through.  Every other module speaks of these states.                    *)
(***************************************************************************)

Discovered  == "DISCOVERED"
Encoded     == "ENCODED"
Verified    == "ROUNDTRIP_VERIFIED"
Benchmarked == "BENCHMARKED"
Reported    == "REPORTED"
Unsupported == "UNSUPPORTED"
Failed      == "FAILED"

\* _FAILURES: the two ways evidence ends without ranking.
Failures == {Unsupported, Failed}

\* _ACTIVE: the states evidence can still leave.
Active == {Discovered, Encoded, Verified, Benchmarked}

ExecutionState == Active \cup {Reported} \cup Failures

\* _NEXT: the lifecycle's forward edges.
Forward == { <<Discovered, Encoded>>, <<Encoded, Verified>>,
             <<Verified, Benchmarked>>, <<Benchmarked, Reported>> }

\* transition(current, target) returns target exactly when this holds and
\* raises ValueError otherwise.
LegalTransition(current, target) ==
    \/ <<current, target>> \in Forward
    \/ current \in Active /\ target \in Failures

=============================================================================
