--------------------------- MODULE MCRunLifecycle ---------------------------
(***************************************************************************)
(* Two formats, csv in the fair lane and db in the engine_container lane;  *)
(* an equivalence pair of both and one of db alone.  Of the profiles that  *)
(* write through _finish, claims (whose directory must be new) and prompt; *)
(* robustness takes the steps of prompt.                                   *)
(***************************************************************************)
EXTENDS RunLifecycle

CONSTANTS csv, db

MCFormats == {csv, db}
MCFairFormats == {csv}
MCPairs == {{csv, db}, {db}}
MCProfiles == {"claims", "prompt"}

=============================================================================
