-------------------------- MODULE MCBoundedProcess --------------------------
(* One worker and one descendant, k1.  A second one, k2, is there for larger *)
(* instances than the configurations beside this module ask for.             *)
EXTENDS BoundedProcess

CONSTANTS leader, k1, k2

=============================================================================
