--------------------------- MODULE MCReviewSession ---------------------------
(***************************************************************************)
(* Instances of ReviewSession for TLC.                                     *)
(***************************************************************************)
EXTENDS ReviewSession, TLC

\* Sessions, scopes and findings are only compared with each other.
Interchangeable ==
    Permutations(Session) \cup Permutations(Scope) \cup Permutations(Finding)

=============================================================================
