----------------------- MODULE MCConcurrentConfigurators -----------------------
(* Instances of ConcurrentConfigurators for TLC.                            *)
EXTENDS ConcurrentConfigurators, TLC
CONSTANTS p, q, r

\* Processes of one kind are interchangeable.
Symmetry == Permutations(Proc \ Unlocked) \cup Permutations(Unlocked)
================================================================================
