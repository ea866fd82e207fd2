------------------------- MODULE MCExternalLifecycle -------------------------
(* Bounds and symmetry for ExternalLifecycle. *)
EXTENDS ExternalLifecycle, TLC

\* One edit, one helper replaced, or one command beside another.
MCCounts == {<<0, 0, 0>>, <<1, 0, 0>>, <<0, 1, 0>>, <<0, 0, 1>>}

Alike ==
    Permutations(Proc) \cup Permutations(Provider) \cup Permutations(Role)
    \cup Permutations(Helper)

=============================================================================
