-------------------------- MODULE MCProviderSearch --------------------------
(* ProviderSearch for TLC: two searches of any one of the four providers.   *)
EXTENDS ProviderSearch, TLC

CONSTANTS s1, s2

MCSearches == {s1, s2}
MCAllProfiles == {LionAir, BatikAir, AirAsia, Garuda}

Symmetry == Permutations(Searches)
=============================================================================
