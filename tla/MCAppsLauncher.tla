--------------------------- MODULE MCAppsLauncher ---------------------------
(* AppsLauncher for TLC. *)
EXTENDS AppsLauncher, TLC

Symmetry == Permutations(Actions) \cup Permutations(Renderings)
=============================================================================
