----------------------------- MODULE MCPairing ------------------------------
(* Pairing for TLC: concurrent requests over a few pairings and devices. *)
EXTENDS Pairing, TLC

Symmetry == Permutations(Threads) \cup Permutations(Devices) \cup Permutations(PairingIds)
=============================================================================
