---------------------------- MODULE MCRelaySync ----------------------------
(***************************************************************************)
(* RelaySync on small instances.  Connections are interchangeable, and so  *)
(* are sessions and updates, so TLC may identify permuted states; the      *)
(* liveness run does without.                                              *)
(***************************************************************************)
EXTENDS RelaySync, TLC

Symmetry ==
    Permutations(Sessions) \cup Permutations(Conns) \cup Permutations(Updates)
=============================================================================
