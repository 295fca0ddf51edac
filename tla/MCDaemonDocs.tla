---------------------------- MODULE MCDaemonDocs ----------------------------
(***************************************************************************)
(* Model values for the daemon's documents.                                *)
(***************************************************************************)
EXTENDS DaemonDocs, TLC

\* Calls are interchangeable; documents are not, ids are ordered.
Symmetry == Permutations(Calls)
=============================================================================
