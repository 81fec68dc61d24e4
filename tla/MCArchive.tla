------------------------------- MODULE MCArchive -------------------------------
(***************************************************************************)
(* A small instance of Leaderboard and, with it, of Archive and            *)
(* SessionStore.                                                           *)
(***************************************************************************)
EXTENDS Leaderboard, TLC

Symmetry == Permutations(Commands \ OldRuns) \cup Permutations(Tools)
=============================================================================
