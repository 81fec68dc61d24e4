--------------------------- MODULE MCEpisodeRunner ---------------------------
(***************************************************************************)
(* Small instances of EpisodeRunner.  Targets are interchangeable, but the *)
(* run checks liveness, for which TLC takes no symmetry.                   *)
(***************************************************************************)
EXTENDS EpisodeRunner
=============================================================================
