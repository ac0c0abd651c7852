-------------------------- MODULE MCParallelInput --------------------------
(* ParallelInput on three files, one of them empty. *)
EXTENDS ParallelInput

MCFiles == <<5, 0, 3>>
=============================================================================
