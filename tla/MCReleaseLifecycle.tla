-------------------------- MODULE MCReleaseLifecycle --------------------------
(* ReleaseLifecycle on small sets for TLC. *)
EXTENDS ReleaseLifecycle, TLC

Symmetry == Permutations(Backups)
===============================================================================
