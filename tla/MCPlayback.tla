------------------------------ MODULE MCPlayback ------------------------------
(* Playback for TLC: the symmetry of its goroutines, and a view. *)
EXTENDS Playback, TLC

Symmetry == Permutations(Procs)

\* Without the three history variables, for the runs whose properties do not
\* read them.
View == <<chatVars, pc, local, used, stream>>
=============================================================================
