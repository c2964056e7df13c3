------------------------------ MODULE MCPrefetch ------------------------------
(* Prefetch for TLC; the names of timers are interchangeable. *)
EXTENDS Prefetch, TLC

Symmetry == Permutations(Timers)

\* Without Playback's history of tracks somebody has set out to play.
View == <<chatVars, pc, local, used, stream, halted, survivor, prefetchVars>>
=============================================================================
