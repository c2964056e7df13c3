----------------------------- MODULE MCSliceQueue -----------------------------
(* SliceQueue for TLC; arrays are interchangeable, and those that nothing     *)
(* refers to are not looked at again.                                         *)
EXTENDS SliceQueue, TLC

Symmetry == Permutations(Arrays)

View ==
    <<[a \in Arrays |-> IF a \in {queue.array, copy.array} THEN heap[a] ELSE <<>>],
      cached, getOrCreate, Loop, copy, copied>>
=============================================================================
