----------------------------- MODULE MCAssistants -----------------------------
\* Module Assistants for TLC: everything can fail in a short behaviour; in
\* longer ones what makes PlayMedia try another assistant, and the native engine.
EXTENDS Assistants, TLC

LoadSets ==
    {[faults |-> Fallible \ {"db"}, bound |-> 1],
     [faults |-> {"db", "crowded"}, bound |-> 1],
     [faults |-> {"crowded"}, bound |-> 2],
     [faults |-> {"native", "rights"}, bound |-> 2]}

RetryLoad == {[faults |-> {"participants"}, bound |-> 1]}

Symmetric == Permutations(Assistants)
=============================================================================
