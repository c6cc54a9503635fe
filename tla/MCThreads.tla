----------------------------- MODULE MCThreads -----------------------------
EXTENDS Threads, TLC
CONSTANTS Plain, Rich, shared, extra
\* The database agents share one memory, and one of them has a second.
Configuration == [g \in Agent |-> IF g = Plain THEN {shared}
                                  ELSE IF g = Rich THEN {shared, extra} ELSE {}]
Symmetry == Permutations(Call)
=============================================================================
