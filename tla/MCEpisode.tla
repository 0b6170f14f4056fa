----------------------------- MODULE MCEpisode -----------------------------
\* A workspace with solution.py, and a tests file that the config gives, the
\* runner takes away and the model may create.
EXTENDS Episode

CONSTANTS solution, tests, stub, edited

StubFiles == [f \in Files |-> stub]
=============================================================================
