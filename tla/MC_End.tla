------------------------------ MODULE MC_End ------------------------------
EXTENDS ResponseEnd

\* A short turn and its continuation; a changed prompt that is admitted beside
\* their endpoint and outgrows the rest of the pool; a short turn again, and
\* a continuation that outgrows the room its endpoint leaves.
Prompts == <<1, 2, 1, 1, 3>>
Responses == <<1, 2, 4, 1, 4>>
=============================================================================
