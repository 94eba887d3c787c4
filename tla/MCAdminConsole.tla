--------------------------- MODULE MCAdminConsole ----------------------------
EXTENDS AdminConsole, TLC

\* Everything drawn at random is told apart only by equality, and so are
\* handlers and processes.
Symmetry ==
    Permutations(Handlers) \cup Permutations(Tokens) \cup Permutations(States)
        \cup Permutations(Keys) \cup Permutations(Processes)
=============================================================================
