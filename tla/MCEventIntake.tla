---------------------------- MODULE MCEventIntake ----------------------------
EXTENDS EventIntake, TLC

\* Event ids and handlers are told apart only by equality.
Symmetry == Permutations(EventIds) \cup Permutations(Handlers)
=============================================================================
