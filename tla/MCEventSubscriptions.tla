------------------------- MODULE MCEventSubscriptions -------------------------
EXTENDS EventSubscriptions, TLC

\* Requests, jobs and secrets are told apart only by equality.
Symmetry == Permutations(Requests) \cup Permutations(Jobs) \cup Permutations(Secrets)
=============================================================================
