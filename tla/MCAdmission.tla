------------------------------ MODULE MCAdmission ------------------------------
EXTENDS Admission, TLC

\* Handlers and nonces are told apart only by equality.
Symmetry == Permutations(Handlers) \cup Permutations(Nonces)
=============================================================================
