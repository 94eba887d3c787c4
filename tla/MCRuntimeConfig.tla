---------------------------- MODULE MCRuntimeConfig ----------------------------
EXTENDS RuntimeConfig, TLC

\* Administrators and channels are told apart only by equality.
Symmetry == Permutations(Admins) \cup Permutations(Channels)
=============================================================================
