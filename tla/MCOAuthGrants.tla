----------------------------- MODULE MCOAuthGrants -----------------------------
EXTENDS OAuthGrants, TLC

\* Codes, grants and policies are told apart only by equality.
Symmetry == Permutations(Codes) \cup Permutations(Grants) \cup Permutations(Policies)
=============================================================================
