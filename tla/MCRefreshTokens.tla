-------------------------- MODULE MCRefreshTokens --------------------------
(* Instances of RefreshTokens for TLC. *)
EXTENDS RefreshTokens, TLC

\* Identifiers and requests are interchangeable: no action tells them apart.
Interchangeable == Permutations(Fams) \cup Permutations(Jtis) \cup Permutations(Requests)
=============================================================================
