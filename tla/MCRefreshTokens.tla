-------------------------- MODULE MCRefreshTokens --------------------------
(* Instances of RefreshTokens for TLC.                                     *)
EXTENDS RefreshTokens, TLC

Symmetry == Permutations(Workers) \cup Permutations(TokenIds)
              \cup Permutations(Users)
=============================================================================
