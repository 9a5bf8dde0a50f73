--------------------------- MODULE MCWalletSession ---------------------------
(* Instances of WalletSession for TLC.                                     *)
EXTENDS WalletSession, TLC

\* Requests, secrets and settings are interchangeable; the default profile and
\* the first settings are not.
Symmetry == Permutations(Secrets) \cup Permutations(Requests)
=============================================================================
