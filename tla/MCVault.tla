------------------------------- MODULE MCVault -------------------------------
(* Instances of Vault for TLC.                                             *)
EXTENDS Vault, TLC

Symmetry == Permutations(Profiles) \cup Permutations(Secrets)
              \cup Permutations(Masters) \cup Permutations(Salts)

\* The keychain is one service: it answers for every account or for none.
WholeOutages == {{}, Accounts}
\* A single read can time out or be refused on its own.
AnyOutages == SUBSET Accounts
=============================================================================
