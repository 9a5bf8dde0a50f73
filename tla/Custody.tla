------------------------------- MODULE Custody -------------------------------
(***************************************************************************)
(* What the vault promises, with nothing of how it is kept: every wallet   *)
(* profile keeps at most one seed, a seed once stored is replaced by no    *)
(* other, and it goes only while that profile itself is being wiped.       *)
(* Vault.tla implements this specification (Vault!CustodyHolds).           *)
(***************************************************************************)
CONSTANTS
  Profiles,     \* the wallet profiles
  Secrets,      \* the seeds and wallet passes a vault can hold
  None          \* "no seed" and "no profile"

VARIABLES
  kept,         \* kept[p] is the seed of p the user can get back, or None
  wiping        \* the profile whose wipe is under way, or None

vars == <<kept, wiping>>

Init ==
  /\ kept \in [Profiles -> Secrets \cup {None}]
  /\ wiping = None

Store(p, x) ==
  /\ wiping = None
  /\ kept[p] = None
  /\ kept' = [kept EXCEPT ![p] = x]
  /\ UNCHANGED wiping

BeginWipe(p) ==
  /\ wiping = None
  /\ wiping' = p
  /\ UNCHANGED kept

\* A step of the wipe of p can lose its seed, end the wipe, or both; the end of
\* the process cuts a wipe short in the same way.
Wipe(p) ==
  /\ wiping = p
  /\ kept' \in {kept, [kept EXCEPT ![p] = None]}
  /\ wiping' \in {p, None}

Next ==
  \E p \in Profiles : BeginWipe(p) \/ Wipe(p) \/ \E x \in Secrets : Store(p, x)

Spec == Init /\ [][Next]_vars
=============================================================================
