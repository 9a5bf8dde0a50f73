------------------------------- MODULE MCMiner -------------------------------
(* Instances of Miner for TLC.                                             *)
EXTENDS Miner, TLC

\* Process ids and profiles are interchangeable, and so are the commands.
Symmetry == Permutations(Children) \cup Permutations(Profiles) \cup Permutations(Starts)
=============================================================================
