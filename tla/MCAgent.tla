------------------------------ MODULE MCAgent ------------------------------
(***************************************************************************)
(* AgentService on small sets.  Values of one kind are interchangeable in  *)
(* every definition, so safety runs may use their permutations.            *)
(***************************************************************************)
EXTENDS AgentService, TLC

Symmetry ==
  Permutations(Receivers) \cup Permutations(Sessions) \cup Permutations(Devices)
  \cup Permutations(Challenges) \cup Permutations(Keys) \cup Permutations(Handles)

=============================================================================
