------------------------------ MODULE MCTeams -------------------------------
(* Instances of Teams for TLC.                                             *)
EXTENDS Teams, TLC

Symmetry == Permutations(Handlers) \cup Permutations(Users) \cup Permutations(Teams)
=============================================================================
