---------------------------- MODULE MCPreparation ---------------------------
(* Small instances of Preparation for TLC.                                 *)
EXTENDS Preparation, TLC

(* Request threads, takes and formats are interchangeable. Used for safety *)
(* runs only.                                                              *)
Symmetry == Permutations(Handlers) \cup Permutations(Takes) \cup Permutations(Exts)
=============================================================================
