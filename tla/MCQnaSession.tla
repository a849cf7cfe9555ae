---------------------------- MODULE MCQnaSession ----------------------------
(* Small instances of QnaSession for TLC.                                  *)
EXTENDS QnaSession, TLC

(* Request threads are interchangeable. Used for safety runs only.         *)
Symmetry == Permutations(Handlers)
=============================================================================
