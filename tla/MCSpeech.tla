------------------------------ MODULE MCSpeech ------------------------------
(* Small instances of Speech for TLC: two sessions with a question each,   *)
(* the first of which may get a follow-up.                                 *)
EXTENDS Speech, TLC

CONSTANTS s1, s2

OneEach == {<<s1, 1>>, <<s2, 1>>}
OneMore == {<<s1, 2>>}
=============================================================================
