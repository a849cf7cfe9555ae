---------------------------- MODULE MCAlgorithms ----------------------------
(* Small instances of PcmChunker and LanguageModel for TLC: a behaviour is *)
(* one recording and its transcripts, and one call of the language model.  *)
EXTENDS PcmChunker, LanguageModel

(* Words of half a second, two seconds, three, and four, as long as the    *)
(* overlap, around the first two minutes, alone or followed by another, at *)
(* once or after a pause, with a space or without. The pieces: 32 s, 60 s, *)
(* 65 s.                                                                   *)
AllPieces == {64, 120, 130}
Lengths   == {1, 4, 6, 8}
Starts    == (100 .. 132) \cup (226 .. 250)

Word(n, start, length, glue) ==
    [word |-> n, start |-> start, end |-> start + length, glue |-> glue]

AllTalks ==
    UNION {{<<w>>} \cup
           {<<w, Word(2, w.end + pause, n, glue)>> :
               pause \in {0, 1}, n \in Lengths, glue \in BOOLEAN} :
           w \in {Word(1, s, n, FALSE) : s \in Starts, n \in Lengths}}

BackupKey      == <<"primary", "backup">>
RepeatedModels == <<"flash", "lite", "flash", "pro">>

Init == RecorderInit /\ CallInit

(* The two share nothing: one after the other is enough.                   *)
Next ==
    \/ tried = <<>> /\ RecorderNext /\ UNCHANGED call
    \/ total = 0 /\ CallNext /\ UNCHANGED recorder

Spec == Init /\ [][Next]_<<recorder, call>>
=============================================================================
