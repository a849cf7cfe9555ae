-------------------------------- MODULE Stt ---------------------------------
(***************************************************************************)
(* How a recording becomes a transcript (services/stt.py): a long file is  *)
(* split into windows that overlap, each is transcribed by itself, what    *)
(* two windows heard is cut at the middle of their overlap, and the stamps *)
(* are grouped into segments at the pauses. merge_chunk_segments does the  *)
(* cut for the chunks of a live recording.                                 *)
(*                                                                         *)
(* Time is in half seconds, so that the middle of the overlap and of a     *)
(* pause are whole numbers. A stamp carries the word it stands for.        *)
(***************************************************************************)
EXTENDS Integers, SequencesExt

CHUNK_SEC     == 120
OVERLAP_SEC   == 8
GROUP_GAP_SEC == 1      \* 0.35 s: the shortest silence there is here
GROUP_MAX_SEC == 30
LeastOf(a, b) == IF a < b THEN a ELSE b
LargerOf(a, b) == IF a > b THEN a ELSE b

(* The members of a finite set, the first one first.                       *)
InOrder(S, Before(_, _)) ==
    [k \in 1 .. Cardinality(S) |->
        CHOOSE x \in S : Cardinality({y \in S : Before(y, x)}) = k - 1]

(* The elements of a sequence at these positions.                          *)
At(s, positions) ==
    LET order == InOrder(positions, <)
    IN  [k \in DOMAIN order |-> s[order[k]]]

-----------------------------------------------------------------------------
(* The windows of a recording.                                             *)

(* Window i starts at i strides; one that would hear nothing that the      *)
(* window before it has not heard is not cut.                              *)
WindowNumbers(total) ==
    {i \in 0 .. total \div CHUNK_SEC : i = 0 \/ i * CHUNK_SEC + OVERLAP_SEC < total}

Window(i, total) ==
    [from |-> i * CHUNK_SEC, to |-> LeastOf(total, (i + 1) * CHUNK_SEC + OVERLAP_SEC)]

_split_wav(total) ==
    IF total <= CHUNK_SEC + OVERLAP_SEC THEN <<[from |-> 0, to |-> total]>>
    ELSE [k \in 1 .. Cardinality(WindowNumbers(total)) |-> Window(k - 1, total)]

-----------------------------------------------------------------------------
(* One window.                                                             *)

(* What the speech server returns for a window: a stamp for every word in  *)
(* it, cut off where the window begins or ends.                            *)
Transcribed(talk, w) ==
    LET inside == At(talk, {i \in DOMAIN talk :
                               talk[i].start < w.to /\ talk[i].end > w.from})
    IN  [i \in DOMAIN inside |->
            [inside[i] EXCEPT !.start = LargerOf(@, w.from) - w.from,
                              !.end   = LeastOf(@, w.to) - w.from]]

(* Whether a stamp is written without a space before it comes from the     *)
(* text of the window, whose first stamp has nothing to join.              *)
_attach_display_text(stamps) ==
    [i \in DOMAIN stamps |-> [stamps[i] EXCEPT !.glue = @ /\ i > 1]]

(* A stamp belongs to the window that holds its middle. The comparisons    *)
(* are of doubles: a middle is half the sum of start and end.              *)
Within(x, lo, hi, isFirst, isLast) ==
    /\ isFirst \/ 2 * lo <= x.start + x.end
    /\ isLast  \/ x.start + x.end < 2 * hi

Belonging(stamps, lo, hi, isFirst, isLast) ==
    At(stamps, {i \in DOMAIN stamps : Within(stamps[i], lo, hi, isFirst, isLast)})

Shifted(stamps, offset) ==
    [i \in DOMAIN stamps |->
        [stamps[i] EXCEPT !.start = @ + offset, !.end = @ + offset]]

(* Mutant: a window owns what begins in its stride, not from the middle of *)
(* the overlap on.                                                         *)
_shift_and_trim_Stride(stamps, offset, isFirst, isLast) ==
    Belonging(Shifted(stamps, offset), offset,
              offset + CHUNK_SEC + OVERLAP_SEC \div 2, isFirst, isLast)

_shift_and_trim(stamps, offset, isFirst, isLast) ==
    Belonging(Shifted(stamps, offset), offset + OVERLAP_SEC \div 2,
              offset + CHUNK_SEC + OVERLAP_SEC \div 2, isFirst, isLast)

-----------------------------------------------------------------------------
(* The segments.                                                           *)

(* list.sort by (start, end), which is stable.                             *)
InTime(stamps) ==
    LET Earlier(i, j) ==
            LET x == stamps[i]
                y == stamps[j]
            IN  \/ x.start < y.start
                \/ x.start = y.start /\ x.end < y.end
                \/ x.start = y.start /\ x.end = y.end /\ i < j
        order == InOrder(DOMAIN stamps, Earlier)
    IN  [k \in DOMAIN order |-> stamps[order[k]]]

Segment(x) == [start |-> x.start, end |-> x.end, words |-> <<x.word>>]

(* The last segment goes on, unless there is a pause or it would become    *)
(* too long; what is written without a space never opens one.              *)
Grouped(segments, x) ==
    IF segments = <<>> THEN <<Segment(x)>>
    ELSE LET cur == Last(segments)
         IN  IF ~x.glue /\ \/ x.start - cur.end >= GROUP_GAP_SEC
                           \/ x.end - cur.start > GROUP_MAX_SEC
             THEN Append(segments, Segment(x))
             ELSE Append(Front(segments),
                         [cur EXCEPT !.words = Append(@, x.word),
                                     !.end   = LargerOf(@, x.end)])

_group_words(stamps) ==
    LET After[n \in 0 .. Len(stamps)] ==
            IF n = 0 THEN <<>> ELSE Grouped(After[n - 1], stamps[n])
    IN  After[Len(stamps)]

(* The transcript of a file that holds what was said of talk in the window *)
(* w; times are relative to its start.                                     *)
transcribe_recording(talk, w) ==
    LET spoken  == Transcribed(talk, w)
        windows == _split_wav(w.to - w.from)
        Kept(i) == _shift_and_trim(_attach_display_text(Transcribed(spoken, windows[i])),
                                   windows[i].from, i = 1, i = Len(windows))
    IN  _group_words(InTime(FlattenSeq([i \in DOMAIN windows |-> Kept(i)])))

(* The overlap of a chunk of a live recording is in front; what two chunks *)
(* heard is cut at the middle of the overlap that the second one announced.*)
(* Mutant: it is cut at the minute the second one is named for.            *)
Cut_Minute(chunk) == chunk.offset + chunk.overlap

Cut(chunk) == chunk.offset + chunk.overlap \div 2

merge_chunk_segments(chunks) ==
    LET Kept(i) == LET next == LeastOf(i + 1, Len(chunks))
                   IN  Belonging(Shifted(chunks[i].segments, chunks[i].offset),
                                 Cut(chunks[i]), Cut(chunks[next]),
                                 i = 1, i = Len(chunks))
    IN  InTime(FlattenSeq([i \in DOMAIN chunks |-> Kept(i)]))

(* The words of a transcript, in order.                                    *)
WordsOf(segments) == FlattenSeq([i \in DOMAIN segments |-> segments[i].words])
=============================================================================
