----------------------------- MODULE PcmChunker -----------------------------
(***************************************************************************)
(* A live recording: the microphone's pieces of any length go through the  *)
(* rolling window of the frontend's PcmChunker, which emits a chunk        *)
(* whenever a minute is full; when the recording stops, the whole file and *)
(* the chunks are what the server makes transcripts of (module Stt).       *)
(***************************************************************************)
EXTENDS Stt

CONSTANTS
    Pieces,     \* lengths of the pieces the microphone may deliver
    MaxTotal,   \* bound: length of the recording
    Talks       \* what may have been said: sequences of stamps, in time

ASSUME RecordingAssumption ==
    /\ Pieces \subseteq Nat \ {0}
    /\ MaxTotal \in Nat

(* A talk is a sequence of words, one after the other; no word lasts       *)
(* longer than the windows overlap. <<>> stands for a recording that goes  *)
(* on.                                                                     *)
SpokenWord == [word : Nat, start : Nat, end : Nat, glue : BOOLEAN]

ASSUME TalkAssumption == \A t \in Talks :
    /\ t \in Seq(SpokenWord) /\ t # <<>>
    /\ \A i \in DOMAIN t : t[i].start < t[i].end /\ t[i].end - t[i].start <= OVERLAP_SEC
    /\ \A i, j \in DOMAIN t : i < j => t[i].end <= t[j].start

VARIABLES
    window,         \* _window: lengths of the pieces that are kept
    windowStart,    \* _windowStart: where the first of them begins
    total,          \* _totalBytes
    sent,           \* the chunks emitted; their number is _emitted
    talk            \* what was said, once the recording has stopped

recorder == <<window, windowStart, total, sent, talk>>

Recording == talk = <<>>

RecorderInit ==
    /\ window = <<>>
    /\ windowStart = 0
    /\ total = 0
    /\ sent = <<>>
    /\ talk = <<>>

(* The pieces that end at keepFrom or before are dropped from the front.   *)
_trimWindowBefore(w, keepFrom) ==
    LET End[i \in 0 .. Len(w.pieces)] ==
            IF i = 0 THEN w.start ELSE End[i - 1] + w.pieces[i]
        gone == Cardinality({i \in 1 .. Len(w.pieces) : End[i] <= keepFrom})
    IN  [w EXCEPT !.pieces = SubSeq(@, gone + 1, Len(@)), !.start = End[gone]]

(* Mutant: the window keeps nothing of the minute before.                  *)
KeepFrom_Minute(emitted) == emitted * CHUNK_SEC

(* The next chunk begins one overlap before the minute it is named for.    *)
KeepFrom(emitted) == emitted * CHUNK_SEC - OVERLAP_SEC

(* The part of [from, to) that the window still holds is copied; what it   *)
(* does not hold would stay silent.                                        *)
_slice(w, from, to) == [from |-> LargerOf(from, w.start), to |-> to]

_emit(w, endAt) ==
    LET seq     == Len(w.sent)
        overlap == IF seq = 0 THEN 0 ELSE OVERLAP_SEC
        from    == seq * CHUNK_SEC - overlap
        chunk   == [offset |-> from, overlap |-> overlap, duration |-> endAt - from,
                    audio |-> _slice(w, from, endAt)]
    IN  _trimWindowBefore([w EXCEPT !.sent = Append(@, chunk)], KeepFrom(seq + 1))

(* The loop of add(): n chunks, each to the next full minute.              *)
Emits(w, n) ==
    LET After[k \in 0 .. n] ==
            IF k = 0 THEN w ELSE _emit(After[k - 1], (Len(w.sent) + k) * CHUNK_SEC)
    IN  After[n]

(* add(): as many chunks as there are full minutes now.                    *)
Add(n) ==
    LET w    == [pieces |-> Append(window, n), start |-> windowStart, sent |-> sent]
        full == (total + n) \div CHUNK_SEC
        done == Emits(w, full - Len(sent))
    IN  /\ Recording
        /\ total + n <= MaxTotal
        /\ total' = total + n
        /\ window' = done.pieces
        /\ windowStart' = done.start
        /\ sent' = done.sent
        /\ UNCHANGED talk

(* flush(): the rest is the last chunk, if there is one. What was said is  *)
(* chosen here: it ends before the recording does.                         *)
Flush ==
    LET w == [pieces |-> window, start |-> windowStart, sent |-> sent]
    IN  /\ Recording
        /\ total > 0
        /\ talk' \in {t \in Talks : Last(t).end <= total}
        /\ sent' = IF total <= Len(sent) * CHUNK_SEC THEN sent ELSE _emit(w, total).sent
        /\ UNCHANGED <<window, windowStart, total>>

RecorderNext == (\E n \in Pieces : Add(n)) \/ Flush

RecorderSpec == RecorderInit /\ [][RecorderNext]_recorder

-----------------------------------------------------------------------------
(* The transcripts.                                                        *)

(* _run_stt, or the fallback of _run_complete: the whole file.             *)
FromFile == transcribe_recording(talk, [from |-> 0, to |-> total])

(* _run_complete: the chunks, each transcribed by itself when it came.     *)
FromChunks == merge_chunk_segments(
    [i \in DOMAIN sent |->
        [offset |-> sent[i].offset, overlap |-> sent[i].overlap,
         segments |-> transcribe_recording(talk, sent[i].audio)]])

Spoken == [i \in DOMAIN talk |-> talk[i].word]

-----------------------------------------------------------------------------
(* Properties.                                                             *)

(* A chunk holds the audio it announces ("chunk i covers max(0, 60i-4) to  *)
(* 60(i+1)"): the window has not dropped what the overlap needs, however   *)
(* the microphone cuts its pieces (_trimWindowBefore, _slice).             *)
ChunkHoldsItsAudio == \A i \in DOMAIN sent :
    LET c == sent[i] IN
    /\ c.audio.from = c.offset
    /\ c.audio.to = c.offset + c.duration
    /\ i > 1 => c.offset + c.overlap = sent[i - 1].audio.to

(* What one segment would hold if nothing cut the recording.               *)
Phrases == _group_words(talk)

(* The transcript of a file has every word that was said once and in       *)
(* order, from the first word's start to the last one's end: a word on a   *)
(* border is heard by two windows, whole by one at least, and kept from    *)
(* exactly one, with its own times (_split_wav, _shift_and_trim).          *)
WordsOnce == ~Recording =>
    /\ WordsOf(FromFile) = Spoken
    /\ Head(FromFile).start = Head(talk).start
    /\ Last(FromFile).end = Last(talk).end

(* The chunks of a live recording are cut between segments, and each chunk *)
(* was grouped by itself. Still they give the phrases of a recording that  *)
(* nothing cut, with every word once and in order, as long as no phrase    *)
(* lasts longer than the overlap or pauses inside a word that is written   *)
(* in pieces (merge_chunk_segments).                                       *)
Unbroken == \A i \in DOMAIN talk \ {1} :
    talk[i].glue => talk[i].start - talk[i - 1].end < GROUP_GAP_SEC

PhrasesOnce ==
    ~Recording /\ Unbroken /\ (\A p \in ToSet(Phrases) : p.end - p.start <= OVERLAP_SEC) =>
        /\ FromChunks = Phrases
        /\ WordsOf(FromChunks) = Spoken

-----------------------------------------------------------------------------
(* What ChunkHoldsItsAudio rests on: the window reaches back to where the  *)
(* next chunk begins, and while the recording goes on every chunk ends at  *)
(* its minute and there is one for every full minute.                      *)
Begin(i) == IF i = 0 THEN 0 ELSE KeepFrom(i)

Chunk == [offset : Int, overlap : Int, duration : Int, audio : [from : Int, to : Int]]

IsChunk(c, i) ==
    /\ c.offset = Begin(i - 1) /\ c.audio.from = c.offset
    /\ c.offset + c.overlap = (i - 1) * CHUNK_SEC
    /\ c.audio.to = c.offset + c.duration

WindowInv(w) ==
    /\ w \in [pieces : Seq(Nat), start : Nat, sent : Seq(Chunk)]
    /\ w.start <= Begin(Len(w.sent))
    /\ \A i \in DOMAIN w.sent :
          IsChunk(w.sent[i], i) /\ w.sent[i].audio.to = i * CHUNK_SEC

(* The chunks of a whole recording: the last one ends where it ends.       *)
Minutes(chunks, length) ==
    /\ chunks \in Seq(Chunk) /\ chunks # <<>>
    /\ (Len(chunks) - 1) * CHUNK_SEC < length /\ length <= Len(chunks) * CHUNK_SEC
    /\ \A i \in DOMAIN chunks :
          IsChunk(chunks[i], i) /\ chunks[i].audio.to = LeastOf(length, i * CHUNK_SEC)

RecorderInv ==
    /\ ChunkHoldsItsAudio /\ total \in Nat
    /\ Recording =>
          /\ Len(sent) = total \div CHUNK_SEC
          /\ WindowInv([pieces |-> window, start |-> windowStart, sent |-> sent])
    /\ ~Recording => talk \in Talks /\ Last(talk).end <= total /\ Minutes(sent, total)
=============================================================================
