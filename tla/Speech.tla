------------------------------- MODULE Speech -------------------------------
(***************************************************************************)
(* The speech of the questions: the threads that synthesise it (the        *)
(* generation of each session, the worker for a follow-up, the recovery    *)
(* after a restart, which takes one session after the other), and the      *)
(* client of the TTS server with its retries, its fallback to the default  *)
(* voice and its cache of unavailable voices (services/qna_jobs.py,        *)
(* services/tts.py).                                                       *)
(*                                                                         *)
(* The generated questions and follow-ups come from Preparation and        *)
(* QnaSession.                                                             *)
(***************************************************************************)
EXTENDS Naturals

CONSTANTS
    Sessions,
    Primaries,     \* generated questions, as <<session, number>>
    FollowUps,     \* questions the worker may insert, named likewise
    Refused,       \* of these, the ones whose text the server answers with 400
    Throttling,    \* the server may answer 408 or 429
    StorageFails,  \* storage.save may raise
    MAX_RETRIES,   \* 2 in the code
    MaxCrashes     \* bound: server restarts

ASSUME SpeechAssumption ==
    /\ {MAX_RETRIES, MaxCrashes} \subseteq Nat
    /\ {"worker", "recovery"} \cap Sessions = {}
    /\ \A q \in Primaries \cup FollowUps : q[1] \in Sessions

Questions == Primaries \cup FollowUps
Of(s)     == {q \in Questions : q[1] = s}

(* The generation of a session is a thread named after it.                 *)
Threads == Sessions \cup {"worker", "recovery"}
Voices  == {"persona", "default"}
NoVoice == "none"

VARIABLES
    sessions,     \* the sessions that exist
    tts,          \* tts_status of the questions
    audio,        \* the stored wav, as the voice that speaks
    threads,
    unavailable,  \* _unavailable_voices holds the voice of the persona
    registered,   \* the server knows that voice
    starting,     \* the worker runs again, recover_tts has not
    lost,         \* history: questions an exception has left to nobody since
                  \* the server started; no step of the program reads it
    excused,      \* history: the server did not know the voice, or throttled it
    crashes       \* restarts so far

server == <<unavailable, registered, excused>>
vars   == <<sessions, tts, audio, threads, server, starting, lost, crashes>>

ThreadState ==
    [pc    : {"idle", "list", "next", "post", "save", "ready", "failed"},
     left  : SUBSET Sessions,        \* whose queued questions it has yet to list
     todo  : SUBSET Questions,
     q     : SUBSET Questions,       \* the question it works on, if any
     voice : Voices \cup {NoVoice},
     tries : 0 .. MAX_RETRIES]

Idle == [pc |-> "idle", left |-> {}, todo |-> {}, q |-> {}, voice |-> NoVoice, tries |-> 0]

TypeOK ==
    /\ sessions \subseteq Sessions /\ lost \subseteq Questions
    /\ {unavailable, registered, excused, starting} \subseteq BOOLEAN
    /\ tts \in [Questions -> {"absent", "queued", "processing", "ready", "failed"}]
    /\ audio \in [Questions -> Voices \cup {NoVoice}]
    /\ threads \in [Threads -> ThreadState]
    /\ crashes \in 0 .. MaxCrashes

Init ==
    /\ sessions = Sessions
    /\ tts = [q \in Questions |-> "absent"]
    /\ audio = [q \in Questions |-> NoVoice]
    /\ threads = [t \in Threads |-> Idle]
    /\ unavailable = FALSE
    /\ registered \in BOOLEAN
    /\ excused = ~registered
    /\ starting = FALSE
    /\ lost = {}
    /\ crashes = 0

At(t, pc) == threads[t].pc = pc

Goes(t, state) == threads' = [threads EXCEPT ![t] = state]

Sets(S, status) == tts' = [q \in Questions |-> IF q \in S THEN status ELSE tts[q]]

(* The queued questions of the sessions S, whoever inserted them.          *)
Queued(S) == {q \in Questions : q[1] \in S /\ tts[q] = "queued"}

(* A run that has questions at hand, then sessions to list.                *)
Proceeds(left, todo) ==
    [Idle EXCEPT !.pc   = IF todo # {} THEN "next" ELSE IF left # {} THEN "list" ELSE "idle",
                 !.left = left,
                 !.todo = todo]

Carried(r) == r.todo \cup r.q \cup Queued(r.left)

(* An exception leaves the loops of the run; nobody catches it before the  *)
(* end of the background task, of the recovery thread or of the job.       *)
Dies(t) == Goes(t, Idle) /\ lost' = lost \cup Carried(threads[t])

-----------------------------------------------------------------------------
(* The questions come, and go                                              *)

(* run_generate commits its questions and goes on to their speech.         *)
Generate(s) ==
    /\ s \in sessions /\ ~starting
    /\ threads[s] = Idle
    /\ \A q \in Of(s) : tts[q] = "absent"
    /\ Sets(Of(s) \cap Primaries, "queued")
    /\ Goes(s, Proceeds({s}, {}))
    /\ UNCHANGED <<sessions, audio, server, starting, lost, crashes>>

(* _decide_follow_up_and_advance commits a child and goes on to its speech.*)
FollowUp(s, f) ==
    /\ s \in sessions
    /\ threads["worker"] = Idle
    /\ tts[f] = "absent" /\ \E q \in Of(s) : tts[q] # "absent"
    /\ Sets({f}, "queued")
    /\ Goes("worker", Proceeds({}, {f}))
    /\ UNCHANGED <<sessions, audio, server, starting, lost, crashes>>

DeleteSession(s) ==
    /\ s \in sessions /\ ~starting
    /\ sessions' = sessions \ {s}
    /\ Sets(Of(s), "absent")
    /\ UNCHANGED <<audio, threads, server, starting, lost, crashes>>

(* The threads and the cache are lost; stt_queue.recover starts the worker.*)
Restart ==
    /\ crashes < MaxCrashes
    /\ crashes' = crashes + 1
    /\ threads' = [t \in Threads |-> Idle]
    /\ unavailable' = FALSE
    /\ starting' = TRUE
    /\ lost' = {}
    /\ UNCHANGED <<sessions, tts, audio, registered, excused>>

(* Mutant: what was in progress is left as it is.                          *)
Requeued_None == {}

(* The rows the UPDATE of recover_tts puts back.                           *)
Requeued == {q \in Questions : tts[q] = "processing"}

(* recover_tts: the worker may have begun a synthesis by then.             *)
RecoverTts ==
    /\ starting
    /\ starting' = FALSE
    /\ Sets(Requeued, "queued")
    /\ Goes("recovery", Proceeds({s \in Sessions : \E q \in Of(s) : tts'[q] = "queued"}, {}))
    /\ UNCHANGED <<sessions, audio, server, lost, crashes>>

(* The TTS server alone is restarted with the voices of the personas.      *)
Register ==
    /\ ~registered
    /\ registered' = TRUE
    /\ UNCHANGED <<sessions, tts, audio, threads, unavailable, excused, starting, lost, crashes>>

-----------------------------------------------------------------------------
(* _synthesize_session_tts and _synthesize_one                             *)

(* What the run does next, in a session of those it has left.              *)
ListQueued(t) ==
    /\ At(t, "list")
    /\ \E s \in threads[t].left :
          /\ Goes(t, Proceeds(threads[t].left \ {s}, Queued({s})))
          /\ lost' = lost \ Queued({s})
    /\ UNCHANGED <<sessions, tts, audio, server, starting, crashes>>

(* synthesize_question: not a voice this process knows to be unavailable.  *)
FirstVoice == IF unavailable THEN "default" ELSE "persona"

(* processing is committed over whatever the row says by now; the commit   *)
(* of a row that is gone raises.                                           *)
Begin(t, q) ==
    LET r == threads[t] IN
    /\ At(t, "next") /\ q \in r.todo
    /\ \/ /\ tts[q] = "absent"
          /\ Dies(t)
          /\ UNCHANGED tts
       \/ /\ tts[q] # "absent"
          /\ Sets({q}, "processing")
          /\ Goes(t, [r EXCEPT !.pc = "post", !.todo = @ \ {q}, !.q = {q}, !.voice = FirstVoice])
          /\ UNCHANGED lost
    /\ UNCHANGED <<sessions, audio, server, starting, crashes>>

(* The server has no such voice, or it does not take the text.             *)
Rejects(r) == r.q \subseteq Refused \/ (r.voice = "persona" /\ ~registered)

(* The voice was rejected, and the default one has just spoken the text.   *)
Fallback(r) == r.voice = "default" /\ ~unavailable

(* A wav; after a fallback the voice counts as unavailable.                *)
Spoken(t) ==
    LET r == threads[t] IN
    /\ At(t, "post") /\ ~Rejects(r)
    /\ Goes(t, [r EXCEPT !.pc = "save", !.tries = 0])
    /\ unavailable' = (unavailable \/ Fallback(r))
    /\ UNCHANGED <<sessions, tts, audio, registered, excused, starting, lost, crashes>>

(* Mutant: the cache is filled by the rejection, not by the fallback.      *)
Cached_Rejection(r) == TRUE

(* What a 4xx puts into the cache: nothing yet.                            *)
Cached(r) == FALSE

(* The call has failed; its voice and its tries are of no more use.        *)
Failed(r) == [r EXCEPT !.pc = "failed", !.voice = NoVoice, !.tries = 0]

(* Any 4xx, a 408 or 429 too: no retry. The voice of the persona gives way *)
(* to the default one, and the default one is an error.                    *)
Rejected(t) ==
    LET r == threads[t] IN
    /\ At(t, "post") /\ (Rejects(r) \/ Throttling)
    /\ Goes(t, IF r.voice = "persona" THEN [r EXCEPT !.voice = "default", !.tries = 0]
                                      ELSE Failed(r))
    /\ unavailable' = (unavailable \/ Cached(r))
    /\ excused' = (excused \/ ~Rejects(r))
    /\ UNCHANGED <<sessions, tts, audio, registered, starting, lost, crashes>>

Retries(r) == r.tries < MAX_RETRIES

(* A network error or 5xx is tried again; an answer that is no wav is not. *)
(* Only a rejection falls back to the default voice.                       *)
Broken(t, transient) ==
    LET r == threads[t] IN
    /\ At(t, "post")
    /\ Goes(t, IF transient /\ Retries(r) THEN [r EXCEPT !.tries = @ + 1]
                                          ELSE Failed(r))
    /\ UNCHANGED <<sessions, tts, audio, server, starting, lost, crashes>>

(* storage.save                                                            *)
Save(t) ==
    LET r == threads[t] IN
    /\ At(t, "save")
    /\ audio' = [q \in Questions |-> IF q \in r.q THEN r.voice ELSE audio[q]]
    /\ Goes(t, [r EXCEPT !.pc = "ready", !.voice = NoVoice])
    /\ UNCHANGED <<sessions, tts, server, starting, lost, crashes>>

(* It raises outside the try block: the row stays as it is.                *)
SaveFails(t) ==
    /\ StorageFails
    /\ At(t, "save")
    /\ Dies(t)
    /\ UNCHANGED <<sessions, tts, audio, server, starting, crashes>>

(* Mutant: an error ends the run.                                          *)
After_Error(r) == IF r.pc = "failed" THEN {} ELSE r.todo

After(r) == r.todo

(* ready or failed is committed, and the next question follows; or the row *)
(* is gone, and the commit raises.                                         *)
Store(t) ==
    LET r == threads[t] IN
    /\ r.pc \in {"ready", "failed"}
    /\ \/ /\ \E q \in r.q : tts[q] = "absent"
          /\ Dies(t)
          /\ UNCHANGED tts
       \/ /\ \A q \in r.q : tts[q] # "absent"
          /\ Sets(r.q, r.pc)
          /\ Goes(t, Proceeds(r.left, After(r)))
          /\ UNCHANGED lost
    /\ UNCHANGED <<sessions, audio, server, starting, crashes>>

-----------------------------------------------------------------------------
Works(t) ==
    \/ ListQueued(t) \/ Spoken(t) \/ Rejected(t) \/ Save(t) \/ SaveFails(t) \/ Store(t)
    \/ \E q \in Questions : Begin(t, q)
    \/ \E transient \in BOOLEAN : Broken(t, transient)

Next ==
    \/ Restart \/ RecoverTts \/ Register
    \/ \E s \in Sessions :
          \/ Generate(s) \/ DeleteSession(s)
          \/ \E f \in FollowUps \cap Of(s) : FollowUp(s, f)
    \/ \E t \in Threads : Works(t)

Spec == Init /\ [][Next]_vars

(* The threads run on, and the startup finishes.                           *)
FairSpec == Spec /\ WF_vars(RecoverTts) /\ \A t \in Threads : WF_vars(Works(t))

-----------------------------------------------------------------------------
(* Properties.                                                             *)

IsUnfinished(q) == tts[q] \in {"queued", "processing"}

(* A question that a thread is going to settle.                            *)
HasThread(q) ==
    \/ starting /\ IsUnfinished(q)
    \/ \E t \in Threads : q \in Carried(threads[t])

Pending == {q \in Questions : HasThread(q)} \cup lost

Job == INSTANCE AsyncJob WITH Rows <- Questions, status <- tts, pending <- Pending

(* "Preparing the voice" is shown only while a thread will end it, or when *)
(* an exception has left it to nobody: through a restart in the middle of  *)
(* a synthesis, with the worker already running again, with two threads at *)
(* the same question, and with a recovery that dies among its sessions     *)
(* (_synthesize_one, recover_tts).                                         *)
SpeechPolled == Job!Spec

(* Every question gets its speech or an error, unless an exception leaves  *)
(* it to nobody (recover_tts, "the frontend waits for ever").              *)
SpeechSettles == \A q \in Questions : []<>(~IsUnfinished(q) \/ q \in lost)

(* As long as the server has had the voice of the persona and throttled no *)
(* request, neither a network error, a 5xx, an answer that is no wav nor a *)
(* text that is refused makes the process give the voice up, and nobody    *)
(* hears the default one (synthesize_question).                            *)
VoiceOfPersona == ~excused => ~unavailable /\ \A q \in Questions : audio[q] # "default"

(* "The default voice succeeded, so the cause of the rejection is settled: *)
(* the voice is not registered" (tts.py, where the cache is filled). Not so*)
(* when the server throttles: SpeechThrottled.cfg.                         *)
RejectionConfirmed == [][~unavailable /\ unavailable' => ~registered]_vars

(* "When the voices are registered the backend is restarted too, so that   *)
(* the cache needs no invalidation" (tts.py). Not so when the TTS server   *)
(* alone is restarted: SpeechStale.cfg.                                    *)
CacheValid == registered => ~unavailable

(* "Absorbed, lest a question be stuck in processing" (_synthesize_one),   *)
(* or in the queue (recover_tts): somebody has each unfinished question.   *)
(* The code does not keep it: SpeechStorage.cfg and SpeechRecovery.cfg.    *)
NothingStuck == \A q \in Questions : IsUnfinished(q) => HasThread(q)
=============================================================================
