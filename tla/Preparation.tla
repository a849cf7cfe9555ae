----------------------------- MODULE Preparation ----------------------------
(***************************************************************************)
(* The first half of a rehearsal session: the talk is uploaded whole or in *)
(* live chunks, the speech-to-text worker transcribes it, and a background *)
(* job turns the transcript into questions (api/routes/recordings.py,      *)
(* services/stt_queue.py, generate in api/routes/qna.py and run_generate   *)
(* in services/qna_jobs.py). It ends where QnaSession begins.              *)
(*                                                                         *)
(* A handler reads the session in its first step (require_session_owner)   *)
(* and commits in a later one; handlers[h].seen is the status it read.     *)
(* What is said and heard is a take, one performance of the talk: files,   *)
(* segments and questions are the SET of takes they hold, {} being NULL.   *)
(***************************************************************************)
EXTENDS Backend, Sequences

CONSTANTS
    Handlers,        \* request threads of the presenter that may run at once
    Takes,           \* performances of the talk
    Exts,            \* audio formats: a recording has one storage key per format
    NumChunks,       \* bound: live chunks of a recording
    Totals,          \* what a complete call may announce as total_chunks
    QueueCap,        \* bound: an upload is accepted below this queue length
    MaxGenerations,  \* bound: run_generate jobs at a time
    MaxCrashes       \* bound: number of server restarts

NoKey == "null"

ASSUME PreparationAssumption ==
    /\ NoKey \notin Exts
    /\ NumChunks \in Nat
    /\ Totals \subseteq Nat
    /\ QueueCap \in Nat
    /\ MaxGenerations \in Nat \ {0}
    /\ MaxCrashes \in Nat

Seqs  == 1 .. NumChunks   \* seq of the code plus one
Slots == 1 .. MaxGenerations

AsyncStatus == {"absent", "queued", "processing", "ready", "failed"}

(* The row of recordings. duration is the take it was measured from, {}    *)
(* when the client does not know it and sends 0; total is {} for a whole   *)
(* upload (NULL) and the announced number for a live recording.            *)
Recording == [key      : Exts \cup {NoKey},
              take     : SUBSET Takes,
              duration : SUBSET Takes,
              total    : SUBSET Totals]

NoRecording == [key |-> NoKey, take |-> {}, duration |-> {}, total |-> {}]

(* Rows of transcripts and of recording_chunks.                            *)
Segments == [status : AsyncStatus, from : SUBSET Takes]
Absent   == [status |-> "absent", from |-> {}]

VARIABLES
    status,       \* sessions.status
    recording,    \* the recordings row
    transcript,   \* the transcripts row
    chunks,       \* rows of recording_chunks
    questions,    \* the rows run_generate stores: made, and from which takes
    files,        \* recording.{ext} in storage
    chunkFiles,   \* chunks/{seq} in storage
    queue,        \* in-memory FIFO of <<kind, seq>>
    worker,       \* the STT worker thread
    generations,  \* background run_generate jobs
    handlers,     \* the requests being served
    crashes       \* restarts so far

database == <<status, recording, transcript, chunks, questions>>
storage  == <<files, chunkFiles>>
vars     == <<database, storage, queue, worker, generations, handlers, crashes>>

Lifecycle == INSTANCE SessionLifecycle

Idle == [pc |-> "idle", seen |-> "draft", seq |-> 0, new |-> NoRecording, old |-> NoKey]

HandlerState ==
    [pc   : {"idle", "start", "save", "store", "enqueue", "chunk_save", "chunk_store",
             "chunk_enqueue", "retry", "retry_enqueue", "generate"},
     seen : Lifecycle!SessionStatus,
     seq  : Seqs \cup {0},
     new  : Recording,               \* the recording being uploaded
     old  : Exts \cup {NoKey}]       \* its predecessor's file, to be deleted

WorkerIdle == [pc |-> "idle", seq |-> 0, key |-> NoKey, total |-> {}, text |-> {}, audio |-> {}]

WorkerState ==
    [pc    : {"idle", "probe", "measure", "open", "transcribe", "merge",
              "chunk_open", "chunk_transcribe"},
     seq   : Seqs \cup {0},
     key   : Exts \cup {NoKey},      \* storage_key as read
     total : SUBSET Totals,          \* total_chunks as read
     text  : SUBSET Takes,           \* segments as read
     audio : SUBSET Takes]           \* what the opened file holds

Jobs == ({"recording", "complete"} \X {0}) \cup ({"chunk"} \X Seqs)

NoGeneration == [pc |-> "idle", seen |-> "draft", from |-> {}]

GenerationState == [pc   : {"idle", "read", "ask"},
                    seen : Lifecycle!SessionStatus,
                    from : SUBSET Takes]

TypeOK ==
    /\ status \in Lifecycle!SessionStatus
    /\ recording \in Recording
    /\ transcript \in Segments
    /\ chunks \in [Seqs -> Segments]
    /\ questions \in [made : BOOLEAN, from : SUBSET Takes]
    /\ files \in [Exts -> SUBSET Takes]
    /\ chunkFiles \in [Seqs -> SUBSET Takes]
    /\ queue \in Seq(Jobs)
    /\ worker \in WorkerState
    /\ generations \in [Slots -> GenerationState]
    /\ handlers \in [Handlers -> HandlerState]
    /\ crashes \in 0 .. MaxCrashes

Init ==
    /\ status = "draft"
    /\ recording = NoRecording
    /\ transcript = Absent
    /\ chunks = [s \in Seqs |-> Absent]
    /\ questions = [made |-> FALSE, from |-> {}]
    /\ files = [e \in Exts |-> {}]
    /\ chunkFiles = [s \in Seqs |-> {}]
    /\ queue = <<>>
    /\ worker = WorkerIdle
    /\ generations = [g \in Slots |-> NoGeneration]
    /\ handlers = [h \in Handlers |-> Idle]
    /\ crashes = 0

-----------------------------------------------------------------------------
(* POST /recording/start. Already recording answers 202 without a commit.  *)

StartCheck(h) ==
    /\ handlers[h].pc = "idle"
    /\ status = "draft"
    /\ handlers' = [handlers EXCEPT ![h].pc = "start", ![h].seen = status]
    /\ UNCHANGED <<database, storage, queue, worker, generations, crashes>>

StartStore(h) ==
    /\ handlers[h].pc = "start"
    /\ Lifecycle!can_transition(handlers[h].seen, "recording_in_progress")
    /\ status' = "recording_in_progress"
    /\ handlers' = [handlers EXCEPT ![h] = Idle]
    /\ UNCHANGED <<recording, transcript, chunks, questions, storage, queue, worker,
                   generations, crashes>>

-----------------------------------------------------------------------------
(* POST /recording and POST /recording/complete: the first has no total,   *)
(* the second the announced number of chunks and a measured duration.      *)

_UPLOADABLE == {"draft", "recording_in_progress", "transcribing", "failed"}

UploadCheck(h, new) ==
    /\ handlers[h].pc = "idle"
    /\ Len(queue) < QueueCap
    /\ status \in _UPLOADABLE
    /\ handlers' = [handlers EXCEPT ![h] = [Idle EXCEPT !.pc = "save", !.new = new]]
    /\ UNCHANGED <<database, storage, queue, worker, generations, crashes>>

(* save_stream replaces the file of this format in one rename.             *)
UploadSave(h) ==
    LET new == handlers[h].new IN
    /\ handlers[h].pc = "save"
    /\ files' = [files EXCEPT ![new.key] = new.take]
    /\ handlers' = [handlers EXCEPT ![h].pc = "store"]
    /\ UNCHANGED <<database, chunkFiles, queue, worker, generations, crashes>>

(* _store_full_recording reads the session again under a row lock, so the  *)
(* status it moves on is the stored one.                                   *)
UploadStore(h) ==
    LET new == handlers[h].new IN
    /\ handlers[h].pc = "store"
    /\ status = "transcribing" \/ Lifecycle!can_transition(status, "transcribing")
    /\ status' = "transcribing"
    /\ recording' = new
    /\ transcript' = [status |-> "queued", from |-> {}]
    /\ handlers' = [handlers EXCEPT
           ![h].pc = "enqueue",
           ![h].old = IF recording.key # new.key THEN recording.key ELSE NoKey]
    /\ UNCHANGED <<chunks, questions, storage, queue, worker, generations, crashes>>

(* 409 INVALID_STATE_TRANSITION: the transaction is rolled back.           *)
UploadRefused(h) ==
    /\ handlers[h].pc = "store"
    /\ status # "transcribing" /\ ~Lifecycle!can_transition(status, "transcribing")
    /\ handlers' = [handlers EXCEPT ![h] = Idle]
    /\ UNCHANGED <<database, storage, queue, worker, generations, crashes>>

Kind(new) == IF new.total = {} THEN "recording" ELSE "complete"

(* Mutant: no second job while one of the session is running.              *)
UploadEnqueue_Once(h) ==
    LET r == handlers[h] IN
    /\ r.pc = "enqueue"
    /\ files' = [e \in Exts |-> IF e = r.old THEN {} ELSE files[e]]
    /\ queue' = IF worker.pc = "idle" THEN Append(queue, <<Kind(r.new), 0>>) ELSE queue
    /\ handlers' = [handlers EXCEPT ![h] = Idle]
    /\ UNCHANGED <<database, chunkFiles, worker, generations, crashes>>

(* The file of another format is deleted, then the job is queued.          *)
UploadEnqueue(h) ==
    LET r == handlers[h] IN
    /\ r.pc = "enqueue"
    /\ files' = [e \in Exts |-> IF e = r.old THEN {} ELSE files[e]]
    /\ queue' = Append(queue, <<Kind(r.new), 0>>)
    /\ handlers' = [handlers EXCEPT ![h] = Idle]
    /\ UNCHANGED <<database, chunkFiles, worker, generations, crashes>>

-----------------------------------------------------------------------------
(* POST /recording/chunks                                                  *)

_CHUNK_ALLOWED == {"draft", "recording_in_progress"}

ChunkCheck(h, seq, take) ==
    /\ handlers[h].pc = "idle"
    /\ Len(queue) < QueueCap
    /\ status \in _CHUNK_ALLOWED
    /\ handlers' = [handlers EXCEPT ![h] =
           [Idle EXCEPT !.pc = "chunk_save", !.seen = status, !.seq = seq,
                        !.new = [NoRecording EXCEPT !.take = {take}]]]
    /\ UNCHANGED <<database, storage, queue, worker, generations, crashes>>

ChunkSave(h) ==
    /\ handlers[h].pc = "chunk_save"
    /\ chunkFiles' = [chunkFiles EXCEPT ![handlers[h].seq] = handlers[h].new.take]
    /\ handlers' = [handlers EXCEPT ![h].pc = "chunk_store", ![h].new = NoRecording]
    /\ UNCHANGED <<database, files, queue, worker, generations, crashes>>

(* The status is written only when draft was read; the transcript is       *)
(* processing from now on, whatever it was.                                *)
ChunkStore(h) ==
    LET r == handlers[h] IN
    /\ r.pc = "chunk_store"
    /\ status' = IF r.seen = "draft" THEN "recording_in_progress" ELSE status
    /\ chunks' = [chunks EXCEPT ![r.seq] = [status |-> "queued", from |-> {}]]
    /\ transcript' = [transcript EXCEPT !.status = "processing"]
    /\ handlers' = [handlers EXCEPT ![h].pc = "chunk_enqueue"]
    /\ UNCHANGED <<recording, questions, storage, queue, worker, generations, crashes>>

ChunkEnqueue(h) ==
    /\ handlers[h].pc = "chunk_enqueue"
    /\ queue' = Append(queue, <<"chunk", handlers[h].seq>>)
    /\ handlers' = [handlers EXCEPT ![h] = Idle]
    /\ UNCHANGED <<database, storage, worker, generations, crashes>>

-----------------------------------------------------------------------------
(* POST /transcript/retry                                                  *)

RetryCheck(h) ==
    /\ handlers[h].pc = "idle"
    /\ Len(queue) < QueueCap
    /\ transcript.status = "failed"
    /\ handlers' = [handlers EXCEPT ![h].pc = "retry", ![h].seen = status]
    /\ UNCHANGED <<database, storage, queue, worker, generations, crashes>>

RetryStore(h) ==
    /\ handlers[h].pc = "retry"
    /\ transcript' = [transcript EXCEPT !.status = "queued"]
    /\ status' = IF handlers[h].seen = "failed" THEN "transcribing" ELSE status
    /\ handlers' = [handlers EXCEPT ![h].pc = "retry_enqueue"]
    /\ UNCHANGED <<recording, chunks, questions, storage, queue, worker, generations, crashes>>

RetryEnqueue(h) ==
    /\ handlers[h].pc = "retry_enqueue"
    /\ queue' = Append(queue, <<"recording", 0>>)
    /\ handlers' = [handlers EXCEPT ![h] = Idle]
    /\ UNCHANGED <<database, storage, worker, generations, crashes>>

-----------------------------------------------------------------------------
(* POST /qna/generate, for a session without materials, and its job.       *)

_ALREADY_STARTED == {"generating_questions", "qna", "completed"}

GenerateCheck(h) ==
    /\ handlers[h].pc = "idle"
    /\ status \notin _ALREADY_STARTED
    /\ transcript.status = "ready"
    /\ Lifecycle!can_transition(status, "generating_questions")
    /\ handlers' = [handlers EXCEPT ![h].pc = "generate", ![h].seen = status]
    /\ UNCHANGED <<database, storage, queue, worker, generations, crashes>>

GenerateStore(h) ==
    /\ handlers[h].pc = "generate"
    /\ status' = "generating_questions"
    /\ \E g \in Slots :
          /\ generations[g].pc = "idle"
          /\ generations' = [generations EXCEPT ![g].pc = "read"]
    /\ handlers' = [handlers EXCEPT ![h] = Idle]
    /\ UNCHANGED <<recording, transcript, chunks, questions, storage, queue, worker, crashes>>

(* run_generate reads the session and the transcript, then asks the model. *)
GenerationRead(g) ==
    /\ generations[g].pc = "read"
    /\ generations' = [generations EXCEPT ![g] =
           [pc |-> "ask", seen |-> status, from |-> transcript.from]]
    /\ UNCHANGED <<database, storage, queue, worker, handlers, crashes>>

(* The unique index on (session, order_index) refuses a second first       *)
(* question, and advance_status a session not read as generating.          *)
GenerationAccepted(g) == ~questions.made /\ generations[g].seen = "generating_questions"

GenerationStore(g) ==
    /\ generations[g].pc = "ask"
    /\ GenerationAccepted(g)
    /\ questions' = [made |-> TRUE, from |-> generations[g].from]
    /\ status' = "qna"
    /\ generations' = [generations EXCEPT ![g] = NoGeneration]
    /\ UNCHANGED <<recording, transcript, chunks, storage, queue, worker, handlers, crashes>>

(* Either raises out of the job: everything it wrote is rolled back.       *)
GenerationRollback(g) ==
    /\ generations[g].pc = "ask"
    /\ ~GenerationAccepted(g)
    /\ generations' = [generations EXCEPT ![g] = NoGeneration]
    /\ UNCHANGED <<database, storage, queue, worker, handlers, crashes>>

(* Mutant: an empty answer of the model is not taken for a failure.        *)
GenerationFail_Ignored(g) ==
    /\ generations[g].pc = "ask"
    /\ generations' = [generations EXCEPT ![g] = NoGeneration]
    /\ UNCHANGED <<database, storage, queue, worker, handlers, crashes>>

(* The model fails or returns no question.                                 *)
GenerationFail(g) ==
    /\ generations[g].pc = "ask"
    /\ status' = IF generations[g].seen = "generating_questions" THEN "failed" ELSE status
    /\ generations' = [generations EXCEPT ![g] = NoGeneration]
    /\ UNCHANGED <<recording, transcript, chunks, questions, storage, queue, worker,
                   handlers, crashes>>

-----------------------------------------------------------------------------
(* The worker: recordings and merges.                                      *)

(* A job whose rows are gone or were never stored is dropped.              *)
WorkerDrop ==
    /\ worker.pc = "idle" /\ queue # <<>>
    /\ Head(queue)[1] # "chunk" /\ recording = NoRecording
    /\ queue' = Tail(queue)
    /\ UNCHANGED <<database, storage, worker, generations, handlers, crashes>>

WorkerTake ==
    /\ worker.pc = "idle" /\ queue # <<>>
    /\ Head(queue)[1] # "chunk" /\ recording # NoRecording
    /\ queue' = Tail(queue)
    /\ transcript' = [transcript EXCEPT !.status = "processing"]
    /\ worker' = [WorkerIdle EXCEPT
           !.pc = IF Head(queue)[1] = "complete" THEN "merge"
                  ELSE IF recording.duration = {} THEN "probe" ELSE "open",
           !.key = recording.key, !.total = recording.total, !.text = transcript.from]
    /\ UNCHANGED <<status, recording, chunks, questions, storage, generations, handlers, crashes>>

(* Probing and transcribing open the file under the key that was read;     *)
(* once open, a replaced file is still read to its end.                    *)
WorkerOpen ==
    /\ worker.pc \in {"probe", "open"}
    /\ files[worker.key] # {}
    /\ worker' = [worker EXCEPT !.pc = IF @ = "probe" THEN "measure" ELSE "transcribe",
                                !.audio = files[worker.key]]
    /\ UNCHANGED <<database, storage, queue, generations, handlers, crashes>>

(* The measured length replaces the 0 of the client.                       *)
WorkerMeasure ==
    /\ worker.pc = "measure"
    /\ recording' = [recording EXCEPT !.duration = worker.audio]
    /\ worker' = [worker EXCEPT !.pc = "open"]
    /\ UNCHANGED <<status, transcript, chunks, questions, storage, queue, generations,
                   handlers, crashes>>

received == {s \in Seqs : chunks[s].status # "absent"}

all_ready ==
    /\ \E n \in worker.total : received = 1 .. n
    /\ \A s \in received : chunks[s].status = "ready"

Stored(from) ==
    /\ transcript' = [status |-> "ready", from |-> Write(worker.text, from, transcript.from)]
    /\ worker' = WorkerIdle
    /\ UNCHANGED <<status, recording, chunks, questions, storage, queue, generations,
                   handlers, crashes>>

WorkerMerge ==
    /\ worker.pc = "merge"
    /\ all_ready
    /\ Stored(UNION {chunks[s].from : s \in received})

(* A chunk is missing or failed: the whole file is transcribed.            *)
WorkerFallback ==
    /\ worker.pc = "merge"
    /\ ~all_ready
    /\ worker' = [worker EXCEPT !.pc = "open"]
    /\ UNCHANGED <<database, storage, queue, generations, handlers, crashes>>

WorkerReady ==
    /\ worker.pc = "transcribe"
    /\ Stored(worker.audio)

(* The file is gone, too long, not audio, or the speech service fails.     *)
WorkerFailed ==
    \/ worker.pc \in {"probe", "open"} /\ files[worker.key] = {}
    \/ worker.pc \in {"measure", "transcribe"}

(* Mutant: the session fails with its transcript, wherever it has got to.  *)
WorkerFail_AnyStatus ==
    /\ WorkerFailed
    /\ transcript' = [transcript EXCEPT !.status = "failed"]
    /\ status' = "failed"
    /\ worker' = WorkerIdle
    /\ UNCHANGED <<recording, chunks, questions, storage, queue, generations, handlers, crashes>>

(* Mutant: a missing file is an exception nobody catches.                  *)
WorkerFail_Narrow ==
    /\ WorkerFailed
    /\ transcript' = IF worker.pc \in {"probe", "open"} THEN transcript
                     ELSE [transcript EXCEPT !.status = "failed"]
    /\ status' = IF status = "transcribing" THEN "failed" ELSE status
    /\ worker' = WorkerIdle
    /\ UNCHANGED <<recording, chunks, questions, storage, queue, generations, handlers, crashes>>

(* _fail reads the session anew.                                           *)
WorkerFail ==
    /\ WorkerFailed
    /\ transcript' = [transcript EXCEPT !.status = "failed"]
    /\ status' = IF status = "transcribing" THEN "failed" ELSE status
    /\ worker' = WorkerIdle
    /\ UNCHANGED <<recording, chunks, questions, storage, queue, generations, handlers, crashes>>

-----------------------------------------------------------------------------
(* The worker: chunks. A failed one touches its own row only.              *)

WorkerTakeChunk ==
    LET seq == Head(queue)[2] IN
    /\ worker.pc = "idle" /\ queue # <<>>
    /\ Head(queue)[1] = "chunk"
    /\ queue' = Tail(queue)
    /\ chunks' = [chunks EXCEPT ![seq].status = "processing"]
    /\ worker' = [WorkerIdle EXCEPT !.pc = "chunk_open", !.seq = seq, !.text = chunks[seq].from]
    /\ UNCHANGED <<status, recording, transcript, questions, storage, generations, handlers, crashes>>

WorkerOpenChunk ==
    /\ worker.pc = "chunk_open"
    /\ worker' = [worker EXCEPT !.pc = "chunk_transcribe", !.audio = chunkFiles[worker.seq]]
    /\ UNCHANGED <<database, storage, queue, generations, handlers, crashes>>

WorkerChunkDone ==
    /\ worker.pc = "chunk_transcribe"
    /\ \/ chunks' = [chunks EXCEPT ![worker.seq] =
              [status |-> "ready", from |-> Write(worker.text, worker.audio, @.from)]]
       \/ chunks' = [chunks EXCEPT ![worker.seq].status = "failed"]
    /\ worker' = WorkerIdle
    /\ UNCHANGED <<status, recording, transcript, questions, storage, queue, generations,
                   handlers, crashes>>

-----------------------------------------------------------------------------
(* A restart: threads, background jobs and the queue are lost. recover()   *)
(* queues every unfinished transcript as a whole recording, then the       *)
(* unfinished chunks; nothing looks for a lost run_generate.               *)

(* Mutant: transcripts are looked up by the one state an answer waits in.  *)
Unfinished_Processing(row) == row.status = "processing"

Unfinished(row) == row.status \in {"queued", "processing"}

(* Mutant: no look at the chunks.                                          *)
RecoveredChunks_None == {}

RecoveredChunks == {s \in Seqs : Unfinished(chunks[s])}

Restart ==
    /\ crashes < MaxCrashes
    /\ crashes' = crashes + 1
    /\ \E order \in Orderings(RecoveredChunks) :
          queue' = (IF Unfinished(transcript) THEN <<<<"recording", 0>>>> ELSE <<>>)
                       \o [i \in DOMAIN order |-> <<"chunk", order[i]>>]
    /\ worker' = WorkerIdle
    /\ generations' = [g \in Slots |-> NoGeneration]
    /\ handlers' = [h \in Handlers |-> Idle]
    /\ UNCHANGED <<database, storage>>

-----------------------------------------------------------------------------
(* An upload in file mode may not know its duration; complete always does. *)
UploadOf(e, t) ==
    {[key |-> e, take |-> {t}, duration |-> d, total |-> {}] : d \in {{}, {t}}}
    \cup {[key |-> e, take |-> {t}, duration |-> {t}, total |-> {n}] : n \in Totals}

Request(h) ==
    \/ StartCheck(h)
    \/ \E e \in Exts, t \in Takes : \E new \in UploadOf(e, t) : UploadCheck(h, new)
    \/ \E s \in Seqs, t \in Takes : ChunkCheck(h, s, t)
    \/ RetryCheck(h)
    \/ GenerateCheck(h)

Serve(h) ==
    \/ StartStore(h)
    \/ UploadSave(h) \/ UploadStore(h) \/ UploadRefused(h) \/ UploadEnqueue(h)
    \/ ChunkSave(h) \/ ChunkStore(h) \/ ChunkEnqueue(h)
    \/ RetryStore(h) \/ RetryEnqueue(h)
    \/ GenerateStore(h)

Worker ==
    \/ WorkerDrop \/ WorkerTake \/ WorkerOpen \/ WorkerMeasure
    \/ WorkerMerge \/ WorkerFallback \/ WorkerReady \/ WorkerFail
    \/ WorkerTakeChunk \/ WorkerOpenChunk \/ WorkerChunkDone

Generation(g) ==
    \/ GenerationRead(g) \/ GenerationStore(g) \/ GenerationRollback(g) \/ GenerationFail(g)

Next ==
    \/ \E h \in Handlers : Request(h) \/ Serve(h)
    \/ Worker
    \/ \E g \in Slots : Generation(g)
    \/ Restart

Spec == Init /\ [][Next]_vars

(* Threads are scheduled; whether the presenter calls is left open.        *)
FairSpec ==
    /\ Spec
    /\ \A h \in Handlers : WF_vars(Serve(h))
    /\ WF_vars(Worker)
    /\ \A g \in Slots : WF_vars(Generation(g))

-----------------------------------------------------------------------------
(* Properties.                                                             *)

TranscriptJob == {"recording", "complete"}

(* Once a recording is stored, a transcript that is not finished is going  *)
(* to be: its job is queued, running, or about to be queued by the request *)
(* that stored it. A restart puts back what it lost. (stt_queue.recover)   *)
TranscriptJobCovered ==
    recording # NoRecording /\ transcript.status \in {"queued", "processing"} =>
        \/ \E i \in 1 .. Len(queue) : queue[i][1] \in TranscriptJob
        \/ worker.pc \in {"probe", "measure", "open", "transcribe", "merge"}
        \/ \E h \in Handlers : handlers[h].pc \in {"enqueue", "retry_enqueue"}

(* The same for every live chunk, though a resent chunk goes back to       *)
(* queued while its first copy is being transcribed.                       *)
ChunkJobCovered ==
    \A s \in Seqs : chunks[s].status \in {"queued", "processing"} =>
        \/ \E i \in 1 .. Len(queue) : queue[i] = <<"chunk", s>>
        \/ worker.seq = s
        \/ \E h \in Handlers : handlers[h].pc = "chunk_enqueue" /\ handlers[h].seq = s

Quiet ==
    /\ queue = <<>>
    /\ worker.pc = "idle"
    /\ \A h \in Handlers : handlers[h].pc = "idle"

(* When everything has come to rest, a ready transcript is the transcript  *)
(* of the recording in storage, whatever was uploaded over what, in which  *)
(* format, during which job. (For whole uploads, one request at a time and *)
(* no restart.)                                                            *)
TranscriptOfRecording ==
    Quiet /\ transcript.status = "ready" =>
        /\ transcript.from = recording.take
        /\ files[recording.key] = recording.take

(* Questions are made once: no job comes back with questions for a session *)
(* that has some, which would leave it generating for ever.                *)
QuestionsMadeOnce ==
    \A g \in Slots : generations[g].pc = "ask" => ~questions.made

(* The status moves along the table of session_state.py, with one request  *)
(* at a time. (advance_status checks the status a request has read, and    *)
(* the commit overwrites the stored one: two requests can leave the table.)*)
FollowsLifecycle == Lifecycle!Spec

(* An unfinished transcript of a stored recording becomes ready or failed. *)
TranscriptSettles ==
    recording # NoRecording /\ transcript.status \in {"queued", "processing"}
        ~> transcript.status \in {"ready", "failed"}

(* A session does not stay in generating_questions.                        *)
GenerationSettles ==
    status = "generating_questions" ~> status # "generating_questions"

-----------------------------------------------------------------------------
(* The inductive invariant behind TypeOK: a thread that is busy with a     *)
(* file or a chunk names it, and an idle one none. ChunkJobCovered is      *)
(* inductive relative to it, and TranscriptJobCovered for whole uploads.   *)

ThreadsNamed ==
    /\ \A h \in Handlers :
          /\ handlers[h].pc \in {"save", "store"} => handlers[h].new.key \in Exts
          /\ handlers[h].pc \in {"chunk_save", "chunk_store", "chunk_enqueue"} =>
                handlers[h].seq \in Seqs
    /\ recording # NoRecording => recording.key \in Exts
    /\ worker.pc \in {"probe", "measure", "open", "transcribe", "merge"} =>
          worker.key \in Exts /\ recording.key \in Exts
    /\ worker.seq \in IF worker.pc \in {"chunk_open", "chunk_transcribe"} THEN Seqs ELSE {0}

TypeInv == TypeOK /\ ThreadsNamed

-----------------------------------------------------------------------------
(* What the lifecycle rests on when requests come one at a time.           *)
OneRequest == \A g, h \in Handlers : g = h

(* One generation at most, of a session that waits for it.                 *)
OneGeneration ==
    /\ \A g \in Slots : generations[g].pc # "idle" =>
          status = "generating_questions" /\ ~questions.made
    /\ \A g \in Slots : generations[g].pc = "ask" =>
          generations[g].seen = "generating_questions"
    /\ \A f, g \in Slots :
          generations[f].pc # "idle" /\ generations[g].pc # "idle" => f = g
    /\ questions.made => status = "qna"

(* The status a request has read still allows what it is about to commit:  *)
(* only the worker and a generation have moved the session since.          *)
SeenAllows ==
    \A h \in Handlers :
        /\ handlers[h].pc = "start" => handlers[h].seen = "draft" /\ status = "draft"
        /\ handlers[h].pc \in {"save", "store"} => status \in _UPLOADABLE
        /\ handlers[h].pc \in {"chunk_save", "chunk_store"} =>
              status \in _CHUNK_ALLOWED /\ handlers[h].seen = status
        /\ handlers[h].pc = "retry" /\ handlers[h].seen = "failed" => status = "failed"
        /\ handlers[h].pc = "generate" => status \in {"transcribing", "failed"}

LifeInv == OneGeneration /\ SeenAllows

(* Live chunks come before the recording is stored: no status leads back   *)
(* to one in which they are accepted.                                      *)
LiveFirst == status \in _CHUNK_ALLOWED => recording = NoRecording

-----------------------------------------------------------------------------
(* What TranscriptOfRecording rests on: while no job is still to be taken, *)
(* the worker transcribes the recording there is, from its file, and the   *)
(* row it read is the row it will commit to.                               *)
JobAhead ==
    \/ queue # <<>>
    \/ \E h \in Handlers : handlers[h].pc \in {"store", "enqueue", "retry_enqueue"}

FileInv ==
    /\ \A h \in Handlers :
          /\ handlers[h].pc = "store" => files[handlers[h].new.key] = handlers[h].new.take
          /\ handlers[h].pc = "enqueue" => handlers[h].old # recording.key
          /\ handlers[h].pc = "retry" => recording # NoRecording
    /\ recording # NoRecording /\ (\A h \in Handlers : handlers[h].pc # "store") =>
          files[recording.key] = recording.take

WorkInv ==
    /\ recording = NoRecording => transcript.status = "absent"
    /\ ~JobAhead =>
          /\ worker.pc # "idle" => worker.key = recording.key /\ worker.text = transcript.from
          /\ worker.pc \in {"measure", "transcribe"} => worker.audio = recording.take
          /\ worker.pc = "idle" /\ transcript.status = "ready" => transcript.from = recording.take

TakeInv == FileInv /\ WorkInv
=============================================================================
