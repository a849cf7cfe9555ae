# A TLA+ verification of the rehearsal service

The repository holds a presentation rehearsal service: a FastAPI backend
(`src/backend/app`), a Flutter client (`src/frontend/lib`) and a GPU server for
speech (`src/infra/gpu-server`). A presenter records a talk, the backend
transcribes it, a language model asks questions about it, the presenter answers
them by voice, and a report closes the session. This directory models the parts
of that program whose correctness depends on the order in which requests,
background threads, the worker and restarts touch the same rows.

Every module is written from the code under `src/`. Where a comment or a
document says something else than the code does, the module follows the code;
the section Findings lists what that showed.

## How the backend runs

* **Request handlers** are synchronous functions in a thread pool. Each has its
  own SQLAlchemy session (`db/session.py`), with `autoflush=False` and
  `expire_on_commit=False`: an object is read once and then used as it was
  read, and a commit updates the attributes whose new value differs from the
  value *read*, over whatever another transaction has stored meanwhile. There
  are no version columns. Rows are locked in four places only
  (`_store_full_recording`, `upload_material`, `leave_or_succeed`,
  `remove_member`).
* **One speech-to-text worker** (`services/stt_queue.py`) takes jobs from an
  in-memory FIFO: whole recordings, chunks, merges and answers.
* **Background tasks** run after the response in the same pool: question
  generation, report generation, parsing of materials.
* **A restart** (every deployment does one) loses the queue and the threads;
  `main.py:lifespan` then calls four `recover` functions before requests are
  served.

In the models a handler is therefore a step that *reads and checks* and steps
that *commit*; what was read before is carried along (in `worker.seen`, in the
handler's record), and `Write(read, new, stored)` is the update that leaves an
attribute alone when nothing changed from the value read. A request handler
always checks in one step and commits in a later one, because saving a file or another
thread can come in between. A block of the *worker* or of a
background job that reads a row and commits it without any call in between is
one step.

## Inventory

| Component | State it keeps | Operations | What is hard | What makes it correct | Module |
|---|---|---|---|---|---|
| Q&A (`api/routes/qna.py`, `services/qna_jobs.py`) | session status, current question, end reason; questions; answers; answer audio; report row | submit, pass, end, answer job, follow-up, recovery | a language model call between reading and writing the session; resubmission during a job; restart between two commits | questions in order, no answer forgotten, one end, follow-ups only under spoken answers | `QnaSession` |
| Recording and transcription (`api/routes/recordings.py`, `services/stt_queue.py`) | recording, chunks, transcript, session status, files | start, chunk, complete, upload, retry, three kinds of job, recovery | late chunk after complete, upload during a job, stale status writes | transcript settles and belongs to the stored audio; status moves along its table | `Preparation` |
| Question generation (`qna.py`, `qna_jobs.run_generate`) | session status, questions | generate, background job | job lost in a restart, upload between check and job | generation ends in `qna` or `failed` | `Preparation` |
| Session status (`services/session_state.py`) | the transition table | `advance_status` | each caller checks its own copy | committed statuses follow the table | `SessionLifecycle` |
| Reports (`api/routes/reports.py`, `services/report_jobs.py`) | report row, score rows, insight | regenerate, job, recovery | several jobs of one session, a failed transaction in the error path, scores the model leaves out | a report settles unless an exception leaves it to nobody; insight and scores of one run | `Reports` |
| Materials (`api/routes/materials.py`) | material row, file | upload, parse job, retry, delete, recovery | re-upload during the parse, delete during the job | a polled row settles, storage is what the row says | `Materials` |
| Speech of questions (`qna_jobs`, `services/tts.py`) | tts status per question, cache of voices | synthesis by a thread per generation, the worker and the recovery, retries, fallback voice | recovery against a worker that synthesises too, exceptions outside the `try` blocks | every question settles unless an exception leaves it to nobody; a voice the server has and does not throttle is kept | `Speech` |
| Sessions and files (`sessions.py`, `storage_cleanup.py`, `core/storage.py`) | rows, files | create, update, delete | deletion during a job or an upload | no file without a row | `Materials` (and `Reports`, `Speech`) |
| Teams and invitations (`teams.py`, `team_membership.py`, `invites.py`, first part of `delete_me`) | team, leader, members, invitations | create, invite, accept, decline, rotate, leave, remove, delete, delete the account | concurrent leave, removal and joining | the leader is a member, the senior succeeds | `Teams` |
| Accounts (`auth.py`, `users.py`, code services) | users, refresh tokens, codes | signup, verify, login, refresh, logout, reset, password change, delete | overlapping transactions on tokens and codes | one token per login, endings end sessions | `Accounts` |
| STT windows (`services/stt.py`), PCM chunks (`pcm_chunker.dart`) | window of the recorder | split, shift, trim, group, merge; cut | boundaries and overlaps | no word lost, none twice | `Stt`, `PcmChunker` |
| Language model (`services/llm`) | none | a call over keys and models | failure in the middle | the next combination is the right one | `LanguageModel` |
| Client (`api_client.dart`, session pages) | tokens, page phase | retry with refresh, page transitions | concurrent 401s, resubmission | one refresh at a time | not modelled |

Components interact through the rows of the database (all of them), the
in-memory queue (recordings and answers share the worker), background tasks
(generation, reports, parsing, speech) and the client's polling of statuses.

## How the modules fit together

* `Backend` has what all of them share: `Write`, the partial update of an
  attribute, and `Orderings`, the order of recovered rows.
* `SessionLifecycle` and `AsyncJob` are the two abstract specifications.
  `Preparation` implements the first (`FollowsLifecycle`); `Reports`,
  `Materials` and `Speech` implement the second (`ReportPolled`,
  `MaterialPolled`, `SpeechPolled`), each with a refinement mapping of its own.
* `Preparation` ends in the state `QnaSession` starts from (questions stored,
  status `qna`, first question current); `QnaSession` ends in the state
  `Reports` starts from (a report row that is `queued`, a background task that
  is about to run, answers that may still become ready). They are checked apart
  and meet in those states. `Reports` lets several jobs of one session overlap,
  as the end of the Q&A can start two and each regeneration one more.
* `PcmChunker` extends `Stt`: the chunks the client cuts are what the backend
  transcribes and merges, and a property speaks of both.
* `MC...` modules add what TLC needs: symmetry, the words and pieces of the
  algorithms. `...Proofs` modules hold the theorems.

Plan, in the order of importance, all of it done: `QnaSession`,
`SessionLifecycle` and `Preparation`, `Reports`, `Materials`, `Accounts`,
`Teams`, `Speech`, then the algorithms. What is left would be the composition
of Preparation with the readiness of materials, the client's shared refresh
and the pages of the client that poll.

## `SessionLifecycle`: the abstract session

`ALLOWED_TRANSITIONS` is the table of `services/session_state.py` and `Advance`
is `advance_status`. It is the abstract specification of the status:
`Preparation` has it as the property `FollowsLifecycle == Lifecycle!Spec` with
`status` mapped to itself. It is checked for one request at a time, and holds;
with two requests at a time it does not (Findings).

## `QnaSession`: the questions and answers

| State | Code |
|---|---|
| `status`, `current`, `endedReason` | `sessions.status`, `current_question_id`, `qna_ended_reason` |
| `questions` | rows of `questions`, as pairs of order index and follow-up depth: the unique indexes allow one of each |
| `answers` | rows of `answers`: kind, status, whether the text is there, audio key (one per format), follow-up status |
| `files` | answer audio in storage |
| `report` | `none`, or the `queued` row that the end of the Q&A stores; `Reports` goes on from there |
| `reporters` | which threads have started `run_report` since the server started |
| `queue`, `worker` | the FIFO and the thread of `stt_queue.py`; `worker.seen` is the answer row as the job read it |
| `handlers` | per request thread: where it is, and the question, key or reason it carries |

`SubmitCheck/Save/Store/Enqueue` are `submit_answer` (read and check, save the
file, commit the row, delete the former format and queue the job);
`PassCheck/Store/Done` are `pass_question` and `record_pass`; `EndCheck/Store/
Done` are `end_qna`. The `Worker...` actions are `run_answer_stt`: it reads the
row, transcribes, commits the text, reads the session *once*
(`WorkerLate`/`WorkerDecide`), calls the language model, and commits the
follow-up or the next question. `Restart` empties the queue and the threads, and
does what `lifespan` does for answers and reports.

Left out: the wording of questions and texts, the speech of a follow-up (one
step without an effect), the insertion of one row by two first submissions at
once (the loser's insert fails on the primary key and its request ends in a
500), deletion of the session, and the generation of the questions, which
`Preparation` models.

## `Preparation`: recording, transcription, generation

| State | Code |
|---|---|
| `status` | `sessions.status` |
| `recording` | the row of `recordings`: key (one per format), the take in it, the take its duration was measured from, the announced number of chunks |
| `transcript`, `chunks` | rows of `transcripts` and `recording_chunks`: status and segments |
| `questions` | whether `run_generate` has stored questions, and from which takes |
| `files`, `chunkFiles` | `recording.{ext}` and `chunks/{seq}` in storage |
| `queue`, `worker` | as above; jobs are `<<kind, seq>>` with kind `recording`, `complete` or `chunk` |
| `generations` | background `run_generate` jobs, with the status and segments they read |
| `handlers` | per request thread: `seen` is the status read by `require_session_owner` |

Audio and text are abstracted to *takes*: a take is one performance of the talk,
a file or a list of segments is the set of takes heard in it, and `{}` is NULL
or an empty list. This is enough to tell whether a transcript belongs to its
recording. `seq` of the code is shifted by one.

`StartCheck/Store`, `UploadCheck/Save/Store/Refused/Enqueue` (`POST /recording`
and `/recording/complete`, which differ in `total`), `ChunkCheck/Save/Store/
Enqueue`, `RetryCheck/Store/Enqueue` and `GenerateCheck/Store` are the request
handlers. `WorkerTake`, `WorkerOpen`, `WorkerMeasure`, `WorkerReady`,
`WorkerMerge`, `WorkerFallback`, `WorkerFail` and the chunk actions are
`_run_stt`, `_run_complete`, `_run_chunk_stt` and `_fail`. `WorkerOpen` reads
the file under the key that was read; a file replaced afterwards is still read
to its end, as an open file is. The `Generation...` actions are `run_generate`;
`Restart` is `stt_queue.recover`.

Left out: materials (questions are generated for a session without them), the
speech of the questions (module `Speech`), the deletion of the session, and the insertion of one
row by two first requests at once. The queue of the code has no limit;
`QueueCap` bounds the model: a request that would queue a job is accepted only
below that length, so with two request threads the queue can exceed it by one.

## `AsyncJob`: the abstract polled row

A client polls rows whose status is queued, processing, ready or failed. The
specification says what such a row may do: a request (`Accept`) queues it and
adds a job, only a job begins it (`Start`) and settles it (`Settle`), a job that
ends without a commit leaves no unfinished row without another job (`JobsEnd`),
a deletion (`Remove`) takes the row, and a restart (`Recover`) loses the jobs and
starts one for what is unfinished. `pending` is the set of rows with a job; what
a job is, and where it waits, is the mapping of each component. In `Reports` and
`Speech` an exception may leave run_report or the loops of the synthesis; the
rows it leaves to nobody are the history variable `lost` of these modules and
count as pending until a request or a restart takes them up again. So their
refinements say that nothing *else* strands a row; that something does is in
Findings. `SharedProofs!NeverForgotten` proves that no unfinished row is
without a job; the refinements carry it over. `Settles` is its liveness.

## `Reports`

| State | Code |
|---|---|
| `report` | the row of `reports`; the insight is the *run* that wrote it |
| `scores` | rows of `report_type_scores`: for each strategy the run that inserted it (a *run* is the number of its acceptance) |
| `answered` | strategies with an answer that is ready, which late transcriptions extend |
| `jobs` | the background tasks and the recovery thread inside `run_report`, with the row they read, the answers the model is shown (`asked`), the scores it returned (`draft`) and the rows their DELETE saw, then holds (`deleted`) |
| `recovering` | the sessions the one recovery thread has yet to take |
| `lost` | history: the sessions that an exception has left to nobody |

`_generate` deletes the score rows, inserts others and commits. The language
model may return fewer scores than it was shown answers, or none: the provider
zips the two lists. `Drafts` is what it may return; `Always` is the set of
strategies an instance assumes it never leaves out. `DeleteStarts` is
the snapshot of the DELETE, `DeleteDone` its end, after the wait for the rows
another transaction holds; `Commit` inserts the draft if no primary key exists,
`CommitFails` is the flush that fails (key, deleted row, deadlock), after which
the handler's own commit raises and nothing is written. `Fail` is a failure
before that, which does commit `failed`. An exception that leaves `run_report`
(`Raises`) ends a background task, or the recovery thread with all the sessions
it had yet to take.

## `Materials`

The session row, its lock, the material row, the files of the formats and the
threads. A version is one uploaded file, and a file or the slides of the row are
the version they hold. `UploadCheck/Save/Lock/Store` (with the refused, lost and
stale ends), `RetryCheck/Store`, `DeleteCheck/Store/File`,
`DeleteSessionCheck/Store` are the handlers; `Begin`, `Mark`, `Load`, `Finish`,
`Fail` are `_run_parse`; a thread is a request first and the job it started
after. `overlapped` is a history variable: `FileOfRow` promises what holds of
requests that did not meet.

## `Speech`

| State | Code |
|---|---|
| `sessions`, `tts`, `audio` | the sessions, `tts_status` of their questions, the voice of each stored wav |
| `threads` | who synthesises: the generation of each session, the worker (a follow-up), the recovery; with the sessions a thread has yet to list (`left`), the questions it has read (`todo`) and the one it is at |
| `unavailable`, `registered` | the process's cache of unavailable voices, and whether the TTS server knows the persona's voice |
| `starting` | the time between the start of the worker in `stt_queue.recover` and `recover_tts` |
| `lost`, `excused` | history: the questions an exception has left to nobody; whether the server has ever lacked the voice or throttled a request |

`RecoverTts` is the UPDATE and the list of sessions of `recover_tts`; its thread
then takes one session after the other, in one loop without a `try`
(`ListQueued`). `Begin` commits `processing`, `Spoken`, `Rejected` and `Broken`
are the outcomes of one POST with the retries and the fallback of
`synthesize_question`, `Save` is `storage.save` and `SaveFails` its exception,
outside the `try`; `Store` commits the outcome. A commit for a row that is gone,
like a failed save, ends the whole run of the thread (`Dies`), with every
question and session it had in hand. A rejection is any 4xx: the server has no
such voice or does not take the text (`Rejects`), or it throttles (`Throttling`:
408, 429), in which case the same request may succeed the next time.
`Register` is the restart of the TTS server alone that makes a voice known.

Abstracted: one persona stands for all, since each has a voice and an entry of
the cache of its own; a thread takes its sessions, and their questions, in any
order. The wav of a deleted question is not modelled: no property is about it.

## `Accounts`

The users, codes and tokens of *one* address, with a thread per request. Every
request is a transaction under READ COMMITTED: an UPDATE of many rows sees those
committed when it starts (`saw`), waits for rows others hold (`Locked`), and
misses what is inserted meanwhile; that is what the properties are about. A
code may expire at any moment (`Expire`) and time is free, so every order of
expiry, reclaim, verification and login occurs. `since`, `login`, `issued` and
`ended` are history.

## `Teams`

Teams with their members in the order of joining, the invitations, the deleted
accounts and the request threads. `Leave`, `RemoveLock` and `LeaveNext` take the
row lock and decide (`Leaving`); the decision is an *edit* the thread holds
until `LeaveStore` commits it. `CreateTeam` is the check of the user and
`CreateTeamStore` the commit, so that a deletion of the account may come between. `Locked` is what others wait for: another leave,
the insertion of a member or a link (their foreign keys need the row), the
deletion of the team. The deletion of an account leaves its teams one after
another in one transaction. The commit is let through whatever it makes, so that
`LeaderIsMember` is a property and not the database's constraint.

## `Stt`, `PcmChunker`, `LanguageModel`

`Stt` has the operators of `services/stt.py` over words with times: the windows
of `_split_wav`, `_shift_and_trim`, `_group_words`, `merge_chunk_segments`.
`PcmChunker` is the client's recorder as a state machine over pieces of any
length; when it stops, a talk is chosen among all that fit, and the two ways to
the transcript are compared with it: the whole file must have every word once
(`WordsOnce`), the merged chunks the phrases that one window over everything
would give (`PhrasesOnce`). Time is in half seconds. `LanguageModel` is `_generate`: the position in the keys and
models, and the outcomes so far.

## Runs

Constants not named have one member or are zero.

| Run | Instance | Checks | Shows |
|---|---|---|---|
| `qna_safety` | 2 primary questions, 1 request thread, 1 restart | `TypeOK`, `NoQuestionSkipped`, `AnswerJobCovered`, `EndIsFinal`, `FollowUpOfAnswered` | order of questions, no forgotten answer, an end that stays, follow-ups only under spoken answers |
| `qna_settle` | 1 question, 2 formats, 2 queued jobs, 1 restart, fair | `ReadyHasText`, `AnswersSettle`, `VerdictUnlessRestart` | answers leave `processing`, also after a restart; partial updates lose no text |
| `prep_uploads` | 2 threads, 2 generation jobs, 1 restart | `TranscriptJobCovered` | an unfinished transcript has a job (2.7 million states) |
| `prep_live` | 2 live chunks, 1 restart | `TranscriptJobCovered`, `ChunkJobCovered`, `FollowsLifecycle` | live chunks, resends, merge or fallback; the status implements `SessionLifecycle` |
| `prep_overwrite` | 2 takes, 2 formats, queue of 2, 2 generation jobs, fair | `TranscriptOfRecording`, `QuestionsMadeOnce`, `TranscriptSettles`, `GenerationSettles` | at rest, the transcript is that of the stored file, whatever replaced what |
| `reports` | 2 sessions, 2 jobs and the recovery, 2 strategies (one always scored), 1 regeneration, 1 restart, fair | `TypeOK`, `ReportOfOneRun`, `ReportPolled`, `ReportsSettle` | overlapping jobs on the same score rows show one run; a polled report moves as `AsyncJob` allows and ends, unless an exception leaves it to nobody |
| `materials` | 2 threads, 2 formats, 2 uploads, 1 restart, fair | `TypeOK`, `FileOfRow`, `MaterialPolled`, `MaterialSettles` | the row settles through re-uploads and deletions; storage fits the row |
| `accounts` | 2 threads, 2 accounts of the address, 2 codes, 3 tokens, 1 attempt, 2 endings | `TypeOK`, `OneTokenPerLogin`, `SessionsEnded`, `SessionsOfVerified`, `OneLiveCode` | rotation, endings and reclaim under overlapping transactions |
| `teams` | 2 threads, 3 users, 2 teams, 1 invitation | `TypeOK`, `LeaderIsMember`, `DeletedLeft`, `Succession` | every overlap of leaving, removing, deleting and joining |
| `speech` | 2 sessions of 1 question, a follow-up whose text is refused, throttling, failing storage, 1 restart, fair | `VoiceOfPersona`, `SpeechPolled`, `SpeechSettles` | all writers on the same questions and a recovery that takes the sessions in turn: a question in preparation has a thread that ends it or was left by an exception; the voice is kept |
| `algorithms` | recordings up to 130 s, pieces of 32, 60 and 65 s, one or two words around the borders; 2 keys, 3 models | `ChunkHoldsItsAudio`, `WordsOnce`, `PhrasesOnce`, `FallbackInTurn` | no word lost or doubled at a border, chunks give the phrases of an uncut recording; the next key or model is the right one |
| `qna_late_progress` | 2 questions | `LateAnswerKeepsProgress`, violated | see Findings |

Eight more configurations are not checks that pass but instances in which TLC
prints the trace of a finding (the next section): `ReportsCollide`,
`ReportsRecover`, `ReportsMixed`, `SpeechThrottled`, `SpeechStale`,
`SpeechStorage`, `SpeechRecovery` and `AccountsCodes`, for example
`tlc -config ReportsCollide.cfg MCReports`.

**Why the bounds are enough to be interesting.** Every hazard listed for these
modules is a race of two actors on one row: a request against the worker needs
one request thread, two requests need two, an upload over an upload needs two
takes, two formats need two storage keys. Two primary questions tell "the next"
from "the last"; the third would repeat the second. Two chunks tell a gap from a
complete set. One restart can fall between any two steps; the proofs below cover
any number. A queue of two holds a job behind a running one.
`MaxGenerations = 2` allows a failed generation and its repetition to overlap.

In `reports`, jobs collide on the rows of two strategies, of which one is
answered before and one after the first job has collected, and every run scores
the first and may leave out the second. Two sessions, in `reports` and `speech`,
are what a recovery loses when it dies at the first. Three jobs of one session
are needed for a deadlock that leaves a report in `processing`; they are in
`ReportsCollide` and, with any number of sessions and jobs, in the proofs of
`ReportOfOneRun` and `ReportPolled`. `speech` has no retries
(`MAX_RETRIES = 0`): a retry repeats a POST, each of whose outcomes is possible
at the first try already; the proofs are for every number of them. In `accounts`, two
rows of users are an account and the one that follows it after a deletion or a
reclaim, three tokens are a login, its refresh and another login, and one
attempt is enough to be at the limit. In `teams`, three members are the leader, the
successor and one who joins, and two teams let a deleted account lead one and be
a member of the other. In `algorithms` a recording has up to three windows, the
first, a middle one and the last, and words of 0.5, 2, 3 and 4 s (as long as the
overlap) begin at every half second around both borders; `SharedProofs` covers
all other recordings and talks.

**Preconditions of properties.** `TranscriptOfRecording`, `FollowsLifecycle`
and `QuestionsMadeOnce` are checked for one request at a time (the single
presenter of the client); with two the status can go back (Findings).
`TranscriptOfRecording` and `GenerationSettles` have no restart, because of the
findings about it. `prep_live` has `Totals = {2}`: announcing 0 chunks is
accepted and merges nothing into an empty, ready transcript.
`TranscriptJobCovered` is checked with two threads for whole uploads, and with
one thread for live chunks: with both, a chunk stored after its `complete` call
sets the transcript to processing without a job. `ReadyHasText` and
`VerdictUnlessRestart` speak of the time before the restart. `ReportOfOneRun`
is checked with `Initially = Always = {probe}`: the session ends with a ready
answer whose strategy the model leaves out of no run; `ReportsMixed` has no
such strategy, and shows why that is needed. `ReportPolled`, `ReportsSettle`,
`SpeechPolled` and `SpeechSettles` except what is in `lost`, that is, the
deadlocks, deletions and failed saves of the findings, and nothing else.
`VoiceOfPersona` asks that the server has known the voice and throttled nothing
so far; the run has executions with and without that, and `SpeechThrottled` and
`SpeechStale` show what happens otherwise. `FileOfRow` speaks of
requests that did not meet, `OneLiveCode` of codes that were not stored during
one another's issue (`AccountsCodes` shows the others), `SessionsEnded` of what the UPDATE of the ending could see.
`PhrasesOnce` asks that no phrase is longer than the overlap, and that no word
which is written in pieces has a pause inside (`Unbroken`; the comment at
`stt.py:44-46` has measured gaps of at most 0.24 s there, less than the 0.35 s
that end a phrase). Without the second, a word of 3 s that is glued to the one
before it across a pause breaks the property: the phrase goes on over the pause,
but a chunk that begins in the pause has nothing to join the word to, and its
segment, which is shorter, has its middle elsewhere. The attempt to prove the
property without this premise showed it.

**Fairness.** `FairSpec` has weak fairness of what an accepted request goes on
to do, of the worker thread and of each background job: each is a thread of
its own, every call it makes to storage, to the speech service or to a language
model has a timeout, ffmpeg decodes a finite local file, PostgreSQL ends
deadlocks, and a thread blocked on nothing is scheduled. What the
presenter does (`Request`) and restarts have none. Deadlock is not checked: the
system rests when nobody calls.

## Findings

What a comment or a document says and the code does not do, each with the run
or the configuration in which TLC finds the property violated:

* `qna_late_progress` (a run, `LateAnswerKeepsProgress`): `_decide_follow_up_and_advance` says that progress is not
  touched when the user ended the Q&A, or a pass moved it on, meanwhile
  (`qna_jobs.py:226-228`). The session is read before the language model call and
  written after it. In the trace the user's end is committed during the call, and
  the worker then makes the second question current in a completed session. The
  property speaks of the worker's steps alone.
* `ReportsCollide.cfg` (`FailuresAbsorbed`): `report_jobs.py:9-10` says that all exceptions are absorbed
  as `failed`. Two of three jobs deadlock and collide over the score rows; the
  handler commits on the session whose flush has failed, so its commit raises,
  and the report stays `processing` with no job.
* `ReportsRecover.cfg` (`FailuresAbsorbed`): `recover` says that it brings back what the frontend would
  poll for ever (`report_jobs.py:103-104`). A session deleted between the read and
  the first commit, which is outside the `try`, ends the thread; the other
  session's report has no job.
* `ReportsMixed.cfg` (`ReportOfOneRun`): `report_jobs.py:31` says that the scores are replaced as a
  whole. The provider zips a shorter list of scores with the answers
  (`gemini_provider.py:264-275`); a run without a score collides with no other, so
  the report shows its insight with the score of another run.
* `SpeechThrottled.cfg` (`RejectionConfirmed`): `tts.py:83` takes the success of the default voice for the
  confirmation that the persona's is not registered. Every 4xx counts as that
  rejection (`tts.py:126`), a 408 or 429 too.
* `SpeechStale.cfg` (`CacheValid`): `tts.py:43-44` says that the backend is restarted when voices are
  registered, so that the cache stays valid. `persona_voices.md:113-122` restarts the
  TTS server alone.
* `SpeechStorage.cfg` (`NothingStuck`): `qna_jobs.py:122` says that failures are absorbed as `failed`.
  `storage.save` is outside the `try`: the question stays in `processing`.
* `SpeechRecovery.cfg` (`NothingStuck`): `recover_tts` says that it brings back every question
  (`qna_jobs.py:145-148`). Its loop over the sessions has no `try`; a session that is
  deleted while the thread is at it leaves the questions of all later ones queued.
* `AccountsCodes.cfg` (`AtMostOneCode`): `email_verification.py:26-27` says that a user has at most one
  usable code. A signup and a resend that overlap each consume what is there,
  nothing, and both insert one.

Seen in the models, without a run of their own (they appear when the bound or
precondition named above is lifted):

* *Q&A.* The worker starts `run_report` for the end it committed while the
  presenter's end, committed at the same time, starts another
  (`qna_jobs.py:205-209` says this is avoided). A restart between the commit of
  the text and the verdict leaves `follow_up_status` pending and the Q&A on that
  question (`stt_queue.py:291` looks for `processing` only). The reason
  `user_end` can be overwritten by `count_reached` or `timeout`. A job of a
  question that was passed meanwhile may write a text, or `failed`, to the passed
  row, and a failed one cannot be submitted again.
* *Recording.* Two requests that read the same status commit one transition
  each, so `transcribing` goes back to `recording_in_progress`
  (`session_state.py:3-4` says calls in a wrong order are stopped). An upload
  answered 409 by its second check has already replaced the stored file
  (`recordings.py:151`). A chunk stored after the transcript is ready sets it to
  processing, where it stays until a restart; the duration measured from the
  former audio is stored in the row of the new one; chunks of a former attempt
  are merged with those of the next; a second upload of the same audio, with a
  restart, can leave `ready` with NULL segments, because segments equal to those
  the job read are not in the UPDATE.
* *Generation.* A restart during `run_generate` leaves the session in
  `generating_questions`, where `generate` answers 409 and no recovery looks
  (`main.py:35`); questions can be made from the transcript of a recording
  replaced meanwhile.
* *Reports.* A session that ends without a ready answer can show a mixed report
  too: the insight "no answers" of one run with the scores of another.
* *Materials.* The job of a replaced file commits its slides, and `ready`, over
  the queued of the new upload, until the new job ends. Two overlapping uploads
  of different formats can delete each other's file; a file saved during the
  deletion of its session stays.
* *Speech.* The worker begins before `recover_tts` runs (`qna_jobs.py:150` says
  it does not): a question it is at is synthesised twice.
* *Accounts.* A refresh or a login that
  commits during an ending leaves a token in use. A stale signup that is
  verified between the query and the deletion of a reclaim is deleted with its
  session.
* *Teams.* Who joins or creates a team while the account is being deleted stays a
  member. Two deletions of accounts that share two teams can lock them in opposite
  orders; PostgreSQL ends one with an error. A former leader can still delete the team
  on a check made before.
* *Transcripts.* `merge_chunk_segments` cuts segments, not words: a phrase that is
  longer than the overlap is kept whole by one chunk although part of it belongs
  to the other, so words are doubled or lost (the docstring at `stt.py:244`
  speaks of the middle of the overlap).

Hazards without a race in a model: two first submissions of one question both
insert its row, and the loser ends in a 500 on the primary key; two rotations of
a link are kept apart by the partial unique index alone, which `RotateStore` has
as its guard; the client's waiters clear the field of a shared refresh, which at
worst starts one of the overlapping refreshes of `Accounts`.

## Proofs

`tlapm` proves these for every value of the constants: any number of questions,
threads, formats, takes, chunks, jobs, users, teams, tokens, codes, keys, models
and restarts, any queue length and any length of a recording.

| Theorem | States |
|---|---|
| `QnaSessionProofs!TypeCorrect` | `Spec => []TypeOK` |
| `QnaSessionProofs!PrimaryQuestionsInOrder` | `Spec => []NoQuestionSkipped` |
| `QnaSessionProofs!ProcessingHasJob` | `Spec => []AnswerJobCovered` |
| `QnaSessionProofs!EndIsOneCommit` | `Spec => []CompletionAtomic /\ EndClears`: status, reason and report change in one commit, which clears the current question |
| `QnaSessionProofs!EndStays` | `Spec => EndIsFinal`, an action property |
| `QnaSessionProofs!ReportOfEnded` | `Spec => []ReportAfterEnd` |
| `QnaSessionProofs!PassedStaysPassed` | `Spec => []PassedRowCheck /\ PassedRowKept`: no audio and no follow-up on a passed row, which only an upload replaces; a late job may add a text or `failed` |
| `QnaSessionProofs!FollowUpsOfSpokenAnswers` | `Spec => FollowUpOfAnswered`, an action property |
| `QnaSessionProofs!ReadyAnswersHaveText` | `Spec => []ReadyHasText` |
| `PreparationProofs!TypeCorrect` | `Spec => []TypeOK` |
| `PreparationProofs!ChunkHasItsJob` | `Spec => []ChunkJobCovered` |
| `PreparationProofs!TranscriptHasItsJob` | `NumChunks = 0 \/ OneRequest => (Spec => []TranscriptJobCovered)` |
| `PreparationProofs!QuestionsOnce` | `OneRequest => (Spec => []QuestionsMadeOnce)` |
| `PreparationProofs!ImplementsLifecycle` | `OneRequest => (Spec => FollowsLifecycle)`, the refinement |
| `PreparationProofs!TranscriptIsOfRecording` | `OneRequest`, no live chunks: `Spec => [](crashes = 0 => TranscriptOfRecording)` |
| `ReportsProofs!TypeCorrect` | `Spec => []TypeOK` |
| `ReportsProofs!ReportShowsOneRun` | `Anchor # {} => (Spec => []ReportOfOneRun)` |
| `ReportsProofs!ImplementsAsyncJob` | `Spec => ReportPolled`, the refinement |
| `SharedProofs!NeverForgotten` | of the abstract polled row: unfinished implies a job |
| `MaterialsProofs!TypeCorrect` | `Spec => []TypeOK` |
| `MaterialsProofs!ImplementsAsyncJob` | `Spec => MaterialPolled`, the refinement |
| `MaterialsProofs!NeverForgotten` | a queued or processing material has a parse job |
| `MaterialsProofs!StorageMatchesRow` | `Spec => []FileOfRow` |
| `TeamsProofs!TypeCorrect` | `Spec => []TypeOK` |
| `TeamsProofs!LeaderStaysMember` | `Spec => []LeaderIsMember` |
| `TeamsProofs!LeadersSucceeded` | `Spec => Succession`, an action property |
| `TeamsProofs!DeletedAccountsLeave` | `Spec => []DeletedLeft` |
| `AccountsProofs!TypeCorrect` | `Spec => []TypeOK` |
| `AccountsProofs!RotationKeepsOne` | `Spec => []OneTokenPerLogin` |
| `AccountsProofs!InUseOfVerified` | `Spec => []SessionsOfVerified` |
| `AccountsProofs!EndingsEnd` | `Spec => []SessionsEnded` |
| `AccountsProofs!LatestCodeAlone` | `Spec => []OneLiveCode` |
| `SpeechProofs!TypeCorrect` | `Spec => []TypeOK` |
| `SpeechProofs!VoiceKept` | `Spec => []VoiceOfPersona` |
| `SpeechProofs!ImplementsAsyncJob` | `Spec => SpeechPolled`, the refinement |
| `SpeechProofs!StuckOnlyByExceptions` | as long as no session was deleted, and no save can fail: `NothingStuck` |
| `SharedProofs!CallStaysInTurn` | `CallSpec => []FallbackInTurn` |
| `SharedProofs!ChunksWhole` | `RecorderSpec => []ChunkHoldsItsAudio` |
| `SharedProofs!KeptOnceAndWhole` | of every recording and every word no longer than the overlap, one window keeps the word, and has heard it whole |
| `SharedProofs!FileKeepsWords` | `RecorderSpec => []WordsOnce` |
| `SharedProofs!ChunksKeepPhrases` | `RecorderSpec => []PhrasesOnce` |

The assumptions are the `...Assumption` of each module: bounds are natural
numbers, there is at least one question and one job slot, and `None`, `NoKey` and
the like are no members of the sets they stand beside; the keys of the language
model have different labels (`gemini_provider.py:165-167` gives them), and a talk
that was recorded is not the empty sequence, which stands for a recording that
goes on.

Five theorems have a hypothesis besides, each that of the run which checks the
property. `OneRequest` is the single presenter of the client, whose requests come
one after the other; the worker and the generations still interleave with them,
and so do restarts except in `TranscriptIsOfRecording`. Two requests can commit
on one status (Findings). `NumChunks = 0` and `Totals = {}` leave the whole-file
uploads, which are all the client sends; `TranscriptHasItsJob` has either of the
two, any requests without chunks or chunks of one presenter. `crashes = 0` stands for the time before
a restart, after which segments can be lost (Findings). `Anchor # {}` says that
the session ended with a ready answer of a strategy that the model leaves out of
no run: without one a run may have no score to insert, collide with no other
run, and show a mixed report (`ReportsMixed`). The premises inside
`VoiceOfPersona` and `StuckOnlyByExceptions` are those of the findings on speech.

**Types.** `TypeOK` is proved of every module with rows; a run checks it too,
except for the recording and the speech. It is not inductive: a thread that
commits needs to carry a question, a key, a team or an invitation that exists.
`TypeInv` adds that (`BusyNamed`, `ThreadsNamed`) and is inductive. The proofs
have one lemma per kind of step (request, what a request goes on to do, worker,
background job, restart) and one step per action.

**The Q&A.** `NoQuestionSkipped` alone is not inductive either: a pass that was
checked earlier moves `current` from a question that is no longer the current
one, and a job may be for any question. `ReachedInv` adds that every question
with a row, in the queue or held by a thread is one whose predecessors have
rows; `ReachedStays` (rows are never deleted) makes this stable, and
`AdvanceReached` carries it over every move of `current`. `AnswerJobCovered` is
inductive relative to `TypeInv`: the case that needs thought is the commit of a
job for a row resubmitted since it was read: it leaves the row processing only
if it read something else than processing, and then a younger job covers the
row. The end is one commit because the three ways to it write the same three
columns. `EndIsFinal` then needs to say who may still hold an older decision: a
pass or an end that was checked, or a worker between its look at the session and
its commit (`QnaOver`); once nobody does, nobody can again. That a passed row
stays passed needs what a job may have read of a row that was not passed then.

The session is read before the model call, so a follow-up may be committed after
a pass was; what keeps it from entering under a passed answer is the constraint
of the table that a passed row has no verdict `generated`. A commit writes only
the columns that differ from what was read, and a verdict that is not written
asks no constraint. `VerdictInv` excludes this: a row which says `generated`,
stored or as the worker read it, has its follow-up already, so the insertion
always writes the verdict. `ReadyHasText` needs `ReadInv`: until a restart, the row that is being
transcribed is the row the worker read, or it was submitted again with a job
still ahead; otherwise the worker could take the text for unchanged on a row that
has lost it.

**The recording.** `ChunkJobCovered` is inductive relative to `TypeInv`: a step
that loses the job from one place puts it in the next (request, queue, worker),
and `RecoveredQueue` gives what a restart puts back. `TranscriptJobCovered` is
proved in the same way without live chunks. With them it is false for two
requests: a chunk that is stored after its `complete` call sets the row to
processing without a job. For one request at a time it is proved too, from
`LiveFirst`: a status in which chunks are accepted is one before any recording is
stored, and by the refinement of `SessionLifecycle` no step leads back to it. A
chunk handler that passed its check still finds such a status at its commit
(`LifeInv`), so it never touches the row of a stored recording.

The status of the session is read by a handler before it saves a file and by a
generation before it asks the model. `LifeInv` says what that reading is worth
at the commit: a handler that has passed its check finds a status from which its
step is in the table (`SeenAllows`), and at most one generation is under way, of
a session that waits for it and has no questions (`OneGeneration`). `FollowsLifecycle` is the step
simulation under `LifeInv`, `QuestionsMadeOnce` a consequence of it.
`TranscriptOfRecording` rests on `TakeInv`: a key that a handler is about to
store holds its take, the key to delete is not the key of the row, and once no
job is ahead the worker has the key, the audio and the stored text of the
recording there is. While a job is ahead nothing is promised, since the worker
may commit the transcript of the take before; `JobAhead` says that it will not
be the last to do so.

**The material.** `MaterialPolled` is proved as a refinement is: the initial
states map to initial states (there is no material), and under `TypeInv` every
action maps to a step of `AsyncJob` or to a stutter. An upload or a retry is `Accept`,
`Mark` is `Start`, `Finish` and `Fail` are `Settle` or, of a row that is gone,
`JobsEnd`, the deletions are `Remove`, `Restart` is `Recover`. `NeverForgotten`
then follows from the abstract invariant, as a row that is unfinished and has no
job is a state `AsyncJob` does not reach.

`FileOfRow` speaks of a moment without requests; `FilesDuring` says what storage
holds while one is at work: the file of the row; then the new one besides it;
then the new one alone, before the commit; and, after the commit of a deletion,
at most the file that is yet to be unlinked. That no second request has these
in hand is `overlapped`; parse jobs change no file and are not restricted.

**The teams.** `LeaderIsMember` is inductive together with `EditsHold`: what was
decided under a lock (this member goes, that one succeeds) is still right of the
team, and no two threads have edits of the same team. A join or a creation does
not disturb an edit, and every other writer of the team waits for the lock; so
the commit leaves a leader who stays. Without `Free` the lemma about an added
edit fails, which is the mutant of the run.

`Succession` follows from the same invariant: the edit of a commit is what
`Leaving` computes from the members there are now, not from those the request
saw. For `DeletedLeft`, `AccountInv` says that a deletion has every team of its
account either still to lock, locked, or in its edits, except those in `late`,
which were joined or founded after the list was read; at its end only `late` is
left.

**The report.** `ReportOfOneRun` is about two tables that several jobs rewrite.
`RunInv` gives every run a number of its own, held by one job or by the recovery
thread, so that a row names the run that wrote it. `PageInv` then says of every
session that the scores are all of the run of the insight (`RowsOf`), that a
DELETE saw all the rows of one run or none (`Holds`), and that only one job
holds rows that others must wait for. A job whose DELETE saw other rows
than there are now fails on the primary key when it inserts its own, as both runs
have the row of a strategy in `Anchor`: this is where the hypothesis is used;
what a run scores besides may be anything. `ReportPolled` is a step simulation
under `TypeInv`: an acceptance is `Accept`, `Mark` is `Start`, `Commit` and `Fail` are
`Settle`, the end of a job that finds nothing to write is `JobsEnd`, and an
exception, which keeps its session pending in `lost`, is a stutter.

**The accounts.** Under `TypeInv` every step lets the tables *fade* (`Fades`):
rows stay, what is not live never becomes so again, accounts end once. So each
invariant needs a word about new rows and about what requests carry.
`RotationInv` adds that a refresh holds the row it has claimed, alone and in
use, which is where `Locked` matters: an ending waits for a claimed row or has
not seen it. `EndedInv` adds that an ending has seen every older token of its
user, `VerifiedInv` that a request about to insert a token was admitted for an
account that is verified, `IssueInv` that an issue has seen every code that was
live when it began. Each is inductive relative to `TypeInv` (`RotationInv` to
`VerifiedInv` also).

**The speech.** Until the server has lacked the voice or throttled a request,
`VoiceInv` says that a thread speaks with the default voice only for a text that
is refused, which then fails and is never saved. `SpeechPolled` is a refinement
with a writer per generation, the worker and the recovery: `CarriedInv` gives the
threads their shape (one that is at a question has exactly one, one that is about
to list has read none; no recovery runs while the server starts). A thread that dies
moves all it carries into `lost`; one that lists a session's queued questions
takes over what others, or `lost`, had; that these were pending already is the
abstract invariant itself, carried along in the induction.
`StuckOnlyByExceptions` turns it round: while every session exists and saving
works, `NoLoss` is inductive, that is, the rows a thread works on are there, no
commit finds its row gone, and `lost` is empty.

**The algorithms.** What a loop computes is proved over its prefixes: if the
claim were false of some length there would be a least one (`LeastMember`, from
the well-foundedness of `<`), and the recursion gives the step to it from the one
before. `UpTo` gives a recursive function its values in the same way. So
`Distinct` is shown to keep every model once, and `Emits` to keep `WindowInv`
from one chunk to the next: the window begins no later than the next chunk,
because trimming drops only pieces that end at `KeepFrom` or before
(`ChunksWhole`, with `RecorderInv`). `CallInv` says that what was tried are the
combinations before the present one in the order of the two loops, that every
key before is spent and, of the present key, every model before
(`CallStaysInTurn`); that the labels differ is needed, as an attempt is told from
another by its label.

**The transcript.** `WordsOnce` and `PhrasesOnce` compare a pipeline of cutting,
transcribing, sorting, grouping and joining with what was said. `RecorderInv`
gives the chunks: one for every minute, each from the overlap before it
(`Minutes`). For a file, the cuts in the middles of the overlaps divide the
words: every word belongs to one window, which heard it whole (`OwnPart`,
`HeardThere`), and the parts follow one another (`Borders`, `CutsJoin`), so
joined they are the talk (`FlattenRanges`, `WindowsDivide`). The order is right
already and sorting changes nothing (`SortedStays`); grouping keeps every word
(`GroupsHoldAll`).

For chunks, a grouping is described by the ranges of words between its borders
(`GroupRanges`). If no phrase is longer than the overlap, far less than what
would be split without a pause, the borders are exactly the pauses
(`PhrasesAre`), and two groupings with the same pauses have the same borders
(`SameBorders`). So a chunk hears a phrase as it hears a word, cut off where its
window begins or ends (`StampsDivide`, `ChunkHeard`): `Unbroken` is needed here,
since whether a word is written without a space depends on the word before it,
and the window may not have that one. Then what was shown for words and windows
holds of phrases and chunks (`CutsJoin`, `ChunksJoin`). The recursion in the
grouping and in the folds is met by induction on explicit bounds, with
`LeastMember` and `UpTo`.

**Checked by TLC only.** Everything temporal under fairness (`AnswersSettle`,
`VerdictUnlessRestart`, `TranscriptSettles`, `GenerationSettles`,
`ReportsSettle`, `MaterialSettles`, `SpeechSettles`), which is out of the
prover's reach.
`TranscriptOfRecording` with live chunks is neither proved nor checked:
`TranscriptIsOfRecording` is about the whole files, which the client sends.

## Not modelled

* *Contents.* Prompts and language model answers, the cleaning of evidence,
  slides, speech metrics of the report and the cache of the growth insight: pure
  functions of their input, on which no property here depends.
* *I/O.* Email, signed file URLs, the GPU server: their failures are the failing
  calls of the models. `speeches.py` and `db/store.py` are mocks.
* *The client* besides the chunker. Its recording page does not send chunks at
  this commit, so the live path of `Preparation` is what the backend offers.
* *Sessions.* Creating, listing and PATCH of a session are single transactions;
  PATCH of the settings (`sessions.py:94`) can be committed after the generation
  has read them.
* *Accounts.* One address only; the name, the reminder of the username, the
  contents of passwords, the cooldown of a resend (it may have passed at any
  moment) and the social login, a mock.
* *Teams.* Renaming, the lists, the expiry of invitations (an invitation that
  expired is like one that is closed) and which terminal status an invitation has. Members
  are ordered by their commits; `joined_at` is the start of the transaction, so
  two joins that overlap may be ordered the other way round.
* *Preparation* has a session without materials: the check of `qna.py:76-80` that
  a material is not in the middle of its parse is left out.
