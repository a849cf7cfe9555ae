----------------------------- MODULE QnaSession -----------------------------
(***************************************************************************)
(* The interactive half of a rehearsal session: the questions exist, one   *)
(* of them is current, and the presenter answers it, passes it or ends the *)
(* Q&A, while ONE speech-to-text worker transcribes the answers, asks the  *)
(* language model for a follow-up and moves the session on                 *)
(* (api/routes/qna.py, services/qna_jobs.py, services/stt_queue.py).       *)
(*                                                                         *)
(* Requests run in a thread pool and the worker in a thread of its own.    *)
(* Each has its own database session, without version checks or row locks: *)
(* an object read earlier is used as it was read, and a commit writes the  *)
(* attributes that differ from what was READ, over whatever is there now.  *)
(* So a handler is modelled as a step that reads and steps that commit,    *)
(* and the worker carries the answer row it read in worker.seen.           *)
(***************************************************************************)
EXTENDS Backend, Sequences

CONSTANTS
    N,           \* number of primary questions of the session
    Handlers,    \* request threads of the presenter that may run at once
    Exts,        \* audio formats of an answer: one storage key per format
    QueueCap,    \* bound: a submission is accepted below this queue length
    MaxCrashes   \* bound: number of server restarts

ASSUME QnaAssumption ==
    /\ N \in Nat \ {0}
    /\ QueueCap \in Nat
    /\ MaxCrashes \in Nat

MAX_FOLLOW_UP_DEPTH == 1

(* A question is its order_index and its follow_up_depth; the unique       *)
(* indexes of the table allow one row of each.                             *)
QuestionIds == (1 .. N) \X (0 .. MAX_FOLLOW_UP_DEPTH)
NoQuestion  == <<0, 0>>
Order(q)    == q[1]
Depth(q)    == q[2]
Child(q)    == <<Order(q), Depth(q) + 1>>
Primary(i)  == <<i, 0>>

NoKey == "null"

(* An answers row; "absent" is the question without a row, which GET /qna  *)
(* shows as pending.                                                       *)
Answer == [kind      : {"absent", "answered", "passed"},
           status    : {"pending", "processing", "ready", "failed"},
           audio     : Exts \cup {NoKey},
           text      : BOOLEAN,          \* text IS NOT NULL
           follow_up : {"pending", "generated", "none"}]

NoAnswer == [kind |-> "absent", status |-> "pending", audio |-> NoKey,
             text |-> FALSE, follow_up |-> "none"]

VARIABLES
    status,       \* sessions.status
    current,      \* sessions.current_question_id
    endedReason,  \* sessions.qna_ended_reason
    questions,    \* rows of questions
    answers,      \* rows of answers
    files,        \* answer audio in storage, by question and format
    report,       \* the reports row: none, or queued by the end of the Q&A
    reporters,    \* who has started run_report since the server started
    queue,        \* in-memory FIFO of answer jobs
    worker,       \* the STT worker thread
    handlers,     \* the requests being served
    crashes       \* restarts so far

sessionRow == <<status, current, endedReason>>
database   == <<sessionRow, questions, answers, report>>
vars       == <<database, files, reporters, queue, worker, handlers, crashes>>

Idle == [pc |-> "idle", q |-> NoQuestion, key |-> NoKey, reason |-> "user"]

HandlerState ==
    [pc     : {"idle", "save", "store", "enqueue", "pass", "passed", "end", "ended"},
     q      : QuestionIds \cup {NoQuestion},
     key    : Exts \cup {NoKey},
     reason : {"user", "timeout"}]

WorkerIdle == [pc |-> "idle", q |-> NoQuestion, seen |-> NoAnswer, draft |-> FALSE]

WorkerState ==
    [pc    : {"idle", "transcribe", "text", "fail", "decide", "follow", "apply",
              "tts", "report"},
     q     : QuestionIds \cup {NoQuestion},
     seen  : Answer,
     draft : BOOLEAN]

TypeOK ==
    /\ status \in {"qna", "completed"}
    /\ current \in QuestionIds \cup {NoQuestion}
    /\ endedReason \in {"none", "user_end", "count_reached", "timeout"}
    /\ questions \subseteq QuestionIds
    /\ answers \in [QuestionIds -> Answer]
    /\ files \subseteq QuestionIds \X Exts
    /\ report \in {"none", "queued"}
    /\ reporters \subseteq Handlers \cup {"worker", "recovery"}
    /\ queue \in Seq(QuestionIds)
    /\ worker \in WorkerState
    /\ handlers \in [Handlers -> HandlerState]
    /\ crashes \in 0 .. MaxCrashes

(* What run_generate has just committed: N primary questions, the first    *)
(* one current.                                                            *)
Init ==
    /\ status = "qna"
    /\ current = Primary(1)
    /\ endedReason = "none"
    /\ questions = {Primary(i) : i \in 1 .. N}
    /\ answers = [q \in QuestionIds |-> NoAnswer]
    /\ files = {}
    /\ report = "none"
    /\ reporters = {}
    /\ queue = <<>>
    /\ worker = WorkerIdle
    /\ handlers = [h \in Handlers |-> Idle]
    /\ crashes = 0

Present(q) == answers[q].kind # "absent"

-----------------------------------------------------------------------------
(* Shared steps of qna_jobs.                                               *)

(* end_session: the caller commits. The status it read is qna, so all of   *)
(* these are written.                                                      *)
end_session(reason) ==
    /\ status' = "completed"
    /\ endedReason' = reason
    /\ current' = NoQuestion
    /\ report' = "queued"

(* Mutant: one past the last question counts as a question.                *)
HasNextPrimary_OffByOne(q) == Order(q) \in 1 .. N

(* Mutant: the formula of the parent is not applied to a follow-up.        *)
HasNextPrimary_NotAfterFollowUp(q) ==
    Depth(q) = 0 /\ Primary(Order(q) + 1) \in questions

HasNextPrimary(q) == Primary(Order(q) + 1) \in questions

(* _advance_to_next_primary: a follow-up has the order of its parent, so   *)
(* the same formula serves both.                                           *)
_advance_to_next_primary(q, end_reason) ==
    \/ /\ HasNextPrimary(q)
       /\ current' = Primary(Order(q) + 1)
       /\ UNCHANGED <<status, endedReason, report>>
    \/ /\ ~HasNextPrimary(q)
       /\ end_session(end_reason)

-----------------------------------------------------------------------------
(* POST /qna/questions/{id}/answer                                         *)

SubmitCheck(h, q, ext) ==
    /\ handlers[h] = Idle
    /\ status = "qna"
    /\ q \in questions
    /\ current = q
    /\ Len(queue) < QueueCap
    /\ handlers' = [handlers EXCEPT ![h] =
                      [Idle EXCEPT !.pc = "save", !.q = q, !.key = ext]]
    /\ UNCHANGED <<database, files, reporters, queue, worker, crashes>>

SubmitSave(h) ==
    /\ handlers[h].pc = "save"
    /\ files' = files \cup {<<handlers[h].q, handlers[h].key>>}
    /\ handlers' = [handlers EXCEPT ![h].pc = "store"]
    /\ UNCHANGED <<database, reporters, queue, worker, crashes>>

SubmittedRow(key) == [kind |-> "answered", status |-> "processing", audio |-> key,
                      text |-> FALSE, follow_up |-> "pending"]

SubmitStore(h) ==
    LET q   == handlers[h].q
        old == answers[q].audio
    IN  /\ handlers[h].pc = "store"
        /\ answers' = [answers EXCEPT ![q] = SubmittedRow(handlers[h].key)]
        /\ handlers' = [handlers EXCEPT
                          ![h].pc  = "enqueue",
                          ![h].key = IF old = handlers[h].key THEN NoKey ELSE old]
        /\ UNCHANGED <<sessionRow, questions, report, files, reporters, queue,
                       worker, crashes>>

(* The file of the former format is deleted, then the job is queued.       *)
SubmitEnqueue(h) ==
    /\ handlers[h].pc = "enqueue"
    /\ files' = files \ {<<handlers[h].q, handlers[h].key>>}
    /\ queue' = Append(queue, handlers[h].q)
    /\ handlers' = [handlers EXCEPT ![h] = Idle]
    /\ UNCHANGED <<database, reporters, worker, crashes>>

-----------------------------------------------------------------------------
(* POST /qna/questions/{id}/pass                                           *)

PassCheck(h, q, reason) ==
    /\ handlers[h] = Idle
    /\ status = "qna"
    /\ q \in questions
    /\ current = q
    /\ handlers' = [handlers EXCEPT ![h] =
                      [Idle EXCEPT !.pc = "pass", !.q = q, !.reason = reason]]
    /\ UNCHANGED <<database, files, reporters, queue, worker, crashes>>

PassedRow == [kind |-> "passed", status |-> "ready", audio |-> NoKey,
              text |-> FALSE, follow_up |-> "none"]

PassReason(reason) == IF reason = "timeout" THEN "timeout" ELSE "count_reached"

(* record_pass up to its commit.                                           *)
PassStore(h) ==
    LET q == handlers[h].q
    IN  /\ handlers[h].pc = "pass"
        /\ answers' = [answers EXCEPT ![q] = PassedRow]
        /\ _advance_to_next_primary(q, PassReason(handlers[h].reason))
        /\ handlers' = [handlers EXCEPT ![h].pc = "passed", ![h].key = answers[q].audio]
        /\ UNCHANGED <<questions, files, reporters, queue, worker, crashes>>

(* The audio of the passed answer is deleted, the session is refreshed,    *)
(* and the report job is started if it is completed by now.                *)
PassDone(h) ==
    /\ handlers[h].pc = "passed"
    /\ files' = files \ {<<handlers[h].q, handlers[h].key>>}
    /\ reporters' = IF status = "completed" THEN reporters \cup {h} ELSE reporters
    /\ handlers' = [handlers EXCEPT ![h] = Idle]
    /\ UNCHANGED <<database, queue, worker, crashes>>

-----------------------------------------------------------------------------
(* POST /qna/end                                                           *)

EndCheck(h) ==
    /\ handlers[h] = Idle
    /\ status = "qna"
    /\ handlers' = [handlers EXCEPT ![h] = [Idle EXCEPT !.pc = "end"]]
    /\ UNCHANGED <<database, files, reporters, queue, worker, crashes>>

EndStore(h) ==
    /\ handlers[h].pc = "end"
    /\ end_session("user_end")
    /\ handlers' = [handlers EXCEPT ![h].pc = "ended"]
    /\ UNCHANGED <<questions, answers, files, reporters, queue, worker, crashes>>

EndDone(h) ==
    /\ handlers[h].pc = "ended"
    /\ reporters' = reporters \cup {h}
    /\ handlers' = [handlers EXCEPT ![h] = Idle]
    /\ UNCHANGED <<database, files, queue, worker, crashes>>

-----------------------------------------------------------------------------
(* run_answer_stt, on the one worker thread.                               *)

WorkerTake ==
    /\ worker.pc = "idle"
    /\ queue # <<>>
    /\ worker' = [pc |-> "transcribe", q |-> Head(queue),
                  seen |-> answers[Head(queue)], draft |-> FALSE]
    /\ queue' = Tail(queue)
    /\ UNCHANGED <<database, files, reporters, handlers, crashes>>

(* A row without audio, a missing file or a failing STT server is a        *)
(* failure; STT may fail on a good file too.                               *)
WorkerTranscribe ==
    /\ worker.pc = "transcribe"
    /\ \/ /\ <<worker.q, worker.seen.audio>> \in files
          /\ worker' = [worker EXCEPT !.pc = "text"]
       \/ worker' = [worker EXCEPT !.pc = "fail"]
    /\ UNCHANGED <<database, files, reporters, queue, handlers, crashes>>

(* Mutant: an exception that nobody absorbs ends the job.                  *)
WorkerFail_Uncaught ==
    /\ worker.pc = "fail"
    /\ worker' = WorkerIdle
    /\ UNCHANGED <<database, files, reporters, queue, handlers, crashes>>

(* _fail_answer                                                            *)
WorkerFail ==
    LET q == worker.q
    IN  /\ worker.pc = "fail"
        /\ answers' = [answers EXCEPT
              ![q].status    = Write(worker.seen.status, "failed", @),
              ![q].follow_up = Write(worker.seen.follow_up, "none", @)]
        /\ worker' = WorkerIdle
        /\ UNCHANGED <<sessionRow, questions, report, files, reporters, queue,
                       handlers, crashes>>

(* Mutant: the status is committed, the text is not.                       *)
WorkerText_StatusOnly ==
    /\ worker.pc = "text"
    /\ answers' = [answers EXCEPT ![worker.q].status = Write(worker.seen.status, "ready", @)]
    /\ worker' = [worker EXCEPT !.pc = "decide", !.seen.text = TRUE,
                                !.seen.status = "ready"]
    /\ UNCHANGED <<sessionRow, questions, report, files, reporters, queue,
                   handlers, crashes>>

(* The text is in the UPDATE unless it equals the text that was read.      *)
WorkerText ==
    LET q == worker.q
    IN  /\ worker.pc = "text"
        /\ \E same \in BOOLEAN :
             /\ same => worker.seen.text
             /\ answers' = [answers EXCEPT
                  ![q].text   = IF same THEN @ ELSE TRUE,
                  ![q].status = Write(worker.seen.status, "ready", @)]
        /\ worker' = [worker EXCEPT !.pc = "decide", !.seen.text = TRUE,
                                    !.seen.status = "ready"]
        /\ UNCHANGED <<sessionRow, questions, report, files, reporters, queue,
                       handlers, crashes>>

(* Mutant: the status of the session is not looked at.                     *)
StillCurrent_AnyStatus(q) == current = q

(* _decide_follow_up_and_advance reads the session here, and only here.    *)
StillCurrent(q) == status = "qna" /\ current = q

CanFollow(q) ==
    /\ Depth(q) < MAX_FOLLOW_UP_DEPTH
    /\ worker.seen.kind = "answered"

(* Mutant: the early return leaves the verdict open.                       *)
WorkerLate_NoVerdict ==
    /\ worker.pc = "decide"
    /\ ~StillCurrent(worker.q)
    /\ worker' = WorkerIdle
    /\ UNCHANGED <<database, files, reporters, queue, handlers, crashes>>

WorkerLate ==
    LET q == worker.q
    IN  /\ worker.pc = "decide"
        /\ ~StillCurrent(q)
        /\ answers' = [answers EXCEPT
              ![q].follow_up = Write(worker.seen.follow_up, "none", @)]
        /\ worker' = WorkerIdle
        /\ UNCHANGED <<sessionRow, questions, report, files, reporters, queue,
                       handlers, crashes>>

WorkerDecide ==
    /\ worker.pc = "decide"
    /\ StillCurrent(worker.q)
    /\ worker' = [worker EXCEPT !.pc = IF CanFollow(worker.q) THEN "follow" ELSE "apply"]
    /\ UNCHANGED <<database, files, reporters, queue, handlers, crashes>>

(* The language model call: a draft, no draft, or an exception (no draft). *)
WorkerFollowUp ==
    /\ worker.pc = "follow"
    /\ \E d \in BOOLEAN : worker' = [worker EXCEPT !.pc = "apply", !.draft = d]
    /\ UNCHANGED <<database, files, reporters, queue, handlers, crashes>>

(* Mutant: without the CHECK on passed answers.                            *)
FollowUpAccepted_NoCheck(q) == Child(q) \notin questions

(* The CHECK of the answers table, as the commit that also writes the      *)
(* verdict on q meets it: a passed row has no follow-up.                   *)
PassedRowAllows(q) ==
    answers[q].kind = "passed" =>
        Write(worker.seen.follow_up, "generated", answers[q].follow_up) = "none"

(* The constraints the inserting transaction meets: one follow-up per      *)
(* question, and the CHECK on the row of its parent.                       *)
FollowUpAccepted(q) == Child(q) \notin questions /\ PassedRowAllows(q)

WorkerInsertFollowUp ==
    LET q == worker.q
    IN  /\ worker.pc = "apply"
        /\ worker.draft
        /\ FollowUpAccepted(q)
        /\ questions' = questions \cup {Child(q)}
        /\ answers' = [answers EXCEPT
              ![q].follow_up = Write(worker.seen.follow_up, "generated", @)]
        /\ current' = Child(q)
        /\ worker' = [worker EXCEPT !.pc = "tts"]
        /\ UNCHANGED <<status, endedReason, report, files, reporters, queue,
                       handlers, crashes>>

(* A violated constraint rolls the transaction back; the worker loop logs  *)
(* the exception and takes the next job.                                   *)
WorkerRollback ==
    /\ worker.pc = "apply"
    /\ worker.draft
    /\ ~FollowUpAccepted(worker.q)
    /\ worker' = WorkerIdle
    /\ UNCHANGED <<database, files, reporters, queue, handlers, crashes>>

WorkerAdvance ==
    LET q == worker.q
    IN  /\ worker.pc = "apply"
        /\ ~worker.draft
        /\ answers' = [answers EXCEPT
              ![q].follow_up = Write(worker.seen.follow_up, "none", @)]
        /\ _advance_to_next_primary(q, "count_reached")
        /\ worker' = IF HasNextPrimary(q) THEN WorkerIdle
                     ELSE [worker EXCEPT !.pc = "report"]
        /\ UNCHANGED <<questions, files, reporters, queue, handlers, crashes>>

(* Inline: speech for the new follow-up, or the report of a session this   *)
(* answer ended.                                                           *)
WorkerSpeak ==
    /\ worker.pc = "tts"
    /\ worker' = WorkerIdle
    /\ UNCHANGED <<database, files, reporters, queue, handlers, crashes>>

WorkerReport ==
    /\ worker.pc = "report"
    /\ reporters' = reporters \cup {"worker"}
    /\ worker' = WorkerIdle
    /\ UNCHANGED <<database, files, queue, handlers, crashes>>

-----------------------------------------------------------------------------
(* A restart: threads and the queue are lost, the rows and files stay.     *)
(* Before requests are served, recover() queues the answers that are       *)
(* processing (no order is requested of the database) and report_jobs      *)
(* starts the queued report.                                               *)

(* Mutant: answers are looked up by the state a recording waits in.        *)
Unfinished_Waiting ==
    {q \in QuestionIds : answers[q].kind = "answered" /\ answers[q].status = "pending"}

Unfinished == {q \in QuestionIds : answers[q].status = "processing"}

Restart ==
    /\ crashes < MaxCrashes
    /\ crashes' = crashes + 1
    /\ queue' \in Orderings(Unfinished)
    /\ worker' = WorkerIdle
    /\ handlers' = [h \in Handlers |-> Idle]
    /\ reporters' = IF report = "queued" THEN {"recovery"} ELSE {}
    /\ UNCHANGED <<database, files>>

-----------------------------------------------------------------------------
Request(h) ==
    \/ \E q \in QuestionIds, ext \in Exts : SubmitCheck(h, q, ext)
    \/ \E q \in QuestionIds, reason \in {"user", "timeout"} : PassCheck(h, q, reason)
    \/ EndCheck(h)

(* What a request that was accepted goes on to do.                         *)
Serve(h) ==
    \/ SubmitSave(h) \/ SubmitStore(h) \/ SubmitEnqueue(h)
    \/ PassStore(h) \/ PassDone(h)
    \/ EndStore(h) \/ EndDone(h)

Worker ==
    \/ WorkerTake \/ WorkerTranscribe \/ WorkerFail \/ WorkerText
    \/ WorkerLate \/ WorkerDecide \/ WorkerFollowUp
    \/ WorkerInsertFollowUp \/ WorkerRollback \/ WorkerAdvance
    \/ WorkerSpeak \/ WorkerReport

Next ==
    \/ \E h \in Handlers : Request(h) \/ Serve(h)
    \/ Worker
    \/ Restart

(* The presenter may stay away for ever; an accepted request and a taken   *)
(* job run to their end: every call to a service has a timeout, and ffmpeg *)
(* decodes a finite local file.                                            *)
Fairness ==
    /\ \A h \in Handlers : WF_vars(Serve(h))
    /\ WF_vars(Worker)

Spec     == Init /\ [][Next]_vars
FairSpec == Spec /\ Fairness

-----------------------------------------------------------------------------
(* Properties that hold under every interleaving of requests, worker and   *)
(* restarts.                                                               *)

(* What must lie behind the question q for it to be asked: every primary   *)
(* question before it has an answers row, and so has the parent.           *)
Reached(q) == \A i \in 1 .. N :
    (i < Order(q) \/ (i = Order(q) /\ Depth(q) > 0)) => Present(Primary(i))

(* No primary question is ever skipped: the current question has all the   *)
(* earlier ones behind it, and a Q&A that ends by itself (count reached or *)
(* timeout) has asked every one, however passes, late transcriptions and   *)
(* restarts fall (_decide_follow_up_and_advance, record_pass).             *)
NoQuestionSkipped ==
    /\ current # NoQuestion => Reached(current)
    /\ endedReason \in {"count_reached", "timeout"} =>
           \A i \in 1 .. N : Present(Primary(i))

(* A job for q that the worker has not taken yet.                          *)
JobAhead(q) ==
    \/ \E h \in Handlers : handlers[h].pc = "enqueue" /\ handlers[h].q = q
    \/ \E i \in 1 .. Len(queue) : queue[i] = q

Transcribing(q) == worker.q = q /\ worker.pc \in {"transcribe", "text", "fail"}

Covered(q) ==
    \/ JobAhead(q)
    \/ /\ Transcribing(q)
       /\ worker.seen.status = "processing"

(* An answer shown as processing is never forgotten: a job for it is       *)
(* queued, about to be, or running on a row that was read as processing,   *)
(* also after a restart emptied the queue (stt_queue.recover).             *)
AnswerJobCovered ==
    \A q \in QuestionIds : answers[q].status = "processing" => Covered(q)

(* The end of the Q&A is one commit: status, reason and report row agree,  *)
(* and a running Q&A always has a question to show (end_session with its   *)
(* callers' commits).                                                      *)
CompletionAtomic ==
    /\ (status = "completed") = (endedReason # "none")
    /\ (status = "completed") = (report = "queued")
    /\ status = "qna" => current \in questions

(* The commit that ends the Q&A leaves no question current. (A commit      *)
(* after it may: LateAnswerKeepsProgress.)                                 *)
EndClears == [][status = "qna" /\ status' = "completed" => current' = NoQuestion]_vars

(* The Q&A has ended and nobody holds a decision made while it ran: no     *)
(* accepted pass or end is still to be committed, and the worker is not    *)
(* between its look at the session and its commit.                         *)
QnaOver ==
    /\ status = "completed"
    /\ worker.pc \notin {"follow", "apply"}
    /\ \A h \in Handlers : handlers[h].pc \notin {"pass", "end"}

(* Then the end is final: no late transcription, late upload, request or   *)
(* restart reopens the session, makes a question current or changes the    *)
(* reason, and none comes to a state from which it would (submit_answer,   *)
(* pass_question and end_qna refuse, _decide_follow_up_and_advance         *)
(* returns early).                                                         *)
EndIsFinal == [][QnaOver => UNCHANGED sessionRow /\ QnaOver']_vars

(* No commit ever puts a passed row in the state the table's CHECK forbids *)
(* (audio or a follow-up on a pass), so only the insertion of a follow-up  *)
(* has to rely on the constraint.                                          *)
PassedRowCheck ==
    \A q \in QuestionIds : answers[q].kind = "passed" =>
        answers[q].audio = NoKey /\ answers[q].follow_up = "none"

(* The worker still has a job of the former answer of q, and commits.      *)
LateJobOf(q) == worker.q = q /\ worker.pc \in {"fail", "text"} /\ worker' # worker

(* A passed row stays a passed row until another upload is stored over it: *)
(* a job that was running at the pass may add its text or mark the row     *)
(* failed, and nothing else touches it (record_pass against                *)
(* run_answer_stt and _fail_answer).                                       *)
PassedRowKept ==
    [][\A q \in QuestionIds : answers[q].kind = "passed" /\ answers'[q] # answers[q] =>
          \/ \E ext \in Exts : answers'[q] = SubmittedRow(ext)
          \/ answers'[q] = PassedRow
          \/ /\ LateJobOf(q)
             /\ answers'[q].kind = "passed"
             /\ answers'[q].audio = NoKey
             /\ answers'[q].follow_up = "none"]_vars

(* A spoken answer shown as ready has its text, or a job for it is still   *)
(* to come, although the worker writes only what differs from the row it   *)
(* read before transcribing. (Before a restart: that loses the job, queued *)
(* or about to be, of a resubmitted answer which an older job marked ready *)
(* with the same text, and recover() looks for processing only.)           *)
ReadyHasText ==
    \A q \in QuestionIds :
        crashes = 0 /\ answers[q].kind = "answered" /\ answers[q].status = "ready" =>
            answers[q].text \/ JobAhead(q) \/ Transcribing(q)

(* A follow-up is inserted under a question of depth 0 whose stored answer *)
(* is a spoken one at that moment, and becomes the current question in the *)
(* same commit; a pass that came during the language model call wins.      *)
FollowUpOfAnswered ==
    [][\A q \in questions' \ questions :
          /\ Depth(q) = MAX_FOLLOW_UP_DEPTH
          /\ answers[Primary(Order(q))].kind = "answered"
          /\ answers'[Primary(Order(q))].follow_up = "generated"
          /\ current' = q]_vars

(* A report job runs only for a session whose end is committed.            *)
ReportAfterEnd == reporters # {} => status = "completed" /\ report = "queued"

(* An answer that is processing leaves that state, whatever is resubmitted *)
(* or passed meanwhile, and across a restart.                              *)
AnswersSettle ==
    \A q \in QuestionIds :
        answers[q].status = "processing" ~> answers[q].status # "processing"

(* Unless the server restarts, the verdict on the follow-up is reached:    *)
(* pending does not stay.                                                  *)
VerdictUnlessRestart ==
    \A q \in QuestionIds :
        answers[q].follow_up = "pending" ~> answers[q].follow_up # "pending" \/ crashes > 0

-----------------------------------------------------------------------------
(* The inductive invariants behind TypeOK, NoQuestionSkipped,              *)
(* ReportAfterEnd, FollowUpOfAnswered and ReadyHasText; AnswerJobCovered   *)
(* and PassedRowCheck are inductive relative to TypeInv.                   *)

(* A thread that is busy with a question names it.                         *)
BusyNamed ==
    /\ \A h \in Handlers :
          /\ handlers[h].pc \in {"save", "store", "enqueue", "pass", "passed"} =>
                handlers[h].q \in QuestionIds
          /\ handlers[h].pc \in {"save", "store"} => handlers[h].key \in Exts
    /\ worker.pc # "idle" => worker.q \in QuestionIds
    /\ worker.pc # "apply" => worker.pc = "tts" \/ ~worker.draft
    /\ worker.pc = "follow" \/ worker.draft => Depth(worker.q) < MAX_FOLLOW_UP_DEPTH

TypeInv == TypeOK /\ BusyNamed

(* The rows that exist are behind what was asked.                          *)
RowsReached ==
    /\ {Primary(i) : i \in 1 .. N} \subseteq questions
    /\ \A q \in QuestionIds : Present(q) => Reached(q)
    /\ \A q \in QuestionIds : answers[q].status = "processing" => Present(q)

(* And so is everything a thread may still act on.                         *)
ThreadsReached ==
    /\ \A h \in Handlers :
          handlers[h].pc \in {"save", "store", "pass"} => Reached(handlers[h].q)
    /\ \A h \in Handlers : handlers[h].pc = "enqueue" => Present(handlers[h].q)
    /\ \A i \in 1 .. Len(queue) : Present(queue[i])
    /\ worker.pc # "idle" => Present(worker.q)

ReachedInv == RowsReached /\ ThreadsReached /\ NoQuestionSkipped

(* A thread that is about to start the report has seen the session end.    *)
EndInv ==
    /\ CompletionAtomic
    /\ \A h \in Handlers : handlers[h].pc = "ended" => status = "completed"
    /\ worker.pc = "report" => status = "completed"
    /\ reporters # {} => status = "completed"

(* A row that says a follow-up was generated, stored or as the worker read *)
(* it, has that follow-up.                                                 *)
VerdictInv ==
    /\ \A q \in QuestionIds :
          answers[q].follow_up = "generated" => Child(q) \in questions
    /\ worker.seen.follow_up = "generated" => Child(worker.q) \in questions

(* Until a restart, the answer being transcribed is the row the worker     *)
(* read, unless it was submitted again, with a job that is still ahead.    *)
ReadInv ==
    \A q \in QuestionIds :
        crashes = 0 /\ Transcribing(q) /\ answers[q].kind = "answered" =>
            \/ answers[q] = worker.seen
            \/ answers[q].status = "processing" /\ JobAhead(q)

TextInv == ReadInv /\ ReadyHasText

-----------------------------------------------------------------------------
(* What a comment of the code says, and the code does not keep.            *)

(* "If the user ended the Q&A or passed on while STT ran, the progress is  *)
(* not touched" (qna_jobs.py:226): a step of the worker changes the        *)
(* session only while the Q&A runs and the answered question is still the  *)
(* current one.                                                            *)
LateAnswerKeepsProgress ==
    [][worker' # worker /\ sessionRow' # sessionRow => StillCurrent(worker.q)]_vars
=============================================================================
