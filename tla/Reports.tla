------------------------------ MODULE Reports -------------------------------
(***************************************************************************)
(* The reports of completed sessions: run_report as a background task of   *)
(* the end of the Q&A, of POST /report/generate, and of the recovery       *)
(* thread after a restart (services/report_jobs.py, api/routes/reports.py).*)
(* Nothing keeps two of them from running for one session.                 *)
(*                                                                         *)
(* A run is the number of its acceptance. The report holds the run whose   *)
(* insight it shows, a score row the run that inserted it; 0 is NULL, or   *)
(* no row. The language model may give fewer scores than it was shown      *)
(* answers (the lists are zipped): a run scores some of them.              *)
(***************************************************************************)
EXTENDS Backend, Functions, SequencesExt

CONSTANTS
    Sessions,       \* completed sessions
    Jobs,           \* background tasks that may exist at a time
    Strategies,     \* QuestionStrategy: a score row each
    Initially,      \* strategies of the answers that are ready at the end
    Always,         \* strategies the model never leaves out when it is asked
    Regenerations,  \* bound: accepted requests to generate the report again
    MaxCrashes      \* bound: number of server restarts

ASSUME ReportsAssumption ==
    /\ IsFiniteSet(Sessions)
    /\ Initially \subseteq Strategies
    /\ Always \subseteq Strategies
    /\ Regenerations \in Nat
    /\ MaxCrashes \in Nat

Threads == Jobs \cup {"recovery"}
Runs    == 1 .. 1 + Regenerations + MaxCrashes

(* An insight is the run that wrote it. A report without answers has the   *)
(* same fixed text in every run: a number that is no run's.                *)
NoAnswers == 2 + Regenerations + MaxCrashes
Insights  == {0, NoAnswers} \cup Runs

Report == [status : {"absent", "queued", "processing", "ready", "failed"},
           insight : Insights]
Scores == [Strategies -> Runs \cup {0}]

NoScores == [k \in Strategies |-> 0]
NoRow    == [status |-> "absent", insight |-> 0]

VARIABLES
    report,      \* rows of reports; absent once the session is deleted
    scores,      \* rows of report_type_scores
    answered,    \* strategies with an answer that is ready and has a text
    jobs,        \* the threads inside run_report
    recovering,  \* sessions the recovery thread has yet to take
    lost,        \* history: sessions an exception has left to nobody since
                 \* the server started; no step of the program reads it
    accepted,    \* regenerations so far
    crashes      \* restarts so far

rows == <<report, scores, answered>>
vars == <<rows, jobs, recovering, lost, accepted, crashes>>

Idle == [pc |-> "idle", session |-> "none", run |-> 0, seen |-> NoRow, asked |-> {},
         draft |-> {}, deleted |-> NoScores]

JobState ==
    [pc      : {"idle", "accept", "waiting", "mark", "collect", "ask", "fail", "delete", "commit"},
     session : Sessions \cup {"none"},
     run     : Runs \cup {0},
     seen    : Report,               \* the row as this database session has it
     asked   : SUBSET Strategies,    \* of the answers the model is shown
     draft   : SUBSET Strategies,    \* of the scores it returned
     deleted : Scores]               \* the rows the DELETE saw, then those it holds

TypeOK ==
    /\ report \in [Sessions -> Report]
    /\ scores \in [Sessions -> Scores]
    /\ answered \in [Sessions -> SUBSET Strategies]
    /\ jobs \in [Threads -> JobState]
    /\ recovering \in Seq(Sessions)
    /\ lost \subseteq Sessions
    /\ accepted \in 0 .. Regenerations
    /\ crashes \in 0 .. MaxCrashes
    /\ \A s \in Sessions : report[s] = NoRow => scores[s] = NoScores /\ answered[s] = {}

NewJob(s, run) == [Idle EXCEPT !.pc = "waiting", !.session = s, !.run = run]

(* The Q&A of every session has just ended: its report row is committed as *)
(* queued (end_session), and the background task is about to run.          *)
Init ==
    /\ report = [s \in Sessions |-> [status |-> "queued", insight |-> 0]]
    /\ scores = [s \in Sessions |-> NoScores]
    /\ answered = [s \in Sessions |-> Initially]
    /\ \E task \in Injection(Sessions, Jobs) :
         jobs = [t \in Threads |-> IF \E s \in Sessions : task[s] = t
                                  THEN NewJob(CHOOSE s \in Sessions : task[s] = t, 1)
                                  ELSE Idle]
    /\ recovering = <<>>
    /\ lost = {}
    /\ accepted = 0
    /\ crashes = 0

Exists(s) == report[s].status # "absent"

-----------------------------------------------------------------------------
(* Requests.                                                               *)

(* POST /report/generate reads the report; whether a job of the session is *)
(* running is not asked.                                                   *)
RegenerateCheck(s, j) ==
    /\ Exists(s)
    /\ accepted < Regenerations
    /\ jobs[j] = Idle
    /\ accepted' = accepted + 1
    /\ jobs' = [jobs EXCEPT ![j] =
          [NewJob(s, 1 + accepted') EXCEPT !.pc = "accept", !.seen = report[s]]]
    /\ UNCHANGED <<rows, recovering, lost, crashes>>

(* The commit, unless the row is gone by now; then the job is started.     *)
RegenerateStore(j) ==
    LET s == jobs[j].session IN
    /\ jobs[j].pc = "accept"
    /\ Exists(s)
    /\ report' = [report EXCEPT ![s].status = Write(jobs[j].seen.status, "queued", @)]
    /\ jobs' = [jobs EXCEPT ![j] = NewJob(s, @.run)]
    /\ lost' = lost \ {s}
    /\ UNCHANGED <<scores, answered, recovering, accepted, crashes>>

RegenerateGone(j) ==
    /\ jobs[j].pc = "accept"
    /\ ~Exists(jobs[j].session)
    /\ jobs' = [jobs EXCEPT ![j] =
          IF @.seen.status = "queued" THEN NewJob(@.session, @.run) ELSE Idle]
    /\ UNCHANGED <<rows, recovering, lost, accepted, crashes>>

(* Mutant: the row of an answer outlives its session.                      *)
AnswerReady_Gone(s, k) ==
    /\ k \notin answered[s]
    /\ answered' = [answered EXCEPT ![s] = @ \cup {k}]
    /\ UNCHANGED <<report, scores, jobs, recovering, lost, accepted, crashes>>

(* A late transcription (run_answer_stt of a session that has ended).      *)
AnswerReady(s, k) ==
    /\ Exists(s)
    /\ k \notin answered[s]
    /\ answered' = [answered EXCEPT ![s] = @ \cup {k}]
    /\ UNCHANGED <<report, scores, jobs, recovering, lost, accepted, crashes>>

(* DELETE /sessions/{id}: the rows go by ON DELETE CASCADE.                *)
DeleteSession(s) ==
    /\ Exists(s)
    /\ report' = [report EXCEPT ![s] = NoRow]
    /\ scores' = [scores EXCEPT ![s] = NoScores]
    /\ answered' = [answered EXCEPT ![s] = {}]
    /\ UNCHANGED <<jobs, recovering, lost, accepted, crashes>>

-----------------------------------------------------------------------------
(* run_report on the thread t.                                             *)

Row(t) == report[jobs[t].session]

(* The job returns; what it leaves is committed.                           *)
Over(t) == jobs' = [jobs EXCEPT ![t] = Idle]

(* An exception leaves run_report. A background task is over; the recovery *)
(* thread dies with it, and with the sessions it had yet to take.          *)
Raises(t) ==
    /\ Over(t)
    /\ recovering' = IF t = "recovery" THEN <<>> ELSE recovering
    /\ lost' = lost \cup {jobs[t].session}
                    \cup (IF t = "recovery" THEN Range(recovering) ELSE {})

Begin(t) ==
    /\ jobs[t].pc = "waiting"
    /\ IF Exists(jobs[t].session)
       THEN jobs' = [jobs EXCEPT ![t].pc = "mark", ![t].seen = Row(t)]
       ELSE Over(t)
    /\ UNCHANGED <<rows, recovering, lost, accepted, crashes>>

(* The first commit. It writes nothing when the row was read as processing.*)
Mark(t) ==
    LET s == jobs[t].session IN
    /\ jobs[t].pc = "mark"
    /\ Exists(s) \/ jobs[t].seen.status = "processing"
    /\ report' = [report EXCEPT
          ![s].status = Write(jobs[t].seen.status, "processing", @)]
    /\ jobs' = [jobs EXCEPT ![t].pc = "collect", ![t].seen.status = "processing"]
    /\ UNCHANGED <<scores, answered, recovering, lost, accepted, crashes>>

(* The update of a row that is gone, outside the try block.                *)
MarkStale(t) ==
    /\ jobs[t].pc = "mark"
    /\ ~Exists(jobs[t].session) /\ jobs[t].seen.status # "processing"
    /\ Raises(t)
    /\ UNCHANGED <<rows, accepted, crashes>>

(* _generate reads the answers, then asks the language model for seconds.  *)
Collect(t) ==
    /\ jobs[t].pc = "collect"
    /\ jobs' = [jobs EXCEPT ![t].pc = "ask", ![t].asked = answered[jobs[t].session]]
    /\ UNCHANGED <<rows, recovering, lost, accepted, crashes>>

GenerationFails(t) ==
    /\ jobs[t].pc = "ask"
    /\ jobs' = [jobs EXCEPT ![t].pc = "fail"]
    /\ UNCHANGED <<rows, recovering, lost, accepted, crashes>>

(* Mutant: a failure is only logged.                                       *)
Fail_Logged(t) ==
    /\ jobs[t].pc = "fail"
    /\ Over(t)
    /\ UNCHANGED <<rows, recovering, lost, accepted, crashes>>

(* The except block: failed is committed, or the row is gone.              *)
Fail(t) ==
    LET s == jobs[t].session IN
    /\ jobs[t].pc = "fail"
    /\ \/ /\ Exists(s)
          /\ report' = [report EXCEPT ![s].status = "failed"]
          /\ Over(t)
          /\ UNCHANGED <<recovering, lost>>
       \/ /\ ~Exists(s)
          /\ Raises(t)
          /\ UNCHANGED report
    /\ UNCHANGED <<scores, answered, accepted, crashes>>

(* What the model may return: a score for some of the answers.             *)
Drafts(asked) == {d \in SUBSET asked : asked \cap Always \subseteq d}

(* The model has answered. The DELETE of the score rows sees the rows      *)
(* committed when it starts...                                             *)
DeleteStarts(t) ==
    /\ jobs[t].pc = "ask"
    /\ \E d \in Drafts(jobs[t].asked) :
          jobs' = [jobs EXCEPT ![t].pc = "delete", ![t].draft = d,
                               ![t].deleted = scores[jobs[t].session]]
    /\ UNCHANGED <<rows, recovering, lost, accepted, crashes>>

Kinds(held) == {k \in Strategies : held[k] # 0}

Rivals(t) == {u \in Threads \ {t} : jobs[u].pc = "commit" /\ jobs[u].session = jobs[t].session}

(* ...waits for the transactions that hold one of them, and then holds     *)
(* those that are still there until the end of the transaction.            *)
DeleteDone(t) ==
    LET saw == jobs[t].deleted
        now == scores[jobs[t].session]
    IN  /\ jobs[t].pc = "delete"
        /\ \A u \in Rivals(t) : Kinds(jobs[u].deleted) \cap Kinds(saw) = {}
        /\ jobs' = [jobs EXCEPT
              ![t].pc = "commit",
              ![t].deleted = [k \in Strategies |-> IF saw[k] = now[k] THEN now[k] ELSE 0]]
        /\ UNCHANGED <<rows, recovering, lost, accepted, crashes>>

Insight(t) == IF jobs[t].asked = {} THEN NoAnswers ELSE jobs[t].run

(* Mutant: an upsert instead of an insert.                                 *)
Insertable_Upsert(t) == TRUE

(* The primary key of report_type_scores.                                  *)
Insertable(t) == \A k \in jobs[t].draft :
    scores[jobs[t].session][k] # 0 => jobs[t].deleted[k] # 0

(* One transaction: the rows held are gone, the draft's are inserted, the  *)
(* report is ready with the insight of this run.                           *)
Commit(t) ==
    LET s == jobs[t].session
        j == jobs[t]
    IN  /\ j.pc = "commit"
        /\ Exists(s) /\ Insertable(t)
        /\ scores' = [scores EXCEPT ![s] =
              [k \in Strategies |-> IF k \in j.draft THEN j.run
                                    ELSE IF j.deleted[k] # 0 THEN 0 ELSE @[k]]]
        /\ report' = [report EXCEPT
              ![s].status  = "ready",
              ![s].insight = Write(j.seen.insight, Insight(t), @)]
        /\ Over(t)
        /\ UNCHANGED <<answered, recovering, lost, accepted, crashes>>

(* A thread waits for a row that t holds, while t waits for the report row *)
(* it has updated: either transaction may be the one that is aborted.      *)
Deadlocked(t) == \E u \in Rivals(t) :
    (jobs[u].draft \ Kinds(jobs[u].deleted)) \cap Kinds(jobs[t].deleted) # {}

(* The commit fails in its flush: the row is gone, a score row exists, or  *)
(* a deadlock. The transaction is rolled back and the except block's own   *)
(* commit raises, so nothing is written.                                   *)
CommitFails(t) ==
    /\ jobs[t].pc = "commit"
    /\ ~Exists(jobs[t].session) \/ ~Insertable(t) \/ Deadlocked(t)
    /\ Raises(t)
    /\ UNCHANGED <<rows, accepted, crashes>>

-----------------------------------------------------------------------------
(* A restart; recover() starts one thread for all unfinished reports.      *)

(* Mutant: only the reports whose job had not begun.                       *)
Unfinished_Queued == {s \in Sessions : report[s].status = "queued"}

Unfinished == {s \in Sessions : report[s].status \in {"queued", "processing"}}

Restart ==
    /\ crashes < MaxCrashes
    /\ crashes' = crashes + 1
    /\ jobs' = [t \in Threads |-> Idle]
    /\ recovering' \in Orderings(Unfinished)
    /\ lost' = {}
    /\ UNCHANGED <<rows, accepted>>

RecoveryTakes ==
    /\ jobs["recovery"] = Idle
    /\ recovering # <<>>
    /\ jobs' = [jobs EXCEPT !["recovery"] =
                    NewJob(Head(recovering), 1 + Regenerations + crashes)]
    /\ recovering' = Tail(recovering)
    /\ UNCHANGED <<rows, lost, accepted, crashes>>

-----------------------------------------------------------------------------
RunReport(t) ==
    \/ Begin(t) \/ Mark(t) \/ MarkStale(t) \/ Collect(t)
    \/ GenerationFails(t) \/ Fail(t)
    \/ DeleteStarts(t) \/ DeleteDone(t) \/ Commit(t) \/ CommitFails(t)

Next ==
    \/ \E s \in Sessions :
          \/ \E j \in Jobs : RegenerateCheck(s, j)
          \/ \E k \in Strategies : AnswerReady(s, k)
          \/ DeleteSession(s)
    \/ \E j \in Jobs : RegenerateStore(j) \/ RegenerateGone(j)
    \/ \E t \in Threads : RunReport(t)
    \/ RecoveryTakes
    \/ Restart

(* The language model call has a timeout and PostgreSQL ends deadlocks, so *)
(* a job that was started runs to its end.                                 *)
Fairness ==
    /\ \A t \in Threads : WF_vars(RunReport(t))
    /\ WF_vars(RecoveryTakes)

Spec     == Init /\ [][Next]_vars
FairSpec == Spec /\ Fairness

-----------------------------------------------------------------------------
(* Properties.                                                             *)

HasJob(s) ==
    \/ \E t \in Threads : jobs[t].pc \notin {"idle", "accept"} /\ jobs[t].session = s
    \/ \E i \in DOMAIN recovering : recovering[i] = s

Job == INSTANCE AsyncJob WITH
           Rows    <- Sessions,
           status  <- [s \in Sessions |-> report[s].status],
           pending <- {s \in Sessions : HasJob(s)} \cup lost

(* A client that polls GET /report is kept its promise as far as run_report*)
(* keeps its own, to let no exception out: a request queues the report,    *)
(* only a running job moves it on, and while it is unfinished a job of it  *)
(* waits or runs, or an exception has left it to nobody (and no request    *)
(* has come since), whatever jobs of the session fail, collide or are lost *)
(* in a restart (run_report, regenerate_report, recover).                  *)
ReportPolled == Job!Spec

IsUnfinished(s) == report[s].status \in {"queued", "processing"}

(* "Else the polling of the frontend waits for ever" (recover): a report   *)
(* that is queued or processing becomes ready or failed, unless an         *)
(* exception leaves it to nobody.                                          *)
ReportsSettle == \A s \in Sessions : []<>(~IsUnfinished(s) \/ s \in lost)

(* The strategies that every run of the session scores.                    *)
Anchor == Initially \cap Always

(* "The score rows are replaced as a whole" (run_report): a ready report   *)
(* shows the insight and the scores of one and the same run, among them    *)
(* those of the strategies that every run scores.                          *)
ReportOfOneRun == \A s \in Sessions :
    report[s].status = "ready" =>
        LET shown == {k \in Strategies : scores[s][k] # 0}
        IN  IF report[s].insight = NoAnswers THEN shown = {}
            ELSE /\ Anchor \subseteq shown
                 /\ \A k \in shown : scores[s][k] = report[s].insight

(* "No exception is thrown out, all are absorbed as failed" (the docstring *)
(* of report_jobs.py): every unfinished report has a job. The code does not*)
(* keep it: ReportsCollide.cfg and ReportsRecover.cfg show how.            *)
FailuresAbsorbed == \A s \in Sessions : IsUnfinished(s) => HasJob(s)

-----------------------------------------------------------------------------
(* The inductive invariant behind TypeOK: a thread inside run_report has a *)
(* session and a run, and the row of a deleted session keeps nothing.      *)
TypeInv ==
    /\ TypeOK
    /\ \A t \in Threads :
          jobs[t].pc # "idle" => jobs[t].session \in Sessions /\ jobs[t].run \in Runs
    /\ \A s \in Sessions : ~Exists(s) => report[s] = NoRow

-----------------------------------------------------------------------------
(* What ReportOfOneRun rests on, for sessions that end with a ready answer *)
(* that every run scores (Anchor # {}). First, a run belongs to one job of *)
(* a session, and nobody knows a result of it before the job commits.      *)
Given(n) ==
    \/ n <= 1 + accepted
    \/ 1 + Regenerations < n /\ n <= 1 + Regenerations + crashes
    \/ n = NoAnswers

Unwritten(n, s) ==
    /\ report[s].insight # n
    /\ \A k \in Strategies : scores[s][k] # n
    /\ \A t \in Threads : jobs[t].session = s =>
          jobs[t].seen.insight # n /\ \A k \in Strategies : jobs[t].deleted[k] # n

Running(s) == {t \in Threads : jobs[t].pc # "idle" /\ jobs[t].session = s}

AllGiven ==
    /\ \A s \in Sessions :
          Given(report[s].insight) /\ \A k \in Strategies : Given(scores[s][k])
    /\ \A t \in Threads :
          /\ jobs[t].pc # "idle" => Given(jobs[t].run)
          /\ Given(jobs[t].seen.insight)
          /\ \A k \in Strategies : Given(jobs[t].deleted[k])

OwnRuns == \A s \in Sessions :
    /\ \A t \in Running(s) : Unwritten(jobs[t].run, s)
    /\ \A t, u \in Running(s) : jobs[t].run = jobs[u].run => t = u

RecoveryRun == 1 + Regenerations + crashes

RecoveryRuns == \A i \in DOMAIN recovering :
    /\ crashes > 0
    /\ Unwritten(RecoveryRun, recovering[i])
    /\ \A t \in Running(recovering[i]) : jobs[t].run # RecoveryRun
    /\ \A j \in DOMAIN recovering : recovering[i] = recovering[j] => i = j

RunInv == AllGiven /\ OwnRuns /\ RecoveryRuns

(* Then, the rows of a report are those of one run, a DELETE holds all of  *)
(* them or none, and of the transactions of a session one holds rows.      *)
RowsOf(stored, n) ==
    /\ \A k \in Anchor : stored[k] = n
    /\ \A k \in Strategies : stored[k] \in {0, n}

Page(s) ==
    /\ Initially \subseteq answered[s]
    /\ \/ report[s].insight = 0 /\ report[s].status # "ready" /\ scores[s] = NoScores
       \/ report[s].insight \in Runs /\ RowsOf(scores[s], report[s].insight)

Holds(t, s) ==
    /\ jobs[t].pc \in {"ask", "delete", "commit"} => Initially \subseteq jobs[t].asked
    /\ jobs[t].pc \in {"delete", "commit"} => Anchor \subseteq jobs[t].draft
    /\ jobs[t].pc = "delete" =>
          LET saw == jobs[t].deleted
          IN  /\ saw = NoScores \/ \E n \in Runs : RowsOf(saw, n)
              /\ \A k \in Strategies : saw[k] # 0 /\ saw[k] = scores[s][k] => saw = scores[s]
    /\ jobs[t].pc = "commit" => jobs[t].deleted \in {NoScores, scores[s]}

PageInv == \A s \in Sessions : Exists(s) =>
    /\ Page(s)
    /\ \A t \in Running(s) : Holds(t, s)
    /\ \A t, u \in Running(s) :
          /\ jobs[t].pc = "commit" /\ jobs[t].deleted # NoScores
          /\ jobs[u].pc = "commit" /\ jobs[u].deleted # NoScores
          => t = u
=============================================================================
