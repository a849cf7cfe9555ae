--------------------------- MODULE ReportsProofs ----------------------------
(***************************************************************************)
(* Proofs about Reports, for every set of sessions, tasks and strategies,  *)
(* and any number of regenerations and restarts.                           *)
(***************************************************************************)
EXTENDS Reports, FiniteSetTheorems, TLAPS

LEMMA Numbers ==
    /\ Runs \subseteq Nat /\ 0 \notin Runs /\ NoAnswers \notin Runs /\ NoAnswers # 0
    /\ 1 \in Runs /\ 0 \in Insights /\ NoAnswers \in Insights /\ Runs \subseteq Insights
    /\ Insights \subseteq Nat
  BY ReportsAssumption DEF Runs, NoAnswers, Insights

LEMMA RowTypes ==
    /\ NoRow \in Report /\ NoRow.insight = 0 /\ NoRow.status = "absent"
    /\ NoScores \in Scores /\ \A k \in Strategies : NoScores[k] = 0
    /\ Idle \in JobState /\ Idle.pc = "idle" /\ Idle.seen = NoRow /\ Idle.deleted = NoScores
  BY Numbers DEF NoRow, Report, NoScores, Scores, Idle, JobState

LEMMA NewJobIs ==
    ASSUME NEW s \in Sessions, NEW n \in Runs
    PROVE  /\ NewJob(s, n) \in JobState
           /\ NewJob(s, n).pc = "waiting" /\ NewJob(s, n).session = s /\ NewJob(s, n).run = n
           /\ NewJob(s, n).seen = NoRow /\ NewJob(s, n).deleted = NoScores
  BY RowTypes DEF NewJob, Idle, JobState

(* What a step may do to a thread, seen from the runs: it is over, it goes *)
(* on as it is, or it goes on with what it read of its session.            *)
Continues(t) ==
    \/ jobs'[t] \in {jobs[t], Idle}
    \/ /\ jobs[t].pc # "idle" /\ jobs'[t].pc # "idle"
       /\ jobs'[t].session = jobs[t].session /\ jobs'[t].run = jobs[t].run
       /\ jobs'[t].seen.insight \in
             {0, jobs[t].seen.insight, report[jobs[t].session].insight}
       /\ \A k \in Strategies : jobs'[t].deleted[k] \in
             {0, jobs[t].deleted[k], scores[jobs[t].session][k]}

(* The steps of run_report keep the types of the threads.                  *)
LEMMA JobSteps ==
    ASSUME TypeInv, NEW t \in Threads, RunReport(t)
    PROVE  /\ jobs' \in [Threads -> JobState]
           /\ \A u \in Threads : u # t => jobs'[u] = jobs[u]
           /\ jobs[t].pc # "idle" /\ Continues(t)
<1>0. /\ jobs \in [Threads -> JobState] /\ jobs[t] \in JobState
      /\ report \in [Sessions -> Report] /\ scores \in [Sessions -> Scores]
      /\ answered \in [Sessions -> SUBSET Strategies]
  BY DEF TypeInv, TypeOK
<1>1. jobs[t].pc # "idle" /\ jobs[t].session \in Sessions
  BY <1>0 DEF RunReport, Begin, Mark, MarkStale, Collect, GenerationFails, Fail, DeleteStarts,
         DeleteDone, Commit, CommitFails, TypeInv
<1>2. report[jobs[t].session] \in Report /\ scores[jobs[t].session] \in Scores
  BY <1>0, <1>1
<1>3. ASSUME NEW new \in JobState, jobs' = [jobs EXCEPT ![t] = new],
             new.pc # "idle", new.session = jobs[t].session, new.run = jobs[t].run,
             new.seen.insight \in {0, jobs[t].seen.insight, report[jobs[t].session].insight},
             \A k \in Strategies : new.deleted[k] \in
                 {0, jobs[t].deleted[k], scores[jobs[t].session][k]}
      PROVE  /\ jobs' \in [Threads -> JobState]
             /\ \A u \in Threads : u # t => jobs'[u] = jobs[u]
             /\ Continues(t)
  <2>1. jobs'[t] = new
    BY <1>0, <1>3
  <2> QED
    BY <1>0, <1>1, <1>3, <2>1 DEF Continues
<1>4. ASSUME Over(t)
      PROVE  /\ jobs' \in [Threads -> JobState]
             /\ \A u \in Threads : u # t => jobs'[u] = jobs[u]
             /\ Continues(t)
  BY <1>0, <1>4, RowTypes DEF Over, Continues
<1>5. CASE Begin(t)
  <2>1. CASE Exists(jobs[t].session)
    <3> DEFINE new == [jobs[t] EXCEPT !.pc = "mark", !.seen = Row(t)]
    <3>1. /\ new \in JobState /\ new.pc = "mark" /\ new.session = jobs[t].session
          /\ new.run = jobs[t].run /\ new.seen = Row(t) /\ new.deleted = jobs[t].deleted
      BY <1>0, <1>2 DEF JobState, Row
    <3>2. jobs' = [jobs EXCEPT ![t] = new]
      BY <1>0, <1>5, <2>1 DEF Begin, JobState
    <3> HIDE DEF new
    <3> QED
      BY <1>1, <1>3, <3>1, <3>2 DEF Row
  <2>2. CASE ~Exists(jobs[t].session)
    BY <1>1, <1>4, <1>5, <2>2 DEF Begin
  <2> QED
    BY <2>1, <2>2
<1>6. CASE Mark(t)
  <2> DEFINE new == [jobs[t] EXCEPT !.pc = "collect", !.seen.status = "processing"]
  <2>1. /\ new \in JobState /\ new.pc = "collect" /\ new.session = jobs[t].session
        /\ new.run = jobs[t].run /\ new.seen.insight = jobs[t].seen.insight
        /\ new.deleted = jobs[t].deleted
    BY <1>0 DEF JobState, Report
  <2>2. jobs' = [jobs EXCEPT ![t] = new]
    BY <1>0, <1>6 DEF Mark, JobState, Report
  <2> HIDE DEF new
  <2> QED
    BY <1>1, <1>3, <2>1, <2>2
<1>7. CASE Collect(t)
  <2> DEFINE new == [jobs[t] EXCEPT !.pc = "ask", !.asked = answered[jobs[t].session]]
  <2>1. /\ new \in JobState /\ new.pc = "ask" /\ new.session = jobs[t].session
        /\ new.run = jobs[t].run /\ new.seen = jobs[t].seen /\ new.deleted = jobs[t].deleted
    BY <1>0, <1>1 DEF JobState
  <2>2. jobs' = [jobs EXCEPT ![t] = new]
    BY <1>0, <1>7 DEF Collect, JobState
  <2> HIDE DEF new
  <2> QED
    BY <1>1, <1>3, <2>1, <2>2
<1>8. CASE GenerationFails(t)
  <2> DEFINE new == [jobs[t] EXCEPT !.pc = "fail"]
  <2>1. /\ new \in JobState /\ new.pc = "fail" /\ new.session = jobs[t].session
        /\ new.run = jobs[t].run /\ new.seen = jobs[t].seen /\ new.deleted = jobs[t].deleted
    BY <1>0 DEF JobState
  <2>2. jobs' = [jobs EXCEPT ![t] = new]
    BY <1>0, <1>8 DEF GenerationFails, JobState
  <2> HIDE DEF new
  <2> QED
    BY <1>1, <1>3, <2>1, <2>2
<1>9. CASE DeleteStarts(t)
  <2>0. PICK d \in SUBSET Strategies :
            jobs' = [jobs EXCEPT ![t].pc = "delete", ![t].draft = d,
                                 ![t].deleted = scores[jobs[t].session]]
    BY <1>0, <1>9 DEF DeleteStarts, Drafts, JobState
  <2> DEFINE new == [jobs[t] EXCEPT !.pc = "delete", !.draft = d,
                                    !.deleted = scores[jobs[t].session]]
  <2>1. /\ new \in JobState /\ new.pc = "delete" /\ new.session = jobs[t].session
        /\ new.run = jobs[t].run /\ new.seen = jobs[t].seen
        /\ new.deleted = scores[jobs[t].session]
    BY <1>0, <1>2 DEF JobState
  <2>2. jobs' = [jobs EXCEPT ![t] = new]
    BY <1>0, <2>0 DEF JobState
  <2> HIDE DEF new
  <2> QED
    BY <1>1, <1>3, <2>1, <2>2
<1>10. CASE DeleteDone(t)
  <2> DEFINE saw  == jobs[t].deleted
             now  == scores[jobs[t].session]
             held == [k \in Strategies |-> IF saw[k] = now[k] THEN now[k] ELSE 0]
             new  == [jobs[t] EXCEPT !.pc = "commit", !.deleted = held]
  <2>0. held \in Scores
    BY <1>2, Numbers DEF Scores
  <2>1. /\ new \in JobState /\ new.pc = "commit" /\ new.session = jobs[t].session
        /\ new.run = jobs[t].run /\ new.seen = jobs[t].seen /\ new.deleted = held
    BY <1>0, <2>0 DEF JobState
  <2>2. jobs' = [jobs EXCEPT ![t] = new]
    BY <1>0, <1>10 DEF DeleteDone, JobState
  <2>3. \A k \in Strategies : held[k] \in {0, saw[k], now[k]}
    OBVIOUS
  <2> HIDE DEF new, held
  <2> QED
    BY <1>1, <1>3, <2>1, <2>2, <2>3
<1>11. CASE MarkStale(t) \/ Fail(t) \/ Commit(t) \/ CommitFails(t)
  BY <1>1, <1>4, <1>11 DEF MarkStale, Fail, Commit, CommitFails, Raises
<1> QED
  BY <1>1, <1>5, <1>6, <1>7, <1>8, <1>9, <1>10, <1>11 DEF RunReport
(* A partial update of the rows of a session that exists, or of a row read *)
(* as processing before the session was deleted.                           *)
LEMMA RowSteps ==
    ASSUME TypeInv, NEW s \in Sessions,
           \A x \in Sessions \ {s} : report'[x] = report[x] /\ scores'[x] = scores[x],
           report' \in [Sessions -> Report], scores' \in [Sessions -> Scores],
           answered' = answered,
           \/ Exists(s) /\ report'[s].status # "absent"
           \/ report'[s] = report[s] /\ scores'[s] = scores[s]
    PROVE  \A x \in Sessions :
              /\ report'[x] = NoRow => scores'[x] = NoScores /\ answered'[x] = {}
              /\ ~Exists(x)' => report'[x] = NoRow
<1> SUFFICES ASSUME NEW x \in Sessions
             PROVE  /\ report'[x] = NoRow => scores'[x] = NoScores /\ answered'[x] = {}
                    /\ report'[x].status = "absent" => report'[x] = NoRow
  BY DEF Exists
<1>1. /\ report[x] = NoRow => scores[x] = NoScores /\ answered[x] = {}
      /\ report[x].status = "absent" => report[x] = NoRow
  BY DEF TypeInv, TypeOK, Exists
<1>2. CASE report'[x] = report[x] /\ scores'[x] = scores[x]
  BY <1>1, <1>2
<1>3. CASE x = s /\ report'[s].status # "absent"
  BY <1>3, RowTypes
<1> QED
  BY <1>2, <1>3

LEMMA RunReportTypeInv ==
    ASSUME TypeInv, NEW t \in Threads, RunReport(t)
    PROVE  TypeInv'
<1>0. /\ jobs[t] \in JobState /\ jobs[t].pc # "idle" /\ jobs[t].session \in Sessions
      /\ jobs[t].run \in Runs
      /\ report \in [Sessions -> Report] /\ scores \in [Sessions -> Scores]
      /\ recovering \in Seq(Sessions)
      /\ jobs \in [Threads -> JobState]
  BY JobSteps DEF TypeInv, TypeOK
<1> DEFINE s == jobs[t].session
<1>1. jobs' \in [Threads -> JobState]
  BY JobSteps
<1>2. \A u \in Threads :
          jobs'[u].pc # "idle" => jobs'[u].session \in Sessions /\ jobs'[u].run \in Runs
  BY <1>0, JobSteps, RowTypes DEF Continues, TypeInv
<1>3. recovering' \in Seq(Sessions) /\ lost' \subseteq Sessions
  <2>1. \/ UNCHANGED <<recovering, lost>>
        \/ Raises(t)
    BY DEF RunReport, Begin, Mark, MarkStale, Collect, GenerationFails, Fail, DeleteStarts,
           DeleteDone, Commit, CommitFails
  <2>2. recovering \in Seq(Sessions) /\ <<>> \in Seq(Sessions) /\ lost \subseteq Sessions
    BY <1>0 DEF TypeInv, TypeOK
  <2>3. Range(recovering) \subseteq Sessions
    BY <2>2 DEF Range
  <2> QED
    BY <1>0, <2>1, <2>2, <2>3 DEF Raises
<1>4. UNCHANGED <<answered, accepted, crashes>>
  BY DEF RunReport, Begin, Mark, MarkStale, Collect, GenerationFails, Fail, DeleteStarts,
         DeleteDone, Commit, CommitFails, rows
<1>5. /\ report' \in [Sessions -> Report] /\ scores' \in [Sessions -> Scores]
      /\ \A x \in Sessions \ {s} : report'[x] = report[x] /\ scores'[x] = scores[x]
      /\ \/ Exists(s) /\ report'[s].status # "absent"
         \/ report'[s] = report[s] /\ scores'[s] = scores[s]
  <2>1. CASE Begin(t) \/ MarkStale(t) \/ Collect(t) \/ GenerationFails(t) \/ DeleteStarts(t)
             \/ DeleteDone(t) \/ CommitFails(t)
    BY <1>0, <2>1 DEF Begin, MarkStale, Collect, GenerationFails, DeleteStarts, DeleteDone,
                      CommitFails, rows
  <2>2. CASE Mark(t)
    <3> DEFINE new == Write(jobs[t].seen.status, "processing", report[s].status)
    <3>1. new \in {report[s].status, "processing"}
      BY DEF Write
    <3>2. new = "processing" \/ Exists(s) => Exists(s) \/ jobs[t].seen.status = "processing"
      BY <2>2 DEF Mark
    <3>3. report' = [report EXCEPT ![s].status = new] /\ scores' = scores
      BY <2>2 DEF Mark
    <3>4. ~Exists(s) => new = report[s].status
      BY <2>2 DEF Mark, Write
    <3> HIDE DEF new
    <3>5. report' \in [Sessions -> Report]
      BY <1>0, <3>1, <3>3 DEF Report
    <3>6. \A x \in Sessions \ {s} : report'[x] = report[x] /\ scores'[x] = scores[x]
      BY <1>0, <3>3
    <3>7. report'[s].status = new /\ report'[s].insight = report[s].insight
      BY <1>0, <3>3 DEF Report
    <3>8. CASE Exists(s)
      BY <1>0, <3>1, <3>3, <3>5, <3>6, <3>7, <3>8 DEF Exists
    <3>9. CASE ~Exists(s)
      <4>1. report'[s] = report[s]
        BY <1>0, <3>4, <3>5, <3>7, <3>9 DEF Report
      <4> QED
        BY <1>0, <3>3, <3>5, <3>6, <4>1
    <3> QED
      BY <3>8, <3>9
  <2>3. CASE Fail(t)
    BY <1>0, <2>3 DEF Fail, Report
  <2>4. CASE Commit(t)
    <3> DEFINE insight == Write(jobs[t].seen.insight, Insight(t), report[s].insight)
               stored  == [k \in Strategies |-> IF k \in jobs[t].draft THEN jobs[t].run
                                       ELSE IF jobs[t].deleted[k] # 0 THEN 0 ELSE scores[s][k]]
    <3>1. insight \in Insights
      BY <1>0, Numbers DEF Write, Insight, Report
    <3>2. stored \in Scores
      BY <1>0, Numbers DEF Scores
    <3>3. /\ scores' = [scores EXCEPT ![s] = stored]
          /\ report' = [report EXCEPT ![s].status = "ready", ![s].insight = insight]
          /\ Exists(s)
      BY <2>4 DEF Commit
    <3> HIDE DEF insight, stored
    <3>4. scores' \in [Sessions -> Scores]
      BY <1>0, <3>2, <3>3
    <3>5. report' \in [Sessions -> Report] /\ report'[s].status = "ready"
      BY <1>0, <3>1, <3>3 DEF Report
    <3> QED
      BY <1>0, <3>3, <3>4, <3>5
  <2> QED
    BY <2>1, <2>2, <2>3, <2>4 DEF RunReport
<1> HIDE DEF s
<1>6. \A x \in Sessions :
          /\ report'[x] = NoRow => scores'[x] = NoScores /\ answered'[x] = {}
          /\ ~Exists(x)' => report'[x] = NoRow
  BY <1>0, <1>4, <1>5, RowSteps DEF s
<1> QED
  BY <1>1, <1>2, <1>3, <1>4, <1>5, <1>6 DEF TypeInv, TypeOK
-----------------------------------------------------------------------------
(* The requests, the recovery and the restart.                             *)

(* POST /report/generate on the task j.                                    *)
LEMMA CheckSteps ==
    ASSUME TypeInv, NEW s \in Sessions, NEW j \in Jobs, RegenerateCheck(s, j)
    PROVE  /\ jobs' \in [Threads -> JobState]
           /\ \A u \in Threads : u # j => jobs'[u] = jobs[u]
           /\ jobs[j] = Idle /\ jobs'[j].pc = "accept" /\ jobs'[j].session = s
           /\ jobs'[j].run = 2 + accepted /\ 2 + accepted \in Runs
           /\ jobs'[j].seen = report[s] /\ jobs'[j].deleted = NoScores
           /\ UNCHANGED <<rows, recovering, lost, crashes>>
           /\ accepted' = accepted + 1 /\ accepted' \in 0 .. Regenerations
<1>0. /\ jobs \in [Threads -> JobState] /\ report[s] \in Report /\ j \in Threads
      /\ accepted \in Nat
  BY DEF TypeInv, TypeOK, Threads
<1> DEFINE n   == 1 + accepted'
           new == [NewJob(s, n) EXCEPT !.pc = "accept", !.seen = report[s]]
<1>1. /\ accepted' = accepted + 1 /\ accepted' \in 0 .. Regenerations
      /\ n \in Runs /\ n = 2 + accepted
  BY <1>0, ReportsAssumption DEF RegenerateCheck, Runs, TypeInv, TypeOK
<1>2. /\ new \in JobState /\ new.pc = "accept" /\ new.session = s /\ new.run = n
      /\ new.seen = report[s] /\ new.deleted = NoScores
  <2> HIDE DEF n
  <2> DEFINE job == NewJob(s, n)
  <2>1. /\ job \in JobState /\ job.session = s /\ job.run = n /\ job.deleted = NoScores
    BY <1>1, NewJobIs
  <2> HIDE DEF job
  <2>2. LET x == [job EXCEPT !.pc = "accept", !.seen = report[s]]
        IN  /\ x \in JobState /\ x.pc = "accept" /\ x.session = s /\ x.run = n
            /\ x.seen = report[s] /\ x.deleted = NoScores
    BY <1>0, <2>1 DEF JobState
  <2> QED
    BY <2>2 DEF job
<1>3. /\ jobs' = [jobs EXCEPT ![j] = new] /\ jobs[j] = Idle
      /\ UNCHANGED <<rows, recovering, lost, crashes>>
  BY DEF RegenerateCheck
<1> HIDE DEF new
<1>4. jobs'[j] = new /\ jobs' \in [Threads -> JobState]
  BY <1>0, <1>2, <1>3
<1> QED
  BY <1>0, <1>1, <1>2, <1>3, <1>4

(* Its commit, and what follows when the report is gone.                   *)
LEMMA StoreSteps ==
    ASSUME TypeInv, NEW j \in Jobs, RegenerateStore(j) \/ RegenerateGone(j)
    PROVE  /\ jobs' \in [Threads -> JobState] /\ j \in Threads
           /\ \A u \in Threads : u # j => jobs'[u] = jobs[u]
           /\ jobs[j].pc = "accept" /\ jobs[j].session \in Sessions
           /\ jobs'[j] = Idle \/ jobs'[j] = NewJob(jobs[j].session, jobs[j].run)
           /\ jobs[j].run \in Runs /\ Continues(j)
<1>0. /\ jobs \in [Threads -> JobState] /\ j \in Threads
      /\ jobs[j].pc = "accept"
      /\ jobs[j].session \in Sessions /\ jobs[j].run \in Runs
  BY DEF TypeInv, TypeOK, Threads, RegenerateStore, RegenerateGone
<1> DEFINE new == NewJob(jobs[j].session, jobs[j].run)
<1>1. /\ new \in JobState /\ new.pc = "waiting" /\ new.session = jobs[j].session
      /\ new.run = jobs[j].run /\ new.seen = NoRow /\ new.deleted = NoScores
  BY <1>0, NewJobIs
<1>2. jobs' = [jobs EXCEPT ![j] = new] \/ jobs' = [jobs EXCEPT ![j] = Idle]
  BY <1>0 DEF RegenerateStore, RegenerateGone
<1> HIDE DEF new
<1>3. jobs'[j] = new \/ jobs'[j] = Idle
  BY <1>0, <1>2
<1>4. jobs' \in [Threads -> JobState] /\ \A u \in Threads : u # j => jobs'[u] = jobs[u]
  BY <1>0, <1>1, <1>2, RowTypes
<1>5. Continues(j)
  BY <1>0, <1>1, <1>3, RowTypes DEF Continues
<1> QED
  BY <1>0, <1>3, <1>4, <1>5 DEF new

LEMMA RequestTypeInv ==
    ASSUME TypeInv, NEW s \in Sessions, NEW j \in Jobs,
           RegenerateCheck(s, j) \/ RegenerateStore(j) \/ RegenerateGone(j)
    PROVE  TypeInv'
<1>0. /\ report \in [Sessions -> Report] /\ scores \in [Sessions -> Scores]
      /\ jobs \in [Threads -> JobState]
  BY DEF TypeInv, TypeOK
<1>1. CASE RegenerateCheck(s, j)
  BY <1>1, CheckSteps DEF rows, TypeInv, TypeOK, Exists
<1>2. CASE RegenerateStore(j) \/ RegenerateGone(j)
  <2>0. /\ UNCHANGED <<scores, answered, recovering, accepted, crashes>>
        /\ lost' \subseteq Sessions
    BY <1>2 DEF RegenerateStore, RegenerateGone, rows, TypeInv, TypeOK
  <2>1. \A u \in Threads :
            jobs'[u].pc # "idle" => jobs'[u].session \in Sessions /\ jobs'[u].run \in Runs
    BY <1>2, StoreSteps, NewJobIs, RowTypes DEF TypeInv
  <2> DEFINE x == jobs[j].session
  <2>2. x \in Sessions
    BY <1>2, StoreSteps
  <2>3. /\ report' \in [Sessions -> Report]
        /\ \A y \in Sessions \ {x} : report'[y] = report[y]
        /\ \/ Exists(x) /\ report'[x].status # "absent"
           \/ report'[x] = report[x]
    <3>1. CASE RegenerateStore(j)
      <4> DEFINE new == Write(jobs[j].seen.status, "queued", report[x].status)
      <4>1. new \in {"queued", report[x].status}
        BY DEF Write
      <4>2. report' = [report EXCEPT ![x].status = new] /\ Exists(x)
        BY <3>1 DEF RegenerateStore
      <4> HIDE DEF new
      <4> QED
        BY <1>0, <2>2, <4>1, <4>2 DEF Report, Exists
    <3>2. CASE RegenerateGone(j)
      BY <1>0, <3>2 DEF RegenerateGone, rows
    <3> QED
      BY <1>2, <3>1, <3>2
  <2> HIDE DEF x
  <2>4. \A y \in Sessions :
            /\ report'[y] = NoRow => scores'[y] = NoScores /\ answered'[y] = {}
            /\ ~Exists(y)' => report'[y] = NoRow
    BY <1>0, <2>0, <2>2, <2>3, RowSteps
  <2> QED
    BY <1>2, <2>0, <2>1, <2>3, <2>4, StoreSteps DEF TypeInv, TypeOK
<1> QED
  BY <1>1, <1>2

(* A late transcription, and the deletion of the session.                  *)
LEMMA OthersTypeInv ==
    ASSUME TypeInv, NEW s \in Sessions,
           DeleteSession(s) \/ \E k \in Strategies : AnswerReady(s, k)
    PROVE  TypeInv'
<1>0. /\ report \in [Sessions -> Report] /\ scores \in [Sessions -> Scores]
      /\ answered \in [Sessions -> SUBSET Strategies]
  BY DEF TypeInv, TypeOK
<1>1. CASE DeleteSession(s)
  <2>1. /\ report' \in [Sessions -> Report] /\ scores' \in [Sessions -> Scores]
        /\ answered' \in [Sessions -> SUBSET Strategies]
        /\ report'[s] = NoRow /\ scores'[s] = NoScores /\ answered'[s] = {}
        /\ \A x \in Sessions \ {s} : /\ report'[x] = report[x] /\ scores'[x] = scores[x]
                                     /\ answered'[x] = answered[x]
    BY <1>0, <1>1, RowTypes DEF DeleteSession
  <2>2. UNCHANGED <<jobs, recovering, lost, accepted, crashes>>
    BY <1>1 DEF DeleteSession
  <2> QED
    BY <2>1, <2>2 DEF TypeInv, TypeOK, Exists
<1>2. ASSUME NEW k \in Strategies, AnswerReady(s, k) PROVE TypeInv'
  <2>1. /\ answered' \in [Sessions -> SUBSET Strategies]
        /\ \A x \in Sessions \ {s} : answered'[x] = answered[x]
        /\ report[s] # NoRow
    BY <1>0, <1>2, RowTypes DEF AnswerReady, Exists
  <2>2. UNCHANGED <<report, scores, jobs, recovering, lost, accepted, crashes>>
    BY <1>2 DEF AnswerReady
  <2> QED
    BY <2>1, <2>2 DEF TypeInv, TypeOK, Exists
<1> QED
  BY <1>1, <1>2

(* What recover() has to do: every unfinished report, each once.           *)
LEMMA RecoveryOrder ==
    ASSUME TypeInv, Restart
    PROVE  /\ recovering' \in Seq(Sessions)
           /\ \A i, j \in DOMAIN recovering' : recovering'[i] = recovering'[j] => i = j
<1>1. Unfinished \subseteq Sessions /\ recovering' \in Orderings(Unfinished)
  BY DEF Restart, Unfinished
<1> DEFINE n == Cardinality(Unfinished)
<1>2. IsFiniteSet(Unfinished) /\ n \in Nat
  BY <1>1, ReportsAssumption, FS_Subset, FS_CardinalityType
<1>3. recovering' \in [1 .. n -> Unfinished]
      /\ \A x \in Unfinished : \E i \in DOMAIN recovering' : recovering'[i] = x
  BY <1>1 DEF Orderings
<1>4. IsFiniteSet(1 .. n) /\ Cardinality(1 .. n) = n
  <2>1. 1 \in Int /\ n \in Int
    BY <1>2
  <2>2. IsFiniteSet(1 .. n) /\ Cardinality(1 .. n) = IF 1 > n THEN 0 ELSE n - 1 + 1
    BY <2>1, FS_Interval
  <2> QED
    BY <1>2, <2>2
<1>5. recovering' \in Surjection(1 .. n, Unfinished)
  BY <1>3 DEF Surjection, Range
<1>6. recovering' \in Injection(1 .. n, Unfinished)
  BY <1>4, <1>5, FS_SurjSameCardinalityImpliesInj
<1>7. \A i, j \in 1 .. n : recovering'[i] = recovering'[j] => i = j
  BY <1>6 DEF Injection, IsInjective
<1>8. recovering' \in Seq(Sessions)
  BY <1>1, <1>2, <1>3
<1> QED
  BY <1>3, <1>7, <1>8

(* The recovery thread takes the next one.                                 *)
LEMMA TakeSteps ==
    ASSUME TypeInv, RecoveryTakes
    PROVE  LET s == recovering[1]
               n == 1 + Regenerations + crashes
           IN  /\ jobs' \in [Threads -> JobState] /\ "recovery" \in Threads
               /\ recovering # <<>> /\ s \in Sessions /\ n \in Runs
               /\ \A u \in Threads : u # "recovery" => jobs'[u] = jobs[u]
               /\ jobs["recovery"] = Idle /\ jobs'["recovery"] = NewJob(s, n)
               /\ recovering' \in Seq(Sessions) /\ Len(recovering') = Len(recovering) - 1
               /\ \A i \in 1 .. Len(recovering') : recovering'[i] = recovering[i + 1]
               /\ UNCHANGED <<rows, lost, accepted, crashes>>
<1>0. /\ jobs \in [Threads -> JobState] /\ "recovery" \in Threads
      /\ recovering \in Seq(Sessions) /\ recovering # <<>>
      /\ UNCHANGED <<rows, lost, accepted, crashes>> /\ jobs["recovery"] = Idle
  BY DEF TypeInv, TypeOK, Threads, RecoveryTakes
<1> DEFINE s == recovering[1]
           n == 1 + Regenerations + crashes
<1>1. s \in Sessions /\ Head(recovering) = s /\ n \in Runs
  BY <1>0, ReportsAssumption DEF Runs, TypeInv, TypeOK
<1>2. /\ recovering' = Tail(recovering) /\ recovering' \in Seq(Sessions)
      /\ Len(recovering') = Len(recovering) - 1
      /\ \A i \in 1 .. Len(recovering') : recovering'[i] = recovering[i + 1]
  BY <1>0 DEF RecoveryTakes
<1>3. jobs' = [jobs EXCEPT !["recovery"] = NewJob(s, n)]
  BY <1>1 DEF RecoveryTakes
<1>4. NewJob(s, n) \in JobState
  BY <1>1, NewJobIs
<1> HIDE DEF n
<1> QED
  BY <1>0, <1>1, <1>2, <1>3, <1>4 DEF n

LEMMA RecoveryTypeInv == ASSUME TypeInv, Restart \/ RecoveryTakes PROVE TypeInv'
<1>1. CASE Restart
  <2>1. /\ jobs' \in [Threads -> JobState] /\ \A t \in Threads : jobs'[t].pc = "idle"
        /\ crashes' \in 0 .. MaxCrashes /\ lost' = {} /\ UNCHANGED <<rows, accepted>>
    BY <1>1, RowTypes, ReportsAssumption DEF Restart, TypeInv, TypeOK
  <2> QED
    BY <1>1, <2>1, RecoveryOrder DEF TypeInv, TypeOK, rows, Exists
<1>2. CASE RecoveryTakes
  <2>1. \A u \in Threads :
            jobs'[u].pc # "idle" => jobs'[u].session \in Sessions /\ jobs'[u].run \in Runs
    BY <1>2, TakeSteps, NewJobIs DEF TypeInv
  <2> QED
    BY <1>2, <2>1, TakeSteps DEF TypeInv, TypeOK, rows, Exists
<1> QED
  BY <1>1, <1>2

LEMMA InitTypeInv == Init => TypeInv
<1> SUFFICES ASSUME Init PROVE TypeInv
  OBVIOUS
<1>1. PICK task \in Injection(Sessions, Jobs) :
          jobs = [t \in Threads |-> IF \E s \in Sessions : task[s] = t
                                   THEN NewJob(CHOOSE s \in Sessions : task[s] = t, 1)
                                   ELSE Idle]
  BY DEF Init
<1>2. ASSUME NEW t \in Threads
      PROVE  jobs[t] = Idle \/ \E s \in Sessions : jobs[t] = NewJob(s, 1)
  BY <1>1
<1>3. /\ jobs \in [Threads -> JobState]
      /\ \A t \in Threads : jobs[t].pc # "idle" => jobs[t].session \in Sessions /\ jobs[t].run \in Runs
  BY <1>1, <1>2, NewJobIs, RowTypes, Numbers
<1>4. /\ report \in [Sessions -> Report] /\ \A s \in Sessions : report[s].status = "queued"
  BY Numbers DEF Init, Report
<1>5. /\ recovering \in Seq(Sessions) /\ lost = {} /\ accepted \in 0 .. Regenerations
      /\ crashes \in 0 .. MaxCrashes
      /\ scores \in [Sessions -> Scores] /\ answered \in [Sessions -> SUBSET Strategies]
  BY RowTypes, ReportsAssumption DEF Init
<1> QED
  BY <1>3, <1>4, <1>5, RowTypes DEF TypeInv, TypeOK, Exists

LEMMA StepTypeInv == TypeInv /\ [Next]_vars => TypeInv'
<1> SUFFICES ASSUME TypeInv, [Next]_vars PROVE TypeInv'
  OBVIOUS
<1>1. CASE UNCHANGED vars
  BY <1>1 DEF vars, rows, TypeInv, TypeOK, Exists
<1>2. ASSUME NEW j \in Jobs, RegenerateStore(j) \/ RegenerateGone(j) PROVE TypeInv'
  <2>1. jobs[j].session \in Sessions
    BY <1>2, StoreSteps
  <2> QED
    BY <1>2, <2>1, RequestTypeInv
<1> QED
  BY <1>1, <1>2, RunReportTypeInv, RequestTypeInv, OthersTypeInv, RecoveryTypeInv DEF Next

(* The rows, the jobs and the queue of the recovery have their types, and  *)
(* a deleted session leaves neither scores nor answers behind, whatever    *)
(* jobs of it still run (run_report, ON DELETE CASCADE).                   *)
THEOREM TypeCorrect == Spec => []TypeOK
<1>1. TypeInv => TypeOK
  BY DEF TypeInv
<1> QED
  BY <1>1, InitTypeInv, StepTypeInv, PTL DEF Spec
-----------------------------------------------------------------------------
(* Runs: no result of a run is known before its job commits.               *)

(* A number in a row is cleared, or kept, or that of a job that is over.   *)
Comes(new, old, s) ==
    \/ new \in {0, NoAnswers, old}
    \/ \E t \in Running(s) : jobs'[t].pc = "idle" /\ new = jobs[t].run

(* Every step but an acceptance, the recovery's and a restart.             *)
LEMMA RunsKept ==
    ASSUME TypeInv, TypeInv', RunInv, UNCHANGED <<accepted, crashes>>,
           recovering' = recovering \/ recovering' = <<>>,
           \A t \in Threads : Continues(t),
           \A s \in Sessions :
               /\ Comes(report'[s].insight, report[s].insight, s)
               /\ \A k \in Strategies : Comes(scores'[s][k], scores[s][k], s)
    PROVE  RunInv'
<1>0. /\ jobs \in [Threads -> JobState] /\ jobs' \in [Threads -> JobState]
      /\ report \in [Sessions -> Report] /\ scores \in [Sessions -> Scores]
      /\ recovering \in Seq(Sessions)
      /\ \A t \in Threads :
            jobs[t].pc # "idle" => jobs[t].session \in Sessions /\ jobs[t].run \in Runs
  BY DEF TypeInv, TypeOK
<1>1. ASSUME NEW n PROVE Given(n)' <=> Given(n)
  BY DEF Given
<1>2. Given(0) /\ Given(NoAnswers)
  BY DEF Given, TypeInv, TypeOK
<1>3. ASSUME NEW s \in Sessions
      PROVE  /\ Running(s)' \subseteq Running(s)
             /\ \A t \in Running(s)' : jobs'[t].run = jobs[t].run
  BY <1>0, RowTypes DEF Running, Continues
<1>4. ASSUME NEW s \in Sessions, NEW n \in Runs, Unwritten(n, s),
             \A t \in Running(s) : jobs'[t].pc = "idle" => jobs[t].run # n
      PROVE  Unwritten(n, s)'
  <2>1. n # 0 /\ n # NoAnswers
    BY Numbers
  <2>2. report'[s].insight # n /\ \A k \in Strategies : scores'[s][k] # n
    BY <1>4, <2>1 DEF Comes, Unwritten
  <2>3. ASSUME NEW t \in Threads, jobs'[t].session = s
        PROVE  jobs'[t].seen.insight # n /\ \A k \in Strategies : jobs'[t].deleted[k] # n
    <3>1. CASE jobs'[t] = Idle
      BY <2>1, <3>1, RowTypes
    <3>2. CASE jobs'[t] = jobs[t]
      BY <1>4, <2>3, <3>2 DEF Unwritten
    <3>3. CASE jobs'[t] \notin {jobs[t], Idle}
      BY <1>4, <2>1, <2>3, <3>3 DEF Unwritten, Continues
    <3> QED
      BY <3>1, <3>2, <3>3
  <2> QED
    BY <2>2, <2>3 DEF Unwritten
<1>5. AllGiven'
  <2>1. \A s \in Sessions : \A t \in Running(s) : Given(jobs[t].run)
    BY DEF RunInv, AllGiven, Running
  <2>2. ASSUME NEW s \in Sessions
        PROVE  Given(report'[s].insight) /\ \A k \in Strategies : Given(scores'[s][k])
    BY <1>2, <2>1 DEF RunInv, AllGiven, Comes
  <2>3. ASSUME NEW t \in Threads
        PROVE  /\ jobs'[t].pc # "idle" => Given(jobs'[t].run)
               /\ Given(jobs'[t].seen.insight)
               /\ \A k \in Strategies : Given(jobs'[t].deleted[k])
    <3>1. CASE jobs'[t] = Idle
      BY <1>2, <3>1, RowTypes
    <3>2. CASE jobs'[t] = jobs[t]
      BY <3>2 DEF RunInv, AllGiven
    <3>3. CASE jobs'[t] \notin {jobs[t], Idle}
      BY <1>0, <1>2, <3>3 DEF RunInv, AllGiven, Continues
    <3> QED
      BY <3>1, <3>2, <3>3
  <2> QED
    BY <1>1, <2>2, <2>3 DEF AllGiven
<1>6. OwnRuns'
  <2>1. ASSUME NEW s \in Sessions, NEW t \in Running(s)'
        PROVE  Unwritten(jobs[t].run, s)'
    <3>1. /\ t \in Running(s) /\ jobs'[t].run = jobs[t].run
          /\ jobs'[t].pc # "idle" /\ t \in Threads
      BY <1>3, <2>1 DEF Running
    <3>2. PICK n \in Runs : n = jobs[t].run
      BY <1>0, <3>1 DEF Running
    <3>3. Unwritten(n, s)
      BY <3>1, <3>2 DEF RunInv, OwnRuns
    <3>4. \A u \in Running(s) : jobs'[u].pc = "idle" => jobs[u].run # n
      BY <3>1, <3>2 DEF RunInv, OwnRuns
    <3>5. Unwritten(n, s)'
      BY <1>4, <3>3, <3>4
    <3> QED
      BY <3>1, <3>2, <3>5 DEF Unwritten
  <2>2. \A s \in Sessions : \A t, u \in Running(s)' : jobs'[t].run = jobs'[u].run => t = u
    BY <1>3 DEF RunInv, OwnRuns
  <2> QED
    BY <2>1, <2>2 DEF OwnRuns
<1>7. RecoveryRuns'
  <2>1. CASE recovering' = recovering
    <3> SUFFICES ASSUME NEW i \in DOMAIN recovering
                 PROVE  /\ crashes > 0
                        /\ Unwritten(RecoveryRun, recovering[i])'
                        /\ \A t \in Running(recovering[i])' : jobs'[t].run # RecoveryRun
                        /\ \A j \in DOMAIN recovering : recovering[i] = recovering[j] => i = j
      BY <2>1 DEF RecoveryRuns, RecoveryRun
    <3>1. PICK s \in Sessions : s = recovering[i]
      BY <1>0
    <3>2. PICK n \in Runs : n = RecoveryRun
      BY ReportsAssumption DEF RecoveryRun, Runs, TypeInv, TypeOK
    <3>3. /\ crashes > 0 /\ Unwritten(n, s)
          /\ \A t \in Running(s) : jobs[t].run # n
          /\ \A j \in DOMAIN recovering : recovering[i] = recovering[j] => i = j
      BY <3>1, <3>2 DEF RunInv, RecoveryRuns
    <3>4. Unwritten(n, s)'
      BY <1>4, <3>3
    <3>5. \A t \in Running(s)' : jobs'[t].run # n
      BY <1>3, <3>3
    <3>6. recovering'[i] = s /\ RecoveryRun' = n
      BY <2>1, <3>1, <3>2 DEF RecoveryRun
    <3>7. Unwritten(RecoveryRun, recovering[i])'
      BY <3>4, <3>6 DEF Unwritten
    <3>8. Running(recovering[i])' = Running(s)'
      BY <3>6 DEF Running
    <3> QED
      BY <3>2, <3>3, <3>5, <3>7, <3>8
  <2>2. CASE recovering' = <<>>
    BY <2>2 DEF RecoveryRuns
  <2> QED
    BY <2>1, <2>2
<1> QED
  BY <1>5, <1>6, <1>7 DEF RunInv
(* What the steps of run_report write.                                     *)
LEMMA JobResults ==
    ASSUME TypeInv, NEW t \in Threads, RunReport(t), NEW s \in Sessions
    PROVE  /\ Comes(report'[s].insight, report[s].insight, s)
           /\ \A k \in Strategies : Comes(scores'[s][k], scores[s][k], s)
<1>0. /\ report \in [Sessions -> Report] /\ scores \in [Sessions -> Scores]
      /\ jobs \in [Threads -> JobState]
      /\ jobs[t].pc # "idle" /\ jobs[t].session \in Sessions
  BY JobSteps DEF TypeInv, TypeOK
<1>1. CASE Begin(t) \/ MarkStale(t) \/ Collect(t) \/ GenerationFails(t) \/ DeleteStarts(t)
           \/ DeleteDone(t) \/ CommitFails(t)
  BY <1>1 DEF Begin, MarkStale, Collect, GenerationFails, DeleteStarts, DeleteDone,
              CommitFails, rows, Comes
<1>2. CASE Mark(t) \/ Fail(t)
  <2>1. report'[s].insight = report[s].insight /\ scores' = scores
    BY <1>0, <1>2 DEF Mark, Fail, Report
  <2> QED
    BY <2>1 DEF Comes
<1>3. CASE Commit(t)
  <2> DEFINE x       == jobs[t].session
             insight == Write(jobs[t].seen.insight, Insight(t), report[x].insight)
             stored  == [k \in Strategies |-> IF k \in jobs[t].draft THEN jobs[t].run
                                     ELSE IF jobs[t].deleted[k] # 0 THEN 0 ELSE scores[x][k]]
  <2>1. insight \in {NoAnswers, jobs[t].run, report[x].insight}
    BY DEF Write, Insight
  <2>2. \A k \in Strategies : stored[k] \in {0, jobs[t].run, scores[x][k]}
    OBVIOUS
  <2>3. /\ scores' = [scores EXCEPT ![x] = stored]
        /\ report' = [report EXCEPT ![x].status = "ready", ![x].insight = insight]
        /\ Over(t)
    BY <1>3 DEF Commit
  <2> HIDE DEF insight, stored
  <2>4. jobs'[t].pc = "idle"
    BY <1>0, <2>3, RowTypes DEF Over
  <2>5. CASE s = x
    <3>1. report'[s].insight = insight /\ scores'[s] = stored
      BY <1>0, <2>3, <2>5 DEF Report
    <3>2. t \in Running(s)
      BY <1>0, <2>5 DEF Running
    <3> QED
      BY <2>1, <2>2, <2>4, <2>5, <3>1, <3>2 DEF Comes
  <2>6. CASE s # x
    <3>1. report'[s] = report[s] /\ scores'[s] = scores[s]
      BY <1>0, <2>3, <2>6
    <3> QED
      BY <3>1 DEF Comes
  <2> QED
    BY <2>5, <2>6
<1> QED
  BY <1>1, <1>2, <1>3 DEF RunReport

LEMMA RunReportRuns ==
    ASSUME TypeInv, TypeInv', RunInv, NEW t \in Threads, RunReport(t)
    PROVE  RunInv'
<1>1. \A u \in Threads : Continues(u)
  BY JobSteps DEF Continues
<1>2. /\ UNCHANGED <<accepted, crashes>>
      /\ recovering' = recovering \/ recovering' = <<>>
  BY DEF RunReport, Begin, Mark, MarkStale, Collect, GenerationFails, Fail, DeleteStarts,
         DeleteDone, Commit, CommitFails, Raises
<1> QED
  BY <1>1, <1>2, JobResults, RunsKept

(* The numbers in the rows and on the threads are natural numbers.         *)
LEMMA NumberTypes ==
    ASSUME TypeInv
    PROVE  /\ \A s \in Sessions : /\ report[s].insight \in Nat
                                  /\ \A k \in Strategies : scores[s][k] \in Nat
           /\ \A t \in Threads : /\ jobs[t].run \in Nat /\ jobs[t].seen.insight \in Nat
                                 /\ \A k \in Strategies : jobs[t].deleted[k] \in Nat
<1>1. \A x : (x \in Insights => x \in Nat) /\ (x \in Runs \cup {0} => x \in Nat)
  BY Numbers
<1>2. ASSUME NEW x \in Scores, NEW k \in Strategies PROVE x[k] \in Nat
  BY <1>1 DEF Scores
<1>3. ASSUME NEW x \in Report PROVE x.insight \in Nat
  BY <1>1 DEF Report
<1>4. ASSUME NEW s \in Sessions PROVE report[s] \in Report /\ scores[s] \in Scores
  BY DEF TypeInv, TypeOK
<1>5. ASSUME NEW t \in Threads
      PROVE  jobs[t].run \in Nat /\ jobs[t].seen \in Report /\ jobs[t].deleted \in Scores
  <2>1. jobs[t] \in JobState
    BY DEF TypeInv, TypeOK
  <2> QED
    BY <1>1, <2>1 DEF JobState
<1> QED
  BY <1>2, <1>3, <1>4, <1>5

(* A number that was not given before is in no row and on no thread.       *)
LEMMA NotGiven ==
    ASSUME TypeInv, AllGiven, NEW n \in Nat, ~Given(n)
    PROVE  \A s \in Sessions : Unwritten(n, s) /\ \A t \in Running(s) : jobs[t].run # n
  BY DEF AllGiven, Unwritten, Running

(* An accepted regeneration has a run of its own.                          *)
LEMMA CheckRuns ==
    ASSUME TypeInv, TypeInv', RunInv, NEW s \in Sessions, NEW j \in Jobs, RegenerateCheck(s, j)
    PROVE  RunInv'
<1>0. /\ jobs \in [Threads -> JobState] /\ report \in [Sessions -> Report]
      /\ recovering \in Seq(Sessions) /\ j \in Threads
      /\ accepted \in Nat /\ crashes \in 0 .. MaxCrashes /\ MaxCrashes \in Nat
      /\ Regenerations \in Nat /\ accepted + 1 <= Regenerations
  BY CheckSteps, ReportsAssumption DEF TypeInv, TypeOK, Threads
<1>1. /\ \A u \in Threads : u # j => jobs'[u] = jobs[u]
      /\ jobs[j] = Idle /\ jobs'[j].pc = "accept" /\ jobs'[j].session = s
      /\ jobs'[j].run = 2 + accepted
      /\ jobs'[j].seen = report[s] /\ jobs'[j].deleted = NoScores
      /\ UNCHANGED <<report, scores, recovering, crashes>> /\ accepted' = accepted + 1
  BY CheckSteps DEF rows
<1>2. ~Given(2 + accepted) /\ 2 + accepted \in Nat /\ 2 + accepted # 0
  BY <1>0 DEF Given, NoAnswers
<1>3. \A n \in Nat : Given(n) => Given(n)'
  BY <1>0, <1>1 DEF Given
<1>4. ASSUME NEW x \in Sessions, NEW n, Unwritten(n, x), n # 0
      PROVE  Unwritten(n, x)'
  BY <1>1, <1>4, RowTypes DEF Unwritten
<1>5. ASSUME NEW x \in Sessions
      PROVE  Running(x)' = Running(x) \cup (IF x = s THEN {j} ELSE {})
  BY <1>0, <1>1, RowTypes DEF Running
<1>6. AllGiven'
  <2>1. PICK n \in Nat : n = 2 + accepted
    BY <1>0
  <2>2. Given(0)' /\ Given(n)'
    BY <1>0, <1>1, <2>1 DEF Given
  <2>3. \A x \in Sessions :
            Given(report[x].insight)' /\ \A k \in Strategies : Given(scores[x][k])'
    <3>1. ASSUME NEW x \in Sessions, NEW k \in Strategies, NEW y \in Nat, y = scores[x][k]
          PROVE  Given(y)'
      BY <1>3, <3>1 DEF RunInv, AllGiven
    <3>2. ASSUME NEW x \in Sessions, NEW y \in Nat, y = report[x].insight PROVE Given(y)'
      BY <1>3, <3>2 DEF RunInv, AllGiven
    <3> QED
      BY <1>1, <3>1, <3>2, NumberTypes DEF Given
  <2>4. ASSUME NEW t \in Threads
        PROVE  /\ jobs'[t].pc # "idle" => Given(jobs[t].run)'
               /\ Given(jobs[t].seen.insight)'
               /\ \A k \in Strategies : Given(jobs[t].deleted[k])'
    <3>1. CASE t = j
      BY <1>1, <2>1, <2>2, <2>3, <3>1, RowTypes DEF Given
    <3>2. CASE t # j
      <4>1. jobs'[t] = jobs[t]
        BY <1>1, <3>2
      <4>2. ASSUME NEW y \in Nat, Given(y) PROVE Given(y)'
        BY <1>3, <4>2
      <4> QED
        BY <4>1, <4>2, NumberTypes DEF RunInv, AllGiven, Given
    <3> QED
      BY <3>1, <3>2
  <2> QED
    BY <2>3, <2>4 DEF AllGiven
<1>7. OwnRuns'
  <2>1. ASSUME NEW x \in Sessions, NEW t \in Running(x)'
        PROVE  Unwritten(jobs[t].run, x)'
    <3>1. PICK n \in Nat : n = jobs'[t].run
      BY <2>1, Numbers DEF Running, TypeInv
    <3>2. Unwritten(n, x) /\ n # 0
      BY <1>1, <1>2, <1>5, <2>1, <3>1, NotGiven, Numbers DEF RunInv, OwnRuns, Running, TypeInv
    <3>3. Unwritten(n, x)'
      BY <1>4, <3>2
    <3> QED
      BY <3>1, <3>3 DEF Unwritten
  <2>2. ASSUME NEW x \in Sessions, NEW t \in Running(x)', NEW u \in Running(x)',
               jobs'[t].run = jobs'[u].run
        PROVE  t = u
    <3>1. \A y \in Running(x) : jobs[y].run # 2 + accepted /\ jobs'[y] = jobs[y]
      BY <1>1, <1>2, NotGiven, RowTypes DEF RunInv, Running
    <3> QED
      BY <1>1, <1>5, <2>2, <3>1 DEF RunInv, OwnRuns
  <2> QED
    BY <2>1, <2>2 DEF OwnRuns
<1>8. RecoveryRuns'
  <2> SUFFICES ASSUME NEW i \in DOMAIN recovering
               PROVE  /\ crashes > 0
                      /\ Unwritten(RecoveryRun, recovering[i])'
                      /\ \A t \in Running(recovering[i])' : jobs'[t].run # RecoveryRun
                      /\ \A y \in DOMAIN recovering : recovering[i] = recovering[y] => i = y
    BY <1>1 DEF RecoveryRuns, RecoveryRun
  <2>1. PICK x \in Sessions : x = recovering[i]
    BY <1>0
  <2>2. PICK n \in Nat : n = RecoveryRun
    BY <1>0 DEF RecoveryRun
  <2>3. /\ crashes > 0 /\ Unwritten(n, x)
        /\ \A t \in Running(x) : jobs[t].run # n
        /\ \A y \in DOMAIN recovering : recovering[i] = recovering[y] => i = y
    BY <2>1, <2>2 DEF RunInv, RecoveryRuns
  <2>4. n # 0 /\ n # 2 + accepted
    BY <1>0, <2>2, <2>3 DEF RecoveryRun
  <2>5. Unwritten(n, x)'
    BY <1>4, <2>3, <2>4
  <2>6. \A t \in Running(x)' : jobs'[t].run # n
    BY <1>1, <1>5, <2>3, <2>4, RowTypes DEF Running
  <2>7. recovering'[i] = x /\ RecoveryRun' = n
    BY <1>1, <2>1, <2>2 DEF RecoveryRun
  <2>8. Unwritten(RecoveryRun, recovering[i])'
    BY <2>5, <2>7 DEF Unwritten
  <2>9. Running(recovering[i])' = Running(x)'
    BY <2>7 DEF Running
  <2> QED
    BY <2>2, <2>3, <2>6, <2>8, <2>9
<1> QED
  BY <1>6, <1>7, <1>8 DEF RunInv

(* So has the recovery of a session.                                       *)
LEMMA TakeRuns ==
    ASSUME TypeInv, TypeInv', RunInv, RecoveryTakes
    PROVE  RunInv'
<1> DEFINE s == recovering[1]
           j == "recovery"
<1>0. /\ jobs \in [Threads -> JobState] /\ recovering \in Seq(Sessions) /\ recovering # <<>>
      /\ j \in Threads /\ s \in Sessions /\ RecoveryRun \in Runs
      /\ recovering' \in Seq(Sessions)
  BY TakeSteps DEF TypeInv, TypeOK, RecoveryRun
<1>a. PICK n \in Runs : n = RecoveryRun
  BY <1>0
<1>1. /\ \A u \in Threads : u # j => jobs'[u] = jobs[u]
      /\ jobs[j] = Idle /\ jobs'[j].pc = "waiting" /\ jobs'[j].session = s
      /\ jobs'[j].run = n /\ jobs'[j].seen = NoRow /\ jobs'[j].deleted = NoScores
      /\ UNCHANGED <<report, scores, accepted, crashes>>
      /\ Len(recovering') = Len(recovering) - 1
      /\ \A i \in 1 .. Len(recovering') : recovering'[i] = recovering[i + 1]
  BY <1>0, <1>a, TakeSteps, NewJobIs DEF rows, RecoveryRun
<1>2. 1 \in DOMAIN recovering
  BY <1>0
<1>3. /\ crashes > 0 /\ Unwritten(n, s) /\ \A t \in Running(s) : jobs[t].run # n
  BY <1>a, <1>2 DEF RunInv, RecoveryRuns
<1> HIDE DEF s, j
<1>4. ASSUME NEW x \in Sessions, NEW m, Unwritten(m, x), m # 0
      PROVE  Unwritten(m, x)'
  BY <1>1, <1>4, RowTypes DEF Unwritten
<1>5. ASSUME NEW x \in Sessions
      PROVE  Running(x)' = Running(x) \cup (IF x = s THEN {j} ELSE {})
  BY <1>0, <1>1, RowTypes DEF Running
<1>6. AllGiven'
  <2>1. \A m : Given(m)' <=> Given(m)
    BY <1>1 DEF Given
  <2>2. Given(0) /\ Given(n)
    BY <1>a, <1>3, ReportsAssumption DEF Given, RecoveryRun, TypeInv, TypeOK
  <2> QED
    BY <1>1, <2>1, <2>2, RowTypes DEF RunInv, AllGiven
<1>7. OwnRuns'
  <2>1. ASSUME NEW x \in Sessions, NEW t \in Running(x)'
        PROVE  Unwritten(jobs[t].run, x)'
    <3>1. PICK m \in Runs : m = jobs'[t].run
      BY <2>1 DEF Running, TypeInv
    <3>2. Unwritten(m, x) /\ m # 0
      BY <1>1, <1>3, <1>5, <2>1, <3>1, Numbers, RowTypes DEF RunInv, OwnRuns, Running
    <3>3. Unwritten(m, x)'
      BY <1>4, <3>2
    <3> QED
      BY <3>1, <3>3 DEF Unwritten
  <2>2. ASSUME NEW x \in Sessions, NEW t \in Running(x)', NEW u \in Running(x)',
               jobs'[t].run = jobs'[u].run
        PROVE  t = u
    <3>1. \A y \in Running(x) : jobs'[y] = jobs[y]
      BY <1>1, RowTypes DEF Running
    <3> QED
      BY <1>1, <1>3, <1>5, <2>2, <3>1 DEF RunInv, OwnRuns
  <2> QED
    BY <2>1, <2>2 DEF OwnRuns
<1>8. RecoveryRuns'
  <2> SUFFICES ASSUME NEW i \in 1 .. Len(recovering')
               PROVE  /\ crashes > 0
                      /\ Unwritten(RecoveryRun, recovering[i])'
                      /\ \A t \in Running(recovering[i])' : jobs'[t].run # RecoveryRun
                      /\ \A y \in 1 .. Len(recovering') : recovering'[i] = recovering'[y] => i = y
    BY <1>0, <1>1 DEF RecoveryRuns, RecoveryRun
  <2>1. \A y \in 1 .. Len(recovering') : y + 1 \in DOMAIN recovering
    BY <1>0, <1>1
  <2>2. PICK x \in Sessions : x = recovering[i + 1] /\ x = recovering'[i]
    BY <1>0, <1>1, <2>1
  <2>3. /\ Unwritten(n, x) /\ \A t \in Running(x) : jobs[t].run # n
        /\ x # s
        /\ \A y \in 1 .. Len(recovering') : recovering'[i] = recovering'[y] => i = y
    <3>1. \A y \in DOMAIN recovering : recovering[i + 1] = recovering[y] => i + 1 = y
      BY <2>1 DEF RunInv, RecoveryRuns
    <3>2. Unwritten(n, x) /\ \A t \in Running(x) : jobs[t].run # n
      BY <1>a, <2>1, <2>2 DEF RunInv, RecoveryRuns
    <3>3. x # s
      BY <1>2, <2>2, <3>1 DEF s
    <3> QED
      BY <1>1, <2>1, <3>1, <3>2, <3>3
  <2>4. Unwritten(n, x)'
    BY <1>4, <2>3, Numbers
  <2>5. \A t \in Running(x)' : jobs'[t].run # n
    BY <1>1, <1>5, <2>3, RowTypes DEF Running
  <2>6. RecoveryRun' = n
    BY <1>1, <1>a DEF RecoveryRun
  <2>7. Unwritten(RecoveryRun, recovering[i])'
    BY <2>2, <2>4, <2>6 DEF Unwritten
  <2>8. Running(recovering[i])' = Running(x)'
    BY <2>2 DEF Running
  <2> QED
    BY <1>a, <1>3, <2>3, <2>5, <2>7, <2>8
<1> QED
  BY <1>6, <1>7, <1>8 DEF RunInv

(* The next restart numbers its recovery anew.                             *)
LEMMA RestartRuns ==
    ASSUME TypeInv, TypeInv', RunInv, Restart
    PROVE  RunInv'
<1>1. /\ crashes' = crashes + 1 /\ crashes < MaxCrashes /\ UNCHANGED <<report, scores, accepted>>
      /\ \A t \in Threads : jobs'[t] = Idle
      /\ crashes \in Nat /\ accepted \in Nat /\ accepted <= Regenerations
      /\ Regenerations \in Nat /\ MaxCrashes \in Nat
  BY ReportsAssumption DEF Restart, rows, TypeInv, TypeOK
<1>2. \A n \in Nat : Given(n) => Given(n)'
  BY <1>1 DEF Given
<1>3. Given(0)'
  BY <1>1 DEF Given
<1>4. AllGiven'
  BY <1>1, <1>2, <1>3, NumberTypes, RowTypes DEF RunInv, AllGiven
<1>5. \A x \in Sessions : Running(x)' = {}
  BY <1>1, RowTypes DEF Running
<1>6. PICK n \in Nat : n = RecoveryRun'
  BY <1>1 DEF RecoveryRun
<1>7. ~Given(n) /\ n # 0 /\ crashes' > 0
  BY <1>1, <1>6 DEF RecoveryRun, Given, NoAnswers
<1>8. \A x \in Sessions : report[x].insight # n /\ \A k \in Strategies : scores[x][k] # n
  BY <1>7 DEF RunInv, AllGiven
<1>9. \A x \in Sessions : Unwritten(RecoveryRun, x)'
  BY <1>1, <1>6, <1>7, <1>8, RowTypes DEF Unwritten
<1>10. RecoveryRuns'
  <2>1. \A i \in DOMAIN recovering' : recovering'[i] \in Sessions
    BY DEF TypeInv, TypeOK
  <2>2. \A i \in DOMAIN recovering' : Unwritten(RecoveryRun, recovering[i])'
    BY <1>9, <2>1 DEF Unwritten
  <2>3. \A i \in DOMAIN recovering' : Running(recovering[i])' = {}
    BY <1>5, <2>1 DEF Running
  <2> QED
    BY <1>7, <2>2, <2>3, RecoveryOrder DEF RecoveryRuns
<1> QED
  BY <1>4, <1>5, <1>10 DEF RunInv, OwnRuns

LEMMA InitRuns == Init => RunInv
<1> SUFFICES ASSUME Init PROVE RunInv
  OBVIOUS
<1>1. PICK task \in Injection(Sessions, Jobs) :
          jobs = [t \in Threads |-> IF \E s \in Sessions : task[s] = t
                                   THEN NewJob(CHOOSE s \in Sessions : task[s] = t, 1)
                                   ELSE Idle]
  BY DEF Init
<1>2. ASSUME NEW t \in Threads
      PROVE  jobs[t] = Idle \/ \E s \in Sessions : jobs[t] = NewJob(s, 1) /\ task[s] = t
  BY <1>1
<1>3. /\ \A t \in Threads : /\ jobs[t].pc # "idle" => jobs[t].run = 1
                            /\ jobs[t].seen.insight = 0
                            /\ \A k \in Strategies : jobs[t].deleted[k] = 0
      /\ \A s \in Sessions : \A t \in Running(s) : task[s] = t
  BY <1>2, NewJobIs, RowTypes, Numbers DEF Running
<1>4. /\ \A s \in Sessions : report[s].insight = 0 /\ \A k \in Strategies : scores[s][k] = 0
      /\ recovering = <<>> /\ accepted = 0
  BY RowTypes DEF Init
<1>5. Given(0) /\ Given(1)
  BY <1>4 DEF Given
<1> QED
  BY <1>3, <1>4, <1>5 DEF RunInv, AllGiven, OwnRuns, RecoveryRuns, Unwritten, Running

LEMMA StepRuns == TypeInv /\ TypeInv' /\ RunInv /\ [Next]_vars => RunInv'
<1> SUFFICES ASSUME TypeInv, TypeInv', RunInv, [Next]_vars PROVE RunInv'
  OBVIOUS
<1>1. CASE UNCHANGED vars
  BY <1>1, RunsKept DEF vars, rows, Continues, Comes
<1>2. ASSUME NEW j \in Jobs, RegenerateStore(j) \/ RegenerateGone(j) PROVE RunInv'
  <2>1. \A u \in Threads : Continues(u)
    BY <1>2, StoreSteps DEF Continues
  <2>2. UNCHANGED <<scores, recovering, accepted, crashes>>
    BY <1>2 DEF RegenerateStore, RegenerateGone, rows
  <2>3. report \in [Sessions -> Report] /\ jobs[j].session \in Sessions
    BY <1>2, StoreSteps DEF TypeInv, TypeOK
  <2>4. \A s \in Sessions : report'[s].insight = report[s].insight
    BY <1>2, <2>3 DEF RegenerateStore, RegenerateGone, rows, Report
  <2> QED
    BY <2>1, <2>2, <2>4, RunsKept DEF Comes
<1>3. ASSUME NEW s \in Sessions,
             DeleteSession(s) \/ \E k \in Strategies : AnswerReady(s, k)
      PROVE  RunInv'
  <2>1. \A u \in Threads : Continues(u)
    BY <1>3 DEF DeleteSession, AnswerReady, Continues
  <2>2. UNCHANGED <<recovering, accepted, crashes>>
    BY <1>3 DEF DeleteSession, AnswerReady
  <2>3. ASSUME NEW x \in Sessions
        PROVE  /\ report'[x].insight \in {0, report[x].insight}
               /\ \A k \in Strategies : scores'[x][k] \in {0, scores[x][k]}
    BY <1>3, RowTypes DEF DeleteSession, AnswerReady, TypeInv, TypeOK
  <2> QED
    BY <2>1, <2>2, <2>3, RunsKept DEF Comes
<1> QED
  BY <1>1, <1>2, <1>3, RunReportRuns, CheckRuns, TakeRuns, RestartRuns DEF Next
-----------------------------------------------------------------------------
(* Pages: the rows of a report are those of one run. For sessions that end *)
(* with a ready answer that every run scores, so that no two drafts are    *)
(* disjoint.                                                               *)

Transacting == {"ask", "delete", "commit"}

(* Every step but the end of a DELETE and a commit.                        *)
LEMMA PagesKept ==
    ASSUME TypeInv, PageInv,
           \A s \in Sessions : Exists(s)' =>
               /\ Exists(s) /\ scores'[s] = scores[s]
               /\ report'[s].insight = report[s].insight
               /\ report'[s].status \in {report[s].status, "queued", "processing", "failed"}
               /\ answered[s] \subseteq answered'[s],
           \A t \in Threads :
               \/ jobs'[t] = jobs[t]
               \/ jobs'[t].pc \notin Transacting
               \/ /\ jobs'[t].pc # "commit"
                  /\ \A s \in Sessions : Exists(s) /\ jobs'[t].session = s => Holds(t, s)'
    PROVE  PageInv'
<1> SUFFICES ASSUME NEW s \in Sessions, Exists(s)'
             PROVE  /\ Page(s)'
                    /\ \A t \in Running(s)' : Holds(t, s)'
                    /\ \A t, u \in Running(s)' :
                          /\ jobs'[t].pc = "commit" /\ jobs'[t].deleted # NoScores
                          /\ jobs'[u].pc = "commit" /\ jobs'[u].deleted # NoScores
                          => t = u
  BY DEF PageInv
<1>1. /\ Exists(s) /\ scores'[s] = scores[s]
      /\ report'[s].insight = report[s].insight
      /\ report'[s].status \in {report[s].status, "queued", "processing", "failed"}
      /\ answered[s] \subseteq answered'[s]
  OBVIOUS
<1>2. Page(s)'
  BY <1>1 DEF PageInv, Page, RowsOf
<1>3. ASSUME NEW t \in Running(s)' PROVE Holds(t, s)'
  <2>1. t \in Threads /\ jobs'[t].session = s /\ jobs'[t].pc # "idle"
    BY <1>3 DEF Running
  <2>2. CASE jobs'[t] = jobs[t]
    <3>1. t \in Running(s)
      BY <2>1, <2>2 DEF Running
    <3>2. Holds(t, s)
      BY <1>1, <3>1 DEF PageInv
    <3> QED
      BY <1>1, <2>2, <3>2 DEF Holds, RowsOf
  <2>3. CASE jobs'[t].pc \notin Transacting
    BY <2>3 DEF Holds, Transacting
  <2> QED
    BY <1>1, <2>1, <2>2, <2>3
<1>4. \A t \in Running(s)' : jobs'[t].pc = "commit" => jobs'[t] = jobs[t] /\ t \in Running(s)
  BY DEF Running, Transacting
<1>5. \A t, u \in Running(s)' :
          /\ jobs'[t].pc = "commit" /\ jobs'[t].deleted # NoScores
          /\ jobs'[u].pc = "commit" /\ jobs'[u].deleted # NoScores
          => t = u
  BY <1>1, <1>4 DEF PageInv
<1> QED
  BY <1>2, <1>3, <1>5

(* PageInv for one report.                                                 *)
LEMMA PageOf ==
    ASSUME PageInv, NEW s \in Sessions, Exists(s)
    PROVE  /\ Page(s)
           /\ \A t \in Running(s) : Holds(t, s)
           /\ \A t, u \in Running(s) :
                 /\ jobs[t].pc = "commit" /\ jobs[t].deleted # NoScores
                 /\ jobs[u].pc = "commit" /\ jobs[u].deleted # NoScores
                 => t = u
BY DEF PageInv

LEMMA DeletePages ==
    ASSUME Anchor # {}, TypeInv, PageInv, NEW t \in Threads, DeleteDone(t)
    PROVE  PageInv'
<1> PICK s \in Sessions : s = jobs[t].session
  BY DEF TypeInv, DeleteDone
<1> DEFINE saw  == jobs[t].deleted
           now  == scores[s]
           held == [k \in Strategies |-> IF saw[k] = now[k] THEN now[k] ELSE 0]
<1>0. /\ jobs \in [Threads -> JobState] /\ jobs[t] \in JobState
      /\ scores \in [Sessions -> Scores]
      /\ jobs[t].pc = "delete" /\ s = jobs[t].session
      /\ UNCHANGED <<report, scores, answered>>
  BY DEF TypeInv, TypeOK, DeleteDone, rows
<1>1. /\ jobs'[t].pc = "commit" /\ jobs'[t].session = s
      /\ jobs'[t].asked = jobs[t].asked /\ jobs'[t].draft = jobs[t].draft
      /\ jobs'[t].deleted = held
      /\ \A u \in Threads : u # t => jobs'[u] = jobs[u]
  <2> DEFINE new == [jobs[t] EXCEPT !.pc = "commit", !.deleted = held]
  <2>1. /\ new.pc = "commit" /\ new.session = s /\ new.asked = jobs[t].asked
        /\ new.draft = jobs[t].draft /\ new.deleted = held
    BY <1>0 DEF JobState
  <2>2. jobs' = [jobs EXCEPT ![t] = new]
    BY <1>0 DEF DeleteDone, JobState
  <2> HIDE DEF new, held
  <2> QED
    BY <1>0, <2>1, <2>2
<1>2. saw \in Scores /\ now \in Scores /\ held \in Scores
  BY <1>0, Numbers DEF JobState, Scores
<1>3. \A k \in Strategies : held[k] = IF saw[k] = now[k] THEN now[k] ELSE 0
  OBVIOUS
<1> HIDE DEF held
<1>4. t \in Running(s)
  BY <1>0 DEF Running
<1>5. ASSUME NEW x \in Sessions PROVE Running(x)' = Running(x)
  BY <1>0, <1>1 DEF Running
<1>6. ASSUME Exists(s)
      PROVE  /\ Initially \subseteq jobs[t].asked /\ Anchor \subseteq jobs[t].draft
             /\ held \in {NoScores, now}
             /\ held # NoScores => \E k \in Anchor : saw[k] # 0
             /\ \A u \in Running(s) \ {t} : jobs[u].pc = "commit" /\ jobs[u].deleted # NoScores
                                              => held = NoScores
  <2>1. Holds(t, s) /\ Page(s)
    BY <1>4, <1>6, PageOf
  <2>2. PICK k0 \in Anchor : k0 \in Strategies
    BY ReportsAssumption DEF Anchor
  <2>3. /\ Initially \subseteq jobs[t].asked /\ Anchor \subseteq jobs[t].draft
        /\ saw = NoScores \/ \E n \in Runs : RowsOf(saw, n)
        /\ \A k \in Strategies : saw[k] # 0 /\ saw[k] = now[k] => saw = now
    BY <1>0, <2>1 DEF Holds
  <2>4. CASE \E k \in Strategies : saw[k] # 0 /\ saw[k] = now[k]
    <3>1. saw = now
      BY <2>3, <2>4
    <3>2. held = now
      BY <1>2, <1>3, <3>1 DEF Scores
    <3>3. PICK n \in Runs : RowsOf(saw, n)
      BY <2>3, <2>4, RowTypes
    <3>4. saw[k0] # 0
      BY <2>2, <3>3, Numbers DEF RowsOf
    <3>5. ASSUME NEW u \in Running(s) \ {t}, jobs[u].pc = "commit", jobs[u].deleted # NoScores
          PROVE  FALSE
      <4>0. Holds(u, s)
        BY <1>6, <3>5, PageOf
      <4>1. jobs[u].deleted = now
        BY <3>5, <4>0 DEF Holds
      <4>2. u \in Rivals(t)
        BY <3>5 DEF Rivals, Running
      <4>3. k0 \in Kinds(jobs[u].deleted) \cap Kinds(saw)
        BY <2>2, <3>1, <3>4, <4>1 DEF Kinds
      <4> QED
        BY <4>2, <4>3 DEF DeleteDone
    <3> QED
      BY <2>2, <2>3, <3>2, <3>4, <3>5
  <2>5. CASE ~\E k \in Strategies : saw[k] # 0 /\ saw[k] = now[k]
    <3>1. \A k \in Strategies : held[k] = 0
      BY <1>3, <2>5
    <3>2. held = NoScores
      BY <1>2, <3>1 DEF NoScores, Scores
    <3> QED
      BY <2>3, <3>2
  <2> QED
    BY <2>4, <2>5
<1>7. ASSUME NEW x \in Sessions, Exists(x)
      PROVE  /\ Page(x)'
             /\ \A u \in Running(x)' : Holds(u, x)'
             /\ \A u, v \in Running(x)' :
                   /\ jobs'[u].pc = "commit" /\ jobs'[u].deleted # NoScores
                   /\ jobs'[v].pc = "commit" /\ jobs'[v].deleted # NoScores
                   => u = v
  <2>1. Page(x)'
    BY <1>0, <1>7 DEF PageInv, Page, RowsOf
  <2>2. ASSUME NEW u \in Running(x)' PROVE Holds(u, x)'
    <3>1. u \in Running(x) /\ u \in Threads
      BY <1>5, <2>2 DEF Running
    <3>2. Holds(u, x)
      BY <1>7, <3>1 DEF PageInv
    <3>3. CASE u = t
      <4>1. x = s
        BY <3>1, <3>3 DEF Running
      <4> QED
        BY <1>0, <1>1, <1>6, <1>7, <3>3, <4>1 DEF Holds
    <3>4. CASE u # t
      BY <1>0, <1>1, <3>1, <3>2, <3>4 DEF Holds, RowsOf
    <3> QED
      BY <3>3, <3>4
  <2>3. ASSUME NEW u \in Running(x)', NEW v \in Running(x)', u # v,
               jobs'[u].pc = "commit", jobs'[u].deleted # NoScores,
               jobs'[v].pc = "commit", jobs'[v].deleted # NoScores
        PROVE  FALSE
    <3>1. u \in Running(x) /\ v \in Running(x) /\ u \in Threads /\ v \in Threads
      BY <1>5, <2>3 DEF Running
    <3>2. u # t /\ v # t => FALSE
      BY <1>1, <1>7, <2>3, <3>1 DEF PageInv
    <3>3. u = t \/ v = t => x = s
      BY <3>1 DEF Running
    <3> QED
      BY <1>1, <1>6, <1>7, <2>3, <3>1, <3>2, <3>3
  <2> QED
    BY <2>1, <2>2, <2>3
<1>8. \A x \in Sessions : Exists(x)' => Exists(x)
  BY <1>0 DEF Exists
<1> QED
  BY <1>7, <1>8 DEF PageInv

LEMMA CommitPages ==
    ASSUME Anchor # {}, TypeInv, RunInv, PageInv, NEW t \in Threads, Commit(t)
    PROVE  PageInv'
<1> PICK s \in Sessions : s = jobs[t].session
  BY DEF TypeInv, Commit
<1> PICK n \in Runs : n = jobs[t].run
  BY DEF TypeInv, Commit
<1> DEFINE insight == Write(jobs[t].seen.insight, Insight(t), report[s].insight)
           stored  == [k \in Strategies |-> IF k \in jobs[t].draft THEN n
                                   ELSE IF jobs[t].deleted[k] # 0 THEN 0 ELSE scores[s][k]]
<1>0. /\ jobs \in [Threads -> JobState] /\ jobs[t] \in JobState
      /\ scores \in [Sessions -> Scores] /\ report \in [Sessions -> Report]
      /\ jobs[t].pc = "commit" /\ s = jobs[t].session /\ n = jobs[t].run
      /\ Exists(s) /\ Insertable(t) /\ answered' = answered
  BY DEF TypeInv, TypeOK, Commit
<1>1. t \in Running(s)
  BY <1>0 DEF Running
<1>2. Holds(t, s) /\ Page(s) /\ Unwritten(n, s)
  BY <1>0, <1>1 DEF PageInv, RunInv, OwnRuns
<1>3. PICK k0 \in Anchor : k0 \in Strategies
  BY ReportsAssumption DEF Anchor
<1>4. /\ Anchor \subseteq jobs[t].draft /\ jobs[t].asked # {}
      /\ jobs[t].deleted \in {NoScores, scores[s]}
  BY <1>0, <1>2, <1>3 DEF Holds, Anchor
<1>5. insight = n
  BY <1>1, <1>2, <1>4 DEF Write, Insight, Unwritten, Running
<1>6. scores[s] = NoScores \/ scores[s][k0] # 0
  BY <1>2, <1>3, Numbers DEF Page, RowsOf
<1>7. RowsOf(stored, n)
  <2>1. ASSUME NEW k \in Strategies, k \notin jobs[t].draft PROVE stored[k] = 0
    <3>1. stored[k] = IF jobs[t].deleted[k] # 0 THEN 0 ELSE scores[s][k]
      BY <2>1
    <3>2. CASE jobs[t].deleted = scores[s]
      BY <3>1, <3>2
    <3>3. CASE jobs[t].deleted = NoScores
      <4>1. scores[s][k0] = 0
        BY <1>0, <1>3, <1>4, <3>3, RowTypes DEF Insertable
      <4> QED
        BY <1>6, <2>1, <3>1, <4>1, RowTypes
    <3> QED
      BY <1>4, <3>2, <3>3
  <2>2. \A k \in Strategies : k \in jobs[t].draft => stored[k] = n
    OBVIOUS
  <2> HIDE DEF stored
  <2> QED
    BY <1>4, <2>1, <2>2, ReportsAssumption DEF RowsOf, Anchor
<1>8. /\ scores' = [scores EXCEPT ![s] = stored]
      /\ report' = [report EXCEPT ![s].status = "ready", ![s].insight = insight]
      /\ jobs' = [jobs EXCEPT ![t] = Idle]
  BY DEF Commit, Over
<1> HIDE DEF stored, insight
<1>9. /\ scores'[s] = stored /\ report'[s].insight = n
      /\ \A x \in Sessions \ {s} : scores'[x] = scores[x] /\ report'[x] = report[x]
      /\ jobs'[t].pc = "idle" /\ \A u \in Threads : u # t => jobs'[u] = jobs[u]
  BY <1>0, <1>5, <1>8, RowTypes DEF Report
<1>10. \A x \in Sessions : Running(x)' \subseteq Running(x) \ {t}
  BY <1>9 DEF Running
<1>11. Page(s)'
  BY <1>0, <1>2, <1>7, <1>9 DEF Page, RowsOf
<1>12. ASSUME NEW u \in Running(s)' PROVE Holds(u, s)'
  <2>1. u \in Running(s) /\ u # t /\ jobs'[u] = jobs[u] /\ u \in Threads
    BY <1>0, <1>9, <1>10, <1>12 DEF Running
  <2>2. Holds(u, s)
    BY <1>0, <2>1 DEF PageInv
  <2>3. \A k \in Strategies : jobs[u].deleted[k] # n
    BY <1>2, <2>1 DEF Unwritten, Running
  <2>4. \A k \in Strategies : stored[k] \in {0, n}
    BY <1>7 DEF RowsOf
  <2>5. ASSUME jobs[u].pc = "commit" PROVE jobs[u].deleted = NoScores
    <3>1. CASE scores[s] = NoScores
      BY <2>2, <2>5, <3>1 DEF Holds
    <3>2. CASE scores[s][k0] # 0
      <4>1. jobs[t].deleted[k0] # 0
        BY <1>0, <1>3, <1>4, <3>2 DEF Insertable
      <4>2. jobs[t].deleted # NoScores
        BY <1>3, <4>1, RowTypes
      <4> QED
        BY <1>0, <1>1, <2>1, <2>5, <4>2 DEF PageInv
    <3> QED
      BY <1>6, <3>1, <3>2
  <2> QED
    BY <1>9, <2>1, <2>2, <2>3, <2>4, <2>5 DEF Holds, RowsOf
<1>13. ASSUME NEW x \in Sessions, Exists(x)'
       PROVE  /\ Page(x)'
              /\ \A u \in Running(x)' : Holds(u, x)'
              /\ \A u, v \in Running(x)' :
                    /\ jobs'[u].pc = "commit" /\ jobs'[u].deleted # NoScores
                    /\ jobs'[v].pc = "commit" /\ jobs'[v].deleted # NoScores
                    => u = v
  <2>1. Exists(x)
    BY <1>0, <1>9, <1>13 DEF Exists
  <2>2. \A u \in Running(x)' : u \in Running(x) /\ jobs'[u] = jobs[u]
    BY <1>9, <1>10 DEF Running
  <2>3. \A u, v \in Running(x)' :
            /\ jobs'[u].pc = "commit" /\ jobs'[u].deleted # NoScores
            /\ jobs'[v].pc = "commit" /\ jobs'[v].deleted # NoScores
            => u = v
    BY <2>1, <2>2 DEF PageInv
  <2>4. CASE x = s
    BY <1>11, <1>12, <2>3, <2>4
  <2>5. CASE x # s
    <3>1. Page(x)'
      BY <1>0, <1>9, <2>1, <2>5 DEF PageInv, Page, RowsOf
    <3>2. \A u \in Running(x)' : Holds(u, x)'
      <4>1. ASSUME NEW u \in Running(x)' PROVE Holds(u, x)'
        <5>1. Holds(u, x) /\ jobs'[u] = jobs[u] /\ scores'[x] = scores[x]
          BY <1>9, <2>1, <2>2, <2>5, <4>1 DEF PageInv
        <5> QED
          BY <5>1 DEF Holds, RowsOf
      <4> QED
        BY <4>1
    <3> QED
      BY <2>3, <3>1, <3>2
  <2> QED
    BY <2>4, <2>5
<1> QED
  BY <1>13 DEF PageInv
(* The other steps of run_report leave the rows of scores as they are...   *)
LEMMA RowsKept ==
    ASSUME TypeInv, NEW t \in Threads, RunReport(t), ~Commit(t), NEW s \in Sessions, Exists(s)'
    PROVE  /\ Exists(s) /\ scores'[s] = scores[s]
           /\ report'[s].insight = report[s].insight
           /\ report'[s].status \in {report[s].status, "queued", "processing", "failed"}
           /\ answered[s] \subseteq answered'[s]
<1>0. report \in [Sessions -> Report]
  BY DEF TypeInv, TypeOK
<1>1. scores' = scores /\ answered' = answered
  BY DEF RunReport, Begin, Mark, MarkStale, Collect, GenerationFails, Fail, DeleteStarts,
         DeleteDone, CommitFails, rows
<1>2. CASE report' = report
  BY <1>1, <1>2 DEF Exists
<1>3. ASSUME NEW x \in Sessions, NEW new,
             \/ new = report[x].status
             \/ Exists(x) /\ new \in {"processing", "failed"},
             report' = [report EXCEPT ![x].status = new]
      PROVE  /\ Exists(s) /\ report'[s].insight = report[s].insight
             /\ report'[s].status \in {report[s].status, "queued", "processing", "failed"}
  BY <1>0, <1>3 DEF Exists, Report
<1>4. CASE Mark(t)
  <2> PICK x \in Sessions : x = jobs[t].session
    BY <1>4 DEF Mark, TypeInv
  <2> DEFINE new == Write(jobs[t].seen.status, "processing", report[x].status)
  <2>1. \/ new = report[x].status
        \/ Exists(x) /\ new = "processing"
    BY <1>4 DEF Mark, Write
  <2>2. report' = [report EXCEPT ![x].status = new]
    BY <1>4 DEF Mark
  <2> HIDE DEF new
  <2> QED
    BY <1>1, <1>3, <2>1, <2>2
<1>5. CASE Fail(t)
  <2> PICK x \in Sessions : x = jobs[t].session
    BY <1>5 DEF Fail, TypeInv
  <2>1. \/ report' = report
        \/ Exists(x) /\ report' = [report EXCEPT ![x].status = "failed"]
    BY <1>5 DEF Fail
  <2> QED
    BY <1>1, <1>2, <1>3, <2>1
<1> QED
  BY <1>2, <1>4, <1>5
     DEF RunReport, Begin, MarkStale, Collect, GenerationFails, DeleteStarts, DeleteDone,
         CommitFails, rows

(* ...and what they read keeps Holds.                                      *)
LEMMA JobKept ==
    ASSUME TypeInv, PageInv, NEW t \in Threads, RunReport(t), ~Commit(t), ~DeleteDone(t)
    PROVE  \/ jobs'[t].pc \notin Transacting
           \/ /\ jobs'[t].pc # "commit"
              /\ \A s \in Sessions : Exists(s) /\ jobs'[t].session = s => Holds(t, s)'
<1>0. /\ jobs \in [Threads -> JobState] /\ jobs[t] \in JobState
      /\ scores \in [Sessions -> Scores] /\ answered \in [Sessions -> SUBSET Strategies]
  BY DEF TypeInv, TypeOK
<1> PICK x \in Sessions : x = jobs[t].session
  BY JobSteps DEF TypeInv
<1>1. Exists(x) /\ jobs[t].pc # "idle" => Page(x) /\ Holds(t, x)
  BY PageOf DEF Running
<1>2. CASE Over(t)
  BY <1>0, <1>2, RowTypes DEF Over, Transacting
<1>3. CASE Begin(t) \/ Mark(t) \/ GenerationFails(t)
  <2>1. jobs'[t] = Idle \/ jobs'[t].pc \in {"mark", "collect", "fail"}
    BY <1>0, <1>3 DEF Begin, Mark, GenerationFails, Over, JobState
  <2> QED
    BY <2>1, RowTypes DEF Transacting
<1>4. CASE Collect(t)
  <2> DEFINE new == [jobs[t] EXCEPT !.pc = "ask", !.asked = answered[x]]
  <2>1. new.pc = "ask" /\ new.session = x /\ new.asked = answered[x]
    BY <1>0 DEF JobState
  <2>2. jobs' = [jobs EXCEPT ![t] = new] /\ jobs[t].pc # "idle"
    BY <1>0, <1>4 DEF Collect, JobState
  <2> HIDE DEF new
  <2>3. jobs'[t] = new
    BY <1>0, <2>2
  <2> QED
    BY <1>1, <2>1, <2>2, <2>3 DEF Page, Holds
<1>5. CASE DeleteStarts(t)
  <2>0. PICK d \in Drafts(jobs[t].asked) :
            jobs' = [jobs EXCEPT ![t].pc = "delete", ![t].draft = d,
                                 ![t].deleted = scores[x]]
    BY <1>0, <1>5 DEF DeleteStarts
  <2> DEFINE new == [jobs[t] EXCEPT !.pc = "delete", !.draft = d, !.deleted = scores[x]]
  <2>1. /\ new.pc = "delete" /\ new.session = x /\ new.deleted = scores[x]
        /\ new.asked = jobs[t].asked /\ new.draft = d
    BY <1>0 DEF JobState
  <2>2. /\ jobs' = [jobs EXCEPT ![t] = new] /\ jobs[t].pc = "ask" /\ scores' = scores
    BY <1>0, <1>5, <2>0 DEF DeleteStarts, JobState, rows
  <2> HIDE DEF new
  <2>3. jobs'[t] = new
    BY <1>0, <2>2
  <2>4. ASSUME Exists(x) PROVE Holds(t, x)'
    <3>1. scores[x] = NoScores \/ \E n \in Runs : RowsOf(scores[x], n)
      BY <1>1, <2>2, <2>4 DEF Page
    <3>2. Initially \subseteq jobs[t].asked /\ Anchor \subseteq d
      BY <1>1, <2>0, <2>2, <2>4 DEF Holds, Anchor, Drafts
    <3> QED
      BY <2>1, <2>2, <2>3, <3>1, <3>2 DEF Holds, RowsOf
  <2> QED
    BY <2>1, <2>3, <2>4
<1> QED
  BY <1>2, <1>3, <1>4, <1>5 DEF RunReport, MarkStale, Fail, CommitFails, Raises
LEMMA RunReportPages ==
    ASSUME Anchor # {}, TypeInv, RunInv, PageInv, NEW t \in Threads, RunReport(t)
    PROVE  PageInv'
<1>1. CASE ~Commit(t) /\ ~DeleteDone(t)
  BY <1>1, RowsKept, JobKept, JobSteps, PagesKept
<1> QED
  BY <1>1, CommitPages, DeletePages

(* The requests, the recovery and the restart.                             *)
LEMMA OthersPages ==
    ASSUME TypeInv, PageInv, [Next]_vars, ~\E t \in Threads : RunReport(t)
    PROVE  PageInv'
<1> DEFINE RowsStay == \A s \in Sessions : Exists(s)' =>
               /\ Exists(s) /\ scores'[s] = scores[s]
               /\ report'[s].insight = report[s].insight
               /\ report'[s].status \in {report[s].status, "queued", "processing", "failed"}
               /\ answered[s] \subseteq answered'[s]
           JobsStay == \A t \in Threads : jobs'[t] = jobs[t] \/ jobs'[t].pc \notin Transacting
<1>0. /\ report \in [Sessions -> Report] /\ scores \in [Sessions -> Scores]
      /\ answered \in [Sessions -> SUBSET Strategies]
  BY DEF TypeInv, TypeOK
<1>1. UNCHANGED rows => RowsStay
  BY DEF rows, Exists
<1>2. CASE UNCHANGED vars
  BY <1>1, <1>2, PagesKept DEF vars
<1>3. ASSUME NEW s \in Sessions, NEW j \in Jobs, RegenerateCheck(s, j) PROVE PageInv'
  <2>1. JobsStay /\ UNCHANGED rows
    BY <1>3, CheckSteps DEF Transacting
  <2> QED
    BY <1>1, <2>1, PagesKept
<1>4. ASSUME NEW j \in Jobs, RegenerateStore(j) \/ RegenerateGone(j) PROVE PageInv'
  <2>1. JobsStay
    BY <1>4, StoreSteps, NewJobIs, RowTypes DEF Transacting
  <2>2. CASE RegenerateStore(j)
    <3> PICK x \in Sessions : x = jobs[j].session
      BY <1>4, StoreSteps
    <3> DEFINE new == Write(jobs[j].seen.status, "queued", report[x].status)
    <3>1. new \in {report[x].status, "queued"}
      BY DEF Write
    <3>2. /\ Exists(x) /\ report' = [report EXCEPT ![x].status = new]
          /\ UNCHANGED <<scores, answered>>
      BY <2>2 DEF RegenerateStore
    <3> HIDE DEF new
    <3>3. RowsStay
      BY <1>0, <3>1, <3>2 DEF Exists, Report
    <3> QED
      BY <2>1, <3>3, PagesKept
  <2>3. CASE RegenerateGone(j)
    BY <1>1, <2>1, <2>3, PagesKept DEF RegenerateGone
  <2> QED
    BY <1>4, <2>2, <2>3
<1>5. ASSUME NEW s \in Sessions, NEW k \in Strategies, AnswerReady(s, k) PROVE PageInv'
  <2>1. RowsStay /\ jobs' = jobs
    BY <1>0, <1>5 DEF AnswerReady, Exists
  <2> QED
    BY <2>1, PagesKept
<1>6. ASSUME NEW s \in Sessions, DeleteSession(s) PROVE PageInv'
  <2>1. ~Exists(s)'
    BY <1>0, <1>6, RowTypes DEF DeleteSession, Exists
  <2>2. \A x \in Sessions \ {s} :
            report'[x] = report[x] /\ scores'[x] = scores[x] /\ answered'[x] = answered[x]
    BY <1>0, <1>6 DEF DeleteSession
  <2>3. RowsStay /\ jobs' = jobs
    BY <1>6, <2>1, <2>2 DEF DeleteSession, Exists
  <2> QED
    BY <2>3, PagesKept
<1>7. CASE RecoveryTakes
  <2>1. /\ \A u \in Threads : u # "recovery" => jobs'[u] = jobs[u]
        /\ jobs'["recovery"].pc = "waiting" /\ UNCHANGED rows
    BY <1>7, TakeSteps, NewJobIs
  <2>2. JobsStay
    BY <2>1 DEF Transacting
  <2> QED
    BY <1>1, <2>1, <2>2, PagesKept
<1>8. CASE Restart
  <2>1. JobsStay /\ UNCHANGED rows
    BY <1>8, RowTypes DEF Restart, Transacting
  <2> QED
    BY <1>1, <2>1, PagesKept
<1> QED
  BY <1>2, <1>3, <1>4, <1>5, <1>6, <1>7, <1>8 DEF Next

LEMMA InitPages == Init => PageInv
<1> SUFFICES ASSUME Init PROVE PageInv
  OBVIOUS
<1>1. \A t \in Threads : jobs[t].pc \in {"idle", "waiting"}
  <2>1. PICK task \in Injection(Sessions, Jobs) :
            jobs = [t \in Threads |-> IF \E s \in Sessions : task[s] = t
                                     THEN NewJob(CHOOSE s \in Sessions : task[s] = t, 1)
                                     ELSE Idle]
    BY DEF Init
  <2>2. \A t \in Threads : jobs[t] = Idle \/ \E s \in Sessions : jobs[t] = NewJob(s, 1)
    BY <2>1
  <2> QED
    BY <2>2, NewJobIs, RowTypes, Numbers
<1>2. \A s \in Sessions : Page(s)
  BY DEF Init, Page
<1>3. \A s \in Sessions : \A t \in Running(s) : Holds(t, s) /\ jobs[t].pc # "commit"
  BY <1>1 DEF Running, Holds
<1> QED
  BY <1>2, <1>3 DEF PageInv

(* A page is what ReportOfOneRun asks for.                                 *)
LEMMA PageShown ==
    ASSUME Anchor # {}, TypeInv, PageInv
    PROVE  ReportOfOneRun
<1> SUFFICES ASSUME NEW s \in Sessions, report[s].status = "ready"
             PROVE  /\ report[s].insight # NoAnswers
                    /\ \A k \in Anchor : k \in Strategies /\ scores[s][k] # 0
                    /\ \A k \in Strategies : scores[s][k] # 0 =>
                          scores[s][k] = report[s].insight
  BY DEF ReportOfOneRun
<1>1. Page(s)
  BY PageOf DEF Exists
<1>2. report[s].insight \in Runs /\ RowsOf(scores[s], report[s].insight)
  BY <1>1 DEF Page
<1>3. Anchor \subseteq Strategies
  BY ReportsAssumption DEF Anchor
<1> QED
  BY <1>2, <1>3, Numbers DEF RowsOf

(* A ready report shows the insight and the scores of one run, whatever    *)
(* requests, late answers, restarts and failures meet, when the session    *)
(* ended with a ready answer of a strategy that the model never leaves out *)
(* (run_report, "the score rows are replaced as a whole"). Without one the *)
(* report may mix runs.                                                    *)
THEOREM ReportShowsOneRun == Anchor # {} => (Spec => []ReportOfOneRun)
<1> SUFFICES ASSUME Anchor # {} PROVE Spec => []ReportOfOneRun
  OBVIOUS
<1> DEFINE IInv == TypeInv /\ RunInv /\ PageInv
<1>1. Init => IInv
  BY InitTypeInv, InitRuns, InitPages
<1>2. IInv /\ [Next]_vars => IInv'
  BY StepTypeInv, StepRuns, RunReportPages, OthersPages
<1>3. IInv => ReportOfOneRun
  BY PageShown
<1> QED
  BY <1>1, <1>2, <1>3, PTL DEF Spec
-----------------------------------------------------------------------------
(* Refinement: the reports are polled rows of AsyncJob.                    *)

Pending == {s \in Sessions : HasJob(s)} \cup lost

(* The abstract steps, from what a step does to one report.                *)
LEMMA Abstraction ==
    ASSUME TypeInv, NEW x \in Sessions,
           \A s \in Sessions \ {x} : report'[s].status = report[s].status,
           NEW new, report'[x].status = new
    PROVE  /\ new = report[x].status /\ Pending' = Pending => UNCHANGED Job!vars
           /\ new \in {"queued", report[x].status} /\ Pending' = Pending \cup {x} => Job!Next
           /\ new = "processing" /\ Exists(x) /\ x \in Pending /\ Pending' = Pending => Job!Next
           /\ /\ new \in {"ready", "failed"} /\ Exists(x) /\ x \in Pending
              /\ Pending' \in {Pending, Pending \ {x}}
              => Job!Next
           /\ /\ new = report[x].status /\ ~Exists(x)
              /\ Pending' \in {Pending, Pending \ {x}}
              => Job!Next
           /\ new = "absent" /\ Pending' = Pending => Job!Next
<1> DEFINE old == [s \in Sessions |-> report[s].status]
           now == [s \in Sessions |-> report'[s].status]
<1>1. now = [s \in Sessions |-> IF s \in {x} THEN new ELSE old[s]]
  OBVIOUS
<1>2. new = report[x].status => now = old
  OBVIOUS
<1>3. {x} \in SUBSET Sessions
  OBVIOUS
<1>4. ASSUME new = report[x].status, Pending' = Pending PROVE UNCHANGED Job!vars
  BY <1>2, <1>4 DEF Job!vars, Pending
<1>5. ASSUME new \in {"queued", report[x].status}, Pending' = Pending \cup {x} PROVE Job!Next
  <2>1. Job!Accept({x})
    BY <1>1, <1>2, <1>5 DEF Job!Accept, Job!Sets, Pending
  <2> QED
    BY <1>3, <2>1 DEF Job!Next
<1>6. ASSUME new = "processing", Exists(x), x \in Pending, Pending' = Pending PROVE Job!Next
  <2>1. Job!Start(x)
    BY <1>1, <1>6 DEF Job!Start, Job!Sets, Pending, Exists
  <2> QED
    BY <2>1 DEF Job!Next
<1>7. ASSUME new \in {"ready", "failed"}, Exists(x), x \in Pending,
             Pending' \in {Pending, Pending \ {x}}
      PROVE  Job!Next
  <2>1. Job!Settle(x)
    BY <1>1, <1>7 DEF Job!Settle, Job!Settled, Job!Sets, Pending, Exists
  <2> QED
    BY <2>1 DEF Job!Next
<1>8. ASSUME new = report[x].status, ~Exists(x), Pending' \in {Pending, Pending \ {x}}
      PROVE  Job!Next
  <2>1. Pending' \subseteq Pending /\ \A r \in Pending \ Pending' : r = x
    BY <1>8
  <2>2. old[x] \notin {"queued", "processing"}
    BY <1>8 DEF Exists
  <2>3. Job!JobsEnd
    BY <1>2, <1>8, <2>1, <2>2 DEF Job!JobsEnd, Job!Unfinished, Pending
  <2> QED
    BY <2>3 DEF Job!Next
<1>9. ASSUME new = "absent", Pending' = Pending PROVE Job!Next
  <2>1. Job!Remove({x})
    BY <1>1, <1>9 DEF Job!Remove, Job!Sets, Pending
  <2> QED
    BY <1>3, <2>1 DEF Job!Next
<1> QED
  BY <1>4, <1>5, <1>6, <1>7, <1>8, <1>9

(* What the steps between the first commit and the last one leave.         *)
Thinks(t) == Collect(t) \/ GenerationFails(t) \/ DeleteStarts(t) \/ DeleteDone(t)

LEMMA ThinkSteps ==
    ASSUME TypeInv, NEW t \in Threads, Thinks(t)
    PROVE  /\ jobs'[t].pc \in {"ask", "fail", "delete", "commit"}
           /\ jobs[t].pc \notin {"idle", "accept"}
           /\ UNCHANGED <<report, recovering, lost>>
<1>0. /\ jobs \in [Threads -> JobState] /\ jobs[t] \in JobState
      /\ report \in [Sessions -> Report] /\ scores \in [Sessions -> Scores]
      /\ answered \in [Sessions -> SUBSET Strategies]
  BY DEF TypeInv, TypeOK
<1>1. CASE Collect(t) \/ GenerationFails(t)
  BY <1>0, <1>1 DEF Collect, GenerationFails, JobState, rows
<1>2. CASE DeleteStarts(t)
  <2>1. PICK d \in Drafts(jobs[t].asked) :
            jobs' = [jobs EXCEPT ![t].pc = "delete", ![t].draft = d,
                                 ![t].deleted = scores[jobs[t].session]]
    BY <1>2, Zenon DEF DeleteStarts
  <2>2. jobs'[t].pc = "delete"
    BY <1>0, <2>1 DEF JobState
  <2> QED
    BY <1>2, <2>2 DEF DeleteStarts, rows
<1>3. CASE DeleteDone(t)
  <2>1. jobs'[t].pc = "commit"
    BY <1>0, <1>3 DEF DeleteDone, JobState
  <2> QED
    BY <1>3, <2>1 DEF DeleteDone, rows
<1> QED
  BY <1>1, <1>2, <1>3 DEF Thinks

(* What becomes of the thread and of what the recovery has yet to do.      *)
LEMMA WorkGoesOn ==
    ASSUME TypeInv, NEW t \in Threads, RunReport(t)
    PROVE  \/ /\ jobs'[t].pc \notin {"idle", "accept"}
              /\ jobs'[t].session = jobs[t].session
              /\ UNCHANGED <<recovering, lost>>
           \/ jobs'[t] = Idle /\ UNCHANGED <<recovering, lost>>
           \/ Raises(t) /\ report' = report
<1>0. jobs \in [Threads -> JobState] /\ jobs[t] \in JobState
  BY DEF TypeInv, TypeOK
<1>1. jobs'[t].pc # "idle" => jobs'[t].session = jobs[t].session
  BY JobSteps, RowTypes DEF Continues
<1>2. CASE Begin(t)
  BY <1>0, <1>1, <1>2 DEF Begin, Over, JobState
<1>3. CASE Mark(t)
  BY <1>0, <1>1, <1>3 DEF Mark, JobState, Report
<1>4. CASE Thinks(t)
  BY <1>1, <1>4, ThinkSteps
<1>7. CASE Fail(t) \/ Commit(t)
  BY <1>0, <1>7 DEF Fail, Commit, Over
<1>8. CASE MarkStale(t) \/ CommitFails(t)
  BY <1>8 DEF MarkStale, CommitFails, rows
<1> QED
  BY <1>2, <1>3, <1>4, <1>7, <1>8 DEF RunReport, Thinks

(* What is pending after a step of run_report.                             *)
LEMMA WorkPending ==
    ASSUME TypeInv, TypeInv', NEW t \in Threads, RunReport(t)
    PROVE  /\ jobs[t].session \in Pending
           /\ Pending' \in {Pending, Pending \ {jobs[t].session}}
           /\ jobs'[t] # Idle \/ Raises(t) => Pending' = Pending
<1> DEFINE x == jobs[t].session
<1>a. jobs[t].pc \notin {"idle", "accept"}
  BY ThinkSteps DEF RunReport, Thinks, Begin, Mark, MarkStale, Fail, Commit, CommitFails
<1>0. /\ x \in Sessions /\ jobs[t].pc \notin {"idle", "accept"}
      /\ \A u \in Threads : u # t => jobs'[u] = jobs[u]
  BY <1>a, JobSteps DEF TypeInv
<1>1. HasJob(x) /\ x \in Pending
  BY <1>0 DEF HasJob, Pending
<1>2. ASSUME jobs'[t].pc \notin {"idle", "accept"}, jobs'[t].session = x,
             UNCHANGED <<recovering, lost>>
      PROVE  Pending' = Pending
  <2>1. \A s \in Sessions : HasJob(s)' <=> HasJob(s)
    BY <1>0, <1>2 DEF HasJob
  <2> QED
    BY <1>2, <2>1 DEF Pending
<1>3. ASSUME jobs'[t] = Idle, UNCHANGED <<recovering, lost>>
      PROVE  Pending' \in {Pending, Pending \ {x}}
  <2>1. \A s \in Sessions : HasJob(s)' => HasJob(s)
    BY <1>0, <1>3, RowTypes DEF HasJob
  <2>2. \A s \in Sessions \ {x} : HasJob(s) => HasJob(s)'
    BY <1>0, <1>3 DEF HasJob
  <2> QED
    BY <1>1, <1>3, <2>1, <2>2 DEF Pending
<1>4. ASSUME Raises(t) PROVE Pending' = Pending
  <2>1. /\ jobs'[t] = Idle
        /\ recovering' = IF t = "recovery" THEN <<>> ELSE recovering
        /\ lost' = lost \cup {x} \cup (IF t = "recovery" THEN Range(recovering) ELSE {})
    BY <1>4 DEF Raises, Over, TypeInv, TypeOK
  <2>2. ASSUME NEW s \in Sessions, HasJob(s)' PROVE HasJob(s)
    BY <1>0, <2>1, <2>2, RowTypes DEF HasJob
  <2>3. ASSUME NEW s \in Sessions, HasJob(s) PROVE HasJob(s)' \/ s \in lost'
    <3>1. CASE \E u \in Threads : jobs[u].pc \notin {"idle", "accept"} /\ jobs[u].session = s
      BY <1>0, <2>1, <3>1 DEF HasJob
    <3>2. ASSUME NEW i \in DOMAIN recovering, recovering[i] = s PROVE HasJob(s)' \/ s \in lost'
      BY <2>1, <3>2 DEF HasJob, Range
    <3> QED
      BY <2>3, <3>1, <3>2 DEF HasJob
  <2>4. ASSUME NEW s \in lost' \ lost PROVE HasJob(s)
    BY <1>1, <2>1, <2>4 DEF HasJob, Range
  <2>5. lost' \subseteq Sessions /\ lost \subseteq Sessions /\ lost \subseteq lost'
    BY <2>1 DEF TypeInv, TypeOK
  <2> QED
    BY <2>2, <2>3, <2>4, <2>5 DEF Pending
<1> QED
  BY <1>1, <1>2, <1>3, <1>4, WorkGoesOn, RowTypes

LEMMA WorkRefines ==
    ASSUME TypeInv, TypeInv', NEW t \in Threads, RunReport(t)
    PROVE  [Job!Next]_(Job!vars)
<1> PICK x \in Sessions : x = jobs[t].session
  BY JobSteps DEF TypeInv
<1>0. /\ jobs[t] \in JobState /\ report \in [Sessions -> Report]
      /\ jobs \in [Threads -> JobState]
      /\ x \in Pending /\ Pending' \in {Pending, Pending \ {x}}
      /\ jobs'[t] # Idle \/ Raises(t) => Pending' = Pending
  BY WorkPending DEF TypeInv, TypeOK
<1>1. ASSUME report' = report, Pending' = Pending PROVE UNCHANGED Job!vars
  BY <1>1, Abstraction
<1>2. CASE Begin(t)
  <2>1. CASE Exists(x)
    <3>1. jobs'[t].pc = "mark"
      BY <1>0, <1>2, <2>1 DEF Begin, JobState
    <3> QED
      BY <1>0, <1>1, <1>2, <3>1, RowTypes DEF Begin, rows
  <2>2. CASE ~Exists(x)
    BY <1>0, <1>2, <2>2, Abstraction DEF Begin, rows
  <2> QED
    BY <2>1, <2>2
<1>3. CASE Mark(t)
  <2> DEFINE new == Write(jobs[t].seen.status, "processing", report[x].status)
  <2>1. report' = [report EXCEPT ![x].status = new]
    BY <1>3 DEF Mark
  <2>2. new = report[x].status \/ (Exists(x) /\ new = "processing")
    <3>1. Exists(x) \/ jobs[t].seen.status = "processing"
      BY <1>3 DEF Mark
    <3>2. jobs[t].seen.status = "processing" => new = report[x].status
      BY DEF Write
    <3>3. new \in {report[x].status, "processing"}
      BY DEF Write
    <3> QED
      BY <3>1, <3>2, <3>3
  <2>3. jobs'[t].pc = "collect"
    BY <1>0, <1>3 DEF Mark, JobState, Report
  <2> HIDE DEF new
  <2>4. /\ report'[x].status = new
        /\ \A s \in Sessions \ {x} : report'[s].status = report[s].status
    BY <1>0, <2>1 DEF Report
  <2> QED
    BY <1>0, <2>2, <2>3, <2>4, RowTypes, Abstraction
<1>4. CASE MarkStale(t) \/ CommitFails(t)
  BY <1>0, <1>1, <1>4 DEF MarkStale, CommitFails, rows
<1>5. CASE Thinks(t)
  BY <1>0, <1>1, <1>5, RowTypes, ThinkSteps
<1>6. CASE Fail(t)
  <2>1. CASE Exists(x)
    <3>1. report' = [report EXCEPT ![x].status = "failed"]
      BY <1>6, <2>1 DEF Fail
    <3>2. /\ report'[x].status = "failed"
          /\ \A s \in Sessions \ {x} : report'[s].status = report[s].status
      BY <1>0, <3>1 DEF Report
    <3> QED
      BY <1>0, <2>1, <3>2, Abstraction
  <2>2. CASE ~Exists(x)
    BY <1>0, <1>1, <1>6, <2>2 DEF Fail
  <2> QED
    BY <2>1, <2>2
<1>7. CASE Commit(t)
  <2> DEFINE insight == Write(jobs[t].seen.insight, Insight(t), report[x].insight)
  <2>1. /\ report' = [report EXCEPT ![x].status = "ready", ![x].insight = insight]
        /\ Exists(x)
    BY <1>7 DEF Commit
  <2> HIDE DEF insight
  <2>2. /\ report'[x].status = "ready"
        /\ \A s \in Sessions \ {x} : report'[s].status = report[s].status
    BY <1>0, <2>1 DEF Report
  <2> QED
    BY <1>0, <2>1, <2>2, Abstraction
<1> QED
  BY <1>2, <1>3, <1>4, <1>5, <1>6, <1>7 DEF RunReport, Thinks

(* A thread that gets a job, and one that has none before or after.        *)
LEMMA JobGiven ==
    ASSUME TypeInv, NEW t \in Threads, NEW x \in Sessions,
           \A u \in Threads : u # t => jobs'[u] = jobs[u],
           jobs[t].pc \in {"idle", "accept"}
    PROVE  /\ jobs'[t].pc \in {"idle", "accept"} /\ UNCHANGED <<recovering, lost>>
              => Pending' = Pending
           /\ /\ jobs'[t].pc \notin {"idle", "accept"} /\ jobs'[t].session = x
              /\ recovering' = recovering /\ lost' \in {lost, lost \ {x}}
              => Pending' = Pending \cup {x}
<1>0. lost \subseteq Sessions
  BY DEF TypeInv, TypeOK
<1>1. ASSUME jobs'[t].pc \in {"idle", "accept"}, UNCHANGED <<recovering, lost>>
      PROVE  Pending' = Pending
  <2>1. \A s \in Sessions : HasJob(s)' <=> HasJob(s)
    BY <1>1 DEF HasJob
  <2> QED
    BY <1>1, <2>1 DEF Pending
<1>2. ASSUME jobs'[t].pc \notin {"idle", "accept"}, jobs'[t].session = x,
             recovering' = recovering, lost' \in {lost, lost \ {x}}
      PROVE  Pending' = Pending \cup {x}
  <2>1. HasJob(x)' /\ \A s \in Sessions \ {x} : HasJob(s)' <=> HasJob(s)
    BY <1>2 DEF HasJob
  <2> QED
    BY <1>0, <1>2, <2>1 DEF Pending
<1> QED
  BY <1>1, <1>2

LEMMA RequestRefines ==
    ASSUME TypeInv, TypeInv', NEW s \in Sessions, NEW j \in Jobs,
           RegenerateCheck(s, j) \/ RegenerateStore(j) \/ RegenerateGone(j)
    PROVE  [Job!Next]_(Job!vars)
<1>0. j \in Threads /\ report \in [Sessions -> Report]
  BY DEF Threads, TypeInv, TypeOK
<1>1. CASE RegenerateCheck(s, j)
  <2>1. Pending' = Pending
    BY <1>0, <1>1, CheckSteps, JobGiven, RowTypes
  <2> QED
    BY <1>1, <2>1, CheckSteps, Abstraction DEF rows
<1>2. CASE RegenerateStore(j) \/ RegenerateGone(j)
  <2>1. PICK x \in Sessions : x = jobs[j].session
    BY <1>2, StoreSteps
  <2>2. /\ \A u \in Threads : u # j => jobs'[u] = jobs[u]
        /\ jobs[j].pc = "accept" /\ recovering' = recovering
        /\ \/ jobs'[j].pc = "idle"
           \/ jobs'[j].pc = "waiting" /\ jobs'[j].session = x
    BY <1>2, <2>1, StoreSteps, NewJobIs, RowTypes DEF RegenerateStore, RegenerateGone
  <2>3. CASE RegenerateStore(j)
    <3> DEFINE new == Write(jobs[j].seen.status, "queued", report[x].status)
    <3>1. report' = [report EXCEPT ![x].status = new] /\ lost' = lost \ {x}
      BY <2>1, <2>3 DEF RegenerateStore
    <3>2. new \in {"queued", report[x].status}
      BY DEF Write
    <3>3. jobs'[j].pc = "waiting" /\ jobs'[j].session = x
      <4>1. jobs' = [jobs EXCEPT ![j] = NewJob(x, jobs[j].run)]
        BY <2>1, <2>3 DEF RegenerateStore
      <4>2. jobs'[j] = NewJob(x, jobs[j].run)
        BY <1>0, <4>1 DEF TypeInv, TypeOK
      <4> QED
        BY <1>2, <2>1, <4>2, StoreSteps, NewJobIs
    <3>4. Pending' = Pending \cup {x}
      BY <1>0, <2>2, <3>1, <3>3, JobGiven
    <3> HIDE DEF new
    <3>5. /\ report'[x].status = new
          /\ \A r \in Sessions \ {x} : report'[r].status = report[r].status
      BY <1>0, <3>1 DEF Report
    <3> QED
      BY <3>2, <3>4, <3>5, Abstraction
  <2>4. CASE RegenerateGone(j)
    <3>1. report' = report /\ lost' = lost
      BY <2>4 DEF RegenerateGone, rows
    <3>2. Pending' \in {Pending, Pending \cup {x}}
      BY <1>0, <2>2, <3>1, JobGiven
    <3> QED
      BY <3>1, <3>2, Abstraction
  <2> QED
    BY <1>2, <2>3, <2>4
<1> QED
  BY <1>1, <1>2

LEMMA OthersRefine ==
    ASSUME TypeInv, TypeInv', NEW s \in Sessions,
           DeleteSession(s) \/ \E k \in Strategies : AnswerReady(s, k)
    PROVE  [Job!Next]_(Job!vars)
<1>0. report \in [Sessions -> Report]
  BY DEF TypeInv, TypeOK
<1>1. UNCHANGED <<jobs, recovering, lost>>
  BY DEF DeleteSession, AnswerReady
<1>2. Pending' = Pending
  BY <1>1 DEF Pending, HasJob
<1>3. CASE DeleteSession(s)
  <2>1. report' = [report EXCEPT ![s] = NoRow]
    BY <1>3 DEF DeleteSession
  <2>2. /\ report'[s].status = "absent"
        /\ \A r \in Sessions \ {s} : report'[r].status = report[r].status
    BY <1>0, <2>1, RowTypes
  <2> QED
    BY <1>2, <2>2, Abstraction
<1>4. ASSUME NEW k \in Strategies, AnswerReady(s, k) PROVE [Job!Next]_(Job!vars)
  BY <1>2, <1>4, Abstraction DEF AnswerReady
<1> QED
  BY <1>3, <1>4

LEMMA RecoveryRefines ==
    ASSUME TypeInv, TypeInv', Restart \/ RecoveryTakes
    PROVE  [Job!Next]_(Job!vars)
<1>1. CASE Restart
  <2>1. /\ \A t \in Threads : jobs'[t].pc = "idle"
        /\ report' = report /\ lost' = {}
    BY <1>1, RowTypes DEF Restart, rows
  <2>2. recovering' \in Orderings(Unfinished) /\ Unfinished \subseteq Sessions
    BY <1>1 DEF Restart, Unfinished
  <2>3. \A s \in Sessions : s \in Unfinished <=> \E i \in DOMAIN recovering' : recovering'[i] = s
    BY <2>2 DEF Orderings
  <2>4. \A s \in Sessions : HasJob(s)' <=> s \in Unfinished
    BY <2>1, <2>3 DEF HasJob
  <2>5. Pending' = Unfinished
    BY <2>1, <2>2, <2>4 DEF Pending
  <2>6. Job!Recover
    BY <2>1, <2>5 DEF Job!Recover, Job!Unfinished, Unfinished, Pending
  <2> QED
    BY <2>6 DEF Job!Next
<1>2. CASE RecoveryTakes
  <2> DEFINE x == recovering[1]
  <2>1. /\ x \in Sessions /\ recovering \in Seq(Sessions) /\ recovering # <<>>
        /\ recovering' \in Seq(Sessions) /\ Len(recovering') = Len(recovering) - 1
        /\ \A i \in 1 .. Len(recovering') : recovering'[i] = recovering[i + 1]
        /\ report' = report /\ lost' = lost
    BY <1>2, TakeSteps DEF TypeInv, TypeOK, rows
  <2>2. /\ "recovery" \in Threads /\ jobs["recovery"].pc = "idle"
        /\ \A u \in Threads : u # "recovery" => jobs'[u] = jobs[u]
        /\ jobs'["recovery"].pc = "waiting" /\ jobs'["recovery"].session = x
    BY <1>2, <2>1, TakeSteps, NewJobIs, RowTypes
  <2>3. \A s \in Sessions :
           (\E i \in DOMAIN recovering : recovering[i] = s)
           <=> s = x \/ \E i \in DOMAIN recovering' : recovering'[i] = s
    <3>1. DOMAIN recovering = 1 .. Len(recovering) /\ Len(recovering) \in Nat \ {0}
          /\ DOMAIN recovering' = 1 .. Len(recovering')
      BY <2>1
    <3>2. \A i \in 1 .. Len(recovering) : i = 1 \/ i - 1 \in 1 .. Len(recovering')
      BY <2>1, <3>1
    <3>3. \A i \in 1 .. Len(recovering') : i + 1 \in 1 .. Len(recovering)
      BY <2>1, <3>1
    <3>4. ASSUME NEW i \in 1 .. Len(recovering)
          PROVE  recovering[i] = x \/ \E n \in 1 .. Len(recovering') : recovering'[n] = recovering[i]
      <4>1. CASE i = 1
        BY <4>1
      <4>2. CASE i # 1
        <5>1. i - 1 \in 1 .. Len(recovering') /\ (i - 1) + 1 = i
          BY <3>2, <4>2
        <5>2. recovering'[i - 1] = recovering[i]
          BY <2>1, <5>1
        <5> QED
          BY <5>1, <5>2
      <4> QED
        BY <4>1, <4>2
    <3>5. 1 \in 1 .. Len(recovering)
      BY <3>1
    <3> QED
      BY <2>1, <3>1, <3>3, <3>4, <3>5
  <2>4. \A s \in Sessions : HasJob(s)' <=> HasJob(s)
    BY <2>2, <2>3 DEF HasJob
  <2>5. Pending' = Pending
    BY <2>1, <2>4 DEF Pending
  <2> QED
    BY <2>1, <2>5, Abstraction
<1> QED
  BY <1>1, <1>2

LEMMA StepRefines == TypeInv /\ TypeInv' /\ [Next]_vars => [Job!Next]_(Job!vars)
<1> SUFFICES ASSUME TypeInv, TypeInv', [Next]_vars PROVE [Job!Next]_(Job!vars)
  OBVIOUS
<1>1. CASE UNCHANGED vars
  BY <1>1 DEF vars, rows, Job!vars, HasJob
<1>2. ASSUME NEW j \in Jobs, RegenerateStore(j) \/ RegenerateGone(j)
      PROVE  [Job!Next]_(Job!vars)
  <2>1. jobs[j].session \in Sessions
    BY <1>2, StoreSteps
  <2> QED
    BY <1>2, <2>1, RequestRefines
<1> QED
  BY <1>1, <1>2, WorkRefines, RequestRefines, OthersRefine, RecoveryRefines DEF Next

LEMMA InitRefines == Init => Job!Init
<1> SUFFICES ASSUME Init PROVE Job!Init
  OBVIOUS
<1>1. PICK task \in Injection(Sessions, Jobs) :
          jobs = [t \in Threads |-> IF \E s \in Sessions : task[s] = t
                                   THEN NewJob(CHOOSE s \in Sessions : task[s] = t, 1)
                                   ELSE Idle]
  BY DEF Init
<1>2. ASSUME NEW s \in Sessions PROVE HasJob(s)
  <2>1. task[s] \in Threads /\ \A r \in Sessions : task[r] = task[s] => r = s
    BY <1>1 DEF Injection, IsInjective, Threads
  <2>2. (CHOOSE r \in Sessions : task[r] = task[s]) = s
    BY <2>1
  <2>3. jobs[task[s]] = NewJob(s, 1)
    BY <1>1, <2>1, <2>2
  <2> QED
    BY <2>1, <2>3, NewJobIs, Numbers DEF HasJob
<1>3. /\ lost = {} /\ \A s \in Sessions : report[s].status = "queued"
  BY DEF Init
<1> QED
  BY <1>2, <1>3 DEF Job!Init, Job!TypeOK, Job!Covered, Job!AsyncStatus, Job!Unfinished

(* Requests, late answers, jobs that fail, collide or die, deletions and   *)
(* restarts only ever move the reports as AsyncJob allows, if what an      *)
(* exception leaves to nobody is counted as pending (run_report,           *)
(* regenerate_report, recover).                                            *)
THEOREM ImplementsAsyncJob == Spec => ReportPolled
  BY InitRefines, InitTypeInv, StepTypeInv, StepRefines, PTL
     DEF Spec, ReportPolled, Job!Spec
=============================================================================
