-------------------------- MODULE QnaSessionProofs --------------------------
(***************************************************************************)
(* Proofs about QnaSession, for every number of questions, set of request  *)
(* threads, set of formats, queue bound and number of restarts.            *)
(***************************************************************************)
EXTENDS QnaSession, FiniteSetTheorems, TLAPS

(* Questions as pairs: what the projections return, and that the null      *)
(* question is not one of them.                                            *)
LEMMA QuestionFacts ==
    /\ NoQuestion \notin QuestionIds
    /\ \A i \in 1 .. N : Primary(i) \in QuestionIds /\ Order(Primary(i)) = i
                          /\ Depth(Primary(i)) = 0
    /\ \A q \in QuestionIds :
          /\ Order(q) \in 1 .. N
          /\ Depth(q) \in {0, 1}
          /\ q = <<Order(q), Depth(q)>>
          /\ Depth(q) < MAX_FOLLOW_UP_DEPTH => Child(q) \in QuestionIds
          /\ Order(Child(q)) = Order(q) /\ Depth(Child(q)) = Depth(q) + 1
  BY QnaAssumption DEF NoQuestion, QuestionIds, Primary, Order, Depth, Child,
                       MAX_FOLLOW_UP_DEPTH

(* A recovered queue is a sequence of the unfinished questions, each of    *)
(* them in it.                                                             *)
LEMMA OrderingsFacts ==
    ASSUME NEW S \in SUBSET QuestionIds, NEW s \in Orderings(S)
    PROVE  /\ s \in Seq(QuestionIds)
           /\ \A i \in 1 .. Len(s) : s[i] \in S
           /\ \A x \in S : \E i \in 1 .. Len(s) : s[i] = x
<1>1. IsFiniteSet(QuestionIds)
  <2>0. N \in Int /\ 0 \in Int /\ 1 \in Int
    BY QnaAssumption
  <2>1. IsFiniteSet(1 .. N) /\ IsFiniteSet(0 .. MAX_FOLLOW_UP_DEPTH)
    BY <2>0, FS_Interval DEF MAX_FOLLOW_UP_DEPTH
  <2> QED
    BY <2>1, FS_Product DEF QuestionIds
<1>2. IsFiniteSet(S) /\ Cardinality(S) \in Nat
  BY <1>1, FS_Subset, FS_CardinalityType
<1>3. s \in [1 .. Cardinality(S) -> S]
  BY DEF Orderings
<1>4. Len(s) = Cardinality(S) /\ s \in Seq(S)
  BY <1>2, <1>3
<1>5. \A x \in S : \E i \in DOMAIN s : s[i] = x
  BY DEF Orderings
<1> QED
  BY <1>2, <1>3, <1>4, <1>5

-----------------------------------------------------------------------------
(* Every row written is a row of the table.                                *)
LEMMA RowTypes ==
    /\ NoAnswer \in Answer
    /\ PassedRow \in Answer
    /\ \A key \in Exts : SubmittedRow(key) \in Answer
    /\ Idle \in HandlerState
    /\ WorkerIdle \in WorkerState
  BY DEF NoAnswer, PassedRow, SubmittedRow, Answer, Idle, HandlerState, NoKey,
         WorkerIdle, WorkerState

LEMMA InitTypeOK == Init => TypeOK
<1> SUFFICES ASSUME Init PROVE TypeOK
  OBVIOUS
<1>1. current \in QuestionIds /\ questions \subseteq QuestionIds
  BY QuestionFacts, QnaAssumption DEF Init
<1> QED
  BY <1>1, RowTypes, QnaAssumption DEF Init, TypeOK

(* The shared step that moves the session on stays within the types.       *)
LEMMA AdvanceTypes ==
    ASSUME TypeOK, NEW q \in QuestionIds,
           NEW reason \in {"count_reached", "timeout"},
           _advance_to_next_primary(q, reason)
    PROVE  /\ status' \in {"qna", "completed"}
           /\ current' \in QuestionIds \cup {NoQuestion}
           /\ endedReason' \in {"none", "user_end", "count_reached", "timeout"}
           /\ report' \in {"none", "queued"}
  BY DEF _advance_to_next_primary, HasNextPrimary, end_session, TypeOK

LEMMA InitTypeInv == Init => TypeInv
<1> SUFFICES ASSUME Init PROVE TypeInv
  OBVIOUS
<1>1. TypeOK
  BY InitTypeOK
<1>2. BusyNamed
  BY DEF Init, BusyNamed, Idle, WorkerIdle
<1> QED
  BY <1>1, <1>2 DEF TypeInv

(* Requests and what they commit.                                          *)
LEMMA RequestTypeInv ==
    ASSUME TypeInv, NEW h \in Handlers, Request(h) \/ Serve(h)
    PROVE  TypeInv'
<1> USE DEF TypeInv
<1>0. /\ NoQuestion \notin QuestionIds
      /\ handlers[h] \in HandlerState
      /\ Idle \in HandlerState
  BY QuestionFacts, RowTypes DEF TypeOK
<1>1. ASSUME NEW q \in QuestionIds, NEW ext \in Exts, SubmitCheck(h, q, ext)
      PROVE  TypeInv'
  BY <1>0, <1>1 DEF SubmitCheck, TypeOK, BusyNamed, HandlerState, Idle, database, sessionRow
<1>2. ASSUME NEW q \in QuestionIds, NEW reason \in {"user", "timeout"},
             PassCheck(h, q, reason)
      PROVE  TypeInv'
  <2>1. /\ handlers' \in [Handlers -> HandlerState]
        /\ handlers'[h].q = q /\ handlers'[h].pc = "pass"
        /\ \A g \in Handlers \ {h} : handlers'[g] = handlers[g]
    BY <1>0, <1>2 DEF PassCheck, TypeOK, HandlerState, Idle
  <2> QED
    BY <2>1, <1>2 DEF PassCheck, TypeOK, BusyNamed, database, sessionRow
<1>3. CASE EndCheck(h)
  BY <1>0, <1>3 DEF EndCheck, TypeOK, BusyNamed, HandlerState, Idle, database, sessionRow
<1>4. CASE SubmitSave(h)
  BY <1>0, <1>4 DEF SubmitSave, TypeOK, BusyNamed, HandlerState, database, sessionRow
<1>5. CASE SubmitStore(h)
  <2> DEFINE q == handlers[h].q
  <2>1. q \in QuestionIds /\ handlers[h].key \in Exts
    BY <1>5 DEF SubmitStore, BusyNamed
  <2>2. answers' \in [QuestionIds -> Answer]
    BY <2>1, <1>5, RowTypes DEF SubmitStore, TypeOK
  <2>3. handlers' \in [Handlers -> HandlerState]
    BY <2>1, <1>0, <1>5 DEF SubmitStore, TypeOK, HandlerState, Answer
  <2> QED
    BY <2>1, <2>2, <2>3, <1>5 DEF SubmitStore, TypeOK, BusyNamed, sessionRow
<1>6. CASE SubmitEnqueue(h)
  <2>1. handlers[h].q \in QuestionIds
    BY <1>6 DEF SubmitEnqueue, BusyNamed
  <2> QED
    BY <2>1, <1>0, <1>6 DEF SubmitEnqueue, TypeOK, BusyNamed, Idle, database, sessionRow
<1>7. CASE PassStore(h)
  <2> DEFINE q == handlers[h].q
  <2>1. q \in QuestionIds /\ PassReason(handlers[h].reason) \in {"count_reached", "timeout"}
    BY <1>7 DEF PassStore, BusyNamed, PassReason
  <2>2. /\ status' \in {"qna", "completed"}
        /\ current' \in QuestionIds \cup {NoQuestion}
        /\ endedReason' \in {"none", "user_end", "count_reached", "timeout"}
        /\ report' \in {"none", "queued"}
    BY <2>1, <1>7, AdvanceTypes DEF PassStore
  <2>3. answers' \in [QuestionIds -> Answer]
    BY <2>1, <1>7, RowTypes DEF PassStore, TypeOK
  <2>4. handlers' \in [Handlers -> HandlerState]
    BY <2>1, <1>0, <1>7 DEF PassStore, TypeOK, HandlerState, Answer
  <2> QED
    BY <2>1, <2>2, <2>3, <2>4, <1>7 DEF PassStore, TypeOK, BusyNamed
<1>8. CASE PassDone(h)
  BY <1>0, <1>8 DEF PassDone, TypeOK, BusyNamed, Idle, database, sessionRow
<1>9. CASE EndStore(h)
  BY <1>0, <1>9 DEF EndStore, end_session, TypeOK, BusyNamed, HandlerState
<1>10. CASE EndDone(h)
  BY <1>0, <1>10 DEF EndDone, TypeOK, BusyNamed, Idle, database, sessionRow
<1> QED
  BY <1>1, <1>2, <1>3, <1>4, <1>5, <1>6, <1>7, <1>8, <1>9, <1>10 DEF Request, Serve

(* The worker's partial writes keep a row in the table's type.             *)
LEMMA WriteTypes ==
    /\ \A q \in QuestionIds, r \in Answer, row \in Answer :
          \A new \in {"failed", "ready"}, fu \in {"none", "generated"} :
            /\ Write(r.status, new, row.status) \in
                  {"pending", "processing", "ready", "failed"}
            /\ Write(r.follow_up, fu, row.follow_up) \in {"pending", "generated", "none"}
  BY DEF Write, Answer

LEMMA VerdictTypes ==
    ASSUME TypeOK, NEW q \in QuestionIds, NEW fu \in {"none", "generated"}
    PROVE  [answers EXCEPT ![q].follow_up = Write(worker.seen.follow_up, fu, @)]
               \in [QuestionIds -> Answer]
<1>1. answers[q] \in Answer /\ worker.seen \in Answer /\ answers \in [QuestionIds -> Answer]
  BY DEF TypeOK, WorkerState
<1> DEFINE row == [answers[q] EXCEPT !.follow_up = Write(worker.seen.follow_up, fu, @)]
<1>2. row \in Answer
  BY <1>1, WriteTypes DEF Answer
<1>3. [answers EXCEPT ![q].follow_up = Write(worker.seen.follow_up, fu, @)]
          = [answers EXCEPT ![q] = row]
  OBVIOUS
<1> QED
  BY <1>1, <1>2, <1>3

LEMMA WorkerTypeInv ==
    ASSUME TypeInv, Worker
    PROVE  TypeInv'
<1> USE DEF TypeInv
<1> DEFINE q == worker.q
<1>0. /\ worker \in WorkerState
      /\ WorkerIdle \in WorkerState
      /\ WorkerIdle.pc = "idle" /\ ~WorkerIdle.draft
      /\ worker.pc # "idle" => q \in QuestionIds
  BY RowTypes DEF TypeOK, BusyNamed, WorkerIdle
<1>1. CASE WorkerTake
  <2>1. Head(queue) \in QuestionIds /\ Tail(queue) \in Seq(QuestionIds)
    BY <1>1 DEF WorkerTake, TypeOK
  <2>2. worker' \in WorkerState /\ worker'.q \in QuestionIds
    BY <2>1, <1>1 DEF WorkerTake, TypeOK, WorkerState
  <2> QED
    BY <2>1, <2>2, <1>1 DEF WorkerTake, TypeOK, BusyNamed, database, sessionRow
<1>2. CASE WorkerTranscribe
  BY <1>0, <1>2 DEF WorkerTranscribe, TypeOK, BusyNamed, WorkerState, database, sessionRow
<1>3. CASE WorkerFail
  <2>1. answers' \in [QuestionIds -> Answer]
    <3> DEFINE row == [answers[q] EXCEPT
                          !.status    = Write(worker.seen.status, "failed", @),
                          !.follow_up = Write(worker.seen.follow_up, "none", @)]
    <3>1. q \in QuestionIds /\ answers[q] \in Answer /\ worker.seen \in Answer
      BY <1>0, <1>3 DEF WorkerFail, TypeOK, WorkerState
    <3>2. row \in Answer
      BY <3>1, WriteTypes DEF Answer
    <3>3. answers' = [answers EXCEPT ![q] = row]
      BY <3>1, <1>3 DEF WorkerFail, TypeOK
    <3> QED
      BY <3>1, <3>2, <3>3 DEF TypeOK
  <2> QED
    BY <2>1, <1>0, <1>3 DEF WorkerFail, TypeOK, BusyNamed, sessionRow
<1>4. CASE WorkerText
  <2>1. answers' \in [QuestionIds -> Answer]
    <3>1. q \in QuestionIds /\ answers[q] \in Answer /\ worker.seen \in Answer
      BY <1>0, <1>4 DEF WorkerText, TypeOK, WorkerState
    <3>2. PICK same \in BOOLEAN : answers' = [answers EXCEPT
            ![q].text   = IF same THEN @ ELSE TRUE,
            ![q].status = Write(worker.seen.status, "ready", @)]
      BY <1>4 DEF WorkerText
    <3> DEFINE row == [answers[q] EXCEPT
                          !.text   = IF same THEN @ ELSE TRUE,
                          !.status = Write(worker.seen.status, "ready", @)]
    <3>3. row \in Answer
      BY <3>1, WriteTypes DEF Answer
    <3>4. answers' = [answers EXCEPT ![q] = row]
      BY <3>1, <3>2 DEF TypeOK
    <3> QED
      BY <3>1, <3>3, <3>4 DEF TypeOK
  <2>2. worker' \in WorkerState
    BY <1>0, <1>4 DEF WorkerText, WorkerState, Answer
  <2> QED
    BY <2>1, <2>2, <1>0, <1>4 DEF WorkerText, TypeOK, BusyNamed, WorkerState, sessionRow
<1>5. CASE WorkerLate
  <2>1. answers' \in [QuestionIds -> Answer]
    BY <1>0, <1>5, VerdictTypes DEF WorkerLate
  <2> QED
    BY <2>1, <1>0, <1>5 DEF WorkerLate, TypeOK, BusyNamed, sessionRow
<1>6. CASE WorkerDecide
  BY <1>0, <1>6 DEF WorkerDecide, CanFollow, TypeOK, BusyNamed, WorkerState, database,
                    sessionRow
<1>7. CASE WorkerFollowUp
  BY <1>0, <1>7 DEF WorkerFollowUp, TypeOK, BusyNamed, WorkerState, database, sessionRow
<1>8. CASE WorkerInsertFollowUp
  <2>1. Child(q) \in QuestionIds
    BY <1>0, <1>8, QuestionFacts DEF WorkerInsertFollowUp, BusyNamed
  <2>2. answers' \in [QuestionIds -> Answer]
    BY <1>0, <1>8, VerdictTypes DEF WorkerInsertFollowUp
  <2> QED
    BY <2>1, <2>2, <1>0, <1>8 DEF WorkerInsertFollowUp, TypeOK, BusyNamed, WorkerState
<1>9. CASE WorkerRollback
  BY <1>0, <1>9 DEF WorkerRollback, TypeOK, BusyNamed, database, sessionRow
<1>10. CASE WorkerAdvance
  <2>1. answers' \in [QuestionIds -> Answer]
    BY <1>0, <1>10, VerdictTypes DEF WorkerAdvance
  <2>2. /\ status' \in {"qna", "completed"}
        /\ current' \in QuestionIds \cup {NoQuestion}
        /\ endedReason' \in {"none", "user_end", "count_reached", "timeout"}
        /\ report' \in {"none", "queued"}
    BY <1>0, <1>10, AdvanceTypes DEF WorkerAdvance
  <2> QED
    BY <2>1, <2>2, <1>0, <1>10 DEF WorkerAdvance, TypeOK, BusyNamed, WorkerState
<1>11. CASE WorkerSpeak
  BY <1>0, <1>11 DEF WorkerSpeak, TypeOK, BusyNamed, database, sessionRow
<1>12. CASE WorkerReport
  BY <1>0, <1>12 DEF WorkerReport, TypeOK, BusyNamed, database, sessionRow
<1> QED
  BY <1>1, <1>2, <1>3, <1>4, <1>5, <1>6, <1>7, <1>8, <1>9, <1>10, <1>11, <1>12 DEF Worker

LEMMA RestartTypeInv ==
    ASSUME TypeInv, Restart
    PROVE  TypeInv'
<1>1. queue' \in Seq(QuestionIds)
  BY OrderingsFacts DEF Restart, Unfinished
<1>2. crashes' \in 0 .. MaxCrashes
  BY QnaAssumption DEF Restart, TypeInv, TypeOK
<1>3. WorkerIdle.pc = "idle" /\ ~WorkerIdle.draft /\ Idle.pc = "idle"
  BY DEF WorkerIdle, Idle
<1> QED
  BY <1>1, <1>2, <1>3, RowTypes
     DEF Restart, TypeInv, TypeOK, BusyNamed, database, sessionRow

LEMMA StepTypeInv == TypeInv /\ [Next]_vars => TypeInv'
<1>1. CASE UNCHANGED vars
  BY <1>1 DEF vars, database, sessionRow, TypeInv, TypeOK, BusyNamed
<1> QED
  BY <1>1, RequestTypeInv, WorkerTypeInv, RestartTypeInv DEF Next

(* Every reachable state has the types of the tables and threads.          *)
THEOREM TypeCorrect == Spec => []TypeOK
<1>1. TypeInv => TypeOK
  BY DEF TypeInv
<1> QED
  BY <1>1, InitTypeInv, StepTypeInv, PTL DEF Spec

-----------------------------------------------------------------------------
(* What the worker's commits leave alone: no row appears, disappears or     *)
(* becomes processing, and no primary question is lost.                    *)
LEMMA WorkerKeepsRows ==
    ASSUME TypeInv, Worker
    PROVE  /\ \A q \in QuestionIds :
                /\ Present(q)' <=> Present(q)
                /\ answers'[q].kind = answers[q].kind
                /\ answers'[q].status = "processing" => answers[q].status = "processing"
           /\ questions \subseteq questions'
<1> USE DEF TypeInv
<1>0. /\ answers \in [QuestionIds -> Answer]
      /\ worker.pc # "idle" => worker.q \in QuestionIds
  BY DEF TypeOK, BusyNamed
<1>1. CASE WorkerFail
  BY <1>0, <1>1 DEF WorkerFail, Present, Answer, Write
<1>2. CASE WorkerText
  BY <1>0, <1>2 DEF WorkerText, Present, Answer, Write
<1>3. CASE WorkerLate
  BY <1>0, <1>3 DEF WorkerLate, Present, Answer
<1>4. CASE WorkerInsertFollowUp
  BY <1>0, <1>4 DEF WorkerInsertFollowUp, Present, Answer
<1>5. CASE WorkerAdvance
  BY <1>0, <1>5 DEF WorkerAdvance, Present, Answer
<1>6. CASE UNCHANGED database
  BY <1>6 DEF database, Present
<1> QED
  BY <1>1, <1>2, <1>3, <1>4, <1>5, <1>6
     DEF Worker, WorkerTake, WorkerTranscribe, WorkerDecide, WorkerFollowUp,
         WorkerRollback, WorkerSpeak, WorkerReport

(* An answers row, once there, stays; the primary questions stay.          *)
LEMMA RowsStay ==
    ASSUME TypeInv, [Next]_vars
    PROVE  /\ \A q \in QuestionIds : Present(q) => Present(q)'
           /\ questions \subseteq questions'
<1>1. ASSUME NEW h \in Handlers, SubmitStore(h)
      PROVE  \A q \in QuestionIds : Present(q) => Present(q)'
  BY <1>1 DEF SubmitStore, Present, SubmittedRow, TypeInv, TypeOK
<1>2. ASSUME NEW h \in Handlers, PassStore(h)
      PROVE  \A q \in QuestionIds : Present(q) => Present(q)'
  BY <1>2 DEF PassStore, Present, PassedRow, TypeInv, TypeOK
<1>3. ASSUME NEW h \in Handlers, Request(h) \/ Serve(h)
      PROVE  /\ \A q \in QuestionIds : Present(q) => Present(q)'
             /\ questions' = questions
  BY <1>1, <1>2, <1>3 DEF Request, Serve, SubmitCheck, PassCheck, EndCheck, SubmitSave,
        SubmitStore, SubmitEnqueue, PassStore, PassDone, EndStore, EndDone, Present,
        database, sessionRow
<1>4. CASE Restart \/ UNCHANGED vars
  BY <1>4 DEF Restart, vars, database, Present
<1> QED
  BY <1>3, <1>4, WorkerKeepsRows DEF Next

(* So what was once behind the current question stays behind it.           *)
LEMMA ReachedStays ==
    ASSUME TypeInv, [Next]_vars
    PROVE  \A q \in QuestionIds : Reached(q) => Reached(q)'
  BY RowsStay, QuestionFacts DEF Reached

(* Moving on from a question that has a row keeps the order.               *)
LEMMA AdvanceReached ==
    ASSUME TypeInv, ReachedInv, [Next]_vars, NEW q \in QuestionIds,
           NEW reason \in {"count_reached", "timeout"},
           _advance_to_next_primary(q, reason),
           Reached(q), Present(q)'
    PROVE  NoQuestionSkipped'
<1>1. \A i \in 1 .. N : i <= Order(q) => Present(Primary(i))'
  <2> SUFFICES ASSUME NEW i \in 1 .. N, i <= Order(q) PROVE Present(Primary(i))'
    OBVIOUS
  <2>1. Order(q) \in 1 .. N /\ Depth(q) \in {0, 1} /\ q = <<Order(q), Depth(q)>>
    BY QuestionFacts
  <2>2. CASE i < Order(q) \/ Depth(q) > 0
    <3>1. Present(Primary(i))
      BY <2>1, <2>2, QnaAssumption DEF Reached
    <3> QED
      BY <3>1, RowsStay, QuestionFacts
  <2>3. CASE i = Order(q) /\ Depth(q) = 0
    <3>1. Primary(i) = q
      BY <2>1, <2>3 DEF Primary
    <3> QED
      BY <3>1
  <2> QED
    BY <2>1, <2>2, <2>3, QnaAssumption
<1>2. CASE HasNextPrimary(q)
  <2>1. current' = Primary(Order(q) + 1) /\ endedReason' = endedReason
    BY <1>2 DEF _advance_to_next_primary
  <2>2. Order(q) + 1 \in 1 .. N
    BY <1>2, QuestionFacts, QnaAssumption
       DEF HasNextPrimary, TypeInv, TypeOK, QuestionIds, Primary
  <2>3. Order(Primary(Order(q) + 1)) = Order(q) + 1 /\ Depth(Primary(Order(q) + 1)) = 0
    BY <2>2, QuestionFacts
  <2>4. Reached(Primary(Order(q) + 1))'
    BY <1>1, <2>2, <2>3, QuestionFacts, QnaAssumption DEF Reached
  <2>5. endedReason \in {"count_reached", "timeout"} =>
            \A i \in 1 .. N : Present(Primary(i))'
    BY RowsStay, QuestionFacts DEF ReachedInv, NoQuestionSkipped
  <2> QED
    BY <2>1, <2>4, <2>5 DEF NoQuestionSkipped
<1>3. CASE ~HasNextPrimary(q)
  <2>1. current' = NoQuestion
    BY <1>3 DEF _advance_to_next_primary, end_session
  <2>2. Order(q) + 1 \notin 1 .. N
    BY <1>3 DEF HasNextPrimary, ReachedInv, RowsReached
  <2>3. Order(q) = N
    BY <2>2, QuestionFacts, QnaAssumption
  <2>4. \A i \in 1 .. N : Present(Primary(i))'
    BY <1>1, <2>3, QnaAssumption
  <2> QED
    BY <2>1, <2>4 DEF NoQuestionSkipped
<1> QED
  BY <1>2, <1>3

LEMMA InitReachedInv == Init => ReachedInv
<1> SUFFICES ASSUME Init PROVE ReachedInv
  OBVIOUS
<1>1. \A q \in QuestionIds : ~Present(q) /\ answers[q].status = "pending"
  BY DEF Init, Present, NoAnswer
<1>2. RowsReached
  BY <1>1 DEF Init, RowsReached
<1>3. ThreadsReached
  BY DEF Init, ThreadsReached, Idle, WorkerIdle
<1>4. 1 \in 1 .. N
  BY QnaAssumption
<1>5. Order(Primary(1)) = 1 /\ Depth(Primary(1)) = 0
  BY <1>4, QuestionFacts
<1>6. Reached(Primary(1))
  BY <1>5 DEF Reached
<1>7. NoQuestionSkipped
  BY <1>6 DEF Init, NoQuestionSkipped
<1> QED
  BY <1>2, <1>3, <1>7 DEF ReachedInv

(* The rows: they stay reached, and a request or the worker adds or marks  *)
(* only rows of reached questions.                                         *)
LEMMA StepReachedRows ==
    ASSUME TypeInv, ReachedInv, [Next]_vars
    PROVE  RowsReached'
<1>1. {Primary(i) : i \in 1 .. N} \subseteq questions'
  BY RowsStay DEF ReachedInv, RowsReached
<1>2. \A q \in QuestionIds : Present(q)' => Present(q) \/ Reached(q)
  <2>1. ASSUME NEW h \in Handlers, Request(h) \/ Serve(h)
        PROVE  \A q \in QuestionIds : Present(q)' => Present(q) \/ Reached(q)
    <3>1. CASE SubmitStore(h)
      BY <3>1 DEF SubmitStore, Present, TypeInv, TypeOK, BusyNamed, ReachedInv, ThreadsReached
    <3>2. CASE PassStore(h)
      BY <3>2 DEF PassStore, Present, TypeInv, TypeOK, BusyNamed, ReachedInv, ThreadsReached
    <3>3. CASE answers' = answers
      BY <3>3 DEF Present
    <3> QED
      BY <2>1, <3>1, <3>2, <3>3 DEF Request, Serve, SubmitCheck, PassCheck, EndCheck,
            SubmitSave, SubmitEnqueue, PassDone, EndStore, EndDone, database
  <2>2. CASE Worker
    BY <2>2, WorkerKeepsRows
  <2>3. CASE Restart \/ UNCHANGED vars
    BY <2>3 DEF Restart, vars, database, Present
  <2> QED
    BY <2>1, <2>2, <2>3 DEF Next
<1>3. \A q \in QuestionIds : Present(q)' => Reached(q)'
  BY <1>2, ReachedStays DEF ReachedInv, RowsReached
<1>4. \A q \in QuestionIds : answers'[q].status = "processing" => Present(q)'
  <2>1. ASSUME NEW h \in Handlers, Request(h) \/ Serve(h)
        PROVE  \A q \in QuestionIds : answers'[q].status = "processing" => Present(q)'
    <3>1. CASE SubmitStore(h)
      BY <3>1 DEF SubmitStore, SubmittedRow, Present, TypeInv, TypeOK, ReachedInv, RowsReached
    <3>2. CASE PassStore(h)
      BY <3>2 DEF PassStore, PassedRow, Present, TypeInv, TypeOK, ReachedInv, RowsReached
    <3>3. CASE answers' = answers
      BY <3>3 DEF Present, ReachedInv, RowsReached
    <3> QED
      BY <2>1, <3>1, <3>2, <3>3 DEF Request, Serve, SubmitCheck, PassCheck, EndCheck,
            SubmitSave, SubmitEnqueue, PassDone, EndStore, EndDone, database
  <2>2. CASE Worker
    BY <2>2, WorkerKeepsRows DEF ReachedInv, RowsReached
  <2>3. CASE Restart \/ UNCHANGED vars
    BY <2>3 DEF Restart, vars, database, Present, ReachedInv, RowsReached
  <2> QED
    BY <2>1, <2>2, <2>3 DEF Next
<1> QED
  BY <1>1, <1>3, <1>4 DEF RowsReached

(* The threads and the queue: each acts on a reached question.             *)
LEMMA StepReachedThreads ==
    ASSUME TypeInv, ReachedInv, [Next]_vars
    PROVE  ThreadsReached'
<1>0. /\ handlers \in [Handlers -> HandlerState]
      /\ \A h \in Handlers :
            handlers[h].pc \in {"save", "store", "enqueue", "pass", "passed"} =>
                handlers[h].q \in QuestionIds
      /\ queue \in Seq(QuestionIds)
      /\ worker.pc # "idle" => worker.q \in QuestionIds
  BY DEF TypeInv, TypeOK, BusyNamed
<1>1. \A q \in QuestionIds : (Present(q) => Present(q)') /\ (Reached(q) => Reached(q)')
  BY RowsStay, ReachedStays
<1> DEFINE Keeps(h) == \/ handlers'[h] = handlers[h]
                       \/ handlers'[h].pc \notin {"save", "store", "pass", "enqueue"}
<1>2. ASSUME \A h \in Handlers : Keeps(h)
      PROVE  \A h \in Handlers :
                /\ handlers'[h].pc \in {"save", "store", "pass"} => Reached(handlers[h].q)'
                /\ handlers'[h].pc = "enqueue" => Present(handlers[h].q)'
  BY <1>0, <1>1, <1>2 DEF ReachedInv, ThreadsReached, Reached, Present
<1>3. ASSUME queue' = queue
      PROVE  \A i \in 1 .. Len(queue') : Present(queue[i])'
  <2>1. \A i \in 1 .. Len(queue) : queue[i] \in QuestionIds
    BY <1>0
  <2> QED
    BY <1>3, <2>1, <1>1 DEF ReachedInv, ThreadsReached, Present
<1>4. ASSUME worker'.pc # "idle" => worker.pc # "idle" /\ worker'.q = worker.q
      PROVE  worker'.pc # "idle" => Present(worker.q)'
  BY <1>0, <1>1, <1>4 DEF ReachedInv, ThreadsReached, Present
<1>5. ASSUME NEW h \in Handlers, Request(h) \/ Serve(h)
      PROVE  ThreadsReached'
  <2>0. worker' = worker
    BY <1>5 DEF Request, Serve, SubmitCheck, PassCheck, EndCheck, SubmitSave,
         SubmitStore, SubmitEnqueue, PassStore, PassDone, EndStore, EndDone
  <2>1. worker'.pc # "idle" => Present(worker.q)'
    BY <2>0, <1>4
  <2>2. CASE SubmitEnqueue(h)
    <3>1. handlers[h].q \in QuestionIds /\ Present(handlers[h].q)
      BY <1>0, <2>2 DEF SubmitEnqueue, ReachedInv, ThreadsReached
    <3>2. \A i \in 1 .. Len(queue') : queue'[i] = handlers[h].q \/
                 (i \in 1 .. Len(queue) /\ queue'[i] = queue[i])
      BY <1>0, <3>1, <2>2 DEF SubmitEnqueue
    <3>3. \A i \in 1 .. Len(queue') : Present(queue[i])'
      BY <1>0, <1>1, <3>1, <3>2 DEF ReachedInv, ThreadsReached, Present
    <3>4. \A g \in Handlers : Keeps(g)
      BY <1>0, <2>2 DEF SubmitEnqueue, Idle
    <3> QED
      BY <3>3, <3>4, <1>2, <2>1 DEF ThreadsReached
  <2>3. CASE SubmitStore(h)
    <3>1. handlers[h].q \in QuestionIds
      BY <1>0, <2>3 DEF SubmitStore
    <3>2. handlers'[h].q = handlers[h].q /\ handlers'[h].pc = "enqueue"
      BY <1>0, <2>3 DEF SubmitStore, HandlerState
    <3>3. Present(handlers[h].q)'
      BY <3>1, <3>2, <2>3 DEF SubmitStore, Present, SubmittedRow, TypeInv, TypeOK
    <3>4. \A g \in Handlers \ {h} : handlers'[g] = handlers[g]
      BY <1>0, <2>3 DEF SubmitStore
    <3>5. \A g \in Handlers \ {h} :
             /\ handlers'[g].pc \in {"save", "store", "pass"} => Reached(handlers[g].q)'
             /\ handlers'[g].pc = "enqueue" => Present(handlers[g].q)'
      BY <3>4, <1>0, <1>1 DEF ReachedInv, ThreadsReached, Reached, Present
    <3>6. queue' = queue
      BY <2>3 DEF SubmitStore
    <3> QED
      BY <3>2, <3>3, <3>5, <3>6, <1>3, <2>1 DEF ThreadsReached
  <2>4. ASSUME /\ queue' = queue
               /\ \A g \in Handlers \ {h} : handlers'[g] = handlers[g]
               /\ handlers'[h].q \in QuestionIds /\ Reached(handlers'[h].q)
               /\ handlers'[h].pc # "enqueue"
        PROVE  ThreadsReached'
    <3>1. Reached(handlers[h].q)'
      BY <2>4, <1>1 DEF Reached
    <3>5. \A g \in Handlers \ {h} :
             /\ handlers'[g].pc \in {"save", "store", "pass"} => Reached(handlers[g].q)'
             /\ handlers'[g].pc = "enqueue" => Present(handlers[g].q)'
      BY <2>4, <1>0, <1>1 DEF ReachedInv, ThreadsReached, Reached, Present
    <3> QED
      BY <3>1, <3>5, <1>3, <2>1, <2>4 DEF ThreadsReached
  <2>5. ASSUME NEW q \in QuestionIds, NEW ext \in Exts, SubmitCheck(h, q, ext)
        PROVE  ThreadsReached'
    <3>1. Reached(q) /\ q # NoQuestion
      BY <2>5, QuestionFacts DEF SubmitCheck, ReachedInv, NoQuestionSkipped
    <3>2. handlers'[h].q = q /\ handlers'[h].pc = "save"
      BY <1>0, <2>5 DEF SubmitCheck, Idle
    <3> QED
      BY <3>1, <3>2, <1>0, <2>5, <2>4 DEF SubmitCheck
  <2>6. ASSUME NEW q \in QuestionIds, NEW reason \in {"user", "timeout"},
               PassCheck(h, q, reason)
        PROVE  ThreadsReached'
    <3>1. Reached(q) /\ q # NoQuestion
      BY <2>6, QuestionFacts DEF PassCheck, ReachedInv, NoQuestionSkipped
    <3>2. handlers'[h].q = q /\ handlers'[h].pc = "pass"
      BY <1>0, <2>6 DEF PassCheck, Idle
    <3> QED
      BY <3>1, <3>2, <1>0, <2>6, <2>4 DEF PassCheck
  <2>7. CASE SubmitSave(h)
    <3>1. handlers'[h].q = handlers[h].q /\ handlers'[h].pc = "store"
      BY <1>0, <2>7 DEF SubmitSave, HandlerState
    <3>2. handlers[h].q \in QuestionIds /\ Reached(handlers[h].q)
      BY <1>0, <2>7 DEF SubmitSave, ReachedInv, ThreadsReached
    <3> QED
      BY <3>1, <3>2, <1>0, <2>7, <2>4 DEF SubmitSave
  <2>8. CASE EndCheck(h) \/ PassStore(h) \/ PassDone(h) \/ EndStore(h) \/ EndDone(h)
    <3>1. queue' = queue /\ \A g \in Handlers : Keeps(g)
      BY <1>0, <2>8 DEF EndCheck, PassStore, PassDone, EndStore, EndDone, Idle, HandlerState
    <3> QED
      BY <3>1, <1>2, <1>3, <2>1 DEF ThreadsReached
  <2> QED
    BY <1>5, <2>2, <2>3, <2>5, <2>6, <2>7, <2>8 DEF Request, Serve
<1>6. CASE Worker
  <2>1. handlers' = handlers
    BY <1>6 DEF Worker, WorkerTake, WorkerTranscribe, WorkerFail, WorkerText, WorkerLate,
         WorkerDecide, WorkerFollowUp, WorkerInsertFollowUp, WorkerRollback,
         WorkerAdvance, WorkerSpeak, WorkerReport
  <2>2. CASE WorkerTake
    <3>1. /\ Head(queue) \in QuestionIds /\ Present(Head(queue))
          /\ worker'.q = Head(queue)
      BY <1>0, <2>2 DEF WorkerTake, ReachedInv, ThreadsReached
    <3>2. Present(worker.q)'
      BY <1>1, <3>1 DEF Present
    <3>3. \A i \in 1 .. Len(queue') : i + 1 \in 1 .. Len(queue) /\ queue'[i] = queue[i + 1]
      BY <1>0, <2>2 DEF WorkerTake
    <3>4. \A i \in 1 .. Len(queue') : Present(queue[i])'
      BY <1>0, <1>1, <3>3 DEF ReachedInv, ThreadsReached, Present
    <3> QED
      BY <3>2, <3>4, <2>1, <1>2 DEF ThreadsReached
  <2>3. CASE ~WorkerTake
    <3> DEFINE Holds == /\ queue' = queue
                        /\ worker'.pc # "idle" => worker.pc # "idle" /\ worker'.q = worker.q
    <3>0. worker \in WorkerState /\ WorkerIdle.pc = "idle"
      BY DEF TypeInv, TypeOK, WorkerIdle
    <3>1. ASSUME \/ WorkerFail \/ WorkerLate \/ WorkerRollback
                 \/ WorkerSpeak \/ WorkerReport
          PROVE  Holds
      BY <3>0, <3>1 DEF WorkerFail, WorkerLate, WorkerRollback, WorkerSpeak, WorkerReport
    <3>2. ASSUME WorkerTranscribe
          PROVE  Holds
      BY <3>0, <3>2 DEF WorkerTranscribe, WorkerState
    <3>3. ASSUME WorkerText
          PROVE  Holds
      BY <3>0, <3>3 DEF WorkerText, WorkerState
    <3>4. ASSUME WorkerDecide
          PROVE  Holds
      BY <3>0, <3>4 DEF WorkerDecide, WorkerState
    <3>5. ASSUME WorkerFollowUp
          PROVE  Holds
      BY <3>0, <3>5 DEF WorkerFollowUp, WorkerState
    <3>6. ASSUME WorkerInsertFollowUp
          PROVE  Holds
      BY <3>0, <3>6 DEF WorkerInsertFollowUp, WorkerState
    <3>7. ASSUME WorkerAdvance
          PROVE  Holds
      BY <3>0, <3>7 DEF WorkerAdvance, WorkerState
    <3>8. Holds
      BY <1>6, <2>3, <3>1, <3>2, <3>3, <3>4, <3>5, <3>6, <3>7 DEF Worker
    <3> QED
      BY <3>8, <2>1, <1>2, <1>3, <1>4 DEF ThreadsReached
  <2> QED
    BY <2>2, <2>3
<1>7. CASE Restart
  <2>1. \A i \in 1 .. Len(queue') : queue'[i] \in Unfinished
    BY <1>7, OrderingsFacts DEF Restart, Unfinished
  <2>2. \A i \in 1 .. Len(queue') : Present(queue[i])'
    BY <2>1, <1>1 DEF Unfinished, ReachedInv, RowsReached, Present
  <2>3. \A h \in Handlers : Keeps(h)
    BY <1>7 DEF Restart, Idle
  <2> QED
    BY <2>2, <2>3, <1>2, <1>7 DEF Restart, WorkerIdle, ThreadsReached
<1>8. CASE UNCHANGED vars
  BY <1>8, <1>2, <1>3, <1>4 DEF vars, ThreadsReached
<1> QED
  BY <1>5, <1>6, <1>7, <1>8 DEF Next

(* The order of the questions, across every commit that moves current.     *)
LEMMA StepNoQuestionSkipped ==
    ASSUME TypeInv, ReachedInv, [Next]_vars
    PROVE  NoQuestionSkipped'
<1>0. /\ \A h \in Handlers :
            handlers[h].pc \in {"save", "store", "enqueue", "pass", "passed"} =>
                handlers[h].q \in QuestionIds
      /\ worker.pc # "idle" => worker.q \in QuestionIds
      /\ current \in QuestionIds \cup {NoQuestion}
  BY DEF TypeInv, TypeOK, BusyNamed
<1>1. CASE UNCHANGED sessionRow
  <2>1. current' = current /\ endedReason' = endedReason
    BY <1>1 DEF sessionRow
  <2>2. current # NoQuestion => Reached(current)'
    BY <2>1, <1>0, ReachedStays DEF ReachedInv, NoQuestionSkipped, Reached
  <2>3. endedReason \in {"count_reached", "timeout"} => \A i \in 1 .. N : Present(Primary(i))'
    BY RowsStay, QuestionFacts DEF ReachedInv, NoQuestionSkipped
  <2> QED
    BY <2>1, <2>2, <2>3 DEF NoQuestionSkipped
<1>2. ASSUME NEW h \in Handlers, PassStore(h)
      PROVE  NoQuestionSkipped'
  <2>1. handlers[h].q \in QuestionIds /\ Reached(handlers[h].q)
    BY <1>0, <1>2 DEF PassStore, ReachedInv, ThreadsReached
  <2> DEFINE q == handlers[h].q
  <2>2. answers'[q].kind # "absent"
    BY <2>1, <1>2 DEF PassStore, PassedRow, TypeInv, TypeOK
  <2>3. PICK p \in QuestionIds : p = q
    BY <2>1
  <2>4. Reached(p) /\ Present(p)'
    BY <2>1, <2>2, <2>3 DEF Present
  <2>5. PassReason(handlers[h].reason) \in {"count_reached", "timeout"}
    BY DEF PassReason
  <2>6. _advance_to_next_primary(p, PassReason(handlers[h].reason))
    BY <2>3, <1>2 DEF PassStore
  <2>7. PICK reason \in {"count_reached", "timeout"} : reason = PassReason(handlers[h].reason)
    BY <2>5
  <2> QED
    BY <2>4, <2>6, <2>7, AdvanceReached
<1>3. ASSUME NEW h \in Handlers, EndStore(h)
      PROVE  NoQuestionSkipped'
  BY <1>3 DEF EndStore, end_session, NoQuestionSkipped
<1>4. CASE WorkerInsertFollowUp
  <2>1. PICK q \in QuestionIds : q = worker.q
    BY <1>0, <1>4 DEF WorkerInsertFollowUp
  <2>2. Present(q) /\ Reached(q)
    BY <2>1, <1>4 DEF WorkerInsertFollowUp, ReachedInv, RowsReached, ThreadsReached
  <2>3. Depth(q) < MAX_FOLLOW_UP_DEPTH
    BY <2>1, <1>4 DEF WorkerInsertFollowUp, TypeInv, BusyNamed
  <2>4. q = Primary(Order(q)) /\ Order(Child(q)) = Order(q) /\ Child(q) \in QuestionIds
    BY <2>3, QuestionFacts DEF MAX_FOLLOW_UP_DEPTH, Primary
  <2>5. Reached(Child(q))
    BY <2>2, <2>4 DEF Reached
  <2>6. Reached(Child(q))'
    BY <2>4, <2>5, ReachedStays
  <2>7. current' = Child(q) /\ endedReason' = endedReason
    BY <2>1, <1>4 DEF WorkerInsertFollowUp
  <2>8. endedReason \in {"count_reached", "timeout"} => \A i \in 1 .. N : Present(Primary(i))'
    BY RowsStay, QuestionFacts DEF ReachedInv, NoQuestionSkipped
  <2> QED
    BY <2>6, <2>7, <2>8 DEF NoQuestionSkipped, Reached
<1>5. CASE WorkerAdvance
  <2>1. PICK q \in QuestionIds : q = worker.q
    BY <1>0, <1>5 DEF WorkerAdvance
  <2>2. Present(q) /\ Reached(q)
    BY <2>1, <1>5 DEF WorkerAdvance, ReachedInv, RowsReached, ThreadsReached
  <2>3. Present(q)'
    BY <2>2, RowsStay
  <2>4. _advance_to_next_primary(q, "count_reached")
    BY <2>1, <1>5 DEF WorkerAdvance
  <2> QED
    BY <2>2, <2>3, <2>4, AdvanceReached
<1>6. ASSUME NEW h \in Handlers, Request(h) \/ Serve(h)
      PROVE  NoQuestionSkipped'
  BY <1>1, <1>2, <1>3, <1>6 DEF Request, Serve, SubmitCheck, PassCheck, EndCheck,
     SubmitSave, SubmitStore, SubmitEnqueue, PassDone, EndDone, database
<1>7. CASE Worker
  BY <1>1, <1>4, <1>5, <1>7 DEF Worker, WorkerTake, WorkerTranscribe, WorkerFail,
     WorkerText, WorkerLate, WorkerDecide, WorkerFollowUp, WorkerRollback, WorkerSpeak,
     WorkerReport, database
<1>8. CASE Restart \/ UNCHANGED vars
  BY <1>1, <1>8 DEF Restart, vars, database
<1> QED
  BY <1>6, <1>7, <1>8 DEF Next

LEMMA StepReachedInv == TypeInv /\ ReachedInv /\ [Next]_vars => ReachedInv'
  BY StepReachedRows, StepReachedThreads, StepNoQuestionSkipped DEF ReachedInv

(* Under every interleaving of submissions, passes, the user's end, the    *)
(* worker and restarts, the Q&A asks its primary questions in order and    *)
(* ends by itself only after the last.                                     *)
THEOREM PrimaryQuestionsInOrder == Spec => []NoQuestionSkipped
<1>1. Init => TypeInv /\ ReachedInv
  BY InitTypeInv, InitReachedInv
<1>2. TypeInv /\ ReachedInv /\ [Next]_vars => (TypeInv /\ ReachedInv)'
  BY StepTypeInv, StepReachedInv
<1>3. ReachedInv => NoQuestionSkipped
  BY DEF ReachedInv
<1> QED
  BY <1>1, <1>2, <1>3, PTL DEF Spec

-----------------------------------------------------------------------------
(* A request takes no job away, and the row it makes processing is covered *)
(* by its own enqueue.                                                     *)
LEMMA RequestCovers ==
    ASSUME TypeInv, AnswerJobCovered, NEW h \in Handlers, Request(h) \/ Serve(h)
    PROVE  AnswerJobCovered'
<1>0. handlers \in [Handlers -> HandlerState] /\ queue \in Seq(QuestionIds)
  BY DEF TypeInv, TypeOK
<1>1. worker' = worker
  BY DEF Request, Serve, SubmitCheck, PassCheck, EndCheck, SubmitSave, SubmitStore,
         SubmitEnqueue, PassStore, PassDone, EndStore, EndDone
<1>2. ASSUME queue' = queue, handlers[h].pc # "enqueue",
             \A g \in Handlers \ {h} : handlers'[g] = handlers[g],
             NEW q \in QuestionIds, Covered(q)
      PROVE  Covered(q)'
  BY <1>1, <1>2 DEF Covered, JobAhead, Transcribing
<1>3. CASE SubmitStore(h)
  <2>1. /\ queue' = queue /\ handlers[h].pc # "enqueue"
        /\ \A g \in Handlers \ {h} : handlers'[g] = handlers[g]
        /\ handlers'[h].pc = "enqueue" /\ handlers'[h].q = handlers[h].q
    BY <1>0, <1>3 DEF SubmitStore, HandlerState
  <2> SUFFICES ASSUME NEW q \in QuestionIds, answers'[q].status = "processing"
               PROVE  Covered(q)'
    BY DEF AnswerJobCovered
  <2>2. CASE q = handlers[h].q
    BY <2>1, <2>2 DEF Covered, JobAhead, Transcribing
  <2>3. CASE q # handlers[h].q
    <3>1. answers'[q] = answers[q]
      BY <1>3, <2>3 DEF SubmitStore, TypeInv, TypeOK
    <3> QED
      BY <3>1, <2>1, <1>2 DEF AnswerJobCovered
  <2> QED
    BY <2>2, <2>3
<1>4. CASE SubmitEnqueue(h)
  <2>1. answers' = answers
    BY <1>4 DEF SubmitEnqueue, database
  <2>2. handlers[h].q \in QuestionIds
    BY <1>4 DEF SubmitEnqueue, TypeInv, BusyNamed
  <2>3. /\ Len(queue') = Len(queue) + 1 /\ Len(queue) \in Nat
        /\ \A i \in 1 .. Len(queue) : queue'[i] = queue[i]
        /\ queue'[Len(queue) + 1] = handlers[h].q
    BY <2>2, <1>0, <1>4 DEF SubmitEnqueue
  <2>4. \A g \in Handlers \ {h} : handlers'[g] = handlers[g]
    BY <1>0, <1>4 DEF SubmitEnqueue
  <2>5. ASSUME NEW q \in QuestionIds, Covered(q)
        PROVE  Covered(q)'
    BY <2>3, <2>4, <2>5, <1>1 DEF Covered, JobAhead, Transcribing
  <2> QED
    BY <2>1, <2>5 DEF AnswerJobCovered
<1>5. CASE ~SubmitStore(h) /\ ~SubmitEnqueue(h)
  <2> DEFINE Others == /\ queue' = queue /\ handlers[h].pc # "enqueue"
                       /\ \A g \in Handlers \ {h} : handlers'[g] = handlers[g]
             NoneAdded == \A q \in QuestionIds :
                 answers'[q].status = "processing" => answers[q].status = "processing"
  <2>1. ASSUME NEW q \in QuestionIds, NEW ext \in Exts, SubmitCheck(h, q, ext)
        PROVE  Others /\ NoneAdded
    BY <1>0, <2>1 DEF SubmitCheck, database, Idle
  <2>2. ASSUME NEW q \in QuestionIds, NEW reason \in {"user", "timeout"},
               PassCheck(h, q, reason)
        PROVE  Others /\ NoneAdded
    BY <1>0, <2>2 DEF PassCheck, database, Idle
  <2>3. ASSUME EndCheck(h) \/ PassDone(h) \/ EndDone(h)
        PROVE  Others /\ NoneAdded
    BY <1>0, <2>3 DEF EndCheck, PassDone, EndDone, database, Idle
  <2>4. ASSUME SubmitSave(h) \/ EndStore(h)
        PROVE  Others /\ NoneAdded
    BY <1>0, <2>4 DEF SubmitSave, EndStore, database
  <2>5. ASSUME PassStore(h)
        PROVE  Others /\ NoneAdded
    BY <1>0, <2>5 DEF PassStore, PassedRow, TypeInv, TypeOK
  <2>6. Others /\ NoneAdded
    BY <1>5, <2>1, <2>2, <2>3, <2>4, <2>5 DEF Request, Serve
  <2> QED
    BY <2>6, <1>2 DEF AnswerJobCovered
<1> QED
  BY <1>3, <1>4, <1>5

(* The worker takes a job together with the row it finds, and a commit     *)
(* that leaves a row processing leaves a job for it: the row was not       *)
(* processing when it was read, so it was submitted again since.           *)
LEMMA WorkerCovers ==
    ASSUME TypeInv, AnswerJobCovered, Worker
    PROVE  AnswerJobCovered'
<1>0. /\ queue \in Seq(QuestionIds)
      /\ worker \in WorkerState
      /\ answers \in [QuestionIds -> Answer]
  BY DEF TypeInv, TypeOK
<1>1. handlers' = handlers
  BY DEF Worker, WorkerTake, WorkerTranscribe, WorkerFail, WorkerText, WorkerLate,
         WorkerDecide, WorkerFollowUp, WorkerInsertFollowUp, WorkerRollback,
         WorkerAdvance, WorkerSpeak, WorkerReport
<1>2. CASE WorkerTake
  <2> SUFFICES ASSUME NEW q \in QuestionIds, answers'[q].status = "processing"
               PROVE  Covered(q)'
    BY DEF AnswerJobCovered
  <2>1. answers[q].status = "processing"
    BY <1>2 DEF WorkerTake, database
  <2>2. CASE \E h \in Handlers : handlers[h].pc = "enqueue" /\ handlers[h].q = q
    BY <1>1, <2>2 DEF Covered, JobAhead, Transcribing
  <2>3. CASE \E i \in 1 .. Len(queue) : queue[i] = q
    <3>1. PICK i \in 1 .. Len(queue) : queue[i] = q
      BY <2>3
    <3>2. CASE i = 1
      <4>1. Head(queue) = q
        BY <3>1, <3>2, <1>0
      <4>2. worker'.q = q /\ worker'.pc = "transcribe" /\ worker'.seen = answers[q]
        BY <4>1, <1>2 DEF WorkerTake
      <4> QED
        BY <4>2, <2>1 DEF Covered, JobAhead, Transcribing
    <3>3. CASE i # 1
      <4>1. i - 1 \in 1 .. Len(queue') /\ queue'[i - 1] = q
        BY <3>1, <3>3, <1>0, <1>2 DEF WorkerTake
      <4> QED
        BY <4>1 DEF Covered, JobAhead, Transcribing
    <3> QED
      BY <3>2, <3>3
  <2>4. JobAhead(q)
    BY <2>1, <1>2 DEF AnswerJobCovered, Covered, JobAhead, Transcribing, WorkerTake
  <2> QED
    BY <2>2, <2>3, <2>4 DEF JobAhead
<1>3. ASSUME queue' = queue, NEW q \in QuestionIds, JobAhead(q)
      PROVE  Covered(q)'
  BY <1>1, <1>3 DEF Covered, JobAhead, Transcribing
<1>4. CASE WorkerTranscribe
  <2>1. /\ queue' = queue /\ answers' = answers
        /\ worker.pc = "transcribe" /\ worker'.pc \in {"text", "fail"}
        /\ worker'.q = worker.q /\ worker'.seen = worker.seen
    BY <1>0, <1>4 DEF WorkerTranscribe, WorkerState, database
  <2> QED
    BY <2>1, <1>1 DEF AnswerJobCovered, Covered, JobAhead, Transcribing
<1>5. ASSUME queue' = queue, NEW q \in QuestionIds, answers'[q].status = "processing",
             \/ worker.q = q /\ worker.seen.status # "processing"
             \/ worker.q # q
             \/ worker.pc \notin {"transcribe", "text", "fail"},
             answers[q].status = "processing"
      PROVE  Covered(q)'
  BY <1>3, <1>5 DEF AnswerJobCovered, Covered, JobAhead, Transcribing
<1>6. CASE WorkerFail
  <2> SUFFICES ASSUME NEW q \in QuestionIds, answers'[q].status = "processing"
               PROVE  Covered(q)'
    BY DEF AnswerJobCovered
  <2>1. CASE q # worker.q
    <3>1. answers'[q] = answers[q]
      BY <1>0, <1>6, <2>1 DEF WorkerFail
    <3> QED
      BY <3>1, <2>1, <1>5, <1>6 DEF WorkerFail
  <2>2. CASE q = worker.q
    <3>1. answers'[q].status = Write(worker.seen.status, "failed", answers[q].status)
      BY <1>0, <1>6, <2>2 DEF WorkerFail, Answer
    <3>2. worker.seen.status # "processing" /\ answers[q].status = "processing"
      BY <3>1 DEF Write
    <3> QED
      BY <3>2, <2>2, <1>5, <1>6 DEF WorkerFail
  <2> QED
    BY <2>1, <2>2
<1>7. CASE WorkerText
  <2> SUFFICES ASSUME NEW q \in QuestionIds, answers'[q].status = "processing"
               PROVE  Covered(q)'
    BY DEF AnswerJobCovered
  <2>1. CASE q # worker.q
    <3>1. answers'[q] = answers[q]
      BY <1>0, <1>7, <2>1 DEF WorkerText
    <3> QED
      BY <3>1, <2>1, <1>5, <1>7 DEF WorkerText
  <2>2. CASE q = worker.q
    <3>1. answers'[q].status = Write(worker.seen.status, "ready", answers[q].status)
      BY <1>0, <1>7, <2>2 DEF WorkerText, Answer
    <3>2. worker.seen.status # "processing" /\ answers[q].status = "processing"
      BY <3>1 DEF Write
    <3> QED
      BY <3>2, <2>2, <1>5, <1>7 DEF WorkerText
  <2> QED
    BY <2>1, <2>2
<1>8. CASE ~WorkerTake /\ worker.pc \notin {"transcribe", "text", "fail"}
  <2>1. queue' = queue
    BY <1>8 DEF Worker, WorkerTranscribe, WorkerFail, WorkerText, WorkerLate,
         WorkerDecide, WorkerFollowUp, WorkerInsertFollowUp, WorkerRollback,
         WorkerAdvance, WorkerSpeak, WorkerReport
  <2> QED
    BY <2>1, <1>5, <1>8, WorkerKeepsRows DEF AnswerJobCovered
<1>9. \/ WorkerTake \/ WorkerTranscribe \/ WorkerFail \/ WorkerText
      \/ ~WorkerTake /\ worker.pc \notin {"transcribe", "text", "fail"}
  BY DEF Worker, WorkerTake, WorkerTranscribe, WorkerFail, WorkerText, WorkerLate,
         WorkerDecide, WorkerFollowUp, WorkerInsertFollowUp, WorkerRollback,
         WorkerAdvance, WorkerSpeak, WorkerReport
<1> QED
  BY <1>2, <1>4, <1>6, <1>7, <1>8, <1>9

(* No answer that is shown as processing is without a job, whatever the    *)
(* order of resubmissions, transcriptions, passes and restarts.            *)
THEOREM ProcessingHasJob == Spec => []AnswerJobCovered
<1>1. Init => TypeInv /\ AnswerJobCovered
  BY InitTypeInv DEF Init, NoAnswer, AnswerJobCovered
<1>2. ASSUME TypeInv, AnswerJobCovered, Restart
      PROVE  AnswerJobCovered'
  <2>1. \A q \in Unfinished : \E i \in 1 .. Len(queue') : queue'[i] = q
    BY <1>2, OrderingsFacts DEF Restart, Unfinished
  <2>2. answers' = answers
    BY <1>2 DEF Restart, database
  <2> QED
    BY <2>1, <2>2 DEF AnswerJobCovered, Covered, JobAhead, Transcribing, Unfinished
<1>3. ASSUME AnswerJobCovered, UNCHANGED vars
      PROVE  AnswerJobCovered'
  BY <1>3 DEF AnswerJobCovered, Covered, JobAhead, Transcribing, vars, database
<1>4. TypeInv /\ AnswerJobCovered /\ [Next]_vars => (TypeInv /\ AnswerJobCovered)'
  BY <1>2, <1>3, StepTypeInv, RequestCovers, WorkerCovers DEF Next
<1> QED
  BY <1>1, <1>4, PTL DEF Spec

-----------------------------------------------------------------------------
(* A session that has ended does not run again, and its end is one commit. *)

(* The shared step leaves the end of the session atomic.                   *)
LEMMA AdvanceEnds ==
    ASSUME TypeInv, CompletionAtomic, NEW q \in QuestionIds,
           NEW reason \in {"count_reached", "timeout"},
           _advance_to_next_primary(q, reason), questions' = questions
    PROVE  /\ CompletionAtomic'
           /\ status = "completed" => status' = "completed"
           /\ ~HasNextPrimary(q) => status' = "completed"
  BY DEF _advance_to_next_primary, end_session, HasNextPrimary, CompletionAtomic,
         TypeInv, TypeOK

(* One step of the system.                                                 *)
LEMMA StepEndInv == TypeInv /\ EndInv /\ [Next]_vars => EndInv'
<1> SUFFICES ASSUME TypeInv, EndInv, [Next]_vars PROVE EndInv'
  OBVIOUS
<1>0. /\ status \in {"qna", "completed"}
      /\ handlers \in [Handlers -> HandlerState]
      /\ worker \in WorkerState
  BY DEF TypeInv, TypeOK
<1>1. ASSUME NEW h \in Handlers, Request(h) PROVE EndInv'
  <2>1. ASSUME NEW q \in QuestionIds, NEW ext \in Exts, SubmitCheck(h, q, ext)
        PROVE  EndInv'
    BY <1>0, <2>1 DEF EndInv, CompletionAtomic, SubmitCheck, Idle, database, sessionRow
  <2>2. ASSUME NEW q \in QuestionIds, NEW reason \in {"user", "timeout"},
               PassCheck(h, q, reason)
        PROVE  EndInv'
    BY <1>0, <2>2 DEF EndInv, CompletionAtomic, PassCheck, Idle, database, sessionRow
  <2>3. CASE EndCheck(h)
    BY <1>0, <2>3 DEF EndInv, CompletionAtomic, EndCheck, Idle, database, sessionRow
  <2> QED
    BY <1>1, <2>1, <2>2, <2>3 DEF Request
<1>2. ASSUME NEW h \in Handlers, Serve(h) PROVE EndInv'
  <2>1. CASE SubmitSave(h) \/ SubmitStore(h) \/ SubmitEnqueue(h)
    BY <1>0, <2>1 DEF EndInv, CompletionAtomic, SubmitSave, SubmitStore, SubmitEnqueue,
                      Idle, HandlerState, database, sessionRow
  <2>2. CASE PassStore(h)
    <3>1. /\ handlers[h].q \in QuestionIds
          /\ PassReason(handlers[h].reason) \in {"count_reached", "timeout"}
      BY <2>2 DEF PassStore, TypeInv, BusyNamed, PassReason
    <3>2. CompletionAtomic' /\ (status = "completed" => status' = "completed")
      BY <2>2, <3>1, AdvanceEnds DEF PassStore, EndInv
    <3>3. \A g \in Handlers : handlers'[g].pc = "ended" => handlers[g].pc = "ended"
      BY <1>0, <2>2 DEF PassStore, HandlerState
    <3> QED
      BY <2>2, <3>2, <3>3 DEF PassStore, EndInv
  <2>3. CASE PassDone(h) \/ EndDone(h)
    BY <1>0, <2>3 DEF EndInv, CompletionAtomic, PassDone, EndDone, Idle, HandlerState,
                      database, sessionRow
  <2>4. CASE EndStore(h)
    BY <1>0, <2>4 DEF EndInv, CompletionAtomic, EndStore, end_session, HandlerState
  <2> QED
    BY <1>2, <2>1, <2>2, <2>3, <2>4 DEF Serve
<1>3. CASE Worker
  <2>1. ASSUME UNCHANGED <<status, current, endedReason, questions, report, reporters, handlers>>,
               worker'.pc # "report"
        PROVE  EndInv'
    BY <2>1 DEF EndInv, CompletionAtomic
  <2>2. CASE WorkerTake \/ WorkerSpeak \/ WorkerRollback \/ WorkerTranscribe \/ WorkerDecide
    BY <1>0, <2>1, <2>2 DEF WorkerTake, WorkerSpeak, WorkerRollback, WorkerTranscribe,
                            WorkerDecide, WorkerIdle, WorkerState, database, sessionRow
  <2>3. CASE WorkerFail \/ WorkerLate
    BY <2>1, <2>3 DEF WorkerFail, WorkerLate, WorkerIdle, database, sessionRow
  <2>4. CASE WorkerText
    BY <1>0, <2>1, <2>4 DEF WorkerText, WorkerState, sessionRow
  <2>5. CASE WorkerFollowUp
    BY <1>0, <2>1, <2>5 DEF WorkerFollowUp, WorkerState, database, sessionRow
  <2>6. CASE WorkerInsertFollowUp
    BY <1>0, <2>6 DEF EndInv, CompletionAtomic, WorkerInsertFollowUp, WorkerState
  <2>7. CASE WorkerAdvance
    <3>1. worker.q \in QuestionIds
      BY <2>7 DEF WorkerAdvance, TypeInv, BusyNamed
    <3>2. /\ CompletionAtomic'
          /\ status = "completed" => status' = "completed"
          /\ ~HasNextPrimary(worker.q) => status' = "completed"
      BY <2>7, <3>1, AdvanceEnds DEF WorkerAdvance, EndInv
    <3>3. worker'.pc = "report" => ~HasNextPrimary(worker.q)
      BY <2>7 DEF WorkerAdvance, WorkerIdle
    <3> QED
      BY <2>7, <3>2, <3>3 DEF WorkerAdvance, EndInv
  <2>8. CASE WorkerReport
    BY <2>8 DEF EndInv, CompletionAtomic, WorkerReport, WorkerIdle, database, sessionRow
  <2> QED
    BY <1>3, <2>2, <2>3, <2>4, <2>5, <2>6, <2>7, <2>8 DEF Worker
<1>4. CASE Restart
  BY <1>0, <1>4 DEF EndInv, CompletionAtomic, Restart, Idle, WorkerIdle, database, sessionRow
<1>5. CASE UNCHANGED vars
  BY <1>5 DEF EndInv, CompletionAtomic, vars, database, sessionRow
<1> QED
  BY <1>1, <1>2, <1>3, <1>4, <1>5 DEF Next

(* Who writes the row of the session.                                      *)
LEMMA SessionWriters ==
    ASSUME [Next]_vars
    PROVE  \/ UNCHANGED sessionRow
           \/ \E h \in Handlers : PassStore(h) \/ EndStore(h)
           \/ WorkerAdvance
           \/ WorkerInsertFollowUp
<1>1. ASSUME NEW h \in Handlers, Request(h) PROVE UNCHANGED sessionRow
  BY <1>1 DEF Request, SubmitCheck, PassCheck, EndCheck, database
<1>2. ASSUME NEW h \in Handlers, Serve(h)
      PROVE  UNCHANGED sessionRow \/ PassStore(h) \/ EndStore(h)
  BY <1>2 DEF Serve, SubmitSave, SubmitStore, SubmitEnqueue, PassDone, EndDone, database
<1>3. Worker => UNCHANGED sessionRow \/ WorkerAdvance \/ WorkerInsertFollowUp
  BY DEF Worker, WorkerTake, WorkerTranscribe, WorkerFail, WorkerText, WorkerLate,
         WorkerDecide, WorkerFollowUp, WorkerRollback, WorkerSpeak, WorkerReport, database
<1>4. Restart \/ UNCHANGED vars => UNCHANGED sessionRow
  BY DEF Restart, vars, database
<1> QED
  BY <1>1, <1>2, <1>3, <1>4 DEF Next

(* The step that ends the Q&A is one of end_session.                       *)
LEMMA EndingClears ==
    ASSUME [Next]_vars, status = "qna", status' = "completed"
    PROVE  current' = NoQuestion
  BY SessionWriters
     DEF sessionRow, PassStore, EndStore, WorkerAdvance, WorkerInsertFollowUp,
         _advance_to_next_primary, end_session

(* Status, reason and report row change together, and the commit that      *)
(* changes them clears the current question: the end of the Q&A is one     *)
(* commit, whichever of the user's end, the last pass and the last answer  *)
(* comes first (end_session).                                              *)
THEOREM EndIsOneCommit == Spec => []CompletionAtomic /\ EndClears
<1>1. Init => EndInv
  BY QuestionFacts, QnaAssumption DEF Init, EndInv, CompletionAtomic, Idle, WorkerIdle
<1>2. Spec => []CompletionAtomic
  BY <1>1, InitTypeInv, StepTypeInv, StepEndInv, PTL DEF Spec, EndInv
<1>3. [Next]_vars => [status = "qna" /\ status' = "completed" => current' = NoQuestion]_vars
  BY EndingClears
<1>4. Spec => EndClears
  BY <1>3, PTL DEF Spec, EndClears
<1> QED
  BY <1>2, <1>4

(* Nobody takes a decision about an ended session that would write it.     *)
LEMMA OverStays ==
    ASSUME TypeInv, QnaOver, [Next]_vars
    PROVE  UNCHANGED sessionRow /\ QnaOver'
<1>0. handlers \in [Handlers -> HandlerState] /\ worker \in WorkerState
  BY DEF TypeInv, TypeOK
<1>1. UNCHANGED sessionRow
  BY SessionWriters DEF QnaOver, PassStore, EndStore, WorkerAdvance, WorkerInsertFollowUp
<1>2. status' = "completed"
  BY <1>1 DEF QnaOver, sessionRow
<1>3. ASSUME NEW h \in Handlers, Request(h) PROVE QnaOver'
  <2>1. ASSUME NEW q \in QuestionIds, NEW ext \in Exts, SubmitCheck(h, q, ext)
        PROVE  FALSE
    BY <2>1 DEF SubmitCheck, QnaOver
  <2>2. ASSUME NEW q \in QuestionIds, NEW reason \in {"user", "timeout"},
               PassCheck(h, q, reason)
        PROVE  FALSE
    BY <2>2 DEF PassCheck, QnaOver
  <2>3. ASSUME EndCheck(h) PROVE FALSE
    BY <2>3 DEF EndCheck, QnaOver
  <2> QED
    BY <1>3, <2>1, <2>2, <2>3 DEF Request
<1>4. ASSUME NEW h \in Handlers, Serve(h) PROVE QnaOver'
  <2>1. UNCHANGED worker
    BY <1>4 DEF Serve, SubmitSave, SubmitStore, SubmitEnqueue, PassStore, PassDone, EndStore,
                EndDone
  <2>2. \A g \in Handlers : handlers'[g].pc \notin {"pass", "end"}
    BY <1>0, <1>4 DEF Serve, SubmitSave, SubmitStore, SubmitEnqueue, PassStore, PassDone,
                      EndStore, EndDone, HandlerState, QnaOver, Idle
  <2> QED
    BY <1>2, <2>1, <2>2 DEF QnaOver
<1>5. ASSUME Worker PROVE QnaOver'
  <2>1. UNCHANGED handlers
    BY <1>5 DEF Worker, WorkerTake, WorkerTranscribe, WorkerFail, WorkerText, WorkerLate,
                WorkerDecide, WorkerFollowUp, WorkerInsertFollowUp, WorkerRollback,
                WorkerAdvance, WorkerSpeak, WorkerReport
  <2>2. ~WorkerDecide /\ ~WorkerFollowUp /\ ~WorkerAdvance /\ ~WorkerInsertFollowUp
    BY DEF QnaOver, WorkerDecide, StillCurrent, WorkerFollowUp, WorkerAdvance,
           WorkerInsertFollowUp
  <2>3. worker'.pc \notin {"follow", "apply"}
    <3>1. CASE WorkerTake
      BY <3>1 DEF WorkerTake
    <3>2. CASE WorkerTranscribe
      BY <1>0, <3>2 DEF WorkerTranscribe, WorkerState
    <3>3. CASE WorkerText
      BY <1>0, <3>3 DEF WorkerText, WorkerState
    <3>4. CASE WorkerFail \/ WorkerLate \/ WorkerRollback \/ WorkerSpeak \/ WorkerReport
      BY <3>4 DEF WorkerFail, WorkerLate, WorkerRollback, WorkerSpeak, WorkerReport, WorkerIdle
    <3> QED
      BY <1>5, <2>2, <3>1, <3>2, <3>3, <3>4 DEF Worker
  <2> QED
    BY <1>2, <2>1, <2>3 DEF QnaOver
<1>6. Restart => QnaOver'
  BY <1>2 DEF Restart, QnaOver, WorkerIdle, Idle
<1>7. UNCHANGED vars => QnaOver'
  BY <1>2 DEF vars, QnaOver
<1> QED
  BY <1>1, <1>3, <1>4, <1>5, <1>6, <1>7 DEF Next

(* Once the Q&A has ended and no thread is between its look at the session *)
(* and its commit, the session is never reopened, no question becomes      *)
(* current again and the reason stays, whatever jobs, requests and         *)
(* restarts follow (the guards of submit_answer, pass_question, end_qna    *)
(* and _decide_follow_up_and_advance).                                     *)
THEOREM EndStays == Spec => EndIsFinal
<1>1. TypeInv /\ [Next]_vars => [QnaOver => UNCHANGED sessionRow /\ QnaOver']_vars
  BY OverStays
<1> QED
  BY <1>1, InitTypeInv, StepTypeInv, PTL DEF Spec, EndIsFinal

(* run_report is only ever started for a session whose end is committed    *)
(* with its report row (the callers of end_session, report_jobs.recover).  *)
THEOREM ReportOfEnded == Spec => []ReportAfterEnd
<1>1. Init => EndInv
  BY QuestionFacts, QnaAssumption DEF Init, EndInv, CompletionAtomic, Idle, WorkerIdle
<1>2. EndInv => ReportAfterEnd
  BY DEF EndInv, CompletionAtomic, ReportAfterEnd
<1> QED
  BY <1>1, <1>2, InitTypeInv, StepTypeInv, StepEndInv, PTL DEF Spec

-----------------------------------------------------------------------------
(* The steps that write an answers row.                                    *)
LEMMA AnswersWriters ==
    ASSUME [Next]_vars
    PROVE  \/ UNCHANGED answers
           \/ \E h \in Handlers : SubmitStore(h) \/ PassStore(h)
           \/ WorkerText \/ WorkerFail \/ WorkerLate \/ WorkerAdvance
           \/ WorkerInsertFollowUp
<1>1. ASSUME NEW h \in Handlers, Request(h) PROVE UNCHANGED answers
  <2>1. ASSUME NEW q \in QuestionIds, NEW ext \in Exts, SubmitCheck(h, q, ext)
        PROVE  UNCHANGED answers
    BY <2>1 DEF SubmitCheck, database
  <2>2. ASSUME NEW q \in QuestionIds, NEW reason \in {"user", "timeout"},
               PassCheck(h, q, reason)
        PROVE  UNCHANGED answers
    BY <2>2 DEF PassCheck, database
  <2>3. EndCheck(h) => UNCHANGED answers
    BY DEF EndCheck, database
  <2> QED
    BY <1>1, <2>1, <2>2, <2>3 DEF Request
<1>2. ASSUME NEW h \in Handlers, Serve(h)
      PROVE  UNCHANGED answers \/ SubmitStore(h) \/ PassStore(h)
  BY <1>2 DEF Serve, SubmitSave, SubmitEnqueue, PassDone, EndStore, EndDone, database
<1>3. ASSUME Worker
      PROVE  \/ UNCHANGED answers
             \/ WorkerText \/ WorkerFail \/ WorkerLate \/ WorkerAdvance
             \/ WorkerInsertFollowUp
  <2>1. WorkerFollowUp => UNCHANGED answers
    BY DEF WorkerFollowUp, database
  <2>2. WorkerTake \/ WorkerTranscribe \/ WorkerDecide \/ WorkerRollback \/ WorkerSpeak
           \/ WorkerReport => UNCHANGED answers
    BY DEF WorkerTake, WorkerTranscribe, WorkerDecide, WorkerRollback, WorkerSpeak,
           WorkerReport, database
  <2> QED
    BY <1>3, <2>1, <2>2 DEF Worker
<1>4. Restart \/ UNCHANGED vars => UNCHANGED answers
  BY DEF Restart, vars, database
<1> QED
  BY <1>1, <1>2, <1>3, <1>4 DEF Next

(* The worker never writes audio or a follow-up into a passed row.         *)
LEMMA StepPassedRow == TypeInv /\ PassedRowCheck /\ [Next]_vars => PassedRowCheck'
<1> SUFFICES ASSUME TypeInv, PassedRowCheck, [Next]_vars PROVE PassedRowCheck'
  OBVIOUS
<1>0. answers \in [QuestionIds -> Answer] /\ worker \in WorkerState
  BY DEF TypeInv, TypeOK
<1>1. CASE UNCHANGED answers
  BY <1>1 DEF PassedRowCheck
<1>2. ASSUME NEW h \in Handlers, SubmitStore(h) \/ PassStore(h) PROVE PassedRowCheck'
  <2>1. handlers[h].q \in QuestionIds
    BY <1>2 DEF SubmitStore, PassStore, TypeInv, BusyNamed
  <2> QED
    BY <1>0, <1>2, <2>1 DEF SubmitStore, PassStore, SubmittedRow, PassedRow, PassedRowCheck
<1>3. CASE WorkerText
  BY <1>0, <1>3 DEF WorkerText, Write, PassedRowCheck, Answer
<1>4. CASE WorkerFail \/ WorkerLate \/ WorkerAdvance
  BY <1>0, <1>4 DEF WorkerFail, WorkerLate, WorkerAdvance, Write, PassedRowCheck, Answer
<1>5. CASE WorkerInsertFollowUp
  BY <1>0, <1>5 DEF WorkerInsertFollowUp, FollowUpAccepted, PassedRowAllows, Write,
                    PassedRowCheck, Answer
<1>6. \/ UNCHANGED answers
      \/ \E h \in Handlers : SubmitStore(h) \/ PassStore(h)
      \/ WorkerText \/ WorkerFail \/ WorkerLate \/ WorkerAdvance \/ WorkerInsertFollowUp
  BY AnswersWriters
<1> QED
  BY <1>1, <1>2, <1>3, <1>4, <1>5, <1>6

(* What a step may make of a passed row.                                   *)
LEMMA PassedRowStep ==
    ASSUME TypeInv, PassedRowCheck, [Next]_vars,
           NEW q \in QuestionIds, answers[q].kind = "passed", answers'[q] # answers[q]
    PROVE  \/ \E ext \in Exts : answers'[q] = SubmittedRow(ext)
           \/ answers'[q] = PassedRow
           \/ /\ LateJobOf(q)
              /\ answers'[q].kind = "passed"
              /\ answers'[q].audio = NoKey
              /\ answers'[q].follow_up = "none"
<1>0. /\ answers \in [QuestionIds -> Answer] /\ worker \in WorkerState
      /\ handlers \in [Handlers -> HandlerState]
  BY DEF TypeInv, TypeOK
<1>1. answers[q].audio = NoKey /\ answers[q].follow_up = "none"
  BY DEF PassedRowCheck
<1>2. ASSUME NEW h \in Handlers, SubmitStore(h)
      PROVE  \E ext \in Exts : answers'[q] = SubmittedRow(ext)
  <2>1. handlers[h].key \in Exts
    BY <1>2 DEF SubmitStore, TypeInv, BusyNamed
  <2> QED
    BY <1>0, <1>2, <2>1 DEF SubmitStore
<1>3. ASSUME NEW h \in Handlers, PassStore(h) PROVE answers'[q] = PassedRow
  BY <1>0, <1>3 DEF PassStore
<1>4. ASSUME WorkerText \/ WorkerFail
      PROVE  /\ LateJobOf(q)
             /\ answers'[q].kind = "passed"
             /\ answers'[q].audio = NoKey
             /\ answers'[q].follow_up = "none"
  <2>1. worker.q = q
    BY <1>0, <1>4 DEF WorkerText, WorkerFail
  <2>2. worker.pc \in {"fail", "text"} /\ worker' # worker
    <3>1. CASE WorkerText
      BY <1>0, <3>1 DEF WorkerText, WorkerState
    <3>2. CASE WorkerFail
      BY <3>2 DEF WorkerFail, WorkerIdle
    <3> QED
      BY <1>4, <3>1, <3>2
  <2>3. /\ answers'[q].kind = "passed" /\ answers'[q].audio = NoKey
        /\ answers'[q].follow_up = "none"
    <3>1. CASE WorkerText
      BY <1>0, <1>1, <3>1 DEF WorkerText, Answer
    <3>2. CASE WorkerFail
      BY <1>0, <1>1, <3>2 DEF WorkerFail, Answer, Write
    <3> QED
      BY <1>4, <3>1, <3>2
  <2> QED
    BY <2>1, <2>2, <2>3 DEF LateJobOf
<1>5. ASSUME WorkerLate \/ WorkerAdvance \/ WorkerInsertFollowUp PROVE FALSE
  <2> DEFINE verdict == IF WorkerInsertFollowUp THEN "generated" ELSE "none"
  <2>1. answers' = [answers EXCEPT
            ![worker.q].follow_up = Write(worker.seen.follow_up, verdict, @)]
    BY <1>5 DEF WorkerLate, WorkerAdvance, WorkerInsertFollowUp
  <2>2. worker.q = q
    BY <1>0, <2>1
  <2>3. Write(worker.seen.follow_up, verdict, answers[q].follow_up) = "none"
    BY <1>1, <2>2 DEF WorkerInsertFollowUp, FollowUpAccepted, PassedRowAllows, Write
  <2>4. answers'[q] = [answers[q] EXCEPT !.follow_up = "none"]
    BY <1>0, <2>1, <2>2, <2>3
  <2>5. answers'[q] = answers[q]
    BY <1>0, <1>1, <2>4 DEF Answer
  <2> QED
    BY <2>5
<1> QED
  BY <1>2, <1>3, <1>4, <1>5, AnswersWriters

(* A passed row has neither audio nor a follow-up, whatever job or request *)
(* commits last, and stays a passed row until another upload: a job of the *)
(* former answer may still add its text or its failure, and nothing else   *)
(* changes it (record_pass against run_answer_stt and _fail_answer).       *)
THEOREM PassedStaysPassed == Spec => []PassedRowCheck /\ PassedRowKept
<1>1. Init => PassedRowCheck
  BY DEF Init, PassedRowCheck, NoAnswer
<1>2. Spec => []PassedRowCheck
  BY <1>1, InitTypeInv, StepTypeInv, StepPassedRow, PTL DEF Spec
<1>3. TypeInv /\ PassedRowCheck /\ [Next]_vars =>
          [\A q \in QuestionIds : answers[q].kind = "passed" /\ answers'[q] # answers[q] =>
              \/ \E ext \in Exts : answers'[q] = SubmittedRow(ext)
              \/ answers'[q] = PassedRow
              \/ /\ LateJobOf(q)
                 /\ answers'[q].kind = "passed"
                 /\ answers'[q].audio = NoKey
                 /\ answers'[q].follow_up = "none"]_vars
  BY PassedRowStep
<1>4. Spec => PassedRowKept
  BY <1>1, <1>3, InitTypeInv, StepTypeInv, StepPassedRow, PTL DEF Spec, PassedRowKept
<1> QED
  BY <1>2, <1>4

-----------------------------------------------------------------------------
(* A follow-up is generated once, and never for a pass.                    *)

(* A row becomes generated with the insertion of its follow-up only.       *)
LEMMA VerdictsInserted ==
    ASSUME TypeInv, [Next]_vars
    PROVE  \A q \in QuestionIds : answers'[q].follow_up = "generated" =>
               answers[q].follow_up = "generated" \/ Child(q) \in questions'
<1>0. answers \in [QuestionIds -> Answer] /\ worker \in WorkerState
  BY DEF TypeInv, TypeOK
<1>1. CASE UNCHANGED answers
  BY <1>1
<1>2. ASSUME NEW h \in Handlers, SubmitStore(h) \/ PassStore(h)
      PROVE  \A q \in QuestionIds : answers'[q].follow_up = "generated" =>
                 answers[q].follow_up = "generated"
  <2>1. handlers[h].q \in QuestionIds
    BY <1>2 DEF SubmitStore, PassStore, TypeInv, BusyNamed
  <2> QED
    BY <1>0, <1>2, <2>1 DEF SubmitStore, PassStore, SubmittedRow, PassedRow
<1>3. CASE WorkerText
  BY <1>0, <1>3 DEF WorkerText, Answer
<1>4. CASE WorkerFail \/ WorkerLate \/ WorkerAdvance
  BY <1>0, <1>4 DEF WorkerFail, WorkerLate, WorkerAdvance, Write, Answer
<1>5. CASE WorkerInsertFollowUp
  BY <1>0, <1>5 DEF WorkerInsertFollowUp, Answer
<1> QED
  BY <1>1, <1>2, <1>3, <1>4, <1>5, AnswersWriters

(* The row the worker holds is the one it took from the table, with the    *)
(* verdict it had there.                                                   *)
LEMMA SeenVerdict ==
    ASSUME TypeInv, [Next]_vars, worker'.seen.follow_up = "generated"
    PROVE  \/ worker'.q = worker.q /\ worker.seen.follow_up = "generated"
           \/ worker'.q \in QuestionIds /\ answers[worker'.q].follow_up = "generated"
<1>0. worker \in WorkerState /\ queue \in Seq(QuestionIds)
  BY DEF TypeInv, TypeOK
<1>1. CASE WorkerTake
  BY <1>0, <1>1 DEF WorkerTake
<1>2. CASE worker' = WorkerIdle
  BY <1>2 DEF WorkerIdle, NoAnswer
<1>3. CASE WorkerText
  BY <1>0, <1>3 DEF WorkerText, WorkerState, Answer
<1>4. CASE UNCHANGED worker
  BY <1>4
<1>5. CASE WorkerTranscribe \/ WorkerDecide \/ WorkerFollowUp
  BY <1>0, <1>5 DEF WorkerTranscribe, WorkerDecide, WorkerFollowUp, WorkerState, WorkerIdle
<1>6. CASE WorkerInsertFollowUp \/ WorkerAdvance
  BY <1>0, <1>2, <1>6 DEF WorkerInsertFollowUp, WorkerAdvance, WorkerState
<1>7. ASSUME NEW h \in Handlers, Request(h) \/ Serve(h) PROVE UNCHANGED worker
  BY <1>7 DEF Request, Serve, SubmitCheck, PassCheck, EndCheck, SubmitSave, SubmitStore,
              SubmitEnqueue, PassStore, PassDone, EndStore, EndDone
<1> QED
  BY <1>1, <1>2, <1>3, <1>4, <1>5, <1>6, <1>7
     DEF Next, Worker, WorkerFail, WorkerLate, WorkerRollback, WorkerSpeak, WorkerReport,
         Restart, vars

LEMMA StepVerdictInv == TypeInv /\ VerdictInv /\ [Next]_vars => VerdictInv'
<1> SUFFICES ASSUME TypeInv, VerdictInv, [Next]_vars PROVE VerdictInv'
  OBVIOUS
<1>1. questions \subseteq questions'
  BY RowsStay
<1> QED
  BY <1>1, VerdictsInserted, SeenVerdict DEF VerdictInv

LEMMA InitVerdictInv == Init => VerdictInv
  BY DEF Init, VerdictInv, NoAnswer, WorkerIdle

(* The insertion, from the invariants.                                     *)
LEMMA InsertionOfAnswered ==
    ASSUME TypeInv, ReachedInv, VerdictInv, WorkerInsertFollowUp,
           NEW q \in questions' \ questions
    PROVE  /\ Depth(q) = MAX_FOLLOW_UP_DEPTH
           /\ answers[Primary(Order(q))].kind = "answered"
           /\ answers'[Primary(Order(q))].follow_up = "generated"
           /\ current' = q
<1> DEFINE p == worker.q
<1>1. /\ answers \in [QuestionIds -> Answer] /\ worker \in WorkerState
      /\ p \in QuestionIds /\ Depth(p) < MAX_FOLLOW_UP_DEPTH
  BY DEF WorkerInsertFollowUp, TypeInv, TypeOK, BusyNamed
<1>2. q = Child(p) /\ current' = q /\ Child(p) \notin questions
  BY DEF WorkerInsertFollowUp
<1>3. Depth(p) = 0 /\ Depth(q) = MAX_FOLLOW_UP_DEPTH /\ Primary(Order(q)) = p
  BY <1>1, <1>2, QuestionFacts DEF MAX_FOLLOW_UP_DEPTH, Primary
<1>4. Write(worker.seen.follow_up, "generated", answers[p].follow_up) = "generated"
  BY <1>2 DEF VerdictInv, Write
<1>5. answers[p].kind = "answered"
  <2>1. answers[p].kind # "absent"
    BY DEF WorkerInsertFollowUp, ReachedInv, ThreadsReached, Present
  <2>2. answers[p].kind # "passed"
    BY <1>4 DEF WorkerInsertFollowUp, FollowUpAccepted, PassedRowAllows
  <2> QED
    BY <1>1, <2>1, <2>2 DEF Answer
<1>6. answers'[p].follow_up = "generated"
  BY <1>1, <1>4 DEF WorkerInsertFollowUp, Answer
<1> QED
  BY <1>2, <1>3, <1>5, <1>6

(* A follow-up enters the table with its parent's verdict, as the current  *)
(* question, and under an answer that is stored as spoken in the very      *)
(* state the commit finds: the presenter may have passed, submitted again  *)
(* or ended the Q&A during the language model call                         *)
(* (_decide_follow_up_and_advance and the constraints it meets).           *)
THEOREM FollowUpsOfSpokenAnswers == Spec => FollowUpOfAnswered
<1> DEFINE Inserted == \A q \in questions' \ questions :
              /\ Depth(q) = MAX_FOLLOW_UP_DEPTH
              /\ answers[Primary(Order(q))].kind = "answered"
              /\ answers'[Primary(Order(q))].follow_up = "generated"
              /\ current' = q
<1>1. ASSUME [Next]_vars PROVE questions' = questions \/ WorkerInsertFollowUp
  <2>1. ASSUME NEW h \in Handlers, Request(h) PROVE questions' = questions
    BY <2>1 DEF Request, SubmitCheck, PassCheck, EndCheck, database
  <2>2. ASSUME NEW h \in Handlers, Serve(h) PROVE questions' = questions
    BY <2>2 DEF Serve, SubmitSave, SubmitStore, SubmitEnqueue, PassStore, PassDone,
                EndStore, EndDone, database
  <2> QED
    BY <1>1, <2>1, <2>2
       DEF Next, Worker, WorkerTake, WorkerTranscribe, WorkerFail, WorkerText, WorkerLate,
           WorkerDecide, WorkerFollowUp, WorkerRollback, WorkerAdvance, WorkerSpeak,
           WorkerReport, Restart, vars, database
<1>2. TypeInv /\ ReachedInv /\ VerdictInv /\ [Next]_vars => [Inserted]_vars
  BY <1>1, InsertionOfAnswered
<1>3. TypeInv /\ ReachedInv /\ VerdictInv /\ [Next]_vars => (TypeInv /\ ReachedInv /\ VerdictInv)'
  BY StepTypeInv, StepReachedInv, StepVerdictInv
<1>4. Init => TypeInv /\ ReachedInv /\ VerdictInv
  BY InitTypeInv, InitReachedInv, InitVerdictInv
<1> QED
  BY <1>2, <1>3, <1>4, PTL DEF Spec, FollowUpOfAnswered

-----------------------------------------------------------------------------
(* Until a restart, a ready answer has its text or a job ahead.            *)

(* A job that waits goes on waiting until the worker takes it.             *)
LEMMA JobsWait ==
    ASSUME TypeInv, [Next]_vars, ~Restart, NEW q \in QuestionIds, JobAhead(q)
    PROVE  JobAhead(q)' \/ (WorkerTake /\ q = Head(queue))
<1>0. handlers \in [Handlers -> HandlerState] /\ queue \in Seq(QuestionIds)
  BY DEF TypeInv, TypeOK
<1>1. ASSUME UNCHANGED <<handlers, queue>> PROVE JobAhead(q)'
  BY <1>1 DEF JobAhead
<1>2. ASSUME NEW h \in Handlers, UNCHANGED queue, handlers[h].pc # "enqueue",
             \A g \in Handlers \ {h} : handlers'[g] = handlers[g]
      PROVE  JobAhead(q)'
  BY <1>2 DEF JobAhead
<1>3. ASSUME NEW h \in Handlers, SubmitEnqueue(h) PROVE JobAhead(q)'
  <2>1. handlers[h].q \in QuestionIds
    BY <1>3 DEF SubmitEnqueue, TypeInv, BusyNamed
  <2>2. /\ Len(queue') = Len(queue) + 1 /\ Len(queue) \in Nat
        /\ \A i \in 1 .. Len(queue) : queue'[i] = queue[i]
        /\ queue'[Len(queue) + 1] = handlers[h].q
    BY <2>1, <1>0, <1>3 DEF SubmitEnqueue
  <2>3. \A g \in Handlers \ {h} : handlers'[g] = handlers[g]
    BY <1>0, <1>3 DEF SubmitEnqueue
  <2> QED
    BY <2>2, <2>3 DEF JobAhead
<1>4. CASE WorkerTake
  <2>1. CASE \E i \in 1 .. Len(queue) : queue[i] = q
    <3>1. PICK i \in 1 .. Len(queue) : queue[i] = q
      BY <2>1
    <3>2. CASE i = 1
      BY <3>1, <3>2, <1>0, <1>4
    <3>3. CASE i # 1
      <4>1. i - 1 \in 1 .. Len(queue') /\ queue'[i - 1] = q
        BY <3>1, <3>3, <1>0, <1>4 DEF WorkerTake
      <4> QED
        BY <4>1 DEF JobAhead
    <3> QED
      BY <3>2, <3>3
  <2>2. CASE \E h \in Handlers : handlers[h].pc = "enqueue" /\ handlers[h].q = q
    BY <2>2, <1>4 DEF WorkerTake, JobAhead
  <2> QED
    BY <2>1, <2>2 DEF JobAhead
<1>5. ASSUME NEW h \in Handlers, Request(h) PROVE JobAhead(q)'
  <2>1. ASSUME NEW p \in QuestionIds, NEW ext \in Exts, SubmitCheck(h, p, ext)
        PROVE  JobAhead(q)'
    BY <1>0, <1>2, <2>1 DEF SubmitCheck, Idle
  <2>2. ASSUME NEW p \in QuestionIds, NEW reason \in {"user", "timeout"},
               PassCheck(h, p, reason)
        PROVE  JobAhead(q)'
    BY <1>0, <1>2, <2>2 DEF PassCheck, Idle
  <2>3. CASE EndCheck(h)
    BY <1>0, <1>2, <2>3 DEF EndCheck, Idle
  <2> QED
    BY <1>5, <2>1, <2>2, <2>3 DEF Request
<1>6. ASSUME NEW h \in Handlers, Serve(h), ~SubmitEnqueue(h) PROVE JobAhead(q)'
  <2>1. UNCHANGED queue /\ handlers[h].pc # "enqueue"
    BY <1>6 DEF Serve, SubmitSave, SubmitStore, PassStore, PassDone, EndStore, EndDone
  <2>2. \A g \in Handlers \ {h} : handlers'[g] = handlers[g]
    <3>1. SubmitSave(h) \/ SubmitStore(h) \/ PassStore(h)
              => \A g \in Handlers \ {h} : handlers'[g] = handlers[g]
      BY <1>0 DEF SubmitSave, SubmitStore, PassStore
    <3>2. PassDone(h) \/ EndStore(h) \/ EndDone(h)
              => \A g \in Handlers \ {h} : handlers'[g] = handlers[g]
      BY <1>0 DEF PassDone, EndStore, EndDone
    <3> QED
      BY <1>6, <3>1, <3>2 DEF Serve
  <2> QED
    BY <1>2, <2>1, <2>2
<1>7. Worker /\ ~WorkerTake => UNCHANGED <<handlers, queue>>
  BY DEF Worker, WorkerTranscribe, WorkerFail, WorkerText, WorkerLate, WorkerDecide,
         WorkerFollowUp, WorkerInsertFollowUp, WorkerRollback, WorkerAdvance, WorkerSpeak,
         WorkerReport
<1>8. UNCHANGED vars => UNCHANGED <<handlers, queue>>
  BY DEF vars
<1> QED
  BY <1>1, <1>3, <1>4, <1>5, <1>6, <1>7, <1>8 DEF Next

(* A commit of another job's verdict, or no commit at all, and no job      *)
(* taken or transcribed: nothing TextInv says is disturbed.                *)
LEMMA TextUndisturbed ==
    ASSUME TypeInv, TextInv, [Next]_vars, ~Restart, ~WorkerTake, crashes' = crashes,
           \A q \in QuestionIds : answers'[q] = answers[q]
               \/ /\ ~Transcribing(q)
                  /\ answers'[q].kind = answers[q].kind
                  /\ answers'[q].status = answers[q].status
                  /\ answers'[q].text = answers[q].text,
           \A q \in QuestionIds : Transcribing(q)' <=> Transcribing(q),
           \A q \in QuestionIds : Transcribing(q) => worker'.seen = worker.seen
    PROVE  TextInv'
<1>1. ASSUME NEW q \in QuestionIds PROVE JobAhead(q) => JobAhead(q)'
  BY JobsWait
<1> QED
  BY <1>1 DEF TextInv, ReadInv, ReadyHasText

LEMMA RequestTextInv ==
    ASSUME TypeInv, TextInv, [Next]_vars, NEW h \in Handlers, Request(h) \/ Serve(h)
    PROVE  TextInv'
<1>0. /\ answers \in [QuestionIds -> Answer] /\ handlers \in [Handlers -> HandlerState]
      /\ crashes \in Nat
  BY QnaAssumption DEF TypeInv, TypeOK
<1>1. crashes' = crashes /\ worker' = worker /\ ~Restart /\ ~WorkerTake
  <2>1. crashes' = crashes /\ worker' = worker
    BY DEF Request, Serve, SubmitCheck, PassCheck, EndCheck, SubmitSave, SubmitStore,
           SubmitEnqueue, PassStore, PassDone, EndStore, EndDone
  <2>2. ~Restart
    BY <1>0, <2>1 DEF Restart
  <2>3. ~WorkerTake
    BY <2>1 DEF WorkerTake
  <2> QED
    BY <2>1, <2>2, <2>3
<1>2. \A q \in QuestionIds : JobAhead(q) => JobAhead(q)'
  BY <1>1, JobsWait
<1>3. ASSUME NEW p \in QuestionIds,
             \A q \in QuestionIds \ {p} : answers'[q] = answers[q],
             answers'[p].kind = "answered" =>
                 answers'[p].status = "processing" /\ JobAhead(p)'
      PROVE  TextInv'
  <2>1. ASSUME NEW q \in QuestionIds \ {p} PROVE Transcribing(q)' <=> Transcribing(q)
    BY <1>1 DEF Transcribing
  <2> QED
    BY <1>1, <1>2, <1>3, <2>1 DEF TextInv, ReadInv, ReadyHasText
<1>4. CASE SubmitStore(h)
  <2>1. handlers[h].q \in QuestionIds
    BY <1>4 DEF SubmitStore, TypeInv, BusyNamed
  <2>2. /\ answers'[handlers[h].q].status = "processing"
        /\ \A q \in QuestionIds \ {handlers[h].q} : answers'[q] = answers[q]
    BY <1>0, <2>1, <1>4 DEF SubmitStore, SubmittedRow
  <2>3. handlers'[h].pc = "enqueue" /\ handlers'[h].q = handlers[h].q
    BY <1>0, <1>4 DEF SubmitStore, HandlerState
  <2> QED
    BY <1>3, <2>1, <2>2, <2>3 DEF JobAhead
<1>5. CASE PassStore(h)
  <2>1. handlers[h].q \in QuestionIds
    BY <1>5 DEF PassStore, TypeInv, BusyNamed
  <2>2. /\ answers'[handlers[h].q].kind = "passed"
        /\ \A q \in QuestionIds \ {handlers[h].q} : answers'[q] = answers[q]
    BY <1>0, <2>1, <1>5 DEF PassStore, PassedRow
  <2> QED
    BY <1>3, <2>1, <2>2
<1>6. CASE UNCHANGED answers
  BY <1>1, <1>6, TextUndisturbed DEF Transcribing
<1>7. UNCHANGED answers \/ SubmitStore(h) \/ PassStore(h)
  BY DEF Request, Serve, SubmitCheck, PassCheck, EndCheck, SubmitSave, SubmitEnqueue,
         PassDone, EndStore, EndDone, database
<1> QED
  BY <1>4, <1>5, <1>6, <1>7

LEMMA WorkerTextInv ==
    ASSUME TypeInv, TextInv, [Next]_vars, Worker
    PROVE  TextInv'
<1>0. /\ answers \in [QuestionIds -> Answer] /\ worker \in WorkerState
      /\ queue \in Seq(QuestionIds) /\ crashes \in Nat
      /\ worker.pc # "idle" => worker.q \in QuestionIds
  BY QnaAssumption DEF TypeInv, TypeOK, BusyNamed
<1>1. crashes' = crashes /\ ~Restart
  <2>1. crashes' = crashes
    BY DEF Worker, WorkerTake, WorkerTranscribe, WorkerFail, WorkerText, WorkerLate,
           WorkerDecide, WorkerFollowUp, WorkerInsertFollowUp, WorkerRollback,
           WorkerAdvance, WorkerSpeak, WorkerReport
  <2> QED
    BY <1>0, <2>1 DEF Restart
<1>2. CASE WorkerTake
  <2>1. /\ answers' = answers /\ \A q \in QuestionIds : ~Transcribing(q)
        /\ Head(queue) \in QuestionIds
    BY <1>0, <1>2 DEF WorkerTake, Transcribing, database
  <2>2. ASSUME NEW q \in QuestionIds, Transcribing(q)'
        PROVE  worker'.seen = answers[q]
    BY <1>2, <2>2 DEF WorkerTake, Transcribing
  <2>3. worker'.q = Head(queue) /\ worker'.pc = "transcribe"
    BY <1>2 DEF WorkerTake
  <2>4. ASSUME NEW q \in QuestionIds, JobAhead(q)
        PROVE  JobAhead(q)' \/ Transcribing(q)'
    <3>1. JobAhead(q)' \/ q = Head(queue)
      BY <1>1, <2>4, JobsWait
    <3> QED
      BY <2>3, <3>1 DEF Transcribing
  <2> QED
    BY <1>1, <2>1, <2>2, <2>4 DEF TextInv, ReadInv, ReadyHasText
<1>3. CASE WorkerTranscribe
  <2>1. /\ answers' = answers /\ worker'.q = worker.q /\ worker'.seen = worker.seen
        /\ worker.pc = "transcribe" /\ worker'.pc \in {"text", "fail"}
    BY <1>0, <1>3 DEF WorkerTranscribe, WorkerState, database
  <2> QED
    BY <1>1, <2>1, TextUndisturbed DEF Transcribing, WorkerTake
<1>4. ASSUME \A q \in QuestionIds : ~Transcribing(q)',
             worker.q \in QuestionIds, worker.pc \in {"text", "fail"},
             \A q \in QuestionIds \ {worker.q} : answers'[q] = answers[q],
             answers'[worker.q].kind = answers[worker.q].kind,
             answers[worker.q] = worker.seen /\ answers'[worker.q].status = "ready" =>
                 answers'[worker.q].text
      PROVE  TextInv'
  <2>1. ~WorkerTake
    BY <1>4 DEF WorkerTake
  <2>2. \A q \in QuestionIds : JobAhead(q) => JobAhead(q)'
    BY <1>1, <2>1, JobsWait
  <2>3. ASSUME NEW q \in QuestionIds, crashes' = 0, answers'[q].kind = "answered",
               answers'[q].status = "ready"
        PROVE  answers'[q].text \/ JobAhead(q)'
    <3>1. CASE q = worker.q
      BY <1>1, <1>4, <2>2, <2>3, <3>1 DEF TextInv, ReadInv, Transcribing
    <3>2. CASE q # worker.q
      <4>1. answers'[q] = answers[q] /\ ~Transcribing(q)
        BY <1>4, <3>2 DEF Transcribing
      <4> QED
        BY <1>1, <2>2, <2>3, <4>1 DEF TextInv, ReadyHasText
    <3> QED
      BY <3>1, <3>2
  <2> QED
    BY <1>4, <2>3 DEF TextInv, ReadInv, ReadyHasText
<1>5. CASE WorkerFail
  <2>1. /\ worker.q \in QuestionIds /\ worker.pc = "fail"
        /\ \A q \in QuestionIds : ~Transcribing(q)'
        /\ \A q \in QuestionIds \ {worker.q} : answers'[q] = answers[q]
        /\ answers'[worker.q].kind = answers[worker.q].kind
        /\ answers'[worker.q].status
              = Write(worker.seen.status, "failed", answers[worker.q].status)
    BY <1>0, <1>5 DEF WorkerFail, WorkerIdle, Transcribing, Answer
  <2>2. answers[worker.q] = worker.seen => answers'[worker.q].status # "ready"
    BY <2>1 DEF Write
  <2> QED
    BY <1>4, <2>1, <2>2
<1>6. CASE WorkerText
  <2>1. /\ worker.q \in QuestionIds /\ worker.pc = "text"
        /\ \A q \in QuestionIds : ~Transcribing(q)'
    BY <1>0, <1>6 DEF WorkerText, WorkerState, Transcribing
  <2>2. /\ \A q \in QuestionIds \ {worker.q} : answers'[q] = answers[q]
        /\ answers'[worker.q].kind = answers[worker.q].kind
        /\ answers[worker.q] = worker.seen => answers'[worker.q].text
    BY <1>0, <1>6, <2>1 DEF WorkerText, Answer
  <2> QED
    BY <1>4, <2>1, <2>2
<1>7. CASE worker.pc \notin {"idle", "transcribe", "text", "fail"}
  <2> DEFINE Kept == \A q \in QuestionIds :
                         /\ answers'[q].kind = answers[q].kind
                         /\ answers'[q].status = answers[q].status
                         /\ answers'[q].text = answers[q].text
             Away == worker'.pc \notin {"transcribe", "text", "fail"}
  <2>1. WorkerLate => Kept /\ Away
    BY <1>0 DEF WorkerLate, WorkerIdle, Answer
  <2>2. WorkerDecide => Kept /\ Away
    BY <1>0 DEF WorkerDecide, WorkerState, database
  <2>3. WorkerFollowUp => Kept /\ Away
    BY <1>0 DEF WorkerFollowUp, WorkerState, database
  <2>4. WorkerInsertFollowUp => Kept /\ Away
    BY <1>0 DEF WorkerInsertFollowUp, WorkerState, Answer
  <2>5. WorkerAdvance => Kept /\ Away
    <3>1. WorkerAdvance => Kept
      BY <1>0 DEF WorkerAdvance, Answer
    <3>2. WorkerAdvance => Away
      BY <1>0 DEF WorkerAdvance, WorkerIdle, WorkerState
    <3> QED
      BY <3>1, <3>2
  <2>6. WorkerRollback \/ WorkerSpeak \/ WorkerReport => Kept /\ Away
    BY DEF WorkerRollback, WorkerSpeak, WorkerReport, WorkerIdle, database
  <2>7. Kept /\ Away
    BY <1>7, <2>1, <2>2, <2>3, <2>4, <2>5, <2>6
       DEF Worker, WorkerTake, WorkerTranscribe, WorkerFail, WorkerText
  <2> QED
    BY <1>1, <1>7, <2>7, TextUndisturbed DEF Transcribing, WorkerTake
<1> QED
  BY <1>2, <1>3, <1>5, <1>6, <1>7
     DEF Worker, WorkerTake, WorkerLate, WorkerDecide, WorkerFollowUp,
         WorkerInsertFollowUp, WorkerRollback, WorkerAdvance, WorkerSpeak, WorkerReport

LEMMA StepTextInv == TypeInv /\ TextInv /\ [Next]_vars => TextInv'
<1> SUFFICES ASSUME TypeInv, TextInv, [Next]_vars PROVE TextInv'
  OBVIOUS
<1>1. CASE Restart
  <2>1. crashes' # 0
    BY <1>1, QnaAssumption DEF Restart, TypeInv, TypeOK
  <2> QED
    BY <2>1 DEF TextInv, ReadInv, ReadyHasText
<1>2. CASE UNCHANGED vars
  BY <1>2 DEF vars, database, TextInv, ReadInv, ReadyHasText, JobAhead, Transcribing
<1> QED
  BY <1>1, <1>2, RequestTextInv, WorkerTextInv DEF Next

(* As long as the server is not restarted, an answer shown as ready has    *)
(* its text unless a job for it is still to come, although a commit of the *)
(* worker writes only what differs from the row it read: what the presenter*)
(* submitted again meanwhile is processing, with its own job ahead         *)
(* (run_answer_stt, submit_answer).                                        *)
THEOREM ReadyAnswersHaveText == Spec => []ReadyHasText
<1>1. Init => TypeInv /\ TextInv
  BY InitTypeInv DEF Init, NoAnswer, WorkerIdle, TextInv, ReadInv, ReadyHasText, Transcribing
<1>2. TypeInv /\ TextInv /\ [Next]_vars => (TypeInv /\ TextInv)'
  BY StepTypeInv, StepTextInv
<1>3. TextInv => ReadyHasText
  BY DEF TextInv
<1> QED
  BY <1>1, <1>2, <1>3, PTL DEF Spec
=============================================================================
