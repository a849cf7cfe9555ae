------------------------- MODULE PreparationProofs --------------------------
(***************************************************************************)
(* Proofs about Preparation, for every set of request threads, takes and   *)
(* formats, and every bound.                                               *)
(***************************************************************************)
EXTENDS Preparation, FiniteSetTheorems, TLAPS

(* Every row and record that is written is of its table or thread.         *)
LEMMA RowTypes ==
    /\ NoRecording \in Recording
    /\ Absent \in Segments
    /\ Idle \in HandlerState
    /\ WorkerIdle \in WorkerState
    /\ NoGeneration \in GenerationState
  BY DEF NoRecording, Recording, Absent, Segments, AsyncStatus, Idle, HandlerState,
         WorkerIdle, WorkerState, NoGeneration, GenerationState, NoKey,
         Lifecycle!SessionStatus

LEMMA UploadTypes ==
    ASSUME NEW e \in Exts, NEW t \in Takes, NEW new \in UploadOf(e, t)
    PROVE  new \in Recording /\ new.key = e /\ new # NoRecording
<1>1. new.take = {t} /\ new.key = e /\ new \in Recording
  BY DEF UploadOf, Recording
<1> QED
  BY <1>1 DEF NoRecording

(* The jobs that a restart finds are jobs of the queue, each in it.        *)
LEMMA OrderingsFacts ==
    ASSUME NEW S \in SUBSET Seqs, NEW s \in Orderings(S)
    PROVE  /\ s \in Seq(S)
           /\ \A x \in S : \E i \in 1 .. Len(s) : s[i] = x
<1>1. IsFiniteSet(Seqs)
  <2>1. NumChunks \in Int /\ 1 \in Int
    BY PreparationAssumption
  <2> QED
    BY <2>1, FS_Interval DEF Seqs
<1>2. IsFiniteSet(S) /\ Cardinality(S) \in Nat
  BY <1>1, FS_Subset, FS_CardinalityType
<1>3. s \in [1 .. Cardinality(S) -> S]
  BY DEF Orderings
<1>4. Len(s) = Cardinality(S) /\ s \in Seq(S)
  BY <1>2, <1>3
<1>5. \A x \in S : \E i \in DOMAIN s : s[i] = x
  BY DEF Orderings
<1> QED
  BY <1>2, <1>3, <1>4, <1>5

(* What a restart puts into the queue.                                     *)
LEMMA RecoveredQueue ==
    ASSUME TypeOK, Restart
    PROVE  /\ queue' \in Seq(Jobs)
           /\ Unfinished(transcript) =>
                 \E i \in 1 .. Len(queue') : queue'[i] = <<"recording", 0>>
           /\ \A s \in RecoveredChunks :
                 \E i \in 1 .. Len(queue') : queue'[i] = <<"chunk", s>>
<1> DEFINE first == IF Unfinished(transcript) THEN <<<<"recording", 0>>>> ELSE <<>>
<1>1. PICK order \in Orderings(RecoveredChunks) :
          queue' = first \o [i \in DOMAIN order |-> <<"chunk", order[i]>>]
  BY DEF Restart
<1> DEFINE rest == [i \in DOMAIN order |-> <<"chunk", order[i]>>]
<1>2. RecoveredChunks \in SUBSET Seqs
  BY DEF RecoveredChunks
<1>3. /\ order \in Seq(RecoveredChunks)
      /\ \A x \in RecoveredChunks : \E i \in 1 .. Len(order) : order[i] = x
  BY <1>1, <1>2, OrderingsFacts
<1>4. first \in Seq(Jobs)
  <2>1. <<"recording", 0>> \in Jobs
    BY DEF Jobs
  <2> QED
    BY <2>1
<1>5. rest \in Seq(Jobs) /\ Len(rest) = Len(order)
      /\ \A i \in 1 .. Len(order) : rest[i] = <<"chunk", order[i]>>
  <2>1. \A i \in DOMAIN order : <<"chunk", order[i]>> \in Jobs
    BY <1>2, <1>3 DEF Jobs
  <2>2. DOMAIN order = 1 .. Len(order) /\ Len(order) \in Nat
    BY <1>3
  <2> QED
    BY <2>1, <2>2
<1>6. queue' = first \o rest
  BY <1>1
<1> HIDE DEF rest
<1>7. queue' \in Seq(Jobs)
  BY <1>4, <1>5, <1>6
<1>8. ASSUME Unfinished(transcript)
      PROVE  \E i \in 1 .. Len(queue') : queue'[i] = <<"recording", 0>>
  <2>1. first = <<<<"recording", 0>>>>
    BY <1>8
  <2>2. Len(queue') = 1 + Len(rest) /\ queue'[1] = <<"recording", 0>> /\ Len(rest) \in Nat
    BY <1>5, <1>6, <2>1
  <2> QED
    BY <2>2
<1>9. ASSUME NEW s \in RecoveredChunks
      PROVE  \E i \in 1 .. Len(queue') : queue'[i] = <<"chunk", s>>
  <2>1. PICK i \in 1 .. Len(rest) : rest[i] = <<"chunk", s>>
    BY <1>3, <1>5
  <2>2. Len(first) \in Nat /\ Len(rest) \in Nat /\ Len(queue') = Len(first) + Len(rest)
    BY <1>4, <1>5, <1>6
  <2>3. queue'[Len(first) + i] = rest[i]
    BY <1>4, <1>5, <1>6, <2>2
  <2> QED
    BY <2>1, <2>2, <2>3
<1> QED
  BY <1>7, <1>8, <1>9

-----------------------------------------------------------------------------
LEMMA InitTypeInv == Init => TypeInv
<1> SUFFICES ASSUME Init PROVE TypeInv
  OBVIOUS
<1>1. TypeOK
  BY RowTypes, PreparationAssumption DEF Init, TypeOK, Lifecycle!SessionStatus
<1>2. ThreadsNamed
  BY DEF Init, ThreadsNamed, Idle, WorkerIdle
<1> QED
  BY <1>1, <1>2 DEF TypeInv

LEMMA RequestTypeInv ==
    ASSUME TypeInv, NEW h \in Handlers, Request(h)
    PROVE  TypeInv'
<1> USE DEF TypeInv
<1>0. /\ handlers \in [Handlers -> HandlerState]
      /\ handlers[h] \in HandlerState
      /\ Idle \in HandlerState
      /\ status \in Lifecycle!SessionStatus
  BY RowTypes DEF TypeOK
<1> DEFINE Same == UNCHANGED <<database, storage, queue, worker, generations, crashes>>
<1>a. ASSUME NEW r \in HandlerState, handlers' = [handlers EXCEPT ![h] = r], Same,
             r.pc \in {"save", "store"} => r.new.key \in Exts,
             r.pc \in {"chunk_save", "chunk_store", "chunk_enqueue"} => r.seq \in Seqs
      PROVE  TypeInv'
  BY <1>0, <1>a DEF TypeOK, ThreadsNamed, database, storage
<1>1. CASE StartCheck(h)
  <2> DEFINE r == [handlers[h] EXCEPT !.pc = "start", !.seen = status]
  <2>1. r \in HandlerState /\ r.pc = "start" /\ handlers' = [handlers EXCEPT ![h] = r]
    BY <1>0, <1>1 DEF StartCheck, HandlerState
  <2> QED
    BY <1>a, <2>1, <1>1 DEF StartCheck
<1>2. ASSUME NEW e \in Exts, NEW t \in Takes, NEW new \in UploadOf(e, t), UploadCheck(h, new)
      PROVE  TypeInv'
  <2> DEFINE r == [Idle EXCEPT !.pc = "save", !.new = new]
  <2>1. r \in HandlerState /\ r.pc = "save" /\ r.new = new
    BY <1>0, <1>2, UploadTypes DEF HandlerState, Idle
  <2>2. new.key \in Exts
    BY <1>2, UploadTypes
  <2>3. handlers' = [handlers EXCEPT ![h] = r] /\ Same
    BY <1>2 DEF UploadCheck
  <2> HIDE DEF r, Same
  <2> QED
    BY <1>a, <2>1, <2>2, <2>3
<1>3. ASSUME NEW s \in Seqs, NEW t \in Takes, ChunkCheck(h, s, t)
      PROVE  TypeInv'
  <2> DEFINE new == [NoRecording EXCEPT !.take = {t}]
             r   == [Idle EXCEPT !.pc = "chunk_save", !.seen = status, !.seq = s, !.new = new]
  <2>1. new \in Recording
    BY RowTypes DEF Recording
  <2>2. r \in HandlerState /\ r.pc = "chunk_save" /\ r.seq = s
    <3> HIDE DEF new
    <3> QED
      BY <1>0, <2>1 DEF HandlerState, Idle
  <2>3. handlers' = [handlers EXCEPT ![h] = r] /\ Same
    BY <1>3 DEF ChunkCheck
  <2> HIDE DEF r, Same
  <2> QED
    BY <1>a, <2>2, <2>3
<1>4. CASE RetryCheck(h)
  <2> DEFINE r == [handlers[h] EXCEPT !.pc = "retry", !.seen = status]
  <2>1. r \in HandlerState /\ r.pc = "retry" /\ handlers' = [handlers EXCEPT ![h] = r]
    BY <1>0, <1>4 DEF RetryCheck, HandlerState
  <2> QED
    BY <1>a, <2>1, <1>4 DEF RetryCheck
<1>5. CASE GenerateCheck(h)
  <2> DEFINE r == [handlers[h] EXCEPT !.pc = "generate", !.seen = status]
  <2>1. r \in HandlerState /\ r.pc = "generate" /\ handlers' = [handlers EXCEPT ![h] = r]
    BY <1>0, <1>5 DEF GenerateCheck, HandlerState
  <2> QED
    BY <1>a, <2>1, <1>5 DEF GenerateCheck
<1> QED
  BY <1>1, <1>2, <1>3, <1>4, <1>5 DEF Request

LEMMA ServeTypeInv ==
    ASSUME TypeInv, NEW h \in Handlers, Serve(h)
    PROVE  TypeInv'
<1> USE DEF TypeInv
<1>0. /\ handlers \in [Handlers -> HandlerState]
      /\ handlers[h] \in HandlerState
      /\ handlers[h].new \in Recording
      /\ Idle \in HandlerState /\ Idle.pc = "idle"
  BY RowTypes DEF TypeOK, HandlerState, Idle
<1>1. CASE StartStore(h)
  BY <1>0, <1>1 DEF StartStore, TypeOK, ThreadsNamed, storage, Lifecycle!SessionStatus
<1>2. CASE UploadSave(h)
  <2>1. files' \in [Exts -> SUBSET Takes]
    BY <1>0, <1>2 DEF UploadSave, TypeOK, ThreadsNamed, Recording
  <2>2. handlers' \in [Handlers -> HandlerState]
    BY <1>0, <1>2 DEF UploadSave, TypeOK, HandlerState
  <2> QED
    BY <2>1, <2>2, <1>0, <1>2 DEF UploadSave, TypeOK, ThreadsNamed, database, HandlerState
<1>3. CASE UploadStore(h)
  <2>1. handlers' \in [Handlers -> HandlerState]
    BY <1>0, <1>3 DEF UploadStore, TypeOK, HandlerState, Recording
  <2>2. recording' \in Recording /\ recording'.key \in Exts
    BY <1>0, <1>3 DEF UploadStore, ThreadsNamed
  <2>3. transcript' \in Segments /\ status' \in Lifecycle!SessionStatus
    BY <1>3 DEF UploadStore, Segments, AsyncStatus, Lifecycle!SessionStatus
  <2> QED
    BY <2>1, <2>2, <2>3, <1>0, <1>3 DEF UploadStore, TypeOK, ThreadsNamed, storage, HandlerState
<1>4. CASE UploadRefused(h)
  BY <1>0, <1>4 DEF UploadRefused, TypeOK, ThreadsNamed, database, storage
<1>5. CASE UploadEnqueue(h)
  <2>1. queue' \in Seq(Jobs)
    BY <1>5 DEF UploadEnqueue, Kind, Jobs, TypeOK
  <2>2. files' \in [Exts -> SUBSET Takes]
    BY <1>5 DEF UploadEnqueue, TypeOK
  <2> QED
    BY <2>1, <2>2, <1>0, <1>5 DEF UploadEnqueue, TypeOK, ThreadsNamed, database
<1>6. CASE ChunkSave(h)
  <2>1. chunkFiles' \in [Seqs -> SUBSET Takes]
    BY <1>0, <1>6 DEF ChunkSave, TypeOK, ThreadsNamed, Recording
  <2> DEFINE r == [handlers[h] EXCEPT !.pc = "chunk_store", !.new = NoRecording]
  <2>2. r \in HandlerState /\ r.pc = "chunk_store" /\ r.seq = handlers[h].seq
    BY <1>0, RowTypes DEF HandlerState
  <2>3. handlers' = [handlers EXCEPT ![h] = r]
    BY <1>0, <1>6 DEF ChunkSave
  <2> QED
    BY <2>1, <2>2, <2>3, <1>0, <1>6 DEF ChunkSave, TypeOK, ThreadsNamed, database
<1>7. CASE ChunkStore(h)
  <2>1. chunks' \in [Seqs -> Segments]
    BY <1>7 DEF ChunkStore, TypeOK, ThreadsNamed, Segments, AsyncStatus
  <2>2. transcript' \in Segments /\ status' \in Lifecycle!SessionStatus
    BY <1>7 DEF ChunkStore, TypeOK, Segments, AsyncStatus, Lifecycle!SessionStatus
  <2>3. handlers' \in [Handlers -> HandlerState]
    BY <1>0, <1>7 DEF ChunkStore, HandlerState
  <2> QED
    BY <2>1, <2>2, <2>3, <1>0, <1>7 DEF ChunkStore, TypeOK, ThreadsNamed, storage, HandlerState
<1>8. CASE ChunkEnqueue(h)
  <2>1. queue' \in Seq(Jobs)
    BY <1>8 DEF ChunkEnqueue, Jobs, TypeOK, ThreadsNamed
  <2> QED
    BY <2>1, <1>0, <1>8 DEF ChunkEnqueue, TypeOK, ThreadsNamed, database, storage
<1>9. CASE RetryStore(h)
  <2>1. transcript' \in Segments /\ status' \in Lifecycle!SessionStatus
    BY <1>9 DEF RetryStore, TypeOK, Segments, AsyncStatus, Lifecycle!SessionStatus
  <2>2. handlers' \in [Handlers -> HandlerState]
    BY <1>0, <1>9 DEF RetryStore, HandlerState
  <2> QED
    BY <2>1, <2>2, <1>0, <1>9 DEF RetryStore, TypeOK, ThreadsNamed, storage, HandlerState
<1>10. CASE RetryEnqueue(h)
  <2>1. queue' \in Seq(Jobs)
    BY <1>10 DEF RetryEnqueue, Jobs, TypeOK
  <2> QED
    BY <2>1, <1>0, <1>10 DEF RetryEnqueue, TypeOK, ThreadsNamed, database, storage
<1>11. CASE GenerateStore(h)
  <2>1. generations' \in [Slots -> GenerationState]
    BY <1>11 DEF GenerateStore, TypeOK, GenerationState
  <2> QED
    BY <2>1, <1>0, <1>11 DEF GenerateStore, TypeOK, ThreadsNamed, storage,
                              Lifecycle!SessionStatus
<1> QED
  BY <1>1, <1>2, <1>3, <1>4, <1>5, <1>6, <1>7, <1>8, <1>9, <1>10, <1>11 DEF Serve

LEMMA WorkerTypeInv ==
    ASSUME TypeInv, Worker
    PROVE  TypeInv'
<1> USE DEF TypeInv
<1>0. /\ worker \in WorkerState
      /\ WorkerIdle \in WorkerState /\ WorkerIdle.pc = "idle" /\ WorkerIdle.seq = 0
      /\ transcript \in Segments /\ recording \in Recording
      /\ queue \in Seq(Jobs)
  BY RowTypes DEF TypeOK, WorkerIdle
<1>q. queue # <<>> => Head(queue) \in Jobs /\ Tail(queue) \in Seq(Jobs)
  BY <1>0
<1>1. CASE WorkerDrop
  BY <1>q, <1>1 DEF WorkerDrop, TypeOK, ThreadsNamed, database, storage
<1>2. CASE WorkerTake
  <2>1. worker' \in WorkerState /\ worker'.key = recording.key /\ worker'.seq = 0
        /\ worker'.pc \in {"merge", "probe", "open"}
    BY <1>0, <1>2 DEF WorkerTake, WorkerState, WorkerIdle, Recording, Segments
  <2>2. transcript' \in Segments
    BY <1>0, <1>2 DEF WorkerTake, Segments, AsyncStatus
  <2> QED
    BY <1>q, <2>1, <2>2, <1>2 DEF WorkerTake, TypeOK, ThreadsNamed, storage
<1>3. CASE WorkerOpen
  <2>1. worker' \in WorkerState /\ worker'.key = worker.key /\ worker'.seq = worker.seq
        /\ worker'.pc \in {"measure", "transcribe"}
    BY <1>0, <1>3 DEF WorkerOpen, WorkerState, TypeOK, ThreadsNamed
  <2> QED
    BY <2>1, <1>0, <1>3 DEF WorkerOpen, TypeOK, ThreadsNamed, database, storage
<1>4. CASE WorkerMeasure
  <2>1. recording' \in Recording /\ recording'.key = recording.key
    BY <1>0, <1>4 DEF WorkerMeasure, Recording, WorkerState
  <2>2. recording.key \in Exts
    BY <1>4 DEF WorkerMeasure, ThreadsNamed
  <2>3. worker' \in WorkerState /\ worker'.key = worker.key /\ worker'.pc = "open"
        /\ worker'.seq = worker.seq
    BY <1>0, <1>4 DEF WorkerMeasure, WorkerState
  <2> QED
    BY <2>1, <2>2, <2>3, <1>4 DEF WorkerMeasure, TypeOK, ThreadsNamed, storage
<1>5. ASSUME NEW from \in SUBSET Takes, Stored(from)
      PROVE  TypeInv'
  <2>1. transcript' \in Segments
    BY <1>0, <1>5 DEF Stored, Write, Segments, AsyncStatus
  <2> QED
    BY <2>1, <1>0, <1>5 DEF Stored, TypeOK, ThreadsNamed, storage
<1>6. CASE WorkerMerge
  <2>1. UNION {chunks[s].from : s \in received} \in SUBSET Takes
    BY DEF TypeOK, received, Segments
  <2> QED
    BY <2>1, <1>5, <1>6 DEF WorkerMerge
<1>7. CASE WorkerFallback
  BY <1>0, <1>7 DEF WorkerFallback, TypeOK, ThreadsNamed, database, storage, WorkerState
<1>8. CASE WorkerReady
  BY <1>0, <1>5, <1>8 DEF WorkerReady, WorkerState
<1>9. CASE WorkerFail
  <2>1. transcript' \in Segments /\ status' \in Lifecycle!SessionStatus
    BY <1>0, <1>9 DEF WorkerFail, TypeOK, Segments, AsyncStatus, Lifecycle!SessionStatus
  <2> QED
    BY <2>1, <1>0, <1>9 DEF WorkerFail, TypeOK, ThreadsNamed, storage
<1>10. CASE WorkerTakeChunk
  <2> DEFINE seq == Head(queue)[2]
  <2>1. seq \in Seqs
    BY <1>q, <1>10 DEF WorkerTakeChunk, Jobs
  <2>2. chunks' \in [Seqs -> Segments]
    BY <2>1, <1>10 DEF WorkerTakeChunk, TypeOK, Segments, AsyncStatus
  <2>3. chunks[seq].from \in SUBSET Takes
    BY <2>1 DEF TypeOK, Segments
  <2>4. worker' \in WorkerState /\ worker'.seq = seq /\ worker'.pc = "chunk_open"
    BY <2>1, <2>3, <1>0, <1>10 DEF WorkerTakeChunk, WorkerState, WorkerIdle
  <2> QED
    BY <1>q, <2>1, <2>2, <2>4, <1>10 DEF WorkerTakeChunk, TypeOK, ThreadsNamed, storage
<1>11. CASE WorkerOpenChunk
  <2>1. chunkFiles[worker.seq] \in SUBSET Takes
    BY <1>11 DEF WorkerOpenChunk, TypeOK, ThreadsNamed
  <2>2. worker' \in WorkerState /\ worker'.seq = worker.seq /\ worker'.pc = "chunk_transcribe"
    BY <2>1, <1>0, <1>11 DEF WorkerOpenChunk, WorkerState
  <2> QED
    BY <2>2, <1>11 DEF WorkerOpenChunk, TypeOK, ThreadsNamed, database, storage
<1>12. CASE WorkerChunkDone
  <2>1. chunks' \in [Seqs -> Segments]
    BY <1>0, <1>12 DEF WorkerChunkDone, TypeOK, Segments, AsyncStatus, Write, WorkerState
  <2> QED
    BY <2>1, <1>0, <1>12 DEF WorkerChunkDone, TypeOK, ThreadsNamed, storage
<1> QED
  BY <1>1, <1>2, <1>3, <1>4, <1>6, <1>7, <1>8, <1>9, <1>10, <1>11, <1>12 DEF Worker

LEMMA GenerationTypeInv ==
    ASSUME TypeInv, NEW g \in Slots, Generation(g)
    PROVE  TypeInv'
<1> USE DEF TypeInv
<1>0. /\ generations \in [Slots -> GenerationState] /\ generations[g] \in GenerationState
      /\ NoGeneration \in GenerationState
  BY RowTypes DEF TypeOK
<1>1. CASE GenerationRead(g)
  <2>1. generations' \in [Slots -> GenerationState]
    BY <1>0, <1>1 DEF GenerationRead, GenerationState, TypeOK, Segments
  <2> QED
    BY <2>1, <1>1 DEF GenerationRead, TypeOK, ThreadsNamed, database, storage
<1>2. CASE GenerationStore(g)
  <2>1. questions' \in [made : BOOLEAN, from : SUBSET Takes]
    BY <1>0, <1>2 DEF GenerationStore, GenerationState
  <2> QED
    BY <2>1, <1>0, <1>2 DEF GenerationStore, TypeOK, ThreadsNamed, storage,
                             Lifecycle!SessionStatus
<1>3. CASE GenerationRollback(g)
  BY <1>0, <1>3 DEF GenerationRollback, TypeOK, ThreadsNamed, database, storage
<1>4. CASE GenerationFail(g)
  BY <1>0, <1>4 DEF GenerationFail, TypeOK, ThreadsNamed, storage, Lifecycle!SessionStatus
<1> QED
  BY <1>1, <1>2, <1>3, <1>4 DEF Generation

LEMMA RestartTypeInv ==
    ASSUME TypeInv, Restart
    PROVE  TypeInv'
<1>1. queue' \in Seq(Jobs)
  BY RecoveredQueue DEF TypeInv
<1>2. crashes' \in 0 .. MaxCrashes
  BY PreparationAssumption DEF Restart, TypeInv, TypeOK
<1>3. WorkerIdle.pc = "idle" /\ WorkerIdle.seq = 0 /\ Idle.pc = "idle"
  BY DEF WorkerIdle, Idle
<1> QED
  BY <1>1, <1>2, <1>3, RowTypes
     DEF Restart, TypeInv, TypeOK, ThreadsNamed, database, storage

LEMMA StepTypeInv == TypeInv /\ [Next]_vars => TypeInv'
<1>1. CASE UNCHANGED vars
  BY <1>1 DEF vars, database, storage, TypeInv, TypeOK, ThreadsNamed
<1> QED
  BY <1>1, RequestTypeInv, ServeTypeInv, WorkerTypeInv, GenerationTypeInv, RestartTypeInv
     DEF Next

(* Every reachable state has the types of the tables, threads and queue.   *)
THEOREM TypeCorrect == Spec => []TypeOK
<1>1. TypeInv => TypeOK
  BY DEF TypeInv
<1> QED
  BY <1>1, InitTypeInv, StepTypeInv, PTL DEF Spec

-----------------------------------------------------------------------------
(* The queue: a job that is added leaves the others in it, and taking the  *)
(* first leaves the rest.                                                  *)
InQueue(job, q) == \E i \in 1 .. Len(q) : q[i] = job

LEMMA Added ==
    ASSUME NEW q \in Seq(Jobs), NEW job \in Jobs
    PROVE  /\ InQueue(job, Append(q, job))
           /\ \A x : InQueue(x, q) => InQueue(x, Append(q, job))
<1>1. /\ Len(q) \in Nat /\ Len(Append(q, job)) = Len(q) + 1
      /\ Append(q, job)[Len(q) + 1] = job
      /\ \A i \in 1 .. Len(q) : Append(q, job)[i] = q[i]
  OBVIOUS
<1> QED
  BY <1>1 DEF InQueue

LEMMA Taken ==
    ASSUME NEW q \in Seq(Jobs), q # <<>>, NEW x, InQueue(x, q), x # Head(q)
    PROVE  InQueue(x, Tail(q))
<1>1. /\ Len(q) \in Nat /\ Len(Tail(q)) = Len(q) - 1 /\ Head(q) = q[1]
      /\ \A k \in 1 .. Len(Tail(q)) : Tail(q)[k] = q[k + 1]
  OBVIOUS
<1>2. PICK i \in 1 .. Len(q) : q[i] = x
  BY DEF InQueue
<1>3. i # 1 /\ i - 1 \in 1 .. Len(Tail(q))
  BY <1>1, <1>2
<1>4. Tail(q)[i - 1] = x
  BY <1>1, <1>2, <1>3
<1> QED
  BY <1>3, <1>4 DEF InQueue

-----------------------------------------------------------------------------
(* Live chunks.                                                            *)

ChunkQueued(s)   == InQueue(<<"chunk", s>>, queue)
ChunkToQueue(s)  == \E h \in Handlers : handlers[h].pc = "chunk_enqueue" /\ handlers[h].seq = s
ChunkHasJob(s)   == ChunkQueued(s) \/ worker.seq = s \/ ChunkToQueue(s)
ChunkCovered(s)  == chunks[s].status \in {"queued", "processing"} => ChunkHasJob(s)

(* A step that keeps the row, and loses the job neither from the queue nor *)
(* from the worker nor from a request.                                     *)
LEMMA ChunkKept ==
    ASSUME NEW s \in Seqs, ChunkCovered(s),
           chunks'[s].status = chunks[s].status,
           ChunkQueued(s) => ChunkHasJob(s)',
           worker.seq = s => worker'.seq = s,
           \A h \in Handlers : handlers[h].pc = "chunk_enqueue" => handlers'[h] = handlers[h]
    PROVE  ChunkCovered(s)'
  BY DEF ChunkCovered, ChunkHasJob, ChunkToQueue

LEMMA RequestChunk ==
    ASSUME TypeInv, NEW s \in Seqs, ChunkCovered(s), NEW h \in Handlers, Request(h)
    PROVE  ChunkCovered(s)'
<1>1. /\ UNCHANGED <<chunks, queue, worker>>
      /\ handlers[h].pc = "idle"
      /\ \A x \in Handlers \ {h} : handlers'[x] = handlers[x]
  BY DEF Request, StartCheck, UploadCheck, ChunkCheck, RetryCheck, GenerateCheck, database,
         TypeInv, TypeOK
<1>2. ChunkQueued(s) => ChunkHasJob(s)'
  BY <1>1 DEF ChunkQueued, ChunkHasJob
<1> QED
  BY <1>1, <1>2, ChunkKept

LEMMA ServeChunk ==
    ASSUME TypeInv, NEW s \in Seqs, ChunkCovered(s), NEW h \in Handlers, Serve(h)
    PROVE  ChunkCovered(s)'
<1>0. /\ handlers \in [Handlers -> HandlerState] /\ handlers[h] \in HandlerState
      /\ queue \in Seq(Jobs)
      /\ chunks \in [Seqs -> Segments]
  BY DEF TypeInv, TypeOK
<1>a. \A x \in Handlers \ {h} : handlers'[x] = handlers[x]
  BY <1>0 DEF Serve, StartStore, UploadSave, UploadStore, UploadRefused, UploadEnqueue,
              ChunkSave, ChunkStore, ChunkEnqueue, RetryStore, RetryEnqueue, GenerateStore
<1>b. worker' = worker
  BY DEF Serve, StartStore, UploadSave, UploadStore, UploadRefused, UploadEnqueue,
         ChunkSave, ChunkStore, ChunkEnqueue, RetryStore, RetryEnqueue, GenerateStore
<1>1. CASE StartStore(h) \/ UploadSave(h) \/ UploadStore(h) \/ UploadRefused(h)
           \/ ChunkSave(h) \/ RetryStore(h) \/ GenerateStore(h)
  <2>1. UNCHANGED <<chunks, queue>> /\ handlers[h].pc # "chunk_enqueue"
    BY <1>1 DEF StartStore, UploadSave, UploadStore, UploadRefused, ChunkSave, RetryStore,
                GenerateStore, database
  <2>2. ChunkQueued(s) => ChunkHasJob(s)'
    BY <2>1 DEF ChunkQueued, ChunkHasJob
  <2> QED
    BY <2>1, <2>2, <1>a, <1>b, ChunkKept
<1>2. CASE UploadEnqueue(h) \/ RetryEnqueue(h)
  <2>1. /\ UNCHANGED chunks /\ handlers[h].pc # "chunk_enqueue"
        /\ \E job \in Jobs : queue' = Append(queue, job)
    BY <1>2 DEF UploadEnqueue, RetryEnqueue, database, Kind, Jobs
  <2>2. ChunkQueued(s) => ChunkHasJob(s)'
    BY <2>1, <1>0, Added DEF ChunkQueued, ChunkHasJob
  <2> QED
    BY <2>1, <2>2, <1>a, <1>b, ChunkKept
<1>3. CASE ChunkStore(h)
  <2>1. queue' = queue /\ handlers[h].pc = "chunk_store"
    BY <1>3 DEF ChunkStore
  <2>2. CASE handlers[h].seq = s
    <3>1. handlers'[h].pc = "chunk_enqueue" /\ handlers'[h].seq = s
      BY <2>2, <1>0, <1>3 DEF ChunkStore, HandlerState
    <3> QED
      BY <3>1 DEF ChunkCovered, ChunkHasJob, ChunkToQueue
  <2>3. CASE handlers[h].seq # s
    <3>1. chunks'[s] = chunks[s]
      BY <2>3, <1>0, <1>3 DEF ChunkStore
    <3>2. ChunkQueued(s) => ChunkHasJob(s)'
      BY <2>1 DEF ChunkQueued, ChunkHasJob
    <3> QED
      BY <3>1, <3>2, <2>1, <1>a, <1>b, ChunkKept
  <2> QED
    BY <2>2, <2>3
<1>4. CASE ChunkEnqueue(h)
  <2>1. /\ UNCHANGED chunks
        /\ queue' = Append(queue, <<"chunk", handlers[h].seq>>)
        /\ <<"chunk", handlers[h].seq>> \in Jobs
    BY <1>4 DEF ChunkEnqueue, database, Jobs, TypeInv, ThreadsNamed
  <2>2. ChunkQueued(s) \/ handlers[h].seq = s => ChunkQueued(s)'
    BY <2>1, <1>0, Added DEF ChunkQueued
  <2> QED
    BY <2>1, <2>2, <1>a, <1>b DEF ChunkCovered, ChunkHasJob, ChunkToQueue
<1> QED
  BY <1>1, <1>2, <1>3, <1>4 DEF Serve

LEMMA WorkerChunk ==
    ASSUME TypeInv, NEW s \in Seqs, ChunkCovered(s), Worker
    PROVE  ChunkCovered(s)'
<1>0. /\ worker \in WorkerState /\ queue \in Seq(Jobs) /\ chunks \in [Seqs -> Segments]
      /\ WorkerIdle.seq = 0 /\ s # 0
  BY PreparationAssumption DEF TypeInv, TypeOK, WorkerIdle, Seqs
<1>a. handlers' = handlers
  BY DEF Worker, WorkerDrop, WorkerTake, WorkerOpen, WorkerMeasure, WorkerMerge,
         WorkerFallback, WorkerReady, WorkerFail, WorkerTakeChunk, WorkerOpenChunk,
         WorkerChunkDone, Stored
<1>b. worker.pc \notin {"chunk_open", "chunk_transcribe"} => worker.seq = 0
  BY DEF TypeInv, ThreadsNamed
<1>1. CASE WorkerDrop \/ WorkerTake
  <2>1. /\ UNCHANGED chunks /\ worker.seq # s
        /\ queue # <<>> /\ <<"chunk", s>> # Head(queue) /\ queue' = Tail(queue)
    BY <1>0, <1>b, <1>1 DEF WorkerDrop, WorkerTake, database
  <2>2. ChunkQueued(s) => ChunkHasJob(s)'
    BY <2>1, <1>0, Taken DEF ChunkQueued, ChunkHasJob
  <2> QED
    BY <2>1, <2>2, <1>a, ChunkKept
<1>2. CASE WorkerOpen \/ WorkerMeasure \/ WorkerMerge \/ WorkerFallback \/ WorkerReady
           \/ WorkerFail
  <2>1. UNCHANGED <<chunks, queue>> /\ worker.pc \notin {"chunk_open", "chunk_transcribe"}
    BY <1>2 DEF WorkerOpen, WorkerMeasure, WorkerMerge, WorkerFallback, WorkerReady,
                WorkerFail, WorkerFailed, Stored, database
  <2>2. ChunkQueued(s) => ChunkHasJob(s)'
    BY <2>1 DEF ChunkQueued, ChunkHasJob
  <2> QED
    BY <2>1, <2>2, <1>0, <1>a, <1>b, ChunkKept
<1>3. CASE WorkerTakeChunk
  <2>1. /\ worker.seq # s /\ queue # <<>> /\ Head(queue)[1] = "chunk" /\ queue' = Tail(queue)
        /\ worker'.seq = Head(queue)[2]
        /\ chunks' = [chunks EXCEPT ![Head(queue)[2]].status = "processing"]
    BY <1>0, <1>b, <1>3 DEF WorkerTakeChunk, WorkerIdle
  <2>2. CASE Head(queue)[2] = s
    BY <2>1, <2>2 DEF ChunkCovered, ChunkHasJob
  <2>3. CASE Head(queue)[2] # s
    <3>1. chunks'[s] = chunks[s]
      BY <2>1, <2>3, <1>0
    <3>2. <<"chunk", s>> # Head(queue)
      BY <2>3
    <3>3. ChunkQueued(s) => ChunkHasJob(s)'
      BY <2>1, <3>2, <1>0, Taken DEF ChunkQueued, ChunkHasJob
    <3> QED
      BY <2>1, <3>1, <3>3, <1>a, ChunkKept
  <2> QED
    BY <2>2, <2>3
<1>4. CASE WorkerOpenChunk
  <2>1. UNCHANGED <<chunks, queue>> /\ worker'.seq = worker.seq
    BY <1>0, <1>4 DEF WorkerOpenChunk, WorkerState, database
  <2>2. ChunkQueued(s) => ChunkHasJob(s)'
    BY <2>1 DEF ChunkQueued, ChunkHasJob
  <2> QED
    BY <2>1, <2>2, <1>a, ChunkKept
<1>5. CASE WorkerChunkDone
  <2>1. queue' = queue
    BY <1>5 DEF WorkerChunkDone
  <2>2. CASE worker.seq = s
    <3>1. chunks'[s].status \in {"ready", "failed"}
      BY <2>2, <1>0, <1>5 DEF WorkerChunkDone, Segments
    <3> QED
      BY <3>1 DEF ChunkCovered
  <2>3. CASE worker.seq # s
    <3>1. chunks'[s] = chunks[s]
      BY <2>3, <1>0, <1>5 DEF WorkerChunkDone
    <3>2. ChunkQueued(s) => ChunkHasJob(s)'
      BY <2>1 DEF ChunkQueued, ChunkHasJob
    <3> QED
      BY <2>3, <3>1, <3>2, <1>a, ChunkKept
  <2> QED
    BY <2>2, <2>3
<1> QED
  BY <1>1, <1>2, <1>3, <1>4, <1>5 DEF Worker

LEMMA StepChunk ==
    ASSUME TypeInv, NEW s \in Seqs, ChunkCovered(s), [Next]_vars
    PROVE  ChunkCovered(s)'
<1>1. CASE UNCHANGED vars
  BY <1>1 DEF vars, database, ChunkCovered, ChunkHasJob, ChunkQueued, ChunkToQueue
<1>2. ASSUME NEW g \in Slots, Generation(g)
      PROVE  ChunkCovered(s)'
  <2>1. UNCHANGED <<chunks, queue, worker, handlers>>
    BY <1>2 DEF Generation, GenerationRead, GenerationStore, GenerationRollback,
                GenerationFail, database
  <2> QED
    BY <2>1 DEF ChunkCovered, ChunkHasJob, ChunkQueued, ChunkToQueue
<1>3. CASE Restart
  <2>1. chunks' = chunks
    BY <1>3 DEF Restart, database
  <2>2. chunks[s].status \in {"queued", "processing"} => s \in RecoveredChunks
    BY DEF RecoveredChunks, Unfinished
  <2>3. s \in RecoveredChunks => ChunkQueued(s)'
    BY <1>3, RecoveredQueue DEF TypeInv, ChunkQueued, InQueue
  <2> QED
    BY <2>1, <2>2, <2>3 DEF ChunkCovered, ChunkHasJob
<1> QED
  BY <1>1, <1>2, <1>3, RequestChunk, ServeChunk, WorkerChunk DEF Next

(* A live chunk that is queued or processing always has its job, however   *)
(* often it is sent again, whatever else the worker does, and across any   *)
(* number of restarts.                                                     *)
THEOREM ChunkHasItsJob == Spec => []ChunkJobCovered
<1>0. ChunkJobCovered <=> \A s \in Seqs : ChunkCovered(s)
  BY DEF ChunkJobCovered, ChunkCovered, ChunkHasJob, ChunkQueued, ChunkToQueue, InQueue
<1> DEFINE Inv == TypeInv /\ \A s \in Seqs : ChunkCovered(s)
<1>1. Init => Inv
  BY InitTypeInv DEF Init, ChunkCovered, Absent
<1>2. Inv /\ [Next]_vars => Inv'
  BY StepTypeInv, StepChunk
<1> HIDE DEF Inv
<1>3. Spec => []Inv
  BY <1>1, <1>2, PTL DEF Spec
<1>4. Inv => ChunkJobCovered
  BY <1>0 DEF Inv
<1> QED
  BY <1>3, <1>4, PTL

-----------------------------------------------------------------------------
(* The job of a transcript. (A chunk that is stored after its complete     *)
(* call would set the transcript to processing without a job.)             *)

Unsettled  == recording # NoRecording /\ transcript.status \in {"queued", "processing"}
JobQueued  == \E job \in TranscriptJob \X {0} : InQueue(job, queue)
JobRunning == worker.pc \in {"probe", "measure", "open", "transcribe", "merge"}
JobToQueue == \E h \in Handlers : handlers[h].pc \in {"enqueue", "retry_enqueue"}
Covered    == Unsettled => JobQueued \/ JobRunning \/ JobToQueue

(* A step that keeps the rows, and loses the job nowhere.                  *)
LEMMA TranscriptKept ==
    ASSUME Covered, Unsettled' => Unsettled,
           JobQueued => JobQueued' \/ JobRunning', JobRunning => JobRunning',
           \A h \in Handlers :
               handlers[h].pc \in {"enqueue", "retry_enqueue"} => handlers'[h] = handlers[h]
    PROVE  Covered'
  BY DEF Covered, JobToQueue

LEMMA RequestTranscript ==
    ASSUME TypeInv, Covered, NEW h \in Handlers, Request(h)
    PROVE  Covered'
<1>1. /\ UNCHANGED <<recording, transcript, queue, worker>>
      /\ handlers[h].pc = "idle"
      /\ \A x \in Handlers \ {h} : handlers'[x] = handlers[x]
  BY DEF Request, StartCheck, UploadCheck, ChunkCheck, RetryCheck, GenerateCheck, database,
         TypeInv, TypeOK
<1>2. (Unsettled' => Unsettled) /\ (JobQueued => JobQueued') /\ (JobRunning => JobRunning')
  BY <1>1 DEF Unsettled, JobQueued, JobRunning
<1> QED
  BY <1>1, <1>2, TranscriptKept

LEMMA ServeTranscript ==
    ASSUME TypeInv, Covered, NEW h \in Handlers, Serve(h),
           ChunkStore(h) => recording = NoRecording
    PROVE  Covered'
<1>0. /\ handlers \in [Handlers -> HandlerState] /\ handlers[h] \in HandlerState
      /\ queue \in Seq(Jobs)
  BY DEF TypeInv, TypeOK
<1>1. CASE StartStore(h) \/ UploadSave(h) \/ UploadRefused(h) \/ GenerateStore(h)
  <2>1. /\ UNCHANGED <<recording, transcript, queue, worker>>
        /\ handlers[h].pc \notin {"enqueue", "retry_enqueue"}
        /\ \A x \in Handlers \ {h} : handlers'[x] = handlers[x]
    BY <1>0, <1>1 DEF StartStore, UploadSave, UploadRefused, GenerateStore, database
  <2>2. (Unsettled' => Unsettled) /\ (JobQueued => JobQueued') /\ (JobRunning => JobRunning')
    BY <2>1 DEF Unsettled, JobQueued, JobRunning
  <2> QED
    BY <2>1, <2>2, TranscriptKept
<1>2. CASE UploadStore(h) \/ RetryStore(h)
  <2>1. handlers'[h].pc \in {"enqueue", "retry_enqueue"}
    BY <1>0, <1>2 DEF UploadStore, RetryStore, HandlerState
  <2> QED
    BY <2>1 DEF Covered, JobToQueue
<1>3. CASE UploadEnqueue(h) \/ RetryEnqueue(h)
  <2>1. PICK job \in TranscriptJob \X {0} : queue' = Append(queue, job)
    BY <1>3 DEF UploadEnqueue, RetryEnqueue, Kind, TranscriptJob
  <2>2. job \in Jobs
    BY DEF Jobs, TranscriptJob
  <2>3. JobQueued'
    BY <2>1, <2>2, <1>0, Added DEF JobQueued
  <2> QED
    BY <2>3 DEF Covered
<1>4. CASE ChunkSave(h)
  <2>1. /\ UNCHANGED <<recording, transcript, queue, worker>>
        /\ handlers[h].pc = "chunk_save"
        /\ \A x \in Handlers \ {h} : handlers'[x] = handlers[x]
    BY <1>0, <1>4 DEF ChunkSave, database
  <2>2. (Unsettled' => Unsettled) /\ (JobQueued => JobQueued') /\ (JobRunning => JobRunning')
    BY <2>1 DEF Unsettled, JobQueued, JobRunning
  <2> QED
    BY <2>1, <2>2, TranscriptKept
<1>5. CASE ChunkStore(h)
  <2>1. recording' = recording /\ recording = NoRecording
    BY <1>5 DEF ChunkStore
  <2> QED
    BY <2>1 DEF Covered, Unsettled
<1>6. CASE ChunkEnqueue(h)
  <2>1. /\ UNCHANGED <<recording, transcript, worker>>
        /\ handlers[h].pc = "chunk_enqueue" /\ handlers[h].seq \in Seqs
        /\ queue' = Append(queue, <<"chunk", handlers[h].seq>>)
        /\ \A x \in Handlers \ {h} : handlers'[x] = handlers[x]
    BY <1>0, <1>6 DEF ChunkEnqueue, database, TypeInv, ThreadsNamed
  <2>2. <<"chunk", handlers[h].seq>> \in Jobs
    BY <2>1 DEF Jobs
  <2>3. JobQueued => JobQueued'
    BY <2>1, <2>2, <1>0, Added DEF JobQueued
  <2>4. (Unsettled' => Unsettled) /\ (JobRunning => JobRunning')
    BY <2>1 DEF Unsettled, JobRunning
  <2> QED
    BY <2>1, <2>3, <2>4, TranscriptKept
<1> QED
  BY <1>1, <1>2, <1>3, <1>4, <1>5, <1>6 DEF Serve

LEMMA WorkerTranscript ==
    ASSUME TypeInv, Covered, Worker
    PROVE  Covered'
<1>0. worker \in WorkerState /\ queue \in Seq(Jobs) /\ transcript \in Segments
      /\ recording \in Recording
  BY DEF TypeInv, TypeOK
<1>a. handlers' = handlers
  BY DEF Worker, WorkerDrop, WorkerTake, WorkerOpen, WorkerMeasure, WorkerMerge,
         WorkerFallback, WorkerReady, WorkerFail, WorkerTakeChunk, WorkerOpenChunk,
         WorkerChunkDone, Stored
<1>1. CASE WorkerDrop
  <2>1. ~Unsettled'
    BY <1>1 DEF WorkerDrop, Unsettled, database
  <2> QED
    BY <2>1 DEF Covered
<1>2. CASE WorkerTake \/ WorkerOpen \/ WorkerFallback
  <2>1. JobRunning'
    BY <1>0, <1>2 DEF WorkerTake, WorkerOpen, WorkerFallback, WorkerState, WorkerIdle,
                      JobRunning
  <2> QED
    BY <2>1 DEF Covered
<1>3. CASE WorkerMeasure
  <2>1. JobRunning'
    BY <1>0, <1>3 DEF WorkerMeasure, WorkerState, JobRunning
  <2> QED
    BY <2>1 DEF Covered
<1>4. CASE WorkerMerge \/ WorkerReady \/ WorkerFail
  <2>1. transcript'.status \in {"ready", "failed"}
    BY <1>0, <1>4 DEF WorkerMerge, WorkerReady, WorkerFail, Stored, Segments
  <2> QED
    BY <2>1 DEF Covered, Unsettled
<1>5. CASE WorkerTakeChunk
  <2>1. /\ queue # <<>> /\ queue' = Tail(queue) /\ worker.pc = "idle"
        /\ UNCHANGED <<recording, transcript>>
        /\ \A job \in TranscriptJob \X {0} : job # Head(queue)
    BY <1>5 DEF WorkerTakeChunk, TranscriptJob
  <2>2. (Unsettled' => Unsettled) /\ (JobQueued => JobQueued') /\ ~JobRunning
    BY <2>1, <1>0, Taken DEF Unsettled, JobQueued, JobRunning
  <2> QED
    BY <2>2, <1>a, TranscriptKept
<1>6. CASE WorkerOpenChunk \/ WorkerChunkDone
  <2>1. UNCHANGED <<recording, transcript, queue>> /\ ~JobRunning
    BY <1>6 DEF WorkerOpenChunk, WorkerChunkDone, database, JobRunning
  <2>2. (Unsettled' => Unsettled) /\ (JobQueued => JobQueued')
    BY <2>1 DEF Unsettled, JobQueued
  <2> QED
    BY <2>1, <2>2, <1>a, TranscriptKept
<1> QED
  BY <1>1, <1>2, <1>3, <1>4, <1>5, <1>6 DEF Worker

LEMMA StepTranscript ==
    ASSUME TypeInv, Covered, [Next]_vars,
           \A h \in Handlers : ChunkStore(h) => recording = NoRecording
    PROVE  Covered'
<1>1. CASE UNCHANGED vars
  BY <1>1 DEF vars, database, Covered, Unsettled, JobQueued, JobRunning, JobToQueue
<1>2. ASSUME NEW g \in Slots, Generation(g)
      PROVE  Covered'
  <2>1. UNCHANGED <<recording, transcript, queue, worker, handlers>>
    BY <1>2 DEF Generation, GenerationRead, GenerationStore, GenerationRollback,
                GenerationFail, database
  <2> QED
    BY <2>1 DEF Covered, Unsettled, JobQueued, JobRunning, JobToQueue
<1>3. CASE Restart
  <2>1. UNCHANGED <<recording, transcript>>
    BY <1>3 DEF Restart, database
  <2>2. Unsettled' => Unfinished(transcript)
    BY <2>1 DEF Unsettled, Unfinished
  <2>3. Unfinished(transcript) => InQueue(<<"recording", 0>>, queue')
    BY <1>3, RecoveredQueue DEF TypeInv, InQueue
  <2>4. InQueue(<<"recording", 0>>, queue') => JobQueued'
    BY DEF JobQueued, TranscriptJob
  <2> QED
    BY <2>2, <2>3, <2>4 DEF Covered
<1> QED
  BY <1>1, <1>2, <1>3, RequestTranscript, ServeTranscript, WorkerTranscript DEF Next

-----------------------------------------------------------------------------
(* One request at a time: the status follows the table of transitions, and *)
(* questions are made once.                                                *)

(* The table of session_state.py, read where the handlers rely on it.      *)
LEMMA Transitions ==
    /\ Lifecycle!can_transition("draft", "recording_in_progress")
    /\ Lifecycle!can_transition("transcribing", "generating_questions")
    /\ Lifecycle!can_transition("failed", "generating_questions")
    /\ Lifecycle!can_transition("failed", "transcribing")
    /\ Lifecycle!can_transition("transcribing", "failed")
    /\ Lifecycle!can_transition("generating_questions", "qna")
    /\ Lifecycle!can_transition("generating_questions", "failed")
    /\ \A s \in Lifecycle!SessionStatus :
          /\ Lifecycle!can_transition(s, "transcribing") => s \in _UPLOADABLE
          /\ Lifecycle!can_transition(s, "generating_questions") =>
                s \in {"transcribing", "failed"}
  BY DEF Lifecycle!can_transition, Lifecycle!ALLOWED_TRANSITIONS,
         Lifecycle!SessionStatus, _UPLOADABLE

(* A step that keeps to the table.                                         *)
Moves(s, new) == new = s \/ Lifecycle!can_transition(s, new)

(* What SeenAllows says of one request.                                    *)
SeenOf(r, s) ==
    /\ r.pc = "start" => r.seen = "draft" /\ s = "draft"
    /\ r.pc \in {"save", "store"} => s \in _UPLOADABLE
    /\ r.pc \in {"chunk_save", "chunk_store"} => s \in _CHUNK_ALLOWED /\ r.seen = s
    /\ r.pc = "retry" /\ r.seen = "failed" => s = "failed"
    /\ r.pc = "generate" => s \in {"transcribing", "failed"}

LEMMA RequestLife ==
    ASSUME TypeInv, LifeInv, OneRequest, NEW h \in Handlers, Request(h)
    PROVE  LifeInv' /\ status' = status
<1>0. /\ handlers \in [Handlers -> HandlerState] /\ handlers[h] \in HandlerState
      /\ status \in Lifecycle!SessionStatus
  BY DEF TypeInv, TypeOK
<1> DEFINE Same == UNCHANGED <<database, storage, queue, worker, generations, crashes>>
<1>a. ASSUME NEW r, handlers' = [handlers EXCEPT ![h] = r], Same, SeenOf(r, status)
      PROVE  LifeInv' /\ status' = status
  <2>1. UNCHANGED <<status, questions, generations>>
    BY <1>a DEF database
  <2>2. OneGeneration'
    BY <2>1 DEF LifeInv, OneGeneration
  <2>3. handlers'[h] = r /\ \A g \in Handlers : g = h
    BY <1>0, <1>a DEF OneRequest
  <2>4. SeenAllows'
    BY <1>a, <2>1, <2>3 DEF SeenAllows, SeenOf
  <2> QED
    BY <2>1, <2>2, <2>4 DEF LifeInv
<1>1. CASE StartCheck(h)
  <2> DEFINE r == [handlers[h] EXCEPT !.pc = "start", !.seen = status]
  <2>1. r.pc = "start" /\ r.seen = "draft" /\ status = "draft"
    BY <1>0, <1>1 DEF StartCheck, HandlerState
  <2>2. handlers' = [handlers EXCEPT ![h] = r] /\ Same
    BY <1>0, <1>1 DEF StartCheck
  <2> HIDE DEF r, Same
  <2> QED
    BY <1>a, <2>1, <2>2 DEF SeenOf
<1>2. ASSUME NEW e \in Exts, NEW t \in Takes, NEW new \in UploadOf(e, t), UploadCheck(h, new)
      PROVE  LifeInv' /\ status' = status
  <2> DEFINE r == [Idle EXCEPT !.pc = "save", !.new = new]
  <2>1. r.pc = "save" /\ status \in _UPLOADABLE
    BY <1>2 DEF UploadCheck, Idle
  <2>2. handlers' = [handlers EXCEPT ![h] = r] /\ Same
    BY <1>2 DEF UploadCheck
  <2> HIDE DEF r, Same
  <2> QED
    BY <1>a, <2>1, <2>2 DEF SeenOf
<1>3. ASSUME NEW s \in Seqs, NEW t \in Takes, ChunkCheck(h, s, t)
      PROVE  LifeInv' /\ status' = status
  <2> DEFINE new == [NoRecording EXCEPT !.take = {t}]
             r   == [Idle EXCEPT !.pc = "chunk_save", !.seen = status, !.seq = s, !.new = new]
  <2>1. r.pc = "chunk_save" /\ r.seen = status /\ status \in _CHUNK_ALLOWED
    <3> HIDE DEF new
    <3> QED
      BY <1>3 DEF ChunkCheck, Idle
  <2>2. handlers' = [handlers EXCEPT ![h] = r] /\ Same
    BY <1>3 DEF ChunkCheck
  <2> HIDE DEF r, Same
  <2> QED
    BY <1>a, <2>1, <2>2 DEF SeenOf
<1>4. CASE RetryCheck(h)
  <2> DEFINE r == [handlers[h] EXCEPT !.pc = "retry", !.seen = status]
  <2>1. r.pc = "retry" /\ r.seen = status
    BY <1>0 DEF HandlerState
  <2>2. handlers' = [handlers EXCEPT ![h] = r] /\ Same
    BY <1>0, <1>4 DEF RetryCheck
  <2> HIDE DEF r, Same
  <2> QED
    BY <1>a, <2>1, <2>2 DEF SeenOf
<1>5. CASE GenerateCheck(h)
  <2> DEFINE r == [handlers[h] EXCEPT !.pc = "generate", !.seen = status]
  <2>1. r.pc = "generate"
    BY <1>0 DEF HandlerState
  <2>2. handlers' = [handlers EXCEPT ![h] = r] /\ Same
    BY <1>0, <1>5 DEF GenerateCheck
  <2>3. status \in {"transcribing", "failed"}
    BY <1>0, <1>5, Transitions DEF GenerateCheck
  <2> HIDE DEF r, Same
  <2> QED
    BY <1>a, <2>1, <2>2, <2>3 DEF SeenOf
<1> QED
  BY <1>1, <1>2, <1>3, <1>4, <1>5 DEF Request

(* No generation runs, and none has stored questions, unless the session   *)
(* waits for it or has them.                                               *)
LEMMA NoneGenerating ==
    ASSUME OneGeneration, status \notin {"generating_questions", "qna"}
    PROVE  (\A g \in Slots : generations[g].pc = "idle") /\ ~questions.made
  BY DEF OneGeneration

LEMMA ServeLife ==
    ASSUME TypeInv, LifeInv, OneRequest, NEW h \in Handlers, Serve(h)
    PROVE  LifeInv' /\ Moves(status, status')
<1>0. /\ handlers \in [Handlers -> HandlerState] /\ handlers[h] \in HandlerState
      /\ status \in Lifecycle!SessionStatus
      /\ \A g \in Handlers : g = h
      /\ SeenOf(handlers[h], status)
      /\ OneGeneration /\ Idle.pc = "idle"
  BY DEF TypeInv, TypeOK, OneRequest, LifeInv, SeenAllows, SeenOf, Idle
<1>a. ASSUME OneGeneration', SeenOf(handlers'[h], status')
      PROVE  LifeInv'
  BY <1>0, <1>a DEF LifeInv, SeenAllows, SeenOf
<1>b. ASSUME handlers'[h].pc \in {"idle", "enqueue", "chunk_enqueue", "retry_enqueue"},
             UNCHANGED <<questions, generations>>,
             \/ status' = status
             \/ /\ status \notin {"generating_questions", "qna"}
                /\ Lifecycle!can_transition(status, status')
      PROVE  LifeInv' /\ Moves(status, status')
  <2>1. OneGeneration'
    <3>1. CASE status' = status
      BY <1>0, <1>b, <3>1 DEF OneGeneration
    <3>2. CASE status \notin {"generating_questions", "qna"}
      BY <1>0, <1>b, <3>2, NoneGenerating DEF OneGeneration
    <3> QED
      BY <1>b, <3>1, <3>2
  <2>2. SeenOf(handlers'[h], status')
    BY <1>b DEF SeenOf
  <2> QED
    BY <1>a, <1>b, <2>1, <2>2 DEF Moves
<1>1. CASE StartStore(h)
  <2>1. status = "draft" /\ status' = "recording_in_progress"
    BY <1>0, <1>1 DEF StartStore, SeenOf
  <2>2. handlers'[h].pc = "idle" /\ UNCHANGED <<questions, generations>>
    BY <1>0, <1>1 DEF StartStore
  <2> QED
    BY <1>b, <2>1, <2>2, Transitions
<1>2. CASE UploadSave(h)
  <2>1. handlers[h].pc = "save" /\ UNCHANGED <<status, questions, generations>>
    BY <1>2 DEF UploadSave, database
  <2>2. handlers'[h].pc = "store"
    BY <1>0, <1>2 DEF UploadSave, HandlerState
  <2>3. OneGeneration'
    BY <1>0, <2>1 DEF OneGeneration
  <2> QED
    BY <1>0, <1>a, <2>1, <2>2, <2>3 DEF SeenOf, Moves
<1>3. CASE UploadStore(h)
  <2>1. /\ status' = "transcribing" /\ UNCHANGED <<questions, generations>>
        /\ status = "transcribing" \/ Lifecycle!can_transition(status, "transcribing")
    BY <1>3 DEF UploadStore
  <2>2. handlers'[h].pc = "enqueue"
    BY <1>0, <1>3 DEF UploadStore, HandlerState
  <2>3. status \in _UPLOADABLE
    BY <1>0, <2>1, Transitions DEF _UPLOADABLE
  <2> QED
    BY <1>b, <2>1, <2>2, <2>3 DEF _UPLOADABLE
<1>4. CASE UploadRefused(h) \/ UploadEnqueue(h) \/ ChunkEnqueue(h) \/ RetryEnqueue(h)
  <2>1. UNCHANGED <<status, questions, generations>>
    BY <1>4 DEF UploadRefused, UploadEnqueue, ChunkEnqueue, RetryEnqueue, database
  <2>2. handlers'[h].pc = "idle"
    BY <1>0, <1>4 DEF UploadRefused, UploadEnqueue, ChunkEnqueue, RetryEnqueue
  <2> QED
    BY <1>b, <2>1, <2>2
<1>5. CASE ChunkSave(h)
  <2> DEFINE r == [handlers[h] EXCEPT !.pc = "chunk_store", !.new = NoRecording]
  <2>1. handlers[h].pc = "chunk_save" /\ UNCHANGED <<status, questions, generations>>
    BY <1>5 DEF ChunkSave, database
  <2>2. r.pc = "chunk_store" /\ r.seen = handlers[h].seen
    BY <1>0 DEF HandlerState
  <2>3. handlers'[h] = r
    BY <1>0, <1>5 DEF ChunkSave
  <2>4. OneGeneration'
    BY <1>0, <2>1 DEF OneGeneration
  <2> QED
    BY <1>0, <1>a, <2>1, <2>2, <2>3, <2>4 DEF SeenOf, Moves
<1>6. CASE ChunkStore(h)
  <2>1. /\ handlers[h].pc = "chunk_store" /\ UNCHANGED <<questions, generations>>
        /\ status' = IF handlers[h].seen = "draft" THEN "recording_in_progress" ELSE status
    BY <1>6 DEF ChunkStore
  <2>2. handlers'[h].pc = "chunk_enqueue"
    BY <1>0, <1>6 DEF ChunkStore, HandlerState
  <2>3. handlers[h].seen = status
    BY <1>0, <2>1 DEF SeenOf
  <2> QED
    BY <1>b, <2>1, <2>2, <2>3, Transitions
<1>7. CASE RetryStore(h)
  <2>1. /\ handlers[h].pc = "retry" /\ UNCHANGED <<questions, generations>>
        /\ status' = IF handlers[h].seen = "failed" THEN "transcribing" ELSE status
    BY <1>7 DEF RetryStore
  <2>2. handlers'[h].pc = "retry_enqueue"
    BY <1>0, <1>7 DEF RetryStore, HandlerState
  <2>3. handlers[h].seen = "failed" => status = "failed"
    BY <1>0, <2>1 DEF SeenOf
  <2> QED
    BY <1>b, <2>1, <2>2, <2>3, Transitions
<1>8. CASE GenerateStore(h)
  <2>1. /\ status' = "generating_questions" /\ questions' = questions
        /\ status \in {"transcribing", "failed"}
    BY <1>0, <1>8 DEF GenerateStore, SeenOf
  <2>2. PICK g \in Slots : generations' = [generations EXCEPT ![g].pc = "read"]
    BY <1>8 DEF GenerateStore
  <2>3. (\A f \in Slots : generations[f].pc = "idle") /\ ~questions.made
    BY <1>0, <2>1, NoneGenerating
  <2>4. generations \in [Slots -> GenerationState]
    BY DEF TypeInv, TypeOK
  <2>5. /\ generations'[g].pc = "read"
        /\ \A f \in Slots : f # g => generations'[f].pc = "idle"
    BY <2>2, <2>3, <2>4 DEF GenerationState
  <2>6. OneGeneration'
    BY <2>1, <2>3, <2>5 DEF OneGeneration
  <2>7. handlers'[h].pc = "idle"
    BY <1>0, <1>8 DEF GenerateStore
  <2> QED
    BY <1>a, <2>1, <2>6, <2>7, Transitions DEF SeenOf, Moves
<1> QED
  BY <1>1, <1>2, <1>3, <1>4, <1>5, <1>6, <1>7, <1>8 DEF Serve

LEMMA WorkerLife ==
    ASSUME TypeInv, LifeInv, Worker
    PROVE  LifeInv' /\ Moves(status, status')
<1>1. /\ UNCHANGED <<questions, generations, handlers>>
      /\ status' = status \/ (status = "transcribing" /\ status' = "failed")
  BY DEF Worker, WorkerDrop, WorkerTake, WorkerOpen, WorkerMeasure, WorkerMerge,
         WorkerFallback, WorkerReady, WorkerFail, WorkerTakeChunk, WorkerOpenChunk,
         WorkerChunkDone, Stored, database
<1>2. OneGeneration'
  BY <1>1 DEF LifeInv, OneGeneration
<1>3. SeenAllows'
  BY <1>1 DEF LifeInv, SeenAllows, _UPLOADABLE, _CHUNK_ALLOWED
<1> QED
  BY <1>1, <1>2, <1>3, Transitions DEF LifeInv, Moves

LEMMA GenerationLife ==
    ASSUME TypeInv, LifeInv, NEW g \in Slots, Generation(g)
    PROVE  LifeInv' /\ Moves(status, status')
<1>0. /\ generations \in [Slots -> GenerationState] /\ OneGeneration
      /\ generations[g].pc # "idle" /\ status = "generating_questions" /\ ~questions.made
      /\ \A f \in Slots : f # g => generations[f].pc = "idle"
  BY DEF TypeInv, TypeOK, LifeInv, OneGeneration, Generation, GenerationRead,
         GenerationStore, GenerationRollback, GenerationFail
<1>1. \A h \in Handlers :
          /\ handlers[h].pc \notin {"start", "save", "store", "chunk_save", "chunk_store",
                                    "generate"}
          /\ handlers[h].pc = "retry" => handlers[h].seen # "failed"
  BY <1>0 DEF LifeInv, SeenAllows, _UPLOADABLE, _CHUNK_ALLOWED
<1>2. handlers' = handlers
  BY DEF Generation, GenerationRead, GenerationStore, GenerationRollback, GenerationFail
<1>3. SeenAllows'
  BY <1>1, <1>2 DEF SeenAllows
<1>4. CASE GenerationRead(g)
  <2>1. UNCHANGED <<status, questions>>
    BY <1>4 DEF GenerationRead, database
  <2>2. /\ generations'[g].seen = "generating_questions"
        /\ \A f \in Slots : f # g => generations'[f] = generations[f]
    BY <1>0, <1>4 DEF GenerationRead
  <2>3. OneGeneration'
    BY <1>0, <2>1, <2>2 DEF OneGeneration
  <2> QED
    BY <1>3, <2>1, <2>3 DEF LifeInv, Moves
<1>5. CASE GenerationStore(g) \/ GenerationRollback(g) \/ GenerationFail(g)
  <2>1. \A f \in Slots : generations'[f].pc = "idle"
    BY <1>0, <1>5 DEF GenerationStore, GenerationRollback, GenerationFail, NoGeneration
  <2>2. /\ questions'.made => status' = "qna"
        /\ status' \in {"generating_questions", "qna", "failed"}
    BY <1>0, <1>5 DEF GenerationStore, GenerationRollback, GenerationFail, database
  <2>3. OneGeneration'
    BY <2>1, <2>2 DEF OneGeneration
  <2> QED
    BY <1>0, <1>3, <2>2, <2>3, Transitions DEF LifeInv, Moves
<1> QED
  BY <1>4, <1>5 DEF Generation

LEMMA InitLifeInv == Init => LifeInv
  BY DEF Init, LifeInv, OneGeneration, SeenAllows, Idle, NoGeneration

LEMMA StepLife ==
    TypeInv /\ LifeInv /\ OneRequest /\ [Next]_vars => LifeInv' /\ Moves(status, status')
<1> SUFFICES ASSUME TypeInv, LifeInv, OneRequest, [Next]_vars
             PROVE  LifeInv' /\ Moves(status, status')
  OBVIOUS
<1>1. CASE UNCHANGED vars
  BY <1>1 DEF vars, database, LifeInv, OneGeneration, SeenAllows, Moves
<1>2. CASE Restart
  <2>1. UNCHANGED <<status, questions>>
    BY <1>2 DEF Restart, database
  <2>2. /\ \A h \in Handlers : handlers'[h].pc = "idle"
        /\ \A g \in Slots : generations'[g].pc = "idle"
    BY <1>2 DEF Restart, Idle, NoGeneration
  <2> QED
    BY <2>1, <2>2 DEF LifeInv, OneGeneration, SeenAllows, Moves
<1> QED
  BY <1>1, <1>2, RequestLife, ServeLife, WorkerLife, GenerationLife DEF Next, Moves

(* When the presenter's requests come one at a time, no generation asks    *)
(* for questions of a session that has some (generate, run_generate).      *)
THEOREM QuestionsOnce == OneRequest => (Spec => []QuestionsMadeOnce)
<1> SUFFICES ASSUME OneRequest PROVE Spec => []QuestionsMadeOnce
  OBVIOUS
<1>1. LifeInv => QuestionsMadeOnce
  BY DEF LifeInv, OneGeneration, QuestionsMadeOnce
<1>2. TypeInv /\ LifeInv /\ [Next]_vars => (TypeInv /\ LifeInv)'
  BY StepTypeInv, StepLife
<1> QED
  BY <1>1, <1>2, InitTypeInv, InitLifeInv, PTL DEF Spec

(* Then the session moves along the table of session_state.py and never    *)
(* otherwise, although every handler commits on the status it read and the *)
(* worker, the generations and restarts come in between: Preparation       *)
(* implements SessionLifecycle.                                            *)
THEOREM ImplementsLifecycle == OneRequest => (Spec => FollowsLifecycle)
<1> SUFFICES ASSUME OneRequest PROVE Spec => FollowsLifecycle
  OBVIOUS
<1>1. Init => Lifecycle!Init
  BY DEF Init, Lifecycle!Init
<1>2. TypeInv /\ [Next]_vars /\ Moves(status, status') => [Lifecycle!Next]_status
  <2> SUFFICES ASSUME TypeInv, [Next]_vars, Lifecycle!can_transition(status, status')
               PROVE  Lifecycle!Next
    BY DEF Moves
  <2>1. status' \in Lifecycle!SessionStatus
    BY StepTypeInv DEF TypeInv, TypeOK
  <2> QED
    BY <2>1 DEF Lifecycle!Next, Lifecycle!Advance
<1>3. TypeInv /\ LifeInv /\ [Next]_vars =>
          (TypeInv /\ LifeInv)' /\ Moves(status, status')
  BY StepTypeInv, StepLife
<1> QED
  BY <1>1, <1>2, <1>3, InitTypeInv, InitLifeInv, PTL
     DEF Spec, FollowsLifecycle, Lifecycle!Spec

-----------------------------------------------------------------------------
(* The job of a transcript, with live chunks.                              *)

(* The recording is stored by an upload, which leaves the status from      *)
(* which chunks are sent; a worker that measures it has it.                *)
LEMMA RecordingStored ==
    ASSUME TypeInv, [Next]_vars
    PROVE  \/ recording' = recording \/ recording # NoRecording
           \/ status' = "transcribing"
<1>1. CASE WorkerMeasure
  <2>1. recording.key # NoRecording.key
    BY <1>1, PreparationAssumption DEF WorkerMeasure, TypeInv, ThreadsNamed, NoRecording
  <2> QED
    BY <2>1
<1>2. CASE UNCHANGED recording
  BY <1>2
<1>3. ASSUME NEW h \in Handlers, UploadStore(h) PROVE status' = "transcribing"
  BY <1>3 DEF UploadStore
<1>4. ASSUME NEW h \in Handlers, Request(h) \/ Serve(h), ~UploadStore(h)
      PROVE  UNCHANGED recording
  BY <1>4 DEF Request, Serve, StartCheck, UploadCheck, ChunkCheck, RetryCheck, GenerateCheck,
              StartStore, UploadSave, UploadRefused, UploadEnqueue, ChunkSave, ChunkStore,
              ChunkEnqueue, RetryStore, RetryEnqueue, GenerateStore, database
<1>5. ASSUME NEW g \in Slots, Generation(g) PROVE UNCHANGED recording
  BY <1>5 DEF Generation, GenerationRead, GenerationStore, GenerationRollback, GenerationFail,
              database
<1>6. CASE Worker /\ ~WorkerMeasure
  BY <1>6 DEF Worker, WorkerDrop, WorkerTake, WorkerOpen, WorkerMerge, WorkerFallback,
              WorkerReady, WorkerFail, WorkerTakeChunk, WorkerOpenChunk, WorkerChunkDone,
              Stored, database
<1> QED
  BY <1>1, <1>2, <1>3, <1>4, <1>5, <1>6 DEF Next, Restart, vars, database

LEMMA StepLiveFirst ==
    ASSUME TypeInv, LiveFirst, [Next]_vars, Moves(status, status')
    PROVE  LiveFirst'
<1>1. \A x \in Lifecycle!SessionStatus :
          /\ ~Lifecycle!can_transition(x, "draft")
          /\ Lifecycle!can_transition(x, "recording_in_progress") => x = "draft"
  BY DEF Lifecycle!can_transition, Lifecycle!ALLOWED_TRANSITIONS, Lifecycle!SessionStatus
<1>2. status \in Lifecycle!SessionStatus
  BY DEF TypeInv, TypeOK
<1>3. status' \in _CHUNK_ALLOWED => status \in _CHUNK_ALLOWED /\ status' # "transcribing"
  BY <1>1, <1>2 DEF Moves, _CHUNK_ALLOWED
<1> QED
  BY <1>3, RecordingStored DEF LiveFirst

(* The transcript of a stored recording that is not finished has its job,  *)
(* through any number of restarts: of whole uploads, for any requests that *)
(* meet, and of live recordings, chunk by chunk, resent, merged or not,    *)
(* when the presenter's requests come one at a time.                       *)
THEOREM TranscriptHasItsJob ==
    NumChunks = 0 \/ OneRequest => (Spec => []TranscriptJobCovered)
<1>1. ASSUME Covered PROVE TranscriptJobCovered
  BY <1>1 DEF Covered, Unsettled, JobQueued, JobRunning, JobToQueue, TranscriptJobCovered, InQueue
<1>2. Init => TypeInv /\ Covered
  BY InitTypeInv DEF Init, Covered, Unsettled
<1>3. ASSUME NumChunks = 0 PROVE Spec => []TranscriptJobCovered
  <2>1. TypeInv => \A h \in Handlers : ~ChunkStore(h)
    BY <1>3 DEF Seqs, ChunkStore, TypeInv, ThreadsNamed
  <2>2. TypeInv /\ Covered /\ [Next]_vars => (TypeInv /\ Covered)'
    BY <2>1, StepTypeInv, StepTranscript
  <2> QED
    BY <1>1, <1>2, <2>2, PTL DEF Spec
<1>4. ASSUME OneRequest PROVE Spec => []TranscriptJobCovered
  <2> DEFINE Inv == TypeInv /\ LifeInv /\ LiveFirst /\ Covered
  <2>1. Init => Inv
    BY <1>2, InitLifeInv DEF Init, LiveFirst
  <2>2. ASSUME Inv, [Next]_vars PROVE Inv'
    <3>1. \A h \in Handlers : ChunkStore(h) => recording = NoRecording
      BY <2>2 DEF ChunkStore, LifeInv, SeenAllows, LiveFirst
    <3>2. TypeInv' /\ LifeInv' /\ Moves(status, status')
      BY <1>4, <2>2, StepTypeInv, StepLife
    <3>3. LiveFirst'
      BY <2>2, <3>2, StepLiveFirst
    <3>4. Covered'
      BY <2>2, <3>1, StepTranscript
    <3> QED
      BY <3>2, <3>3, <3>4
  <2>3. Inv => TranscriptJobCovered
    BY <1>1
  <2> HIDE DEF Inv
  <2> QED
    BY <2>1, <2>2, <2>3, PTL DEF Spec
<1> QED
  BY <1>3, <1>4

-----------------------------------------------------------------------------
(* Whole uploads, one request at a time, up to the first restart.          *)

Whole == OneRequest /\ NumChunks = 0 /\ Totals = {}

LEMMA RequestTake ==
    ASSUME TypeInv, TakeInv, OneRequest, NEW h \in Handlers, Request(h)
    PROVE  TakeInv'
<1>0. handlers \in [Handlers -> HandlerState] /\ \A x \in Handlers : x = h
  BY DEF TypeInv, TypeOK, OneRequest
<1>1. UNCHANGED <<recording, transcript, files, queue, worker>> /\ handlers[h].pc = "idle"
  BY DEF Request, StartCheck, UploadCheck, ChunkCheck, RetryCheck, GenerateCheck, database,
         storage
<1>2. /\ handlers'[h].pc \notin {"store", "enqueue", "retry_enqueue"}
      /\ handlers'[h].pc = "retry" => transcript.status = "failed"
  <2>1. StartCheck(h) \/ GenerateCheck(h) => handlers'[h].pc \in {"start", "generate"}
    BY <1>0 DEF StartCheck, GenerateCheck, HandlerState
  <2>2. ASSUME NEW new, UploadCheck(h, new) PROVE handlers'[h].pc = "save"
    BY <1>0, <2>2 DEF UploadCheck, Idle
  <2>3. ASSUME NEW s, NEW t, ChunkCheck(h, s, t) PROVE handlers'[h].pc = "chunk_save"
    BY <1>0, <2>3 DEF ChunkCheck, Idle
  <2>4. RetryCheck(h) => handlers'[h].pc = "retry" /\ transcript.status = "failed"
    BY <1>0 DEF RetryCheck, HandlerState
  <2> QED
    BY <2>1, <2>2, <2>3, <2>4 DEF Request
<1>3. FileInv'
  BY <1>0, <1>1, <1>2 DEF TakeInv, FileInv, WorkInv
<1>4. JobAhead' = JobAhead
  BY <1>0, <1>1, <1>2 DEF JobAhead
<1> QED
  BY <1>1, <1>3, <1>4 DEF TakeInv, WorkInv

(* A stored upload is never refused, for the status only moved on from     *)
(* what the check let in.                                                  *)
LEMMA StoreAllowed ==
    ASSUME LifeInv, NEW h \in Handlers, handlers[h].pc = "store"
    PROVE  status = "transcribing" \/ Lifecycle!can_transition(status, "transcribing")
  BY DEF LifeInv, SeenAllows, _UPLOADABLE, Lifecycle!can_transition,
         Lifecycle!ALLOWED_TRANSITIONS

LEMMA ServeTake ==
    ASSUME Whole, TypeInv, LifeInv, TakeInv, NEW h \in Handlers, Serve(h)
    PROVE  TakeInv'
<1>0. /\ handlers \in [Handlers -> HandlerState] /\ \A x \in Handlers : x = h
      /\ handlers[h].new \in Recording
      /\ files \in [Exts -> SUBSET Takes] /\ queue \in Seq(Jobs)
      /\ recording \in Recording /\ transcript \in Segments
  BY DEF TypeInv, TypeOK, Whole, OneRequest, HandlerState
<1>1. CASE StartStore(h) \/ GenerateStore(h)
  <2>1. /\ UNCHANGED <<recording, transcript, files, queue, worker>>
        /\ handlers[h].pc \notin {"store", "enqueue", "retry_enqueue", "retry"}
        /\ handlers'[h].pc = "idle"
    BY <1>0, <1>1 DEF StartStore, GenerateStore, storage, Idle
  <2> QED
    BY <1>0, <2>1 DEF TakeInv, FileInv, WorkInv, JobAhead
<1>2. CASE UploadSave(h)
  <2>1. handlers'[h].pc = "store" /\ handlers'[h].new = handlers[h].new
    BY <1>0, <1>2 DEF UploadSave, HandlerState
  <2>2. files'[handlers[h].new.key] = handlers[h].new.take
    BY <1>0, <1>2 DEF UploadSave, TypeInv, ThreadsNamed
  <2>3. JobAhead'
    BY <2>1 DEF JobAhead
  <2>4. UNCHANGED <<recording, transcript>>
    BY <1>2 DEF UploadSave, database
  <2> QED
    BY <1>0, <2>1, <2>2, <2>3, <2>4 DEF TakeInv, FileInv, WorkInv
<1>3. CASE UploadStore(h)
  <2>1. /\ handlers'[h].pc = "enqueue"
        /\ handlers'[h].old = IF recording.key # handlers[h].new.key
                              THEN recording.key ELSE NoKey
        /\ recording' = handlers[h].new /\ files' = files
        /\ handlers[h].pc = "store" /\ handlers[h].new.key \in Exts
    BY <1>0, <1>3 DEF UploadStore, HandlerState, storage, TypeInv, ThreadsNamed
  <2>2. handlers'[h].old # recording'.key /\ recording' # NoRecording
    BY <2>1, PreparationAssumption DEF NoRecording
  <2>3. files'[recording'.key] = recording'.take
    BY <2>1 DEF TakeInv, FileInv
  <2>4. JobAhead'
    BY <2>1 DEF JobAhead
  <2> QED
    BY <1>0, <2>1, <2>2, <2>3, <2>4 DEF TakeInv, FileInv, WorkInv
<1>4. CASE UploadEnqueue(h)
  <2>1. /\ handlers'[h].pc = "idle" /\ UNCHANGED <<recording, transcript>>
        /\ \A e \in Exts : e # handlers[h].old => files'[e] = files[e]
        /\ handlers[h].pc = "enqueue"
    BY <1>0, <1>4 DEF UploadEnqueue, Idle, database
  <2>2. recording # NoRecording => files'[recording.key] = recording.take
    BY <1>0, <2>1 DEF TakeInv, FileInv, TypeInv, ThreadsNamed
  <2>3. JobAhead'
    BY <1>0, <1>4 DEF UploadEnqueue, JobAhead
  <2> QED
    BY <1>0, <2>1, <2>2, <2>3 DEF TakeInv, FileInv, WorkInv
<1>5. CASE RetryStore(h)
  <2>1. /\ handlers'[h].pc = "retry_enqueue" /\ UNCHANGED <<recording, files>>
        /\ handlers[h].pc = "retry"
    BY <1>0, <1>5 DEF RetryStore, HandlerState, storage
  <2>2. JobAhead' /\ recording # NoRecording
    BY <2>1 DEF JobAhead, TakeInv, FileInv
  <2> QED
    BY <1>0, <2>1, <2>2 DEF TakeInv, FileInv, WorkInv
<1>6. CASE RetryEnqueue(h)
  <2>1. /\ handlers'[h].pc = "idle" /\ UNCHANGED <<recording, transcript, files>>
        /\ handlers[h].pc = "retry_enqueue"
    BY <1>0, <1>6 DEF RetryEnqueue, Idle, database, storage
  <2>2. JobAhead'
    BY <1>0, <1>6 DEF RetryEnqueue, JobAhead
  <2> QED
    BY <1>0, <2>1, <2>2 DEF TakeInv, FileInv, WorkInv
<1>7. ~UploadRefused(h)
  BY StoreAllowed DEF UploadRefused
<1>8. ~ChunkSave(h) /\ ~ChunkStore(h) /\ ~ChunkEnqueue(h)
  <2>1. Seqs = {}
    BY DEF Seqs, Whole
  <2> QED
    BY <2>1 DEF ChunkSave, ChunkStore, ChunkEnqueue, TypeInv, ThreadsNamed
<1> QED
  BY <1>1, <1>2, <1>3, <1>4, <1>5, <1>6, <1>7, <1>8 DEF Serve

LEMMA WorkerTakeInv ==
    ASSUME Whole, TypeInv, TakeInv, Worker
    PROVE  TakeInv'
<1>0. /\ worker \in WorkerState /\ transcript \in Segments /\ recording \in Recording
      /\ worker.total = {} /\ Seqs = {}
  BY DEF TypeInv, TypeOK, Whole, WorkerState, Seqs
<1>a. handlers' = handlers /\ files' = files
  BY DEF Worker, WorkerDrop, WorkerTake, WorkerOpen, WorkerMeasure, WorkerMerge,
         WorkerFallback, WorkerReady, WorkerFail, WorkerTakeChunk, WorkerOpenChunk,
         WorkerChunkDone, Stored, storage
<1>b. ASSUME recording' = recording \/ (/\ recording.key \in Exts
                                        /\ recording'.key = recording.key
                                        /\ recording'.take = recording.take)
      PROVE  FileInv'
  BY <1>a, <1>b, PreparationAssumption DEF TakeInv, FileInv, NoRecording
<1>c. queue' = queue => JobAhead' = JobAhead
  BY <1>a DEF JobAhead
<1>d. worker.pc \in {"probe", "measure", "open", "transcribe", "merge"} =>
          recording.key \in Exts /\ recording # NoRecording
  BY PreparationAssumption DEF TypeInv, ThreadsNamed, NoRecording
<1>1. CASE WorkerDrop
  <2>1. UNCHANGED <<recording, transcript, worker>> /\ recording = NoRecording
        /\ worker.pc = "idle"
    BY <1>1 DEF WorkerDrop, database
  <2> QED
    BY <1>b, <2>1 DEF TakeInv, WorkInv
<1>2. CASE WorkerTake
  <2>1. /\ worker'.pc \in {"merge", "probe", "open"}
        /\ worker'.key = recording.key /\ worker'.text = transcript.from
        /\ recording' = recording /\ recording # NoRecording
        /\ transcript'.from = transcript.from
    BY <1>0, <1>2 DEF WorkerTake, WorkerIdle, Segments
  <2> QED
    BY <1>b, <2>1 DEF TakeInv, WorkInv
<1>3. CASE WorkerOpen
  <2>1. /\ worker'.pc \in {"measure", "transcribe"} /\ worker'.audio = files[worker.key]
        /\ worker'.key = worker.key /\ worker'.text = worker.text
        /\ UNCHANGED <<recording, transcript, queue>>
        /\ worker.pc \in {"probe", "open"}
    BY <1>0, <1>3 DEF WorkerOpen, WorkerState, database
  <2>2. ~JobAhead => files[recording.key] = recording.take
    BY <1>d, <2>1 DEF JobAhead, TakeInv, FileInv
  <2> QED
    BY <1>b, <1>c, <1>d, <2>1, <2>2 DEF TakeInv, WorkInv
<1>4. CASE WorkerMeasure
  <2>1. /\ worker'.pc = "open" /\ worker'.key = worker.key /\ worker'.text = worker.text
        /\ UNCHANGED <<transcript, queue>>
        /\ recording'.key = recording.key /\ recording'.take = recording.take
        /\ worker.pc = "measure"
    BY <1>0, <1>4 DEF WorkerMeasure, WorkerState, Recording
  <2>2. recording' # NoRecording
    BY <1>d, <2>1, PreparationAssumption DEF NoRecording
  <2> QED
    BY <1>b, <1>c, <1>d, <2>1, <2>2 DEF TakeInv, WorkInv
<1>5. ~WorkerMerge
  BY <1>0 DEF WorkerMerge, all_ready
<1>6. CASE WorkerFallback
  <2>1. /\ worker'.pc = "open" /\ worker'.key = worker.key /\ worker'.text = worker.text
        /\ UNCHANGED <<recording, transcript, queue>>
        /\ worker.pc = "merge"
    BY <1>0, <1>6 DEF WorkerFallback, WorkerState, database
  <2> QED
    BY <1>b, <1>c, <1>d, <2>1 DEF TakeInv, WorkInv
<1>7. CASE WorkerReady
  <2>1. /\ worker'.pc = "idle" /\ worker.pc = "transcribe"
        /\ UNCHANGED <<recording, queue>>
        /\ transcript'.from = IF worker.text = worker.audio THEN transcript.from ELSE worker.audio
    BY <1>7 DEF WorkerReady, Stored, Write, WorkerIdle
  <2> QED
    BY <1>b, <1>c, <1>d, <2>1 DEF TakeInv, WorkInv
<1>8. CASE WorkerFail
  <2>1. /\ worker'.pc = "idle" /\ UNCHANGED <<recording, queue>>
        /\ transcript'.status = "failed"
        /\ worker.pc \in {"probe", "measure", "open", "transcribe", "merge"}
    BY <1>0, <1>8 DEF WorkerFail, WorkerFailed, WorkerIdle, Segments
  <2> QED
    BY <1>b, <1>c, <1>d, <2>1 DEF TakeInv, WorkInv
<1>9. ~WorkerOpenChunk /\ ~WorkerChunkDone
  BY <1>0 DEF WorkerOpenChunk, WorkerChunkDone, TypeInv, ThreadsNamed
<1>10. ~WorkerTakeChunk
  <2>1. queue # <<>> => Head(queue) \in Jobs
    BY DEF TypeInv, TypeOK
  <2> QED
    BY <1>0, <2>1 DEF WorkerTakeChunk, Jobs
<1> QED
  BY <1>1, <1>2, <1>3, <1>4, <1>5, <1>6, <1>7, <1>8, <1>9, <1>10 DEF Worker

LEMMA StepTake ==
    ASSUME Whole, TypeInv, LifeInv, crashes = 0 => TakeInv, [Next]_vars
    PROVE  crashes' = 0 => TakeInv'
<1>1. CASE UNCHANGED vars
  BY <1>1 DEF vars, database, storage, TakeInv, FileInv, WorkInv, JobAhead
<1>2. ASSUME NEW g \in Slots, Generation(g)
      PROVE  crashes' = 0 => TakeInv'
  <2>1. UNCHANGED <<recording, transcript, files, queue, worker, handlers, crashes>>
    BY <1>2 DEF Generation, GenerationRead, GenerationStore, GenerationRollback,
                GenerationFail, database, storage
  <2> QED
    BY <2>1 DEF TakeInv, FileInv, WorkInv, JobAhead
<1>3. Restart => crashes' # 0
  BY PreparationAssumption DEF Restart, TypeInv, TypeOK
<1>4. ASSUME NEW h \in Handlers, Request(h) \/ Serve(h)
      PROVE  crashes' = crashes
  BY <1>4 DEF Request, Serve, StartCheck, UploadCheck, ChunkCheck, RetryCheck, GenerateCheck,
         StartStore, UploadSave, UploadStore, UploadRefused, UploadEnqueue, ChunkSave,
         ChunkStore, ChunkEnqueue, RetryStore, RetryEnqueue, GenerateStore
<1>5. Worker => crashes' = crashes
  BY DEF Worker, WorkerDrop, WorkerTake, WorkerOpen, WorkerMeasure, WorkerMerge,
         WorkerFallback, WorkerReady, WorkerFail, WorkerTakeChunk, WorkerOpenChunk,
         WorkerChunkDone, Stored
<1> QED
  BY <1>1, <1>2, <1>3, <1>4, <1>5, RequestTake, ServeTake, WorkerTakeInv DEF Next, Whole

(* For whole uploads, one request at a time, and until a restart: whatever *)
(* was uploaded over what, in which format and during which job, when      *)
(* everything has come to rest a ready transcript is that of the recording *)
(* in storage. (The worker and an upload share the row and the file.)      *)
THEOREM TranscriptIsOfRecording ==
    OneRequest /\ NumChunks = 0 /\ Totals = {} =>
        (Spec => [](crashes = 0 => TranscriptOfRecording))
<1> SUFFICES ASSUME Whole PROVE Spec => [](crashes = 0 => TranscriptOfRecording)
  BY DEF Whole
<1> DEFINE Inv == TypeInv /\ LifeInv /\ (crashes = 0 => TakeInv)
<1>1. Init => Inv
  <2>1. Init => TakeInv
    BY DEF Init, TakeInv, FileInv, WorkInv, JobAhead, Absent, Idle, WorkerIdle
  <2> QED
    BY <2>1, InitTypeInv, InitLifeInv
<1>2. Inv /\ [Next]_vars => Inv'
  BY StepTypeInv, StepLife, StepTake DEF Whole
<1>3. Inv => (crashes = 0 => TranscriptOfRecording)
  BY DEF TakeInv, FileInv, WorkInv, JobAhead, TranscriptOfRecording, Quiet
<1> HIDE DEF Inv
<1> QED
  BY <1>1, <1>2, <1>3, PTL DEF Spec
=============================================================================
