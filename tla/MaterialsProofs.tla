-------------------------- MODULE MaterialsProofs ---------------------------
(***************************************************************************)
(* Proofs about Materials, for every set of request threads and formats    *)
(* and any number of uploads and restarts: its types, that it implements   *)
(* AsyncJob, from which a polled material inherits its job, and what is in *)
(* storage.                                                                *)
(***************************************************************************)
EXTENDS Materials, TLAPS

LEMMA StatusTypes ==
    /\ NoMaterial \in Material
    /\ Idle \in ThreadState
    /\ NoKey \notin Threads /\ Handlers \subseteq Threads
  BY MaterialsAssumption DEF NoMaterial, Material, Idle, ThreadState, NoKey, Threads, Versions

(* A thread goes on in a state of its type; the others stay as they are.   *)
LEMMA BecomesTypes ==
    ASSUME TypeOK, NEW t \in Threads, NEW state \in ThreadState, Becomes(t, state)
    PROVE  /\ threads' \in [Threads -> ThreadState]
           /\ threads'[t] = state
           /\ \A u \in Threads : u # t => threads'[u] = threads[u]
  BY DEF Becomes, TypeOK

(* What a thread may become without a word about the database.             *)
LEMMA OneThread ==
    ASSUME TypeInv, UNCHANGED <<session, lock>>, NEW t \in Threads,
           NEW state \in ThreadState, Becomes(t, state),
           state.pc \in {"save", "lock", "store"} => state.key \in Exts,
           state.pc \in {"mark", "load"} => state.seen.key \in Exts,
           state.pc # "store"
    PROVE  threads' \in [Threads -> ThreadState] /\ ThreadsNamed'
<1>1. /\ threads' \in [Threads -> ThreadState]
      /\ threads'[t] = state
      /\ \A u \in Threads : u # t => threads'[u] = threads[u]
  BY BecomesTypes DEF TypeInv
<1> QED
  BY <1>1 DEF TypeInv, ThreadsNamed

(* A step that neither locks the session nor deletes it.                   *)
LEMMA OneStep ==
    ASSUME TypeInv, UNCHANGED <<session, lock, uploads, crashes>>, NEW t \in Threads,
           NEW state \in ThreadState, Becomes(t, state),
           state.pc \in {"save", "lock", "store"} => state.key \in Exts,
           state.pc \in {"mark", "load"} => state.seen.key \in Exts,
           state.pc # "store",
           material' \in Material, files' \in [Exts -> Versions], overlapped' \in BOOLEAN,
           material'.status # "absent" => session /\ material'.key \in Exts
    PROVE  TypeInv'
<1>1. threads' \in [Threads -> ThreadState] /\ ThreadsNamed'
  BY OneThread
<1> QED
  BY <1>1 DEF TypeInv, TypeOK

(* A partial update writes a row of the table.                             *)
LEMMA WrittenRow ==
    ASSUME NEW row \in Material, NEW seen \in Material, NEW key \in Exts,
           seen = NoMaterial \/ (row.status # "absent" /\ row.key \in Exts)
    PROVE  LET new == [status |-> Write(seen.status, "queued", row.status),
                       key    |-> Write(seen.key, key, row.key),
                       slides |-> Write(seen.slides, 0, row.slides)]
           IN  new \in Material /\ new.status # "absent" /\ new.key \in Exts
  BY MaterialsAssumption DEF Material, Write, NoMaterial, NoKey, Versions

LEMMA InitTypeInv == Init => TypeInv
<1> SUFFICES ASSUME Init PROVE TypeInv
  OBVIOUS
<1>1. 0 \in Versions /\ 0 \in 0 .. MaxCrashes
  BY MaterialsAssumption DEF Versions
<1>2. threads \in [Threads -> ThreadState] /\ \A t \in Threads : threads[t].pc = "idle"
  BY StatusTypes DEF Init, Idle
<1> QED
  BY <1>1, <1>2, StatusTypes DEF Init, TypeInv, TypeOK, ThreadsNamed, NoMaterial

(* Requests: their checks, and what they commit.                           *)
LEMMA RequestTypeInv == ASSUME TypeInv, NEW h \in Handlers, Request(h) PROVE TypeInv'
<1> USE DEF TypeInv
<1>0. h \in Threads /\ material \in Material
  BY StatusTypes DEF TypeOK
<1>1. ASSUME NEW ext \in Exts, UploadCheck(h, ext) PROVE TypeInv'
  <2> DEFINE new == [Idle EXCEPT !.pc = "save", !.key = ext, !.version = uploads']
  <2>1. uploads' \in Versions
    BY <1>1, MaterialsAssumption DEF UploadCheck, TypeOK, Versions
  <2>2. new \in ThreadState /\ new.pc = "save" /\ new.key = ext
    BY <2>1, StatusTypes DEF Idle, ThreadState, Requesting
  <2>3. Becomes(h, new) /\ overlapped' \in BOOLEAN
    BY <1>1 DEF UploadCheck, Enters
  <2> HIDE DEF new
  <2>4. threads' \in [Threads -> ThreadState] /\ ThreadsNamed'
    BY <1>0, <1>1, <2>2, <2>3, OneThread DEF UploadCheck, database
  <2> QED
    BY <1>1, <2>1, <2>3, <2>4 DEF UploadCheck, TypeOK, database
<1>2. ASSUME NEW state \in ThreadState, Enters(h, state),
             state.pc \in {"retry", "delete", "delete_session"},
             UNCHANGED <<database, files, uploads, crashes>>
      PROVE  TypeInv'
  BY <1>0, <1>2, OneStep DEF Enters, TypeOK, database
<1>3. CASE RetryCheck(h)
  <2> DEFINE new == [Idle EXCEPT !.pc = "retry"]
  <2>1. new \in ThreadState /\ new.pc = "retry"
    BY StatusTypes DEF Idle, ThreadState, Requesting
  <2>2. Enters(h, new) /\ UNCHANGED <<database, files, uploads, crashes>>
    BY <1>3 DEF RetryCheck
  <2> HIDE DEF new
  <2> QED
    BY <1>2, <2>1, <2>2
<1>4. CASE DeleteCheck(h)
  <2> DEFINE new == [Idle EXCEPT !.pc = "delete", !.key = material.key]
  <2>1. new \in ThreadState /\ new.pc = "delete"
    BY <1>0, StatusTypes DEF Idle, ThreadState, Requesting, Material
  <2>2. Enters(h, new) /\ UNCHANGED <<database, files, uploads, crashes>>
    BY <1>4 DEF DeleteCheck
  <2> HIDE DEF new
  <2> QED
    BY <1>2, <2>1, <2>2
<1>5. CASE DeleteSessionCheck(h)
  <2> DEFINE new == [Idle EXCEPT !.pc = "delete_session", !.key = material.key]
  <2>1. new \in ThreadState /\ new.pc = "delete_session"
    BY <1>0, StatusTypes DEF Idle, ThreadState, Requesting, Material
  <2>2. Enters(h, new) /\ UNCHANGED <<database, files, uploads, crashes>>
    BY <1>5 DEF DeleteSessionCheck
  <2> HIDE DEF new
  <2> QED
    BY <1>2, <2>1, <2>2
<1> QED
  BY <1>1, <1>3, <1>4, <1>5 DEF Request

(* The rest of a request.                                                  *)
LEMMA ServeTypeInv == ASSUME TypeInv, NEW h \in Handlers, Serve(h) PROVE TypeInv'
<1> USE DEF TypeInv
<1>0. /\ h \in Threads /\ h # NoKey
      /\ material \in Material /\ threads[h] \in ThreadState
      /\ files \in [Exts -> Versions] /\ overlapped \in BOOLEAN /\ 0 \in Versions
      /\ material.status # "absent" => session /\ material.key \in Exts
      /\ \A pc \in {"lock", "unlink"} : [threads[h] EXCEPT !.pc = pc] \in ThreadState
  BY StatusTypes, MaterialsAssumption DEF TypeOK, ThreadState, Requesting, Versions
<1>1. \A key : Without(key) \in [Exts -> Versions]
  BY <1>0 DEF Without
<1>2. [Idle EXCEPT !.pc = "waiting"] \in ThreadState
  BY StatusTypes DEF ThreadState, Working, Idle
<1>3. CASE UploadRefused(h) \/ UploadLost(h)
  BY <1>0, <1>3, StatusTypes, OneStep DEF UploadRefused, UploadLost, Idle, database
<1>4. CASE UploadSave(h)
  <2> DEFINE new == [threads[h] EXCEPT !.pc = "lock"]
  <2>1. new \in ThreadState /\ new.pc = "lock" /\ new.key \in Exts /\ Becomes(h, new)
    BY <1>0, <1>4 DEF UploadSave, ThreadsNamed, ThreadState
  <2>2. files' \in [Exts -> Versions]
    BY <1>0, <1>4 DEF UploadSave, ThreadState
  <2> HIDE DEF new
  <2> QED
    BY <1>0, <1>4, <2>1, <2>2, OneStep DEF UploadSave, database
<1>5. CASE UploadLock(h)
  <2> DEFINE new == [threads[h] EXCEPT !.pc = "store", !.seen = material]
  <2>1. new \in ThreadState /\ new.pc = "store" /\ new.key \in Exts /\ Becomes(h, new)
    BY <1>0, <1>5 DEF UploadLock, ThreadsNamed, ThreadState, Requesting
  <2>2. files' \in [Exts -> Versions]
    BY <1>0, <1>1, <1>5 DEF UploadLock
  <2>3. \A t \in Threads : threads[t].pc # "store"
    BY <1>5, StatusTypes DEF UploadLock, ThreadsNamed
  <2> HIDE DEF new
  <2>4. /\ threads' \in [Threads -> ThreadState]
        /\ threads'[h] = new
        /\ \A u \in Threads : u # h => threads'[u] = threads[u]
    BY <1>0, <2>1, BecomesTypes
  <2>5. ThreadsNamed'
    BY <1>5, <2>1, <2>3, <2>4 DEF UploadLock, ThreadsNamed
  <2> QED
    BY <1>5, <2>2, <2>4, <2>5 DEF UploadLock, TypeOK
<1>6. CASE UploadStore(h) \/ UploadStale(h)
  <2>1. \A u \in Threads : u # h => threads[u].pc # "store"
    BY <1>0, <1>6 DEF UploadStore, UploadStale, ThreadsNamed
  <2>2. \E new \in ThreadState : new.pc \in {"waiting", "idle"} /\ Becomes(h, new)
    BY <1>2, <1>6, StatusTypes DEF UploadStore, UploadStale, Idle
  <2>3. PICK new \in ThreadState : new.pc \in {"waiting", "idle"} /\ Becomes(h, new)
    BY <2>2
  <2>4. /\ threads' \in [Threads -> ThreadState]
        /\ threads'[h] = new
        /\ \A u \in Threads : u # h => threads'[u] = threads[u]
    BY <1>0, <2>3, BecomesTypes
  <2>5. ThreadsNamed'
    BY <2>1, <2>3, <2>4 DEF ThreadsNamed
  <2>6. /\ material' \in Material
        /\ material'.status # "absent" => session' /\ material'.key \in Exts
    <3>1. CASE UploadStale(h)
      BY <1>0, <3>1 DEF UploadStale
    <3>2. CASE UploadStore(h)
      <4>1. session /\ threads[h].key \in Exts /\ threads[h].seen \in Material
        BY <1>0, <3>2 DEF UploadStore, ThreadsNamed, ThreadState
      <4> QED
        BY <1>0, <3>2, <4>1, WrittenRow DEF UploadStore, Exists
    <3> QED
      BY <1>6, <3>1, <3>2
  <2>7. UNCHANGED <<session, files, uploads, crashes, overlapped>> /\ lock' = NoKey
    BY <1>6 DEF UploadStore, UploadStale
  <2> QED
    BY <2>4, <2>5, <2>6, <2>7 DEF TypeOK
<1>7. CASE RetryStore(h)
  <2>1. \E new \in ThreadState : new.pc \in {"waiting", "idle"} /\ Becomes(h, new)
    BY <1>2, <1>7, StatusTypes DEF RetryStore, Idle
  <2>2. PICK new \in ThreadState : new.pc \in {"waiting", "idle"} /\ Becomes(h, new)
    BY <2>1
  <2>3. material' \in Material /\ (material'.status # "absent" => session /\ material'.key \in Exts)
    BY <1>0, <1>7 DEF RetryStore, Material, Exists
  <2> QED
    BY <1>0, <1>7, <2>2, <2>3, OneStep DEF RetryStore
<1>8. CASE DeleteStore(h)
  <2> DEFINE new == [threads[h] EXCEPT !.pc = "unlink"]
  <2>1. new \in ThreadState /\ new.pc = "unlink" /\ Becomes(h, new)
    BY <1>0, <1>8 DEF DeleteStore, ThreadState
  <2> HIDE DEF new
  <2> QED
    BY <1>0, <1>8, <2>1, StatusTypes, OneStep DEF DeleteStore, NoMaterial
<1>9. CASE DeleteSessionStore(h)
  <2> DEFINE new == [threads[h] EXCEPT !.pc = "unlink"]
  <2>1. new \in ThreadState /\ new.pc = "unlink" /\ Becomes(h, new)
    BY <1>0, <1>9 DEF DeleteSessionStore, ThreadState
  <2>2. \A t \in Threads : threads[t].pc # "store"
    BY <1>9, StatusTypes DEF DeleteSessionStore, ThreadsNamed
  <2> HIDE DEF new
  <2>3. /\ threads' \in [Threads -> ThreadState]
        /\ threads'[h] = new
        /\ \A u \in Threads : u # h => threads'[u] = threads[u]
    BY <1>0, <2>1, BecomesTypes
  <2>4. ThreadsNamed'
    BY <2>1, <2>2, <2>3 DEF ThreadsNamed
  <2> QED
    BY <1>9, <2>3, <2>4, StatusTypes DEF DeleteSessionStore, TypeOK, NoMaterial
<1>10. CASE DeleteFile(h)
  BY <1>0, <1>1, <1>10, StatusTypes, OneStep DEF DeleteFile, Idle, database
<1> QED
  BY <1>3, <1>4, <1>5, <1>6, <1>7, <1>8, <1>9, <1>10 DEF Serve

(* The parse job.                                                          *)
LEMMA ParseTypeInv == ASSUME TypeInv, NEW t \in Threads, RunParse(t) PROVE TypeInv'
<1> USE DEF TypeInv
<1>0. /\ material \in Material /\ threads[t] \in ThreadState /\ threads[t].seen \in Material
      /\ files \in [Exts -> Versions] /\ overlapped \in BOOLEAN
      /\ material.status # "absent" => session /\ material.key \in Exts
  BY DEF TypeOK, ThreadState
<1>1. ASSUME NEW new \in ThreadState, Becomes(t, new),
             new.pc \in {"idle", "mark", "load", "finish", "fail"},
             new.pc \in {"mark", "load"} => new.seen.key \in Exts,
             material' \in Material,
             material'.status # "absent" => session /\ material'.key \in Exts,
             UNCHANGED <<session, lock, files, uploads, crashes, overlapped>>
      PROVE  TypeInv'
  BY <1>0, <1>1, OneStep
<1>2. CASE Begin(t)
  <2> DEFINE new == IF Exists THEN [Idle EXCEPT !.pc = "mark", !.seen = material] ELSE Idle
  <2>1. /\ new \in ThreadState /\ new.pc \in {"idle", "mark"}
        /\ new.pc = "mark" => new.seen.key \in Exts
    BY <1>0, StatusTypes DEF Exists, Idle, ThreadState, Working
  <2>2. Becomes(t, new)
    BY <1>2 DEF Begin
  <2> HIDE DEF new
  <2> QED
    BY <1>0, <1>1, <1>2, <2>1, <2>2 DEF Begin, database
<1>3. CASE Mark(t)
  <2> DEFINE new == IF Exists \/ threads[t].seen.status = "processing"
                    THEN [threads[t] EXCEPT !.pc = "load", !.seen.status = "processing"]
                    ELSE Idle
  <2>1. /\ new \in ThreadState /\ new.pc \in {"idle", "load"}
        /\ new.pc = "load" => new.seen.key \in Exts
    BY <1>0, <1>3, StatusTypes DEF Mark, Idle, ThreadState, Working, Material, ThreadsNamed
  <2>2. Becomes(t, new)
    BY <1>3 DEF Mark
  <2>3. material' \in Material /\ (material'.status # "absent" => session /\ material'.key \in Exts)
    BY <1>0, <1>3 DEF Mark, Write, Material, Exists
  <2> HIDE DEF new
  <2> QED
    BY <1>0, <1>1, <1>3, <2>1, <2>2, <2>3 DEF Mark
<1>4. CASE Load(t)
  <2>1. threads[t].seen.key \in Exts
    BY <1>4 DEF Load, ThreadsNamed
  <2> DEFINE done   == [threads[t] EXCEPT !.pc = "finish", !.version = files[threads[t].seen.key]]
             failed == [threads[t] EXCEPT !.pc = "fail"]
  <2>2. done \in ThreadState /\ done.pc = "finish"
    BY <1>0, <2>1 DEF ThreadState, Working
  <2>3. failed \in ThreadState /\ failed.pc = "fail"
    BY <1>0 DEF ThreadState, Working
  <2>4. Becomes(t, done) \/ Becomes(t, failed)
    BY <1>4 DEF Load
  <2> HIDE DEF done, failed
  <2>5. \E new \in ThreadState : new.pc \in {"finish", "fail"} /\ Becomes(t, new)
    BY <2>2, <2>3, <2>4
  <2> QED
    BY <1>0, <1>1, <1>4, <2>5 DEF Load, database
<1>5. CASE Finish(t)
  <2>1. material' \in Material /\ (material'.status # "absent" => session /\ material'.key \in Exts)
    BY <1>0, <1>5 DEF Finish, Write, Material, Exists, ThreadState
  <2> QED
    BY <1>0, <1>1, <1>5, <2>1, StatusTypes DEF Finish, Idle
<1>6. CASE Fail(t)
  <2>1. material' \in Material /\ (material'.status # "absent" => session /\ material'.key \in Exts)
    BY <1>0, <1>6 DEF Fail, Material, Exists
  <2> QED
    BY <1>0, <1>1, <1>6, <2>1, StatusTypes DEF Fail, Idle
<1> QED
  BY <1>2, <1>3, <1>4, <1>5, <1>6 DEF RunParse

LEMMA StepTypeInv == TypeInv /\ [Next]_vars => TypeInv'
<1> SUFFICES ASSUME TypeInv, [Next]_vars PROVE TypeInv'
  OBVIOUS
<1>1. CASE Restart
  <2>1. /\ threads' \in [Threads -> ThreadState]
        /\ \A t \in Threads : threads'[t].pc \in {"idle", "waiting"}
    BY <1>1, StatusTypes DEF Restart, Idle, ThreadState, Working
  <2>2. crashes' \in 0 .. MaxCrashes
    BY <1>1, MaterialsAssumption DEF Restart, TypeInv, TypeOK
  <2> QED
    BY <1>1, <2>1, <2>2 DEF Restart, TypeInv, TypeOK, ThreadsNamed
<1>2. CASE UNCHANGED vars
  BY <1>2 DEF vars, database, TypeInv, TypeOK, ThreadsNamed
<1> QED
  BY <1>1, <1>2, RequestTypeInv, ServeTypeInv, ParseTypeInv DEF Next

(* The session, the row, the files and the threads have their types, and a *)
(* material belongs to a session that exists and names a file: no upload   *)
(* commits a row after its session was deleted (the lock of                *)
(* upload_material, the cascade of delete_session).                        *)
THEOREM TypeCorrect == Spec => []TypeOK
<1>1. TypeInv => TypeOK
  BY DEF TypeInv
<1> QED
  BY <1>1, InitTypeInv, StepTypeInv, PTL DEF Spec

-----------------------------------------------------------------------------
(* The refinement. A step is described by what it does to the status and   *)
(* to the existence of a job.                                              *)

LEMMA JobOf ==
    ASSUME TypeInv, NEW t \in Threads, NEW state \in ThreadState, Becomes(t, state)
    PROVE  /\ state.pc \in Working => HasJob'
           /\ threads[t].pc \notin Working /\ state.pc \notin Working => HasJob' = HasJob
           /\ threads[t].pc \in Working => HasJob
<1>1. /\ threads' \in [Threads -> ThreadState]
      /\ threads'[t] = state
      /\ \A u \in Threads : u # t => threads'[u] = threads[u]
  BY BecomesTypes DEF TypeInv
<1> QED
  BY <1>1 DEF HasJob

(* The abstract actions, for the one row there is.                         *)
LEMMA Abstraction ==
    ASSUME TypeInv, TypeInv'
    PROVE  /\ material'.status = material.status /\ HasJob' = HasJob => UNCHANGED Job!vars
           /\ material'.status \in {"queued", material.status} /\ HasJob' => Job!Next
           /\ /\ HasJob /\ HasJob' /\ material.status # "absent"
              /\ material'.status = "processing"
              => Job!Next
           /\ /\ HasJob /\ material.status # "absent"
              /\ material'.status \in {"ready", "failed"}
              => Job!Next
           /\ /\ HasJob' => HasJob
              /\ material'.status = material.status /\ material.status = "absent"
              => Job!Next
           /\ material'.status = "absent" /\ HasJob' = HasJob => Job!Next
           /\ /\ material'.status = material.status
              /\ HasJob' <=> material.status \in {"queued", "processing"}
              => Job!Next
<1>1. {"material"} \in SUBSET {"material"} /\ "material" \in {"material"}
  OBVIOUS
<1> USE <1>1 DEF Job!Sets, Job!Unfinished, Job!Settled
<1>2. material'.status = material.status /\ HasJob' = HasJob => UNCHANGED Job!vars
  BY DEF Job!vars
<1>3. material'.status \in {"queued", material.status} /\ HasJob' => Job!Accept({"material"})
  BY DEF Job!Accept
<1>4. HasJob /\ HasJob' /\ material.status # "absent" /\ material'.status = "processing"
      => Job!Start("material")
  BY DEF Job!Start
<1>5. HasJob /\ material.status # "absent" /\ material'.status \in {"ready", "failed"}
      => Job!Settle("material")
  BY DEF Job!Settle
<1>6. (HasJob' => HasJob) /\ material'.status = material.status /\ material.status = "absent"
      => Job!JobsEnd
  BY DEF Job!JobsEnd
<1>7. material'.status = "absent" /\ HasJob' = HasJob => Job!Remove({"material"})
  BY DEF Job!Remove
<1>8. material'.status = material.status
         /\ (HasJob' <=> material.status \in {"queued", "processing"})
      => Job!Recover
  BY DEF Job!Recover
<1> QED
  BY <1>2, <1>3, <1>4, <1>5, <1>6, <1>7, <1>8 DEF Job!Next

LEMMA RequestRefines ==
    ASSUME TypeInv, TypeInv', NEW h \in Handlers, Request(h) \/ Serve(h)
    PROVE  [Job!Next]_(Job!vars)
<1>0. /\ h \in Threads /\ threads[h] \in ThreadState
      /\ threads \in [Threads -> ThreadState] /\ threads' \in [Threads -> ThreadState]
      /\ Idle \in ThreadState
  BY StatusTypes DEF TypeInv, TypeOK
<1>1. ASSUME NEW state, Becomes(h, state) PROVE threads'[h] = state /\ state \in ThreadState
  BY <1>0, <1>1 DEF Becomes
<1>2. ASSUME threads[h].pc \notin Working, NEW state, Becomes(h, state),
             state.pc \notin Working, material'.status = material.status
      PROVE  UNCHANGED Job!vars
  BY <1>0, <1>1, <1>2, JobOf, Abstraction
<1>3. CASE Request(h)
  <2>1. ASSUME NEW state, Enters(h, state), state.pc \notin Working, material' = material
        PROVE  UNCHANGED Job!vars
    BY <1>2, <2>1 DEF Enters, Idle, Working
  <2>2. ASSUME NEW ext \in Exts, UploadCheck(h, ext) PROVE UNCHANGED Job!vars
    <3> DEFINE new == [Idle EXCEPT !.pc = "save", !.key = ext, !.version = uploads']
    <3>1. new.pc \notin Working
      BY DEF Idle, Working
    <3>2. Enters(h, new) /\ material' = material
      BY <2>2 DEF UploadCheck, database
    <3> HIDE DEF new
    <3> QED
      BY <2>1, <3>1, <3>2
  <2>3. CASE RetryCheck(h)
    <3>1. [Idle EXCEPT !.pc = "retry"].pc \notin Working
      BY DEF Idle, Working
    <3> QED
      BY <2>1, <2>3, <3>1 DEF RetryCheck, database
  <2>4. CASE DeleteCheck(h)
    <3>1. [Idle EXCEPT !.pc = "delete", !.key = material.key].pc \notin Working
      BY DEF Idle, Working
    <3> QED
      BY <2>1, <2>4, <3>1 DEF DeleteCheck, database
  <2>5. CASE DeleteSessionCheck(h)
    <3>1. [Idle EXCEPT !.pc = "delete_session", !.key = material.key].pc \notin Working
      BY DEF Idle, Working
    <3> QED
      BY <2>1, <2>5, <3>1 DEF DeleteSessionCheck, database
  <2> QED
    BY <1>3, <2>2, <2>3, <2>4, <2>5 DEF Request
<1>4. CASE UploadRefused(h) \/ UploadLost(h) \/ UploadStale(h) \/ DeleteFile(h)
  <2>1. Becomes(h, Idle) /\ material' = material /\ threads[h].pc \notin Working
    BY <1>4 DEF UploadRefused, UploadLost, UploadStale, DeleteFile, database, Working
  <2> QED
    BY <1>2, <2>1 DEF Idle, Working
<1>5. CASE UploadSave(h)
  <2>1. Becomes(h, [threads[h] EXCEPT !.pc = "lock"]) /\ material' = material
    BY <1>5 DEF UploadSave, database
  <2>2. [threads[h] EXCEPT !.pc = "lock"].pc = "lock"
    BY <1>0 DEF ThreadState
  <2> QED
    BY <1>2, <1>5, <2>1, <2>2 DEF UploadSave, Working
<1>6. CASE UploadLock(h)
  <2>1. /\ Becomes(h, [threads[h] EXCEPT !.pc = "store", !.seen = material])
        /\ material' = material
    BY <1>6 DEF UploadLock
  <2>2. [threads[h] EXCEPT !.pc = "store", !.seen = material].pc = "store"
    BY <1>0 DEF ThreadState
  <2> QED
    BY <1>2, <1>6, <2>1, <2>2 DEF UploadLock, Working
<1>7. CASE UploadStore(h)
  <2>1. /\ Becomes(h, [Idle EXCEPT !.pc = "waiting"])
        /\ material'.status \in {"queued", material.status}
    BY <1>7 DEF UploadStore, Write
  <2>2. [Idle EXCEPT !.pc = "waiting"].pc \in Working
    BY DEF Idle, Working
  <2> QED
    BY <1>0, <1>1, <2>1, <2>2, JobOf, Abstraction
<1>8. CASE RetryStore(h)
  <2>1. [Idle EXCEPT !.pc = "waiting"].pc \in Working /\ Idle.pc \notin Working
    BY DEF Idle, Working
  <2>2. CASE Exists
    <3>1. Becomes(h, [Idle EXCEPT !.pc = "waiting"]) /\ material'.status = "queued"
      BY <1>8, <2>2 DEF RetryStore, TypeInv, TypeOK, Material
    <3> QED
      BY <1>0, <1>1, <2>1, <3>1, JobOf, Abstraction
  <2>3. CASE ~Exists
    BY <1>2, <1>8, <2>1, <2>3 DEF RetryStore, Working
  <2> QED
    BY <2>2, <2>3
<1>9. CASE DeleteStore(h) \/ DeleteSessionStore(h)
  <2>1. /\ Becomes(h, [threads[h] EXCEPT !.pc = "unlink"])
        /\ material'.status = "absent" /\ threads[h].pc \notin Working
    BY <1>9 DEF DeleteStore, DeleteSessionStore, NoMaterial, Working
  <2>2. [threads[h] EXCEPT !.pc = "unlink"].pc \notin Working
    BY <1>0 DEF ThreadState, Working
  <2> QED
    BY <1>0, <1>1, <2>1, <2>2, JobOf, Abstraction
<1> QED
  BY <1>3, <1>4, <1>5, <1>6, <1>7, <1>8, <1>9 DEF Serve

LEMMA ParseRefines ==
    ASSUME TypeInv, TypeInv', NEW t \in Threads, RunParse(t)
    PROVE  [Job!Next]_(Job!vars)
<1>0. /\ threads[t] \in ThreadState /\ material \in Material
      /\ threads \in [Threads -> ThreadState] /\ threads' \in [Threads -> ThreadState]
  BY DEF TypeInv, TypeOK
<1>1. HasJob
  BY DEF RunParse, Begin, Mark, Load, Finish, Fail, HasJob, Working
<1>2. ASSUME threads'[t].pc \in Working PROVE HasJob'
  BY <1>2 DEF HasJob
<1>3. CASE ~Exists
  <2>1. material' = material
    BY <1>3 DEF RunParse, Begin, Mark, Load, Finish, Fail, database
  <2> QED
    BY <1>1, <1>3, <2>1, Abstraction DEF Exists
<1>4. CASE Exists /\ (Begin(t) \/ Mark(t) \/ Load(t))
  <2>1. threads'[t].pc \in Working
    <3>1. Begin(t) => threads'[t].pc \in Working
      BY <1>0, <1>4 DEF Begin, Becomes, Working, Idle
    <3>2. Mark(t) => threads'[t].pc \in Working
      BY <1>0, <1>4 DEF Mark, Becomes, Working, ThreadState
    <3>3. ASSUME Load(t) PROVE threads'[t].pc \in Working
      <4> DEFINE done   == [threads[t] EXCEPT !.pc = "finish", !.version = files[threads[t].seen.key]]
                 failed == [threads[t] EXCEPT !.pc = "fail"]
      <4>1. done.pc = "finish" /\ failed.pc = "fail"
        BY <1>0 DEF ThreadState
      <4>2. Becomes(t, done) \/ Becomes(t, failed)
        BY <3>3 DEF Load
      <4> HIDE DEF done, failed
      <4> QED
        BY <1>0, <4>1, <4>2 DEF Becomes, Working
    <3> QED
      BY <1>4, <3>1, <3>2, <3>3
  <2>2. material'.status \in {"processing", material.status}
    BY <1>0, <1>4 DEF Begin, Mark, Load, Write, Material, database
  <2> QED
    BY <1>1, <1>2, <1>4, <2>1, <2>2, Abstraction DEF Exists
<1>5. CASE Exists /\ (Finish(t) \/ Fail(t))
  <2>1. material'.status \in {"ready", "failed"}
    BY <1>0, <1>5 DEF Finish, Fail, Material
  <2> QED
    BY <1>1, <1>5, <2>1, Abstraction DEF Exists
<1> QED
  BY <1>3, <1>4, <1>5 DEF RunParse

LEMMA StepRefines == TypeInv /\ TypeInv' /\ [Next]_vars => [Job!Next]_(Job!vars)
<1> SUFFICES ASSUME TypeInv, TypeInv', [Next]_vars PROVE [Job!Next]_(Job!vars)
  OBVIOUS
<1>1. CASE Restart
  <2>1. HasJob' <=> material.status \in {"queued", "processing"}
    BY <1>1 DEF Restart, HasJob, Unfinished, Idle, Working, Threads
  <2> QED
    BY <1>1, <2>1, Abstraction DEF Restart
<1>2. CASE UNCHANGED vars
  BY <1>2, Abstraction DEF vars, database, HasJob
<1> QED
  BY <1>1, <1>2, RequestRefines, ParseRefines DEF Next

LEMMA InitRefines == Init => Job!Init
  BY DEF Init, Job!Init, Job!TypeOK, Job!Covered, Job!AsyncStatus, Job!Unfinished,
         Job!Settled, NoMaterial

(* Uploads, retries, deletions, parse jobs and restarts only ever move the *)
(* material as AsyncJob allows.                                            *)
THEOREM ImplementsAsyncJob == Spec => MaterialPolled
  BY InitRefines, InitTypeInv, StepTypeInv, StepRefines, PTL
     DEF Spec, MaterialPolled, Job!Spec

(* The promise of AsyncJob, of this row.                                   *)
LEMMA StepCovered ==
    Job!TypeOK /\ Job!Covered /\ [Job!Next]_(Job!vars) => (Job!TypeOK /\ Job!Covered)'
<1> SUFFICES ASSUME Job!TypeOK, Job!Covered, [Job!Next]_(Job!vars)
             PROVE  Job!TypeOK' /\ Job!Covered'
  OBVIOUS
<1> USE DEF Job!TypeOK, Job!Covered, Job!Sets, Job!AsyncStatus, Job!Unfinished, Job!Settled
<1>1. ASSUME NEW S \in SUBSET {"material"}, Job!Accept(S) PROVE Job!TypeOK' /\ Job!Covered'
  BY <1>1 DEF Job!Accept
<1>2. ASSUME NEW S \in SUBSET {"material"}, Job!Remove(S) PROVE Job!TypeOK' /\ Job!Covered'
  BY <1>2 DEF Job!Remove
<1>3. ASSUME NEW r \in {"material"}, Job!Start(r) PROVE Job!TypeOK' /\ Job!Covered'
  BY <1>3 DEF Job!Start
<1>4. ASSUME NEW r \in {"material"}, Job!Settle(r) PROVE Job!TypeOK' /\ Job!Covered'
  BY <1>4 DEF Job!Settle
<1>5. CASE Job!JobsEnd
  BY <1>5 DEF Job!JobsEnd
<1>6. CASE Job!Recover
  BY <1>6 DEF Job!Recover
<1>7. CASE UNCHANGED Job!vars
  BY <1>7 DEF Job!vars
<1> QED
  BY <1>1, <1>2, <1>3, <1>4, <1>5, <1>6, <1>7 DEF Job!Next

(* A material that is queued or processing has a parse job, in every       *)
(* reachable state.                                                        *)
THEOREM NeverForgotten == Spec => [](material.status \in {"queued", "processing"} => HasJob)
<1>1. Job!Covered => (material.status \in {"queued", "processing"} => HasJob)
  BY DEF Job!Covered, Job!Unfinished
<1> QED
  BY <1>1, StepCovered, ImplementsAsyncJob, PTL DEF MaterialPolled, Job!Spec, Job!Init
-----------------------------------------------------------------------------
(* Storage and the row, for requests that do not meet.                     *)

(* A step of the only request there is.                                    *)
LEMMA RequestFiles ==
    ASSUME TypeInv, TypeInv', FileInv, NEW h \in Handlers,
           \A u \in Threads : u # h => threads'[u] = threads[u],
           ~overlapped' => ~overlapped /\ Requests \subseteq {h},
           ~Exists' => material' = NoMaterial,
           ~overlapped' => FilesDuring(threads[h])'
    PROVE  FileInv'
<1>1. Handlers \subseteq Threads
  BY StatusTypes
<1>2. ~overlapped' => Requests' \subseteq {h}
  BY <1>1 DEF Requests
<1>3. ~overlapped' /\ Requests' = {} => threads'[h].pc \notin Requesting
  BY DEF Requests
<1>4. ~overlapped' /\ Requests' = {} => FilesAre(OfRow)'
  BY <1>3 DEF FilesDuring, Requesting
<1> QED
  BY <1>2, <1>4 DEF FileInv

(* The check of a request that meets no other.                             *)
LEMMA CheckFiles ==
    ASSUME TypeInv, TypeInv', FileInv, NEW h \in Handlers, NEW state \in ThreadState,
           Enters(h, state), UNCHANGED <<database, files>>,
           state.pc \in {"save", "retry", "delete", "delete_session"},
           state.pc = "save" => state.version # 0,
           state.pc \in {"delete", "delete_session"} => state.key = material.key
    PROVE  FileInv'
<1>1. /\ threads'[h] = state
      /\ \A u \in Threads : u # h => threads'[u] = threads[u]
  BY StatusTypes, BecomesTypes DEF Enters, TypeInv
<1>2. /\ UNCHANGED <<session, material, files>> /\ session
      /\ ~overlapped' => ~overlapped /\ Requests = {}
  BY DEF Enters, database
<1>3. ~overlapped' => FilesAre(OfRow)
  BY <1>2 DEF FileInv
<1>4. FilesAre(OfRow)' <=> FilesAre(OfRow)
  BY <1>2 DEF FilesAre, OfRow, Exists
<1>5. ~overlapped' => FilesDuring(threads[h])'
  BY <1>1, <1>2, <1>3, <1>4 DEF FilesDuring
<1>6. ~Exists' => material' = NoMaterial
  BY <1>2 DEF FileInv, Exists
<1> QED
  BY <1>1, <1>2, <1>5, <1>6, RequestFiles

LEMMA ChecksFiles ==
    ASSUME TypeInv, TypeInv', FileInv, NEW h \in Handlers, Request(h) PROVE FileInv'
<1>0. material \in Material
  BY DEF TypeInv, TypeOK
<1>1. ASSUME NEW ext \in Exts, UploadCheck(h, ext) PROVE FileInv'
  <2> DEFINE new == [Idle EXCEPT !.pc = "save", !.key = ext, !.version = uploads']
  <2>1. uploads' \in Versions /\ uploads' # 0
    BY <1>1, MaterialsAssumption DEF UploadCheck, TypeInv, TypeOK, Versions
  <2>2. new \in ThreadState /\ new.pc = "save" /\ new.version # 0
    BY <2>1, StatusTypes DEF Idle, ThreadState, Requesting
  <2>3. Enters(h, new) /\ UNCHANGED <<database, files>>
    BY <1>1 DEF UploadCheck
  <2> HIDE DEF new
  <2> QED
    BY <2>2, <2>3, CheckFiles
<1>2. CASE RetryCheck(h)
  <2> DEFINE new == [Idle EXCEPT !.pc = "retry"]
  <2>1. new \in ThreadState /\ new.pc = "retry"
    BY StatusTypes DEF Idle, ThreadState, Requesting
  <2>2. Enters(h, new) /\ UNCHANGED <<database, files>>
    BY <1>2 DEF RetryCheck
  <2> HIDE DEF new
  <2> QED
    BY <2>1, <2>2, CheckFiles
<1>3. CASE DeleteCheck(h)
  <2> DEFINE new == [Idle EXCEPT !.pc = "delete", !.key = material.key]
  <2>1. new \in ThreadState /\ new.pc = "delete" /\ new.key = material.key
    BY <1>0, StatusTypes DEF Idle, ThreadState, Requesting, Material
  <2>2. Enters(h, new) /\ UNCHANGED <<database, files>>
    BY <1>3 DEF DeleteCheck
  <2> HIDE DEF new
  <2> QED
    BY <2>1, <2>2, CheckFiles
<1>4. CASE DeleteSessionCheck(h)
  <2> DEFINE new == [Idle EXCEPT !.pc = "delete_session", !.key = material.key]
  <2>1. new \in ThreadState /\ new.pc = "delete_session" /\ new.key = material.key
    BY <1>0, StatusTypes DEF Idle, ThreadState, Requesting, Material
  <2>2. Enters(h, new) /\ UNCHANGED <<database, files>>
    BY <1>4 DEF DeleteSessionCheck
  <2> HIDE DEF new
  <2> QED
    BY <2>1, <2>2, CheckFiles
<1> QED
  BY <1>1, <1>2, <1>3, <1>4 DEF Request

LEMMA ServesFiles ==
    ASSUME TypeInv, TypeInv', FileInv, NEW h \in Handlers, Serve(h) PROVE FileInv'
<1> DEFINE r == threads[h]
           During == ~overlapped => FilesDuring(r)
<1>0. /\ h \in Threads /\ r \in ThreadState /\ material \in Material
      /\ threads \in [Threads -> ThreadState] /\ files \in [Exts -> Versions]
      /\ NoKey \notin Exts /\ Idle.pc = "idle" /\ Idle \in ThreadState
  BY StatusTypes, MaterialsAssumption DEF TypeInv, TypeOK, Idle
<1>1. r.pc \in Requesting
  BY DEF Serve, UploadRefused, UploadSave, UploadLock, UploadLost, UploadStore, UploadStale,
         RetryStore, DeleteStore, DeleteSessionStore, DeleteFile, Requesting
<1>2. h \in Requests
  BY <1>1 DEF Requests
<1>3. ~overlapped => Requests \subseteq {h} /\ FilesDuring(r)
  BY <1>2 DEF FileInv
<1>4. overlapped' = overlapped
  BY DEF Serve, UploadRefused, UploadSave, UploadLock, UploadLost, UploadStore, UploadStale,
         RetryStore, DeleteStore, DeleteSessionStore, DeleteFile
<1>5. \A u \in Threads : u # h => threads'[u] = threads[u]
  BY <1>0 DEF Serve, UploadRefused, UploadSave, UploadLock, UploadLost, UploadStore, UploadStale,
         RetryStore, DeleteStore, DeleteSessionStore, DeleteFile, Becomes
<1>6. ASSUME ~Exists' => material' = NoMaterial,
             ~overlapped => FilesDuring(threads[h])'
      PROVE  FileInv'
  BY <1>3, <1>4, <1>5, <1>6, RequestFiles
<1>7. ASSUME NEW state \in ThreadState, Becomes(h, state)
      PROVE  threads'[h] = state
  BY <1>0, <1>7 DEF Becomes
<1>8. ~Exists => material = NoMaterial /\ material.key = NoKey
  BY DEF FileInv, NoMaterial
<1>9. material' = material /\ ~Exists' => material' = NoMaterial
  BY <1>8 DEF Exists
<1> HIDE DEF r
<1>10. CASE UploadRefused(h)
  <2>1. UNCHANGED <<session, material, files>> /\ threads'[h].pc = "idle" /\ r.pc = "save"
    BY <1>0, <1>7, <1>10 DEF UploadRefused, database, r
  <2>2. ~overlapped => FilesDuring(threads[h])'
    BY <1>3, <2>1 DEF FilesDuring, FilesAre, OfRow, Exists
  <2> QED
    BY <1>6, <1>9, <2>1, <2>2
<1>11. CASE UploadSave(h)
  <2> DEFINE new == [r EXCEPT !.pc = "lock"]
  <2>1. new \in ThreadState /\ new.pc = "lock" /\ new.key = r.key /\ new.version = r.version
    BY <1>0 DEF ThreadState, Requesting
  <2>2. /\ Becomes(h, new) /\ UNCHANGED <<session, material>> /\ r.pc = "save"
        /\ files' = [files EXCEPT ![r.key] = r.version]
    BY <1>11 DEF UploadSave, database, r
  <2> HIDE DEF new
  <2>3. threads'[h].pc = "lock" /\ threads'[h].key = r.key /\ threads'[h].version = r.version
    BY <1>7, <2>1, <2>2
  <2>4. ~overlapped => FilesAre(OfRow) /\ session /\ r.version # 0
    BY <1>3, <2>2 DEF FilesDuring
  <2>5. OfRow' = OfRow /\ \A e \in Exts : files'[e] = IF e = r.key THEN r.version ELSE files[e]
    BY <1>0, <2>2 DEF OfRow, Exists
  <2>6. ~overlapped => \A e \in Exts : (files'[e] # 0) = (e \in OfRow' \cup {threads'[h].key})
    BY <2>3, <2>4, <2>5 DEF FilesAre
  <2>7. ~overlapped => FilesDuring(threads[h])'
    BY <2>2, <2>3, <2>4, <2>6 DEF FilesDuring, FilesAre
  <2> QED
    BY <1>6, <1>9, <2>2, <2>7
<1>12. CASE UploadLock(h)
  <2> DEFINE new == [r EXCEPT !.pc = "store", !.seen = material]
  <2>1. new \in ThreadState /\ new.pc = "store" /\ new.key = r.key /\ new.seen = material
    BY <1>0 DEF ThreadState, Requesting
  <2>2. /\ Becomes(h, new) /\ UNCHANGED <<session, material>> /\ r.pc = "lock"
        /\ files' = IF material.key = r.key THEN files ELSE Without(material.key)
    BY <1>12 DEF UploadLock, r
  <2> HIDE DEF new
  <2>3. threads'[h].pc = "store" /\ threads'[h].key = r.key /\ threads'[h].seen = material
    BY <1>7, <2>1, <2>2
  <2>4. ~overlapped => FilesAre(OfRow \cup {r.key})
    BY <1>3, <2>2 DEF FilesDuring
  <2>5. r.key \in Exts
    BY <1>0, <2>2 DEF TypeInv, ThreadsNamed, r
  <2>6. \A e \in Exts : files'[e] = IF material.key # r.key /\ e = material.key THEN 0 ELSE files[e]
    BY <2>2 DEF Without
  <2>7. ~overlapped => \A e \in Exts : (files'[e] # 0) = (e \in {threads'[h].key})
    BY <1>0, <1>8, <2>3, <2>4, <2>5, <2>6 DEF FilesAre, OfRow
  <2>8. ~overlapped => FilesDuring(threads[h])'
    BY <1>8, <2>2, <2>3, <2>7 DEF FilesDuring, FilesAre, Exists
  <2> QED
    BY <1>6, <1>9, <2>2, <2>8
<1>13. CASE UploadLost(h)
  <2>1. ~session /\ r.pc = "lock" /\ material' = material
    BY <1>13 DEF UploadLost, database, r
  <2>2. overlapped
    BY <1>3, <2>1 DEF FilesDuring
  <2> QED
    BY <1>6, <1>9, <2>1, <2>2
<1>14. CASE UploadStore(h)
  <2> DEFINE new == [Idle EXCEPT !.pc = "waiting"]
  <2>1. new \in ThreadState /\ new.pc = "waiting"
    BY <1>0 DEF ThreadState, Idle, Working
  <2>2. /\ Becomes(h, new) /\ files' = files /\ r.pc = "store"
        /\ material' = [status |-> Write(r.seen.status, "queued", material.status),
                        key    |-> Write(r.seen.key, r.key, material.key),
                        slides |-> Write(r.seen.slides, 0, material.slides)]
        /\ r.seen = NoMaterial \/ Exists
    BY <1>14 DEF UploadStore, r
  <2> HIDE DEF new
  <2>3. threads'[h].pc = "waiting"
    BY <1>7, <2>1, <2>2
  <2>4. ~overlapped => FilesAre({r.key}) /\ r.seen.key = material.key
    BY <1>3, <2>2 DEF FilesDuring
  <2>5. Exists'
    BY <1>0, <2>2 DEF Exists, Write, NoMaterial
  <2>6. ~overlapped => material'.key = r.key
    BY <2>2, <2>4 DEF Write
  <2>7. ~overlapped => \A e \in Exts : (files'[e] # 0) = (e \in OfRow')
    BY <2>2, <2>4, <2>5, <2>6 DEF FilesAre, OfRow
  <2>8. ~overlapped => FilesDuring(threads[h])'
    BY <2>3, <2>7 DEF FilesDuring, FilesAre
  <2> QED
    BY <1>6, <2>5, <2>8
<1>15. CASE UploadStale(h)
  <2>1. r.seen # NoMaterial /\ ~Exists /\ r.pc = "store" /\ material' = material
    BY <1>15 DEF UploadStale, r
  <2>2. overlapped
    BY <1>3, <2>1 DEF FilesDuring
  <2> QED
    BY <1>6, <1>9, <2>1, <2>2
<1>16. CASE RetryStore(h)
  <2>1. /\ threads'[h].pc \in {"waiting", "idle"} /\ r.pc = "retry"
        /\ UNCHANGED <<session, files>>
        /\ material'.key = material.key /\ (Exists' <=> Exists)
        /\ ~Exists => material' = material
    BY <1>0, <1>16 DEF RetryStore, Becomes, Idle, r, Exists, Material
  <2>2. OfRow' = OfRow
    BY <2>1 DEF OfRow
  <2>3. ~overlapped => FilesDuring(threads[h])'
    BY <1>3, <2>1, <2>2 DEF FilesDuring, FilesAre
  <2> QED
    BY <1>6, <1>8, <2>1, <2>3
<1>17. CASE DeleteStore(h) \/ DeleteSessionStore(h)
  <2> DEFINE new == [r EXCEPT !.pc = "unlink"]
  <2>1. new \in ThreadState /\ new.pc = "unlink" /\ new.key = r.key
    BY <1>0 DEF ThreadState, Requesting
  <2>2. /\ Becomes(h, new) /\ files' = files /\ material' = NoMaterial
        /\ r.pc \in {"delete", "delete_session"}
    BY <1>17 DEF DeleteStore, DeleteSessionStore, r
  <2> HIDE DEF new
  <2>3. threads'[h].pc = "unlink" /\ threads'[h].key = r.key
    BY <1>7, <2>1, <2>2
  <2>4. ~Exists'
    BY <2>2 DEF Exists, NoMaterial
  <2>5. ~overlapped => \A e \in Exts : files'[e] # 0 => e = threads'[h].key
    BY <1>3, <2>2, <2>3 DEF FilesDuring, FilesAre, OfRow
  <2>6. ~overlapped => FilesDuring(threads[h])'
    BY <2>3, <2>4, <2>5 DEF FilesDuring
  <2> QED
    BY <1>6, <2>2, <2>6
<1>18. CASE DeleteFile(h)
  <2>1. /\ threads'[h].pc = "idle" /\ r.pc = "unlink" /\ material' = material
        /\ \A e \in Exts : files'[e] = IF e = r.key THEN 0 ELSE files[e]
    BY <1>0, <1>7, <1>18 DEF DeleteFile, Without, database, r
  <2>2. ~overlapped => ~Exists' /\ \A e \in Exts : files'[e] = 0
    BY <1>3, <2>1 DEF FilesDuring, Exists
  <2>3. ~overlapped => FilesDuring(threads[h])'
    BY <2>1, <2>2 DEF FilesDuring, FilesAre, OfRow
  <2> QED
    BY <1>6, <1>9, <2>1, <2>3
<1> QED
  BY <1>10, <1>11, <1>12, <1>13, <1>14, <1>15, <1>16, <1>17, <1>18 DEF Serve

(* A parse job touches neither the files nor what the row says of them.    *)
LEMMA ParseFiles ==
    ASSUME TypeInv, FileInv, NEW t \in Threads, RunParse(t) PROVE FileInv'
<1>0. /\ threads \in [Threads -> ThreadState] /\ material \in Material
      /\ Handlers \subseteq Threads
  BY StatusTypes DEF TypeInv, TypeOK
<1>1. UNCHANGED <<session, files, overlapped>>
  BY DEF RunParse, Begin, Mark, Load, Finish, Fail, database
<1>2. material'.key = material.key /\ (Exists' <=> Exists) /\ (~Exists => material' = material)
  BY <1>0 DEF RunParse, Begin, Mark, Load, Finish, Fail, database, Exists, Material, Write
<1>3. threads[t].pc \notin Requesting
  BY DEF RunParse, Begin, Mark, Load, Finish, Fail, Requesting
<1>4. threads'[t].pc \notin Requesting
  <2>1. Begin(t) => threads'[t].pc \in {"mark", "idle"}
    BY <1>0 DEF Begin, Becomes, Idle
  <2>2. Mark(t) => threads'[t].pc \in {"load", "idle"}
    BY <1>0 DEF Mark, Becomes, Idle, ThreadState
  <2>3. ASSUME Load(t) PROVE threads'[t].pc \in {"finish", "fail"}
    <3> DEFINE done   == [threads[t] EXCEPT !.pc = "finish", !.version = files[threads[t].seen.key]]
               failed == [threads[t] EXCEPT !.pc = "fail"]
    <3>1. done.pc = "finish" /\ failed.pc = "fail"
      BY <1>0 DEF ThreadState
    <3>2. Becomes(t, done) \/ Becomes(t, failed)
      BY <2>3 DEF Load
    <3> HIDE DEF done, failed
    <3> QED
      BY <1>0, <3>1, <3>2 DEF Becomes
  <2>4. Finish(t) \/ Fail(t) => threads'[t].pc = "idle"
    BY <1>0 DEF Finish, Fail, Becomes, Idle
  <2> QED
    BY <2>1, <2>2, <2>3, <2>4 DEF RunParse, Requesting
<1>5. \A u \in Threads : u # t => threads'[u] = threads[u]
  BY <1>0 DEF RunParse, Begin, Mark, Load, Finish, Fail, Becomes
<1>6. Requests' = Requests /\ \A h \in Requests : threads'[h] = threads[h]
  BY <1>0, <1>3, <1>4, <1>5 DEF Requests
<1>7. OfRow' = OfRow
  BY <1>2 DEF OfRow
<1>8. ASSUME NEW h \in Requests, FilesDuring(threads[h]) PROVE FilesDuring(threads[h])'
  BY <1>1, <1>2, <1>6, <1>7, <1>8 DEF FilesDuring, FilesAre
<1>9. FilesAre(OfRow) => FilesAre(OfRow)'
  BY <1>1, <1>7 DEF FilesAre
<1> QED
  BY <1>1, <1>2, <1>6, <1>8, <1>9 DEF FileInv

LEMMA StepFiles == TypeInv /\ TypeInv' /\ FileInv /\ [Next]_vars => FileInv'
<1> SUFFICES ASSUME TypeInv, TypeInv', FileInv, [Next]_vars PROVE FileInv'
  OBVIOUS
<1>1. CASE UNCHANGED vars
  BY <1>1 DEF vars, database, FileInv, Requests, FilesDuring, FilesAre, OfRow, Exists
<1>2. CASE Restart
  <2>1. UNCHANGED <<material, files>> /\ (~overlapped' => ~overlapped /\ Requests = {})
    BY <1>2 DEF Restart
  <2>2. Requests' = {}
    BY <1>2, StatusTypes DEF Restart, Requests, Idle, Requesting
  <2> QED
    BY <2>1, <2>2 DEF FileInv, FilesAre, OfRow, Exists
<1> QED
  BY <1>1, <1>2, ChecksFiles, ServesFiles, ParseFiles DEF Next

(* As long as no request meets another or a restart, every one leaves      *)
(* storage as the row describes it, whatever parse jobs run meanwhile      *)
(* (upload_material, delete_material, delete_session).                     *)
THEOREM StorageMatchesRow == Spec => []FileOfRow
<1> DEFINE Inv == TypeInv /\ FileInv
<1>1. Init => Inv
  <2>1. Init => Requests = {} /\ FilesAre(OfRow)
    BY StatusTypes DEF Init, Requests, Idle, Requesting, FilesAre, OfRow, Exists, NoMaterial
  <2> QED
    BY <2>1, InitTypeInv DEF Init, FileInv
<1>2. Inv /\ [Next]_vars => Inv'
  BY StepTypeInv, StepFiles
<1>3. Inv => FileOfRow
  BY DEF FileInv, FileOfRow, FilesAre, OfRow
<1> HIDE DEF Inv
<1> QED
  BY <1>1, <1>2, <1>3, PTL DEF Spec
=============================================================================
