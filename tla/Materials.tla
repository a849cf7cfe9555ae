----------------------------- MODULE Materials ------------------------------
(***************************************************************************)
(* The slides of a session: upload, replacement, retry and deletion of the *)
(* material, its background parse, the restart, and the deletion of the    *)
(* session around all of it (api/routes/materials.py, delete_session of    *)
(* api/routes/sessions.py, services/storage_cleanup.py, core/storage.py).  *)
(*                                                                         *)
(* A version is one uploaded file; a stored file and the slides of the row *)
(* are the version they hold, 0 being no file, or NULL. An upload goes on  *)
(* as the parse job it started: a thread is a request first, then a job.   *)
(***************************************************************************)
EXTENDS Backend

CONSTANTS
    Handlers,     \* request threads
    Exts,         \* formats: a storage key each
    MaxVersions,  \* bound: uploads
    MaxCrashes    \* bound: server restarts

NoKey    == "null"

ASSUME MaterialsAssumption ==
    /\ NoKey \notin Handlers \cup Exts
    /\ MaxVersions \in Nat
    /\ MaxCrashes \in Nat

Threads  == Handlers \cup {"recovery"}
Versions == 0 .. MaxVersions

Material == [status : {"absent", "queued", "processing", "ready", "failed"},
             key    : Exts \cup {NoKey},
             slides : Versions]

NoMaterial == [status |-> "absent", key |-> NoKey, slides |-> 0]

VARIABLES
    session,     \* the sessions row exists
    lock,        \* the thread that holds it FOR UPDATE
    material,    \* the materials row
    files,       \* material.{ext} in storage
    threads,     \* requests and jobs
    uploads,     \* versions so far
    crashes,     \* restarts so far
    overlapped   \* history: a request met another one, or a restart

database == <<session, lock, material>>
vars     == <<database, files, threads, uploads, crashes, overlapped>>

Idle == [pc |-> "idle", key |-> NoKey, version |-> 0, seen |-> NoMaterial]

Requesting == {"save", "lock", "store", "retry", "delete", "delete_session", "unlink"}
Working    == {"waiting", "mark", "load", "finish", "fail"}

ThreadState ==
    [pc      : {"idle"} \cup Requesting \cup Working,
     key     : Exts \cup {NoKey},
     version : Versions,            \* uploaded, or parsed
     seen    : Material]            \* the row as this database session has it

TypeOK ==
    /\ session \in BOOLEAN
    /\ lock \in Handlers \cup {NoKey}
    /\ material \in Material
    /\ files \in [Exts -> Versions]
    /\ threads \in [Threads -> ThreadState]
    /\ uploads \in Versions
    /\ crashes \in 0 .. MaxCrashes
    /\ overlapped \in BOOLEAN
    /\ material.status # "absent" => session /\ material.key \in Exts

Init ==
    /\ session = TRUE
    /\ lock = NoKey
    /\ material = NoMaterial
    /\ files = [e \in Exts |-> 0]
    /\ threads = [t \in Threads |-> Idle]
    /\ uploads = 0
    /\ crashes = 0
    /\ overlapped = FALSE

Exists == material.status # "absent"

Becomes(t, state) == threads' = [threads EXCEPT ![t] = state]

Requests == {h \in Handlers : threads[h].pc \in Requesting}

(* require_session_owner lets the request in.                              *)
Enters(h, state) ==
    /\ threads[h] = Idle
    /\ session
    /\ Becomes(h, state)
    /\ overlapped' = (overlapped \/ Requests # {})

-----------------------------------------------------------------------------
(* POST /material                                                          *)

UploadCheck(h, ext) ==
    /\ uploads < MaxVersions
    /\ uploads' = uploads + 1
    /\ Enters(h, [Idle EXCEPT !.pc = "save", !.key = ext, !.version = uploads'])
    /\ UNCHANGED <<database, files, crashes>>

(* Too large or empty: the temporary file is removed, nothing is changed.  *)
UploadRefused(h) ==
    /\ threads[h].pc = "save"
    /\ Becomes(h, Idle)
    /\ UNCHANGED <<database, files, uploads, crashes, overlapped>>

(* save_stream renames the complete file over the one of this format.      *)
UploadSave(h) ==
    /\ threads[h].pc = "save"
    /\ files' = [files EXCEPT ![threads[h].key] = threads[h].version]
    /\ Becomes(h, [threads[h] EXCEPT !.pc = "lock"])
    /\ UNCHANGED <<database, uploads, crashes, overlapped>>

Without(key) == [e \in Exts |-> IF e = key THEN 0 ELSE files[e]]

(* Mutant: the file of the former format stays.                            *)
UploadLock_KeepsFormer(h) ==
    /\ threads[h].pc = "lock"
    /\ session /\ lock = NoKey
    /\ lock' = h
    /\ Becomes(h, [threads[h] EXCEPT !.pc = "store", !.seen = material])
    /\ UNCHANGED <<session, material, files, uploads, crashes, overlapped>>

(* The session row is locked, the material read, and the file of a former  *)
(* format deleted, before the commit.                                      *)
UploadLock(h) ==
    /\ threads[h].pc = "lock"
    /\ session /\ lock = NoKey
    /\ lock' = h
    /\ files' = IF material.key = threads[h].key THEN files ELSE Without(material.key)
    /\ Becomes(h, [threads[h] EXCEPT !.pc = "store", !.seen = material])
    /\ UNCHANGED <<session, material, uploads, crashes, overlapped>>

(* The session is gone: the refresh raises.                                *)
UploadLost(h) ==
    /\ threads[h].pc = "lock"
    /\ ~session
    /\ Becomes(h, Idle)
    /\ UNCHANGED <<database, files, uploads, crashes, overlapped>>

(* The commit inserts the row, or updates what differs from the row read;  *)
(* the response is sent and the parse job begins.                          *)
UploadStore(h) ==
    LET seen == threads[h].seen IN
    /\ threads[h].pc = "store"
    /\ seen = NoMaterial \/ Exists
    /\ material' = [status |-> Write(seen.status, "queued", material.status),
                    key    |-> Write(seen.key, threads[h].key, material.key),
                    slides |-> Write(seen.slides, 0, material.slides)]
    /\ lock' = NoKey
    /\ Becomes(h, [Idle EXCEPT !.pc = "waiting"])
    /\ UNCHANGED <<session, files, uploads, crashes, overlapped>>

(* The material was deleted after it was read: the update finds no row.    *)
UploadStale(h) ==
    /\ threads[h].pc = "store"
    /\ threads[h].seen # NoMaterial /\ ~Exists
    /\ lock' = NoKey
    /\ Becomes(h, Idle)
    /\ UNCHANGED <<session, material, files, uploads, crashes, overlapped>>

-----------------------------------------------------------------------------
(* POST /material/retry, of a failed material only.                        *)

RetryCheck(h) ==
    /\ material.status = "failed"
    /\ Enters(h, [Idle EXCEPT !.pc = "retry"])
    /\ UNCHANGED <<database, files, uploads, crashes>>

RetryStore(h) ==
    /\ threads[h].pc = "retry"
    /\ material' = IF Exists THEN [material EXCEPT !.status = "queued"] ELSE material
    /\ Becomes(h, IF Exists THEN [Idle EXCEPT !.pc = "waiting"] ELSE Idle)
    /\ UNCHANGED <<session, lock, files, uploads, crashes, overlapped>>

-----------------------------------------------------------------------------
(* DELETE /material and DELETE /sessions/{id}: the storage key is read,    *)
(* the rows are deleted in a commit, then the file.                        *)

DeleteCheck(h) ==
    /\ Exists
    /\ Enters(h, [Idle EXCEPT !.pc = "delete", !.key = material.key])
    /\ UNCHANGED <<database, files, uploads, crashes>>

DeleteStore(h) ==
    /\ threads[h].pc = "delete"
    /\ material' = NoMaterial
    /\ Becomes(h, [threads[h] EXCEPT !.pc = "unlink"])
    /\ UNCHANGED <<session, lock, files, uploads, crashes, overlapped>>

(* session_storage_keys lists the keys of the rows there are now.          *)
DeleteSessionCheck(h) ==
    /\ Enters(h, [Idle EXCEPT !.pc = "delete_session", !.key = material.key])
    /\ UNCHANGED <<database, files, uploads, crashes>>

(* Mutant: no ON DELETE CASCADE.                                           *)
DeleteSessionStore_NoCascade(h) ==
    /\ threads[h].pc = "delete_session"
    /\ lock = NoKey
    /\ session' = FALSE
    /\ Becomes(h, [threads[h] EXCEPT !.pc = "unlink"])
    /\ UNCHANGED <<lock, material, files, uploads, crashes, overlapped>>

(* Waits for an upload that has locked the session.                        *)
DeleteSessionStore(h) ==
    /\ threads[h].pc = "delete_session"
    /\ lock = NoKey
    /\ session' = FALSE
    /\ material' = NoMaterial
    /\ Becomes(h, [threads[h] EXCEPT !.pc = "unlink"])
    /\ UNCHANGED <<lock, files, uploads, crashes, overlapped>>

DeleteFile(h) ==
    /\ threads[h].pc = "unlink"
    /\ files' = Without(threads[h].key)
    /\ Becomes(h, Idle)
    /\ UNCHANGED <<database, uploads, crashes, overlapped>>

-----------------------------------------------------------------------------
(* _run_parse on the thread t.                                             *)

Begin(t) ==
    /\ threads[t].pc = "waiting"
    /\ Becomes(t, IF Exists THEN [Idle EXCEPT !.pc = "mark", !.seen = material] ELSE Idle)
    /\ UNCHANGED <<database, files, uploads, crashes, overlapped>>

(* An update of a row that is gone raises, and ends the job.               *)
Mark(t) ==
    LET read == threads[t].seen.status IN
    /\ threads[t].pc = "mark"
    /\ material' = IF Exists
                   THEN [material EXCEPT !.status = Write(read, "processing", @)]
                   ELSE material
    /\ Becomes(t, IF Exists \/ read = "processing"
                  THEN [threads[t] EXCEPT !.pc = "load", !.seen.status = "processing"]
                  ELSE Idle)
    /\ UNCHANGED <<session, lock, files, uploads, crashes, overlapped>>

(* The file of the key that was read, as it is now; it may be missing, and *)
(* parsing it may fail.                                                    *)
Load(t) ==
    LET found == files[threads[t].seen.key] IN
    /\ threads[t].pc = "load"
    /\ \/ /\ found # 0
          /\ Becomes(t, [threads[t] EXCEPT !.pc = "finish", !.version = found])
       \/ Becomes(t, [threads[t] EXCEPT !.pc = "fail"])
    /\ UNCHANGED <<database, files, uploads, crashes, overlapped>>

Finish(t) ==
    /\ threads[t].pc = "finish"
    /\ material' = IF Exists
                   THEN [material EXCEPT
                           !.status = "ready",
                           !.slides = Write(threads[t].seen.slides, threads[t].version, @)]
                   ELSE material
    /\ Becomes(t, Idle)
    /\ UNCHANGED <<session, lock, files, uploads, crashes, overlapped>>

(* Mutant: only the exceptions of the parser are absorbed.                 *)
Fail_Uncaught(t) ==
    /\ threads[t].pc = "fail"
    /\ Becomes(t, Idle)
    /\ UNCHANGED <<database, files, uploads, crashes, overlapped>>

Fail(t) ==
    /\ threads[t].pc = "fail"
    /\ material' = IF Exists THEN [material EXCEPT !.status = "failed"] ELSE material
    /\ Becomes(t, Idle)
    /\ UNCHANGED <<session, lock, files, uploads, crashes, overlapped>>

-----------------------------------------------------------------------------
(* A restart: recover() runs the job of an unfinished material again.      *)

(* Mutant: only the jobs that had not begun.                               *)
Unfinished_Queued == material.status = "queued"

Unfinished == material.status \in {"queued", "processing"}

Restart ==
    /\ crashes < MaxCrashes
    /\ crashes' = crashes + 1
    /\ lock' = NoKey
    /\ threads' = [t \in Threads |-> IF t = "recovery" /\ Unfinished
                                     THEN [Idle EXCEPT !.pc = "waiting"] ELSE Idle]
    /\ overlapped' = (overlapped \/ Requests # {})
    /\ UNCHANGED <<session, material, files, uploads>>

-----------------------------------------------------------------------------
Request(h) ==
    \/ \E ext \in Exts : UploadCheck(h, ext)
    \/ RetryCheck(h) \/ DeleteCheck(h) \/ DeleteSessionCheck(h)

Serve(h) ==
    \/ UploadRefused(h) \/ UploadSave(h) \/ UploadLock(h) \/ UploadLost(h)
    \/ UploadStore(h) \/ UploadStale(h)
    \/ RetryStore(h)
    \/ DeleteStore(h) \/ DeleteSessionStore(h) \/ DeleteFile(h)

RunParse(t) == Begin(t) \/ Mark(t) \/ Load(t) \/ Finish(t) \/ Fail(t)

Next ==
    \/ \E h \in Handlers : Request(h) \/ Serve(h)
    \/ \E t \in Threads : RunParse(t)
    \/ Restart

(* An accepted request and its job run to their end: the parsers read a    *)
(* finite file, the lock is held for one commit.                           *)
Fairness == \A t \in Threads : WF_vars(RunParse(t)) /\ (t \in Handlers => WF_vars(Serve(t)))

Spec     == Init /\ [][Next]_vars
FairSpec == Spec /\ Fairness

-----------------------------------------------------------------------------
(* Properties.                                                             *)

HasJob == \E t \in Threads : threads[t].pc \in Working

Job == INSTANCE AsyncJob WITH
           Rows    <- {"material"},
           status  <- [r \in {"material"} |-> material.status],
           pending <- {r \in {"material"} : HasJob}

(* A client that polls GET /material is kept its promise: uploads and      *)
(* retries queue the row, only a parse job moves it on, and it is never    *)
(* queued or processing without one, whatever is replaced, deleted or      *)
(* restarted meanwhile ("the job never throws", _run_parse).               *)
MaterialPolled == Job!Spec

(* It becomes ready or failed, or is deleted (the retry takes failed only, *)
(* so a row that stayed would be lost: recover()).                         *)
MaterialSettles == Job!Settles

(* Requests that did not meet leave storage as the rows describe it: the   *)
(* file of the row and no other, and no file without a row, although files *)
(* are deleted before one commit and after two others, whatever parse jobs *)
(* of former versions still run.                                           *)
FileOfRow ==
    ~overlapped /\ Requests = {} =>
        \A e \in Exts : (files[e] # 0) = (Exists /\ material.key = e)

-----------------------------------------------------------------------------
(* The inductive invariant behind TypeOK: a thread that is busy with a     *)
(* file names it, and the one about to store an upload holds the session.  *)
ThreadsNamed == \A t \in Threads :
    /\ threads[t].pc \in {"save", "lock", "store"} => threads[t].key \in Exts
    /\ threads[t].pc \in {"mark", "load"} => threads[t].seen.key \in Exts
    /\ threads[t].pc = "store" => session /\ lock = t

TypeInv == TypeOK /\ ThreadsNamed

-----------------------------------------------------------------------------
(* What FileOfRow rests on: a request that meets no other finds storage as *)
(* the row describes it, and knows at each step what it has changed of it. *)
FilesAre(exts) == \A e \in Exts : (files[e] # 0) = (e \in exts)

OfRow == {e \in Exts : Exists /\ material.key = e}

FilesDuring(r) ==
    /\ r.pc \notin {"lock", "store", "unlink"} => FilesAre(OfRow)
    /\ r.pc \in {"save", "lock"} => session /\ r.version # 0
    /\ r.pc = "lock" => FilesAre(OfRow \cup {r.key})
    /\ r.pc = "store" => /\ FilesAre({r.key})
                         /\ r.seen.key = material.key
                         /\ r.seen = NoMaterial \/ Exists
    /\ r.pc \in {"delete", "delete_session"} => r.key = material.key
    /\ r.pc = "unlink" => ~Exists /\ \A e \in Exts : files[e] # 0 => e = r.key

FileInv ==
    /\ ~Exists => material = NoMaterial
    /\ ~overlapped =>
          /\ \A g, h \in Requests : g = h
          /\ \A h \in Requests : FilesDuring(threads[h])
          /\ Requests = {} => FilesAre(OfRow)
=============================================================================
