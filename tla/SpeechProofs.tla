---------------------------- MODULE SpeechProofs ----------------------------
(***************************************************************************)
(* Proofs about Speech, for every set of sessions and questions, every     *)
(* choice of the refused ones and any number of retries and restarts: its  *)
(* types, that only what the server answers of a voice costs a persona its *)
(* own, and that it implements AsyncJob.                                   *)
(***************************************************************************)
EXTENDS Speech, TLAPS

Statuses == {"absent", "queued", "processing", "ready", "failed"}

(* What a thread carries, by where it is.                                  *)
Working == {"post", "save", "ready", "failed"}

Shape(r) ==
    /\ r.pc \notin Working => r.q = {}
    /\ r.pc \in {"idle", "list"} => r.todo = {}
    /\ r.pc \in Working => \E q \in Questions : r.q = {q}

(* While the server starts, it has no recovery thread yet.                 *)
CarriedInv ==
    /\ \A t \in Threads : Shape(threads[t])
    /\ starting => threads["recovery"] = Idle

LEMMA ThreadNames ==
    /\ Sessions \subseteq Threads /\ {"worker", "recovery"} \subseteq Threads
    /\ \A s \in Sessions : s # "worker" /\ s # "recovery"
  BY SpeechAssumption DEF Threads

LEMMA Numbers ==
    /\ 0 \in 0 .. MAX_RETRIES /\ 0 \in 0 .. MaxCrashes
    /\ (crashes \in 0 .. MaxCrashes /\ crashes < MaxCrashes) => crashes + 1 \in 0 .. MaxCrashes
    /\ \A n \in 0 .. MAX_RETRIES : n < MAX_RETRIES => n + 1 \in 0 .. MAX_RETRIES
<1>1. MAX_RETRIES \in Nat /\ MaxCrashes \in Nat
  BY SpeechAssumption
<1> QED
  BY <1>1

LEMMA IdleIs ==
    /\ Idle \in ThreadState /\ Shape(Idle)
    /\ Idle.pc = "idle" /\ Idle.left = {} /\ Idle.todo = {} /\ Idle.q = {}
    /\ Idle.voice = NoVoice /\ NoVoice # "default"
  BY Numbers DEF Idle, ThreadState, NoVoice, Shape, Working

LEMMA ProceedsIs ==
    ASSUME NEW left \in SUBSET Sessions, NEW todo \in SUBSET Questions
    PROVE  LET new == Proceeds(left, todo) IN
           /\ new \in ThreadState /\ Shape(new)
           /\ new.pc \in {"idle", "list", "next"}
           /\ new.left = left /\ new.todo = todo /\ new.q = {} /\ new.voice = NoVoice
<1> DEFINE pc  == IF todo # {} THEN "next" ELSE IF left # {} THEN "list" ELSE "idle"
           new == [Idle EXCEPT !.pc = pc, !.left = left, !.todo = todo]
<1>1. pc \in {"idle", "list", "next"} /\ (pc \in {"idle", "list"} => todo = {})
  OBVIOUS
<1> HIDE DEF pc
<1>2. /\ new \in ThreadState /\ new.pc = pc
      /\ new.left = left /\ new.todo = todo /\ new.q = {} /\ new.voice = NoVoice
  BY <1>1, IdleIs DEF ThreadState
<1>3. Proceeds(left, todo) = new
  BY DEF Proceeds, pc
<1> HIDE DEF new
<1>4. Shape(new)
  BY <1>1, <1>2 DEF Shape, Working
<1> QED
  BY <1>1, <1>2, <1>3, <1>4

LEMMA GoesIs ==
    ASSUME TypeOK, NEW t \in Threads, NEW state \in ThreadState, Goes(t, state)
    PROVE  /\ threads' \in [Threads -> ThreadState]
           /\ \A u \in Threads : threads'[u] = IF u = t THEN state ELSE threads[u]
  BY DEF Goes, TypeOK

LEMMA SetsIs ==
    ASSUME TypeOK, NEW S, NEW status \in Statuses, Sets(S, status)
    PROVE  /\ tts' \in [Questions -> Statuses]
           /\ \A q \in Questions : tts'[q] = IF q \in S THEN status ELSE tts[q]
  BY DEF Sets, TypeOK, Statuses

LEMMA CarriedTypes ==
    ASSUME TypeOK
    PROVE  /\ \A S : Queued(S) \subseteq Questions
           /\ \A t \in Threads : /\ threads[t] \in ThreadState
                                 /\ Carried(threads[t]) \subseteq Questions
                                 /\ threads[t].left \subseteq Sessions
                                 /\ threads[t].todo \subseteq Questions
                                 /\ threads[t].q \subseteq Questions
           /\ lost \subseteq Questions
<1>1. \A S : Queued(S) \subseteq Questions
  BY DEF Queued
<1>2. \A t \in Threads : threads[t] \in ThreadState
  BY DEF TypeOK
<1>3. \A t \in Threads : /\ threads[t].left \subseteq Sessions
                         /\ threads[t].todo \subseteq Questions
                         /\ threads[t].q \subseteq Questions
  BY <1>2 DEF ThreadState
<1> QED
  BY <1>1, <1>2, <1>3 DEF Carried, TypeOK

-----------------------------------------------------------------------------
(* What a thread goes on to do, action by action.                          *)

(* A question is at work, and goes on in a state of the same question.     *)
LEMMA RequestSteps ==
    ASSUME TypeOK, CarriedInv, NEW t \in Threads,
           \/ Spoken(t) \/ Rejected(t) \/ Save(t)
           \/ \E transient \in BOOLEAN : Broken(t, transient)
    PROVE  \E new \in ThreadState :
              /\ Goes(t, new) /\ Shape(new) /\ threads[t].pc \in {"post", "save"}
              /\ new.left = threads[t].left /\ new.todo = threads[t].todo
              /\ new.q = threads[t].q
              /\ UNCHANGED <<sessions, tts, starting, lost>>
<1>0. threads[t] \in ThreadState /\ Shape(threads[t])
  BY DEF TypeOK, CarriedInv
<1>1. ASSUME NEW new \in ThreadState, new.pc \in Working, Goes(t, new),
             threads[t].pc \in {"post", "save"},
             new.left = threads[t].left, new.todo = threads[t].todo, new.q = threads[t].q,
             UNCHANGED <<sessions, tts, starting, lost>>
      PROVE  \E x \in ThreadState :
                /\ Goes(t, x) /\ Shape(x) /\ threads[t].pc \in {"post", "save"}
                /\ x.left = threads[t].left /\ x.todo = threads[t].todo /\ x.q = threads[t].q
                /\ UNCHANGED <<sessions, tts, starting, lost>>
  <2>1. Shape(new)
    BY <1>0, <1>1 DEF Shape, Working
  <2> QED
    BY <1>1, <2>1
<1> DEFINE failed == Failed(threads[t])
<1>2. /\ failed \in ThreadState /\ failed.pc \in Working
      /\ failed.left = threads[t].left /\ failed.todo = threads[t].todo /\ failed.q = threads[t].q
  BY <1>0, Numbers DEF ThreadState, Working, Failed
<1> HIDE DEF failed
<1>3. CASE Spoken(t)
  <2> DEFINE new == [threads[t] EXCEPT !.pc = "save", !.tries = 0]
  <2>1. /\ new \in ThreadState /\ new.pc \in Working
        /\ new.left = threads[t].left /\ new.todo = threads[t].todo /\ new.q = threads[t].q
    BY <1>0, Numbers DEF ThreadState, Working
  <2>2. /\ Goes(t, new) /\ threads[t].pc = "post"
        /\ UNCHANGED <<sessions, tts, starting, lost>>
    BY <1>3 DEF Spoken, At
  <2> HIDE DEF new
  <2> QED
    BY <1>1, <2>1, <2>2
<1>4. CASE Rejected(t)
  <2> DEFINE fall == [threads[t] EXCEPT !.voice = "default", !.tries = 0]
  <2>1. /\ fall \in ThreadState /\ fall.pc = threads[t].pc
        /\ fall.left = threads[t].left /\ fall.todo = threads[t].todo /\ fall.q = threads[t].q
    BY <1>0, Numbers DEF ThreadState, Voices
  <2>2. /\ Goes(t, fall) \/ Goes(t, failed)
        /\ threads[t].pc = "post" /\ "post" \in Working
        /\ UNCHANGED <<sessions, tts, starting, lost>>
    BY <1>4 DEF Rejected, At, Working, failed
  <2> HIDE DEF fall
  <2> QED
    BY <1>1, <1>2, <2>1, <2>2
<1>5. CASE Save(t)
  <2> DEFINE new == [threads[t] EXCEPT !.pc = "ready", !.voice = NoVoice]
  <2>1. /\ new \in ThreadState /\ new.pc \in Working
        /\ new.left = threads[t].left /\ new.todo = threads[t].todo /\ new.q = threads[t].q
    BY <1>0 DEF ThreadState, Working
  <2>2. /\ Goes(t, new) /\ threads[t].pc = "save"
        /\ UNCHANGED <<sessions, tts, starting, lost>>
    BY <1>5 DEF Save, At
  <2> HIDE DEF new
  <2> QED
    BY <1>1, <2>1, <2>2
<1>6. ASSUME NEW transient \in BOOLEAN, Broken(t, transient)
      PROVE  \E x \in ThreadState :
                /\ Goes(t, x) /\ Shape(x) /\ threads[t].pc \in {"post", "save"}
                /\ x.left = threads[t].left /\ x.todo = threads[t].todo /\ x.q = threads[t].q
                /\ UNCHANGED <<sessions, tts, starting, lost>>
  <2> DEFINE again == [threads[t] EXCEPT !.tries = @ + 1]
  <2>1. Retries(threads[t]) => threads[t].tries + 1 \in 0 .. MAX_RETRIES
    <3>1. threads[t].tries \in 0 .. MAX_RETRIES
      BY <1>0 DEF ThreadState
    <3> QED
      BY <3>1, Numbers DEF Retries
  <2>2. Retries(threads[t]) => again \in ThreadState
    BY <1>0, <2>1 DEF ThreadState
  <2>3. /\ again.pc = threads[t].pc /\ again.left = threads[t].left
        /\ again.todo = threads[t].todo /\ again.q = threads[t].q
    BY <1>0 DEF ThreadState
  <2>4. /\ Goes(t, failed) \/ (Goes(t, again) /\ Retries(threads[t]))
        /\ threads[t].pc = "post" /\ "post" \in Working
        /\ UNCHANGED <<sessions, tts, starting, lost>>
    BY <1>6 DEF Broken, At, Working, failed
  <2> HIDE DEF again
  <2> QED
    BY <1>1, <1>2, <2>2, <2>3, <2>4
<1> QED
  BY <1>3, <1>4, <1>5, <1>6

(* A question is begun.                                                    *)
LEMMA BeginSteps ==
    ASSUME TypeOK, CarriedInv, NEW t \in Threads, NEW q \in Questions, Begin(t, q),
           tts[q] # "absent"
    PROVE  /\ q \in threads[t].todo /\ threads[t].q = {}
           /\ Sets({q}, "processing") /\ UNCHANGED <<sessions, starting, lost>>
           /\ \E new \in ThreadState :
                 /\ Goes(t, new) /\ Shape(new) /\ new.pc = "post" /\ new.voice = FirstVoice
                 /\ new.left = threads[t].left /\ new.todo = threads[t].todo \ {q}
                 /\ new.q = {q}
<1>0. threads[t] \in ThreadState /\ Shape(threads[t])
  BY DEF TypeOK, CarriedInv
<1> DEFINE new == [threads[t] EXCEPT !.pc = "post", !.todo = @ \ {q}, !.q = {q}, !.voice = FirstVoice]
<1>1. FirstVoice \in Voices
  BY DEF FirstVoice, Voices
<1>2. /\ new \in ThreadState /\ new.pc = "post" /\ new.voice = FirstVoice
      /\ new.left = threads[t].left /\ new.todo = threads[t].todo \ {q} /\ new.q = {q}
  BY <1>0, <1>1 DEF ThreadState
<1>3. /\ Goes(t, new) /\ threads[t].pc = "next" /\ q \in threads[t].todo
      /\ Sets({q}, "processing") /\ UNCHANGED <<sessions, starting, lost>>
  BY DEF Begin, At
<1> HIDE DEF new
<1>4. Shape(new) /\ threads[t].q = {}
  BY <1>0, <1>2, <1>3 DEF Shape, Working
<1> QED
  BY <1>2, <1>3, <1>4

(* Its end is committed.                                                   *)
LEMMA StoreSteps ==
    ASSUME TypeOK, CarriedInv, NEW t \in Threads, Store(t), \A q \in threads[t].q : tts[q] # "absent"
    PROVE  \E q \in Questions :
              /\ threads[t].q = {q} /\ tts[q] # "absent"
              /\ threads[t].pc \in {"ready", "failed"}
              /\ Sets({q}, threads[t].pc) /\ UNCHANGED <<sessions, starting, lost>>
              /\ Goes(t, Proceeds(threads[t].left, threads[t].todo))
<1>1. Shape(threads[t]) /\ threads[t].pc \in {"ready", "failed"}
  BY DEF CarriedInv, Store
<1>2. PICK q \in Questions : threads[t].q = {q}
  BY <1>1 DEF Shape, Working
<1> QED
  BY <1>1, <1>2 DEF Store, After

(* The ways of a thread: it lists, it dies, or it does one of these.       *)
LEMMA WorkCases ==
    ASSUME NEW t \in Threads, Works(t)
    PROVE  \/ ListQueued(t)
           \/ \/ Spoken(t) \/ Rejected(t) \/ Save(t)
              \/ \E transient \in BOOLEAN : Broken(t, transient)
           \/ Dies(t) /\ UNCHANGED <<sessions, tts, audio, server, starting, crashes>>
           \/ \E q \in Questions : Begin(t, q) /\ tts[q] # "absent"
           \/ Store(t) /\ \A q \in threads[t].q : tts[q] # "absent"
<1>1. CASE Store(t)
  <2>1. CASE \E q \in threads[t].q : tts[q] = "absent"
    BY <1>1, <2>1 DEF Store
  <2>2. CASE \A q \in threads[t].q : tts[q] # "absent"
    BY <1>1, <2>2
  <2> QED
    BY <2>1, <2>2
<1>2. ASSUME NEW q \in Questions, Begin(t, q)
      PROVE  \/ Dies(t) /\ UNCHANGED <<sessions, tts, audio, server, starting, crashes>>
             \/ Begin(t, q) /\ tts[q] # "absent"
  BY <1>2 DEF Begin
<1>3. CASE SaveFails(t)
  BY <1>3 DEF SaveFails
<1> QED
  BY <1>1, <1>2, <1>3 DEF Works

-----------------------------------------------------------------------------
(* Types, and what the threads carry.                                      *)
TypeInv == TypeOK /\ CarriedInv

LEMMA ThreadKeeps ==
    ASSUME TypeInv, NEW t \in Threads, NEW new \in ThreadState, Shape(new), Goes(t, new),
           starting' => starting, starting' => t # "recovery"
    PROVE  threads' \in [Threads -> ThreadState] /\ CarriedInv'
<1>1. /\ threads' \in [Threads -> ThreadState]
      /\ \A u \in Threads : threads'[u] = IF u = t THEN new ELSE threads[u]
  BY GoesIs DEF TypeInv
<1>2. \A u \in Threads : Shape(threads[u])'
  BY <1>1 DEF TypeInv, CarriedInv, Shape
<1>3. "recovery" \in Threads
  BY ThreadNames
<1> QED
  BY <1>1, <1>2, <1>3 DEF TypeInv, CarriedInv

LEMMA WorkTypeInv == ASSUME TypeInv, NEW t \in Threads, Works(t) PROVE TypeInv'
<1>0. threads[t] \in ThreadState /\ Shape(threads[t])
  BY DEF TypeInv, TypeOK, CarriedInv
<1>1. /\ sessions' = sessions /\ crashes' = crashes /\ starting' = starting
      /\ {unavailable, registered, excused}' \subseteq BOOLEAN
      /\ audio' \in [Questions -> Voices \cup {NoVoice}]
      /\ threads[t] # Idle
  <2> USE IdleIs DEF At, server, TypeInv, TypeOK
  <2>1. CASE ListQueued(t)
    BY <2>1, Zenon DEF ListQueued
  <2>2. CASE Spoken(t)
    BY <2>2 DEF Spoken
  <2>3. CASE Rejected(t)
    BY <2>3 DEF Rejected, Cached
  <2>4. CASE Save(t)
    BY <1>0, <2>4 DEF Save, ThreadState
  <2>5. CASE SaveFails(t)
    BY <2>5 DEF SaveFails
  <2>6. CASE Store(t)
    BY <2>6 DEF Store
  <2>7. ASSUME NEW q \in Questions, Begin(t, q)
        PROVE  /\ sessions' = sessions /\ crashes' = crashes /\ starting' = starting
               /\ server' = server /\ audio' = audio /\ threads[t].pc = "next"
    BY <2>7 DEF Begin
  <2>8. ASSUME NEW transient \in BOOLEAN, Broken(t, transient)
        PROVE  /\ sessions' = sessions /\ crashes' = crashes /\ starting' = starting
               /\ server' = server /\ audio' = audio /\ threads[t].pc = "post"
    BY <2>8 DEF Broken
  <2> QED
    BY <2>1, <2>2, <2>3, <2>4, <2>5, <2>6, <2>7, <2>8 DEF Works
<1>2. starting => t # "recovery"
  BY <1>1 DEF TypeInv, CarriedInv
<1>4. ASSUME NEW new \in ThreadState, Shape(new), Goes(t, new),
             lost' \subseteq Questions, tts' \in [Questions -> Statuses]
      PROVE  TypeInv'
  BY <1>1, <1>2, <1>4, ThreadKeeps DEF TypeInv, TypeOK, Statuses
<1>5. lost \subseteq Questions /\ tts \in [Questions -> Statuses]
  BY DEF TypeInv, TypeOK, Statuses
<1>6. CASE ListQueued(t)
  <2>1. PICK s \in threads[t].left :
            /\ Goes(t, Proceeds(threads[t].left \ {s}, Queued({s})))
            /\ lost' = lost \ Queued({s})
    BY <1>6 DEF ListQueued
  <2>2. threads[t].left \ {s} \in SUBSET Sessions /\ Queued({s}) \in SUBSET Questions
    BY CarriedTypes DEF TypeInv
  <2>3. tts' = tts /\ lost' \subseteq Questions
    BY <1>5, <1>6, <2>1 DEF ListQueued
  <2>4. /\ Proceeds(threads[t].left \ {s}, Queued({s})) \in ThreadState
        /\ Shape(Proceeds(threads[t].left \ {s}, Queued({s})))
    BY <2>2, ProceedsIs
  <2> QED
    BY <1>4, <1>5, <2>1, <2>3, <2>4
<1>7. CASE \/ Spoken(t) \/ Rejected(t) \/ Save(t)
           \/ \E transient \in BOOLEAN : Broken(t, transient)
  BY <1>4, <1>5, <1>7, RequestSteps DEF TypeInv
<1>8. CASE Dies(t) /\ UNCHANGED <<sessions, tts, audio, server, starting, crashes>>
  BY <1>4, <1>5, <1>8, IdleIs, CarriedTypes DEF TypeInv, Dies
<1>9. ASSUME NEW q \in Questions, Begin(t, q), tts[q] # "absent" PROVE TypeInv'
  <2>1. tts' \in [Questions -> Statuses]
    BY <1>9, BeginSteps, SetsIs DEF TypeInv, Statuses
  <2> QED
    BY <1>4, <1>5, <1>9, <2>1, BeginSteps DEF TypeInv
<1>10. CASE Store(t) /\ \A q \in threads[t].q : tts[q] # "absent"
  <2>1. PICK q \in Questions :
            /\ threads[t].pc \in {"ready", "failed"}
            /\ Sets({q}, threads[t].pc) /\ UNCHANGED lost
            /\ Goes(t, Proceeds(threads[t].left, threads[t].todo))
    BY <1>10, StoreSteps DEF TypeInv
  <2>2. tts' \in [Questions -> Statuses]
    BY <2>1, SetsIs DEF TypeInv, Statuses
  <2>3. threads[t].left \in SUBSET Sessions /\ threads[t].todo \in SUBSET Questions
    BY CarriedTypes DEF TypeInv
  <2>4. /\ Proceeds(threads[t].left, threads[t].todo) \in ThreadState
        /\ Shape(Proceeds(threads[t].left, threads[t].todo))
    BY <2>3, ProceedsIs
  <2> QED
    BY <1>4, <1>5, <2>1, <2>2, <2>4
<1> QED
  BY <1>6, <1>7, <1>8, <1>9, <1>10, WorkCases

LEMMA RequestTypeInv ==
    ASSUME TypeInv, NEW s \in Sessions,
           \/ Generate(s) \/ DeleteSession(s)
           \/ \E f \in FollowUps \cap Of(s) : FollowUp(s, f)
    PROVE  TypeInv'
<1>0. TypeOK
  BY DEF TypeInv
<1>1. CASE Generate(s)
  <2>1. /\ Sets(Of(s) \cap Primaries, "queued") /\ Goes(s, Proceeds({s}, {})) /\ ~starting
        /\ UNCHANGED <<sessions, audio, server, starting, lost, crashes>>
    BY <1>1 DEF Generate
  <2>2. tts' \in [Questions -> Statuses]
    BY <1>0, <2>1, SetsIs DEF Statuses
  <2>3. Proceeds({s}, {}) \in ThreadState /\ Shape(Proceeds({s}, {}))
    BY ProceedsIs
  <2>4. threads' \in [Threads -> ThreadState] /\ CarriedInv'
    BY <2>1, <2>3, ThreadKeeps, ThreadNames
  <2> QED
    BY <1>0, <2>1, <2>2, <2>4 DEF TypeInv, TypeOK, Statuses, server
<1>2. ASSUME NEW f \in FollowUps \cap Of(s), FollowUp(s, f) PROVE TypeInv'
  <2>1. /\ Sets({f}, "queued") /\ Goes("worker", Proceeds({}, {f}))
        /\ UNCHANGED <<sessions, audio, server, starting, lost, crashes>>
    BY <1>2 DEF FollowUp
  <2>2. tts' \in [Questions -> Statuses]
    BY <1>0, <2>1, SetsIs DEF Statuses
  <2>3. {f} \in SUBSET Questions
    BY DEF Questions
  <2>4. Proceeds({}, {f}) \in ThreadState /\ Shape(Proceeds({}, {f}))
    BY <2>3, ProceedsIs
  <2>5. threads' \in [Threads -> ThreadState] /\ CarriedInv'
    BY <2>1, <2>4, ThreadKeeps, ThreadNames
  <2> QED
    BY <1>0, <2>1, <2>2, <2>5 DEF TypeInv, TypeOK, Statuses, server
<1>3. CASE DeleteSession(s)
  <2>1. /\ Sets(Of(s), "absent") /\ sessions' \subseteq sessions
        /\ UNCHANGED <<audio, threads, server, starting, lost, crashes>>
    BY <1>3 DEF DeleteSession
  <2>2. tts' \in [Questions -> Statuses]
    BY <1>0, <2>1, SetsIs DEF Statuses
  <2> QED
    BY <1>0, <2>1, <2>2 DEF TypeInv, TypeOK, Statuses, server, CarriedInv, Shape
<1> QED
  BY <1>1, <1>2, <1>3

LEMMA ServerTypeInv == ASSUME TypeInv, Restart \/ RecoverTts \/ Register PROVE TypeInv'
<1>0. TypeOK /\ "recovery" \in Threads
  BY ThreadNames DEF TypeInv
<1>1. CASE Restart
  <2>1. threads' = [t \in Threads |-> Idle] /\ lost' = {}
        /\ UNCHANGED <<sessions, tts, audio, registered, excused>>
        /\ unavailable' = FALSE /\ starting' = TRUE
    BY <1>1 DEF Restart
  <2>2. crashes' \in 0 .. MaxCrashes
    BY <1>0, <1>1, Numbers DEF Restart, TypeOK
  <2>3. threads' \in [Threads -> ThreadState] /\ CarriedInv'
    BY <1>0, <2>1, IdleIs DEF CarriedInv, Shape
  <2> QED
    BY <1>0, <2>1, <2>2, <2>3 DEF TypeInv, TypeOK
<1>2. CASE RecoverTts
  <2> DEFINE left == {s \in Sessions : \E q \in Of(s) : tts'[q] = "queued"}
  <2>1. /\ Sets(Requeued, "queued") /\ Goes("recovery", Proceeds(left, {})) /\ starting' = FALSE
        /\ UNCHANGED <<sessions, audio, server, lost, crashes>>
    BY <1>2 DEF RecoverTts
  <2>2. tts' \in [Questions -> Statuses]
    BY <1>0, <2>1, SetsIs DEF Statuses
  <2>3. left \in SUBSET Sessions
    OBVIOUS
  <2> HIDE DEF left
  <2>4. Proceeds(left, {}) \in ThreadState /\ Shape(Proceeds(left, {}))
    BY <2>3, ProceedsIs
  <2>5. threads' \in [Threads -> ThreadState] /\ CarriedInv'
    BY <1>0, <2>1, <2>4, ThreadKeeps
  <2> QED
    BY <1>0, <2>1, <2>2, <2>5 DEF TypeInv, TypeOK, Statuses, server
<1>3. CASE Register
  BY <1>3 DEF Register, TypeInv, TypeOK, CarriedInv, Shape
<1> QED
  BY <1>1, <1>2, <1>3

LEMMA InitTypeInv == Init => TypeInv
  BY IdleIs, Numbers, ThreadNames
     DEF Init, TypeInv, TypeOK, CarriedInv, Shape

LEMMA StepTypeInv == TypeInv /\ [Next]_vars => TypeInv'
<1> SUFFICES ASSUME TypeInv, [Next]_vars PROVE TypeInv'
  OBVIOUS
<1>1. CASE UNCHANGED vars
  BY <1>1 DEF vars, server, TypeInv, TypeOK, CarriedInv, Shape
<1> QED
  BY <1>1, WorkTypeInv, RequestTypeInv, ServerTypeInv DEF Next

(* Every reachable state has its types: a request is tried no more often   *)
(* than the client allows (_synth).                                        *)
THEOREM TypeCorrect == Spec => []TypeOK
<1>1. TypeInv => TypeOK
  BY DEF TypeInv
<1> QED
  BY <1>1, InitTypeInv, StepTypeInv, PTL DEF Spec

-----------------------------------------------------------------------------
(* What costs a persona its voice.                                         *)

(* Only a refused text is tried with the default voice.                    *)
OwnVoice(r) ==
    /\ r.pc \in {"save", "ready"} => r.voice # "default"
    /\ r.voice = "default" => r.q \subseteq Refused

VoiceInv ==
    ~excused =>
        /\ registered /\ ~unavailable
        /\ \A q \in Questions : audio[q] # "default"
        /\ \A t \in Threads : OwnVoice(threads[t])

LEMMA VoiceGoes ==
    ASSUME TypeInv, VoiceInv, NEW t \in Threads, NEW new \in ThreadState, Goes(t, new),
           excused' = excused,
           ~excused => /\ OwnVoice(new) /\ registered' /\ ~unavailable'
                       /\ \A q \in Questions : audio'[q] # "default"
    PROVE  VoiceInv'
<1>1. \A u \in Threads : threads'[u] = IF u = t THEN new ELSE threads[u]
  BY GoesIs DEF TypeInv
<1> QED
  BY <1>1 DEF VoiceInv, OwnVoice

LEMMA ProceedsVoice ==
    ASSUME NEW left \in SUBSET Sessions, NEW todo \in SUBSET Questions
    PROVE  OwnVoice(Proceeds(left, todo))
  BY ProceedsIs, IdleIs DEF OwnVoice

LEMMA WorkVoice == ASSUME TypeInv, VoiceInv, NEW t \in Threads, Works(t) PROVE VoiceInv'
<1> DEFINE r == threads[t]
<1>0. /\ r \in ThreadState /\ Shape(r)
      /\ r.left \in SUBSET Sessions /\ r.todo \in SUBSET Questions
      /\ ~excused => OwnVoice(r)
  BY CarriedTypes DEF TypeInv, TypeOK, CarriedInv, VoiceInv
<1>1. OwnVoice(Idle) /\ Idle \in ThreadState
  BY IdleIs DEF OwnVoice
<1>2. CASE ListQueued(t)
  <2>1. PICK s \in r.left : Goes(t, Proceeds(r.left \ {s}, Queued({s})))
    BY <1>2, Zenon DEF ListQueued
  <2>2. UNCHANGED <<audio, server>>
    BY <1>2, Zenon DEF ListQueued
  <2>3. r.left \ {s} \in SUBSET Sessions /\ Queued({s}) \in SUBSET Questions
    BY <1>0 DEF Queued
  <2>4. /\ Proceeds(r.left \ {s}, Queued({s})) \in ThreadState
        /\ OwnVoice(Proceeds(r.left \ {s}, Queued({s})))
    BY <2>3, ProceedsIs, ProceedsVoice
  <2> HIDE DEF r
  <2> QED
    BY <2>1, <2>2, <2>4, VoiceGoes DEF server, VoiceInv
<1>3. CASE Spoken(t)
  <2> DEFINE new == [r EXCEPT !.pc = "save", !.tries = 0]
  <2>1. /\ Goes(t, new) /\ r.pc = "post" /\ ~Rejects(r)
        /\ unavailable' = (unavailable \/ Fallback(r))
        /\ UNCHANGED <<audio, registered, excused>>
    BY <1>3 DEF Spoken, At
  <2>2. new \in ThreadState /\ new.pc = "save" /\ new.voice = r.voice /\ new.q = r.q
    BY <1>0, Numbers DEF ThreadState
  <2>3. r.voice # "default" \/ excused
    <3>1. PICK q \in Questions : r.q = {q}
      BY <1>0, <2>1 DEF Shape, Working
    <3> QED
      BY <1>0, <2>1, <3>1 DEF OwnVoice, Rejects
  <2>4. ~excused => OwnVoice(new)
    BY <1>0, <2>2, <2>3 DEF OwnVoice
  <2>5. ~excused => ~unavailable'
    BY <2>1, <2>3 DEF Fallback, VoiceInv
  <2> HIDE DEF new, r
  <2> QED
    BY <2>1, <2>2, <2>4, <2>5, VoiceGoes DEF VoiceInv
<1>4. CASE Rejected(t)
  <2> DEFINE fall == [r EXCEPT !.voice = "default", !.tries = 0]
             failed == Failed(r)
  <2>1. /\ r.pc = "post"
        /\ r.voice = "persona" => Goes(t, fall)
        /\ r.voice # "persona" => Goes(t, failed)
        /\ unavailable' = (unavailable \/ FALSE)
        /\ excused' = (excused \/ ~Rejects(r))
        /\ UNCHANGED <<audio, registered>>
    BY <1>4 DEF Rejected, At, Cached
  <2>2. fall \in ThreadState /\ fall.pc = r.pc /\ fall.voice = "default" /\ fall.q = r.q
    BY <1>0, Numbers DEF ThreadState, Voices
  <2>3. failed \in ThreadState /\ failed.pc = "failed" /\ failed.voice = NoVoice /\ failed.q = r.q
    BY <1>0, Numbers DEF ThreadState, Failed
  <2>4. ~excused' => OwnVoice(failed) /\ (r.voice = "persona" => OwnVoice(fall))
    BY <1>0, IdleIs, <1>4, <2>1, <2>2, <2>3 DEF OwnVoice, Rejects, VoiceInv, Rejected, At
  <2>5. \A u \in Threads : threads'[u] = IF u # t THEN threads[u]
                                         ELSE IF r.voice = "persona" THEN fall ELSE failed
    <3> HIDE DEF fall, failed, r
    <3>1. CASE r.voice = "persona"
      BY <2>1, <2>2, <3>1, GoesIs DEF TypeInv
    <3>2. CASE r.voice # "persona"
      BY <2>1, <2>3, <3>2, GoesIs DEF TypeInv
    <3> QED
      BY <3>1, <3>2
  <2> HIDE DEF fall, failed, r
  <2> QED
    BY <2>1, <2>4, <2>5 DEF VoiceInv, OwnVoice
<1>5. CASE Save(t)
  <2> DEFINE new == [r EXCEPT !.pc = "ready", !.voice = NoVoice]
  <2>1. /\ Goes(t, new) /\ r.pc = "save" /\ UNCHANGED server
        /\ audio' = [q \in Questions |-> IF q \in r.q THEN r.voice ELSE audio[q]]
    BY <1>5 DEF Save, At
  <2>2. new \in ThreadState /\ new.pc = "ready" /\ new.voice = NoVoice /\ new.q = r.q
    BY <1>0 DEF ThreadState
  <2>3. ~excused => OwnVoice(new) /\ \A q \in Questions : audio'[q] # "default"
    BY <1>0, IdleIs, <2>1, <2>2 DEF OwnVoice, VoiceInv
  <2> HIDE DEF new, r
  <2> QED
    BY <2>1, <2>2, <2>3, VoiceGoes DEF VoiceInv, server
<1>6. ASSUME Dies(t), UNCHANGED <<audio, server>> PROVE VoiceInv'
  BY <1>1, <1>6, VoiceGoes DEF VoiceInv, server, Dies
<1>7. ASSUME NEW q \in Questions, Begin(t, q), tts[q] # "absent" PROVE VoiceInv'
  <2>1. PICK new \in ThreadState :
            Goes(t, new) /\ new.pc = "post" /\ new.voice = FirstVoice
    BY <1>7, BeginSteps DEF TypeInv
  <2>2. UNCHANGED <<audio, server>>
    BY <1>7 DEF Begin
  <2>3. ~excused => OwnVoice(new)
    BY <2>1 DEF OwnVoice, FirstVoice, VoiceInv
  <2> QED
    BY <2>1, <2>2, <2>3, VoiceGoes DEF VoiceInv, server
<1>8. CASE Store(t) /\ \A q \in r.q : tts[q] # "absent"
  <2>1. Goes(t, Proceeds(r.left, r.todo))
    BY <1>8, StoreSteps DEF TypeInv
  <2>2. UNCHANGED <<audio, server>>
    BY <1>8 DEF Store
  <2>3. Proceeds(r.left, r.todo) \in ThreadState /\ OwnVoice(Proceeds(r.left, r.todo))
    BY <1>0, ProceedsIs, ProceedsVoice
  <2> HIDE DEF r
  <2> QED
    BY <2>1, <2>2, <2>3, VoiceGoes DEF VoiceInv, server
<1>9. ASSUME NEW transient \in BOOLEAN, Broken(t, transient) PROVE VoiceInv'
  <2> DEFINE again  == [r EXCEPT !.tries = @ + 1]
             failed == Failed(r)
  <2>1. /\ Goes(t, again) \/ Goes(t, failed)
        /\ UNCHANGED <<audio, server>>
    BY <1>9 DEF Broken
  <2>2. /\ again.pc = r.pc /\ again.voice = r.voice /\ again.q = r.q
        /\ failed.pc = "failed" /\ failed.voice = NoVoice /\ failed.q = r.q
    BY <1>0 DEF ThreadState, Failed
  <2>3. ~excused => OwnVoice(again) /\ OwnVoice(failed)
    BY <1>0, IdleIs, <2>2 DEF OwnVoice
  <2>4. PICK new : Goes(t, new) /\ (~excused => OwnVoice(new))
    BY <2>1, <2>3
  <2> HIDE DEF again, failed, r
  <2>5. \A u \in Threads : threads'[u] = IF u = t THEN new ELSE threads[u]
    BY <2>4 DEF Goes, TypeInv, TypeOK
  <2> QED
    BY <2>1, <2>4, <2>5 DEF VoiceInv, OwnVoice, server
<1> QED
  BY <1>2, <1>3, <1>4, <1>5, <1>6, <1>7, <1>8, <1>9, WorkCases

LEMMA RequestVoice ==
    ASSUME TypeInv, VoiceInv, NEW s \in Sessions,
           \/ Generate(s) \/ DeleteSession(s)
           \/ \E f \in FollowUps \cap Of(s) : FollowUp(s, f)
    PROVE  VoiceInv'
<1>1. CASE Generate(s)
  <2>1. {s} \in SUBSET Sessions /\ {} \in SUBSET Questions /\ s \in Threads
    BY ThreadNames
  <2>2. Proceeds({s}, {}) \in ThreadState /\ OwnVoice(Proceeds({s}, {}))
    BY <2>1, ProceedsIs, ProceedsVoice
  <2> QED
    BY <1>1, <2>1, <2>2, VoiceGoes DEF Generate, server, VoiceInv
<1>2. ASSUME NEW f \in FollowUps \cap Of(s), FollowUp(s, f) PROVE VoiceInv'
  <2>1. {f} \in SUBSET Questions /\ {} \in SUBSET Sessions /\ "worker" \in Threads
    BY ThreadNames DEF Questions
  <2>2. /\ Proceeds({}, {f}) \in ThreadState
        /\ OwnVoice(Proceeds({}, {f}))
    BY <2>1, ProceedsIs, ProceedsVoice
  <2> QED
    BY <1>2, <2>1, <2>2, VoiceGoes DEF FollowUp, server, VoiceInv
<1>3. CASE DeleteSession(s)
  BY <1>3 DEF DeleteSession, server, VoiceInv, OwnVoice
<1> QED
  BY <1>1, <1>2, <1>3

LEMMA ServerVoice == ASSUME TypeInv, VoiceInv, Restart \/ RecoverTts \/ Register PROVE VoiceInv'
<1>1. CASE Restart
  BY <1>1, IdleIs DEF Restart, VoiceInv, OwnVoice
<1>2. CASE RecoverTts
  <2> DEFINE left == {s \in Sessions : \E q \in Of(s) : tts'[q] = "queued"}
  <2>1. /\ Goes("recovery", Proceeds(left, {})) /\ UNCHANGED <<audio, server>>
    BY <1>2 DEF RecoverTts
  <2>2. left \in SUBSET Sessions /\ {} \in SUBSET Questions /\ "recovery" \in Threads
    BY ThreadNames
  <2> HIDE DEF left
  <2>3. Proceeds(left, {}) \in ThreadState /\ OwnVoice(Proceeds(left, {}))
    BY <2>2, ProceedsIs, ProceedsVoice
  <2> QED
    BY <2>1, <2>2, <2>3, VoiceGoes DEF server, VoiceInv
<1>3. CASE Register
  BY <1>3 DEF Register, VoiceInv, OwnVoice
<1> QED
  BY <1>1, <1>2, <1>3

LEMMA InitVoice == Init => VoiceInv
  BY IdleIs DEF Init, VoiceInv, OwnVoice, NoVoice

LEMMA StepVoice == TypeInv /\ VoiceInv /\ [Next]_vars => VoiceInv'
<1> SUFFICES ASSUME TypeInv, VoiceInv, [Next]_vars PROVE VoiceInv'
  OBVIOUS
<1>1. CASE UNCHANGED vars
  BY <1>1 DEF vars, server, VoiceInv, OwnVoice
<1> QED
  BY <1>1, WorkVoice, RequestVoice, ServerVoice DEF Next

(* While the server has known the voice of the persona and throttled no    *)
(* request, no failure of another kind and no refused text makes the       *)
(* process give it up, or lets anybody hear the default voice              *)
(* (synthesize_question).                                                  *)
THEOREM VoiceKept == Spec => []VoiceOfPersona
<1>1. VoiceInv => VoiceOfPersona
  BY DEF VoiceInv, VoiceOfPersona
<1> QED
  BY <1>1, InitTypeInv, StepTypeInv, InitVoice, StepVoice, PTL DEF Spec

-----------------------------------------------------------------------------
(* The polled row (AsyncJob).                                              *)

LEMMA CarriedIs ==
    ASSUME NEW r \in ThreadState, NEW q \in Questions
    PROVE  q \in Carried(r) <=> \/ q \in r.todo \/ q \in r.q
                                \/ q[1] \in r.left /\ tts[q] = "queued"
  BY DEF Carried, Queued

(* Who has a question, once the thread t goes on in the state new.         *)
LEMMA HasThreadNext ==
    ASSUME TypeInv, NEW t \in Threads, NEW new \in ThreadState, Goes(t, new),
           NEW q \in Questions
    PROVE  /\ HasThread(q) <=>
                \/ starting /\ IsUnfinished(q)
                \/ q \in Carried(threads[t])
                \/ \E u \in Threads \ {t} : q \in Carried(threads[u])
           /\ HasThread(q)' <=>
                \/ starting' /\ tts'[q] \in {"queued", "processing"}
                \/ q \in new.todo \/ q \in new.q \/ (q[1] \in new.left /\ tts'[q] = "queued")
                \/ \E u \in Threads \ {t} :
                      \/ q \in threads[u].todo \/ q \in threads[u].q
                      \/ q[1] \in threads[u].left /\ tts'[q] = "queued"
<1>1. \A u \in Threads : threads'[u] = IF u = t THEN new ELSE threads[u]
  BY GoesIs DEF TypeInv
<1>2. \A u \in Threads : q \in Carried(threads[u])' <=>
          \/ q \in threads'[u].todo \/ q \in threads'[u].q
          \/ q[1] \in threads'[u].left /\ tts'[q] = "queued"
  BY DEF Carried, Queued
<1> QED
  BY <1>1, <1>2 DEF HasThread, IsUnfinished

(* A question whose status stays has whom it had, if the thread that       *)
(* moves carries it as before.                                             *)
LEMMA HasThreadKept ==
    ASSUME TypeInv, NEW t \in Threads, NEW new \in ThreadState, Goes(t, new),
           NEW q \in Questions, starting' = starting, tts'[q] = tts[q]
    PROVE  /\ HasThread(q)' => \/ HasThread(q)
                               \/ q \in new.todo \/ q \in new.q
                               \/ q[1] \in new.left /\ tts[q] = "queued"
           /\ q \notin Carried(threads[t]) => (HasThread(q) => HasThread(q)')
           /\ (q \in new.todo \/ q \in new.q \/ (q[1] \in new.left /\ tts[q] = "queued"))
                 => HasThread(q)'
<1>1. \A u \in Threads : threads[u] \in ThreadState
  BY DEF TypeInv, TypeOK
<1>2. \A u \in Threads : q \in Carried(threads[u]) <=>
          \/ q \in threads[u].todo \/ q \in threads[u].q
          \/ q[1] \in threads[u].left /\ tts[q] = "queued"
  BY <1>1, CarriedIs
<1> QED
  BY <1>2, HasThreadNext DEF IsUnfinished

LEMMA PendingIs ==
    ASSUME TypeInv, TypeInv'
    PROVE  /\ Pending \subseteq Questions /\ Pending' \subseteq Questions
           /\ \A q \in Questions : q \in Pending <=> HasThread(q) \/ q \in lost
           /\ \A q \in Questions : q \in Pending' <=> HasThread(q)' \/ q \in lost'
  BY DEF Pending, TypeInv, TypeOK

(* Listing, a request and a death change no status, and leave no question  *)
(* that was pending to nobody uncounted.                                   *)
LEMMA WorkStutters ==
    ASSUME TypeInv, TypeInv', NEW t \in Threads,
           \/ ListQueued(t)
           \/ \/ Spoken(t) \/ Rejected(t) \/ Save(t)
              \/ \E transient \in BOOLEAN : Broken(t, transient)
           \/ Dies(t) /\ UNCHANGED <<sessions, tts, audio, server, starting, crashes>>
    PROVE  UNCHANGED Job!vars
<1> DEFINE r == threads[t]
<1>0. /\ r \in ThreadState /\ Shape(r)
      /\ r.left \in SUBSET Sessions /\ r.todo \in SUBSET Questions
      /\ TypeOK /\ CarriedInv
  BY CarriedTypes DEF TypeInv, TypeOK, CarriedInv
<1>1. ASSUME NEW new \in ThreadState, Goes(t, new), starting' = starting, tts' = tts,
             NEW q \in Questions,
             q \in Carried(r) <=> q \in new.todo \/ q \in new.q
                                     \/ (q[1] \in new.left /\ tts[q] = "queued")
      PROVE  HasThread(q)' <=> HasThread(q)
  <2>1. q \in Carried(r) => HasThread(q)
    BY DEF HasThread
  <2> HIDE DEF r
  <2>2. r = threads[t] /\ tts'[q] = tts[q]
    BY <1>1 DEF r
  <2> QED
    BY <1>1, <2>1, <2>2, HasThreadKept
<1>2. CASE ListQueued(t)
  <2>1. PICK s \in r.left :
            /\ Goes(t, Proceeds(r.left \ {s}, Queued({s})))
            /\ lost' = lost \ Queued({s})
    BY <1>2, Zenon DEF ListQueued
  <2>2. tts' = tts /\ starting' = starting /\ r.todo = {} /\ r.q = {}
    BY <1>0, <1>2, Zenon DEF ListQueued, At, Shape, Working
  <2> DEFINE new == Proceeds(r.left \ {s}, Queued({s}))
  <2>3. r.left \ {s} \in SUBSET Sessions /\ Queued({s}) \in SUBSET Questions
    BY <1>0 DEF Queued
  <2>4. /\ new \in ThreadState
        /\ new.left = r.left \ {s} /\ new.todo = Queued({s}) /\ new.q = {}
    <3>1. PICK left, todo : left = r.left \ {s} /\ todo = Queued({s})
      OBVIOUS
    <3>2. left \in SUBSET Sessions /\ todo \in SUBSET Questions /\ new = Proceeds(left, todo)
      BY <2>3, <3>1
    <3> QED
      BY <3>1, <3>2, ProceedsIs
  <2>5. \A q \in Questions : q \in Queued({s}) <=> q[1] = s /\ tts[q] = "queued"
    BY DEF Queued
  <2> HIDE DEF new
  <2>6. \A q \in Questions :
            q \in Carried(r) <=> q \in new.todo \/ q \in new.q
                                    \/ (q[1] \in new.left /\ tts[q] = "queued")
    BY <1>0, <2>2, <2>4, <2>5, CarriedIs
  <2>7. \A q \in Questions : q \in Queued({s}) => q \in Carried(r) /\ HasThread(q)
    BY <2>4, <2>6 DEF HasThread
  <2>8. Goes(t, new)
    BY <2>1 DEF new
  <2> HIDE DEF r
  <2>9. \A q \in Questions : HasThread(q)' <=> HasThread(q)
    BY <1>1, <2>2, <2>4, <2>6, <2>8
  <2>10. \A q \in Questions : q \in Pending' <=> q \in Pending
    BY <2>1, <2>7, <2>9, PendingIs
  <2> QED
    BY <2>2, <2>10, PendingIs DEF Job!vars
<1>3. CASE \/ Spoken(t) \/ Rejected(t) \/ Save(t)
           \/ \E transient \in BOOLEAN : Broken(t, transient)
  <2>1. PICK new \in ThreadState :
            /\ Goes(t, new) /\ new.left = r.left /\ new.todo = r.todo /\ new.q = r.q
            /\ UNCHANGED <<sessions, tts, starting, lost>>
    BY <1>0, <1>3, RequestSteps
  <2>2. \A q \in Questions : HasThread(q)' <=> HasThread(q)
    BY <1>0, <1>1, <2>1, CarriedIs
  <2>3. \A q \in Questions : q \in Pending' <=> q \in Pending
    BY <2>1, <2>2, PendingIs
  <2> QED
    BY <2>1, <2>3, PendingIs DEF Job!vars
<1>4. CASE Dies(t) /\ UNCHANGED <<sessions, tts, audio, server, starting, crashes>>
  <2>1. Goes(t, Idle) /\ lost' = lost \cup Carried(r) /\ tts' = tts /\ starting' = starting
    BY <1>4 DEF Dies
  <2>2. \A q \in Questions : q \in Carried(r) => HasThread(q)
    BY DEF HasThread
  <2> HIDE DEF r
  <2>3. \A q \in Questions : q \notin Carried(r) => (HasThread(q)' <=> HasThread(q))
    BY <1>1, <2>1, IdleIs
  <2>4. \A q \in Questions : HasThread(q)' => HasThread(q)
    BY <2>1, IdleIs, HasThreadKept
  <2>5. \A q \in Questions : q \in Pending' <=> q \in Pending
    BY <2>1, <2>2, <2>3, <2>4, PendingIs
  <2> QED
    BY <2>1, <2>5, PendingIs DEF Job!vars
<1> QED
  BY <1>2, <1>3, <1>4

LEMMA BeginRefines ==
    ASSUME TypeInv, TypeInv', NEW t \in Threads, NEW q \in Questions, Begin(t, q),
           tts[q] # "absent"
    PROVE  Job!Start(q)
<1>1. PICK new \in ThreadState :
          /\ Goes(t, new) /\ new.left = threads[t].left
          /\ new.todo = threads[t].todo \ {q} /\ new.q = {q}
  BY BeginSteps DEF TypeInv
<1>2. /\ q \in threads[t].todo /\ threads[t].q = {} /\ threads[t] \in ThreadState
      /\ Sets({q}, "processing") /\ UNCHANGED <<sessions, starting, lost>>
  BY BeginSteps DEF TypeInv, TypeOK
<1>3. \A p \in Questions : tts'[p] = IF p = q THEN "processing" ELSE tts[p]
  BY <1>2, SetsIs DEF TypeInv, Statuses
<1>4. HasThread(q) /\ HasThread(q)'
  BY <1>1, <1>2, HasThreadNext, CarriedIs
<1>5. ASSUME NEW p \in Questions, p # q PROVE HasThread(p)' <=> HasThread(p)
  <2>1. tts'[p] = tts[p]
    BY <1>3, <1>5
  <2>2. p \in Carried(threads[t]) <=> \/ p \in new.todo \/ p \in new.q
                                      \/ p[1] \in new.left /\ tts[p] = "queued"
    BY <1>1, <1>2, <1>5, CarriedIs
  <2>3. p \in Carried(threads[t]) => HasThread(p)
    BY DEF HasThread
  <2> QED
    BY <1>1, <1>2, <2>1, <2>2, <2>3, HasThreadKept
<1>6. \A p \in Questions : p \in Pending' <=> p \in Pending
  BY <1>2, <1>4, <1>5, PendingIs
<1>7. Pending' = Pending /\ q \in Pending
  BY <1>4, <1>6, PendingIs
<1> QED
  BY <1>2, <1>7 DEF Job!Start, Job!Sets, Sets

LEMMA StoreRefines ==
    ASSUME TypeInv, TypeInv', NEW t \in Threads, Store(t),
           \A q \in threads[t].q : tts[q] # "absent"
    PROVE  \E q \in Questions : Job!Settle(q)
<1>1. PICK q \in Questions :
          /\ threads[t].q = {q} /\ tts[q] # "absent"
          /\ threads[t].pc \in {"ready", "failed"}
          /\ Sets({q}, threads[t].pc) /\ UNCHANGED <<sessions, starting, lost>>
          /\ Goes(t, Proceeds(threads[t].left, threads[t].todo))
  BY StoreSteps DEF TypeInv
<1>2. PICK new : new = Proceeds(threads[t].left, threads[t].todo)
  OBVIOUS
<1>3. /\ new \in ThreadState /\ threads[t] \in ThreadState
      /\ new.left = threads[t].left /\ new.todo = threads[t].todo /\ new.q = {}
  <2>1. threads[t].left \in SUBSET Sessions /\ threads[t].todo \in SUBSET Questions
    BY CarriedTypes DEF TypeInv
  <2> QED
    BY <1>2, <2>1, ProceedsIs DEF TypeInv, TypeOK
<1>4. \A p \in Questions : tts'[p] = IF p = q THEN threads[t].pc ELSE tts[p]
  BY <1>1, SetsIs DEF TypeInv, Statuses
<1>5. HasThread(q)
  BY <1>1, <1>3, CarriedIs DEF HasThread
<1>6. ASSUME NEW p \in Questions, p # q PROVE HasThread(p)' <=> HasThread(p)
  <2>1. tts'[p] = tts[p]
    BY <1>4, <1>6
  <2>2. p \in Carried(threads[t]) <=> \/ p \in new.todo \/ p \in new.q
                                      \/ p[1] \in new.left /\ tts[p] = "queued"
    BY <1>1, <1>3, <1>6, CarriedIs
  <2>3. p \in Carried(threads[t]) => HasThread(p)
    BY DEF HasThread
  <2> QED
    BY <1>1, <1>2, <1>3, <2>1, <2>2, <2>3, HasThreadKept
<1>7. \A p \in Questions : p # q => (p \in Pending' <=> p \in Pending)
  BY <1>1, <1>6, PendingIs
<1>8. q \in Pending
  BY <1>5, PendingIs
<1>9. Pending' \in {Pending, Pending \ {q}}
  <2>1. CASE q \in Pending'
    BY <1>7, <1>8, <2>1, PendingIs
  <2>2. CASE q \notin Pending'
    BY <1>7, <1>8, <2>2, PendingIs
  <2> QED
    BY <2>1, <2>2
<1> QED
  BY <1>1, <1>8, <1>9 DEF Job!Settle, Job!Sets, Job!Settled, Sets

(* New questions, and the thread that has them.                            *)
LEMMA NewQuestions ==
    ASSUME TypeInv, TypeInv', NEW t \in Threads, threads[t] = Idle,
           NEW S \in SUBSET Questions, Sets(S, "queued"),
           NEW new \in ThreadState, Goes(t, new),
           \A q \in Questions :
               (q \in new.todo \/ q \in new.q \/ (q[1] \in new.left /\ tts'[q] = "queued"))
                  <=> q \in S,
           starting' = starting, lost' = lost
    PROVE  Job!Accept(S)
<1>1. \A q \in Questions : tts'[q] = IF q \in S THEN "queued" ELSE tts[q]
  BY SetsIs DEF TypeInv, Statuses
<1>2. ASSUME NEW q \in S PROVE q \in Pending'
  <2>1. HasThread(q)'
    BY HasThreadNext
  <2> QED
    BY <2>1, PendingIs
<1>3. ASSUME NEW q \in Questions, q \notin S PROVE q \in Pending' <=> q \in Pending
  <2>1. tts'[q] = tts[q]
    BY <1>1, <1>3
  <2>2. q \notin Carried(threads[t])
    BY IdleIs, CarriedIs
  <2>3. HasThread(q)' <=> HasThread(q)
    BY <1>3, <2>1, <2>2, HasThreadKept
  <2> QED
    BY <2>3, PendingIs
<1>4. Pending' = Pending \cup S
  BY <1>2, <1>3, PendingIs
<1> QED
  BY <1>4 DEF Job!Accept, Job!Sets, Sets

LEMMA RequestRefines ==
    ASSUME TypeInv, TypeInv', NEW s \in Sessions,
           \/ Generate(s) \/ DeleteSession(s)
           \/ \E f \in FollowUps \cap Of(s) : FollowUp(s, f)
    PROVE  \E S \in SUBSET Questions : Job!Accept(S) \/ Job!Remove(S)
<1>1. CASE Generate(s)
  <2> DEFINE S == Of(s) \cap Primaries
  <2>1. S \in SUBSET Questions /\ s \in Threads
    BY ThreadNames DEF Questions, Of
  <2>2. PICK left, todo, new :
            left = {s} /\ todo = {} /\ new = Proceeds(left, todo)
    OBVIOUS
  <2>3. /\ new \in ThreadState /\ new.left = {s} /\ new.todo = {} /\ new.q = {}
    BY <2>2, ProceedsIs
  <2>4. /\ Sets(S, "queued") /\ Goes(s, new) /\ threads[s] = Idle
        /\ starting' = starting /\ lost' = lost
        /\ \A q \in Of(s) : tts[q] = "absent"
    BY <1>1, <2>2 DEF Generate
  <2> HIDE DEF S
  <2>5. \A q \in Questions : tts'[q] = IF q \in S THEN "queued" ELSE tts[q]
    BY <2>4, SetsIs DEF TypeInv, Statuses
  <2>6. \A q \in Questions : (q[1] = s /\ tts'[q] = "queued") <=> q \in S
    BY <2>4, <2>5 DEF Of, S, Questions
  <2> QED
    BY <2>1, <2>3, <2>4, <2>6, NewQuestions
<1>2. ASSUME NEW f \in FollowUps \cap Of(s), FollowUp(s, f)
      PROVE  \E S \in SUBSET Questions : Job!Accept(S)
  <2>1. PICK S : S = {f}
    OBVIOUS
  <2>2. PICK left, new : left = {} /\ new = Proceeds(left, S)
    OBVIOUS
  <2>3. S \in SUBSET Questions /\ "worker" \in Threads
    BY <2>1, ThreadNames DEF Questions
  <2>4. /\ new \in ThreadState /\ new.left = {} /\ new.todo = S /\ new.q = {}
    BY <2>2, <2>3, ProceedsIs
  <2>5. /\ Sets(S, "queued") /\ Goes("worker", new) /\ threads["worker"] = Idle
        /\ starting' = starting /\ lost' = lost
    BY <1>2, <2>1, <2>2 DEF FollowUp
  <2> QED
    BY <2>3, <2>4, <2>5, NewQuestions
<1>3. CASE DeleteSession(s)
  <2>1. PICK S : S = Of(s)
    OBVIOUS
  <2>2. /\ Sets(S, "absent") /\ S \in SUBSET Questions
        /\ threads' = threads /\ starting' = starting /\ lost' = lost
    BY <1>3, <2>1 DEF DeleteSession, Of
  <2>3. \A q \in Questions : tts'[q] = IF q \in S THEN "absent" ELSE tts[q]
    BY <2>2, SetsIs DEF TypeInv, Statuses
  <2>4. \A q \in Questions : HasThread(q)' => HasThread(q)
    BY <2>2, <2>3 DEF HasThread, IsUnfinished, Carried, Queued
  <2>5. \A q \in Questions : q \notin S => (HasThread(q) => HasThread(q)')
    BY <2>2, <2>3 DEF HasThread, IsUnfinished, Carried, Queued
  <2>6. Pending \ S \subseteq Pending' /\ Pending' \subseteq Pending
    BY <2>2, <2>4, <2>5, PendingIs
  <2> QED
    BY <2>2, <2>6 DEF Job!Remove, Job!Sets, Sets
<1> QED
  BY <1>1, <1>2, <1>3

LEMMA ServerRefines ==
    ASSUME TypeInv, TypeInv', Restart \/ RecoverTts \/ Register
    PROVE  [Job!Next]_(Job!vars)
<1>1. CASE Restart
  <2>1. threads' = [t \in Threads |-> Idle] /\ lost' = {} /\ tts' = tts /\ starting'
    BY <1>1 DEF Restart
  <2>2. ASSUME NEW q \in Questions PROVE q \in Pending' <=> tts[q] \in Job!Unfinished
    <3>1. \A t \in Threads : q \notin Carried(threads[t])'
      BY <2>1, IdleIs DEF Carried, Queued
    <3> QED
      BY <2>1, <3>1, PendingIs DEF HasThread, IsUnfinished, Job!Unfinished
  <2>3. Pending' = {q \in Questions : tts[q] \in Job!Unfinished}
    BY <2>2, PendingIs
  <2> QED
    BY <2>1, <2>3 DEF Job!Recover, Job!Next
<1>2. CASE RecoverTts
  <2>1. PICK left : left = {s \in Sessions : \E q \in Of(s) : tts'[q] = "queued"}
    OBVIOUS
  <2>2. PICK todo, new : todo = {} /\ new = Proceeds(left, todo)
    OBVIOUS
  <2>3. /\ Sets(Requeued, "queued") /\ Goes("recovery", new)
        /\ starting /\ starting' = FALSE /\ lost' = lost
    BY <1>2, <2>1, <2>2 DEF RecoverTts
  <2>4. "recovery" \in Threads /\ left \in SUBSET Sessions /\ threads["recovery"] = Idle
    BY <2>1, <2>3, ThreadNames DEF TypeInv, CarriedInv
  <2>5. new \in ThreadState /\ new.left = left /\ new.todo = {} /\ new.q = {}
    BY <2>2, <2>4, ProceedsIs
  <2>6. Requeued \in SUBSET Questions
    BY DEF Requeued
  <2>7. \A q \in Questions : tts'[q] = IF q \in Requeued THEN "queued" ELSE tts[q]
    BY <2>3, <2>6, SetsIs DEF TypeInv, Statuses
  <2>8. \A q \in Questions : q[1] \in Sessions /\ q \in Of(q[1])
    BY SpeechAssumption DEF Questions, Of
  <2>9. \A q \in Questions : tts'[q] = "queued" <=> tts[q] \in {"queued", "processing"}
    BY <2>7 DEF Requeued
  <2>10. ASSUME NEW q \in Questions PROVE HasThread(q)' <=> HasThread(q)
    <3>1. CASE tts[q] \in {"queued", "processing"}
      <4>1. HasThread(q)
        BY <2>3, <3>1 DEF HasThread, IsUnfinished
      <4>2. q[1] \in new.left /\ tts'[q] = "queued"
        BY <2>1, <2>5, <2>8, <2>9, <3>1
      <4>3. HasThread(q)'
        BY <2>3, <2>4, <2>5, <4>2, HasThreadNext
      <4> QED
        BY <4>1, <4>3
    <3>2. CASE tts[q] \notin {"queued", "processing"}
      <4>1. /\ ~IsUnfinished(q) /\ tts[q] # "queued" /\ tts'[q] # "queued"
            /\ tts'[q] \notin {"queued", "processing"}
        BY <2>7, <2>9, <3>2 DEF IsUnfinished, Requeued
      <4>2. \A u \in Threads : q \in Carried(threads[u]) <=>
                                   q \in threads[u].todo \/ q \in threads[u].q
        BY <4>1, CarriedIs DEF TypeInv, TypeOK
      <4>3. q \notin Carried(threads["recovery"])
        BY <2>4, IdleIs, <4>1, CarriedIs
      <4> QED
        BY <2>3, <2>4, <2>5, <4>1, <4>2, <4>3, HasThreadNext
    <3> QED
      BY <3>1, <3>2
  <2>11. \A q \in Requeued : q \in Pending
    BY <2>3, <2>6, PendingIs DEF Requeued, HasThread, IsUnfinished
  <2>12. Pending' = Pending \cup Requeued
    BY <2>3, <2>10, <2>11, PendingIs
  <2> QED
    BY <2>3, <2>6, <2>12 DEF Job!Next, Job!Accept, Job!Sets, Sets
<1>3. CASE Register
  BY <1>3, Zenon DEF Register, Job!vars, Pending, HasThread, Carried, Queued, IsUnfinished
<1> QED
  BY <1>1, <1>2, <1>3

LEMMA StepRefines == TypeInv /\ TypeInv' /\ [Next]_vars => [Job!Next]_(Job!vars)
<1> SUFFICES ASSUME TypeInv, TypeInv', [Next]_vars PROVE [Job!Next]_(Job!vars)
  OBVIOUS
<1>1. CASE UNCHANGED vars
  BY <1>1 DEF vars, Job!vars, Pending, HasThread, Carried, Queued, IsUnfinished
<1>2. ASSUME NEW t \in Threads, Works(t) PROVE [Job!Next]_(Job!vars)
  BY <1>2, WorkCases, WorkStutters, BeginRefines, StoreRefines DEF Job!Next
<1>3. ASSUME NEW s \in Sessions,
             Generate(s) \/ DeleteSession(s) \/ \E f \in FollowUps \cap Of(s) : FollowUp(s, f)
      PROVE  [Job!Next]_(Job!vars)
  BY <1>3, RequestRefines DEF Job!Next
<1> QED
  BY <1>1, <1>2, <1>3, ServerRefines DEF Next

LEMMA InitRefines == Init => Job!Init
<1> SUFFICES ASSUME Init PROVE Job!Init
  OBVIOUS
<1>1. Pending \subseteq Questions
  BY DEF Init, Pending
<1>2. /\ tts \in [Questions -> Job!AsyncStatus]
      /\ \A q \in Questions : tts[q] \notin Job!Unfinished
  BY DEF Init, Job!AsyncStatus, Job!Unfinished
<1> QED
  BY <1>1, <1>2 DEF Job!Init, Job!TypeOK, Job!Covered

(* Generations, follow-ups, deletions, restarts and threads that die only  *)
(* ever move the questions as AsyncJob allows, if what an exception leaves *)
(* to nobody is counted as pending (_synthesize_one, recover_tts).         *)
THEOREM ImplementsAsyncJob == Spec => SpeechPolled
  BY InitRefines, InitTypeInv, StepTypeInv, StepRefines, PTL
     DEF Spec, SpeechPolled, Job!Spec

-----------------------------------------------------------------------------
(* What it takes for a question to be stuck.                               *)

(* The rows a thread works on are there, so that no commit raises.         *)
RowsThere(r) == \A q \in r.todo \cup r.q : tts[q] # "absent"

NoLoss ==
    sessions = Sessions /\ ~StorageFails =>
        lost = {} /\ \A t \in Threads : RowsThere(threads[t])

LEMMA NoLossGoes ==
    ASSUME TypeInv, NoLoss, NEW t \in Threads, NEW new \in ThreadState, Goes(t, new),
           sessions' = sessions, lost' = lost \/ lost' = {},
           \A q \in Questions : tts'[q] = "absent" => tts[q] = "absent",
           (sessions = Sessions /\ ~StorageFails) => RowsThere(new)'
    PROVE  NoLoss'
<1>1. \A u \in Threads : threads'[u] = IF u = t THEN new ELSE threads[u]
  BY GoesIs DEF TypeInv
<1>2. \A u \in Threads : threads[u].todo \subseteq Questions /\ threads[u].q \subseteq Questions
  BY CarriedTypes DEF TypeInv
<1> QED
  BY <1>1, <1>2 DEF NoLoss, RowsThere

LEMMA WorkNoLoss == ASSUME TypeInv, NoLoss, NEW t \in Threads, Works(t) PROVE NoLoss'
<1> SUFFICES ASSUME sessions' = Sessions, ~StorageFails PROVE NoLoss'
  BY DEF NoLoss
<1>0. sessions' = sessions
  <2>1. \A q \in Questions : Begin(t, q) => sessions' = sessions
    BY DEF Begin
  <2>2. \A transient \in BOOLEAN : Broken(t, transient) => sessions' = sessions
    BY DEF Broken
  <2>3. ListQueued(t) => sessions' = sessions
    BY Zenon DEF ListQueued
  <2> QED
    BY <2>1, <2>2, <2>3 DEF Works, Spoken, Rejected, Save, SaveFails, Store
<1>1. /\ RowsThere(threads[t]) /\ lost = {} /\ threads[t] \in ThreadState /\ Shape(threads[t])
      /\ threads[t].left \in SUBSET Sessions /\ threads[t].todo \in SUBSET Questions
  BY <1>0, CarriedTypes DEF NoLoss, TypeInv, CarriedInv
<1>2. CASE ListQueued(t)
  <2>1. PICK s \in threads[t].left :
            /\ Goes(t, Proceeds(threads[t].left \ {s}, Queued({s})))
            /\ lost' = lost \ Queued({s})
    BY <1>2, Zenon DEF ListQueued
  <2>2. tts' = tts
    BY <1>2, Zenon DEF ListQueued
  <2>3. PICK left, todo, new :
            left = threads[t].left \ {s} /\ todo = Queued({s}) /\ new = Proceeds(left, todo)
    OBVIOUS
  <2>4. left \in SUBSET Sessions /\ todo \in SUBSET Questions
    BY <1>1, <2>3 DEF Queued
  <2>5. new \in ThreadState /\ new.todo = todo /\ new.q = {}
    BY <2>3, <2>4, ProceedsIs
  <2>6. RowsThere(new)'
    BY <2>2, <2>3, <2>5 DEF RowsThere, Queued
  <2> QED
    BY <1>0, <1>1, <2>1, <2>2, <2>3, <2>5, <2>6, NoLossGoes
<1>3. CASE \/ Spoken(t) \/ Rejected(t) \/ Save(t)
           \/ \E transient \in BOOLEAN : Broken(t, transient)
  <2>1. PICK new \in ThreadState :
            /\ Goes(t, new) /\ new.todo = threads[t].todo /\ new.q = threads[t].q
            /\ UNCHANGED <<sessions, tts, starting, lost>>
    BY <1>3, RequestSteps DEF TypeInv
  <2>2. RowsThere(new)'
    BY <1>1, <2>1 DEF RowsThere
  <2> QED
    BY <2>1, <2>2, NoLossGoes
<1>4. ASSUME NEW q \in Questions, Begin(t, q) PROVE NoLoss'
  <2>1. q \in threads[t].todo /\ tts[q] # "absent"
    BY <1>1, <1>4 DEF Begin, RowsThere
  <2>2. PICK new \in ThreadState :
            /\ Goes(t, new) /\ new.todo = threads[t].todo \ {q} /\ new.q = {q}
    BY <1>4, <2>1, BeginSteps DEF TypeInv
  <2>3. Sets({q}, "processing") /\ lost' = lost
    BY <1>4, <2>1, BeginSteps DEF TypeInv
  <2>4. \A p \in Questions : tts'[p] = IF p = q THEN "processing" ELSE tts[p]
    BY <2>3, SetsIs DEF TypeInv, Statuses
  <2>5. RowsThere(new)'
    BY <1>1, <2>2, <2>4 DEF RowsThere
  <2> QED
    BY <1>0, <2>2, <2>3, <2>4, <2>5, NoLossGoes
<1>5. CASE Store(t)
  <2>1. \A q \in threads[t].q : tts[q] # "absent"
    BY <1>1 DEF RowsThere
  <2>2. PICK q \in Questions :
            /\ threads[t].pc \in {"ready", "failed"}
            /\ Sets({q}, threads[t].pc) /\ lost' = lost
            /\ Goes(t, Proceeds(threads[t].left, threads[t].todo))
    BY <1>5, <2>1, StoreSteps DEF TypeInv
  <2>3. PICK new : new = Proceeds(threads[t].left, threads[t].todo)
    OBVIOUS
  <2>4. new \in ThreadState /\ new.todo = threads[t].todo /\ new.q = {}
    BY <1>1, <2>3, ProceedsIs
  <2>5. \A p \in Questions : tts'[p] = IF p = q THEN threads[t].pc ELSE tts[p]
    BY <2>2, SetsIs DEF TypeInv, Statuses
  <2>6. RowsThere(new)'
    BY <1>1, <2>2, <2>4, <2>5 DEF RowsThere
  <2> QED
    BY <1>0, <2>2, <2>3, <2>4, <2>5, <2>6, NoLossGoes
<1> QED
  BY <1>2, <1>3, <1>4, <1>5 DEF Works, SaveFails

LEMMA RequestNoLoss ==
    ASSUME TypeInv, NoLoss, NEW s \in Sessions,
           \/ Generate(s) \/ DeleteSession(s)
           \/ \E f \in FollowUps \cap Of(s) : FollowUp(s, f)
    PROVE  NoLoss'
<1>1. CASE Generate(s)
  <2>1. PICK left, todo, new :
            left = {s} /\ todo = {} /\ new = Proceeds(left, todo)
    OBVIOUS
  <2>2. new \in ThreadState /\ new.todo = {} /\ new.q = {}
    BY <2>1, ProceedsIs
  <2>3. s \in Threads
    BY ThreadNames
  <2>4. /\ Sets(Of(s) \cap Primaries, "queued") /\ Goes(s, new)
        /\ sessions' = sessions /\ lost' = lost
    BY <1>1, <2>1 DEF Generate
  <2>5. \A q \in Questions : tts'[q] = "absent" => tts[q] = "absent"
    BY <2>4, SetsIs DEF TypeInv, Statuses
  <2>6. RowsThere(new)'
    BY <2>2 DEF RowsThere
  <2> QED
    BY <2>2, <2>3, <2>4, <2>5, <2>6, NoLossGoes
<1>2. ASSUME NEW f \in FollowUps \cap Of(s), FollowUp(s, f) PROVE NoLoss'
  <2>1. PICK left, todo, new :
            left = {} /\ todo = {f} /\ new = Proceeds(left, todo)
    OBVIOUS
  <2>2. todo \in SUBSET Questions /\ left \in SUBSET Sessions /\ "worker" \in Threads
    BY <2>1, ThreadNames DEF Questions
  <2>3. new \in ThreadState /\ new.todo = todo /\ new.q = {}
    <3>1. new = Proceeds(left, todo)
      BY <2>1
    <3> QED
      BY <2>2, <3>1, ProceedsIs
  <2>4. /\ Sets(todo, "queued") /\ Goes("worker", new)
        /\ sessions' = sessions /\ lost' = lost
    BY <1>2, <2>1 DEF FollowUp
  <2>5. \A q \in Questions : tts'[q] = IF q \in todo THEN "queued" ELSE tts[q]
    BY <2>4, SetsIs DEF TypeInv, Statuses
  <2>6. RowsThere(new)'
    BY <2>2, <2>3, <2>5 DEF RowsThere
  <2> QED
    BY <2>2, <2>3, <2>4, <2>5, <2>6, NoLossGoes
<1>3. CASE DeleteSession(s)
  BY <1>3 DEF DeleteSession, NoLoss
<1> QED
  BY <1>1, <1>2, <1>3

LEMMA ServerNoLoss == ASSUME TypeInv, NoLoss, Restart \/ RecoverTts \/ Register PROVE NoLoss'
<1>1. CASE Restart
  BY <1>1, IdleIs DEF Restart, NoLoss, RowsThere
<1>2. CASE RecoverTts
  <2>1. PICK left : left = {s \in Sessions : \E q \in Of(s) : tts'[q] = "queued"}
    OBVIOUS
  <2>2. PICK todo, new : todo = {} /\ new = Proceeds(left, todo)
    OBVIOUS
  <2>3. /\ Sets(Requeued, "queued") /\ Goes("recovery", new)
        /\ sessions' = sessions /\ lost' = lost
    BY <1>2, <2>1, <2>2 DEF RecoverTts
  <2>4. left \in SUBSET Sessions /\ "recovery" \in Threads
    BY <2>1, ThreadNames
  <2>5. new \in ThreadState /\ new.todo = {} /\ new.q = {}
    BY <2>2, <2>4, ProceedsIs
  <2>6. \A q \in Questions : tts'[q] = "absent" => tts[q] = "absent"
    BY <2>3, SetsIs DEF TypeInv, Statuses
  <2>7. RowsThere(new)'
    BY <2>5 DEF RowsThere
  <2> QED
    BY <2>3, <2>4, <2>5, <2>6, <2>7, NoLossGoes
<1>3. CASE Register
  BY <1>3 DEF Register, NoLoss, RowsThere
<1> QED
  BY <1>1, <1>2, <1>3

LEMMA InitNoLoss == Init => NoLoss
  BY IdleIs DEF Init, NoLoss, RowsThere

LEMMA StepNoLoss == TypeInv /\ NoLoss /\ [Next]_vars => NoLoss'
<1> SUFFICES ASSUME TypeInv, NoLoss, [Next]_vars PROVE NoLoss'
  OBVIOUS
<1>1. CASE UNCHANGED vars
  BY <1>1 DEF vars, NoLoss, RowsThere
<1> QED
  BY <1>1, WorkNoLoss, RequestNoLoss, ServerNoLoss DEF Next

LEMMA StepCovered ==
    Job!TypeOK /\ Job!Covered /\ [Job!Next]_(Job!vars) => (Job!TypeOK /\ Job!Covered)'
<1> SUFFICES ASSUME Job!TypeOK, Job!Covered, [Job!Next]_(Job!vars)
             PROVE  Job!TypeOK' /\ Job!Covered'
  OBVIOUS
<1> USE DEF Job!TypeOK, Job!Covered, Job!Sets, Job!AsyncStatus, Job!Unfinished, Job!Settled
<1>1. ASSUME NEW S \in SUBSET Questions, Job!Accept(S) PROVE Job!TypeOK' /\ Job!Covered'
  BY <1>1 DEF Job!Accept
<1>2. ASSUME NEW S \in SUBSET Questions, Job!Remove(S) PROVE Job!TypeOK' /\ Job!Covered'
  BY <1>2 DEF Job!Remove
<1>3. ASSUME NEW q \in Questions, Job!Start(q) PROVE Job!TypeOK' /\ Job!Covered'
  BY <1>3 DEF Job!Start
<1>4. ASSUME NEW q \in Questions, Job!Settle(q) PROVE Job!TypeOK' /\ Job!Covered'
  BY <1>4 DEF Job!Settle
<1>5. CASE Job!JobsEnd
  BY <1>5 DEF Job!JobsEnd
<1>6. CASE Job!Recover
  BY <1>6 DEF Job!Recover
<1>7. CASE UNCHANGED Job!vars
  BY <1>7 DEF Job!vars
<1> QED
  BY <1>1, <1>2, <1>3, <1>4, <1>5, <1>6, <1>7 DEF Job!Next

(* It takes a deleted session or a file that cannot be stored for a        *)
(* question to be left unfinished with nobody to settle it: without them,  *)
(* through any failures of the server and any restarts, each unfinished    *)
(* question has a thread (_synthesize_one, recover_tts).                   *)
THEOREM StuckOnlyByExceptions ==
    Spec => [](sessions = Sessions /\ ~StorageFails => NothingStuck)
<1>1. Job!Covered /\ NoLoss => (sessions = Sessions /\ ~StorageFails => NothingStuck)
  BY DEF Job!Covered, Job!Unfinished, NoLoss, NothingStuck, IsUnfinished, Pending
<1> QED
  BY <1>1, InitTypeInv, StepTypeInv, InitNoLoss, StepNoLoss, StepCovered, ImplementsAsyncJob, PTL
     DEF Spec, SpeechPolled, Job!Spec, Job!Init
=============================================================================
