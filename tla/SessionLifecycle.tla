-------------------------- MODULE SessionLifecycle --------------------------
(***************************************************************************)
(* The life of a rehearsal session as services/session_state.py promises   *)
(* it: one status, moved along a table of transitions and never otherwise. *)
(* Preparation is checked against it.                                      *)
(***************************************************************************)

VARIABLE status

SessionStatus == {"draft", "recording_in_progress", "transcribing",
                  "generating_questions", "qna", "completed", "failed"}

ALLOWED_TRANSITIONS ==
    [draft                 |-> {"recording_in_progress", "transcribing"},
     recording_in_progress |-> {"transcribing"},
     transcribing          |-> {"generating_questions", "failed"},
     generating_questions  |-> {"qna", "failed"},
     qna                   |-> {"completed"},
     failed                |-> {"transcribing", "generating_questions"},
     completed             |-> {}]

can_transition(current, to) == to \in ALLOWED_TRANSITIONS[current]

Init == status = "draft"

(* advance_status, committed by its caller. *)
Advance(to) ==
    /\ can_transition(status, to)
    /\ status' = to

Next == \E to \in SessionStatus : Advance(to)

Spec == Init /\ [][Next]_status
=============================================================================
