------------------------------ MODULE AsyncJob ------------------------------
(***************************************************************************)
(* What the backend promises a client that polls rows with an AsyncStatus  *)
(* (reports, materials, speech): a request puts a row in the queue, only a  *)
(* background job moves it on, and while it is unfinished such a job       *)
(* exists somewhere. Reports, Materials and Speech implement it.           *)
(***************************************************************************)

CONSTANT Rows

VARIABLES
    status,    \* the polled statuses; "absent" is a row that does not exist
    pending    \* rows for which a job waits or runs

vars == <<status, pending>>

Unfinished  == {"queued", "processing"}
Settled     == {"ready", "failed"}
AsyncStatus == {"absent"} \cup Unfinished \cup Settled

TypeOK == status \in [Rows -> AsyncStatus] /\ pending \in SUBSET Rows

(* The promise: nobody polls a row that no job is going to settle.         *)
Covered == \A r \in Rows : status[r] \in Unfinished => r \in pending

Init == TypeOK /\ Covered

Sets(S, new) == status' = [r \in Rows |-> IF r \in S THEN new ELSE status[r]]

(* A request, also one that comes while a job runs; one that found the row *)
(* queued already has nothing to write, and starts a job all the same.     *)
Accept(S) ==
    /\ Sets(S, "queued") \/ UNCHANGED status
    /\ pending' = pending \cup S

(* A job commits that it has begun.                                        *)
Start(r) ==
    /\ r \in pending /\ status[r] # "absent"
    /\ Sets({r}, "processing") /\ UNCHANGED pending

(* A job commits its result; another one may remain.                       *)
Settle(r) ==
    /\ r \in pending /\ status[r] # "absent"
    /\ \E new \in Settled : Sets({r}, new)
    /\ pending' \in {pending, pending \ {r}}

(* Jobs that are over without a commit had nothing to settle: one of a row *)
(* that is settled or gone.                                                *)
JobsEnd ==
    /\ pending' \subseteq pending
    /\ \A r \in pending \ pending' : status[r] \notin Unfinished
    /\ UNCHANGED status

Remove(S) == Sets(S, "absent") /\ pending \ S \subseteq pending' /\ pending' \subseteq pending

(* A restart loses the jobs and starts one for what is unfinished.         *)
Recover ==
    /\ pending' = {r \in Rows : status[r] \in Unfinished}
    /\ UNCHANGED status

Next ==
    \/ \E S \in SUBSET Rows : Accept(S) \/ Remove(S)
    \/ \E r \in Rows : Start(r) \/ Settle(r)
    \/ JobsEnd \/ Recover

Spec == Init /\ [][Next]_vars

(* Given fair jobs, an unfinished row does not stay unfinished.            *)
Settles == \A r \in Rows : status[r] \in Unfinished ~> status[r] \notin Unfinished
=============================================================================
