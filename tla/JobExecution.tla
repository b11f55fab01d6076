---------------------------- MODULE JobExecution ----------------------------
(***************************************************************************)
(* What the job queue promises its users, without workers and channels:    *)
(* only an active job is started, the jobs of one related object run one   *)
(* at a time, only the run of a job settles it, and no run is started      *)
(* twice at once.  A run may be abandoned (an error, a crash): its job is  *)
(* left as it was and can be started again.                                *)
(***************************************************************************)
CONSTANTS Jobs, RelOf

VARIABLES
  status,   \* [Jobs -> {"none", "active", "done", "failed", "canceled"}]
  running   \* the jobs being run

vars == <<status, running>>

Init ==
  /\ status = [j \in Jobs |-> "none"]
  /\ running = {}

Add(j) ==
  /\ status[j] = "none"
  /\ status' = [status EXCEPT ![j] = "active"]
  /\ UNCHANGED running

\* A job is added and every other active job of its related object canceled.
Terminate(j) ==
  /\ status[j] = "none"
  /\ status' = [i \in Jobs |->
                  IF i = j THEN "active"
                  ELSE IF status[i] = "active" /\ RelOf[i] = RelOf[j] THEN "canceled"
                  ELSE status[i]]
  /\ UNCHANGED running

\* ReactivateJob.
Reactivate(j) ==
  /\ status[j] # "none"
  /\ status' = [status EXCEPT ![j] = "active"]
  /\ UNCHANGED running

Start(j) ==
  /\ status[j] = "active"
  /\ \A i \in running : RelOf[i] # RelOf[j]
  /\ running' = running \cup {j}
  /\ UNCHANGED status

\* The run ends: the job is done, failed, still canceled, or to be retried.
Settle(j) ==
  /\ j \in running
  /\ status[j] \in {"active", "canceled"}
  /\ \E s \in {"active", "canceled", "done", "failed"} :
       status' = [status EXCEPT ![j] = s]
  /\ running' = running \ {j}

Abandon ==
  /\ running' \in SUBSET running
  /\ UNCHANGED status

Next ==
  \/ \E j \in Jobs : Add(j) \/ Terminate(j) \/ Reactivate(j) \/ Start(j) \/ Settle(j)
  \/ Abandon

Spec == Init /\ [][Next]_vars
=============================================================================
