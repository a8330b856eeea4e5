---------------------------- MODULE JobLifecycle ----------------------------
(***************************************************************************)
(* What an Ingestion Job promises, whoever drives it.  A job is created    *)
(* queued, is worked on in numbered attempts, and ends for good: the       *)
(* durable transitions are queued -> processing, retry_scheduled ->        *)
(* processing and processing -> retry_scheduled | succeeded | superseded | *)
(* failed.  The budget of attempts belongs to the job, and a retry can     *)
(* only be scheduled while some of it is left.                             *)
(*                                                                         *)
(* IngestionCoordination implements this specification.                    *)
(***************************************************************************)
EXTENDS Naturals

CONSTANTS
    Jobs,         \* identities of Ingestion Jobs
    MaxAttempts   \* ingestion_jobs.max_attempts: the total budget of a job

VARIABLES
    status,       \* job -> public status, "absent" before the job exists
    count         \* job -> ingestion_jobs.attempt_count

lifecycleVars == <<status, count>>

Terminal == {"succeeded", "superseded", "failed"}
Status == {"absent", "queued", "processing", "retry_scheduled"} \cup Terminal

-----------------------------------------------------------------------------

Init ==
    /\ status = [j \in Jobs |-> "absent"]
    /\ count = [j \in Jobs |-> 0]

Create(j) ==
    /\ status[j] = "absent"
    /\ status' = [status EXCEPT ![j] = "queued"]
    /\ UNCHANGED count

\* Entering processing starts one more counted attempt.
Start(j) ==
    /\ status[j] \in {"queued", "retry_scheduled"}
    /\ count[j] < MaxAttempts
    /\ status' = [status EXCEPT ![j] = "processing"]
    /\ count' = [count EXCEPT ![j] = @ + 1]

\* A final counted attempt cannot schedule another retry.
Reschedule(j) ==
    /\ status[j] = "processing"
    /\ count[j] < MaxAttempts
    /\ status' = [status EXCEPT ![j] = "retry_scheduled"]
    /\ UNCHANGED count

Finish(j, outcome) ==
    /\ status[j] = "processing"
    /\ status' = [status EXCEPT ![j] = outcome]
    /\ UNCHANGED count

Next ==
    \E j \in Jobs :
        \/ Create(j)
        \/ Start(j)
        \/ Reschedule(j)
        \/ \E outcome \in Terminal : Finish(j, outcome)

Spec == Init /\ [][Next]_lifecycleVars

=============================================================================
