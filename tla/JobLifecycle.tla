---------------------------- MODULE JobLifecycle ----------------------------
(***************************************************************************)
(* What the platform promises of a Job, without an outbox, a broker or a   *)
(* worker's reads: the lifecycle of FR-399 (VALID_TRANSITIONS of           *)
(* packages/model-schema/src/model_schema/jobs.py), one Job per            *)
(* idempotency key, and at most one run of a Job, made by one worker.      *)
(***************************************************************************)
CONSTANTS Jobs, Workers, KeyOf, None

VARIABLES
  status,      \* of each Job; "none" before it is submitted
  cancelling,  \* Jobs somebody asked to stop
  runners      \* the workers that run the Job's handler now
vars == <<status, cancelling, runners>>

Init ==
  /\ status = [j \in Jobs |-> "none"]
  /\ cancelling = {}
  /\ runners = [j \in Jobs |-> {}]

Submit(j) ==
  /\ status[j] = "none"
  /\ KeyOf[j] # None =>
       \A other \in Jobs : KeyOf[other] = KeyOf[j] => status[other] = "none"
  /\ status' = [status EXCEPT ![j] = "queued"]
  /\ UNCHANGED <<cancelling, runners>>

\* A worker starts the Job: once, as a Job never becomes queued again.
Start(j, w) ==
  /\ status[j] = "queued" /\ j \notin cancelling
  /\ status' = [status EXCEPT ![j] = "running"]
  /\ runners' = [runners EXCEPT ![j] = @ \cup {w}]
  /\ UNCHANGED cancelling

\* A Job that no worker runs is refused, or stopped before it runs.
EndUnstarted(j) ==
  /\ status[j] = "queued"
  /\ \E to \in {"failed", "cancelled"} : status' = [status EXCEPT ![j] = to]
  /\ cancelling' = IF status'[j] = "cancelled" THEN cancelling \cup {j} ELSE cancelling
  /\ UNCHANGED runners

AskToStop(j) ==
  /\ status[j] = "running"
  /\ cancelling' = cancelling \cup {j}
  /\ UNCHANGED <<status, runners>>

\* The run is over before its outcome is recorded: its worker returned, or died.
RunEnds(j) ==
  /\ \E w \in runners[j] : runners' = [runners EXCEPT ![j] = @ \ {w}]
  /\ UNCHANGED <<status, cancelling>>

Record(j) ==
  /\ status[j] = "running" /\ runners[j] = {}
  /\ \E to \in {"succeeded", "failed", "cancelled"} :
       /\ to = "cancelled" => j \in cancelling
       /\ status' = [status EXCEPT ![j] = to]
  /\ UNCHANGED <<cancelling, runners>>

Next ==
  \E j \in Jobs :
    \/ Submit(j) \/ EndUnstarted(j) \/ AskToStop(j) \/ RunEnds(j) \/ Record(j)
    \/ \E w \in Workers : Start(j, w)

Spec == Init /\ [][Next]_vars
=============================================================================
