------------------------------ MODULE CallJobs ------------------------------
(***************************************************************************)
(* The job of one call ticketing owes its payment provider: a BullMQ job   *)
(* under the call's own key, retried on a schedule, removed once settled   *)
(* (apps/ticketing/src/payments/provider-call-queues.ts).  A refund        *)
(* (RefundCalls) and an intent's cancellation (IntentCancellations) are    *)
(* each one such job, run by a worker in steps:                            *)
(*                                                                         *)
(*   reading    the row is read, to see whether the call is still owed     *)
(*   calling    it is, and the provider is about to be asked               *)
(*   recording  the provider answered, its answer is about to be saved     *)
(*   failing    an error was thrown, and is about to be handled            *)
(*   ending     it is handled or saved, and BullMQ is about to remove it   *)
(*                                                                         *)
(* A worker lost mid-job leaves it active; BullMQ moves it back to wait,   *)
(* up to MaxStalled times, and past that fails it unrun.                   *)
(***************************************************************************)
EXTENDS Integers

CONSTANTS
    Attempts,    \* attempts a job is allowed: one more than its delays
    Waits,       \* Waits[k]: the jittered delays that may follow k failures
    MaxStalled   \* PROVIDER_CALL_MAX_STALLED_COUNT

ASSUME AttemptsAssumption == Attempts \in Nat \ {0}
ASSUME WaitsAssumption == Waits \in [1 .. Attempts - 1 -> SUBSET (Nat \ {0})]
ASSUME MaxStalledAssumption == MaxStalled \in Nat

Stages == {"reading", "calling", "recording", "failing", "ending"}

Job == [state : {"none", "waiting", "delayed", "active"},
        stage : Stages \union {"idle"},
        attemptsMade : 0 .. Attempts - 1,
        stalls : 0 .. MaxStalled + 1,
        added : Nat,
        due : Nat]

(* Nothing kept once settled: a job kept would block its id when a replay  *)
(* enqueues it again.                                                      *)
NoJob == [state |-> "none", stage |-> "idle", attemptsMade |-> 0, stalls |-> 0,
          added |-> 0, due |-> 0]

NewJob(now) == [NoJob EXCEPT !.state = "waiting", !.added = now, !.due = now]

(* BullMQ ignores an id it already holds: enqueued twice, it runs once.    *)
add(j, now) == IF j.state = "none" THEN NewJob(now) ELSE j

isLastAttempt(j) == j.attemptsMade + 1 >= Attempts

stalledPastBound(j) == j.stalls > MaxStalled

(* A worker may take it: waiting, or its backoff over.                     *)
Runnable(j, now) == j.state = "waiting" \/ (j.state = "delayed" /\ j.due <= now)

Running(j, stage) == j.state = "active" /\ j.stage = stage

taken(j) == [j EXCEPT !.state = "active", !.stage = "reading"]

at(j, stage) == [j EXCEPT !.stage = stage]

(* Back to wait for its next attempt, the worker's backoffStrategy answering *)
(* the wait.                                                               *)
retried(j, now, wait) ==
    [j EXCEPT !.state = "delayed", !.stage = "idle", !.attemptsMade = @ + 1, !.due = now + wait]

(* A worker was lost mid-job, and the stalled check found it.              *)
stalled(j) == [j EXCEPT !.state = "waiting", !.stage = "idle", !.stalls = @ + 1]

(* A job waiting its backoff runs now.                                     *)
promoted(j) == IF j.state = "delayed" THEN [j EXCEPT !.state = "waiting"] ELSE j
=============================================================================
