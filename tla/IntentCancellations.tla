------------------------ MODULE IntentCancellations ------------------------
(***************************************************************************)
(* How the cancellation of a payment intent reaches the provider once its  *)
(* order failed: the mark on the order's row, the relay that enqueues it,  *)
(* the worker's jobs, a late payment that clears it, an intent reported    *)
(* still waiting that owes it again (apps/ticketing/src/payments:          *)
(* owed-call-relay.ts, intent-cancellation.processor.ts, owed-calls.ts,    *)
(* apply-payment-events.handler.ts; orders/fail-unpaid-order.ts,           *)
(* orders/record-waiting-intent.ts).                                       *)
(*                                                                         *)
(* The clock is left out: a job waiting its backoff may run at any moment, *)
(* and a row enqueued recently may any moment have been enqueued longer    *)
(* ago than the whole schedule.                                            *)
(***************************************************************************)
EXTENDS CallJobs, OwedIntents

CONSTANTS
    MaxReports,  \* bound on how often an intent is reported waiting, by tx B or a webhook
    MaxLosses,   \* bound on the jobs Redis loses and the dead marks the database loses
    MaxReplays   \* bound on the operator's replays

VARIABLES
    job,      \* the intent-cancellation queue: the job under each order's key
    relay,    \* the orders the relay's open transaction claimed
    reports, losses, replays

bounds == <<reports, losses, replays>>
vars == <<order, intent, job, relay, bounds>>

Init ==
    /\ order = [o \in Orders |-> NewOrder]
    /\ intent = [o \in Orders |-> "waiting"]
    /\ job = [o \in Orders |-> NoJob]
    /\ relay = {}
    /\ reports = 0 /\ losses = 0 /\ replays = 0

Locked(o) == o \in relay

(* Every row enqueued once is taken to be in its job's hands.              *)
DueNeverEnqueued(o) == Owed(o) /\ order[o].enqueued = "never"

(* DUE_INTENT_CANCELLATIONS_SQL                                            *)
Due(o) == Owed(o) /\ order[o].enqueued # "recently"

-----------------------------------------------------------------------------
(* The order                                                               *)

(* Its hold expires: its intent's cancellation is owed, where it has one.  *)
ExpireOrder(o) ==
    /\ order[o].state = "awaiting" /\ ~Locked(o)
    /\ order' = [order EXCEPT ![o].state = "failed", ![o].owed = order[o].intentKnown]
    /\ UNCHANGED <<intent, job, relay, bounds>>

(* failUnpaidOrder: its payment failed, by a webhook or the provider's     *)
(* answer in tx B.  The intent is left as it is, and nothing is owed.      *)
FailUnpaidOrder(o) ==
    /\ order[o].state = "awaiting" /\ ~Locked(o)
    /\ order' = [order EXCEPT ![o].state = "failed", ![o].declined = TRUE]
    /\ UNCHANGED <<intent, job, relay, bounds>>

(* recordWaitingIntent: an intent reported waiting, on an order that       *)
(* failed, owes its cancellation again, its attempts anew.                 *)
RecordWaitingIntent(o) ==
    /\ reports < MaxReports
    /\ order[o].state # "paid" /\ ~Locked(o)
    /\ order' = [order EXCEPT
          ![o] = IF @.state = "failed"
                 THEN [@ EXCEPT !.intentKnown = TRUE, !.owed = TRUE, !.dead = FALSE,
                                !.enqueued = "never", !.declined = FALSE]
                 ELSE [@ EXCEPT !.intentKnown = TRUE]]
    /\ reports' = reports + 1
    /\ UNCHANGED <<intent, job, relay, losses, replays>>

(* A payment confirmed clears the mark: it is seated, or owed back.        *)
ConfirmPayment(o) ==
    /\ intent[o] = "succeeded" /\ ~order[o].settled /\ ~Locked(o)
    /\ \E state \in {"paid"} \union ({order[o].state} \intersect {"failed"}) :
          order' = [order EXCEPT ![o].state = state, ![o].settled = TRUE,
                                 ![o].intentKnown = TRUE, ![o].owed = FALSE]
    /\ UNCHANGED <<intent, job, relay, bounds>>

(* The buyer or the bank completes the payment at the provider.            *)
IntentSucceeds(o) ==
    /\ intent[o] = "waiting"
    /\ intent' = [intent EXCEPT ![o] = "succeeded"]
    /\ UNCHANGED <<order, job, relay, bounds>>

(* INTENT_CANCELLATION_REPLAY                                              *)
Replay(o) ==
    /\ replays < MaxReplays
    /\ order[o].dead /\ ~Locked(o)
    /\ order' = [order EXCEPT ![o].dead = FALSE, ![o].enqueued = "never"]
    /\ replays' = replays + 1
    /\ UNCHANGED <<intent, job, relay, reports, losses>>

(* The stale window passes over a row.                                     *)
BecomeStale(o) ==
    /\ order[o].enqueued = "recently"
    /\ order' = [order EXCEPT ![o].enqueued = "stale"]
    /\ UNCHANGED <<intent, job, relay, bounds>>

-----------------------------------------------------------------------------
(* The relay's transaction                                                 *)

(* The rows due are claimed and their jobs added ...                       *)
RelayIntentCancellations ==
    LET due == {o \in Orders : Due(o)}
    IN  /\ relay = {} /\ due # {}
        /\ relay' = due
        /\ job' = [o \in Orders |-> IF o \in due THEN add(job[o], 0) ELSE job[o]]
        /\ UNCHANGED <<order, intent, bounds>>

(* ... then stamped, and the transaction commits.                          *)
StampIntentCancellations ==
    /\ relay # {}
    /\ order' = [o \in Orders |-> IF Locked(o) THEN [order[o] EXCEPT !.enqueued = "recently"]
                                               ELSE order[o]]
    /\ relay' = {}
    /\ UNCHANGED <<intent, job, bounds>>

(* A crash between the add and the commit: the jobs stay.                  *)
RelayCrashes ==
    /\ relay # {}
    /\ relay' = {}
    /\ UNCHANGED <<order, intent, job, bounds>>

-----------------------------------------------------------------------------
(* The intent-cancellation processor                                       *)

Moves(o, j) ==
    /\ job' = [job EXCEPT ![o] = j]
    /\ UNCHANGED <<order, intent, relay, bounds>>

(* giveUpIntentCancellation, best effort: its write may fail.              *)
GivesUp(o) ==
    /\ ~Locked(o)
    /\ \/ /\ order' = [order EXCEPT ![o].dead = @ \/ order[o].owed]
          /\ losses' = losses
       \/ /\ losses < MaxLosses
          /\ order' = order
          /\ losses' = losses + 1
    /\ UNCHANGED <<intent, relay, reports, replays>>

TakeJob(o) ==
    /\ Runnable(job[o], 0) /\ ~stalledPastBound(job[o])
    /\ job' = [job EXCEPT ![o] = taken(@)]
    /\ UNCHANGED <<order, intent, relay, bounds>>

(* onFailed: stalled past its bound, the job is failed and removed unrun.  *)
FailStalled(o) ==
    /\ Runnable(job[o], 0) /\ stalledPastBound(job[o])
    /\ job' = [job EXCEPT ![o] = NoJob]
    /\ GivesUp(o)

(* Cleared or given up on, the job ends without a call.                    *)
NothingOwed(o) ==
    /\ Running(job[o], "reading") /\ ~(Owed(o) /\ order[o].intentKnown)
    /\ Moves(o, at(job[o], "ending"))

ReadCancellation(o) ==
    /\ Running(job[o], "reading") /\ Owed(o) /\ order[o].intentKnown
    /\ job' = [job EXCEPT ![o] = at(@, "calling")]
    /\ UNCHANGED <<order, intent, relay, bounds>>

(* cancelIntent leaves one that succeeded alone; its answer may be lost.   *)
CancelIntent(o) ==
    /\ Running(job[o], "calling")
    /\ intent' = [intent EXCEPT ![o] = IF @ = "succeeded" THEN @ ELSE "canceled"]
    /\ \E stage \in {"recording", "failing"} : job' = [job EXCEPT ![o] = at(@, stage)]
    /\ UNCHANGED <<order, relay, bounds>>

(* The refusal swallowed: the call is taken for made.                      *)
ProviderFailsQuietly(o) ==
    /\ Running(job[o], "calling")
    /\ Moves(o, at(job[o], "recording"))

ProviderFails(o) ==
    /\ Running(job[o], "calling")
    /\ Moves(o, at(job[o], "failing"))

(* intentCancelled, saved.                                                 *)
RecordCancelled(o) ==
    /\ Running(job[o], "recording") /\ ~Locked(o)
    /\ order' = [order EXCEPT ![o].owed = FALSE]
    /\ job' = [job EXCEPT ![o] = at(@, "ending")]
    /\ UNCHANGED <<intent, relay, bounds>>

RecordFails(o) ==
    /\ Running(job[o], "recording")
    /\ Moves(o, at(job[o], "failing"))

RetryCall(o) ==
    /\ Running(job[o], "failing") /\ ~isLastAttempt(job[o])
    /\ Moves(o, retried(job[o], 0, 0))

GiveUpCall(o) ==
    /\ Running(job[o], "failing") /\ isLastAttempt(job[o])
    /\ job' = [job EXCEPT ![o] = at(@, "ending")]
    /\ GivesUp(o)

(* Completed or failed for good, the job is removed.                       *)
RemoveJob(o) ==
    /\ Running(job[o], "ending")
    /\ Moves(o, NoJob)

(* The worker is lost mid-job: BullMQ's stalled check moves it to wait.    *)
Stall(o) ==
    /\ job[o].state = "active"
    /\ Moves(o, stalled(job[o]))

(* Redis loses a job no worker holds.                                      *)
LoseJob(o) ==
    /\ losses < MaxLosses
    /\ job[o].state \in {"waiting", "delayed"}
    /\ job' = [job EXCEPT ![o] = NoJob]
    /\ losses' = losses + 1
    /\ UNCHANGED <<order, intent, relay, reports, replays>>

-----------------------------------------------------------------------------
Process(o) ==
    \/ TakeJob(o) \/ FailStalled(o)
    \/ NothingOwed(o) \/ ReadCancellation(o)
    \/ CancelIntent(o) \/ ProviderFails(o)
    \/ RecordCancelled(o) \/ RecordFails(o)
    \/ RetryCall(o) \/ GiveUpCall(o) \/ RemoveJob(o)

Next ==
    \/ \E o \in Orders :
          \/ ExpireOrder(o) \/ FailUnpaidOrder(o)
          \/ RecordWaitingIntent(o) \/ ConfirmPayment(o) \/ IntentSucceeds(o)
          \/ Replay(o) \/ BecomeStale(o) \/ Process(o) \/ Stall(o) \/ LoseJob(o)
    \/ RelayIntentCancellations \/ StampIntentCancellations \/ RelayCrashes

Spec == Init /\ [][Next]_vars

(* The clock, the relay and the worker's queue go on, a statement waiting  *)
(* for a row the relay claimed gets it in the end, and a relay that        *)
(* crashes on every pass is no worker.                                     *)
Fairness ==
    /\ WF_vars(RelayIntentCancellations) /\ SF_vars(StampIntentCancellations)
    /\ \A o \in Orders : SF_vars(Process(o)) /\ WF_vars(BecomeStale(o))

FairSpec == Spec /\ Fairness

-----------------------------------------------------------------------------
(* Rows and jobs are of their types: no job is tried or stalls past its    *)
(* bound.                                                                  *)
TypeOK ==
    /\ order \in [Orders -> SeatOrderRow]
    /\ intent \in [Orders -> {"waiting", "succeeded", "canceled"}]
    /\ job \in [Orders -> Job]
    /\ relay \in SUBSET Orders
    /\ reports \in Nat /\ losses \in Nat /\ replays \in Nat

(* Every cancellation owed is made, cleared by a payment or given up on in *)
(* the end: one whose job Redis lost, or whose dead mark was not written,  *)
(* is enqueued again past the stale window (owed-call-relay.ts).           *)
CancellationsEnd == \A o \in Orders : Owed(o) ~> ~Owed(o)

=============================================================================
