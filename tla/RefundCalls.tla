---------------------------- MODULE RefundCalls ----------------------------
(***************************************************************************)
(* How a refund owed reaches the provider: the order_refund rows, the      *)
(* relay that enqueues them, the worker's jobs, the sweep that gives up on *)
(* those lost, a webhook's request to run a call again and the operator's  *)
(* replay (apps/ticketing/src/payments: owed-call-relay.ts,                *)
(* refund.processor.ts, refund-ledger.ts, provider-call-checks.ts).        *)
(*                                                                         *)
(* The provider makes a refund once per key, but forgets a key Retention   *)
(* after it first met it: asked again past that, it refunds again.         *)
(*                                                                         *)
(* While the worker process is up it keeps up: no tick of the clock passes *)
(* over a job or a row that is due.  While it is down, at most MaxOutages  *)
(* times, the rows and the jobs stay as they are and the clock runs.       *)
(***************************************************************************)
EXTENDS CallJobs, FiniteSets

CONSTANTS
    Refunds,     \* the refunds one order comes to owe
    StaleAfter,  \* staleAfterMs: an enqueued row unsettled that long is given up on
    Retention,   \* PROVIDER_KEY_RETENTION_MS
    Latest,      \* Latest[k]: how long after it was enqueued a job's attempt after k
                 \*   failures may be due, the schedule and its jitter added up
    MaxOutages,  \* bound on how often the worker process goes down
    MaxTime,     \* bound on the clock
    MaxLosses,   \* bound on how often Redis loses its jobs
    MaxReplays   \* bound on the operator's replays

ASSUME StaleAfterAssumption == StaleAfter \in Nat /\ Retention \in Nat
(* doublingDelays stops short of REFUND_RETRIES_WITHIN_MS, inside the      *)
(* retention: every attempt the schedule allows lands under it.            *)
ASSUME ScheduleAssumption ==
    /\ Latest \in [0 .. Attempts - 1 -> Nat]
    /\ \A k \in 1 .. Attempts - 1 : \A wait \in Waits[k] : Latest[k - 1] + wait <= Latest[k]
    /\ \A k \in 0 .. Attempts - 1 : Latest[k] < Retention
ASSUME OutagesAssumption == MaxOutages \in Nat

Never == -1

VARIABLES
    now,       \* the clock
    row,       \* order_refund, one row per refund
    job,       \* the refund queue: the job under each refund's key
    relay,     \* the relay's open transaction: the rows it claimed, and its clock
    provider,  \* what the provider did under each key
    disputed,  \* the order is disputed
    up,        \* the worker process runs
    outages,   \* how often it went down
    losses,    \* how often Redis lost its jobs
    replays    \* how often the operator replayed a refund

worker == <<up, outages, losses, replays>>
vars == <<now, row, job, relay, provider, disputed, worker>>

OrderRefundRow ==
    [owed : BOOLEAN, made : BOOLEAN, dead : BOOLEAN, rerun : BOOLEAN,
     enqueued : Nat \union {Never}]

NoRow == [owed |-> FALSE, made |-> FALSE, dead |-> FALSE, rerun |-> FALSE, enqueued |-> Never]

NoClaim == [rows |-> {}, nowMs |-> 0]

Init ==
    /\ now = 0
    /\ row = [r \in Refunds |-> NoRow]
    /\ job = [r \in Refunds |-> NoJob]
    /\ relay = NoClaim
    /\ provider = [r \in Refunds |-> [times |-> 0, keyAt |-> 0]]
    /\ disputed = FALSE
    /\ up = TRUE
    /\ outages = 0 /\ losses = 0 /\ replays = 0

-----------------------------------------------------------------------------
(* Rows                                                                    *)

(* The refund made not looked at, the dead mark alone.                     *)
UnsettledUnlessDead(r) == row[r].owed /\ ~row[r].dead

(* Owed, neither made nor given up on.                                     *)
Unsettled(r) == row[r].owed /\ ~row[r].made /\ ~row[r].dead

(* DUE_REFUNDS_SQL                                                         *)
Due(r) == Unsettled(r) /\ row[r].enqueued = Never

(* The stale window counted in a smaller unit than the clock's.            *)
LostInSeconds(r) ==
    Unsettled(r) /\ row[r].enqueued # Never /\ row[r].enqueued < now - 60 * StaleAfter

(* LOST_REFUNDS_SQL: enqueued longer ago than the whole schedule.          *)
Lost(r) == Unsettled(r) /\ row[r].enqueued # Never /\ row[r].enqueued < now - StaleAfter

Locked(r) == r \in relay.rows

(* giveUpRefund: kept, owed, and never asked again until replayed.         *)
giveUpRefund(x) == [x EXCEPT !.dead = @ \/ ~x.made]

-----------------------------------------------------------------------------
(* What reaches the rows from elsewhere                                    *)

(* A transaction owes the order a refund.                                  *)
OweRefund(r) ==
    /\ ~row[r].owed /\ ~disputed
    /\ row' = [row EXCEPT ![r].owed = TRUE]
    /\ UNCHANGED <<now, job, relay, provider, disputed, worker>>

(* The provider reports money refunded on the order: each refund still     *)
(* owed that the amount could cover is asked again.                        *)
AskRefundCallsAgain(rs) ==
    /\ \E r \in Refunds : provider[r].times > 0
    /\ rs # {} /\ \A r \in rs : Unsettled(r) /\ ~row[r].rerun /\ ~Locked(r)
    /\ row' = [r \in Refunds |-> [row[r] EXCEPT !.rerun = @ \/ r \in rs]]
    /\ UNCHANGED <<now, job, relay, provider, disputed, worker>>

(* The dispute's webhook is applied.                                       *)
Dispute ==
    /\ ~disputed
    /\ disputed' = TRUE
    /\ UNCHANGED <<now, row, job, relay, provider, worker>>

(* The operator replays a refund given up on, once looked up at the        *)
(* provider and not found there, and not on a disputed order.              *)
Replay(r) ==
    /\ replays < MaxReplays
    /\ row[r].dead /\ ~row[r].made /\ ~Locked(r)
    /\ provider[r].times = 0 /\ ~disputed
    /\ row' = [row EXCEPT ![r].dead = FALSE, ![r].enqueued = Never]
    /\ replays' = replays + 1
    /\ UNCHANGED <<now, job, relay, provider, disputed, up, outages, losses>>

-----------------------------------------------------------------------------
(* The relay's pass, one transaction after the other                       *)

(* Given back to the relay, as a cancellation is.                          *)
GiveUpLostRefundsAgain ==
    /\ up /\ \E r \in Refunds : Lost(r) /\ ~Locked(r)
    /\ row' = [r \in Refunds |->
                  [row[r] EXCEPT !.enqueued = IF Lost(r) /\ ~Locked(r) THEN Never ELSE @]]
    /\ UNCHANGED <<now, job, relay, provider, disputed, worker>>

GiveUpLostRefunds ==
    /\ up /\ \E r \in Refunds : Lost(r) /\ ~Locked(r)
    /\ row' = [r \in Refunds |->
                  [row[r] EXCEPT !.dead = @ \/ (Lost(r) /\ ~Locked(r))]]
    /\ UNCHANGED <<now, job, relay, provider, disputed, worker>>

(* The rows due are claimed and their jobs added ...                       *)
RelayRefunds ==
    LET due == {r \in Refunds : Due(r)}
    IN  /\ up /\ relay = NoClaim /\ due # {}
        /\ relay' = [rows |-> due, nowMs |-> now]
        /\ job' = [r \in Refunds |-> IF r \in due THEN add(job[r], now) ELSE job[r]]
        /\ UNCHANGED <<now, row, provider, disputed, worker>>

(* ... then stamped, and the transaction commits.                          *)
StampRefunds ==
    /\ relay # NoClaim
    /\ row' = [r \in Refunds |->
                  IF Locked(r) THEN [row[r] EXCEPT !.enqueued = relay.nowMs] ELSE row[r]]
    /\ relay' = NoClaim
    /\ UNCHANGED <<now, job, provider, disputed, worker>>

(* A crash between the add and the commit: the jobs stay.                  *)
RelayCrashes ==
    /\ relay # NoClaim
    /\ relay' = NoClaim
    /\ UNCHANGED <<now, row, job, provider, disputed, worker>>

(* A call asked again runs now if it waits its backoff; a running one      *)
(* keeps the request for the next pass.                                    *)
RerunAskedRefunds ==
    LET asked == {r \in Refunds : row[r].rerun /\ ~Locked(r)}
        rerun == {r \in asked : Unsettled(r)}
        answered == {r \in asked : r \in rerun => job[r].state # "active"}
    IN  /\ up /\ answered # {}
        /\ job' = [r \in Refunds |-> IF r \in rerun THEN promoted(job[r]) ELSE job[r]]
        /\ row' = [r \in Refunds |-> [row[r] EXCEPT !.rerun = @ /\ r \notin answered]]
        /\ UNCHANGED <<now, relay, provider, disputed, worker>>

-----------------------------------------------------------------------------
(* The refund processor                                                    *)

(* The processor is done with its job, the row left as x.  The mark of a   *)
(* refund given up is best effort: its write may fail, and the job ends.   *)
Ends(r, x) ==
    /\ job' = [job EXCEPT ![r] = at(@, "ending")]
    /\ row' \in {row, [row EXCEPT ![r] = x]}
    /\ UNCHANGED <<now, relay, provider, disputed, worker>>

Moves(r, j) ==
    /\ job' = [job EXCEPT ![r] = j]
    /\ UNCHANGED <<now, row, relay, provider, disputed, worker>>

TakeJob(r) ==
    /\ up /\ Runnable(job[r], now) /\ ~stalledPastBound(job[r])
    /\ Moves(r, taken(job[r]))

(* onFailed: stalled past its bound, the job is failed and removed unrun.  *)
FailStalled(r) ==
    /\ up /\ Runnable(job[r], now) /\ stalledPastBound(job[r]) /\ ~Locked(r)
    /\ job' = [job EXCEPT ![r] = NoJob]
    /\ row' \in {row, [row EXCEPT ![r] = giveUpRefund(@)]}
    /\ UNCHANGED <<now, relay, provider, disputed, worker>>

(* Made or given up on, the refund settles the job without a call.         *)
SettledAlready(r) ==
    /\ Running(job[r], "reading") /\ ~Unsettled(r)
    /\ Ends(r, row[r])

(* On a disputed order it is given up at once.                             *)
GiveUpDisputed(r) ==
    /\ Running(job[r], "reading") /\ Unsettled(r) /\ disputed /\ ~Locked(r)
    /\ Ends(r, giveUpRefund(row[r]))

ReadRefund(r) ==
    /\ Running(job[r], "reading") /\ Unsettled(r) /\ ~disputed
    /\ Moves(r, at(job[r], "calling"))

(* The refund under its key: the one made already while the provider       *)
(* remembers the key, another one past its retention.                      *)
Refunded(p) ==
    IF p.times > 0 /\ now - p.keyAt < Retention
    THEN p
    ELSE [times |-> p.times + 1, keyAt |-> now]

(* The provider refunds, and its answer may be lost on the way back.       *)
AskProvider(r) ==
    /\ Running(job[r], "calling")
    /\ provider' = [provider EXCEPT ![r] = Refunded(@)]
    /\ \E stage \in {"recording", "failing"} : job' = [job EXCEPT ![r] = at(@, stage)]
    /\ UNCHANGED <<now, row, relay, disputed, worker>>

(* The provider does not answer, or refuses.                               *)
ProviderFails(r) ==
    /\ Running(job[r], "calling")
    /\ Moves(r, at(job[r], "failing"))

(* refundMade, saved.                                                      *)
RecordRefund(r) ==
    /\ Running(job[r], "recording") /\ ~Locked(r)
    /\ row' = [row EXCEPT ![r].made = TRUE]
    /\ job' = [job EXCEPT ![r] = at(@, "ending")]
    /\ UNCHANGED <<now, relay, provider, disputed, worker>>

RecordFails(r) ==
    /\ Running(job[r], "recording")
    /\ Moves(r, at(job[r], "failing"))

RetryRefund(r) ==
    /\ Running(job[r], "failing") /\ ~isLastAttempt(job[r])
    /\ \E wait \in Waits[job[r].attemptsMade + 1] : Moves(r, retried(job[r], now, wait))

GiveUpRefund(r) ==
    /\ Running(job[r], "failing") /\ isLastAttempt(job[r]) /\ ~Locked(r)
    /\ Ends(r, giveUpRefund(row[r]))

(* Completed or failed for good, the job is removed.                       *)
RemoveJob(r) ==
    /\ Running(job[r], "ending")
    /\ Moves(r, NoJob)

(* The worker is lost mid-job: BullMQ's stalled check moves it to wait.    *)
Stall(r) ==
    /\ job[r].state = "active"
    /\ Moves(r, stalled(job[r]))

(* The worker process goes down: its transaction rolls back, its jobs are  *)
(* left for the stalled check of whoever comes up.                         *)
GoDown ==
    /\ up /\ outages < MaxOutages
    /\ up' = FALSE
    /\ outages' = outages + 1
    /\ relay' = NoClaim
    /\ job' = [r \in Refunds |-> IF job[r].state = "active" THEN stalled(job[r]) ELSE job[r]]
    /\ UNCHANGED <<now, row, provider, disputed, losses, replays>>

ComeUp ==
    /\ ~up
    /\ up' = TRUE
    /\ UNCHANGED <<now, row, job, relay, provider, disputed, outages, losses, replays>>

(* Redis loses the jobs no worker holds.                                   *)
LoseJobs ==
    /\ losses < MaxLosses
    /\ \E r \in Refunds : job[r].state \in {"waiting", "delayed"}
    /\ job' = [r \in Refunds |-> IF job[r].state = "active" THEN job[r] ELSE NoJob]
    /\ losses' = losses + 1
    /\ UNCHANGED <<now, row, relay, provider, disputed, up, outages, replays>>

-----------------------------------------------------------------------------
(* Nothing the worker process should have done by now is left to do.       *)
KeptUp ==
    /\ relay = NoClaim
    /\ \A r \in Refunds :
          /\ ~Due(r) /\ ~Lost(r)
          /\ job[r].state # "active" /\ ~Runnable(job[r], now)

Tick ==
    /\ now < MaxTime
    /\ up => KeptUp
    /\ now' = now + 1
    /\ UNCHANGED <<row, job, relay, provider, disputed, worker>>

Process(r) ==
    \/ TakeJob(r) \/ FailStalled(r)
    \/ SettledAlready(r) \/ GiveUpDisputed(r) \/ ReadRefund(r)
    \/ AskProvider(r) \/ ProviderFails(r)
    \/ RecordRefund(r) \/ RecordFails(r)
    \/ RetryRefund(r) \/ GiveUpRefund(r) \/ RemoveJob(r)

Relay == GiveUpLostRefunds \/ RelayRefunds \/ StampRefunds \/ RerunAskedRefunds

Next ==
    \/ \E r \in Refunds : OweRefund(r) \/ Replay(r) \/ Process(r) \/ Stall(r)
    \/ \E rs \in SUBSET Refunds : AskRefundCallsAgain(rs)
    \/ Dispute \/ Relay \/ RelayCrashes \/ GoDown \/ ComeUp \/ LoseJobs \/ Tick

Spec == Init /\ [][Next]_vars

(* The worker's queue, its relay and the clock go on; a relay that crashes *)
(* on every pass is no worker.                                             *)
Fairness ==
    /\ WF_vars(Tick) /\ WF_vars(ComeUp) /\ WF_vars(GiveUpLostRefunds)
    /\ WF_vars(RelayRefunds) /\ SF_vars(StampRefunds) /\ WF_vars(RerunAskedRefunds)
    /\ \A r \in Refunds : WF_vars(Process(r))

FairSpec == Spec /\ Fairness

-----------------------------------------------------------------------------
(* Rows, jobs and the provider's memory are of their types, so no counter  *)
(* of attempts or stalls passes its bound.                                 *)
TypeOK ==
    /\ now \in Nat /\ outages \in Nat /\ losses \in Nat /\ replays \in Nat
    /\ up \in BOOLEAN
    /\ row \in [Refunds -> OrderRefundRow]
    /\ job \in [Refunds -> Job]
    /\ relay \in [rows : SUBSET Refunds, nowMs : Nat]
    /\ provider \in [Refunds -> [times : Nat, keyAt : Nat]]
    /\ disputed \in BOOLEAN

(* No refund is made twice (owed-calls.ts: "every automatic attempt lands  *)
(* an hour inside" the provider's memory of its key).                      *)
RefundedOnce == \A r \in Refunds : provider[r].times <= 1

(* Until the worker process first goes down, none is, through every retry, *)
(* stall, lost job, lost answer, rerun and replay.                         *)
RefundedOnceWhileUp == outages = 0 => RefundedOnce

(* A refund recorded as made was made by the provider and is never asked   *)
(* again: not by a job added twice, a rerun, a replay, nor the jobs an     *)
(* outage left behind (refund.processor.ts reads the row at each attempt). *)
MadeNotAskedAgain ==
    \A r \in Refunds :
        row[r].made => provider[r].times > 0 /\ ~Running(job[r], "calling")

(* Every refund owed is made or given up on in the end, or the worker      *)
(* process goes down first, whatever was lost on its way: a job, an        *)
(* answer, a worker, the write of its dead mark, an earlier outage.        *)
RefundsEnd ==
    \A r \in Refunds :
        (Unsettled(r) /\ now + StaleAfter < MaxTime) ~> (~Unsettled(r) \/ ~up)

=============================================================================
