# A TLA+ specification of arthome-platform

arthome-platform is a NestJS monorepo of small services over PostgreSQL, Kafka (Debezium outbox),
Redis (BullMQ), MediaMTX and OpenSearch. This project models the parts of it whose correctness
depends on the order in which processes, webhooks, sweepers, watchers and retries act: the sale of
a date's seats and the money behind it (`apps/ticketing`), the live run, the screens that play it
and the replay made of it (`apps/streaming`), and the way of a fact from an outbox to the search
index (`libs/messaging`, `apps/search-indexer`).

## 1. Inventory

| Component | State it keeps | Operations | How it meets the others |
| --- | --- | --- | --- |
| ticketing `date-sales/` | one `date_sales` row per date: capacity, counters, pool, window, price lock, end of sales, outcome | tiers, prices, provision, lock, schedule, outcome, end of sales, counter statements | catalog's facts over Kafka; the studio's commands; every purchase's conditional statement |
| ticketing `waitlist/` | `waitlist_entry` rows, the row's `waitlist_count` and `priority_until` | join, leave, notify, end window, end list | the tier opens the window; a purchase draws on the pool; an outcome ends the list |
| ticketing `orders/` | `seat_order`, `seat_hold`, `seat`, kept answers | purchase (tx A, provider, tx B), resume, settle, fail, expire | date row by statements; provider by calls; webhooks |
| ticketing `payments/` | `stripe_event_inbox`, `order_refund`, intent-cancellation marks, BullMQ jobs | record, apply, relay, process, give up, rerun, replay | applies to orders; calls the provider |
| ticketing `seats/`, `credits/`, `date-outcomes/` | seats' states, refunds owed, credit notes, settlement rows | cancel, refund, settle an outcome order by order | refund ledger, date row, waiting list hook |
| ticketing `availability/`, `replay-access/` | `availability_moves`, replay windows | publish at a bounded rate, record a replay's state | Kafka out, Kafka in |
| catalog | shows, performance dates, replays, public projections | plan, publish, move, cancel, interrupt, run facts | Kafka out to ticketing, streaming, search; Kafka in from streaming |
| streaming | runs, playback sessions, entitlements, replay assets, media-plane calls | run desk, passes, playback, entitlement consumer, recording calls | Kafka both ways; media providers |
| identity | accounts, sessions, devices, email verifications | sign-up, sign-in, renew, revoke | outbox; BFF |
| notifications, search-indexer | projections, sent mails | consume | Kafka in |
| bff-storefront | sessions' cookies, rate limits | relay | HTTP to services |
| libs `messaging`, `http-edge`, `transactions` | outbox, processed messages, idempotency records | write, dispatch, retry, dead-letter, run idempotently | every service |

What is hard here: an unlocked read used by a later statement; two requests under one idempotency
key; webhooks delivered twice, late and out of order; a process that stops between its
transactions or between a provider's call and its record; sweepers that pass over locked rows;
counters shared by set-based statements; facts that arrive after what they contradict.

What makes each part correct:

* **date sales**: capacity = public counter + pool + seats held + seats sold, whichever statement
  moved last; pool seats only inside a window.
* **waiting list**: `waitlist_count` is the list; nobody stays notified without a window; windows
  and a cancelled date's list end.
* **purchases**: one key, one answer; seats only for money taken; money taken ends in seats, a
  refund or a dispute; no hold goes back under a buyer who is paying.
* **provider calls**: a refund is made once; what is owed is made or given up on, never forgotten;
  an intent an expired order leaves waiting is owed its cancellation.
* **order ledger**: states say what was given back; no seat returns on a cancelled date; a settled
  date owes nothing more and no payment in flight escapes it.
* **live run**: on air is unveiled and interrupted is veiled; a command acts on what its console
  showed; the automatic veil ends with the feed's return, whoever reports what first; a run nobody
  feeds ends.
* **playback**: an opening fits the allowance; a screen is lost only for the ceiling; every screen
  stops a lease's time after the right to watch is lost.
* **replay assets**: a deleted asset leaves nothing recording;
  viewers are told once; every asset is deleted or left to an operator.
* **facts and search**: no offset passes a message whose effect is missing; the index never tells an
  older fact; when all is handled the documents are the read model's.
* **catalog, identity** (not modelled): publication transitions and run facts learnt out of order;
  refresh rotation against revocation.

## 2. Modules

| Module | Models | State and actions |
| --- | --- | --- |
| `SalesRow` | the `date_sales` row's statements (`date-sales.typeorm-repository.ts`) and the aggregate's decisions (`date-sales.aggregate.ts`) | no variables: an operator takes the row under its lock and gives the row after it, so the state machines below share the table's statements |
| `SeatInventory` | what a date promises of its seats, whatever moves them | `capacity`, `free`, `phase` of each hold, `sold`; widen, hold, give back, sell, release |
| `DateSales` | one date: the row, its holds, its waiting list and the priority window | one action per transaction; a purchase's unlocked reads and its statement are two actions; every other transaction runs with an instant up to `Lag` old |
| `DateSalesProofs` | the theorems about `DateSales` | |
| `SeatPurchase` | a date's purchases from key to seats or money (`orders/`, `payments/apply-payment-events.handler.ts`) | `attempt` steps through tx A, the provider's call, tx B or the release; webhooks in any order, the expiry pass, the worker, the provider and the bank act in between; any attempt may stop for good |
| `SeatPurchaseProofs` | the theorems about `SeatPurchase` | |
| `CallJobs` | one BullMQ job: attempts, backoff, stalls, removal (`provider-call-queues.ts`) | no variables: operators on a job record, shared by the two queues |
| `RefundCalls` | a refund from its row to the provider (`owed-call-relay.ts`, `refund.processor.ts`, `refund-ledger.ts`) | `row`, `job`, the relay's open transaction `relay`, the provider's memory of keys, a clock; the processor's read, call and record are separate actions; the worker process goes down and comes up |
| `OwedIntents` | the orders' rows and their intents, as the cancellations see them (`seat-order.entity.ts`, `owed-calls.ts`) | `order`, `intent`; which intents are owed a cancellation, and `LeftIntentOwed` |
| `IntentCancellations` | the cancellation of a failed order's intent (`intent-cancellation.processor.ts`, `owed-calls.ts`, `record-waiting-intent.ts`, `fail-unpaid-order.ts`) | the same relay and jobs; an order fails by its hold's expiry, which owes the cancellation, or by its payment's failure, which does not; the mark cleared by payments and set again by webhooks; no clock: a row becomes stale at any moment |
| `ProviderCallsProofs` | the theorems about `RefundCalls` and, as the instance `IC`, about `IntentCancellations` | |
| `OrderLedger` | seats, refunds, credits and the settlement of a date's outcome (`seats/`, `date-outcomes/`, `orders/seat-order.aggregate.ts`, `settle-payment.ts`) | payments and seat cancellations are a step that locks the order and reads the date and a step that commits; the settlement takes the orders nobody holds, a batch per step |
| `OrderLedgerProofs` | the theorems about `OrderLedger` | |
| `LiveRun` | one date's run (`run/`, `media/mediamtx/path-watcher.ts`) | the row with its incident, a console that read it, the feed, and per replica the onset it last reported and the list it has read; desk commands, observation and report as two steps, the presence pass, the automatic end, failed reports and restarts |
| `LiveRunProofs` | the theorems about `LiveRun` | |
| `Playback` | the screens of one account on one date (`playback/`, `devices/`, `entitlement/`) | leases by id, requests that read the clock, wait for the advisory lock, decide under row locks and commit; facts, revocations, releases and the sweep in between |
| `PlaybackProofs` | the theorems about `Playback` | |
| `ReplayAssets` | one date's replay (`replay-asset/`, `media/mediamtx/mediamtx-recording.ts`) | the row, the passes that move it, each replica's claimed call (claim, call, settle), late starts, orphan deletions, the media server's record flag, what was announced |
| `ReplayAssetsProofs` | the theorems about `ReplayAssets` | |
| `SearchIndex` | facts from outbox to search (`libs/messaging`, `search-indexer/consumer/`, `index/opensearch-client.ts`) | WAL, topics, offsets, retry and dead-letter topics; a consumer's transaction statement by statement (an artist's first fact finds no row to lock and is saved in a step of its own, `SaveArtist`, or fails on the row that came between, `SaveConflicts`), its commit and each put; a consumer whose partition was taken away stays at work |
| `SearchIndexProofs` | the theorems about `SearchIndex` | |
| `MCDateSales`, `MCSeatPurchase`, `MCRefundCalls`, `MCIntentCancellations`, `MCOrderLedger`, `MCLiveRun`, `MCPlayback`, `MCReplayAssets`, `MCSearchIndex` | the instances the runs check | |

`DateSales` and `SeatPurchase` both implement `SeatInventory` (`ImplementsInventory`, a refinement
mapping over the row's counters and the holds). The two look at the same row from two sides:
`DateSales` with stale instants, tiers, facts and the waiting list, `SeatPurchase` with everything a
single order goes through. `RefundCalls` refines in detail the one step `MakeRefund` of
`SeatPurchase` and `RefundMade` of `OrderLedger`, `IntentCancellations` the step `CancelIntent`;
these links are by reading, not by a checked refinement. `LiveRun`, `Playback` and `ReplayAssets` each
take the run's end or the date's facts as inputs in any order, so that none relies on another's
timing.

Every module states its `TypeOK`. `DateSales` checks it in its run, because there it says that no
counter goes below zero. In the others it, or its strengthening `Typed` in `Playback`, is the first
conjunct of the inductive invariant that section 4 proves.

Definitions named for a plausible mistake (`returnHeldSeatsTwice`, `moneyLeftOfPaid`, ...) are not
part of any specification. Each stands before the definition it spoils, and PROJECT.json's
`mutants` say which property refutes it.

### Abstractions that matter

* A database transaction that locks its order first is one action, unless it reads something it
  does not lock. Then the read and the commit are two actions, and everything may happen between.
* Time is a small integer. `DateSales` lets a statement run with an instant up to `Lag` old, since a
  handler reads its clock once. `RefundCalls` lets time pass only when the worker, if up, has done
  what is due: delays there are hours, steps are seconds.
* The payment provider is external: an intent has a status and events, a refund key is remembered
  for `Retention`, an answer may be lost after its effect. Stripe's and the fake provider's other
  behaviour is left out.
* Money is a number of minor units in one currency; VAT, commission and event payloads are left out.
  `OrderLedger` sums amounts by counting their units as a set (`SumOf`), which needs no recursion and
  lets the library's theorems on cardinality speak of sums.
* BullMQ is modelled from how the code uses it: unique job ids, delayed retries, the stalled check,
  removal on completion and failure. It can lose the jobs no worker holds.
* MediaMTX is modelled from how `mediamtx-recording.ts` uses it: it records a path, not a reference.
  A reference is the path and the instant it was asked; the code compares no two of them, so the one
  date's references are one value, `Ref`. A feed has an onset and one publisher at a time.
* Kafka keeps the order of a key's partition, hands a partition over in the middle of a message and
  redelivers from the committed offset. PostgreSQL is read committed: a statement sees what was
  committed when it ran and waits only for row locks. OpenSearch's `external_gte` is the index's own
  rule.
* A row or a document in `SearchIndex` is the version of the fact each group of its fields came
  from; the groups of a date guarded alike (publication, outcome, move, replay) are one.

## 3. Runs

Each bound is a named constant of its module. Bounds count what the environment may still do
(renewals, reports, losses, replays, outages, studio refunds) or stop the clock; none cuts an
operation short half way.

| Run | Instance | Shows |
| --- | --- | --- |
| `date_sales` | 2 accounts, one buying 2 seats, up to 3 seats in tiers of 1 or 2, an end of sales moved once, a postponement and a cancellation, instants one tick old | seats conserved, counters never below zero, pool within its window, the list counted, `SeatInventory` implemented; due windows and a cancelled list end |
| `purchase` | 1 order, 2 attempts under its key, every intent status, a cancellation, crashes, the sale outlasting the show's start | one answer, seats only for money, cancellations owed exactly where they should be, nobody refused while seats are held for them, no hold released under a paying buyer; payments end |
| `rivals` | 3 attempts under one key against another order, 1 seat, both paying, one disputable | a stale sold-out never fails an order another attempt renewed (three attempts are the fewest that reach it), `SeatInventory` implemented |
| `refund_calls` | 1 refund, 2 attempts, 1 outage, 1 loss, 1 replay, 1 stall allowed | refunded once while the process is up, made is never asked again, refunds end |
| `intent_cancellations` | 1 order, 2 attempts, 3 reports, 2 losses, 2 replays | an intent left waiting is owed its cancellation, unless a failed payment left it; every cancellation ends |
| `order_ledger` | 2 orders (2 seats for 3, 1 seat for 2 minor units) for 2 seats, one without an account, batches of 1, one studio refund | states tell refunds, no seat returns on a cancelled date, settled dates stay settled and owe everything back, and every outcome settles |
| `live_run` | 2 replicas, a feed published twice, 1 failed report or restart, 4 instants | on air unveiled, accepted commands fresh, the automatic veil ends with the return, a run left without a feed ends |
| `playback` | 2 devices of 1 profile, 2 seats, 2 requests at once, 2 sessions, leases of 2 instants | an opening fits, no needless loss, the right ends |
| `replay_assets` | 2 replicas, 2 attempts per call, 1 late start, and 1 crash, attempt that fails with another left, lost answer, or commit failed or not acknowledged | a deleted asset records no more, told once, every asset of an ended run or a withdrawn replay settles |
| `search_index` | a public date, 5 facts (opened, show published and updated, an artist not seen before named and renamed), 1 retry tier, 1 fault, a row emitted twice included | documents equal the read model at rest, the index never goes back, no fact lost but an artist's that an older one was saved over |
| `stranded_order` (violation) | 1 order, 1 attempt, `purchase`'s environment with disputes | an order no sweeper statement matches stays `awaiting_action` |
| `silent_gap` (violation) | a date first scheduled while its show is first published, no fault | the date's document stays without its show |

Rows of different dates share nothing but the sweepers' batches, and refunds of different rows only
the relay's claim, so one date, and one or two orders, refunds or keys on it, carry the interesting
interference. Some quantities had to be larger than one: attempts under one key, seats per order
(so shares round), orders per date (so one retakes what another took), replicas (so two report or
claim the same thing), feeds (so a loss can be reported after the next onset), leases and facts per
key (so one overtakes another). Two runs expect a violation and are the findings of section 5.

### Fairness

`Spec` alone carries every safety property. `FairSpec` adds:

* weak fairness of the sweepers' passes, the relay's pass and the processors: each is a loop that
  runs every second (`SweeperLoop`) or a BullMQ worker; nobody owes fairness to the buyer, the bank,
  the studio or the operator;
* weak fairness of the clock and, in `RefundCalls`, of the process coming up again;
* weak fairness of a transaction begun: it commits or rolls back;
* strong fairness where a row may be locked over and over by others while free in between: the
  relay's stamp (a relay that crashes at every pass is no relay), a processor's update of a row the
  relay claims, the end of a hold that payments lock again and again;
* in `LiveRun`, weak fairness of the clock, both passes and each watcher's observation and report;
  none of the desk, nor of the feed's coming or going;
* in `ReplayAssets`, weak fairness of the clock, the passes, the end of a lease and each replica's
  calls, which answer or time out. A late start owes nothing to anybody;
* in `SeatPurchase`, that a refund the worker keeps asking for is made in the end. That the worker
  gives up after its schedule instead is `RefundCalls`' subject, and a cancellation's,
  `IntentCancellations`': there they end "made or given up on".

`Playback` and `SearchIndex` are checked for safety only. `NoFactLost` is the safety form of "every
fact arrives": a fact is told, or it, or one as new that supersedes it, is dead-lettered or still
in front of a consumer.

## 4. Proofs

Proved for every value of the constants that satisfies the named assumptions.

`DateSalesProofs`, from `DateSalesAssumption` (finitely many holds and accounts, naturals where the
code has counts) and `NullAssumption`:

* `SeatsConserved`, `PoolKeptWithinWindow`, `ListKept`, `DateSalesTyped`, all from
  `DateSalesCorrect`: `DateSalesInv` is inductive. `Conservation` is not inductive alone. A hold
  given back returns its pool share and its public share, so the proof needs the share within the
  hold (`PoolShareWithinHold`), or the public counter could go below zero; the end of a window
  empties the pool into public sale, so it needs the pool to be empty without one
  (`PoolWithinWindow`); and the list's count moves by the entries a statement matched, so the count
  must be theirs. `UnplacedUntilTaken` says a hold whose purchase is still reading has no seats.
  The seats of a set of holds are counted as a set of pairs, so that the library's theorems on
  cardinality replace an induction over the holds.

* `DateSalesImplementInventory` (`ImplementsInventory`): each transaction is a step of `SeatInventory`
  or leaves it alone. From `DateSalesInv`, one lemma per transaction says how the counters and the
  holds' phases moved together; the sweeper that ends many holds in one statement maps to the
  inventory's giving back of a set.

`SeatPurchaseProofs`, from `SeatPurchaseAssumption` (finitely many orders, naturals where the code has
counts, an absent status or outcome is none of them):

* `PurchaseInvariant`: `PurchaseInv` is inductive. It says of each order that seats and money exclude
  one another and that a hold is an unpaid order's (`OrderOK`), of the provider that nothing was given
  before the money was taken, and that a success under way is a success at the provider
  (`ProviderOK`), and of each attempt what it still has in hand (`AttemptOK`): one that was sold out
  looks at a generation of the hold that is gone, unless another attempt renewed it since. Without
  that clause the release of a stale sold-out could not be told from the release of a live hold.
* `PaymentBuysSeatsOrIsOwed` (`SeatsOrMoney`), `NothingGivenUnpaid` (`MoneyTaken`),
  `CancellationsOwedRight` (`CancellationsOwed`) follow from it.
* `OneAnswerPerKey` (`SameAnswer`), `PayerKeepsHold` (`HandoffKeepsItsSeats`) and
  `RefusedWithoutSeats` (`NeverRefusedWhileHeld`) follow from it and from what a step may do to an
  order (`MovesTo`, `PurchaseStep`).
* `PurchasesImplementInventory` (`ImplementsInventory`): `SeatInventory` with one hold for each
  generation of each order's hold. One lemma per action shows that the row's counters moved with the
  one hold that did (`SeatsStep`), and one maps that to a step of the inventory.

`ProviderCallsProofs`, of `RefundCalls`, from `ScheduleAssumption` (every attempt the schedule allows is due within
`Retention` of the job's enqueueing, which `doublingDelays` and `REFUND_RETRIES_WITHIN_MS` are built
for) and the naturals:

* `RefundCallsTyped`, with `RunWithinBound`: a running job has not stalled past its bound.
* `MadeIsMade` (`MadeNotAskedAgain`): holds through any outages, since each attempt reads the row.
* `OnceWhileUp` (`RefundedOnceWhileUp`). Its invariant `OnceUntilDown` says that, while the process
  has never been down, a job's attempts are due within the schedule since it was added
  (`OnSchedule`), and that no job was added after the provider first met its key, a row still due
  having met it at this very instant (`KeyRemembered`). So an attempt always falls within the
  provider's memory. The hypothesis cannot be dropped: a delayed job that runs after an outage longer
  than the retention asks under a key the provider forgot (section 5).

`ProviderCallsProofs`, of `IntentCancellations`, from the assumptions of `CallJobs`:

* `LeftIntentsAreOwed` (`LeftIntentOwed`) and `IntentCancellationsTyped`: `CancellationInv` adds to
  the property that a running job has not stalled past its bound, and that a call whose success is to
  be saved was answered by an intent no longer waiting (`SavedIsAnswered`). Without the latter,
  clearing the mark could forget an intent that still waits. The property excepts by name an order
  that failed by its payment's failure (`declined`, section 5).

`OrderLedgerProofs`, from `OrdersAssumption` (finitely many orders, at least one seat and one minor
unit each), `BatchAssumption` and `PlacesAssumption`:

* `LedgerInvariant`: `LedgerInv` is inductive; the other theorems of the module follow from it. Of
  each order it says that an order without seats has given nothing back (`SeatsGiven`), that a seat
  and its refund tell the same (`SeatsTold`), that shares are within their refund (`SharesWithin`),
  refunds and credit within what was paid (`MoneyWithin`) and that the state tells how much is back
  (`StateTold`). Two more conjuncts are there for the settlement: what is left of an order whose viewer
  gave seats back is at most the shares of the seats still active (`RestOfShares`), so that nothing is
  left when none is; and an order the pass took owes everything (`TakenOwesAll`). `MoneyWithin` says
  that a credited order has no active seat, or a credit and a later refund could add up past the
  total. `TxOK` keeps what a transaction read under its order's lock, and `SettlementOK` says that a
  settled date has no order left to take, those with a hold still paying included: otherwise a payment
  in flight could seat an order behind it.
* `OrdersTellTheirRefunds` (`RefundsTold`), `CancelledDatesOweBack` (`CancelledDateOwesBack`),
  `DatesSettledForGood` (`SettledForGood`), `NoSeatReturnsToCancelledDate`
  (`NoReturnOnCancelledDate`), `LedgerTyped`. That even shares add up to the total, for any total and
  any number of seats, is a bijection: the u-th unit of the seat at place k of n is unit
  (u - 1) * n + k of the total. A place is a rank among the seats refunded together, so no induction
  over the seats is needed.

`LiveRunProofs`, from `ConstantsOK` (delays and bounds are naturals, `NULL` is nothing else):

* `OnAirIsUnveiled`, `VersionsCount`, `VeilsEnd` and `LiveRunTyped`, all from `LiveRunCorrect`:
  `LiveRunInv` is inductive. `VeilEndsWithReturn` and `OnAirUnveiled` need each other: a return lifts
  only the automatic veil, so the state it leaves is right only if the state and the veil agreed
  before, and the pass that raises the veil does so on a run on air with no publisher. The argument
  is one lemma per move of the aggregate (`Raised`, `Resolved`, `Ended`, `Moved`) and two on steps
  that move the version or leave it (`VersionedStep`, `UnversionedStep`). It never uses the clock or
  the order of reports: that is why any number of replicas may report in any order.

`PlaybackProofs`, from `PlaybackConstants` (bounds and the lease's length are positive, finitely many
seats) and `NullAssumption`:

* `NoScreenPastRight` (`RightEnds`), `OpeningsFit` (`OpeningFits`), `NoScreenLostNeedlessly`
  (`NoNeedlessLoss`): `PlaybackInv` is inductive. A request decides in one step and commits in another,
  so the invariant says that what it decided still stands (`DecisionsStand`): it holds the rows it
  decided about, and the advisory lock keeps every other request from deciding (`OneDecides`).
  `GrantedBeforeLoss` bounds what was granted before the right's loss and commits after it.
  That no more leases are taken over than the ceiling asks for is an argument on the ranks of leases by
  their last renewal (`TakenOverFew`), again without induction.

`ReplayAssetsProofs`, from `ConstantsOK` (bounds are naturals) and `NullAssumption`:

* `OpeningToldOnce` (`ToldOnce`), `DeletedStaysQuiet` (`DeletedRecordsNoMore`): `ReplayInv` is
  inductive. `ToldOnce` needs the outbox to be a function of the row
  (`OutboxTells`). `DeletedRecordsNoMore` needs `PathAnsweredFor`: whoever turned the path on still
  answers for it, and a row no more once a stop of it has answered.

`SearchIndexProofs`, from `SearchIndexConstants`, `OutboxAssumption` (a fact is a row of the outbox,
under the key of what it is about; a show is published once, and has updates only if it was) and
`NullAssumption`, for any facts, retry tiers and number of faults:

* `IndexForward` (`IndexNeverBack`) and `TypeInvariance`, from `IndexInvariance`: `IndexInv` is
  inductive. It says where messages are (`QueueOK`: a reader has the first of its topic in hand, and a
  message whose transaction a lost consumer has open still waits for a reader), what transactions hold
  (`TransactionsOK`: no row twice, and what one will write is computed from rows nobody else can
  change), and that all documents of a date, indexed, under way in a job or still to be composed from
  the row, are a chain in which a higher version is no older in any group (`DatesChained`,
  `ShowsChained`). The chain must relate jobs to one another: a put replaces a document by one of a
  version at least as high, and only the chain makes it no older.
* `FactsKept` (`NoFactLost`) and `NoGapAtRest` (`NoSilentGap`), from `PublicInvariance`, all three
  under the hypothesis `PublicAtFirst`. It cannot be dropped: `silent_gap` refutes `NoSilentGap`
  without it, and a fact of a show can be told by a date's document only if there is one.
  `PublicInv` adds to `IndexInv` that
  - a document of the row's version tells the rows, and every open transaction has the date's row
    locked and will raise its version (`DocumentsCurrent`);
  - the read model has every standing fact and nothing else (`FactsKnown`, `RowsFromFacts`), and the
    documents from the version at which a fact was applied onwards tell it (`Since`). A processed fact
    stands unless it is an artist's that an older one, which found no row, was saved over
    (`Standing`): what the row then holds is the older one's;
  - a standing fact is told, or some message that restates it is dead or will have its documents put
    (`FactsTold`); no offset passes a message that was not processed (`NotSkipped`);
  - while a document is older than its row, a reader, not only a lost consumer, is to put it or will
    read the message again as a duplicate (`DateToPut`, `ShowToPut`).

  A superseded message puts nothing, so its fact may wait for the puts of the message that superseded
  it, which may itself have failed after its commit. The proof showed that `NoFactLost` must say so
  (`Restates`): stated of the message alone it is false.

Only model-checked:

* liveness, under fairness, out of the prover's reach;
* what `SearchIndex` does with a date first scheduled on the way: its one run there, `silent_gap`, is
  the violation of section 5;
* the links of `RefundCalls` and `IntentCancellations` to the steps they detail, which are by reading.

## 5. What the checks showed

Two statements of the repository's comments and documents are refuted by what the code does
(PROJECT.json `findings`):

* `stranded_order`: an order whose hold went back while the provider did not answer, and whose intent
  a webhook then recorded, is `awaiting_action` with no hold, and no statement of the expiry pass
  matches it.
* `silent_gap`: a date's scheduling and its show's publication, consumed at the same time, each read
  before the other commits; the date's document stays without its show until another fact comes.

More facts of the code came up while modelling. They are told here and excepted by name where a
property would meet them:

* A refund's delayed job left in Redis by a worker that was down longer than the provider keeps a
  key runs when the process comes back (`refund.processor.ts:101`), and asks under a forgotten key.
  `owed-calls.ts:8` says that every automatic attempt lands inside the retention.
* `giveUpIntentCancellation` (`owed-calls.ts:59`) marks the order dead on `intent_cancel_owed_at`
  alone: an intent reported waiting while the last attempt of its old job fails is marked dead with
  no attempt of its own. `record-waiting-intent.ts:9` speaks of attempts anew. The mark remains, so
  an operator's replay makes the call, and `LeftIntentOwed` holds.
* A `requires_action` webhook applied after a late payment that found no seat owes the cancellation
  of an intent that succeeded (`seat-order.aggregate.ts` `recordIntent`), which the provider leaves
  alone.
* A partial `date_cancelled` refund cancels its seat, so an order whose last active seat the studio
  refunded that way is not in `ORDERS_TO_SETTLE` and keeps the rest: `CancelledDateOwesBack` is
  stated of the orders the pass took and of those whose viewer gave every seat back.
* `failUnpaidOrder` (`fail-unpaid-order.ts`, `seat-order.aggregate.ts` `fail`) fails an order whose
  payment failed and leaves `intent_cancel_owed_at` null, although the order may hold an intent that
  still waits at the provider. `apps/ticketing/handover/0i-holds-expire-in-the-sweeper.md:20` says
  that "an order that fails holding an intent gets `intent_cancel_owed_at`": that is so of the expiry
  it describes, and of a failed order whose intent is reported waiting again. `LeftIntentOwed` excepts
  the others (`declined`).
* MediaMTX records a path. Deleting an orphan (`recording-calls.ts:182-195`,
  `mediamtx-recording.ts:113-135`) deletes the path's configuration and its segments, and with them
  the recording the asset keeps, if another start was kept meanwhile, or if the orphan is the kept
  reference itself: the commit that kept it was made and its acknowledgement lost
  (`recording-calls.ts:141-153`). The model does both. `recording.itest.ts:282` expects the kept
  recording to survive, of the fake provider, which tells references apart. No property here says
  that a kept recording survives.
* `applyArtistMessage` (`artist-consumer.ts:75-90`) locks the artist's row as it reads it, and where
  there is none it locks nothing. Of two facts of a channel's first contact, one on the retry topic,
  the older may be saved over the newer, whose name is then in neither the read model nor the index,
  with nothing dead and nothing ahead. `NoFactLost` excepts these facts by name (`overwritten`);
  without the exception the run finds the case. A show's and a date's row are inserted before they are
  locked, and order their facts.
* When every replica that had reported a feed's onset restarts before it sees the loss, nobody
  reports the loss and the run stays online (`path-watcher.ts` keeps its reports in memory):
  `Forgotten` in `LeftRunEnds`.
* A renewal that read the clock before it waited may keep a lease that an older renewal no longer
  counted, so one screen too many plays until the next renewal: `OpeningFits` is stated at the
  instant a request read.
* The show consumer reads the artist after its commit, so a date's document of a lower version can
  carry a newer artist's name: `IndexNeverBack` is stated of a date's own facts. A show known by an
  update alone names no channel, and its dates lose their artist until its publication arrives. That
  a date is scheduled anew is real: a migration of catalog (`public-slugs`) restates `DateScheduled`.

## 6. Plan

Done: `SalesRow`, `DateSales`, `SeatInventory`, `SeatPurchase`, `CallJobs`, `RefundCalls`,
`OwedIntents`, `IntentCancellations`, `OrderLedger`, `LiveRun`, `Playback`, `ReplayAssets`,
`SearchIndex`.

Left, in this order:

1. `PaymentInbox` (the webhook's inbox: recorded once, applied with retries, dead, replayed) and
   `StudioCommands` (versions, prices and provision under `runIdempotently`).
2. `PerformanceDate` (catalog's publication and run facts), `Sessions` (identity),
   `AvailabilityPublisher`.
3. Proofs: that `RefundCalls` and `IntentCancellations` implement the steps `MakeRefund` and
   `CancelIntent` of `SeatPurchase`.

## 7. Not modelled

PROJECT.json's `components` lists every part with its reason. Most of the repository's lines are
HTTP controllers, DTOs, queries, tests and generated protobuf code, which hold no state a model
would add to.

* **ticketing**: the quote and the order views (reads), VAT and commission, event payloads, the
  studio's versions and prices, the availability publisher, replay access, the inbox's retries. Of
  the settlement, the order in which a pass takes several dates and the ten seconds a failed one
  waits.
* **streaming**: the preview's budget and scope, a plan's screens and subscriptions, resume points,
  URLs and edge routes, the instants of a run's start and end.
* **messaging and search**: retention of topics, outbox and processed messages (they are days apart:
  a republished row is younger than its consumer's ledger), the slot's and the service's health
  checks, deadlocks between updates of several dates (a retry), analyzers and mappings.
* **catalog, identity, bff-storefront, notifications**: catalog's facts reach `DateSales`, `LiveRun`,
  `Playback`, `ReplayAssets` and `SearchIndex` as inputs in any admissible order; the rest is planned
  above, pure I/O or generated code.
