------------------------ MODULE ProviderCallsProofs ------------------------
(***************************************************************************)
(* Proofs about the two calls ticketing owes its payment provider: a       *)
(* refund (RefundCalls), for every number of refunds and attempts, any     *)
(* schedule that stays inside the provider's retention, any stale window   *)
(* and any bound on the clock; and an intent's cancellation                *)
(* (IntentCancellations), for any number of orders, attempts, stalls,      *)
(* reports, losses and replays.  Each has its own state; the jobs of both  *)
(* move alike (CallJobs).                                                  *)
(***************************************************************************)
EXTENDS RefundCalls, OwedIntents, TLAPS

\* The rest of the constants and the state of the cancellations.
CONSTANT MaxReports

VARIABLES queue, claimed, reports, lost, replayed

IC ==
    INSTANCE IntentCancellations
    WITH job <- queue, relay <- claimed, losses <- lost, replays <- replayed

-----------------------------------------------------------------------------
(***************************************************************************)
(* A refund: its job's operators.                                          *)
(***************************************************************************)

\* Every move of a job but a stall and a retry keeps its type unconditionally.
LEMMA JobMoves ==
    ASSUME NEW j \in Job, NEW t \in Nat
    PROVE  /\ NoJob \in Job /\ NewJob(t) \in Job /\ add(j, t) \in Job
           /\ taken(j) \in Job /\ promoted(j) \in Job
           /\ \A stage \in Stages : at(j, stage) \in Job
<1>1. NoJob \in Job
  BY AttemptsAssumption, MaxStalledAssumption DEF Job, NoJob, Stages
<1>2. NewJob(t) \in Job
  BY <1>1 DEF Job, NewJob, NoJob, Stages
<1> QED
  BY ZenonT(40), <1>1, <1>2 DEF Job, add, taken, promoted, at, Stages

\* A stall counts up to one past its bound, from a job not yet past it.
LEMMA StalledJob ==
    ASSUME NEW j \in Job, ~stalledPastBound(j)
    PROVE  /\ stalled(j) \in Job
           /\ stalled(j).state = "waiting"
           /\ stalled(j).added = j.added
           /\ stalled(j).attemptsMade = j.attemptsMade
<1>1. j.stalls + 1 \in 0 .. MaxStalled + 1
  BY MaxStalledAssumption DEF Job, stalledPastBound
<1>2. stalled(j) \in Job
  BY <1>1 DEF Job, stalled, Stages
<1> QED
  BY <1>2 DEF Job, stalled

\* A failed attempt that is not the last leaves one more to make.
LEMMA RetriedJob ==
    ASSUME NEW j \in Job, ~isLastAttempt(j), NEW t \in Nat,
           NEW wait \in Waits[j.attemptsMade + 1]
    PROVE  /\ j.attemptsMade + 1 \in 1 .. Attempts - 1
           /\ wait \in Nat
           /\ retried(j, t, wait) \in Job
           /\ retried(j, t, wait).state = "delayed"
           /\ retried(j, t, wait).attemptsMade = j.attemptsMade + 1
           /\ retried(j, t, wait).added = j.added
           /\ retried(j, t, wait).due = t + wait
<1>1. j.attemptsMade \in 0 .. Attempts - 1
  BY DEF Job
<1>2. j.attemptsMade + 1 \in 1 .. Attempts - 1
  BY <1>1, AttemptsAssumption DEF isLastAttempt
<1>3. wait \in Nat
  BY <1>2, WaitsAssumption
<1>4. t + wait \in Nat
  BY <1>3
<1>5. j.attemptsMade + 1 \in 0 .. Attempts - 1
  BY <1>2
<1>6. retried(j, t, wait) \in Job
  BY <1>4, <1>5 DEF Job, retried, Stages
<1> QED
  BY <1>2, <1>3, <1>6 DEF Job, retried

-----------------------------------------------------------------------------
(***************************************************************************)
(* Types.                                                                  *)
(***************************************************************************)

\* No job past its stall bound is run: what keeps the count of stalls typed.
RunWithinBound == \A r \in Refunds : job[r].state = "active" => ~stalledPastBound(job[r])

Typed == TypeOK /\ RunWithinBound

\* What one job's end or move does to the types.
LEMMA OneJobMoves ==
    ASSUME Typed, NEW r \in Refunds, NEW j \in Job,
           j.state = "active" => ~stalledPastBound(j),
           job' = [job EXCEPT ![r] = j]
    PROVE  /\ job' \in [Refunds -> Job]
           /\ \A s \in Refunds : job'[s].state = "active" => ~stalledPastBound(job'[s])
  BY DEF Typed, TypeOK, RunWithinBound

\* A job that ends with its row's new form keeps the types.
LEMMA EndsTyped ==
    ASSUME Typed, NEW r \in Refunds, NEW x \in OrderRefundRow, Ends(r, x)
    PROVE  Typed'
<1>1. job[r] \in Job /\ now \in Nat
  BY DEF Typed, TypeOK
<1>2. /\ at(job[r], "ending") \in Job
      /\ at(job[r], "ending").state = job[r].state
      /\ at(job[r], "ending").stalls = job[r].stalls
  BY <1>1, JobMoves DEF at, Job, Stages
<1>3. job' = [job EXCEPT ![r] = at(job[r], "ending")]
  BY DEF Ends, Typed, TypeOK
<1>4. /\ job' \in [Refunds -> Job]
      /\ \A s \in Refunds : job'[s].state = "active" => ~stalledPastBound(job'[s])
  BY <1>2, <1>3, OneJobMoves DEF Typed, RunWithinBound, stalledPastBound
<1>5. row' \in [Refunds -> OrderRefundRow]
  BY DEF Ends, Typed, TypeOK
<1> QED
  BY <1>4, <1>5 DEF Ends, Typed, TypeOK, RunWithinBound, worker

\* A job that moves keeps the types, as long as a running one is within its stalls.
LEMMA MovesTyped ==
    ASSUME Typed, NEW r \in Refunds, NEW j \in Job, Moves(r, j),
           j.state = "active" => ~stalledPastBound(j)
    PROVE  Typed'
  BY OneJobMoves DEF Moves, Typed, TypeOK, RunWithinBound, worker

\* The initial state is typed.
LEMMA InitTyped == Init => Typed
<1> SUFFICES ASSUME Init PROVE Typed
  OBVIOUS
<1>1. NoJob \in Job /\ NoJob.state # "active"
  BY AttemptsAssumption, MaxStalledAssumption DEF NoJob, Job, Stages
<1>2. NoRow \in OrderRefundRow
  BY DEF NoRow, OrderRefundRow
<1> QED
  BY <1>1, <1>2 DEF Init, Typed, TypeOK, RunWithinBound, NoClaim

\* The steps of the processor's job.
LEMMA ProcessTyped ==
    ASSUME Typed, NEW r \in Refunds, Process(r) \/ Stall(r)
    PROVE  Typed'
<1> USE DEF Typed
<1>1. /\ job[r] \in Job /\ row[r] \in OrderRefundRow /\ now \in Nat
      /\ provider[r] \in [times : Nat, keyAt : Nat]
  BY DEF TypeOK
<1>2. giveUpRefund(row[r]) \in OrderRefundRow
  BY <1>1 DEF giveUpRefund, OrderRefundRow
<1>3. \A stage \in Stages :
         /\ at(job[r], stage) \in Job
         /\ at(job[r], stage).state = job[r].state
         /\ at(job[r], stage).stalls = job[r].stalls
  BY <1>1, JobMoves DEF at, Job
<1>4. CASE TakeJob(r)
  <2>1. taken(job[r]) \in Job /\ taken(job[r]).stalls = job[r].stalls
    BY <1>1, JobMoves DEF taken, Job
  <2> QED
    BY <1>4, <2>1, MovesTyped DEF TakeJob, stalledPastBound
<1>5. CASE GiveUpDisputed(r) \/ GiveUpRefund(r)
  BY <1>5, <1>2, EndsTyped DEF GiveUpDisputed, GiveUpRefund
<1>6. CASE SettledAlready(r)
  BY <1>6, <1>1, EndsTyped DEF SettledAlready
<1>7. CASE ReadRefund(r) \/ ProviderFails(r) \/ RecordFails(r)
  <2> PICK stage \in Stages : Moves(r, at(job[r], stage))
    BY <1>7 DEF ReadRefund, ProviderFails, RecordFails, Stages
  <2> QED
    BY <1>3, MovesTyped DEF RunWithinBound, stalledPastBound
<1>8. CASE AskProvider(r)
  <2>1. Refunded(provider[r]) \in [times : Nat, keyAt : Nat]
    BY <1>1 DEF Refunded
  <2>2. provider' \in [Refunds -> [times : Nat, keyAt : Nat]]
    BY <1>8, <2>1 DEF AskProvider, TypeOK
  <2> PICK stage \in Stages : job' = [job EXCEPT ![r] = at(job[r], stage)]
    BY <1>8 DEF AskProvider, Stages, TypeOK
  <2>3. /\ job' \in [Refunds -> Job]
        /\ \A s \in Refunds : job'[s].state = "active" => ~stalledPastBound(job'[s])
    BY <1>3, OneJobMoves DEF RunWithinBound, stalledPastBound
  <2> QED
    BY <1>8, <2>2, <2>3 DEF AskProvider, TypeOK, RunWithinBound, worker
<1>9. CASE RecordRefund(r)
  <2>1. [row[r] EXCEPT !.made = TRUE] \in OrderRefundRow
    BY <1>1 DEF OrderRefundRow
  <2>2. Ends(r, [row[r] EXCEPT !.made = TRUE])
    BY <1>9, <1>1 DEF RecordRefund, Ends
  <2> QED
    BY <2>1, <2>2, EndsTyped
<1>10. CASE RetryRefund(r)
  BY <1>10, <1>1, RetriedJob, MovesTyped DEF RetryRefund
<1>11. CASE Stall(r)
  <2>1. ~stalledPastBound(job[r])
    BY <1>11 DEF Stall, RunWithinBound
  <2> QED
    BY <1>11, <1>1, <2>1, StalledJob, MovesTyped DEF Stall
<1>12. NoJob \in Job /\ NoJob.state # "active"
  BY AttemptsAssumption, MaxStalledAssumption DEF NoJob, Job, Stages
<1>13. CASE FailStalled(r)
  <2>1. row' \in [Refunds -> OrderRefundRow]
    BY <1>2, <1>13 DEF FailStalled, TypeOK
  <2>2. /\ job' \in [Refunds -> Job]
        /\ \A s \in Refunds : job'[s].state = "active" => ~stalledPastBound(job'[s])
    BY <1>12, <1>13, OneJobMoves DEF FailStalled
  <2> QED
    BY <1>13, <2>1, <2>2 DEF FailStalled, TypeOK, RunWithinBound, worker
<1>14. CASE RemoveJob(r)
  BY <1>12, <1>14, MovesTyped DEF RemoveJob
<1> QED
  BY <1>4, <1>5, <1>6, <1>7, <1>8, <1>9, <1>10, <1>11, <1>13, <1>14 DEF Process

\* Every step keeps the types.
LEMMA NextTyped == Typed /\ [Next]_vars => Typed'
<1> SUFFICES ASSUME Typed, [Next]_vars PROVE Typed'
  OBVIOUS
<1> USE DEF Typed
<1>1. /\ now \in Nat
      /\ \A r \in Refunds : job[r] \in Job /\ row[r] \in OrderRefundRow
  BY DEF TypeOK
<1>2. CASE \E r \in Refunds : OweRefund(r)
  <2> PICK r \in Refunds : OweRefund(r)
    BY <1>2
  <2>1. row' \in [Refunds -> OrderRefundRow]
    BY <1>1 DEF OweRefund, OrderRefundRow, TypeOK
  <2> QED
    BY <2>1 DEF OweRefund, TypeOK, RunWithinBound, worker
<1>3. CASE \E r \in Refunds : Replay(r)
  <2> PICK r \in Refunds : Replay(r)
    BY <1>3
  <2>1. row' \in [Refunds -> OrderRefundRow]
    BY ZenonT(40), <1>1 DEF Replay, OrderRefundRow, TypeOK
  <2>2. replays' \in Nat
    BY DEF Replay, TypeOK
  <2> QED
    BY <2>1, <2>2 DEF Replay, TypeOK, RunWithinBound
<1>4. CASE \E r \in Refunds : Process(r) \/ Stall(r)
  BY <1>4, ProcessTyped
<1>5. CASE \E rs \in SUBSET Refunds : AskRefundCallsAgain(rs)
  <2> PICK rs \in SUBSET Refunds : AskRefundCallsAgain(rs)
    BY <1>5
  <2>1. row' \in [Refunds -> OrderRefundRow]
    BY <1>1 DEF AskRefundCallsAgain, OrderRefundRow
  <2> QED
    BY <2>1 DEF AskRefundCallsAgain, TypeOK, RunWithinBound, worker
<1>6. CASE Dispute
  BY <1>6 DEF Dispute, TypeOK, RunWithinBound, worker
<1>7. CASE ComeUp
  BY <1>7 DEF ComeUp, TypeOK, RunWithinBound
<1>8. CASE Tick
  BY <1>8 DEF Tick, TypeOK, RunWithinBound, worker
<1>9. CASE GiveUpLostRefunds
  <2>1. row' \in [Refunds -> OrderRefundRow]
    BY <1>1, <1>9 DEF GiveUpLostRefunds, OrderRefundRow
  <2> QED
    BY <1>9, <2>1 DEF GiveUpLostRefunds, TypeOK, RunWithinBound, worker
<1>10. CASE RelayRefunds
  <2>1. \A r \in Refunds :
           add(job[r], now) \in Job /\ (add(job[r], now).state = "active" => add(job[r], now) = job[r])
    BY <1>1, JobMoves DEF add, NewJob, NoJob
  <2>2. /\ job' \in [Refunds -> Job]
        /\ \A r \in Refunds : job'[r].state = "active" => job'[r] = job[r]
    BY <1>1, <1>10, <2>1 DEF RelayRefunds
  <2>3. relay' \in [rows : SUBSET Refunds, nowMs : Nat]
    BY <1>1, <1>10 DEF RelayRefunds
  <2> QED
    BY <1>10, <2>2, <2>3 DEF RelayRefunds, TypeOK, RunWithinBound, worker
<1>11. CASE StampRefunds \/ RelayCrashes
  <2>1. row' \in [Refunds -> OrderRefundRow]
    BY <1>1, <1>11 DEF StampRefunds, RelayCrashes, OrderRefundRow, TypeOK
  <2> QED
    BY <1>11, <2>1 DEF StampRefunds, RelayCrashes, TypeOK, RunWithinBound, worker, NoClaim
<1>12. CASE RerunAskedRefunds
  <2>1. \A r \in Refunds :
           promoted(job[r]) \in Job /\ (promoted(job[r]).state = "active" => promoted(job[r]) = job[r])
    BY <1>1, JobMoves DEF promoted, Job
  <2>2. /\ job' \in [Refunds -> Job]
        /\ \A r \in Refunds : job'[r].state = "active" => job'[r] = job[r]
    BY <1>1, <1>12, <2>1 DEF RerunAskedRefunds
  <2>3. row' \in [Refunds -> OrderRefundRow]
    BY <1>1, <1>12 DEF RerunAskedRefunds, OrderRefundRow
  <2> QED
    BY <1>12, <2>2, <2>3 DEF RerunAskedRefunds, TypeOK, RunWithinBound, worker
<1>13. CASE GoDown
  <2>1. \A r \in Refunds : job[r].state = "active" =>
            stalled(job[r]) \in Job /\ stalled(job[r]).state # "active"
    BY <1>1, StalledJob DEF RunWithinBound
  <2>2. /\ job' \in [Refunds -> Job]
        /\ \A r \in Refunds : job'[r].state # "active"
    BY <1>1, <1>13, <2>1 DEF GoDown
  <2>3. up' = FALSE /\ outages' \in Nat /\ relay' \in [rows : SUBSET Refunds, nowMs : Nat]
    BY <1>13 DEF GoDown, TypeOK, NoClaim
  <2> QED
    BY <1>13, <2>2, <2>3 DEF GoDown, TypeOK, RunWithinBound
<1>14. CASE LoseJobs
  <2>1. NoJob \in Job /\ NoJob.state # "active"
    BY AttemptsAssumption, MaxStalledAssumption DEF NoJob, Job, Stages
  <2>2. /\ job' \in [Refunds -> Job]
        /\ \A r \in Refunds : job'[r].state = "active" => job'[r] = job[r]
    BY <1>1, <1>14, <2>1 DEF LoseJobs
  <2> QED
    BY <1>14, <2>2 DEF LoseJobs, TypeOK, RunWithinBound, worker
<1>15. CASE UNCHANGED vars
  BY <1>15 DEF vars, worker, TypeOK, RunWithinBound
<1> QED
  BY <1>2, <1>3, <1>4, <1>5, <1>6, <1>7, <1>8,
     <1>9, <1>10, <1>11, <1>12, <1>13, <1>14, <1>15 DEF Next, Relay

\* Rows, jobs and the provider's memory keep their types for every number of
\* refunds and attempts: no job stalls past its bound and one, or is tried more
\* often than its schedule allows (provider-call-queues.ts).
THEOREM RefundCallsTyped == Spec => []TypeOK
<1>1. Spec => []Typed
  BY InitTyped, NextTyped, PTL DEF Spec
<1> QED
  BY <1>1, PTL DEF Typed

-----------------------------------------------------------------------------
(***************************************************************************)
(* What is recorded was made.                                              *)
(***************************************************************************)

\* An answer about to be recorded is the provider's: what makes the record true.
AnswerIsMade == \A r \in Refunds : Running(job[r], "recording") => provider[r].times > 0

MadeInv == Typed /\ MadeNotAskedAgain /\ AnswerIsMade

\* The initial state of the second invariant.
LEMMA InitMade == Init => MadeInv
  BY InitTyped DEF Init, MadeInv, MadeNotAskedAgain, AnswerIsMade, Running, NoJob, NoRow

\* Every step keeps a refund recorded as made one that was made and is not asked again.
LEMMA NextMade == MadeInv /\ [Next]_vars => MadeInv'
<1> SUFFICES ASSUME MadeInv, [Next]_vars PROVE MadeInv'
  OBVIOUS
<1>1. Typed'
  BY NextTyped DEF MadeInv
<1> DEFINE Kept(r) ==
      /\ row'[r].made => provider'[r].times > 0 /\ ~Running(job'[r], "calling")
      /\ Running(job'[r], "recording") => provider'[r].times > 0
<1> SUFFICES ASSUME NEW r \in Refunds PROVE Kept(r)
  BY <1>1 DEF MadeInv, MadeNotAskedAgain, AnswerIsMade
<1>2. /\ job \in [Refunds -> Job] /\ job[r] \in Job
      /\ row \in [Refunds -> OrderRefundRow] /\ row[r] \in OrderRefundRow
      /\ provider \in [Refunds -> [times : Nat, keyAt : Nat]]
      /\ provider[r] \in [times : Nat, keyAt : Nat]
      /\ now \in Nat
  BY DEF MadeInv, Typed, TypeOK
<1>3. /\ row[r].made => provider[r].times > 0 /\ ~Running(job[r], "calling")
      /\ Running(job[r], "recording") => provider[r].times > 0
  BY DEF MadeInv, MadeNotAskedAgain, AnswerIsMade
<1>4. ASSUME provider'[r] = provider[r], row'[r].made = row[r].made,
             job'[r] = job[r] \/ job'[r].state # "active"
      PROVE  Kept(r)
  BY <1>3, <1>4 DEF Running
<1> HIDE DEF Kept
<1>5. NoJob.state # "active"
  BY DEF NoJob
<1>6. giveUpRefund(row[r]).made = row[r].made
  BY <1>2 DEF giveUpRefund, OrderRefundRow
<1>7. ASSUME NEW s \in Refunds, NEW x \in OrderRefundRow, Ends(s, x), x.made = row[s].made
      PROVE  Kept(r)
  <2>1. provider'[r] = provider[r] /\ row'[r].made = row[r].made
    BY <1>2, <1>7 DEF Ends
  <2>2. at(job[s], "ending").stage = "ending"
    BY <1>2 DEF at, Job
  <2>3. job'[r] = job[r] \/ job'[r].stage = "ending"
    BY <1>2, <1>7, <2>2 DEF Ends
  <2> QED
    BY <1>3, <2>1, <2>3 DEF Running, Kept
<1>8. CASE \E s \in Refunds : OweRefund(s)
  BY <1>2, <1>4, <1>8 DEF OweRefund, OrderRefundRow
<1>9. CASE \E s \in Refunds : Replay(s)
  BY <1>2, <1>4, <1>9 DEF Replay, OrderRefundRow
<1>10. CASE \E s \in Refunds : Process(s)
  <2> PICK s \in Refunds : Process(s)
    BY <1>10
  <2>1. row[s] \in OrderRefundRow /\ job[s] \in Job
    BY <1>2
  <2>2. giveUpRefund(row[s]) \in OrderRefundRow /\ giveUpRefund(row[s]).made = row[s].made
    BY <2>1 DEF giveUpRefund, OrderRefundRow
  <2>3. CASE GiveUpDisputed(s) \/ GiveUpRefund(s)
    BY <1>7, <2>2, <2>3 DEF GiveUpDisputed, GiveUpRefund
  <2>4. CASE SettledAlready(s)
    BY <1>7, <2>1, <2>4 DEF SettledAlready
  <2>5. ASSUME NEW j \in Job, Moves(s, j), j.stage \notin {"calling", "recording"}
        PROVE  Kept(r)
    <3>1. CASE s = r
      BY <1>2, <1>3, <2>5, <3>1 DEF Moves, Running, Kept
    <3>2. CASE s # r
      BY <1>2, <1>4, <2>5, <3>2 DEF Moves
    <3> QED
      BY <3>1, <3>2
  <2>6. \A stage \in Stages : at(job[s], stage) \in Job /\ at(job[s], stage).stage = stage
    BY <2>1, <1>2, JobMoves DEF at, Job
  <2>7. CASE TakeJob(s)
    <3>1. taken(job[s]) \in Job /\ taken(job[s]).stage = "reading"
      BY <2>1, <1>2, JobMoves DEF taken, Job
    <3> QED
      BY <2>5, <2>7, <3>1 DEF TakeJob
  <2>8. CASE ProviderFails(s) \/ RecordFails(s)
    BY <2>5, <2>6, <2>8 DEF ProviderFails, RecordFails, Stages
  <2>9. CASE RetryRefund(s)
    <3> PICK wait \in Waits[job[s].attemptsMade + 1] : Moves(s, retried(job[s], now, wait))
      BY <2>9 DEF RetryRefund
    <3>1. retried(job[s], now, wait) \in Job /\ retried(job[s], now, wait).stage = "idle"
      BY <2>1, <2>9, <1>2, RetriedJob DEF RetryRefund, retried, Job
    <3> QED
      BY <2>5, <3>1
  <2>10. CASE ReadRefund(s)
    <3>1. job' = [job EXCEPT ![s] = at(job[s], "calling")] /\ row' = row /\ provider' = provider
      BY <2>10 DEF ReadRefund, Moves
    <3>2. CASE s = r
      <4>1. ~row[r].made /\ job'[r].stage = "calling"
        BY <1>2, <2>6, <2>10, <3>1, <3>2 DEF ReadRefund, Unsettled, Stages
      <4> QED
        BY <3>1, <4>1 DEF Kept, Running
    <3>3. CASE s # r
      BY <1>2, <1>4, <3>1, <3>3
    <3> QED
      BY <3>2, <3>3
  <2>11. CASE AskProvider(s)
    <3> PICK stage \in {"recording", "failing"} : job' = [job EXCEPT ![s] = at(job[s], stage)]
      BY <1>2, <2>11 DEF AskProvider
    <3>1. row' = row /\ provider' = [provider EXCEPT ![s] = Refunded(provider[s])]
      BY <2>11 DEF AskProvider
    <3>2. CASE s = r
      <4>1. Refunded(provider[r]).times > 0
        BY <1>2 DEF Refunded
      <4>2. job'[r].stage # "calling"
        BY <1>2, <2>6, <3>2 DEF Stages
      <4> QED
        BY <1>2, <3>1, <3>2, <4>1, <4>2 DEF Kept, Running
    <3>3. CASE s # r
      BY <1>2, <1>4, <3>1, <3>3
    <3> QED
      BY <3>2, <3>3
  <2>12. CASE RecordRefund(s)
    <3>1. provider' = provider /\ job' = [job EXCEPT ![s] = at(job[s], "ending")]
      BY <1>2, <2>12 DEF RecordRefund
    <3>2. CASE s = r
      <4>1. provider[r].times > 0
        BY <1>3, <2>12, <3>2 DEF RecordRefund
      <4>2. job'[r].stage = "ending"
        BY <1>2, <2>6, <3>1, <3>2 DEF Stages
      <4> QED
        BY <3>1, <4>1, <4>2 DEF Kept, Running
    <3>3. CASE s # r
      BY <1>2, <1>4, <2>12, <3>1, <3>3 DEF RecordRefund
    <3> QED
      BY <3>2, <3>3
  <2>13. CASE FailStalled(s)
    <3>1. provider'[r] = provider[r] /\ row'[r].made = row[r].made
      BY <1>2, <2>2, <2>13 DEF FailStalled
    <3>2. job'[r] = job[r] \/ job'[r].state # "active"
      BY <1>2, <1>5, <2>13 DEF FailStalled
    <3> QED
      BY <1>4, <3>1, <3>2
  <2>14. CASE RemoveJob(s)
    <3>1. provider' = provider /\ row' = row /\ (job'[r] = job[r] \/ job'[r].state # "active")
      BY <1>2, <1>5, <2>14 DEF RemoveJob, Moves
    <3> QED
      BY <1>4, <3>1
  <2> QED
    BY <2>3, <2>4, <2>7, <2>8, <2>9, <2>10, <2>11, <2>12, <2>13, <2>14 DEF Process
<1>11. CASE \E s \in Refunds : Stall(s)
  <2> PICK s \in Refunds : Stall(s)
    BY <1>11
  <2>1. stalled(job[s]).state # "active"
    BY <1>2 DEF stalled, Job
  <2> QED
    BY <1>2, <1>4, <2>1 DEF Stall, Moves
<1>12. CASE \E rs \in SUBSET Refunds : AskRefundCallsAgain(rs)
  BY SMTT(30), <1>2, <1>4, <1>12 DEF AskRefundCallsAgain, OrderRefundRow
<1>13. CASE Dispute \/ ComeUp \/ Tick \/ RelayCrashes \/ UNCHANGED vars
  BY <1>4, <1>13 DEF Dispute, ComeUp, Tick, RelayCrashes, vars, worker
<1>14. CASE GiveUpLostRefunds
  BY <1>2, <1>4, <1>14 DEF GiveUpLostRefunds, OrderRefundRow
<1>15. CASE RelayRefunds
  <2>1. add(job[r], now) = job[r] \/ add(job[r], now).state # "active"
    BY DEF add, NewJob, NoJob
  <2> QED
    BY <1>2, <1>4, <1>15, <2>1 DEF RelayRefunds
<1>16. CASE StampRefunds
  BY <1>2, <1>4, <1>16 DEF StampRefunds, OrderRefundRow
<1>17. CASE RerunAskedRefunds
  <2>1. promoted(job[r]) = job[r] \/ promoted(job[r]).state # "active"
    BY <1>2 DEF promoted, Job
  <2>2. row'[r].made = row[r].made
    BY <1>2, <1>17 DEF RerunAskedRefunds, OrderRefundRow
  <2>3. job'[r] = job[r] \/ job'[r] = promoted(job[r])
    BY <1>17 DEF RerunAskedRefunds
  <2> QED
    BY <1>4, <1>17, <2>1, <2>2, <2>3 DEF RerunAskedRefunds
<1>18. CASE GoDown
  <2>1. job[r].state = "active" => stalled(job[r]).state # "active"
    BY <1>2 DEF stalled, Job
  <2> QED
    BY <1>4, <1>18, <2>1 DEF GoDown
<1>19. CASE LoseJobs
  BY <1>4, <1>5, <1>19 DEF LoseJobs
<1> QED
  BY <1>8, <1>9, <1>10, <1>11, <1>12, <1>13, <1>14, <1>15, <1>16, <1>17, <1>18, <1>19
  DEF Next, Relay

\* For any number of refunds, outages, losses and replays: a refund recorded as
\* made was made by the provider, and no job asks for it again, since each attempt
\* reads the row before it calls (refund.processor.ts).
THEOREM MadeIsMade == Spec => []MadeNotAskedAgain
<1>1. Spec => []MadeInv
  BY InitMade, NextMade, PTL DEF Spec
<1> QED
  BY <1>1, PTL DEF MadeInv

-----------------------------------------------------------------------------
(***************************************************************************)
(* Once, while the worker process stays up.                                *)
(***************************************************************************)

\* A job's attempts are due no later than the schedule allows after it was added.
OnSchedule(r) ==
    LET j == job[r]
    IN  /\ j.state # "none" => row[r].owed /\ j.added <= now
        /\ j.state \in {"waiting", "active"} => now <= j.added + Latest[j.attemptsMade]
        /\ j.state = "delayed" => now <= j.due /\ j.due <= j.added + Latest[j.attemptsMade]

\* No job was added after the provider first met the key, and a row not stamped yet
\* met it at this very instant: so every attempt still to come falls in its memory.
KeyRemembered(r) ==
    LET p == provider[r]
    IN  /\ p.times \in {0, 1}
        /\ p.times = 1 => row[r].owed /\ p.keyAt <= now
        /\ p.times = 1 /\ job[r].state # "none" => job[r].added <= p.keyAt
        /\ p.times = 1 /\ Due(r) => p.keyAt = now

OnceAt(r) == OnSchedule(r) /\ KeyRemembered(r)

OnceInv == Typed /\ up /\ \A r \in Refunds : OnceAt(r)

\* It holds until the process first goes down.
OnceUntilDown == Typed /\ (outages = 0 => OnceInv)

\* The initial state of the third invariant.
LEMMA InitOnce == Init => OnceInv
<1> SUFFICES ASSUME Init PROVE OnceInv
  OBVIOUS
<1>1. \A r \in Refunds : job[r].state = "none" /\ provider[r].times = 0
  BY DEF Init, NoJob
<1> QED
  BY <1>1, InitTyped DEF Init, OnceInv, OnceAt, OnSchedule, KeyRemembered

\* Every step but the process's going down keeps a refund made at most once.
LEMMA NextOnce == OnceInv /\ [Next]_vars /\ ~GoDown => OnceInv'
<1> SUFFICES ASSUME OnceInv, [Next]_vars, ~GoDown PROVE OnceInv'
  OBVIOUS
<1>1. Typed'
  BY NextTyped DEF OnceInv
<1>2. ~GoDown
  OBVIOUS
<1>3. up'
  BY <1>2 DEF OnceInv, Next, Relay, Process, OweRefund, Replay, Stall, AskRefundCallsAgain, Dispute,
     GiveUpLostRefunds, RelayRefunds, StampRefunds, RerunAskedRefunds, RelayCrashes, ComeUp,
     LoseJobs, Tick, TakeJob, FailStalled, SettledAlready, GiveUpDisputed, ReadRefund,
     AskProvider, ProviderFails, RecordRefund, RecordFails, RetryRefund, GiveUpRefund,
     RemoveJob, Ends, Moves, vars, worker
<1> SUFFICES ASSUME NEW r \in Refunds PROVE OnceAt(r)'
  BY <1>1, <1>3 DEF OnceInv
<1>4. /\ job \in [Refunds -> Job] /\ job[r] \in Job
      /\ row \in [Refunds -> OrderRefundRow] /\ row[r] \in OrderRefundRow
      /\ provider \in [Refunds -> [times : Nat, keyAt : Nat]]
      /\ provider[r] \in [times : Nat, keyAt : Nat]
      /\ now \in Nat
  BY DEF OnceInv, Typed, TypeOK
<1>5. OnSchedule(r) /\ KeyRemembered(r)
  BY DEF OnceInv, OnceAt
<1>6. /\ job[r].added \in Nat /\ job[r].due \in Nat
      /\ job[r].attemptsMade \in 0 .. Attempts - 1
      /\ job[r].state \in {"none", "waiting", "delayed", "active"}
      /\ Latest[job[r].attemptsMade] \in Nat
      /\ Latest[job[r].attemptsMade] < Retention
  BY <1>4, ScheduleAssumption, AttemptsAssumption DEF Job
<1>7. job[r].state # "none" => now <= job[r].added + Latest[job[r].attemptsMade]
  BY <1>4, <1>5, <1>6 DEF OnSchedule
\* The row keeps owed, is due only if it was, and its job is kept or gone.
<1>8. ASSUME now' = now, provider'[r] = provider[r], row'[r].owed = row[r].owed,
             Due(r)' => Due(r), job'[r] = job[r] \/ job'[r].state = "none"
      PROVE  OnceAt(r)'
  BY <1>5, <1>8 DEF OnceAt, OnSchedule, KeyRemembered
\* Its job goes to wait or to run, nothing else changes.
<1>9. ASSUME now' = now, provider'[r] = provider[r], row'[r].owed = row[r].owed,
             Due(r)' => Due(r), job[r].state # "none", job'[r].state \in {"waiting", "active"},
             job'[r].added = job[r].added, job'[r].attemptsMade = job[r].attemptsMade
      PROVE  OnceAt(r)'
  BY <1>5, <1>7, <1>9 DEF OnceAt, OnSchedule, KeyRemembered
<1>10. NoJob.state = "none"
  BY DEF NoJob
<1>11. ASSUME NEW s \in Refunds, job[s].state = "active", NEW x \in OrderRefundRow, Ends(s, x),
              x.owed = row[s].owed, x.made \/ x.dead \/ x = row[s]
       PROVE  OnceAt(r)'
  <2>1. now' = now /\ provider'[r] = provider[r]
    BY <1>11 DEF Ends
  <2>2. row'[r].owed = row[r].owed /\ (Due(r)' => Due(r))
    BY <1>4, <1>11 DEF Ends, Due, Unsettled
  <2>3. /\ at(job[s], "ending").state = job[s].state
        /\ at(job[s], "ending").added = job[s].added
        /\ at(job[s], "ending").attemptsMade = job[s].attemptsMade
    BY <1>4 DEF at, Job
  <2>4. CASE s = r
    BY <1>4, <1>9, <1>11, <2>1, <2>2, <2>3, <2>4 DEF Ends
  <2>5. CASE s # r
    BY <1>4, <1>8, <1>11, <2>1, <2>2, <2>5 DEF Ends
  <2> QED
    BY <2>4, <2>5
<1>12. ASSUME NEW s \in Refunds, NEW j \in Job, Moves(s, j), job[s].state # "none",
              j.state \in {"waiting", "active"},
              j.added = job[s].added, j.attemptsMade = job[s].attemptsMade
       PROVE  OnceAt(r)'
  <2>1. now' = now /\ provider' = provider /\ row' = row /\ job' = [job EXCEPT ![s] = j]
    BY <1>12 DEF Moves
  <2>2. Due(r)' = Due(r)
    BY <2>1 DEF Due, Unsettled
  <2>3. CASE s = r
    BY <1>4, <1>9, <1>12, <2>1, <2>2, <2>3
  <2>4. CASE s # r
    BY <1>4, <1>8, <2>1, <2>2, <2>4
  <2> QED
    BY <2>3, <2>4
<1>13. CASE \E s \in Refunds : OweRefund(s)
  <2> PICK s \in Refunds : OweRefund(s)
    BY <1>13
  <2>1. now' = now /\ provider' = provider /\ job' = job /\ row' = [row EXCEPT ![s].owed = TRUE]
    BY DEF OweRefund
  <2>2. CASE s = r
    <3>1. provider[r].times = 0 /\ job[r].state = "none"
      BY <1>5, <2>2 DEF OweRefund, OnSchedule, KeyRemembered
    <3> QED
      BY <2>1, <3>1 DEF OnceAt, OnSchedule, KeyRemembered
  <2>3. CASE s # r
    BY <1>4, <1>8, <2>1, <2>3 DEF Due, Unsettled
  <2> QED
    BY <2>2, <2>3
<1>14. CASE \E s \in Refunds : Replay(s)
  <2> PICK s \in Refunds : Replay(s)
    BY <1>14
  <2>1. /\ now' = now /\ provider' = provider /\ job' = job
        /\ row' = [row EXCEPT ![s].dead = FALSE, ![s].enqueued = Never]
    BY DEF Replay
  <2>2. CASE s = r
    <3>1. provider[r].times = 0 /\ row'[r].owed = row[r].owed
      BY <1>4, <2>1, <2>2 DEF Replay, OrderRefundRow
    <3> QED
      BY <1>5, <2>1, <3>1 DEF OnceAt, OnSchedule, KeyRemembered
  <2>3. CASE s # r
    BY <1>4, <1>8, <2>1, <2>3 DEF Due, Unsettled
  <2> QED
    BY <2>2, <2>3
<1>15. CASE \E s \in Refunds : Process(s)
  <2> PICK s \in Refunds : Process(s)
    BY <1>15
  <2>1. job[s] \in Job
    BY <1>4
  <2>2. /\ row[s] \in OrderRefundRow /\ giveUpRefund(row[s]) \in OrderRefundRow
        /\ giveUpRefund(row[s]).owed = row[s].owed
        /\ giveUpRefund(row[s]).made \/ giveUpRefund(row[s]).dead
    BY <1>4 DEF giveUpRefund, OrderRefundRow
  <2>3. CASE GiveUpDisputed(s) \/ GiveUpRefund(s) \/ SettledAlready(s)
    BY <1>11, <2>3, <2>2 DEF GiveUpDisputed, GiveUpRefund, SettledAlready, Running
  <2>4. CASE FailStalled(s)
    <3>1. row'[r].owed = row[r].owed /\ (Due(r)' => Due(r))
      BY <1>4, <2>2, <2>4 DEF FailStalled, Due, Unsettled
    <3>2. job'[r] = job[r] \/ job'[r].state = "none"
      BY <1>4, <1>10, <2>4 DEF FailStalled
    <3> QED
      BY <1>8, <2>4, <3>1, <3>2 DEF FailStalled
  <2>5. CASE RemoveJob(s)
    <3>1. job'[r] = job[r] \/ job'[r].state = "none"
      BY <1>4, <1>10, <2>5 DEF RemoveJob, Moves
    <3> QED
      BY <1>8, <2>5, <3>1 DEF RemoveJob, Moves, Due, Unsettled
  <2>6. CASE TakeJob(s)
    <3>1. /\ taken(job[s]) \in Job /\ taken(job[s]).state = "active"
          /\ taken(job[s]).added = job[s].added
          /\ taken(job[s]).attemptsMade = job[s].attemptsMade
      BY <2>1, <1>4, JobMoves DEF taken, Job
    <3> QED
      BY <1>12, <2>6, <3>1 DEF TakeJob, Runnable
  <2>7. \A stage \in Stages :
           /\ at(job[s], stage) \in Job /\ at(job[s], stage).state = job[s].state
           /\ at(job[s], stage).added = job[s].added
           /\ at(job[s], stage).attemptsMade = job[s].attemptsMade
    BY <2>1, <1>4, JobMoves DEF at, Job
  <2>8. CASE ReadRefund(s) \/ ProviderFails(s) \/ RecordFails(s)
    <3> PICK stage \in Stages : Moves(s, at(job[s], stage))
      BY <2>8 DEF ReadRefund, ProviderFails, RecordFails, Stages
    <3>1. job[s].state = "active"
      BY <2>8 DEF ReadRefund, ProviderFails, RecordFails, Running
    <3> QED
      BY <1>12, <2>7, <3>1
  <2>9. CASE AskProvider(s)
    <3> PICK stage \in Stages : job' = [job EXCEPT ![s] = at(job[s], stage)]
      BY <1>4, <2>9 DEF AskProvider, Stages
    <3>1. /\ now' = now /\ row' = row
          /\ provider' = [provider EXCEPT ![s] = Refunded(provider[s])]
      BY <2>9 DEF AskProvider
    <3>2. Due(r)' = Due(r)
      BY <3>1 DEF Due, Unsettled
    <3>3. CASE s # r
      BY <1>4, <1>8, <3>1, <3>2, <3>3
    <3>4. CASE s = r
      <4>1. /\ job'[r].state = "active" /\ job'[r].added = job[r].added
            /\ job'[r].attemptsMade = job[r].attemptsMade /\ job[r].state = "active"
        BY <1>4, <2>7, <2>9, <3>4 DEF AskProvider, Running
      <4>2. row[r].owed /\ job[r].added <= now
        BY <1>5, <4>1 DEF OnSchedule
      <4>3. provider'[r] = Refunded(provider[r])
        BY <1>4, <3>1, <3>4
      <4>4. CASE provider[r].times = 0
        <5>1. provider'[r] = [times |-> 1, keyAt |-> now]
          BY <4>3, <4>4 DEF Refunded
        <5> QED
          BY <1>4, <1>6, <1>7, <3>1, <4>1, <4>2, <5>1 DEF OnceAt, OnSchedule, KeyRemembered
      <4>5. CASE provider[r].times = 1
        <5>1. /\ provider[r].keyAt \in Nat /\ Retention \in Nat
              /\ job[r].added <= provider[r].keyAt
          BY <1>4, <1>5, <4>1, <4>5, StaleAfterAssumption DEF KeyRemembered
        <5>2. now - provider[r].keyAt < Retention
          BY <1>4, <1>6, <1>7, <4>1, <5>1
        <5>3. provider'[r] = provider[r]
          BY <4>3, <4>5, <5>2 DEF Refunded
        <5> QED
          BY <1>9, <3>1, <3>2, <4>1, <5>3
      <4> QED
        BY <1>5, <4>4, <4>5 DEF KeyRemembered
    <3> QED
      BY <3>3, <3>4
  <2>10. CASE RecordRefund(s)
    <3>1. LET x == [row[s] EXCEPT !.made = TRUE]
          IN  x \in OrderRefundRow /\ x.owed = row[s].owed /\ x.made
      BY <2>2 DEF OrderRefundRow
    <3>2. Ends(s, [row[s] EXCEPT !.made = TRUE]) /\ job[s].state = "active"
      BY <1>4, <2>10 DEF RecordRefund, Ends, Running
    <3> QED
      BY <1>11, <3>1, <3>2
  <2>11. CASE RetryRefund(s)
    <3> PICK wait \in Waits[job[s].attemptsMade + 1] : Moves(s, retried(job[s], now, wait))
      BY <2>11 DEF RetryRefund
    <3>1. /\ now' = now /\ provider' = provider /\ row' = row
          /\ job' = [job EXCEPT ![s] = retried(job[s], now, wait)]
      BY DEF Moves
    <3>2. Due(r)' = Due(r)
      BY <3>1 DEF Due, Unsettled
    <3>3. CASE s # r
      BY <1>4, <1>8, <3>1, <3>2, <3>3
    <3>4. CASE s = r
      <4>1. job[r].state = "active" /\ ~isLastAttempt(job[r])
        BY <2>11, <3>4 DEF RetryRefund, Running
      <4>2. /\ job[r].attemptsMade + 1 \in 1 .. Attempts - 1 /\ wait \in Nat
            /\ job'[r].state = "delayed" /\ job'[r].added = job[r].added
            /\ job'[r].attemptsMade = job[r].attemptsMade + 1
            /\ job'[r].due = now + wait
        BY <1>4, <3>1, <3>4, <4>1, RetriedJob
      <4>3. Latest[job[r].attemptsMade] + wait <= Latest[job[r].attemptsMade + 1]
        <5>1. (job[r].attemptsMade + 1) - 1 = job[r].attemptsMade
          BY <1>6
        <5> QED
          BY <3>4, <4>2, <5>1, ScheduleAssumption
      <4>4. Latest[job[r].attemptsMade + 1] \in Nat
        BY <4>2, ScheduleAssumption
      <4>5. now + wait <= job[r].added + Latest[job[r].attemptsMade + 1]
        BY <1>4, <1>6, <1>7, <4>1, <4>2, <4>3, <4>4
      <4>6. now <= now + wait
        BY <1>4, <4>2
      <4> QED
        BY <1>5, <3>1, <3>2, <4>1, <4>2, <4>5, <4>6 DEF OnceAt, OnSchedule, KeyRemembered
    <3> QED
      BY <3>3, <3>4
  <2> QED
    BY <2>3, <2>4, <2>5, <2>6, <2>8, <2>9, <2>10, <2>11 DEF Process
<1>16. CASE \E s \in Refunds : Stall(s)
  <2> PICK s \in Refunds : Stall(s)
    BY <1>16
  <2>1. job[s] \in Job /\ ~stalledPastBound(job[s])
    BY <1>4 DEF Stall, OnceInv, Typed, RunWithinBound
  <2> QED
    BY <1>12, <2>1, StalledJob DEF Stall
<1>17. CASE \E rs \in SUBSET Refunds : AskRefundCallsAgain(rs)
  <2> PICK rs \in SUBSET Refunds : AskRefundCallsAgain(rs)
    BY <1>17
  <2>1. row'[r] = [row[r] EXCEPT !.rerun = row[r].rerun \/ r \in rs]
    BY DEF AskRefundCallsAgain
  <2>2. /\ row'[r].owed = row[r].owed /\ row'[r].made = row[r].made
        /\ row'[r].dead = row[r].dead /\ row'[r].enqueued = row[r].enqueued
    BY <1>4, <2>1 DEF OrderRefundRow
  <2>3. Due(r)' => Due(r)
    BY <2>2 DEF Due, Unsettled
  <2> QED
    BY <1>8, <2>2, <2>3 DEF AskRefundCallsAgain
<1>18. CASE Dispute \/ RelayCrashes \/ ComeUp \/ UNCHANGED vars
  BY <1>8, <1>18 DEF Dispute, RelayCrashes, ComeUp, vars, Due, Unsettled
<1>19. CASE GiveUpLostRefunds
  BY <1>4, <1>8, <1>19 DEF GiveUpLostRefunds, OrderRefundRow, Due, Unsettled
<1>20. CASE RelayRefunds
  <2>1. now' = now /\ provider' = provider /\ row' = row
    BY <1>20 DEF RelayRefunds
  <2>2. Due(r)' = Due(r)
    BY <2>1 DEF Due, Unsettled
  <2>3. CASE Due(r) /\ job[r].state = "none"
    <3>1. job'[r] = NewJob(now)
      BY <1>20, <2>3 DEF RelayRefunds, add
    <3>2. /\ job'[r].state = "waiting" /\ job'[r].added = now /\ job'[r].attemptsMade = 0
      BY <3>1 DEF NewJob, NoJob
    <3>3. Latest[0] \in Nat
      BY ScheduleAssumption, AttemptsAssumption
    <3>4. row[r].owed
      BY <2>3 DEF Due, Unsettled
    <3>5. now <= now + Latest[0]
      BY <1>4, <3>3
    <3> QED
      BY <1>4, <1>5, <2>1, <2>2, <2>3, <3>2, <3>4, <3>5 DEF OnceAt, OnSchedule, KeyRemembered
  <2>4. CASE ~(Due(r) /\ job[r].state = "none")
    <3>1. job'[r] = job[r]
      BY <1>20, <2>4 DEF RelayRefunds, add
    <3> QED
      BY <1>8, <2>1, <2>2, <3>1
  <2> QED
    BY <2>3, <2>4
<1>21. CASE StampRefunds
  <2>1. row'[r].owed = row[r].owed
    BY <1>4, <1>21 DEF StampRefunds, OrderRefundRow
  <2>2. relay.nowMs \in Nat
    BY DEF OnceInv, Typed, TypeOK
  <2>3. Due(r)' => Due(r)
    BY <1>4, <1>21, <2>2 DEF StampRefunds, OrderRefundRow, Due, Unsettled, Never
  <2> QED
    BY <1>8, <1>21, <2>1, <2>3 DEF StampRefunds
<1>22. CASE RerunAskedRefunds
  <2>1. now' = now /\ provider' = provider
    BY <1>22 DEF RerunAskedRefunds
  <2>2. row'[r].owed = row[r].owed /\ (Due(r)' => Due(r))
    BY <1>4, <1>22 DEF RerunAskedRefunds, OrderRefundRow, Due, Unsettled
  <2>3. job'[r] = job[r] \/ job'[r] = promoted(job[r])
    BY <1>22 DEF RerunAskedRefunds
  <2>4. CASE job'[r] = job[r]
    BY <1>8, <2>1, <2>2, <2>4
  <2>5. CASE job'[r] # job[r]
    <3>1. /\ job[r].state = "delayed" /\ job'[r].state = "waiting"
          /\ job'[r].added = job[r].added /\ job'[r].attemptsMade = job[r].attemptsMade
      BY <1>4, <2>3, <2>5 DEF promoted, Job
    <3> QED
      BY <1>9, <2>1, <2>2, <3>1
  <2> QED
    BY <2>4, <2>5
<1>23. CASE LoseJobs
  <2>1. job'[r] = job[r] \/ job'[r].state = "none"
    BY <1>10, <1>23 DEF LoseJobs
  <2> QED
    BY <1>8, <1>23, <2>1 DEF LoseJobs, Due, Unsettled
\* The clock moves only past what the worker has done: nothing due is left behind.
<1>24. CASE Tick
  <2>1. /\ now' = now + 1 /\ row' = row /\ provider' = provider /\ job' = job
        /\ ~Due(r) /\ job[r].state # "active" /\ ~Runnable(job[r], now)
    BY <1>24 DEF Tick, KeptUp, OnceInv
  <2>2. ~Due(r)'
    BY <2>1 DEF Due, Unsettled
  <2>3. job[r].state = "delayed" => now + 1 <= job[r].due
    BY <1>4, <1>6, <2>1 DEF Runnable
  <2>4. job[r].state \in {"none", "delayed"}
    BY <1>6, <2>1 DEF Runnable
  <2> QED
    BY <1>4, <1>5, <1>6, <2>1, <2>2, <2>3, <2>4 DEF OnceAt, OnSchedule, KeyRemembered
<1> QED
  BY <1>2, <1>13, <1>14, <1>15, <1>16, <1>17, <1>18, <1>19, <1>20, <1>21, <1>22, <1>23, <1>24
  DEF Next, Relay

\* Going down is the one step that counts an outage, and none takes one back.
LEMMA OutagesCounted ==
    ASSUME Typed, [Next]_vars, outages' = 0
    PROVE  outages = 0 /\ ~GoDown
<1>1. outages \in Nat
  BY DEF Typed, TypeOK
<1>2. ~GoDown
  BY <1>1 DEF GoDown
<1> QED
  BY <1>2 DEF Next, Relay, Process, OweRefund, Replay, Stall, AskRefundCallsAgain, Dispute,
     GiveUpLostRefunds, RelayRefunds, StampRefunds, RerunAskedRefunds, RelayCrashes, ComeUp,
     LoseJobs, Tick, TakeJob, FailStalled, SettledAlready, GiveUpDisputed, ReadRefund,
     AskProvider, ProviderFails, RecordRefund, RecordFails, RetryRefund, GiveUpRefund,
     RemoveJob, Ends, Moves, vars, worker

\* Until the worker process first goes down, no refund is made twice, for any number
\* of refunds, attempts, stalls, lost jobs, crashes of the relay and replays, and any
\* schedule whose last attempt lands inside the provider's memory of the key
\* (owed-calls.ts: REFUND_RETRIES_WITHIN_MS under PROVIDER_KEY_RETENTION_MS).
THEOREM OnceWhileUp == Spec => []RefundedOnceWhileUp
<1>1. Init => OnceUntilDown
  BY InitOnce DEF OnceUntilDown, OnceInv
<1>2. OnceUntilDown /\ [Next]_vars => OnceUntilDown'
  <2> SUFFICES ASSUME OnceUntilDown, [Next]_vars PROVE OnceUntilDown'
    OBVIOUS
  <2>1. Typed'
    BY NextTyped DEF OnceUntilDown
  <2>2. ASSUME outages' = 0 PROVE OnceInv'
    BY <2>2, OutagesCounted, NextOnce DEF OnceUntilDown
  <2> QED
    BY <2>1, <2>2 DEF OnceUntilDown
<1>3. OnceUntilDown => RefundedOnceWhileUp
  BY DEF OnceUntilDown, OnceInv, OnceAt, KeyRemembered, RefundedOnceWhileUp, RefundedOnce
<1> QED
  BY <1>1, <1>2, <1>3, PTL DEF Spec

-----------------------------------------------------------------------------
(***************************************************************************)
(* The cancellation of an intent: its job's operators.                     *)
(***************************************************************************)

\* The moves of a job that keep its type unconditionally, and where they leave it.
LEMMA CancellationJob ==
    ASSUME NEW j \in IC!Job
    PROVE  /\ IC!NoJob \in IC!Job /\ IC!NoJob.state = "none"
           /\ IC!add(j, 0) \in IC!Job /\ (IC!add(j, 0) = j \/ IC!add(j, 0).state = "waiting")
           /\ IC!taken(j) \in IC!Job /\ IC!taken(j).stage = "reading" /\ IC!taken(j).stalls = j.stalls
           /\ \A stage \in IC!Stages :
                  /\ IC!at(j, stage) \in IC!Job
                  /\ IC!at(j, stage).stage = stage
                  /\ IC!at(j, stage).state = j.state /\ IC!at(j, stage).stalls = j.stalls
<1>1. IC!NoJob \in IC!Job /\ IC!NewJob(0) \in IC!Job /\ IC!NewJob(0).state = "waiting"
  <2>1. IC!NoJob \in IC!Job
    BY AttemptsAssumption, MaxStalledAssumption DEF IC!Job, IC!NoJob, IC!Stages
  <2> QED
    BY <2>1 DEF IC!Job, IC!NewJob, IC!NoJob, IC!Stages
<1>2. IC!add(j, 0) \in IC!Job /\ (IC!add(j, 0) = j \/ IC!add(j, 0).state = "waiting")
  BY <1>1 DEF IC!add
<1>3. IC!taken(j) \in IC!Job /\ IC!taken(j).stage = "reading" /\ IC!taken(j).stalls = j.stalls
  BY DEF IC!Job, IC!taken, IC!Stages
<1>4. \A stage \in IC!Stages :
          /\ IC!at(j, stage) \in IC!Job
          /\ IC!at(j, stage).stage = stage
          /\ IC!at(j, stage).state = j.state /\ IC!at(j, stage).stalls = j.stalls
  BY DEF IC!Job, IC!at, IC!Stages
<1> QED
  BY <1>1, <1>2, <1>3, <1>4 DEF IC!NoJob

\* A job lost by its worker counts one stall, up to one past its bound.
LEMMA StalledCancellation ==
    ASSUME NEW j \in IC!Job, ~IC!stalledPastBound(j)
    PROVE  IC!stalled(j) \in IC!Job /\ IC!stalled(j).state = "waiting"
<1>1. j.stalls + 1 \in 0 .. MaxStalled + 1
  BY MaxStalledAssumption DEF IC!Job, IC!stalledPastBound
<1> QED
  BY <1>1 DEF IC!Job, IC!stalled, IC!Stages

\* A failed attempt that is not the last counts, and leaves one more to make.
LEMMA RetriedCancellation ==
    ASSUME NEW j \in IC!Job, ~IC!isLastAttempt(j)
    PROVE  IC!retried(j, 0, 0) \in IC!Job /\ IC!retried(j, 0, 0).state = "delayed"
<1>1. j.attemptsMade \in 0 .. Attempts - 1
  BY DEF IC!Job
<1>2. j.attemptsMade + 1 \in 0 .. Attempts - 1 /\ 0 + 0 \in Nat
  BY <1>1, AttemptsAssumption DEF IC!isLastAttempt
<1>3. IC!retried(j, 0, 0) \in IC!Job
  BY <1>2 DEF IC!Job, IC!retried, IC!Stages
<1> QED
  BY <1>3 DEF IC!Job, IC!retried

-----------------------------------------------------------------------------
(***************************************************************************)
(* The inductive invariant.  That an intent left waiting is owed is not    *)
(* inductive alone: the mark is cleared by a worker that is about to save  *)
(* an answer, so what that worker was told must be known, across every     *)
(* step another actor takes between the call and the save.                 *)
(***************************************************************************)

\* A worker about to save that the intent is cancelled was told so: the intent waits
\* for no payment any more.
SavedIsAnswered == \A o \in Orders : IC!Running(queue[o], "recording") => intent[o] # "waiting"

\* No worker holds a job past its stall bound, which keeps the count of stalls typed.
QueueWithinBound == \A o \in Orders : queue[o].state = "active" => ~IC!stalledPastBound(queue[o])

CancellationInv ==
    /\ IC!TypeOK
    /\ QueueWithinBound
    /\ SavedIsAnswered
    /\ LeftIntentOwed

\* Nothing is asked or owed before any order expires.
LEMMA NoCancellationYet == IC!Init => CancellationInv
<1> SUFFICES ASSUME IC!Init PROVE CancellationInv
  OBVIOUS
<1>1. IC!NoJob \in IC!Job /\ IC!NoJob.state = "none"
  BY AttemptsAssumption, MaxStalledAssumption DEF IC!NoJob, IC!Job, IC!Stages
<1>2. IC!NewOrder \in IC!SeatOrderRow /\ IC!NewOrder.state = "awaiting"
  BY DEF IC!NewOrder, IC!SeatOrderRow
<1>3. IC!TypeOK
  BY <1>1, <1>2 DEF IC!Init, IC!TypeOK
<1> QED
  BY <1>1, <1>2, <1>3 DEF IC!Init, CancellationInv, QueueWithinBound, SavedIsAnswered, IC!Running,
                          LeftIntentOwed

\* A step that leaves the jobs alone, and makes no intent wait again, keeps the
\* invariant as long as the rows it writes stay owed what they owe.
LEMMA RowStep ==
    ASSUME CancellationInv, IC!TypeOK', queue' = queue,
           \A o \in Orders : intent'[o] = "waiting" => intent[o] = "waiting",
           LeftIntentOwed'
    PROVE  CancellationInv'
BY DEF CancellationInv, QueueWithinBound, SavedIsAnswered

\* A step that moves one job, and no row, intent or relay.
LEMMA MovesInv ==
    ASSUME CancellationInv, NEW o \in Orders, NEW j \in IC!Job, IC!Moves(o, j),
           j.state = "active" => ~IC!stalledPastBound(j),
           IC!Running(j, "recording") => intent[o] # "waiting"
    PROVE  CancellationInv'
<1>1. /\ queue' = [queue EXCEPT ![o] = j] /\ queue \in [Orders -> IC!Job]
      /\ UNCHANGED <<order, intent, claimed, reports, lost, replayed>>
  BY DEF IC!Moves, IC!bounds, CancellationInv, IC!TypeOK
<1>2. IC!TypeOK' /\ LeftIntentOwed'
  BY <1>1 DEF CancellationInv, IC!TypeOK, LeftIntentOwed
<1>3. QueueWithinBound' /\ SavedIsAnswered'
  BY <1>1 DEF CancellationInv, QueueWithinBound, SavedIsAnswered
<1> QED
  BY <1>2, <1>3 DEF CancellationInv

\* A job that ends while its row may be given up on, which clears no mark.
LEMMA GivesUpInv ==
    ASSUME CancellationInv, NEW o \in Orders, NEW j \in IC!Job, queue' = [queue EXCEPT ![o] = j],
           IC!GivesUp(o), j.state = "active" => ~IC!stalledPastBound(j),
           ~IC!Running(j, "recording")
    PROVE  CancellationInv'
<1>1. queue \in [Orders -> IC!Job] /\ order \in [Orders -> IC!SeatOrderRow] /\ lost \in Nat
  BY DEF CancellationInv, IC!TypeOK
<1>2. /\ order' = order \/ order' = [order EXCEPT ![o].dead = order[o].dead \/ order[o].owed]
      /\ lost' \in Nat
      /\ UNCHANGED <<intent, claimed, reports, replayed>>
  BY <1>1 DEF IC!GivesUp
<1>3. order' \in [Orders -> IC!SeatOrderRow]
  BY <1>1, <1>2 DEF IC!SeatOrderRow
<1>4. IC!TypeOK'
  BY <1>1, <1>2, <1>3 DEF CancellationInv, IC!TypeOK
<1>5. \A p \in Orders : /\ order'[p].state = order[p].state
                        /\ order'[p].intentKnown = order[p].intentKnown
                        /\ order'[p].owed = order[p].owed
                        /\ order'[p].declined = order[p].declined
  BY <1>1, <1>2 DEF IC!SeatOrderRow
<1>6. LeftIntentOwed'
  BY <1>2, <1>5 DEF CancellationInv, LeftIntentOwed
<1>7. QueueWithinBound' /\ SavedIsAnswered'
  BY <1>1, <1>2 DEF CancellationInv, QueueWithinBound, SavedIsAnswered
<1> QED
  BY <1>4, <1>6, <1>7 DEF CancellationInv

\* The order's own steps: it expires or its payment fails, its intent is reported or paid, an operator
\* replays it, the stale window passes.
LEMMA OrderInv ==
    ASSUME CancellationInv, NEW o \in Orders,
           \/ IC!ExpireOrder(o) \/ IC!FailUnpaidOrder(o) \/ IC!RecordWaitingIntent(o) \/ IC!ConfirmPayment(o)
           \/ IC!IntentSucceeds(o) \/ IC!Replay(o) \/ IC!BecomeStale(o)
    PROVE  CancellationInv'
<1> USE DEF CancellationInv, IC!bounds
<1>1. /\ order \in [Orders -> IC!SeatOrderRow] /\ order[o] \in IC!SeatOrderRow
      /\ intent \in [Orders -> {"waiting", "succeeded", "canceled"}]
      /\ reports \in Nat /\ lost \in Nat /\ replayed \in Nat
  BY DEF IC!TypeOK
<1>2. CASE IC!ExpireOrder(o)
  <2>1. IC!TypeOK'
    BY <1>1, <1>2 DEF IC!ExpireOrder, IC!TypeOK, IC!SeatOrderRow
  <2>2. LeftIntentOwed'
    BY <1>1, <1>2 DEF IC!ExpireOrder, LeftIntentOwed
  <2> QED
    BY <1>2, <2>1, <2>2, RowStep DEF IC!ExpireOrder
<1>3. CASE IC!RecordWaitingIntent(o)
  <2>1. IC!TypeOK'
    <3>1. PICK x \in IC!SeatOrderRow : order' = [order EXCEPT ![o] = x]
      BY <1>1, <1>3 DEF IC!RecordWaitingIntent, IC!SeatOrderRow
    <3>2. order' \in [Orders -> IC!SeatOrderRow]
      BY <1>1, <3>1
    <3>3. reports' \in Nat
      BY <1>1, <1>3 DEF IC!RecordWaitingIntent
    <3> QED
      BY <1>3, <3>2, <3>3 DEF IC!RecordWaitingIntent, IC!TypeOK
  <2>2. LeftIntentOwed'
    BY <1>1, <1>3 DEF IC!RecordWaitingIntent, LeftIntentOwed
  <2> QED
    BY <1>3, <2>1, <2>2, RowStep DEF IC!RecordWaitingIntent
<1>4. CASE IC!ConfirmPayment(o)
  <2>1. PICK state \in {"paid", "failed"} :
            order' = [order EXCEPT ![o].state = state, ![o].settled = TRUE,
                                   ![o].intentKnown = TRUE, ![o].owed = FALSE]
    BY <1>4 DEF IC!ConfirmPayment
  <2>2. IC!TypeOK'
    BY <1>1, <1>4, <2>1 DEF IC!ConfirmPayment, IC!TypeOK, IC!SeatOrderRow
  <2>3. LeftIntentOwed'
    BY <1>1, <1>4, <2>1 DEF IC!ConfirmPayment, LeftIntentOwed
  <2> QED
    BY <1>4, <2>2, <2>3, RowStep DEF IC!ConfirmPayment
<1>5. CASE IC!IntentSucceeds(o)
  <2>1. IC!TypeOK'
    BY <1>1, <1>5 DEF IC!IntentSucceeds, IC!TypeOK
  <2>2. LeftIntentOwed'
    BY <1>1, <1>5 DEF IC!IntentSucceeds, LeftIntentOwed
  <2> QED
    BY <1>1, <1>5, <2>1, <2>2, RowStep DEF IC!IntentSucceeds
<1>6. CASE IC!Replay(o)
  <2>1. IC!TypeOK'
    <3>1. order' \in [Orders -> IC!SeatOrderRow]
      BY <1>1, <1>6 DEF IC!Replay, IC!SeatOrderRow
    <3> QED
      BY <1>1, <1>6, <3>1 DEF IC!Replay, IC!TypeOK
  <2>2. LeftIntentOwed'
    BY <1>1, <1>6 DEF IC!Replay, LeftIntentOwed
  <2> QED
    BY <1>6, <2>1, <2>2, RowStep DEF IC!Replay
<1>7. CASE IC!BecomeStale(o)
  <2>1. IC!TypeOK'
    BY <1>1, <1>7 DEF IC!BecomeStale, IC!TypeOK, IC!SeatOrderRow
  <2>2. LeftIntentOwed'
    BY <1>1, <1>7 DEF IC!BecomeStale, LeftIntentOwed
  <2> QED
    BY <1>7, <2>1, <2>2, RowStep DEF IC!BecomeStale
<1>8. CASE IC!FailUnpaidOrder(o)
  <2>1. IC!TypeOK'
    BY <1>1, <1>8 DEF IC!FailUnpaidOrder, IC!TypeOK, IC!SeatOrderRow
  <2>2. LeftIntentOwed'
    BY <1>1, <1>8 DEF IC!FailUnpaidOrder, LeftIntentOwed, IC!SeatOrderRow
  <2> QED
    BY <1>8, <2>1, <2>2, RowStep DEF IC!FailUnpaidOrder
<1> QED
  BY <1>2, <1>3, <1>4, <1>5, <1>6, <1>7, <1>8

\* The relay adds jobs no worker holds yet, and stamps rows without clearing a mark.
LEMMA RelayInv ==
    ASSUME CancellationInv,
           IC!RelayIntentCancellations \/ IC!StampIntentCancellations \/ IC!RelayCrashes
    PROVE  CancellationInv'
<1> USE DEF CancellationInv, IC!bounds
<1>1. /\ order \in [Orders -> IC!SeatOrderRow] /\ queue \in [Orders -> IC!Job]
      /\ claimed \in SUBSET Orders
  BY DEF IC!TypeOK
<1>2. CASE IC!RelayIntentCancellations
  <2>1. /\ \A o \in Orders : queue'[o] \in IC!Job
        /\ \A o \in Orders : queue'[o] = queue[o] \/ queue'[o].state = "waiting"
    BY <1>1, <1>2, CancellationJob DEF IC!RelayIntentCancellations
  <2>2. queue' \in [Orders -> IC!Job] /\ claimed' \in SUBSET Orders
    BY <1>1, <1>2, <2>1 DEF IC!RelayIntentCancellations
  <2>3. IC!TypeOK'
    BY <1>2, <2>2 DEF IC!RelayIntentCancellations, IC!TypeOK
  <2>4. LeftIntentOwed'
    BY <1>2 DEF IC!RelayIntentCancellations, LeftIntentOwed
  <2>5. QueueWithinBound' /\ SavedIsAnswered'
    BY <1>2, <2>1 DEF IC!RelayIntentCancellations, QueueWithinBound, SavedIsAnswered, IC!Running
  <2> QED
    BY <2>3, <2>4, <2>5
<1>3. CASE IC!StampIntentCancellations
  <2>1. order' \in [Orders -> IC!SeatOrderRow]
    BY <1>1, <1>3 DEF IC!StampIntentCancellations, IC!SeatOrderRow
  <2>2. IC!TypeOK'
    BY <1>3, <2>1 DEF IC!StampIntentCancellations, IC!TypeOK
  <2>3. LeftIntentOwed'
    BY <1>1, <1>3 DEF IC!StampIntentCancellations, LeftIntentOwed, IC!SeatOrderRow
  <2> QED
    BY <1>3, <2>2, <2>3, RowStep DEF IC!StampIntentCancellations
<1>4. CASE IC!RelayCrashes
  <2>1. IC!TypeOK' /\ LeftIntentOwed'
    BY <1>4 DEF IC!RelayCrashes, IC!TypeOK, LeftIntentOwed
  <2> QED
    BY <1>4, <2>1, RowStep DEF IC!RelayCrashes
<1> QED
  BY <1>2, <1>3, <1>4

\* The worker's steps, and the jobs its loss or Redis's brings back or takes away.
LEMMA ProcessInv ==
    ASSUME CancellationInv, NEW o \in Orders, IC!Process(o) \/ IC!Stall(o) \/ IC!LoseJob(o)
    PROVE  CancellationInv'
<1>1. /\ queue \in [Orders -> IC!Job] /\ queue[o] \in IC!Job
      /\ order \in [Orders -> IC!SeatOrderRow] /\ order[o] \in IC!SeatOrderRow
      /\ intent \in [Orders -> {"waiting", "succeeded", "canceled"}]
      /\ lost \in Nat
  BY DEF CancellationInv, IC!TypeOK
<1>2. /\ IC!NoJob \in IC!Job /\ IC!NoJob.state = "none"
      /\ IC!taken(queue[o]) \in IC!Job /\ IC!taken(queue[o]).stage = "reading"
      /\ IC!taken(queue[o]).stalls = queue[o].stalls
      /\ \A stage \in IC!Stages :
             /\ IC!at(queue[o], stage) \in IC!Job
             /\ IC!at(queue[o], stage).stage = stage
             /\ IC!at(queue[o], stage).state = queue[o].state
             /\ IC!at(queue[o], stage).stalls = queue[o].stalls
  BY <1>1, CancellationJob
<1>3. queue[o].state = "active" => ~IC!stalledPastBound(queue[o])
  BY DEF CancellationInv, QueueWithinBound
<1>4. \A stage \in IC!Stages \ {"recording"} :
          /\ IC!at(queue[o], stage).state = "active" => ~IC!stalledPastBound(IC!at(queue[o], stage))
          /\ ~IC!Running(IC!at(queue[o], stage), "recording")
  BY <1>2, <1>3 DEF IC!stalledPastBound, IC!Running
<1>5. CASE IC!TakeJob(o)
  <2>1. IC!Moves(o, IC!taken(queue[o]))
    BY <1>1, <1>5 DEF IC!TakeJob, IC!Moves
  <2>2. ~IC!stalledPastBound(IC!taken(queue[o])) /\ ~IC!Running(IC!taken(queue[o]), "recording")
    BY <1>2, <1>5 DEF IC!TakeJob, IC!stalledPastBound, IC!Running
  <2> QED
    BY <1>2, <2>1, <2>2, MovesInv
<1>6. CASE IC!FailStalled(o)
  BY <1>2, <1>6, GivesUpInv DEF IC!FailStalled, IC!Running
<1>7. CASE IC!NothingOwed(o)
  BY <1>2, <1>4, <1>7, MovesInv DEF IC!NothingOwed, IC!Stages
<1>8. CASE IC!ReadCancellation(o)
  <2>1. IC!Moves(o, IC!at(queue[o], "calling"))
    BY <1>1, <1>8 DEF IC!ReadCancellation, IC!Moves
  <2> QED
    BY <1>2, <1>4, <2>1, MovesInv DEF IC!Stages
<1>9. CASE IC!CancelIntent(o)
  <2>1. PICK stage \in {"recording", "failing"} : queue' = [queue EXCEPT ![o] = IC!at(queue[o], stage)]
    BY <1>1, <1>9 DEF IC!CancelIntent
  <2>2. intent' = [intent EXCEPT ![o] = IF intent[o] = "succeeded" THEN "succeeded" ELSE "canceled"]
    BY <1>1, <1>9 DEF IC!CancelIntent
  <2>3. intent'[o] # "waiting" /\ \A p \in Orders \ {o} : intent'[p] = intent[p]
    BY <1>1, <2>2
  <2>4. queue' \in [Orders -> IC!Job] /\ \A p \in Orders \ {o} : queue'[p] = queue[p]
    BY <1>1, <1>2, <2>1 DEF IC!Stages
  <2>5. queue'[o].state = "active" => ~IC!stalledPastBound(queue'[o])
    BY <1>1, <1>2, <1>3, <2>1 DEF IC!Stages, IC!stalledPastBound
  <2>6. IC!TypeOK'
    BY <1>1, <1>9, <2>2, <2>4 DEF IC!CancelIntent, CancellationInv, IC!TypeOK, IC!bounds
  <2>7. QueueWithinBound' /\ SavedIsAnswered'
    BY <2>3, <2>4, <2>5 DEF CancellationInv, QueueWithinBound, SavedIsAnswered
  <2>8. LeftIntentOwed'
    BY <1>9, <2>3 DEF IC!CancelIntent, CancellationInv, LeftIntentOwed
  <2> QED
    BY <2>6, <2>7, <2>8 DEF CancellationInv
<1>10. CASE IC!ProviderFails(o) \/ IC!RecordFails(o)
  BY <1>2, <1>4, <1>10, MovesInv DEF IC!ProviderFails, IC!RecordFails, IC!Stages
<1>11. CASE IC!RecordCancelled(o)
  <2>1. intent[o] # "waiting"
    BY <1>11 DEF IC!RecordCancelled, CancellationInv, SavedIsAnswered
  <2>2. /\ order' = [order EXCEPT ![o].owed = FALSE]
        /\ queue' = [queue EXCEPT ![o] = IC!at(queue[o], "ending")]
        /\ UNCHANGED <<intent, claimed, reports, lost, replayed>>
    BY <1>1, <1>11 DEF IC!RecordCancelled, IC!bounds
  <2>3. order' \in [Orders -> IC!SeatOrderRow] /\ queue' \in [Orders -> IC!Job]
    BY <1>1, <1>2, <2>2 DEF IC!SeatOrderRow, IC!Stages
  <2>4. IC!TypeOK'
    BY <2>2, <2>3 DEF CancellationInv, IC!TypeOK
  <2>5. QueueWithinBound' /\ SavedIsAnswered'
    BY <1>1, <1>4, <2>2 DEF CancellationInv, QueueWithinBound, SavedIsAnswered, IC!Stages
  <2>6. LeftIntentOwed'
    BY <1>1, <2>1, <2>2 DEF CancellationInv, LeftIntentOwed
  <2> QED
    BY <2>4, <2>5, <2>6 DEF CancellationInv
<1>12. CASE IC!RetryCall(o)
  <2>1. IC!Moves(o, IC!retried(queue[o], 0, 0)) /\ ~IC!isLastAttempt(queue[o])
    BY <1>12 DEF IC!RetryCall
  <2>2. IC!retried(queue[o], 0, 0) \in IC!Job /\ IC!retried(queue[o], 0, 0).state = "delayed"
    BY <1>1, <2>1, RetriedCancellation
  <2> QED
    BY <2>1, <2>2, MovesInv DEF IC!Running
<1>13. CASE IC!GiveUpCall(o)
  <2>1. queue' = [queue EXCEPT ![o] = IC!at(queue[o], "ending")] /\ IC!GivesUp(o)
    BY <1>1, <1>13 DEF IC!GiveUpCall
  <2> QED
    BY <1>2, <1>4, <2>1, GivesUpInv DEF IC!Stages
<1>14. CASE IC!RemoveJob(o)
  BY <1>2, <1>14, MovesInv DEF IC!RemoveJob, IC!Running
<1>15. CASE IC!Stall(o)
  <2>1. IC!stalled(queue[o]) \in IC!Job /\ IC!stalled(queue[o]).state = "waiting"
    BY <1>1, <1>3, <1>15, StalledCancellation DEF IC!Stall
  <2> QED
    BY <1>15, <2>1, MovesInv DEF IC!Stall, IC!Running
<1>16. CASE IC!LoseJob(o)
  <2>1. /\ queue' = [queue EXCEPT ![o] = IC!NoJob] /\ lost' = lost + 1
        /\ UNCHANGED <<order, intent, claimed, reports, replayed>>
    BY <1>16 DEF IC!LoseJob
  <2>2. IC!TypeOK'
    BY <1>1, <1>2, <2>1 DEF CancellationInv, IC!TypeOK
  <2>3. QueueWithinBound' /\ SavedIsAnswered'
    BY <1>1, <1>2, <2>1 DEF CancellationInv, QueueWithinBound, SavedIsAnswered, IC!Running
  <2>4. LeftIntentOwed'
    BY <2>1 DEF CancellationInv, LeftIntentOwed
  <2> QED
    BY <2>2, <2>3, <2>4 DEF CancellationInv
<1> QED
  BY <1>5, <1>6, <1>7, <1>8, <1>9, <1>10, <1>11, <1>12, <1>13, <1>14, <1>15, <1>16 DEF IC!Process

\* A step that changes nothing.
LEMMA StutterInv ==
    ASSUME CancellationInv, UNCHANGED IC!vars
    PROVE  CancellationInv'
BY DEF IC!vars, IC!bounds, CancellationInv, IC!TypeOK, QueueWithinBound, SavedIsAnswered,
       LeftIntentOwed

-----------------------------------------------------------------------------
(***************************************************************************)
(* The theorems.                                                           *)
(***************************************************************************)

\* The invariant holds in every reachable state, through every interleaving of the
\* relay, the workers, the bank, the buyer and the operator.
THEOREM CancellationInvariant == IC!Spec => []CancellationInv
<1>1. CancellationInv /\ [IC!Next]_IC!vars => CancellationInv'
  BY OrderInv, RelayInv, ProcessInv, StutterInv DEF IC!Next
<1> QED
  BY <1>1, NoCancellationYet, PTL DEF IC!Spec

\* Every row and job keeps its type: no job is tried or stalls past its bound.
THEOREM IntentCancellationsTyped == IC!Spec => []IC!TypeOK
<1>1. CancellationInv => IC!TypeOK
  BY DEF CancellationInv
<1> QED
  BY <1>1, CancellationInvariant, PTL

\* No failed order's known intent is left waiting at the provider with no
\* cancellation owed, whatever is retried, stalled, lost, replayed or owed again.
THEOREM LeftIntentsAreOwed == IC!Spec => []LeftIntentOwed
<1>1. CancellationInv => LeftIntentOwed
  BY DEF CancellationInv
<1> QED
  BY <1>1, CancellationInvariant, PTL
=============================================================================
