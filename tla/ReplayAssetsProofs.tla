------------------------- MODULE ReplayAssetsProofs -------------------------
(***************************************************************************)
(* Proofs about ReplayAssets, for any number of replicas, attempts, tries, *)
(* faults, late starts and windows.                                        *)
(***************************************************************************)
EXTENDS ReplayAssets, FiniteSetTheorems, SequenceTheorems, TLAPS

-----------------------------------------------------------------------------
(***************************************************************************)
(* The inductive invariant.                                                *)
(***************************************************************************)

\* A worker whose start answered, and has not settled it.
HoldsNewRef(w) == worker[w].step = "answered" /\ worker[w].call = "start"

\* Of the row: it is closed with its reference alone, deleted without one, and stopped
\* only while it has one.
RowOK ==
    asset # NULL =>
        /\ asset.state = "processing" => asset.ref # NULL
        /\ asset.state = "deleted" => asset.ref = NULL
        /\ asset.stopped => asset.ref # NULL \/ asset.state = "deleted"

\* Of the announcements: they tell the row's own state.
OutboxTells ==
    /\ asset = NULL => outbox = <<>>
    /\ asset # NULL =>
           /\ asset.state \in {"recording", "processing"} => ~asset.announced
           /\ asset.state = "ready" => asset.announced
           /\ outbox = IF ~asset.announced THEN <<>>
                       ELSE IF asset.state = "ready" THEN <<"ready">> ELSE <<"ready", "expired">>

\* Of a worker: a call under way was due of a row inserted before, a start that answered
\* bears a reference, and a stop asks about the row's own until the row is deleted.
WorkersOK ==
    \A w \in Replicas :
        /\ worker[w].step # "idle" => asset # NULL /\ worker[w].call # NULL
        /\ HoldsNewRef(w) => worker[w].ref # NULL
        /\ worker[w].step # "idle" /\ worker[w].call = "stop" =>
               worker[w].ref # NULL /\ (asset.ref # NULL \/ asset.state = "deleted")

\* A clean-up forgets its recording at its last try.
TriesLeft == \A o \in orphans : o.tries < OrphanTries

\* A start or a clean-up that answers for the path recording.
UnderWay ==
    \/ \E l \in late : l.applied
    \/ orphans # {}
    \/ \E w \in Replicas : HoldsNewRef(w)

\* Whoever turned the path on answers for it: the row, by a stop it still owes, or what
\* is under way; and the row no more from the instant a stop of it has answered.
PathAnsweredFor ==
    path = "on" /\ ~left /\ ~lost =>
        /\ UnderWay \/ (asset # NULL /\ asset.ref # NULL /\ ~asset.stopped)
        /\ \A w \in Replicas : worker[w].step = "answered" /\ worker[w].call = "stop" => UnderWay

ReplayInv ==
    /\ TypeOK
    /\ RowOK
    /\ OutboxTells
    /\ WorkersOK
    /\ TriesLeft
    /\ PathAnsweredFor

-----------------------------------------------------------------------------
(***************************************************************************)
(* The row's writes.                                                       *)
(***************************************************************************)

\* The bounds are naturals, and no call or row is the absence of one.
LEMMA Bounds ==
    /\ Attempts \in Nat /\ OrphanTries \in Nat /\ OrphanTries # 0
    /\ MaxAge \in Nat /\ MaxFaults \in Nat
    /\ NULL \notin Nat /\ NULL # Ref /\ NULL \notin RecordingCall
    /\ NULL \notin ReplayAssetRow
BY ConstantsOK, NullAssumption

\* What an announcement makes of those before it.
LEMMA Announcements ==
    /\ Append(<<>>, "ready") = <<"ready">>
    /\ Append(<<"ready">>, "expired") = <<"ready", "expired">>
<1> DEFINE T == {"ready", "expired"}
<1>1. /\ <<"ready">> \in Seq(T) /\ Len(<<"ready">>) = 1
      /\ Append(<<>>, "ready") \in Seq(T) /\ Len(Append(<<>>, "ready")) = 1
      /\ Append(<<>>, "ready")[1] = <<"ready">>[1]
  OBVIOUS
<1>2. Append(<<>>, "ready") = <<"ready">>
  BY <1>1, SeqEqual
<1>3. /\ <<"ready", "expired">> \in Seq(T) /\ Len(<<"ready", "expired">>) = 2
      /\ Append(<<"ready">>, "expired") \in Seq(T)
      /\ Len(Append(<<"ready">>, "expired")) = 2
      /\ Append(<<"ready">>, "expired")[1] = <<"ready", "expired">>[1]
      /\ Append(<<"ready">>, "expired")[2] = <<"ready", "expired">>[2]
  OBVIOUS
<1>4. Append(<<"ready">>, "expired") = <<"ready", "expired">>
  <2>1. \A i \in 1..2 : Append(<<"ready">>, "expired")[i] = <<"ready", "expired">>[i]
    <3>1. \A i \in 1..2 : i = 1 \/ i = 2
      OBVIOUS
    <3> QED
      BY <1>3, <3>1
  <2> QED
    BY <1>3, <2>1, SeqEqual
<1> QED
  BY <1>2, <1>4

\* Each write of the row keeps its type and touches nothing but its own columns.
LEMMA RowWrites ==
    ASSUME NEW a \in ReplayAssetRow
    PROVE  /\ \A state \in AssetState :
                  LET b == [CallDueNow(a) EXCEPT !.state = state]
                  IN  /\ b \in ReplayAssetRow /\ b.state = state /\ b.ref = a.ref
                      /\ b.stopped = a.stopped /\ b.announced = a.announced
           /\ LET b == [CallDueNow(a) EXCEPT !.ref = Ref]
              IN  /\ b \in ReplayAssetRow /\ b.state = a.state /\ b.ref = Ref
                  /\ b.stopped = a.stopped /\ b.announced = a.announced
           /\ LET b == [CallDueNow(a) EXCEPT !.state = "deleted", !.ref = NULL]
              IN  /\ b \in ReplayAssetRow /\ b.state = "deleted" /\ b.ref = NULL
                  /\ b.stopped = a.stopped /\ b.announced = a.announced
           /\ LET b == [CallDueNow(a) EXCEPT !.stopped = TRUE]
              IN  /\ b \in ReplayAssetRow /\ b.state = a.state /\ b.ref = a.ref
                  /\ b.stopped /\ b.announced = a.announced
<1>1. CallDueNow(a) \in ReplayAssetRow
  BY Bounds, Zenon DEF CallDueNow, ReplayAssetRow
<1>2. /\ CallDueNow(a).state = a.state /\ CallDueNow(a).ref = a.ref
      /\ CallDueNow(a).stopped = a.stopped /\ CallDueNow(a).announced = a.announced
  BY DEF CallDueNow, ReplayAssetRow
<1> DEFINE c == CallDueNow(a)
<1> HIDE DEF c
<1>3. c \in ReplayAssetRow
  BY <1>1 DEF c
<1>4. /\ \A state \in AssetState : [c EXCEPT !.state = state] \in ReplayAssetRow
      /\ [c EXCEPT !.ref = Ref] \in ReplayAssetRow
      /\ [c EXCEPT !.state = "deleted", !.ref = NULL] \in ReplayAssetRow
      /\ [c EXCEPT !.stopped = TRUE] \in ReplayAssetRow
  BY <1>3 DEF ReplayAssetRow, AssetState
<1> QED
  BY <1>2, <1>3, <1>4 DEF c, ReplayAssetRow

-----------------------------------------------------------------------------
(***************************************************************************)
(* What a step leaves alone, conjunct by conjunct.                         *)
(***************************************************************************)

\* What a replica's call pass may be doing.
Call == [step : {"idle", "claimed", "answered", "givingUp"},
         call : RecordingCall \cup {NULL}, ref : {Ref, NULL}, last : BOOLEAN,
         answer : {"ready", "notReady", NULL}]

\* The row keeps its reference and its stop, and stays deleted.
SameRecording ==
    /\ asset # NULL => /\ asset' # NULL
                       /\ asset'.ref = asset.ref /\ asset'.stopped = asset.stopped
                       /\ asset.state = "deleted" => asset'.state = "deleted"
    /\ asset = NULL /\ asset' # NULL => asset'.ref = NULL

\* Workers stay well when one of them moves to a call it may make and the row is kept.
LEMMA WorkersStep ==
    ASSUME ReplayInv, NEW w \in Replicas, NEW k, worker' = [worker EXCEPT ![w] = k],
           k.step # "idle" => asset # NULL /\ k.call # NULL,
           k.step = "answered" /\ k.call = "start" => k.ref # NULL,
           k.step # "idle" /\ k.call = "stop" =>
               k.ref # NULL /\ (asset'.ref # NULL \/ asset'.state = "deleted"),
           asset # NULL => asset' # NULL,
           asset # NULL /\ (asset.ref # NULL \/ asset.state = "deleted") =>
               asset'.ref # NULL \/ asset'.state = "deleted"
    PROVE  WorkersOK'
BY DEF ReplayInv, TypeOK, WorkersOK, HoldsNewRef

\* The path stays answered for when what is under way still is, the row keeps its
\* reference unless it was stopped, and nobody else answers a stop.
LEMMA PathStep ==
    ASSUME ReplayInv, path' = "on" => path = "on",
           ~left' => ~left, ~lost' => ~lost,
           ~left' /\ ~lost' /\ UnderWay => UnderWay',
           asset # NULL /\ asset.ref # NULL /\ ~asset.stopped =>
               UnderWay' \/ (asset' # NULL /\ asset'.ref # NULL /\ ~asset'.stopped),
           \A w \in Replicas : worker'[w].step = "answered" /\ worker'[w].call = "stop" =>
               worker[w].step = "answered" /\ worker[w].call = "stop"
    PROVE  PathAnsweredFor'
BY DEF ReplayInv, PathAnsweredFor

\* Something stays under way when no late start, clean-up or answered start ends.
LEMMA UnderWayStep ==
    ASSUME UnderWay, late \subseteq late', orphans \subseteq orphans',
           \A w \in Replicas : HoldsNewRef(w) => HoldsNewRef(w)'
    PROVE  UnderWay'
BY DEF UnderWay

\* A step of the world or of a pass, which touches no call.
LEMMA RowStep ==
    ASSUME ReplayInv, TypeOK', RowOK', OutboxTells', SameRecording,
           UNCHANGED <<path, worker, late, orphans, left, lost>>
    PROVE  ReplayInv'
<1>2. WorkersOK'
  BY DEF SameRecording, ReplayInv, WorkersOK, HoldsNewRef
<1>3. TriesLeft'
  BY DEF ReplayInv, TriesLeft
<1>4. UnderWay' = UnderWay
  BY DEF UnderWay, HoldsNewRef
<1>5. PathAnsweredFor'
  BY <1>4, PathStep DEF SameRecording
<1> QED
  BY <1>2, <1>3, <1>5 DEF ReplayInv

\* Before the run begins there is no row, no call and no configuration of the path.
LEMMA InitInv == Init => ReplayInv
<1> SUFFICES ASSUME Init PROVE ReplayInv
  OBVIOUS
<1>1. TypeOK
  <2>1. outbox \in Seq({"ready", "expired"}) /\ age \in 0..MaxAge /\ faults \in 0..MaxFaults
    BY Bounds DEF Init
  <2>2. worker \in [Replicas ->
            [step : {"idle", "claimed", "answered", "givingUp"},
             call : RecordingCall \cup {NULL}, ref : {Ref, NULL}, last : BOOLEAN,
             answer : {"ready", "notReady", NULL}]]
    BY Bounds DEF Init, Idle
  <2> QED
    BY <2>1, <2>2 DEF Init, TypeOK
<1> QED
  BY <1>1 DEF Init, ReplayInv, RowOK, OutboxTells, WorkersOK, TriesLeft,
              PathAnsweredFor, HoldsNewRef, Idle

\* The run, the catalog's facts, time and a lease that ends.
LEMMA WorldInv ==
    ASSUME ReplayInv, World
    PROVE  ReplayInv'
<1> USE DEF sweeping
<1>1. asset = NULL \/ asset \in ReplayAssetRow
  BY DEF ReplayInv, TypeOK
<1>2. CASE EndRun \/ (\E w \in Windows : SetReplay(w)) \/ DeclareWithdrawingOutcome \/ Tick
  <2>1. UNCHANGED <<asset, outbox, path, worker, late, orphans, left, lost>>
    BY <1>2 DEF EndRun, SetReplay, DeclareWithdrawingOutcome, Tick
  <2>2. TypeOK'
    <3>1. age' \in 0..MaxAge
      BY <1>2, ConstantsOK DEF EndRun, SetReplay, DeclareWithdrawingOutcome, Tick, ReplayInv, TypeOK
    <3>2. run' \in {"live", "ended"} /\ facts' \in [window : Windows \cup {NULL}, withdrawn : BOOLEAN]
      BY <1>2 DEF EndRun, SetReplay, DeclareWithdrawingOutcome, Tick, ReplayInv, TypeOK
    <3>3. UNCHANGED <<wanted, faults>>
      BY <1>2 DEF EndRun, SetReplay, DeclareWithdrawingOutcome, Tick
    <3> QED
      BY <2>1, <3>1, <3>2, <3>3 DEF ReplayInv, TypeOK
  <2>3. RowOK' /\ OutboxTells' /\ SameRecording
    BY <2>1 DEF ReplayInv, RowOK, OutboxTells, SameRecording
  <2> QED
    BY <2>1, <2>2, <2>3, RowStep
<1>3. CASE LeaseEnds
  <2>1. /\ UNCHANGED <<run, age, facts, wanted, outbox, path, worker, late, orphans, left, lost, faults>>
        /\ asset \in ReplayAssetRow /\ asset # NULL
        /\ asset' = [asset EXCEPT !.leased = FALSE]
    BY <1>1, <1>3 DEF LeaseEnds, calling
  <2>2. asset' \in ReplayAssetRow
    BY <2>1 DEF ReplayAssetRow
  <2>3. asset' # NULL
    BY <2>2, NullAssumption
  <2>4. TypeOK'
    BY <2>1, <2>2 DEF ReplayInv, TypeOK
  <2>5. RowOK' /\ OutboxTells' /\ SameRecording
    BY <2>1, <2>3 DEF ReplayAssetRow, ReplayInv, RowOK, OutboxTells, SameRecording
  <2> QED
    BY <2>1, <2>4, <2>5, RowStep
<1> QED
  BY <1>2, <1>3 DEF World

\* The passes: the row is inserted once, closed with its reference, and moved to its
\* deletion, announced only if its opening was.
LEMMA PassesInv ==
    ASSUME ReplayInv, Passes
    PROVE  ReplayInv'
<1> USE DEF sweeping, passing
<1>1. asset = NULL \/ asset \in ReplayAssetRow
  BY DEF ReplayInv, TypeOK
<1>2. UNCHANGED <<run, age, facts, path, worker, late, orphans, left, lost, faults>>
  BY DEF Passes, DecideRecording, InsertAsset, CloseRecording, Withdraw, Expire, MoveToDeleting
<1>3. ASSUME UNCHANGED <<asset, outbox>>, wanted' \in BOOLEAN
      PROVE  ReplayInv'
  <2>1. TypeOK'
    BY <1>2, <1>3 DEF ReplayInv, TypeOK
  <2>2. RowOK' /\ OutboxTells' /\ SameRecording
    BY <1>3 DEF ReplayInv, RowOK, OutboxTells, SameRecording
  <2> QED
    BY <1>2, <2>1, <2>2, RowStep
<1>4. CASE DecideRecording
  BY <1>3, <1>4 DEF DecideRecording
<1>5. CASE InsertAsset
  <2>1. CASE asset # NULL
    BY <1>3, <1>5, <2>1 DEF InsertAsset
  <2>2. CASE asset = NULL
    <3>1. /\ asset' = [state |-> "recording", ref |-> NULL, stopped |-> FALSE,
                       announced |-> FALSE, expiresAt |-> NULL, attempts |-> 0,
                       leased |-> FALSE]
          /\ outbox' = outbox /\ wanted' = FALSE
      BY <1>5, <2>2 DEF InsertAsset
    <3>2. asset' \in ReplayAssetRow
      BY <3>1, ConstantsOK DEF ReplayAssetRow, AssetState
    <3>3. TypeOK'
      BY <1>2, <3>1, <3>2 DEF ReplayInv, TypeOK
    <3>4. RowOK' /\ OutboxTells' /\ SameRecording
      BY <2>2, <3>1, <3>2, NullAssumption DEF ReplayInv, RowOK, OutboxTells, SameRecording
    <3> QED
      BY <1>2, <3>3, <3>4, RowStep
  <2> QED
    BY <2>1, <2>2
<1>6. CASE CloseRecording
  <2>1. /\ asset \in ReplayAssetRow /\ asset # NULL
        /\ asset.state = "recording" /\ asset.ref # NULL
        /\ asset' = [CallDueNow(asset) EXCEPT !.state = "processing"]
        /\ outbox' = outbox /\ wanted' = wanted
    BY <1>1, <1>6 DEF CloseRecording, closesWith
  <2>2. /\ asset' \in ReplayAssetRow /\ asset'.state = "processing" /\ asset'.ref = asset.ref
        /\ asset'.stopped = asset.stopped /\ asset'.announced = asset.announced
    BY <2>1, RowWrites DEF AssetState
  <2>3. TypeOK'
    BY <1>2, <2>1, <2>2 DEF ReplayInv, TypeOK
  <2>4. RowOK' /\ OutboxTells' /\ SameRecording
    BY <2>1, <2>2, Bounds DEF ReplayInv, RowOK, OutboxTells, SameRecording
  <2> QED
    BY <1>2, <2>3, <2>4, RowStep
<1>7. CASE Withdraw \/ Expire
  <2>1. /\ asset \in ReplayAssetRow /\ asset # NULL
        /\ asset.state \in {"recording", "processing", "ready"}
        /\ asset' = ToDeleting(asset)
        /\ outbox' = IF asset.state = "ready" /\ asset.announced
                     THEN Append(outbox, "expired") ELSE outbox
        /\ wanted' = wanted
    BY <1>1, <1>7 DEF Withdraw, Expire, MoveToDeleting, isWithdrawn, isExpired,
                      owesExpiredEvent
  <2>2. /\ asset' \in ReplayAssetRow /\ asset' # NULL
        /\ asset'.state = "deleting" /\ asset'.announced = asset.announced
        /\ asset'.ref = asset.ref /\ asset'.stopped = asset.stopped
    <3>1. asset' = [CallDueNow(asset) EXCEPT !.state = "deleting"] /\ asset.state \in AssetState
      BY <2>1 DEF ToDeleting, AssetState
    <3>2. "deleting" \in AssetState
      BY DEF AssetState
    <3>3. LET b == [CallDueNow(asset) EXCEPT !.state = "deleting"]
          IN  /\ b \in ReplayAssetRow /\ b.state = "deleting" /\ b.ref = asset.ref
              /\ b.stopped = asset.stopped /\ b.announced = asset.announced
      BY <2>1, <3>2, RowWrites
    <3> QED
      BY <2>1, <3>1, <3>3, Bounds
  <2>3. outbox' \in Seq({"ready", "expired"})
    BY <2>1 DEF ReplayInv, TypeOK
  <2>4. TypeOK'
    BY <1>2, <2>1, <2>2, <2>3 DEF ReplayInv, TypeOK
  <2>6. RowOK' /\ SameRecording
    BY <2>1, <2>2 DEF ReplayInv, RowOK, SameRecording
  <2>7. OutboxTells'
    <3>1. CASE asset.state = "ready"
      <4>1. outbox = <<"ready">> /\ asset.announced
        BY <2>1, <3>1 DEF ReplayInv, OutboxTells
      <4>2. outbox' = <<"ready", "expired">>
        BY <2>1, <3>1, <4>1, Announcements
      <4> QED
        BY <2>2, <4>1, <4>2 DEF OutboxTells
    <3>2. CASE asset.state # "ready"
      BY <2>1, <2>2, <3>2 DEF ReplayInv, OutboxTells
    <3> QED
      BY <3>1, <3>2
  <2> QED
    BY <1>2, <2>4, <2>6, <2>7, RowStep
<1> QED
  BY <1>4, <1>5, <1>6, <1>7 DEF Passes

-----------------------------------------------------------------------------
(***************************************************************************)
(* The calls that leave the row alone.                                     *)
(***************************************************************************)

\* A start under way, late, and a recording being deleted.
LateStart == [id : Unkept, by : Replicas, applied : BOOLEAN]
Orphan == [id : Unkept, by : Replicas, tries : 0..OrphanTries]

\* With the row and what was announced unchanged, the types of the rest are left.
LEMMA StillRow ==
    ASSUME ReplayInv, UNCHANGED calling, asset' = asset,
           worker' \in [Replicas -> Call], late' \subseteq LateStart, orphans' \subseteq Orphan,
           left' \in BOOLEAN, lost' \in BOOLEAN, path' \in {"none", "on", "off"},
           faults' \in 0..MaxFaults
    PROVE  TypeOK' /\ RowOK' /\ OutboxTells'
<1>1. TypeOK'
  BY DEF ReplayInv, TypeOK, calling, Call, LateStart, Orphan
<1> QED
  BY <1>1 DEF ReplayInv, RowOK, OutboxTells, calling

\* A call that failed is given up or done with, and never a start that answered.
LEMMA FailedCall ==
    ASSUME NEW k \in Call
    PROVE  /\ Idle \in Call /\ Idle.step = "idle" /\ Idle.call = NULL
           /\ AfterFailure(k) \in Call
           /\ AfterFailure(k).step \in {"idle", "givingUp"}
           /\ AfterFailure(k).step = "givingUp" =>
                  AfterFailure(k).call = k.call /\ AfterFailure(k).ref = k.ref
<1>1. Idle \in Call /\ Idle.step = "idle" /\ Idle.call = NULL
  BY Bounds DEF Idle, Call
<1> QED
  BY <1>1 DEF AfterFailure, Reaches, Call

\* A call past its outcome keeps its kind and its reference.
LEMMA ReachesCall ==
    ASSUME NEW k \in Call, NEW step \in {"answered", "givingUp"}
    PROVE  /\ Reaches(k, step) \in Call /\ Reaches(k, step).step = step
           /\ Reaches(k, step).call = k.call /\ Reaches(k, step).ref = k.ref
BY DEF Reaches, Call

\* A failure within its bound is counted, and no other.
LEMMA FailureCounted ==
    ASSUME ReplayInv, NEW w \in Replicas, Fails(w)
    PROVE  /\ worker' = [worker EXCEPT ![w] = AfterFailure(worker[w])]
           /\ faults' \in 0..MaxFaults
BY Bounds DEF Fails, ReplayInv, TypeOK

\* The id a late start or an orphan is given is one.
LEMMA NewIdTyped ==
    ASSUME NewIds # {}
    PROVE  NewId \in Unkept
BY DEF NewId, NewIds

\* A start answers, and the path records.
LEMMA StartAnswersInv ==
    ASSUME ReplayInv, NEW w \in Replicas, StartAnswers(w)
    PROVE  ReplayInv'
<1> DEFINE k == [Reaches(worker[w], "answered") EXCEPT !.ref = Ref]
<1>1. worker \in [Replicas -> Call] /\ worker[w] \in Call
  BY DEF ReplayInv, TypeOK, Call
<1>2. /\ worker[w].step = "claimed" /\ worker[w].call = "start"
      /\ path' = "on" /\ worker' = [worker EXCEPT ![w] = k]
      /\ UNCHANGED <<calling, asset, late, orphans, left, lost, faults>>
  BY <1>1 DEF StartAnswers, startPath
<1>3. Ref # NULL
  BY Bounds
<1>4. k \in Call /\ k.step = "answered" /\ k.call = "start" /\ k.ref = Ref
  BY <1>1, <1>2, ReachesCall DEF Call
<1> HIDE DEF k
<1>5. worker' \in [Replicas -> Call] /\ \A v \in Replicas \ {w} : worker'[v] = worker[v]
  BY <1>1, <1>2, <1>4
<1>6. worker'[w] = k
  BY <1>1, <1>2
<1>7. TypeOK' /\ RowOK' /\ OutboxTells'
  BY <1>2, <1>5, StillRow DEF ReplayInv, TypeOK, LateStart, Orphan
<1>8. WorkersOK'
  BY <1>2, <1>3, <1>4, WorkersStep DEF ReplayInv, WorkersOK
<1>10. PathAnsweredFor'
  <2>1. HoldsNewRef(w)'
    BY <1>4, <1>6 DEF HoldsNewRef
  <2> QED
    BY <2>1 DEF PathAnsweredFor, UnderWay
<1> QED
  BY <1>2, <1>7, <1>8, <1>10 DEF ReplayInv, TriesLeft

\* A start times out and stays late, having turned the path on or not.
LEMMA StartTimesOutInv ==
    ASSUME ReplayInv, NEW w \in Replicas, StartTimesOut(w)
    PROVE  ReplayInv'
<1> DEFINE k == AfterFailure(worker[w])
<1>1. worker \in [Replicas -> Call] /\ worker[w] \in Call
  BY DEF ReplayInv, TypeOK, Call
<1>2. PICK applied \in BOOLEAN :
          /\ path' = IF applied THEN "on" ELSE path
          /\ late' = late \cup {[id |-> NewId, by |-> w, applied |-> applied]}
  BY DEF StartTimesOut, startPath
<1>3. /\ worker[w].step = "claimed" /\ worker[w].call = "start"
      /\ worker' = [worker EXCEPT ![w] = k]
      /\ faults' \in 0..MaxFaults
      /\ UNCHANGED <<calling, asset, orphans, left, lost>>
  BY <1>1, FailureCounted DEF StartTimesOut
<1>4. NewId \in Unkept
  BY NewIdTyped DEF StartTimesOut
<1>5. /\ k \in Call /\ k.step \in {"idle", "givingUp"}
      /\ k.step = "givingUp" => k.call = "start"
  BY <1>1, <1>3, FailedCall
<1> HIDE DEF k
<1>6. worker' \in [Replicas -> Call] /\ \A v \in Replicas \ {w} : worker'[v] = worker[v]
  BY <1>1, <1>3, <1>5
<1>7. worker'[w] = k
  BY <1>1, <1>3
<1>8. late' \subseteq LateStart
  BY <1>2, <1>4 DEF ReplayInv, TypeOK, LateStart
<1>9. TypeOK' /\ RowOK' /\ OutboxTells'
  BY <1>2, <1>3, <1>6, <1>8, StillRow DEF ReplayInv, TypeOK, Orphan
<1>10. WorkersOK'
  <2>1. asset # NULL /\ NULL # "start"
    BY <1>3, Bounds DEF ReplayInv, WorkersOK, RecordingCall
  <2> QED
    BY <1>3, <1>5, <2>1, WorkersStep
<1>12. PathAnsweredFor'
  <2>1. UnderWay => UnderWay'
    BY <1>2, <1>3, <1>6, UnderWayStep DEF HoldsNewRef
  <2>2. CASE path' = path
    BY <1>3, <1>5, <1>6, <1>7, <2>1, <2>2, PathStep
  <2>3. CASE path' # path
    <3>1. applied /\ [id |-> NewId, by |-> w, applied |-> TRUE] \in late'
      BY <1>2, <2>3
    <3>2. UnderWay'
      BY <3>1 DEF UnderWay
    <3> QED
      BY <3>2 DEF PathAnsweredFor
  <2> QED
    BY <2>2, <2>3
<1> QED
  BY <1>3, <1>9, <1>10, <1>12 DEF ReplayInv, TriesLeft

\* A replica's call moves on without a recording of its own: a failure, or the answer of
\* another call, a stop's with the path stopped.
LEMMA CallMoves ==
    ASSUME ReplayInv, NEW w \in Replicas, NEW k \in Call, worker' = [worker EXCEPT ![w] = k],
           UNCHANGED calling, asset' = asset, late' = late, orphans' = orphans, left' = left,
           faults' \in 0..MaxFaults, lost' = lost \/ lost' = TRUE,
           path' \in {"none", "on", "off"}, path' = "on" /\ ~lost' => path = "on",
           k.step # "idle" =>
               worker[w].step # "idle" /\ k.call = worker[w].call /\ k.ref = worker[w].ref,
           ~HoldsNewRef(w), ~(k.step = "answered" /\ k.call = "start"),
           k.step = "answered" /\ k.call = "stop" => path' # "on"
    PROVE  ReplayInv'
<1>1. worker \in [Replicas -> Call] /\ lost \in BOOLEAN
  BY DEF ReplayInv, TypeOK, Call
<1>2. /\ worker' \in [Replicas -> Call] /\ worker'[w] = k
      /\ \A v \in Replicas \ {w} : worker'[v] = worker[v]
  BY <1>1
<1>3. TypeOK' /\ RowOK' /\ OutboxTells'
  BY <1>1, <1>2, StillRow DEF ReplayInv, TypeOK, LateStart, Orphan
<1>4. WorkersOK'
  BY WorkersStep DEF ReplayInv, WorkersOK
<1>5. \A v \in Replicas : HoldsNewRef(v)' <=> HoldsNewRef(v)
  BY <1>2 DEF HoldsNewRef
<1>7. PathAnsweredFor'
  <2>1. CASE lost' = TRUE
    BY <2>1 DEF PathAnsweredFor
  <2>2. CASE path' # "on"
    BY <2>2 DEF PathAnsweredFor
  <2>3. CASE lost' = lost /\ path' = "on"
    <3>1. UnderWay' <=> UnderWay
      BY <1>5 DEF UnderWay
    <3>2. CASE lost
      BY <2>3, <3>2 DEF PathAnsweredFor
    <3>3. CASE ~lost
      <4>1. path = "on"
        BY <2>3, <3>3
      <4>2. \A v \in Replicas : worker'[v].step = "answered" /\ worker'[v].call = "stop" =>
                worker[v].step = "answered" /\ worker[v].call = "stop"
        BY <1>2, <2>3
      <4> QED
        BY <2>3, <3>1, <4>1, <4>2, PathStep
    <3> QED
      BY <3>2, <3>3
  <2> QED
    BY <2>1, <2>2, <2>3
<1>8. TriesLeft'
  BY DEF ReplayInv, TriesLeft
<1> QED
  BY <1>3, <1>4, <1>7, <1>8 DEF ReplayInv

\* What a call does to the path is never to record, unless it did.
LEMMA ServedPath ==
    ASSUME NEW call, NEW p \in {"none", "on", "off"}
    PROVE  /\ Served(call, p) \in {"none", "on", "off"}
           /\ Served(call, p) = "on" => p = "on" /\ call # "stop"
BY DEF Served, stopPath, deletePath

\* A start refused or its answer lost, and the other calls, answered or not.
LEMMA OtherCallsInv ==
    ASSUME ReplayInv, NEW w \in Replicas,
           StartRefused(w) \/ StartAnswerLost(w) \/ InvokeOther(w) \/ OtherFails(w)
    PROVE  ReplayInv'
<1>1. /\ worker \in [Replicas -> Call] /\ worker[w] \in Call /\ path \in {"none", "on", "off"}
      /\ faults \in 0..MaxFaults
  BY DEF ReplayInv, TypeOK, Call
<1>2. worker[w].step = "claimed" /\ ~HoldsNewRef(w)
  BY DEF StartRefused, StartAnswerLost, InvokeOther, OtherFails, HoldsNewRef
<1>3. /\ Idle \in Call /\ Idle.step = "idle" /\ Idle.call = NULL
      /\ AfterFailure(worker[w]) \in Call
      /\ AfterFailure(worker[w]).step \in {"idle", "givingUp"}
      /\ AfterFailure(worker[w]).step = "givingUp" =>
             /\ AfterFailure(worker[w]).call = worker[w].call
             /\ AfterFailure(worker[w]).ref = worker[w].ref
  BY <1>1, FailedCall
<1>4. CASE StartRefused(w)
  <2>1. /\ worker' = [worker EXCEPT ![w] = AfterFailure(worker[w])]
        /\ faults' \in 0..MaxFaults
        /\ UNCHANGED <<calling, asset, path, late, orphans, left, lost>>
    BY <1>1, <1>4, FailureCounted DEF StartRefused
  <2> QED
    BY <1>1, <1>2, <1>3, <2>1, CallMoves
<1>5. CASE StartAnswerLost(w)
  <2>1. /\ worker' = [worker EXCEPT ![w] = AfterFailure(worker[w])]
        /\ path' = "on" /\ lost' = TRUE /\ faults' = faults + 1 /\ faults < MaxFaults
        /\ UNCHANGED <<calling, asset, late, orphans, left>>
    BY <1>1, <1>5 DEF StartAnswerLost, startPath
  <2>2. faults' \in 0..MaxFaults
    BY <1>1, <2>1, Bounds
  <2> QED
    BY <1>1, <1>2, <1>3, <2>1, <2>2, CallMoves
<1>6. CASE InvokeOther(w)
  <2>1. PICK k \in {[Reaches(worker[w], "answered") EXCEPT !.answer = "notReady"],
                    [Reaches(worker[w], "answered") EXCEPT !.answer = "ready"],
                    Reaches(worker[w], "givingUp"),
                    Reaches(worker[w], "answered")} :
            worker' = [worker EXCEPT ![w] = k]
    BY <1>6 DEF InvokeOther, StatusAnswers
  <2>2. /\ k \in Call /\ k.call = worker[w].call /\ k.ref = worker[w].ref
    BY <1>1, ReachesCall DEF Call
  <2>3. /\ worker[w].call \in {"stop", "status", "delete"}
        /\ path' = IF worker[w].ref = NULL THEN path ELSE Served(worker[w].call, path)
        /\ UNCHANGED <<calling, asset, late, orphans, left, lost, faults>>
    BY <1>6 DEF InvokeOther
  <2>4. path' \in {"none", "on", "off"} /\ (path' = "on" => path = "on")
    BY <1>1, <2>3, ServedPath
  <2>5. worker[w].call = "stop" => path' # "on"
    <3>1. worker[w].call = "stop" => worker[w].ref # NULL
      BY <1>2 DEF ReplayInv, WorkersOK
    <3> QED
      BY <1>1, <2>3, <3>1, ServedPath
  <2> QED
    BY <1>1, <1>2, <2>1, <2>2, <2>3, <2>4, <2>5, CallMoves
<1>7. CASE OtherFails(w)
  <2>1. /\ worker' = [worker EXCEPT ![w] = AfterFailure(worker[w])]
        /\ path' \in {path, Served(worker[w].call, path)}
        /\ faults' \in 0..MaxFaults
        /\ UNCHANGED <<calling, asset, late, orphans, left, lost>>
    BY <1>1, <1>7, FailureCounted DEF OtherFails
  <2>2. path' \in {"none", "on", "off"} /\ (path' = "on" => path = "on")
    BY <1>1, <2>1, ServedPath
  <2> QED
    BY <1>1, <1>2, <1>3, <2>1, <2>2, CallMoves
<1> QED
  BY <1>4, <1>5, <1>6, <1>7

\* A recording becomes an orphan, of a late start or of a worker that cannot write it.
LEMMA Orphaned ==
    ASSUME ReplayInv, NEW id \in Unkept, NEW by \in Replicas,
           orphans' = orphans \cup {[id |-> id, by |-> by, tries |-> 0]}
    PROVE  /\ orphans' \subseteq Orphan
           /\ TriesLeft' /\ UnderWay'
<1>1. orphans' \subseteq Orphan
  BY Bounds DEF ReplayInv, TypeOK, Orphan
<1>2. TriesLeft'
  BY Bounds DEF ReplayInv, TriesLeft
<1>3. UnderWay'
  BY DEF UnderWay
<1> QED
  BY <1>1, <1>2, <1>3

\* A late start answers, and its recording is to be deleted, or is refused.
LEMMA LateStartsInv ==
    ASSUME ReplayInv, LateStarts
    PROVE  ReplayInv'
<1>1. PICK l \in late : LateStartAnswers(l) \/ LateStartRefused(l)
  BY DEF LateStarts
<1>2. /\ worker \in [Replicas -> Call] /\ late \subseteq LateStart /\ orphans \subseteq Orphan
      /\ l.id \in Unkept /\ l.by \in Replicas
      /\ left \in BOOLEAN /\ lost \in BOOLEAN /\ faults \in 0..MaxFaults
      /\ path \in {"none", "on", "off"}
  BY DEF ReplayInv, TypeOK, Call, LateStart, Orphan
<1>3. /\ UNCHANGED <<calling, asset, worker, left, lost, faults>>
      /\ late' = late \ {l}
  BY <1>1 DEF LateStartAnswers, LateStartRefused
<1>4. WorkersOK'
  BY <1>3 DEF ReplayInv, WorkersOK, HoldsNewRef
<1>5. \A w \in Replicas : HoldsNewRef(w)' <=> HoldsNewRef(w)
  BY <1>3 DEF HoldsNewRef
<1>6. CASE LateStartAnswers(l)
  <2>1. /\ orphans' = orphans \cup {[id |-> l.id, by |-> l.by, tries |-> 0]}
        /\ path' \in {"none", "on", "off"}
    BY <1>2, <1>6 DEF LateStartAnswers, startPath
  <2>2. orphans' \subseteq Orphan /\ TriesLeft' /\ UnderWay'
    BY <1>2, <2>1, Orphaned
  <2>3. TypeOK' /\ RowOK' /\ OutboxTells'
    BY <1>2, <1>3, <2>1, <2>2, StillRow
  <2> QED
    BY <1>4, <2>2, <2>3 DEF ReplayInv, PathAnsweredFor
<1>7. CASE LateStartRefused(l)
  <2>1. UNCHANGED <<path, orphans>> /\ ~l.applied
    BY <1>7 DEF LateStartRefused
  <2>2. TypeOK' /\ RowOK' /\ OutboxTells'
    BY <1>2, <1>3, <2>1, StillRow
  <2>4. UnderWay => UnderWay'
    BY <1>3, <1>5, <2>1 DEF UnderWay
  <2>5. PathAnsweredFor'
    BY <1>3, <2>1, <2>4, PathStep
  <2> QED
    BY <1>4, <2>1, <2>2, <2>5 DEF ReplayInv, TriesLeft
<1> QED
  BY <1>1, <1>6, <1>7

\* A worker lets go of its recording, which is to be deleted.
LEMMA LetsGo ==
    ASSUME ReplayInv, NEW w \in Replicas, HoldsNewRef(w), NewIds # {},
           worker' = [worker EXCEPT ![w] = Idle], UNCHANGED calling,
           asset' = asset, path' = path, late' = late, left' = left, lost' = lost,
           faults' \in 0..MaxFaults, orphans' = orphans \cup {newOrphan(w)}
    PROVE  ReplayInv'
<1>1. /\ worker \in [Replicas -> Call] /\ late \subseteq LateStart
      /\ left \in BOOLEAN /\ lost \in BOOLEAN
      /\ path \in {"none", "on", "off"}
  BY DEF ReplayInv, TypeOK, Call, LateStart
<1>2. worker' \in [Replicas -> Call]
  BY <1>1, Bounds DEF Idle, Call
<1>3. orphans' \subseteq Orphan /\ TriesLeft' /\ UnderWay'
  BY NewIdTyped, Orphaned DEF newOrphan
<1>4. TypeOK' /\ RowOK' /\ OutboxTells'
  BY <1>1, <1>2, <1>3, StillRow
<1>5. WorkersOK'
  BY WorkersStep DEF Idle, ReplayInv, WorkersOK
<1> QED
  BY <1>3, <1>4, <1>5 DEF ReplayInv, PathAnsweredFor

\* A commit that fails writes nothing, and orphans the recording it was to keep.
LEMMA SettleFailsInv ==
    ASSUME ReplayInv, NEW w \in Replicas, SettleFails(w)
    PROVE  ReplayInv'
<1>1. /\ worker[w].step = "answered" /\ worker' = [worker EXCEPT ![w] = Idle]
      /\ NewIds # {} /\ faults < MaxFaults /\ faults' = faults + 1
      /\ UNCHANGED <<calling, asset, path, late, left, lost>>
  BY DEF SettleFails
<1>2. faults' \in 0..MaxFaults /\ path \in {"none", "on", "off"}
  BY <1>1, Bounds DEF ReplayInv, TypeOK
<1>3. CASE worker[w].call = "start"
  <2>1. orphans' = orphans \cup {newOrphan(w)}
    BY <1>3 DEF SettleFails
  <2> QED
    BY <1>1, <1>2, <1>3, <2>1, LetsGo DEF HoldsNewRef
<1>4. CASE worker[w].call # "start"
  <2>1. orphans' = orphans /\ Idle \in Call /\ Idle.step = "idle"
    BY <1>4, Bounds DEF SettleFails, Idle, Call
  <2> QED
    BY <1>1, <1>2, <1>4, <2>1, CallMoves DEF HoldsNewRef
<1> QED
  BY <1>3, <1>4

\* An orphan deleted, tried again, or left to an operator.
LEMMA OrphansInv ==
    ASSUME ReplayInv, Orphans
    PROVE  ReplayInv'
<1>1. PICK o \in orphans : DeleteOrphan(o) \/ DeleteOrphanFails(o)
  BY DEF Orphans
<1>2. /\ worker \in [Replicas -> Call] /\ late \subseteq LateStart /\ orphans \subseteq Orphan
      /\ left \in BOOLEAN /\ lost \in BOOLEAN /\ faults \in 0..MaxFaults
      /\ path \in {"none", "on", "off"}
  BY DEF ReplayInv, TypeOK, Call, LateStart, Orphan
<1>3. UNCHANGED <<calling, asset, worker, late, lost, faults>>
  BY <1>1 DEF DeleteOrphan, DeleteOrphanFails
<1>4. WorkersOK'
  BY <1>3 DEF ReplayInv, WorkersOK, HoldsNewRef
<1>6. CASE DeleteOrphan(o)
  <2>1. path' = "none" /\ orphans' = orphans \ {o} /\ left' = left
    BY <1>6 DEF DeleteOrphan, deletePath
  <2>2. TypeOK' /\ RowOK' /\ OutboxTells'
    BY <1>2, <1>3, <2>1, StillRow
  <2>4. TriesLeft' /\ PathAnsweredFor'
    BY <2>1 DEF ReplayInv, TriesLeft, PathAnsweredFor
  <2> QED
    BY <1>4, <2>2, <2>4 DEF ReplayInv
<1>7. CASE DeleteOrphanFails(o)
  <2>1. /\ o.tries \in Nat /\ o.tries < OrphanTries /\ o \in Orphan
        /\ OrphanTries \in Nat /\ path' = path
        /\ left' = (left \/ o.tries + 1 = OrphanTries)
        /\ orphans' = IF o.tries + 1 = OrphanTries THEN orphans \ {o}
                      ELSE (orphans \ {o}) \cup {[o EXCEPT !.tries = o.tries + 1]}
    BY <1>2, <1>7, Bounds DEF DeleteOrphanFails, ReplayInv, TriesLeft, Orphan
  <2>2. CASE o.tries + 1 = OrphanTries
    <3>1. orphans' = orphans \ {o} /\ left' = TRUE
      BY <2>1, <2>2
    <3>2. TypeOK' /\ RowOK' /\ OutboxTells'
      BY <1>2, <1>3, <2>1, <3>1, StillRow
    <3>4. TriesLeft' /\ PathAnsweredFor'
      BY <3>1 DEF ReplayInv, TriesLeft, PathAnsweredFor
    <3> QED
      BY <1>4, <3>2, <3>4 DEF ReplayInv
  <2>3. CASE o.tries + 1 # OrphanTries
    <3> DEFINE p == [o EXCEPT !.tries = o.tries + 1]
    <3>1. p \in Orphan /\ p.tries < OrphanTries
      BY <2>1, <2>3 DEF Orphan
    <3> HIDE DEF p
    <3>2. orphans' = (orphans \ {o}) \cup {p} /\ left' = left
      BY <1>2, <2>1, <2>3 DEF p
    <3>3. TypeOK' /\ RowOK' /\ OutboxTells'
      BY <1>2, <1>3, <2>1, <3>1, <3>2, StillRow
    <3>5. TriesLeft'
      BY <3>1, <3>2 DEF ReplayInv, TriesLeft
    <3>6. UnderWay'
      BY <3>2 DEF UnderWay
    <3> QED
      BY <1>4, <3>3, <3>5, <3>6 DEF ReplayInv, PathAnsweredFor
  <2> QED
    BY <2>2, <2>3
<1> QED
  BY <1>1, <1>6, <1>7

\* A replica stops: what it recorded nobody knows of any more, and it is counted lost.
LEMMA CrashInv ==
    ASSUME ReplayInv, NEW w \in Replicas, Crash(w)
    PROVE  ReplayInv'
<1> DEFINE mine == {x \in late \cup orphans : x.by = w}
           inFlight == worker[w].call = "start" /\ worker[w].step \in {"claimed", "answered"}
<1>1. /\ worker \in [Replicas -> Call] /\ late \subseteq LateStart /\ orphans \subseteq Orphan
      /\ left \in BOOLEAN /\ lost \in BOOLEAN /\ path \in {"none", "on", "off"}
  BY DEF ReplayInv, TypeOK, Call, LateStart, Orphan
<1>2. /\ faults < MaxFaults /\ faults' = faults + 1
      /\ worker' = [worker EXCEPT ![w] = Idle]
      /\ late' = late \ mine /\ orphans' = orphans \ mine
      /\ lost' = (lost \/ inFlight \/ mine # {})
      /\ path' = path \/ (path' = "on" /\ (inFlight \/ mine # {}))
      /\ UNCHANGED <<calling, asset, left>>
  BY DEF Crash, startPath
<1>3. faults' \in 0..MaxFaults
  BY <1>2, Bounds DEF ReplayInv, TypeOK
<1>4. /\ worker' \in [Replicas -> Call] /\ worker'[w] = Idle
      /\ \A v \in Replicas \ {w} : worker'[v] = worker[v]
  BY <1>1, <1>2, Bounds DEF Idle, Call
<1>5. inFlight \in BOOLEAN /\ lost' \in BOOLEAN
  BY <1>1, <1>2
<1>6. HoldsNewRef(w) => inFlight
  BY DEF HoldsNewRef
<1> HIDE DEF mine, inFlight
<1>7. TypeOK' /\ RowOK' /\ OutboxTells'
  BY <1>1, <1>2, <1>3, <1>4, <1>5, StillRow
<1>8. WorkersOK'
  BY <1>2, WorkersStep DEF Idle, ReplayInv, WorkersOK
<1>9. ~HoldsNewRef(w)' /\ \A v \in Replicas \ {w} : HoldsNewRef(v)' <=> HoldsNewRef(v)
  BY <1>4 DEF HoldsNewRef, Idle
<1>11. TriesLeft'
  BY <1>2 DEF ReplayInv, TriesLeft
<1>12. PathAnsweredFor'
  <2>1. CASE inFlight \/ mine # {}
    BY <1>2, <2>1 DEF PathAnsweredFor
  <2>2. CASE ~inFlight /\ mine = {}
    <3>1. late' = late /\ orphans' = orphans /\ path' = path /\ lost' = lost
      BY <1>1, <1>2, <2>2
    <3>2. UnderWay' <=> UnderWay
      BY <1>6, <1>9, <2>2, <3>1 DEF UnderWay
    <3>3. \A v \in Replicas : worker'[v].step = "answered" => worker[v].step = "answered"
                                                        /\ worker'[v] = worker[v]
      BY <1>4 DEF Idle
    <3> QED
      BY <1>2, <3>1, <3>2, <3>3, PathStep
  <2> QED
    BY <2>1, <2>2
<1> QED
  BY <1>7, <1>8, <1>11, <1>12 DEF ReplayInv

-----------------------------------------------------------------------------
(***************************************************************************)
(* The steps of a call that write the row.                                 *)
(***************************************************************************)

\* A worker that bears no recording writes the row and moves on: the row keeps its
\* reference or forgets it, and is stopped or deleted only with the path answered for.
LEMMA RowMoves ==
    ASSUME ReplayInv, NEW w \in Replicas, NEW k, worker' = [worker EXCEPT ![w] = k],
           TypeOK', RowOK', OutboxTells', UNCHANGED <<path, late, orphans, left, lost>>,
           asset # NULL, asset' # NULL, ~HoldsNewRef(w), k.step # "answered",
           k.step # "idle" => k.call # NULL,
           k.step # "idle" /\ k.call = "stop" => k.ref # NULL /\ asset'.ref # NULL,
           asset'.ref = NULL \/ asset'.ref = asset.ref,
           asset.ref # NULL \/ asset.state = "deleted" =>
               asset'.ref # NULL \/ asset'.state = "deleted",
           asset.ref # NULL /\ ~asset.stopped =>
               \/ asset'.ref # NULL /\ ~asset'.stopped
               \/ path = "on" /\ ~left /\ ~lost => UnderWay
    PROVE  ReplayInv'
<1>1. worker \in [Replicas -> Call]
  BY DEF ReplayInv, TypeOK, Call
<1>2. worker'[w] = k /\ \A v \in Replicas \ {w} : worker'[v] = worker[v]
  BY <1>1
<1>3. WorkersOK'
  BY WorkersStep
<1>4. \A v \in Replicas : HoldsNewRef(v)' <=> HoldsNewRef(v)
  BY <1>2 DEF HoldsNewRef
<1>6. UnderWay' <=> UnderWay
  BY <1>4 DEF UnderWay
<1>7. PathAnsweredFor'
  BY <1>2, <1>6 DEF ReplayInv, PathAnsweredFor
<1>8. TriesLeft'
  BY DEF ReplayInv, TriesLeft
<1> QED
  BY <1>3, <1>7, <1>8 DEF ReplayInv

\* The call a row owes is one of four, of a state that is not an end.
LEMMA CallDueOf ==
    ASSUME NEW a \in ReplayAssetRow
    PROVE  /\ callDue(a) \in RecordingCall \cup {NULL}
           /\ callDue(a) # NULL => a.state \in {"recording", "processing", "deleting"}
           /\ callDue(a) = "start" => a.state = "recording" /\ a.ref = NULL
           /\ callDue(a) = "stop" => a.state = "processing" \/ a.ref # NULL
           /\ callDue(a) = "status" => a.state = "processing"
           /\ callDue(a) = "delete" => a.state = "deleting" /\ (a.ref = NULL \/ a.stopped)
<1>1. "start" # NULL /\ "stop" # NULL /\ "status" # NULL /\ "delete" # NULL
  BY Bounds DEF RecordingCall
<1>2. a.state \in AssetState
  BY DEF ReplayAssetRow
<1>3. CASE a.state = "recording"
  BY <1>1, <1>3 DEF callDue, RecordingCall
<1>4. CASE a.state = "processing"
  BY <1>1, <1>4 DEF callDue, RecordingCall
<1>5. CASE a.state = "deleting"
  BY <1>1, <1>5 DEF callDue, RecordingCall
<1>6. CASE a.state \in {"ready", "failed", "deleted"}
  BY <1>1, <1>6 DEF callDue, RecordingCall
<1> QED
  BY <1>2, <1>3, <1>4, <1>5, <1>6 DEF AssetState

\* A worker's step from the row it was claimed of.
LEMMA Working ==
    ASSUME ReplayInv, NEW w \in Replicas, worker[w].step # "idle"
    PROVE  /\ worker \in [Replicas -> Call] /\ worker[w] \in Call
           /\ asset # NULL /\ asset \in ReplayAssetRow
           /\ worker[w].call # NULL
           /\ Idle \in Call /\ Idle.step = "idle"
           /\ [worker EXCEPT ![w] = Idle] \in [Replicas -> Call]
BY Bounds DEF ReplayInv, TypeOK, WorkersOK, Call, Idle

\* With the run, the world and the other calls unchanged, the type of the row is left.
LEMMA RowTyped ==
    ASSUME ReplayInv, asset' \in ReplayAssetRow, worker' \in [Replicas -> Call],
           UNCHANGED <<run, age, facts, wanted, path, late, orphans, left, lost>>,
           faults' \in 0..MaxFaults,
           outbox' \in Seq({"ready", "expired"})
    PROVE  TypeOK' /\ asset' # NULL
BY Bounds DEF ReplayInv, TypeOK, Call

\* A claim counts its attempt and leases the next, and takes the call the row owes.
LEMMA ClaimInv ==
    ASSUME ReplayInv, NEW w \in Replicas, Claim(w)
    PROVE  ReplayInv'
<1>1. /\ worker \in [Replicas -> Call] /\ asset # NULL /\ asset \in ReplayAssetRow
      /\ callDue(asset) # NULL /\ ~HoldsNewRef(w)
  BY DEF ReplayInv, TypeOK, Call, Claim, HoldsNewRef
<1> DEFINE k == [Idle EXCEPT !.step = "claimed", !.call = callDue(asset), !.ref = asset.ref,
                             !.last = asset.attempts + 1 >= Attempts]
<1>2. /\ asset' = [asset EXCEPT !.attempts = asset.attempts + 1, !.leased = TRUE]
      /\ worker' = [worker EXCEPT ![w] = k]
  BY DEF Claim
<1>3. asset.attempts \in Nat /\ (asset.attempts + 1 >= Attempts) \in BOOLEAN
  BY <1>1 DEF ReplayAssetRow
<1>4. /\ k \in Call /\ k.step = "claimed" /\ k.call = callDue(asset) /\ k.ref = asset.ref
  BY <1>1, <1>3, CallDueOf DEF Idle, Call, ReplayAssetRow
<1> HIDE DEF k
<1>5. worker' = [worker EXCEPT ![w] = k] /\ worker' \in [Replicas -> Call]
  BY <1>1, <1>2, <1>4
<1>6. /\ asset' \in ReplayAssetRow /\ asset'.state = asset.state /\ asset'.ref = asset.ref
      /\ asset'.stopped = asset.stopped /\ asset'.announced = asset.announced
  <2> DEFINE n == asset.attempts + 1
  <2>1. n \in Nat /\ asset' = [asset EXCEPT !.attempts = n, !.leased = TRUE]
    BY <1>2, <1>3
  <2> HIDE DEF n
  <2> QED
    BY <1>1, <2>1 DEF ReplayAssetRow
<1>7. UNCHANGED <<run, age, facts, wanted, outbox, path, late, orphans, left, lost, faults>>
  BY DEF Claim, calling
<1>8. TypeOK' /\ asset' # NULL
  BY <1>5, <1>6, <1>7, RowTyped DEF ReplayInv, TypeOK
<1>9. RowOK' /\ OutboxTells'
  BY <1>1, <1>6, <1>7, <1>8 DEF ReplayInv, RowOK, OutboxTells
<1>10. k.call = "stop" => k.ref # NULL /\ asset'.ref # NULL
  BY <1>1, <1>4, <1>6, CallDueOf DEF ReplayInv, RowOK
<1> QED
  BY <1>1, <1>4, <1>5, <1>6, <1>7, <1>8, <1>9, <1>10, RowMoves

\* A call given up fails the row that still owes it, and no other.
LEMMA GiveUpInv ==
    ASSUME ReplayInv, NEW w \in Replicas, GiveUp(w)
    PROVE  ReplayInv'
<1>1. /\ worker[w].step = "givingUp" /\ worker' = [worker EXCEPT ![w] = Idle]
      /\ UNCHANGED <<run, age, facts, wanted, outbox, path, late, orphans, left, lost, faults>>
  BY DEF GiveUp, calling
<1>2. /\ worker[w] \in Call /\ asset # NULL /\ asset \in ReplayAssetRow
      /\ worker[w].call # NULL /\ Idle.step = "idle"
      /\ worker' \in [Replicas -> Call] /\ ~HoldsNewRef(w)
  BY <1>1, Working DEF HoldsNewRef
<1>3. CASE callDue(asset) # worker[w].call
  <2>1. asset' = asset
    BY <1>3 DEF GiveUp
  <2>2. TypeOK' /\ RowOK' /\ OutboxTells'
    BY <1>1, <1>2, <2>1, RowTyped DEF ReplayInv, TypeOK, RowOK, OutboxTells
  <2> QED
    BY <1>1, <1>2, <2>1, <2>2, RowMoves
<1>4. CASE callDue(asset) = worker[w].call
  <2>1. asset' = [asset EXCEPT !.state = "failed", !.leased = FALSE]
    BY <1>4 DEF GiveUp
  <2>2. /\ asset' \in ReplayAssetRow /\ asset'.state = "failed" /\ asset'.ref = asset.ref
        /\ asset'.stopped = asset.stopped /\ asset'.announced = asset.announced
    BY <1>2, <2>1 DEF ReplayAssetRow, AssetState
  <2>3. asset.state \in {"recording", "processing", "deleting"}
    BY <1>2, <1>4, CallDueOf
  <2>4. TypeOK' /\ asset' # NULL
    BY <1>1, <1>2, <2>2, RowTyped DEF ReplayInv, TypeOK
  <2>5. RowOK'
    BY <1>2, <2>2, <2>3, <2>4 DEF ReplayInv, RowOK
  <2>6. OutboxTells'
    <3>1. outbox' = outbox
      BY <1>1
    <3>2. outbox = IF asset.announced THEN <<"ready", "expired">> ELSE <<>>
      BY <1>2, <2>3 DEF ReplayInv, OutboxTells
    <3> QED
      BY <2>2, <2>4, <3>1, <3>2 DEF OutboxTells
  <2> QED
    BY <1>1, <1>2, <2>2, <2>3, <2>4, <2>5, <2>6, RowMoves
<1> QED
  BY <1>3, <1>4

\* A commit is counted if its acknowledgement is lost, within the bound.
LEMMA Committed ==
    ASSUME ReplayInv, NEW acknowledged \in BOOLEAN, Commits(acknowledged)
    PROVE  faults' \in 0..MaxFaults
BY Bounds DEF Commits, ReplayInv, TypeOK

\* The row keeps the recording of a start that answered, or nobody does; one kept by a
\* commit its replica does not know of is to be deleted all the same.
LEMMA SettleStartInv ==
    ASSUME ReplayInv, NEW w \in Replicas, NEW acknowledged \in BOOLEAN,
           SettleStart(w, acknowledged)
    PROVE  ReplayInv'
<1>1. /\ worker[w].step = "answered" /\ worker[w].call = "start"
      /\ worker' = [worker EXCEPT ![w] = Idle] /\ HoldsNewRef(w)
      /\ NewIds # {} /\ faults' \in 0..MaxFaults
      /\ UNCHANGED <<calling, path, late, left, lost>>
  BY Committed DEF SettleStart, HoldsNewRef
<1>2. /\ worker \in [Replicas -> Call] /\ asset # NULL /\ asset \in ReplayAssetRow
      /\ Idle.step = "idle" /\ worker' \in [Replicas -> Call]
      /\ worker[w].ref = Ref
  <2>1. worker[w].ref # NULL /\ worker[w] \in Call
    BY <1>1, Working DEF ReplayInv, WorkersOK
  <2> QED
    BY <1>1, <2>1, Working DEF Call
<1>3. CASE ~CanKeep(asset)
  <2>1. asset' = asset /\ orphans' = orphans \cup {newOrphan(w)}
    BY <1>3 DEF SettleStart
  <2> QED
    BY <1>1, <2>1, LetsGo
<1>4. CASE CanKeep(asset)
  <2>1. /\ asset' = [CallDueNow(asset) EXCEPT !.ref = Ref]
        /\ orphans' = orphans \/ orphans' = orphans \cup {newOrphan(w)}
    BY <1>2, <1>4 DEF SettleStart
  <2>2. /\ asset' \in ReplayAssetRow /\ asset'.state = asset.state
        /\ asset'.ref = Ref /\ asset'.ref # NULL
        /\ asset'.stopped = asset.stopped /\ asset'.announced = asset.announced
    <3>1. LET b == [CallDueNow(asset) EXCEPT !.ref = Ref]
          IN  /\ b \in ReplayAssetRow /\ b.state = asset.state /\ b.ref = Ref
              /\ b.stopped = asset.stopped /\ b.announced = asset.announced
      BY <1>2, RowWrites
    <3> QED
      BY <2>1, <3>1, Bounds
  <2>3. /\ asset.ref = NULL /\ asset.state \in {"recording", "deleting"} /\ ~asset'.stopped
    BY <1>2, <1>4, <2>2 DEF CanKeep, ReplayInv, RowOK
  <2>4. UNCHANGED <<run, age, facts, wanted, outbox>>
    BY <1>1 DEF calling
  <2>5. orphans' \subseteq Orphan /\ TriesLeft'
    <3>1. CASE orphans' = orphans
      BY <3>1 DEF ReplayInv, TypeOK, TriesLeft, Orphan
    <3>2. CASE orphans' = orphans \cup {newOrphan(w)}
      BY <1>1, <3>2, NewIdTyped, Orphaned DEF newOrphan
    <3> QED
      BY <2>1, <3>1, <3>2
  <2>6. TypeOK' /\ asset' # NULL
    BY <1>1, <1>2, <2>2, <2>4, <2>5, Bounds DEF ReplayInv, TypeOK, Call, Orphan
  <2>7. RowOK' /\ OutboxTells'
    BY <1>2, <2>2, <2>3, <2>4, <2>6 DEF ReplayInv, RowOK, OutboxTells
  <2>8. WorkersOK'
    BY <1>1, <1>2, <2>2, <2>6, WorkersStep
  <2>9. PathAnsweredFor'
    <3>1. \A v \in Replicas : ~(worker'[v].step = "answered" /\ worker'[v].call = "stop")
      BY <1>1, <1>2, <2>3 DEF ReplayInv, WorkersOK
    <3> QED
      BY <2>2, <2>3, <2>6, <3>1 DEF PathAnsweredFor
  <2> QED
    BY <2>5, <2>6, <2>7, <2>8, <2>9 DEF ReplayInv
<1> QED
  BY <1>3, <1>4

\* A stop and a deletion that answered are written on the row that still owes them.
LEMMA SettleEndInv ==
    ASSUME ReplayInv, NEW w \in Replicas, NEW acknowledged \in BOOLEAN,
           SettleStop(w, acknowledged) \/ SettleDelete(w, acknowledged)
    PROVE  ReplayInv'
<1>1. /\ worker[w].step = "answered" /\ worker[w].call \in {"stop", "delete"}
      /\ worker' = [worker EXCEPT ![w] = Idle] /\ ~HoldsNewRef(w)
      /\ UNCHANGED <<run, age, facts, wanted, outbox, path, late, orphans, left, lost>>
      /\ faults' \in 0..MaxFaults
  BY Committed DEF SettleStop, SettleDelete, HoldsNewRef, calling
<1>2. /\ asset # NULL /\ asset \in ReplayAssetRow
      /\ Idle.step = "idle" /\ worker' \in [Replicas -> Call]
  BY <1>1, Working
<1>3. CASE callDue(asset) # worker[w].call
  <2>1. asset' = asset
    BY <1>3 DEF SettleStop, SettleDelete
  <2>2. TypeOK' /\ RowOK' /\ OutboxTells'
    BY <1>1, <1>2, <2>1, RowTyped DEF ReplayInv, TypeOK, RowOK, OutboxTells
  <2> QED
    BY <1>1, <1>2, <2>1, <2>2, RowMoves
<1>4. CASE callDue(asset) = "stop" /\ worker[w].call = "stop"
  <2>1. asset' = [CallDueNow(asset) EXCEPT !.stopped = TRUE]
    BY <1>4 DEF SettleStop, SettleDelete
  <2>2. /\ asset' \in ReplayAssetRow /\ asset'.state = asset.state /\ asset'.ref = asset.ref
        /\ asset'.stopped /\ asset'.announced = asset.announced
    BY <1>2, <2>1, RowWrites
  <2>3. asset.ref # NULL
    BY <1>2, <1>4, CallDueOf DEF ReplayInv, RowOK
  <2>4. TypeOK' /\ asset' # NULL
    BY <1>1, <1>2, <2>2, RowTyped DEF ReplayInv, TypeOK
  <2>5. RowOK' /\ OutboxTells'
    BY <1>1, <1>2, <2>2, <2>3, <2>4 DEF ReplayInv, RowOK, OutboxTells
  <2>6. path = "on" /\ ~left /\ ~lost => UnderWay
    BY <1>1, <1>4 DEF ReplayInv, PathAnsweredFor
  <2> QED
    BY <1>1, <1>2, <2>2, <2>3, <2>4, <2>5, <2>6, RowMoves
<1>5. CASE callDue(asset) = "delete" /\ worker[w].call = "delete"
  <2>1. asset' = [CallDueNow(asset) EXCEPT !.state = "deleted", !.ref = NULL]
    BY <1>5 DEF SettleStop, SettleDelete
  <2>2. /\ asset' \in ReplayAssetRow /\ asset'.state = "deleted" /\ asset'.ref = NULL
        /\ asset'.stopped = asset.stopped /\ asset'.announced = asset.announced
    BY <1>2, <2>1, RowWrites
  <2>3. asset.state = "deleting" /\ (asset.ref = NULL \/ asset.stopped)
    BY <1>2, <1>5, CallDueOf
  <2>4. TypeOK' /\ asset' # NULL
    BY <1>1, <1>2, <2>2, RowTyped DEF ReplayInv, TypeOK
  <2>5. RowOK' /\ OutboxTells'
    BY <1>1, <1>2, <2>2, <2>3, <2>4 DEF ReplayInv, RowOK, OutboxTells
  <2> QED
    BY <1>1, <1>2, <2>2, <2>3, <2>4, <2>5, RowMoves
<1> QED
  BY <1>1, <1>3, <1>4, <1>5

\* A status opens the replay, polls it again, gives it up, or finds its window over.
LEMMA SettleStatusInv ==
    ASSUME ReplayInv, NEW w \in Replicas, NEW acknowledged \in BOOLEAN,
           SettleStatus(w, acknowledged)
    PROVE  ReplayInv'
<1>1. /\ worker[w].step = "answered" /\ worker[w].call = "status" /\ ~HoldsNewRef(w)
      /\ UNCHANGED <<run, age, facts, wanted, path, late, orphans, left, lost>>
      /\ faults' \in 0..MaxFaults
  BY Committed DEF SettleStatus, HoldsNewRef
<1>2. /\ worker \in [Replicas -> Call] /\ worker[w] \in Call
      /\ asset # NULL /\ asset \in ReplayAssetRow
      /\ Idle.step = "idle" /\ [worker EXCEPT ![w] = Idle] \in [Replicas -> Call]
  BY <1>1, Working
<1>3. ASSUME UNCHANGED <<asset, outbox>>,
             \/ worker' = [worker EXCEPT ![w] = Idle]
             \/ worker' = [worker EXCEPT ![w].step = "givingUp"]
      PROVE  ReplayInv'
  <2> DEFINE g == [worker[w] EXCEPT !.step = "givingUp"]
  <2>1. PICK k \in {Idle, g} : worker' = [worker EXCEPT ![w] = k]
    BY <1>2, <1>3
  <2>2. g \in Call /\ g.step = "givingUp" /\ g.call = "status"
    BY <1>1, <1>2 DEF Call
  <2>3. worker' \in [Replicas -> Call]
    BY <1>2, <2>1, <2>2
  <2>4. TypeOK' /\ RowOK' /\ OutboxTells'
    BY <1>1, <1>2, <1>3, <2>3, RowTyped DEF ReplayInv, TypeOK, RowOK, OutboxTells
  <2>5. k.step \in {"idle", "givingUp"} /\ (k.step # "idle" => k.call = "status")
    BY <1>2, <2>2
  <2>6. NULL # "status"
    BY Bounds DEF RecordingCall
  <2> HIDE DEF g
  <2> QED
    BY <1>1, <1>2, <1>3, <2>1, <2>4, <2>5, <2>6, RowMoves
<1>4. CASE callDue(asset) # "status"
  BY <1>3, <1>4 DEF SettleStatus
<1>5. CASE callDue(asset) = "status"
  <2>1. asset.state = "processing" /\ asset.ref # NULL /\ ~asset.announced /\ outbox = <<>>
    BY <1>2, <1>5, CallDueOf DEF ReplayInv, RowOK, OutboxTells
  <2>2. CASE worker' = [worker EXCEPT ![w].step = "givingUp"] /\ UNCHANGED <<asset, outbox>>
    BY <1>3, <2>2
  <2>3. CASE /\ asset' = [asset EXCEPT !.attempts = 0, !.leased = TRUE]
             /\ worker' = [worker EXCEPT ![w] = Idle] /\ outbox' = outbox
    <3>1. /\ asset' \in ReplayAssetRow /\ asset'.state = asset.state /\ asset'.ref = asset.ref
          /\ asset'.stopped = asset.stopped /\ asset'.announced = asset.announced
      BY <1>2, <2>3, Bounds DEF ReplayAssetRow
    <3>2. TypeOK' /\ asset' # NULL
      BY <1>1, <1>2, <2>3, <3>1, RowTyped DEF ReplayInv, TypeOK
    <3>3. RowOK' /\ OutboxTells'
      BY <1>2, <2>3, <3>1, <3>2 DEF ReplayInv, RowOK, OutboxTells
    <3> QED
      BY <1>1, <1>2, <2>3, <3>1, <3>2, <3>3, RowMoves
  <2>4. CASE /\ asset' = ToDeleting(asset)
             /\ worker' = [worker EXCEPT ![w] = Idle] /\ outbox' = outbox
    <3>1. /\ asset' \in ReplayAssetRow /\ asset'.state = "deleting" /\ asset'.ref = asset.ref
          /\ asset'.stopped = asset.stopped /\ asset'.announced = asset.announced
      BY <1>2, <2>4, RowWrites DEF ToDeleting, AssetState
    <3>2. TypeOK' /\ asset' # NULL
      BY <1>1, <1>2, <2>4, <3>1, RowTyped DEF ReplayInv, TypeOK
    <3>3. RowOK' /\ OutboxTells'
      BY <1>2, <2>1, <2>4, <3>1, <3>2 DEF ReplayInv, RowOK, OutboxTells
    <3> QED
      BY <1>1, <1>2, <2>1, <2>4, <3>1, <3>2, <3>3, RowMoves
  <2>5. CASE /\ asset' = [CallDueNow(asset) EXCEPT !.state = "ready", !.announced = TRUE,
                                                   !.expiresAt = facts.window]
             /\ worker' = [worker EXCEPT ![w] = Idle] /\ outbox' = Append(outbox, "ready")
    <3>1. facts.window \in Nat \cup {NULL}
      BY ConstantsOK DEF ReplayInv, TypeOK
    <3>2. /\ asset' \in ReplayAssetRow /\ asset'.state = "ready" /\ asset'.ref = asset.ref
          /\ asset'.stopped = asset.stopped /\ asset'.announced
      <4> DEFINE c == CallDueNow(asset)
      <4>1. c \in ReplayAssetRow
        BY <1>2, Bounds, Zenon DEF CallDueNow, ReplayAssetRow
      <4>2. c.ref = asset.ref /\ c.stopped = asset.stopped
        BY <1>2 DEF CallDueNow, ReplayAssetRow
      <4>3. asset' = [c EXCEPT !.state = "ready", !.announced = TRUE, !.expiresAt = facts.window]
        BY <2>5
      <4> HIDE DEF c
      <4> QED
        BY <3>1, <4>1, <4>2, <4>3 DEF ReplayAssetRow, AssetState
    <3>3. outbox' = <<"ready">> /\ outbox' \in Seq({"ready", "expired"})
      BY <2>1, <2>5, Announcements
    <3>4. TypeOK' /\ asset' # NULL
      BY <1>1, <1>2, <2>5, <3>2, <3>3, RowTyped
    <3>5. RowOK' /\ OutboxTells'
      BY <1>2, <2>1, <3>2, <3>3, <3>4 DEF ReplayInv, RowOK, OutboxTells
    <3> QED
      BY <1>1, <1>2, <2>1, <2>5, <3>2, <3>4, <3>5, RowMoves
  <2> QED
    BY <1>5, <2>2, <2>3, <2>4, <2>5 DEF SettleStatus
<1> QED
  BY <1>4, <1>5

-----------------------------------------------------------------------------
(***************************************************************************)
(* The theorems.                                                           *)
(***************************************************************************)

\* Every step of the world, of a pass, of a replica or of a task nobody awaits keeps the
\* invariant.
LEMMA NextInv == ReplayInv /\ [Next]_vars => ReplayInv'
<1> SUFFICES ASSUME ReplayInv, [Next]_vars PROVE ReplayInv'
  OBVIOUS
<1>1. CASE \E w \in Replicas : Calls(w) \/ SettleFails(w) \/ Crash(w)
  <2>1. PICK w \in Replicas : Calls(w) \/ SettleFails(w) \/ Crash(w)
    BY <1>1
  <2>2. Answers(w) => ReplayInv'
    BY StartAnswersInv, StartTimesOutInv, OtherCallsInv DEF Answers
  <2>3. Settles(w) => ReplayInv'
    BY SettleStartInv, SettleEndInv, SettleStatusInv DEF Settles
  <2> QED
    BY <2>1, <2>2, <2>3, ClaimInv, OtherCallsInv, GiveUpInv, SettleFailsInv, CrashInv DEF Calls
<1>2. CASE UNCHANGED vars
  <2>1. TypeOK' /\ RowOK' /\ OutboxTells' /\ SameRecording
    BY <1>2 DEF vars, ReplayInv, TypeOK, RowOK, OutboxTells, SameRecording
  <2> QED
    BY <1>2, <2>1, RowStep DEF vars
<1> QED
  BY <1>1, <1>2, WorldInv, PassesInv, LateStartsInv, OrphansInv DEF Next

\* The invariant holds in every reachable state of the replay, whatever is late, lost,
\* repeated, withdrawn or crashed.
THEOREM ReplayInvariant == Spec => []ReplayInv
<1> QED
  BY InitInv, NextInv, PTL DEF Spec

\* Viewers are told once that the replay opened, and that it closed only after that.
THEOREM OpeningToldOnce == Spec => []ToldOnce
<1>1. ReplayInv => ToldOnce
  <2> SUFFICES ASSUME ReplayInv PROVE ToldOnce
    OBVIOUS
  <2>1. outbox \in {<<>>, <<"ready">>, <<"ready", "expired">>}
    BY DEF ReplayInv, OutboxTells
  <2>2. Len(<<>>) = 0 /\ Len(<<"ready">>) = 1 /\ Len(<<"ready", "expired">>) = 2
    OBVIOUS
  <2>3. asset # NULL => (asset.state = "ready" <=> outbox = <<"ready">>)
    BY <2>2 DEF ReplayInv, OutboxTells
  <2> QED
    BY <2>1, <2>3 DEF ToldOnce
<1> QED
  BY <1>1, ReplayInvariant, PTL

\* A deleted replay is recorded no more once nothing is under way, left to an operator or
\* lost with a process: the recording provider is not left recording a path nobody stops.
THEOREM DeletedStaysQuiet == Spec => []DeletedRecordsNoMore
<1>1. ReplayInv => DeletedRecordsNoMore
  BY DEF ReplayInv, RowOK, PathAnsweredFor, UnderWay, HoldsNewRef, DeletedRecordsNoMore, Quiet
<1> QED
  BY <1>1, ReplayInvariant, PTL
=============================================================================
