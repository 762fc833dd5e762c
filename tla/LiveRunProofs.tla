--------------------------- MODULE LiveRunProofs ---------------------------
(***************************************************************************)
(* Proofs about LiveRun, for any number of API replicas, of publications   *)
(* of the feed and of faults, any delays and any ends of the date.         *)
(***************************************************************************)
EXTENDS LiveRun, TLAPS

\* What the provers need of the constants.
LEMMA ConstantFacts ==
    /\ NULL \notin Incident /\ NULL \notin Instant
    /\ 0 \in Instant /\ Instant \subseteq Nat
    /\ 0 \in 0..MaxFeeds /\ 0 \in 0..MaxFaults
BY ConstantsOK DEF ConstantsOK, Incident, Instant

-----------------------------------------------------------------------------
(***************************************************************************)
(* The aggregate's moves: the type of the run, and what each leaves of the *)
(* veil.                                                                   *)
(***************************************************************************)

\* What relates the state, the veil and the publisher of one run.
Veiled(r) ==
    /\ r.state \in {"on_air", "ended"} => r.incident = NULL
    /\ r.state = "interrupted" => r.incident # NULL
    /\ r.incident = "feed_lost" => r.onlineSince = NULL

\* An incident raised keeps its run typed and its veil told.
LEMMA Raised ==
    ASSUME NEW r \in RunSnapshot, NEW i \in Incident, Veiled(r), r.state # "ended",
           i = "feed_lost" => r.onlineSince = NULL
    PROVE  raise(r, i) \in RunSnapshot /\ Veiled(raise(r, i))
BY ConstantFacts DEF RunSnapshot, RunState, raise, Veiled

\* An incident resolved keeps its run typed and its veil told.
LEMMA Resolved ==
    ASSUME NEW r \in RunSnapshot, r.state # "ended"
    PROVE  /\ resolve(r) \in RunSnapshot
           /\ Veiled(resolve(r))
BY ConstantFacts DEF RunSnapshot, RunState, Incident, resolve, Veiled

\* A run ended keeps its type and carries no veil.
LEMMA Ended ==
    ASSUME NEW r \in RunSnapshot
    PROVE  endAt(r) \in RunSnapshot /\ Veiled(endAt(r))
BY ConstantFacts DEF RunSnapshot, RunState, Incident, endAt, Veiled

\* A move of the desk: only goOnAir could meet a veil, and it refuses one.
LEMMA Moved ==
    ASSUME NEW r \in RunSnapshot, NEW to \in RunState \ {"interrupted"}, Veiled(r),
           Accepts(r, to)
    PROVE  moved(r, to) \in RunSnapshot /\ Veiled(moved(r, to))
<1>1. CASE to = "ended"
  BY <1>1, Ended DEF moved
<1>2. CASE to # "ended"
  BY <1>2 DEF moved, RunSnapshot, RunState, Veiled, Accepts
<1> QED
  BY <1>1, <1>2

-----------------------------------------------------------------------------
\* The publications begun and those still admitted are within their bound together.
AdmittedWithinBound == admitted + feeds <= MaxFeeds

\* A version moves whenever what a console shows does, so that a console not made stale
\* shows the run; and each move of the run keeps its veil, whatever the step.
LiveRunInv == TypeOK /\ AdmittedWithinBound /\ Veiled(run) /\ VersionCountsState

\* A step that moves the run's version leaves no console with a fresh one.
LEMMA Unseen ==
    ASSUME VersionMoves
    PROVE  VersionCountsState' /\ console' \in {<<>>, <<"stale">>}
BY DEF VersionMoves, VersionCountsState

\* A step that moves nothing a console was shown leaves its view true.
LEMMA SeenStill ==
    ASSUME VersionCountsState, UNCHANGED console, Seen(run)' = Seen(run)
    PROVE  VersionCountsState'
BY DEF VersionCountsState

-----------------------------------------------------------------------------
\* The initial state.
LEMMA InitInv == Init => LiveRunInv
<1> SUFFICES ASSUME Init PROVE LiveRunInv
  OBVIOUS
<1>1. TypeOK
  BY ConstantFacts DEF Init, Prepared, TypeOK, RunSnapshot, RunState
<1>2. Veiled(run)
  BY ConstantFacts DEF Init, Prepared, Veiled, Incident
<1>3. VersionCountsState
  BY DEF Init, VersionCountsState
<1>4. AdmittedWithinBound
  BY ConstantsOK DEF Init, AdmittedWithinBound, ConstantsOK
<1> QED
  BY <1>1, <1>2, <1>3, <1>4 DEF LiveRunInv

-----------------------------------------------------------------------------
(***************************************************************************)
(* The steps.                                                              *)
(***************************************************************************)

\* Time, the date's facts, the feed and the refusals of the desk leave the run alone.
LEMMA RunLeftAlone ==
    ASSUME LiveRunInv,
           Tick \/ RecordDateFact \/ Feed \/ RefuseMove \/ SampleFeed
    PROVE  LiveRunInv'
<1> USE DEF LiveRunInv, AdmittedWithinBound
<1>2. CASE Tick
  BY <1>2, ConstantsOK
     DEF Tick, TypeOK, Instant, ConstantsOK, source, watching, Veiled, VersionCountsState, Seen
<1>3. CASE RecordDateFact
  BY <1>3 DEF RecordDateFact, TypeOK, source, watching, Veiled, VersionCountsState, Seen
<1>4. CASE Authorize
  BY <1>4, ConstantsOK
     DEF Authorize, TypeOK, ConstantsOK, watching, Veiled, VersionCountsState, Seen
<1>5. CASE Publish
  <2>1. /\ admitted' \in 0..MaxFeeds /\ feeds' \in 0..MaxFeeds
        /\ admitted' + feeds' <= MaxFeeds
    BY SMTT(30), <1>5, ConstantsOK DEF Publish, TypeOK, ConstantsOK
  <2>2. feed' \in Instant \cup {NULL} /\ UNCHANGED <<now, run, date, console, sampled, watching>>
    BY <1>5 DEF Publish, TypeOK
  <2> QED
    BY <2>1, <2>2 DEF TypeOK, watching, Veiled, VersionCountsState, Seen
<1>6. CASE LoseFeed
  BY <1>6 DEF LoseFeed, TypeOK, watching, Veiled, VersionCountsState, Seen
<1>7. CASE RefuseMove
  BY <1>7 DEF RefuseMove, TypeOK, desked, source, watching, Veiled, VersionCountsState
<1>8. CASE SampleFeed
  BY <1>8 DEF SampleFeed, TypeOK, desked, source, watching, Veiled, VersionCountsState, Seen
<1> QED
  BY <1>2, <1>3, <1>4, <1>5, <1>6, <1>7, <1>8 DEF Feed

\* A console that reads the run, and its command while the version stands.
LEMMA ConsoleSteps ==
    ASSUME LiveRunInv,
           ReadConsole \/ \E to \in RunState \ {"interrupted"} : MoveRun(to)
    PROVE  LiveRunInv'
<1> USE DEF LiveRunInv, AdmittedWithinBound
<1>1. CASE ReadConsole
  <2>1. Seen(run) \in RunState \X BOOLEAN \X (Incident \cup {NULL})
    BY DEF TypeOK, RunSnapshot, Seen
  <2> QED
    BY <1>1, <2>1
       DEF ReadConsole, TypeOK, desked, source, watching, Veiled, VersionCountsState, Seen
<1>2. ASSUME NEW to \in RunState \ {"interrupted"}, MoveRun(to) PROVE LiveRunInv'
  <2>1. run' \in RunSnapshot /\ Veiled(run')
    BY <1>2, Moved DEF MoveRun, TypeOK
  <2> QED
    BY <1>2, <2>1 DEF MoveRun, TypeOK, desked, source, watching, Veiled, VersionCountsState
<1> QED
  BY <1>1, <1>2

\* A step on the locked run that moves its version.
LEMMA VersionedStep ==
    ASSUME LiveRunInv, run' \in RunSnapshot, Veiled(run'), VersionMoves,
           sampled' \in BOOLEAN, reported' \in [Replicas -> Instant \cup {NULL}],
           view' \in [Replicas -> [feed : Instant \cup {NULL}, at : Instant] \cup {NULL}],
           UNCHANGED <<now, date, source, faults, restarted>>
    PROVE  LiveRunInv'
BY Unseen DEF LiveRunInv, AdmittedWithinBound, TypeOK, source, Veiled

\* The same of a step that leaves the version, and what a console shows, alone.
LEMMA UnversionedStep ==
    ASSUME LiveRunInv, run' \in RunSnapshot, Veiled(run'), UNCHANGED console,
           Seen(run)' = Seen(run),
           sampled' \in BOOLEAN, reported' \in [Replicas -> Instant \cup {NULL}],
           view' \in [Replicas -> [feed : Instant \cup {NULL}, at : Instant] \cup {NULL}],
           faults' \in 0..MaxFaults, restarted' \in BOOLEAN,
           UNCHANGED <<now, date, source>>
    PROVE  LiveRunInv'
BY SeenStill DEF LiveRunInv, AdmittedWithinBound, TypeOK, source, Veiled

\* The desk's check and its incidents keep the invariant.
LEMMA DeskSteps ==
    ASSUME LiveRunInv, CheckRun \/ RaiseIncident \/ ResolveIncident
    PROVE  LiveRunInv'
<1> USE DEF LiveRunInv, AdmittedWithinBound
<1>1. run \in RunSnapshot /\ Veiled(run) /\ "desk_lifts" \in Incident
  BY DEF TypeOK, Incident
<1>2. CASE CheckRun
  <2>1. CASE run.state = "ended" \/ run.checked
    BY <1>1, <1>2, <2>1, UnversionedStep
       DEF CheckRun, TypeOK, desked, watching, Seen
  <2>2. CASE ~(run.state = "ended" \/ run.checked)
    <3>1. run' \in RunSnapshot /\ Veiled(run') /\ VersionMoves
      BY <1>1, <1>2, <2>2 DEF CheckRun, RunSnapshot, Veiled
    <3> QED
      BY <1>2, <3>1, VersionedStep DEF CheckRun, TypeOK, desked, watching
  <2> QED
    BY <2>1, <2>2
<1>3. CASE RaiseIncident
  <2>1. run' \in RunSnapshot /\ Veiled(run')
    BY <1>1, <1>3, Raised DEF RaiseIncident
  <2> QED
    BY <1>3, <2>1, VersionedStep DEF RaiseIncident, TypeOK, desked, watching
<1>4. CASE ResolveIncident
  <2>1. run.state # "ended"
    BY <1>1, <1>4 DEF ResolveIncident, Veiled
  <2>2. run' \in RunSnapshot /\ Veiled(run')
    BY <1>1, <1>4, <2>1, Resolved DEF ResolveIncident
  <2> QED
    BY <1>4, <2>2, VersionedStep DEF ResolveIncident, TypeOK, desked, watching
<1> QED
  BY <1>2, <1>3, <1>4

\* The reports: a return lifts the automatic veil in the same transaction.
LEMMA WatcherSteps ==
    ASSUME LiveRunInv, NEW w \in Replicas, Watcher(w)
    PROVE  LiveRunInv'
<1> USE DEF LiveRunInv, AdmittedWithinBound
<1> DEFINE View == [feed : Instant \cup {NULL}, at : Instant]
<1>1. /\ run \in RunSnapshot /\ Veiled(run) /\ sampled \in BOOLEAN
      /\ view \in [Replicas -> View \cup {NULL}] /\ reported \in [Replicas -> Instant \cup {NULL}]
      /\ now \in Instant /\ feed \in Instant \cup {NULL}
      /\ faults \in 0..MaxFaults /\ restarted \in BOOLEAN
  BY DEF TypeOK
<1>2. CASE Observe(w)
  <2>1. view' \in [Replicas -> View \cup {NULL}]
    BY <1>1, <1>2 DEF Observe
  <2> QED
    BY <1>1, <1>2, <2>1, UnversionedStep DEF Observe, reporting, Seen
<1>3. CASE PublisherOnline(w)
  <2>1. view[w].feed \in Instant
    BY <1>1, <1>3 DEF PublisherOnline
  <2>2. view' \in [Replicas -> View \cup {NULL}] /\ reported' \in [Replicas -> Instant \cup {NULL}]
    BY <1>1, <1>3, <2>1 DEF PublisherOnline
  <2>3. CASE ~AcceptsOnset(run, view[w].feed)
    BY <1>1, <1>3, <2>2, <2>3, UnversionedStep DEF PublisherOnline, reporting, Seen
  <2>4. CASE AcceptsOnset(run, view[w].feed)
    <3> DEFINE back == [run EXCEPT !.onlineSince = view[w].feed, !.afterGrace = FALSE]
    <3>1. /\ back \in RunSnapshot /\ back.state = run.state /\ back.incident = run.incident
          /\ back.checked = run.checked
      BY <1>1, <2>1 DEF RunSnapshot
    <3>2. run.state # "ended"
      BY <2>4 DEF AcceptsOnset
    <3>3. CASE liftsOnFeedReturn(run.incident)
      <4>1. run' = resolve(back) /\ VersionMoves
        BY <1>3, <2>4, <3>3 DEF PublisherOnline
      <4>2. run' \in RunSnapshot /\ Veiled(run')
        BY <3>1, <3>2, <4>1, Resolved
      <4> QED
        BY <1>1, <1>3, <2>2, <4>1, <4>2, VersionedStep DEF PublisherOnline, reporting
    <3>4. CASE ~liftsOnFeedReturn(run.incident)
      <4>1. run' = back /\ UNCHANGED console
        BY <1>3, <2>4, <3>4 DEF PublisherOnline
      <4>2. Veiled(run') /\ Seen(run)' = Seen(run)
        BY <1>1, <3>1, <3>4, <4>1 DEF Veiled, Seen, liftsOnFeedReturn
      <4> QED
        BY <1>1, <1>3, <2>2, <3>1, <4>1, <4>2, UnversionedStep DEF PublisherOnline, reporting
    <3> QED
      BY <3>3, <3>4
  <2> QED
    BY <2>3, <2>4
<1>4. CASE PublisherOffline(w)
  <2>1. view[w].at \in Instant
    BY <1>1, <1>4 DEF PublisherOffline
  <2>2. run' \in RunSnapshot /\ Veiled(run') /\ Seen(run)' = Seen(run)
    BY <1>1, <1>4, <2>1 DEF PublisherOffline, RunSnapshot, Veiled, Seen
  <2>3. view' \in [Replicas -> View \cup {NULL}] /\ reported' \in [Replicas -> Instant \cup {NULL}]
    BY <1>1, <1>4 DEF PublisherOffline
  <2> QED
    BY <1>1, <1>4, <2>2, <2>3, UnversionedStep DEF PublisherOffline, reporting
<1>5. CASE ReportFails(w) \/ Restart(w)
  <2>1. /\ view' \in [Replicas -> View \cup {NULL}]
        /\ reported' \in [Replicas -> Instant \cup {NULL}]
        /\ UNCHANGED <<run, console, reporting>> /\ restarted' \in BOOLEAN
    BY <1>1, <1>5 DEF ReportFails, Restart
  <2>2. faults' \in 0..MaxFaults
    BY <1>1, <1>5, ConstantsOK DEF ReportFails, Restart, ConstantsOK
  <2> QED
    BY <1>1, <2>1, <2>2, UnversionedStep DEF reporting, Seen
<1> QED
  BY <1>2, <1>3, <1>4, <1>5 DEF Watcher, Report

\* A worker's failure, the pass over lost feeds and the end by itself.
LEMMA PassSteps ==
    ASSUME LiveRunInv, WorkerFailed \/ SweepPresence \/ EndRunsByThemselves
    PROVE  LiveRunInv'
<1> USE DEF LiveRunInv, AdmittedWithinBound
<1>1. run \in RunSnapshot /\ Veiled(run) /\ {"desk_lifts", "feed_lost"} \subseteq Incident
  BY DEF TypeOK, Incident
<1>2. CASE WorkerFailed
  <2>1. run' \in RunSnapshot /\ Veiled(run')
    BY <1>1, <1>2, Raised DEF WorkerFailed
  <2> QED
    BY <1>2, <2>1, VersionedStep DEF WorkerFailed, TypeOK, reporting, watching
<1>3. CASE SweepPresence
  <2>1. PICK at \in Instant :
           /\ gone(run, at) \/ veils(run, at)
           /\ LET declared == [run EXCEPT !.afterGrace = @ \/ gone(run, at)]
              IN  IF veils(run, at) THEN run' = raise(declared, "feed_lost") /\ VersionMoves
                  ELSE run' = declared /\ UNCHANGED console
    BY <1>3 DEF SweepPresence
  <2> DEFINE declared == [run EXCEPT !.afterGrace = @ \/ gone(run, at)]
  <2>2. gone(run, at) \in BOOLEAN
    BY DEF gone
  <2>3. /\ declared \in RunSnapshot /\ declared.state = run.state
        /\ declared.incident = run.incident /\ declared.onlineSince = run.onlineSince
        /\ declared.checked = run.checked
    BY <1>1, <2>2 DEF RunSnapshot
  <2>4. Veiled(declared)
    BY <1>1, <2>3 DEF Veiled
  <2> HIDE DEF declared
  <2>5. CASE veils(run, at)
    <3>1. run' = raise(declared, "feed_lost") /\ VersionMoves
      BY <2>1, <2>5 DEF declared
    <3>2. run.state = "on_air" /\ run.onlineSince = NULL
      BY <2>5 DEF veils, feedLostFor
    <3>3. run' \in RunSnapshot /\ Veiled(run')
      BY <1>1, <2>3, <2>4, <3>1, <3>2, Raised
    <3> QED
      BY <1>3, <3>1, <3>3, VersionedStep DEF SweepPresence, TypeOK, reporting, watching
  <2>6. CASE ~veils(run, at)
    <3>1. run' = declared /\ UNCHANGED console
      BY <2>1, <2>6 DEF declared
    <3>2. Seen(run)' = Seen(run)
      BY <2>3, <3>1 DEF Seen
    <3> QED
      BY <1>3, <2>3, <2>4, <3>1, <3>2, UnversionedStep
         DEF SweepPresence, TypeOK, reporting, watching
  <2> QED
    BY <2>5, <2>6
<1>4. CASE EndRunsByThemselves
  <2>1. run' \in RunSnapshot /\ Veiled(run')
    BY <1>1, <1>4, Ended DEF EndRunsByThemselves
  <2> QED
    BY <1>4, <2>1, VersionedStep DEF EndRunsByThemselves, TypeOK, reporting, watching
<1> QED
  BY <1>2, <1>3, <1>4

-----------------------------------------------------------------------------
(* LiveRunCorrect: the inductive invariant holds of every behaviour.       *)
THEOREM LiveRunCorrect == Spec => []LiveRunInv
<1>1. LiveRunInv /\ [Next]_vars => LiveRunInv'
  <2> SUFFICES ASSUME LiveRunInv, [Next]_vars PROVE LiveRunInv'
    OBVIOUS
  <2>1. CASE Tick \/ RecordDateFact \/ Feed
    BY <2>1, RunLeftAlone
  <2>2. CASE Desk
    BY <2>2, RunLeftAlone, ConsoleSteps, DeskSteps DEF Desk
  <2>3. CASE \E w \in Replicas : Watcher(w)
    BY <2>3, WatcherSteps
  <2>4. CASE WorkerFailed \/ SweepPresence \/ EndRunsByThemselves
    BY <2>4, PassSteps
  <2>5. CASE UNCHANGED vars
    BY <2>5
       DEF LiveRunInv, AdmittedWithinBound, vars, TypeOK, Veiled, VersionCountsState, Seen
  <2> QED
    BY <2>1, <2>2, <2>3, <2>4, <2>5 DEF Next
<1> QED
  BY <1>1, InitInv, PTL DEF Spec

(* LiveRunTyped: the run, the reports and the views keep their types.      *)
THEOREM LiveRunTyped == Spec => []TypeOK
<1>1. LiveRunInv => TypeOK
  BY DEF LiveRunInv
<1> QED
  BY <1>1, LiveRunCorrect, PTL

(* OnAirIsUnveiled: whatever the desk, the watchers of any number of       *)
(* replicas and the passes do, a run on air or ended carries no veil and   *)
(* an interrupted one carries one.                                         *)
THEOREM OnAirIsUnveiled == Spec => []OnAirUnveiled
<1>1. LiveRunInv => OnAirUnveiled
  BY DEF LiveRunInv, Veiled, OnAirUnveiled
<1> QED
  BY <1>1, LiveRunCorrect, PTL

(* VersionsCount: a command advancedFrom accepts acts on the state, check  *)
(* and veil its console showed.                                            *)
THEOREM VersionsCount == Spec => []VersionCountsState
<1>1. LiveRunInv => VersionCountsState
  BY DEF LiveRunInv
<1> QED
  BY <1>1, LiveRunCorrect, PTL

(* VeilsEnd: the automatic veil of a lost feed is never up while a         *)
(* publisher is recorded online, in whichever order and however often any  *)
(* number of replicas report.                                              *)
THEOREM VeilsEnd == Spec => []VeilEndsWithReturn
<1>1. LiveRunInv => VeilEndsWithReturn
  BY DEF LiveRunInv, Veiled, VeilEndsWithReturn
<1> QED
  BY <1>1, LiveRunCorrect, PTL
=============================================================================
