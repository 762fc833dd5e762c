------------------------------ MODULE LiveRun ------------------------------
(***************************************************************************)
(* The run of one date (apps/streaming/src/run): the studio's desk moves   *)
(* it and veils it, the media server's feed comes and goes, every API      *)
(* replica polls the server and reports what it saw by difference with its *)
(* previous list (path-watcher.ts), and two passes declare a lost feed and *)
(* end a run left on air.                                                  *)
(*                                                                         *)
(* The version a desk command names is not counted: a console that has     *)
(* read the run is fresh until a step advances the version, and stale from *)
(* then on (advancedFrom refuses its command).  The instants of the run's  *)
(* start and end are left out.                                             *)
(***************************************************************************)
EXTENDS Naturals

CONSTANTS
    NULL,
    Replicas,       \* API processes, each with a watcher of its own
    Grace,          \* PUBLISHER_GRACE_SECONDS
    HoldAfter,      \* HOLD_SCREEN_AUTO_AFTER_SECONDS_DEFAULT
    AutoEnd,        \* RUN_AUTO_END_MINUTES
    ScheduledEnds,  \* ends the catalog may give the date
    MaxFeeds,       \* bound: publications of the feed
    MaxFaults,      \* bound: failed reports and restarted replicas
    MaxTime         \* bound: the clock

ASSUME ConstantsOK ==
    /\ {Grace, HoldAfter, AutoEnd, MaxFeeds, MaxFaults, MaxTime} \subseteq Nat
    /\ Grace <= HoldAfter /\ ScheduledEnds \subseteq Nat
    /\ NULL \notin Nat \cup {"feed_lost", "desk_lifts"}

VARIABLES
    now,
    run,        \* the row of `run', with its open incident
    date,       \* the date as streaming projects it: its end, and if it is `technical'
    console,    \* what a console showed when it read the run, or <<"stale">>, or <<>>
    sampled,    \* the technical check's sample saw a feed, and is not used yet
    feed,       \* the onset of the feed published, NULL without one
    admitted,   \* publications the authorizer accepted that have not begun
    feeds,      \* publications begun so far
    reported,   \* per replica: the onset it last reported
    view,       \* per replica: a list read, not reported yet
    faults,     \* failed reports and restarts so far
    restarted   \* a replica has restarted

vars == <<now, run, date, console, sampled, feed, admitted, feeds, reported, view, faults,
          restarted>>
source == <<feed, admitted, feeds>>
watching == <<reported, view, faults, restarted>>

Instant == 0..MaxTime
RunState == {"idle", "rehearsal", "on_air", "interrupted", "ended"}

\* An incident: the automatic one of a lost feed, or one only the desk lifts, raised by
\* hand or by a failed worker.
Incident == {"feed_lost", "desk_lifts"}

RunSnapshot ==
    [state : RunState, checked : BOOLEAN, onlineSince : Instant \cup {NULL},
     lostAt : Instant \cup {NULL}, afterGrace : BOOLEAN, incident : Incident \cup {NULL}]

\* What the console shows and a command decides on.
Seen(r) == <<r.state, r.checked, r.incident>>

TypeOK ==
    /\ now \in Instant /\ run \in RunSnapshot
    /\ date \in [endsAt : ScheduledEnds \cup {NULL}, technical : BOOLEAN]
    /\ console \in {<<>>, <<"stale">>} \cup (RunState \X BOOLEAN \X (Incident \cup {NULL}))
    /\ sampled \in BOOLEAN /\ feed \in Instant \cup {NULL}
    /\ admitted \in 0..MaxFeeds /\ feeds \in 0..MaxFeeds /\ faults \in 0..MaxFaults
    /\ restarted \in BOOLEAN
    /\ reported \in [Replicas -> Instant \cup {NULL}]
    /\ view \in [Replicas -> [feed : Instant \cup {NULL}, at : Instant] \cup {NULL}]

\* Run.prepare
Prepared ==
    [state |-> "idle", checked |-> FALSE, onlineSince |-> NULL, lostAt |-> NULL, afterGrace |-> FALSE, incident |-> NULL]

Init ==
    /\ now = 0 /\ run = Prepared
    /\ date = [endsAt |-> NULL, technical |-> FALSE]
    /\ console = <<>> /\ sampled = FALSE
    /\ feed = NULL /\ admitted = 0 /\ feeds = 0 /\ faults = 0 /\ restarted = FALSE
    /\ reported = [w \in Replicas |-> NULL] /\ view = [w \in Replicas |-> NULL]

-----------------------------------------------------------------------------
(* The aggregate.                                                          *)

\* RUN_TRANSITIONS of @arthome/core; on air needs a passed technical check.
CanMove(r, to) ==
    /\ to \in CASE r.state = "idle" -> {"rehearsal"}
                [] r.state = "rehearsal" -> {"idle", "on_air"}
                [] r.state = "on_air" -> {"interrupted", "ended"}
                [] r.state = "interrupted" -> {"on_air", "ended"}
                [] r.state = "ended" -> {}
    /\ to = "on_air" => r.checked

Live(r) == r.state \in {"on_air", "interrupted"}

\* An incident veils; it interrupts only a run on air.
raise(r, incident) ==
    [r EXCEPT !.incident = incident,
              !.state = IF r.state = "on_air" THEN "interrupted" ELSE r.state]

resolve(r) ==
    [r EXCEPT !.incident = NULL,
              !.state = IF r.state = "interrupted" THEN "on_air" ELSE r.state]

\* An ended run carries no veil: an incident still open is resolved first.
endAt(r) == [r EXCEPT !.state = "ended", !.incident = NULL]

\* The publisher's presence not looked at again.
feedLostForStale(r, delay, at) ==
    r.state = "on_air" /\ r.lostAt # NULL /\ r.lostAt + delay <= at

feedLostFor(r, delay, at) ==
    /\ r.state = "on_air" /\ r.onlineSince = NULL /\ r.lostAt # NULL
    /\ r.lostAt + delay <= at

\* holdScreenLiftsOnFeedReturn: the automatic veil of a lost feed, no other.
liftsOnFeedReturn(incident) == incident = "feed_lost"

\* The latest of the two instants.
Later(a, b) == IF a = NULL \/ a < b THEN b ELSE a

\* runAutoEndsAt: never while a publisher is online.
autoEndDue(r, scheduledEnd, at) ==
    /\ Live(r) /\ r.onlineSince = NULL
    /\ Later(r.lostAt, scheduledEnd) + AutoEnd <= at

\* A save whose version moved: the command a console has read is stale.
VersionMoves == console' = IF console = <<>> THEN <<>> ELSE <<"stale">>

-----------------------------------------------------------------------------
(* Time, the catalog's facts and the feed.                                 *)

Tick ==
    /\ now < MaxTime /\ now' = now + 1
    /\ UNCHANGED <<run, date, console, sampled, source, watching>>

RecordDateFact ==
    /\ \E e \in ScheduledEnds, t \in BOOLEAN : date' = [endsAt |-> e, technical |-> t]
    /\ date' # date
    /\ UNCHANGED <<now, run, console, sampled, source, watching>>

\* RunIngestAuthorizer.authorize, asked by the media server before it accepts a feed.
Authorize ==
    /\ run.state # "ended" /\ run.onlineSince = NULL
    /\ admitted + feeds < MaxFeeds
    /\ admitted' = admitted + 1
    /\ UNCHANGED <<now, run, date, console, sampled, feed, feeds, watching>>

\* The path takes one publisher at a time.
Publish ==
    /\ admitted > 0 /\ feed = NULL
    /\ feed' = now /\ admitted' = admitted - 1 /\ feeds' = feeds + 1
    /\ UNCHANGED <<now, run, date, console, sampled, watching>>

LoseFeed ==
    /\ feed # NULL /\ feed < now
    /\ feed' = NULL
    /\ UNCHANGED <<now, run, date, console, sampled, admitted, feeds, watching>>

-----------------------------------------------------------------------------
(* The desk: each command is one transaction on the locked run.            *)

desked == <<now, date, source, watching>>

ReadConsole ==
    /\ console = <<>> /\ run.state # "ended"
    /\ console' = Seen(run)
    /\ UNCHANGED <<run, sampled, desked>>

\* The open incident not looked at.
AcceptsVeiled(r, to) == CanMove(r, to) /\ (to = "on_air" => date.technical)

\* goOnAir refuses a publication that is not technical, and an open incident.
Accepts(r, to) ==
    CanMove(r, to) /\ (to = "on_air" => date.technical /\ r.incident = NULL)

moved(r, to) == IF to = "ended" THEN endAt(r) ELSE [r EXCEPT !.state = to]

MoveRun(to) ==
    /\ console \notin {<<>>, <<"stale">>} /\ Accepts(run, to)
    /\ run' = moved(run, to)
    /\ console' = <<>>
    /\ UNCHANGED <<sampled, desked>>

\* A stale version, or a move the run's state does not allow.
RefuseMove ==
    /\ console # <<>>
    /\ console' = <<>>
    /\ UNCHANGED <<run, sampled, desked>>

\* CheckRun reads its sample before its transaction; a second check changes nothing.
SampleFeed ==
    /\ ~sampled /\ feed # NULL /\ run.state # "ended" /\ ~run.checked
    /\ sampled' = TRUE
    /\ UNCHANGED <<run, console, desked>>

\* runTechnicalCheck: the first pass is recorded.
CheckRun ==
    /\ sampled /\ sampled' = FALSE
    /\ IF run.state = "ended" \/ run.checked
       THEN UNCHANGED <<run, console>>
       ELSE run' = [run EXCEPT !.checked = TRUE] /\ VersionMoves
    /\ UNCHANGED desked

RaiseIncident ==
    /\ run.state # "ended" /\ run.incident = NULL
    /\ run' = raise(run, "desk_lifts") /\ VersionMoves
    /\ UNCHANGED <<sampled, desked>>

\* A resolution that leaves the version alone.
ResolveIncidentUnversioned ==
    /\ run.incident # NULL
    /\ run' = resolve(run)
    /\ UNCHANGED <<console, sampled, desked>>

\* Whatever raised it: the command names the open incident.
ResolveIncident ==
    /\ run.incident # NULL
    /\ run' = resolve(run) /\ VersionMoves
    /\ UNCHANGED <<sampled, desked>>

-----------------------------------------------------------------------------
(* What the media server's watchers report.                                *)

reporting == <<now, date, sampled, source>>

\* The list is read; only a difference is reported, a loss with the instant of the reading.
Observe(w) ==
    /\ view[w] = NULL /\ reported[w] # feed
    /\ view' = [view EXCEPT ![w] = [feed |-> feed, at |-> IF feed = NULL THEN now ELSE feed]]
    /\ UNCHANGED <<run, console, reported, faults, restarted, reporting>>

\* An onset older than the recorded loss is refused, one recorded already is not repeated.
AcceptsOnset(r, at) ==
    r.onlineSince # at /\ r.state # "ended" /\ (r.lostAt = NULL \/ r.lostAt <= at)

PublisherOnline(w) ==
    /\ view[w] # NULL /\ view[w].feed # NULL
    /\ IF ~AcceptsOnset(run, view[w].feed)
       THEN UNCHANGED <<run, console>>
       ELSE LET back == [run EXCEPT !.onlineSince = view[w].feed, !.afterGrace = FALSE]
            IN  IF liftsOnFeedReturn(run.incident)
                THEN run' = resolve(back) /\ VersionMoves
                ELSE run' = back /\ UNCHANGED console
    /\ reported' = [reported EXCEPT ![w] = view[w].feed]
    /\ view' = [view EXCEPT ![w] = NULL]
    /\ UNCHANGED <<faults, restarted, reporting>>

\* A loss ends only the onset it names.
Ends(r, onset) == r.onlineSince = onset

PublisherOffline(w) ==
    /\ view[w] # NULL /\ view[w].feed = NULL
    /\ run' = IF ~Ends(run, reported[w]) THEN run
              ELSE [run EXCEPT !.onlineSince = NULL, !.lostAt = view[w].at]
    /\ reported' = [reported EXCEPT ![w] = NULL]
    /\ view' = [view EXCEPT ![w] = NULL]
    /\ UNCHANGED <<console, faults, restarted, reporting>>

\* A report remembered before it is taken.
ReportFailsRemembered(w) ==
    /\ view[w] # NULL /\ faults < MaxFaults
    /\ faults' = faults + 1
    /\ reported' = [reported EXCEPT ![w] = view[w].feed]
    /\ view' = [view EXCEPT ![w] = NULL]
    /\ UNCHANGED <<run, console, restarted, reporting>>

\* A report the listener failed to take is not remembered: the next list repeats it.
ReportFails(w) ==
    /\ view[w] # NULL /\ faults < MaxFaults
    /\ faults' = faults + 1
    /\ view' = [view EXCEPT ![w] = NULL]
    /\ UNCHANGED <<run, console, reported, restarted, reporting>>

\* The watcher's map is its process's.
Restart(w) ==
    /\ reported[w] # NULL /\ faults < MaxFaults
    /\ faults' = faults + 1 /\ restarted' = TRUE
    /\ reported' = [reported EXCEPT ![w] = NULL]
    /\ view' = [view EXCEPT ![w] = NULL]
    /\ UNCHANGED <<run, console, reporting>>

WorkerFailed ==
    /\ run.state # "ended" /\ run.incident = NULL /\ feed # NULL
    /\ run' = raise(run, "desk_lifts") /\ VersionMoves
    /\ UNCHANGED <<watching, reporting>>

-----------------------------------------------------------------------------
(* The passes, each on the locked run, at the instant it captured when it  *)
(* began.                                                                  *)

gone(r, at) == feedLostFor(r, Grace, at) /\ ~r.afterGrace

veils(r, at) == r.incident = NULL /\ feedLostFor(r, HoldAfter, at)

SweepPresence ==
    /\ \E at \in {t \in Instant : t <= now} :
         /\ gone(run, at) \/ veils(run, at)
         /\ LET declared == [run EXCEPT !.afterGrace = @ \/ gone(run, at)]
            IN  IF veils(run, at) THEN run' = raise(declared, "feed_lost") /\ VersionMoves
                ELSE run' = declared /\ UNCHANGED console
    /\ UNCHANGED <<watching, reporting>>

\* A date with no timing never ends by itself.
EndRunsByThemselves ==
    /\ date.endsAt # NULL
    /\ \E at \in {t \in Instant : t <= now} : autoEndDue(run, date.endsAt, at)
    /\ run' = endAt(run) /\ VersionMoves
    /\ UNCHANGED <<watching, reporting>>

-----------------------------------------------------------------------------
Desk ==
    \/ ReadConsole \/ RefuseMove
    \/ \E to \in RunState \ {"interrupted"} : MoveRun(to)
    \/ SampleFeed \/ CheckRun \/ RaiseIncident \/ ResolveIncident

Feed == Authorize \/ Publish \/ LoseFeed

Report(w) == PublisherOnline(w) \/ PublisherOffline(w)

Watcher(w) == Observe(w) \/ Report(w) \/ ReportFails(w) \/ Restart(w)

Next ==
    \/ Tick \/ RecordDateFact \/ Desk \/ Feed
    \/ \E w \in Replicas : Watcher(w)
    \/ WorkerFailed \/ SweepPresence \/ EndRunsByThemselves

Spec == Init /\ [][Next]_vars

(* Time passes; every replica polls in a loop and repeats a failed report; *)
(* the passes run in loops that outlive a failing pass.  The desk, the     *)
(* catalog and the feed owe nothing.                                       *)
FairSpec ==
    /\ Spec
    /\ WF_vars(Tick) /\ WF_vars(SweepPresence) /\ WF_vars(EndRunsByThemselves)
    /\ \A w \in Replicas : WF_vars(Observe(w)) /\ WF_vars(Report(w))

-----------------------------------------------------------------------------
(* OnAirUnveiled: on air means on air with no veil, and interrupted means  *)
(* veiled: whatever raised, lifted or ended what, by hand or by itself.    *)
OnAirUnveiled ==
    /\ run.state \in {"on_air", "ended"} => run.incident = NULL
    /\ run.state = "interrupted" => run.incident # NULL

(* VersionCountsState: a command the version check accepts acts on the     *)
(* state, check and veil its console showed, however many reports, passes  *)
(* and incidents came between the reading and the command.                 *)
VersionCountsState ==
    console \notin {<<>>, <<"stale">>} => console = Seen(run)

(* VeilEndsWithReturn: the automatic veil of a lost feed is never up while *)
(* a publisher is recorded online, in whichever order replicas report the  *)
(* loss and the return.                                                    *)
VeilEndsWithReturn == run.incident = "feed_lost" => run.onlineSince = NULL

(* LeftRunEnds: a live run whose feed is gone ends by itself once its date *)
(* has an end, unless the feed comes back or the clock stops first: no     *)
(* late, repeated or reordered report leaves a publisher online who is     *)
(* not.  What it excepts is a restarted replica that forgot the onset it   *)
(* had reported before it saw the loss: Forgotten.                         *)
Forgotten ==
    restarted /\ run.onlineSince # NULL /\ \A w \in Replicas : reported[w] # run.onlineSince

OutOfTime == run.lostAt # NULL /\ run.lostAt + AutoEnd > MaxTime

LeftRunEnds ==
    (Live(run) /\ feed = NULL /\ date.endsAt # NULL)
        ~> (run.state = "ended" \/ feed # NULL \/ OutOfTime \/ Forgotten)
=============================================================================
