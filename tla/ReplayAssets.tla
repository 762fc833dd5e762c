---------------------------- MODULE ReplayAssets ----------------------------
(***************************************************************************)
(* The replay of one date: the row of replay_asset, the passes that move   *)
(* it (replay-asset-passes.ts), the calls it owes the recording provider   *)
(* (recording-calls.ts), made by several replicas of the sweeper, and the  *)
(* provider itself, MediaMTX (mediamtx-recording.ts), which records a PATH *)
(* and not a reference: a reference is the path and the instant it was     *)
(* asked.  Nothing compares two of them, so that one date has one, Ref.    *)
(*                                                                         *)
(* A call is claimed by a lease that moves the next attempt out; a pass    *)
(* claims up to twenty calls and makes them one after the other, so a      *)
(* lease may end before its call has begun, and LeaseEnds is never held    *)
(* back by a call in flight.                                               *)
(***************************************************************************)
EXTENDS Naturals, Sequences, FiniteSets

CONSTANTS
    NULL,
    Replicas,       \* processes running the sweeper
    Attempts,       \* RECORDING_ATTEMPTS_MAX
    OrphanTries,    \* ORPHAN_DELETE_ATTEMPTS
    Windows,        \* replay windows the catalog may set; 0 is no replay
    GiveUpAfter,    \* READINESS_GIVE_UP_AFTER_MS after the run's end
    MaxAge,         \* bound: time counted after the run's end
    MaxUnkept,      \* bound: late starts and orphans at once
    MaxLate,        \* bound: a start times out with fewer late starts and orphans than this
    MaxFaults       \* bound: crashes, lost answers, commits failed or not acknowledged, and
                    \* attempts that fail with another left

ASSUME ConstantsOK ==
    /\ Attempts \in Nat \ {0} /\ OrphanTries \in Nat \ {0}
    /\ Windows \subseteq Nat
    /\ {GiveUpAfter, MaxAge, MaxUnkept, MaxLate, MaxFaults} \subseteq Nat

VARIABLES
    run,        \* "live" (on air or interrupted) or "ended"
    age,        \* time since the run's end
    facts,      \* the date as streaming projects it: window, withdrawn
    wanted,     \* a pass has decided to record and not inserted yet
    asset,      \* the row of replay_asset, NULL before it is inserted
    worker,     \* what each replica's call pass is doing
    late,       \* starts that timed out and have not answered
    orphans,    \* recordings being deleted because no asset keeps them
    left,       \* orphan_recording has a row
    path,       \* MediaMTX: the path's record flag, "none" without a configuration
    lost,       \* a recording's answer or clean-up has died: see MaxFaults
    faults,     \* how many of the faults MaxFaults bounds happened
    outbox      \* what was announced of the replay

vars == <<run, age, facts, wanted, asset, worker, late, orphans, left, path,
          lost, faults, outbox>>
sweeping == <<worker, late, orphans, left, lost, faults>>

Ref == "path"
Unkept == 1..MaxUnkept
AssetState == {"recording", "processing", "ready", "failed", "deleting", "deleted"}
RecordingCall == {"start", "stop", "status", "delete"}

ReplayAssetRow ==
    [state : AssetState, ref : {Ref, NULL}, stopped : BOOLEAN, announced : BOOLEAN,
     expiresAt : Nat \cup {NULL}, attempts : Nat, leased : BOOLEAN]

ASSUME NullAssumption == NULL \notin Nat \cup RecordingCall \cup ReplayAssetRow \cup {Ref}

Idle == [step |-> "idle", call |-> NULL, ref |-> NULL, last |-> FALSE, answer |-> NULL]

TypeOK ==
    /\ run \in {"live", "ended"} /\ age \in 0..MaxAge
    /\ facts \in [window : Windows \cup {NULL}, withdrawn : BOOLEAN]
    /\ wanted \in BOOLEAN
    /\ asset \in ReplayAssetRow \cup {NULL}
    /\ worker \in [Replicas ->
            [step : {"idle", "claimed", "answered", "givingUp"},
             call : RecordingCall \cup {NULL}, ref : {Ref, NULL}, last : BOOLEAN,
             answer : {"ready", "notReady", NULL}]]
    /\ late \subseteq [id : Unkept, by : Replicas, applied : BOOLEAN]
    /\ orphans \subseteq [id : Unkept, by : Replicas, tries : 0..OrphanTries]
    /\ left \in BOOLEAN /\ lost \in BOOLEAN
    /\ path \in {"none", "on", "off"}
    /\ faults \in 0..MaxFaults
    /\ outbox \in Seq({"ready", "expired"})

Init ==
    /\ run = "live" /\ age = 0
    /\ facts = [window |-> NULL, withdrawn |-> FALSE]
    /\ wanted = FALSE /\ asset = NULL
    /\ worker = [w \in Replicas |-> Idle]
    /\ late = {} /\ orphans = {} /\ left = FALSE /\ lost = FALSE
    /\ path = "none"
    /\ faults = 0 /\ outbox = <<>>

-----------------------------------------------------------------------------
(* The world around the asset: the run, the catalog's facts and time.      *)

EndRun ==
    /\ run = "live" /\ run' = "ended"
    /\ UNCHANGED <<age, facts, wanted, asset, path, outbox, sweeping>>

SetReplay(w) ==
    /\ facts.window # w
    /\ facts' = [facts EXCEPT !.window = w]
    /\ UNCHANGED <<run, age, wanted, asset, path, outbox, sweeping>>

DeclareWithdrawingOutcome ==
    /\ ~facts.withdrawn
    /\ facts' = [facts EXCEPT !.withdrawn = TRUE]
    /\ UNCHANGED <<run, age, wanted, asset, path, outbox, sweeping>>

Tick ==
    /\ run = "ended" /\ age < MaxAge
    /\ age' = age + 1
    /\ UNCHANGED <<run, facts, wanted, asset, path, outbox, sweeping>>

-----------------------------------------------------------------------------
(* The decisions, read from the row and the facts.                         *)

\* CALL_DUE_NOW: the attempts anew, nothing scheduled.
CallDueNow(a) == [a EXCEPT !.attempts = 0, !.leased = FALSE]
ToDeleting(a) == [CallDueNow(a) EXCEPT !.state = "deleting"]

shouldRecord == facts.window \notin {NULL, 0} /\ ~facts.withdrawn

closesWith(a) == a.state = "recording" /\ a.ref # NULL /\ run = "ended"

\* Only a replay already online is taken away.
isWithdrawnOnline(a) == a.state = "ready" /\ facts.withdrawn

isWithdrawn(a) == a.state \in {"recording", "processing", "ready"} /\ facts.withdrawn

isExpired(a) == a.state = "ready" /\ a.expiresAt # NULL /\ a.expiresAt <= age

callDue(a) ==
    CASE a.state = "recording" -> IF a.ref = NULL THEN "start" ELSE NULL
      [] a.state = "processing" -> IF a.stopped THEN "status" ELSE "stop"
      [] a.state = "deleting" -> IF a.ref # NULL /\ ~a.stopped THEN "stop" ELSE "delete"
      [] OTHER -> NULL

\* readinessAt: whether a replay found ready now still opens.
opensAt(window) == ~facts.withdrawn /\ window > age

\* Every deletion announced.
owesExpiredEventAlways(a) == TRUE

owesExpiredEvent(a) == a.state = "ready" /\ a.announced

-----------------------------------------------------------------------------
(* The passes: each takes the row in a short transaction of its own and    *)
(* decides again on what it locked.                                        *)

passing == <<run, age, facts, path, sweeping>>

\* requestRecordings reads the live run and the date, and inserts later.
DecideRecording ==
    /\ run = "live" /\ asset = NULL /\ ~wanted /\ shouldRecord
    /\ wanted' = TRUE
    /\ UNCHANGED <<asset, outbox, passing>>

InsertAsset ==
    /\ wanted /\ wanted' = FALSE
    /\ asset' = IF asset # NULL THEN asset ELSE
         [state |-> "recording", ref |-> NULL, stopped |-> FALSE, announced |-> FALSE,
          expiresAt |-> NULL, attempts |-> 0, leased |-> FALSE]
    /\ UNCHANGED <<outbox, passing>>

CloseRecording ==
    /\ asset # NULL /\ closesWith(asset)
    /\ asset' = [CallDueNow(asset) EXCEPT !.state = "processing"]
    /\ UNCHANGED <<wanted, outbox, passing>>

\* toDeleting: the expiry is announced only of a replay announced ready.
MoveToDeleting ==
    /\ outbox' = IF owesExpiredEvent(asset) THEN Append(outbox, "expired") ELSE outbox
    /\ asset' = ToDeleting(asset)
    /\ UNCHANGED <<wanted, passing>>

Withdraw == asset # NULL /\ isWithdrawn(asset) /\ MoveToDeleting

Expire == asset # NULL /\ isExpired(asset) /\ MoveToDeleting

-----------------------------------------------------------------------------
(* MediaMTX: a path's own configuration turns its recording on and off.    *)
(* Its segments on the disk are left out, so a status may find some or not.*)

startPath(p) == "on"

\* A path without a configuration of its own has nothing to stop.
stopPath(p) == IF p = "none" THEN "none" ELSE "off"

\* The path's configuration is deleted whichever reference turned it on.
deletePath(p) == "none"

-----------------------------------------------------------------------------
(* The calls.                                                              *)

calling == <<run, age, facts, wanted, outbox>>

\* claim: the attempt is counted and the next one leased out before the call is made.
Claim(w) ==
    /\ worker[w].step = "idle"
    /\ asset # NULL /\ callDue(asset) # NULL /\ ~asset.leased
    /\ asset' = [asset EXCEPT !.attempts = @ + 1, !.leased = TRUE]
    /\ worker' = [worker EXCEPT ![w] =
         [Idle EXCEPT !.step = "claimed", !.call = callDue(asset), !.ref = asset.ref,
                      !.last = asset.attempts + 1 >= Attempts]]
    /\ UNCHANGED <<calling, path, late, orphans, left, lost, faults>>

LeaseEnds ==
    /\ asset # NULL /\ asset.leased
    /\ asset' = [asset EXCEPT !.leased = FALSE]
    /\ UNCHANGED <<calling, path, sweeping>>

\* Past its outcome a call is no longer told by its attempt.
Reaches(k, step) == [k EXCEPT !.step = step, !.last = FALSE]

\* A failed call: out of attempts it is given up, otherwise the claim scheduled the next.
AfterFailure(k) == IF k.last THEN Reaches(k, "givingUp") ELSE Idle

\* An attempt fails, within the bound as long as another is left.
Fails(w) ==
    /\ worker[w].last \/ faults < MaxFaults
    /\ faults' = IF worker[w].last THEN faults ELSE faults + 1
    /\ worker' = [worker EXCEPT ![w] = AfterFailure(@)]

\* A late start or an orphan is told from the others by an id none of them bears.
NewIds == Unkept \ {x.id : x \in late \cup orphans}
NewId == CHOOSE i \in NewIds : TRUE
newOrphan(w) == [id |-> NewId, by |-> w, tries |-> 0]

StartAnswers(w) ==
    /\ worker[w].step = "claimed" /\ worker[w].call = "start"
    /\ path' = startPath(path)
    /\ worker' = [worker EXCEPT ![w] = [Reaches(@, "answered") EXCEPT !.ref = Ref]]
    /\ UNCHANGED <<calling, asset, late, orphans, left, lost, faults>>

\* withinTimeout: the attempt has failed, the start runs on.
StartTimesOut(w) ==
    /\ worker[w].step = "claimed" /\ worker[w].call = "start" /\ NewIds # {}
    /\ Cardinality(late \cup orphans) < MaxLate
    /\ \E applied \in BOOLEAN :
         /\ path' = IF applied THEN startPath(path) ELSE path
         /\ late' = late \cup {[id |-> NewId, by |-> w, applied |-> applied]}
    /\ Fails(w)
    /\ UNCHANGED <<calling, asset, orphans, left, lost>>

\* Refused before the path was touched.
StartRefused(w) ==
    /\ worker[w].step = "claimed" /\ worker[w].call = "start"
    /\ Fails(w)
    /\ UNCHANGED <<calling, asset, path, late, orphans, left, lost>>

\* The request was served and its answer was lost: nobody knows of the recording.
StartAnswerLost(w) ==
    /\ worker[w].step = "claimed" /\ worker[w].call = "start" /\ faults < MaxFaults
    /\ path' = startPath(path)
    /\ lost' = TRUE /\ faults' = faults + 1
    /\ worker' = [worker EXCEPT ![w] = AfterFailure(@)]
    /\ UNCHANGED <<calling, asset, late, orphans, left>>

\* A start answering after its timeout is deleted by a task nobody awaits.
LateStartAnswers(l) ==
    /\ path' = IF l.applied THEN path ELSE startPath(path)
    /\ late' = late \ {l}
    /\ orphans' = orphans \cup {[id |-> l.id, by |-> l.by, tries |-> 0]}
    /\ UNCHANGED <<calling, asset, worker, left, lost, faults>>

\* Its refusal is swallowed.
LateStartRefused(l) ==
    /\ ~l.applied /\ late' = late \ {l}
    /\ UNCHANGED <<calling, asset, path, worker, orphans, left, lost, faults>>

\* What a stop or a delete served does to the path; a status only reads it.
Served(call, p) ==
    CASE call = "stop" -> stopPath(p) [] call = "delete" -> deletePath(p) [] OTHER -> p

\* A status finds the path recording, its segments, or nothing, which it can only refuse.
StatusAnswers(k) ==
    IF path = "on" THEN {[Reaches(k, "answered") EXCEPT !.answer = "notReady"]}
    ELSE {[Reaches(k, "answered") EXCEPT !.answer = "ready"], Reaches(k, "givingUp")}

\* stop, status and delete: without a reference there is nothing to ask of the provider.
InvokeOther(w) ==
    LET k == worker[w] IN
    /\ k.step = "claimed" /\ k.call \in {"stop", "status", "delete"}
    /\ path' = IF k.ref = NULL THEN path ELSE Served(k.call, path)
    /\ \E answered \in IF k.call = "status" THEN StatusAnswers(k)
                       ELSE {Reaches(k, "answered")} :
          worker' = [worker EXCEPT ![w] = answered]
    /\ UNCHANGED <<calling, asset, late, orphans, left, lost, faults>>

\* The call fails, or times out having been served.
OtherFails(w) ==
    LET k == worker[w] IN
    /\ k.step = "claimed" /\ k.call \in {"stop", "status", "delete"} /\ k.ref # NULL
    /\ path' \in {path, Served(k.call, path)}
    /\ Fails(w)
    /\ UNCHANGED <<calling, asset, late, orphans, left, lost>>

\* giveUp: only the call still owed fails its asset.
GiveUp(w) ==
    LET k == worker[w] IN
    /\ k.step = "givingUp"
    /\ asset' = IF callDue(asset) # k.call THEN asset
                ELSE [asset EXCEPT !.state = "failed", !.leased = FALSE]
    /\ worker' = [worker EXCEPT ![w] = Idle]
    /\ UNCHANGED <<calling, path, late, orphans, left, lost, faults>>

-----------------------------------------------------------------------------
(* settle: the outcome of a call, decided again on the locked row.  The    *)
(* commit's acknowledgement may be lost: the outcome is written, and the   *)
(* replica takes it for one that is not.                                   *)

Commits(acknowledged) ==
    /\ acknowledged \/ faults < MaxFaults
    /\ faults' = IF acknowledged THEN faults ELSE faults + 1

\* The asset's state not looked at again.
CanKeepWhenever(a) == a.ref = NULL

\* The asset may keep the reference of a start that answered.
CanKeep(a) == a.ref = NULL /\ a.state \in {"recording", "deleting"}

\* A reference the asset does not keep is an orphan, and so is one kept by a commit the
\* replica does not know of.
SettleStart(w, acknowledged) ==
    LET k == worker[w] IN
    /\ k.step = "answered" /\ k.call = "start" /\ NewIds # {} /\ Commits(acknowledged)
    /\ asset' = IF CanKeep(asset) THEN [CallDueNow(asset) EXCEPT !.ref = k.ref] ELSE asset
    /\ orphans' = IF CanKeep(asset) /\ acknowledged THEN orphans
                  ELSE orphans \cup {newOrphan(w)}
    /\ worker' = [worker EXCEPT ![w] = Idle]
    /\ UNCHANGED <<calling, path, late, left, lost>>

SettleStop(w, acknowledged) ==
    /\ worker[w].step = "answered" /\ worker[w].call = "stop" /\ Commits(acknowledged)
    /\ asset' = IF callDue(asset) # "stop" THEN asset
                ELSE [CallDueNow(asset) EXCEPT !.stopped = TRUE]
    /\ worker' = [worker EXCEPT ![w] = Idle]
    /\ UNCHANGED <<calling, path, late, orphans, left, lost>>

SettleDelete(w, acknowledged) ==
    /\ worker[w].step = "answered" /\ worker[w].call = "delete" /\ Commits(acknowledged)
    /\ asset' = IF callDue(asset) # "delete" THEN asset
                ELSE [CallDueNow(asset) EXCEPT !.state = "deleted", !.ref = NULL]
    /\ worker' = [worker EXCEPT ![w] = Idle]
    /\ UNCHANGED <<calling, path, late, orphans, left, lost>>

\* settleStatus: polled again, given up, or open once and for all until its window closes.
SettleStatus(w, acknowledged) ==
    LET k == worker[w] IN
    /\ k.step = "answered" /\ k.call = "status" /\ Commits(acknowledged)
    /\ IF callDue(asset) # "status"
       THEN worker' = [worker EXCEPT ![w] = Idle] /\ UNCHANGED <<asset, outbox>>
       ELSE \/ /\ k.answer = "notReady" /\ age >= GiveUpAfter /\ acknowledged
               /\ worker' = [worker EXCEPT ![w].step = "givingUp"]
               /\ UNCHANGED <<asset, outbox>>
            \/ /\ k.answer = "notReady" /\ age < GiveUpAfter
               /\ asset' = [asset EXCEPT !.attempts = 0, !.leased = TRUE]
               /\ worker' = [worker EXCEPT ![w] = Idle]
               /\ UNCHANGED outbox
            \/ /\ k.answer = "ready" /\ ~opensAt(facts.window)
               /\ asset' = ToDeleting(asset)
               /\ worker' = [worker EXCEPT ![w] = Idle]
               /\ UNCHANGED outbox
            \/ /\ k.answer = "ready" /\ opensAt(facts.window)
               /\ outbox' = Append(outbox, "ready")
               /\ asset' = [CallDueNow(asset) EXCEPT !.state = "ready", !.announced = TRUE,
                                                     !.expiresAt = facts.window]
               /\ worker' = [worker EXCEPT ![w] = Idle]
    /\ UNCHANGED <<run, age, facts, wanted, path, late, orphans, left, lost>>

\* The transaction fails: the answer is not written, and a recording it started is orphaned.
SettleFails(w) ==
    LET k == worker[w] IN
    /\ k.step = "answered" /\ NewIds # {} /\ faults < MaxFaults
    /\ faults' = faults + 1
    /\ orphans' = IF k.call # "start" THEN orphans ELSE orphans \cup {newOrphan(w)}
    /\ worker' = [worker EXCEPT ![w] = Idle]
    /\ UNCHANGED <<calling, asset, path, late, left, lost>>

\* deleteOrphan: once deleted it is forgotten.
DeleteOrphan(o) ==
    /\ path' = deletePath(path)
    /\ orphans' = orphans \ {o}
    /\ UNCHANGED <<calling, asset, worker, late, left, lost, faults>>

\* Not deleted within its tries, it is left at the provider and recorded for an operator.
DeleteOrphanFails(o) ==
    /\ orphans' = IF o.tries + 1 = OrphanTries THEN orphans \ {o}
                  ELSE (orphans \ {o}) \cup {[o EXCEPT !.tries = @ + 1]}
    /\ left' = (left \/ o.tries + 1 = OrphanTries)
    /\ UNCHANGED <<calling, asset, path, worker, late, lost, faults>>

\* A replica stops: what it was doing, awaited or not, dies with it.
Crash(w) ==
    LET mine == {x \in late \cup orphans : x.by = w}
        inFlight == worker[w].call = "start" /\ worker[w].step \in {"claimed", "answered"}
    IN
    /\ faults < MaxFaults /\ (worker[w] # Idle \/ mine # {})
    /\ faults' = faults + 1
    /\ worker' = [worker EXCEPT ![w] = Idle]
    /\ late' = late \ mine /\ orphans' = orphans \ mine
    /\ lost' = (lost \/ inFlight \/ mine # {})
    /\ \E applied \in BOOLEAN : path' =
         IF applied /\ (inFlight \/ \E l \in late \cap mine : ~l.applied)
         THEN startPath(path) ELSE path
    /\ UNCHANGED <<calling, asset, left>>

-----------------------------------------------------------------------------
World ==
    \/ EndRun
    \/ \E w \in Windows : SetReplay(w)
    \/ DeclareWithdrawingOutcome
    \/ Tick
    \/ LeaseEnds

Passes == DecideRecording \/ InsertAsset \/ CloseRecording \/ Withdraw \/ Expire

Answers(w) ==
    \/ StartAnswers(w) \/ StartTimesOut(w) \/ StartRefused(w) \/ StartAnswerLost(w)

Settles(w) ==
    \E acknowledged \in BOOLEAN :
        \/ SettleStart(w, acknowledged) \/ SettleStop(w, acknowledged)
        \/ SettleDelete(w, acknowledged) \/ SettleStatus(w, acknowledged)

Calls(w) ==
    \/ Claim(w) \/ Answers(w) \/ InvokeOther(w) \/ OtherFails(w)
    \/ GiveUp(w) \/ Settles(w)

LateStarts == \E l \in late : LateStartAnswers(l) \/ LateStartRefused(l)

Orphans == \E o \in orphans : DeleteOrphan(o) \/ DeleteOrphanFails(o)

Next ==
    \/ World \/ Passes
    \/ \E w \in Replicas : Calls(w) \/ SettleFails(w) \/ Crash(w)
    \/ LateStarts \/ Orphans

Spec == Init /\ [][Next]_vars

(* Time passes and leases end; each pass runs in a loop that outlives a    *)
(* failing pass (sweeper-loop.ts), so what stays due is taken; an awaited  *)
(* call answers or times out.                                              *)
FairSpec ==
    /\ Spec
    /\ WF_vars(Tick) /\ WF_vars(LeaseEnds)
    /\ WF_vars(InsertAsset) /\ WF_vars(CloseRecording)
    /\ WF_vars(Withdraw) /\ WF_vars(Expire)
    /\ \A w \in Replicas : WF_vars(Calls(w))

-----------------------------------------------------------------------------
(* DeletedRecordsNoMore: once the asset is deleted and no start or orphan  *)
(* deletion is under way, MediaMTX records nothing on the path, whatever   *)
(* order withdrawals, late starts and deletions came in.  Left out are a   *)
(* recording an operator was told of and one whose answer or clean-up died *)
(* with a process or a connection.                                         *)
Quiet ==
    /\ late = {} /\ orphans = {}
    /\ \A w \in Replicas : worker[w].call # "start"

DeletedRecordsNoMore ==
    asset # NULL /\ asset.state = "deleted" /\ Quiet /\ ~left /\ ~lost
        => path # "on"

(* ToldOnce: viewers are told at most once that the replay opened, that it *)
(* closed only after that, and a replay online is one they were told of    *)
(* and not told closed.                                                    *)
ToldOnce ==
    /\ outbox \in {<<>>, <<"ready">>, <<"ready", "expired">>}
    /\ asset # NULL => (asset.state = "ready" <=> outbox = <<"ready">>)

(* AssetSettles: an asset whose run has ended or whose date's outcome      *)
(* takes the replay away is deleted in the end, or failed and left to an   *)
(* operator: no lost lease, timeout, failed attempt or crash, on the last  *)
(* attempt either, leaves it in between.                                   *)
AssetSettles ==
    (asset # NULL /\ (run = "ended" \/ facts.withdrawn))
        ~> (asset # NULL /\ asset.state \in {"deleted", "failed"})

=============================================================================
