------------------------------ MODULE Playback ------------------------------
(***************************************************************************)
(* The screens of one account on one date (apps/streaming/src/playback):   *)
(* playback sessions, each a lease that holds a screen until it lapses.    *)
(* An opening takes over the least recently renewed screens so that it     *)
(* fits under the allowance; a renewal is refused to the oldest screens    *)
(* when the allowance fell under those that are open.                      *)
(*                                                                         *)
(* A request reads the clock, then waits for the advisory lock of the      *)
(* account's screens; under it, it locks the active leases, reads the      *)
(* entitlement facts and decides; its writes become visible at its commit. *)
(* Releases, revocations and the sweep take no advisory lock: they wait    *)
(* for, or skip, the rows a request holds.                                 *)
(*                                                                         *)
(* The allowance is the active seats of the entitlement projection, fed by *)
(* ticketing's facts in any order; a plan's screens are left out, and with *)
(* them the preview, so a full right is the only scope.                    *)
(***************************************************************************)
EXTENDS Integers, FiniteSets, FiniteSetsExt

CONSTANTS
    Devices,      \* the account's devices
    Profiles,     \* its profiles
    Seats,        \* its seats on the date
    Calls,        \* requests under way at once
    MaxLeases,    \* bound: sessions ever opened, ids 1..MaxLeases
    LeaseTtl,     \* PLAYBACK_LEASE_SECONDS
    MaxTime,      \* bound: the last instant
    NULL

ASSUME PlaybackConstants ==
    /\ {MaxLeases, LeaseTtl, MaxTime} \subseteq Nat \ {0}
    /\ IsFiniteSet(Seats)
    /\ NULL \notin Int

VARIABLES
    now,         \* the machine's clock
    lease,       \* playback_session, by id; NULL before its opening
    call,        \* the requests under way
    seat,        \* entitlement_seat, by seat
    over,        \* the date's outcome ends the right to watch
    lostAt       \* when the right to watch was last lost

facts == <<seat, over, lostAt>>

vars == <<now, lease, call, facts>>

Ids == 1..MaxLeases

Instant == 0..MaxTime

\* An active session's row; of one that ended, only how it ended is ever read.
ActiveRow ==
    [device : Devices, profile : Profiles, openedAt : Instant, lastRenewedAt : Instant,
     expiresAt : Int, state : {"active"}]

EndedRow == [state : {"released", "expired", "revoked"}]

ASSUME NullAssumption == NULL \notin ActiveRow

Init ==
    /\ now = 0
    /\ lease = [i \in Ids |-> NULL]
    /\ call = [c \in Calls |-> NULL]
    /\ seat = [s \in Seats |-> NULL]
    /\ over = FALSE
    /\ lostAt = 0

-----------------------------------------------------------------------------
(* The entitlement projection: what a verdict reads.                       *)

\* concurrentStreamsAllowedFor without a plan: one screen per active seat.
screensAllowedBy(seats) == Cardinality({s \in Seats : seats[s] = "active"})

\* decideWatch on the facts: a seat, a date that is not withdrawn, a screen left.
verdictOf(open, allowed) ==
    IF over \/ allowed = 0 THEN "no_right"
    ELSE IF open >= allowed THEN "concurrent_limit_reached" ELSE "full"

Entitled(isOver, seats) == ~isOver /\ screensAllowedBy(seats) > 0

Loses == lostAt' = IF Entitled(over, seat) /\ ~Entitled(over', seat') THEN now ELSE lostAt

\* An activation never overwrites a row.
ActivateSeat(s) ==
    /\ seat[s] = NULL
    /\ seat' = [seat EXCEPT ![s] = "active"]
    /\ UNCHANGED <<now, lease, call, over, lostAt>>

\* A cancellation always ends one, and keeps a row the activation then finds.
CancelSeat(s) ==
    /\ seat[s] # "cancelled"
    /\ seat' = [seat EXCEPT ![s] = "cancelled"]
    /\ UNCHANGED <<now, lease, call, over>>
    /\ Loses

DeclareOutcome ==
    /\ ~over
    /\ over' = TRUE
    /\ UNCHANGED <<now, lease, call, seat>>
    /\ Loses

-----------------------------------------------------------------------------
(* Screens.                                                                *)

ActiveIn(rows) == {i \in Ids : rows[i] # NULL /\ rows[i].state = "active"}

ActiveLeases == ActiveIn(lease)

holdsAScreen(i, at) == lease[i].expiresAt > at

ScreensAt(at) == {i \in ActiveLeases : holdsAScreen(i, at)}

\* By last renewal, then opening, then id.
LeastRecentlyRenewed(i, j) ==
    \/ lease[i].lastRenewedAt < lease[j].lastRenewedAt
    \/ /\ lease[i].lastRenewedAt = lease[j].lastRenewedAt
       /\ \/ lease[i].openedAt < lease[j].openedAt
          \/ lease[i].openedAt = lease[j].openedAt /\ i < j

\* A take over that ends one screen more than it has to.
leasesTakenOverByOneMore(others, allowed) ==
    {i \in others :
        Cardinality({j \in others : LeastRecentlyRenewed(j, i)})
            < Cardinality(others) - Max({0, allowed - 2})}

\* The first of them in that order, as many as do not fit beside the opening.
leasesTakenOverBy(others, allowed) ==
    {i \in others :
        Cardinality({j \in others : LeastRecentlyRenewed(j, i)})
            < Cardinality(others) - Max({0, allowed - 1})}

openedLater(i, than) ==
    \/ lease[i].openedAt > lease[than].openedAt
    \/ lease[i].openedAt = lease[than].openedAt /\ i > than

newerScreensThan(i, at) == Cardinality({j \in ScreensAt(at) \ {i} : openedLater(j, i)})

-----------------------------------------------------------------------------
(* Requests.                                                               *)

Deciding(c) == call[c] # NULL /\ call[c].decision # NULL

\* No lock before the leases': the first openings have no row to wait for.
lockScreensByRow(c) == TRUE

\* pg_advisory_xact_lock on the account and the date.
lockScreens(c) == \A other \in Calls \ {c} : ~Deciding(other)

\* FOR UPDATE: the leases a request that decides holds until its commit.
LockedRows == UNION {call[c].decision.locked : c \in {d \in Calls : Deciding(d)}}

activeOnDate(c) == lockScreens(c) /\ ActiveLeases \cap LockedRows = {}

\* Only an active row is closed.
Closed(rows, ids, state) ==
    [i \in Ids |-> IF i \in ids \cap ActiveIn(rows) THEN [state |-> state] ELSE rows[i]]

\* The clock is read before any lock.  A renewal of a session that ended finds none.
CallOpen(c, d, p) ==
    /\ call[c] = NULL
    /\ call' = [call EXCEPT ![c] =
            [kind |-> "open", device |-> d, profile |-> p, at |-> now, decision |-> NULL]]
    /\ UNCHANGED <<now, lease, facts>>

CallRenew(c, i) ==
    /\ call[c] = NULL /\ i \in ActiveLeases
    /\ call' = [call EXCEPT ![c] = [kind |-> "renew", id |-> i, at |-> now, decision |-> NULL]]
    /\ UNCHANGED <<now, lease, facts>>

Decided(c, decision) ==
    /\ call' = [call EXCEPT ![c].decision = decision]
    /\ UNCHANGED <<now, lease, facts>>

DecideOpen(c) ==
    /\ call[c] # NULL /\ call[c].kind = "open" /\ ~Deciding(c)
    /\ activeOnDate(c)
    /\ LET screens == ScreensAt(call[c].at)
           others == {i \in screens : lease[i].device # call[c].device}
           allowed == screensAllowedBy(seat)
           takenOver == leasesTakenOverBy(others, allowed)
       IN  Decided(c, [verdict |-> verdictOf(Cardinality(others \ takenOver), allowed),
                       allowed |-> allowed, locked |-> ActiveLeases,
                       lapsed |-> ActiveLeases \ screens, takenOver |-> takenOver])

\* A renewal that trusts the opening's right.
DecideRenewUnread(c) ==
    /\ call[c] # NULL /\ call[c].kind = "renew" /\ ~Deciding(c)
    /\ activeOnDate(c)
    /\ LET id == call[c].id
       IN  Decided(c, [verdict |-> IF id \notin ActiveLeases THEN "not_found"
                                   ELSE IF ~holdsAScreen(id, call[c].at) THEN "lapsed"
                                   ELSE "full",
                       allowed |-> screensAllowedBy(seat), locked |-> ActiveLeases])

\* A session that is not active any more leaves nothing to decide.
DecideRenew(c) ==
    /\ call[c] # NULL /\ call[c].kind = "renew" /\ ~Deciding(c)
    /\ activeOnDate(c)
    /\ LET id == call[c].id
           allowed == screensAllowedBy(seat)
       IN  Decided(c, [verdict |-> IF id \notin ActiveLeases THEN "not_found"
                                   ELSE IF ~holdsAScreen(id, call[c].at) THEN "lapsed"
                                   ELSE verdictOf(newerScreensThan(id, call[c].at), allowed),
                       allowed |-> allowed, locked |-> ActiveLeases])

\* The device's lease is taken over by its own opening, or a new one inserted.
CommitOpen(c) ==
    /\ Deciding(c) /\ call[c].kind = "open"
    /\ LET at == call[c].at
           decision == call[c].decision
           ended == Closed(Closed(lease, decision.lapsed, "expired"), decision.takenOver, "revoked")
           own == {i \in ActiveIn(ended) : ended[i].device = call[c].device}
           opened == [device |-> call[c].device, profile |-> call[c].profile, openedAt |-> at,
                      lastRenewedAt |-> at, expiresAt |-> at + LeaseTtl, state |-> "active"]
       IN  IF decision.verdict # "full" THEN UNCHANGED lease
           ELSE \E i \in IF own # {} THEN own ELSE {j \in Ids : lease[j] = NULL} :
                    lease' = [ended EXCEPT ![i] = opened]
    /\ call' = [call EXCEPT ![c] = NULL]
    /\ UNCHANGED <<now, facts>>

\* A refusal is committed with the lease it revokes.
CommitRenew(c) ==
    /\ Deciding(c) /\ call[c].kind = "renew"
    /\ LET at == call[c].at
           id == call[c].id
           verdict == call[c].decision.verdict
       IN  lease' = CASE verdict = "not_found" -> lease
                      [] verdict = "lapsed" -> Closed(lease, {id}, "expired")
                      [] verdict = "full" -> [lease EXCEPT ![id].lastRenewedAt = at,
                                                           ![id].expiresAt = at + LeaseTtl]
                      [] OTHER -> Closed(lease, {id}, "revoked")
    /\ call' = [call EXCEPT ![c] = NULL]
    /\ UNCHANGED <<now, facts>>

\* The provider could not sign, or the process died: the transaction rolls back.
RollBack(c) ==
    /\ Deciding(c)
    /\ call' = [call EXCEPT ![c] = NULL]
    /\ UNCHANGED <<now, lease, facts>>

-----------------------------------------------------------------------------
(* Without the advisory lock.                                              *)

\* Waits for the row; released, expired or revoked release again.
Release(i) ==
    /\ i \in ActiveLeases \ LockedRows
    /\ lease' = Closed(lease, {i}, "released")
    /\ UNCHANGED <<now, call, facts>>

\* SKIP LOCKED: what a request holds waits for the next pass.
ExpireLapsedLeases ==
    /\ LET due == (ActiveLeases \ ScreensAt(now)) \ LockedRows
       IN  due # {} /\ lease' = Closed(lease, due, "expired")
    /\ UNCHANGED <<now, call, facts>>

revokeDevice(ids) ==
    /\ ids # {} /\ ids \cap LockedRows = {}
    /\ lease' = Closed(lease, ids, "revoked")
    /\ UNCHANGED <<now, call, facts>>

RevokeDeviceLeases(d) == revokeDevice({i \in ActiveLeases : lease[i].device = d})

\* A close stated at an earlier instant reaches the leases opened until then.
RevokeProfileLeases(d, p) ==
    \E closedAt \in {t \in Instant : t <= now} :
        revokeDevice({i \in ActiveLeases : /\ lease[i].device = d /\ lease[i].profile = p
                                           /\ lease[i].openedAt <= closedAt})

Tick ==
    /\ now < MaxTime
    /\ now' = now + 1
    /\ UNCHANGED <<lease, call, facts>>

-----------------------------------------------------------------------------
Facts == DeclareOutcome \/ \E s \in Seats : ActivateSeat(s) \/ CancelSeat(s)

Request(c) ==
    \/ \E d \in Devices, p \in Profiles : CallOpen(c, d, p)
    \/ \E i \in Ids : CallRenew(c, i)
    \/ DecideOpen(c) \/ DecideRenew(c)
    \/ CommitOpen(c) \/ CommitRenew(c) \/ RollBack(c)

Ending ==
    \/ \E i \in Ids : Release(i)
    \/ ExpireLapsedLeases
    \/ \E d \in Devices : RevokeDeviceLeases(d) \/ \E p \in Profiles : RevokeProfileLeases(d, p)

Next == Tick \/ Facts \/ Ending \/ \E c \in Calls : Request(c)

Spec == Init /\ [][Next]_vars

-----------------------------------------------------------------------------
(* RightEnds: a lease's time after the right to watch is lost (the last    *)
(* seat cancelled, the date over), no screen plays, on clocks read before  *)
(* a request waited, and whatever opened, resumed or renewed meanwhile.    *)
RightEnds ==
    (now >= lostAt + LeaseTtl /\ ~Entitled(over, seat)) => ScreensAt(now) = {}

\* The screens left by a step, at the instant its request read.
ScreensLeft(c) == {i \in ActiveIn(lease') : lease'[i].expiresAt > call[c].at}

Commits(c) == Deciding(c) /\ call'[c] = NULL /\ lease' # lease

(* OpeningFits: an opening leaves no more screens than the allowance it    *)
(* read, with another device opening the last one, the allowance under the *)
(* screens already open, or leases lapsed that no sweep has ended.         *)
OpeningFits ==
    [][\A c \in Calls : (Commits(c) /\ call[c].kind = "open")
            => Cardinality(ScreensLeft(c)) <= call[c].decision.allowed]_vars

(* NoNeedlessLoss: a screen is taken for the ceiling, by an opening or at  *)
(* its renewal, only when as many screens are left as were allowed.        *)
NoNeedlessLoss ==
    [][\A c \in Calls :
            (/\ Commits(c) /\ \E i \in ActiveLeases : lease'[i].state = "revoked"
             /\ call[c].decision.verdict \in {"full", "concurrent_limit_reached"})
            => Cardinality(ScreensLeft(c)) >= call[c].decision.allowed]_vars
=============================================================================
