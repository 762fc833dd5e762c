--------------------------- MODULE PlaybackProofs ---------------------------
(***************************************************************************)
(* Proofs about Playback, for any number of devices, profiles, seats,      *)
(* requests at once, sessions and instants, and any length of a lease.     *)
(***************************************************************************)
EXTENDS Playback, FiniteSetTheorems, TLAPS

-----------------------------------------------------------------------------
(***************************************************************************)
(* The inductive invariant.                                                *)
(***************************************************************************)

Verdict == {"no_right", "concurrent_limit_reached", "full"}

OpenDecision ==
    [verdict : Verdict, allowed : Nat, locked : SUBSET Ids, lapsed : SUBSET Ids,
     takenOver : SUBSET Ids]

RenewDecision ==
    [verdict : Verdict \cup {"not_found", "lapsed"}, allowed : Nat, locked : SUBSET Ids]

OpenCall ==
    [kind : {"open"}, device : Devices, profile : Profiles, at : Instant,
     decision : OpenDecision \cup {NULL}]

RenewCall ==
    [kind : {"renew"}, id : Ids, at : Instant, decision : RenewDecision \cup {NULL}]

\* Every row and request is of its type.
Typed ==
    /\ now \in Instant /\ lostAt \in Instant
    /\ lease \in [Ids -> ActiveRow \cup EndedRow \cup {NULL}]
    /\ call \in [Calls -> OpenCall \cup RenewCall \cup {NULL}]
    /\ seat \in [Seats -> {"active", "cancelled", NULL}]
    /\ over \in BOOLEAN

\* The advisory lock: no two requests decide at once.
OneDecides == \A c, d \in Calls : Deciding(c) /\ Deciding(d) => c = d

\* A device has one screen.
OneLeasePerDevice ==
    \A i, j \in ActiveLeases : lease[i].device = lease[j].device => i = j

\* The screens of other devices than the request's, at the instant it read.
OthersOf(request) == {i \in ScreensAt(request.at) : lease[i].device # request.device}

\* An opening's decision still says what the leases are: it holds each of them.
OpeningStands(request) ==
    LET decision == request.decision
        others == OthersOf(request)
    IN  /\ decision.locked = ActiveLeases
        /\ decision.lapsed = ActiveLeases \ ScreensAt(request.at)
        /\ decision.takenOver = leasesTakenOverBy(others, decision.allowed)
        /\ decision.verdict = "full" => Cardinality(others \ decision.takenOver) < decision.allowed

\* So does a renewal's.
RenewalStands(request) ==
    LET decision == request.decision
    IN  /\ decision.locked = ActiveLeases
        /\ decision.verdict # "not_found" => request.id \in ActiveLeases
        /\ decision.verdict = "concurrent_limit_reached" =>
              newerScreensThan(request.id, request.at) >= decision.allowed

Stands(request) ==
    /\ request.kind = "open" => OpeningStands(request)
    /\ request.kind = "renew" => RenewalStands(request)

DecisionsStand == \A c \in Calls : Deciding(c) => Stands(call[c])

\* No clock read is ahead of the machine's.
ClocksRead ==
    /\ lostAt <= now
    /\ \A c \in Calls : call[c] # NULL => call[c].at <= now
    /\ \A i \in ActiveLeases : lease[i].expiresAt <= now + LeaseTtl

\* Without the right to watch, what plays or was granted before its loss ends a lease's time
\* after it.
GrantedBeforeLoss ==
    ~Entitled(over, seat) =>
        /\ \A i \in ActiveLeases : lease[i].expiresAt <= lostAt + LeaseTtl
        /\ \A c \in Calls :
              Deciding(c) /\ call[c].decision.verdict = "full" => call[c].at <= lostAt

PlaybackInv ==
    /\ Typed
    /\ OneDecides
    /\ OneLeasePerDevice
    /\ DecisionsStand
    /\ ClocksRead
    /\ GrantedBeforeLoss

-----------------------------------------------------------------------------
(***************************************************************************)
(* Numbers and sets.                                                       *)
(***************************************************************************)

Row == ActiveRow \cup EndedRow \cup {NULL}

Pending == OpenCall \cup RenewCall \cup {NULL}

\* The bounds, and what the absent row is not.
LEMMA Bounds ==
    /\ MaxLeases \in Nat /\ LeaseTtl \in Nat /\ LeaseTtl > 0 /\ MaxTime \in Nat
    /\ NULL \notin ActiveRow /\ IsFiniteSet(Seats)
    /\ IsFiniteSet(Ids) /\ Ids \subseteq Nat
<1>1. MaxLeases \in Nat /\ LeaseTtl \in Nat \ {0} /\ MaxTime \in Nat /\ IsFiniteSet(Seats)
  BY PlaybackConstants
<1> QED
  BY <1>1, NullAssumption, FS_Interval DEF Ids

\* Sets of sessions are finite, and their sizes are naturals.
LEMMA IdsFinite ==
    ASSUME NEW S \in SUBSET Ids
    PROVE  IsFiniteSet(S) /\ Cardinality(S) \in Nat
BY Bounds, FS_Subset, FS_CardinalityType

\* A smaller set of sessions counts no more.
LEMMA IdsMonotone ==
    ASSUME NEW S \in SUBSET Ids, NEW T \in SUBSET S
    PROVE  Cardinality(T) <= Cardinality(S)
BY IdsFinite, FS_Subset

\* The places an opening leaves to other screens.
LEMMA PlacesBeside ==
    ASSUME NEW allowed \in Nat
    PROVE  Max({0, allowed - 1}) = IF allowed = 0 THEN 0 ELSE allowed - 1
<1> DEFINE m == IF allowed = 0 THEN 0 ELSE allowed - 1
           S == {0, allowed - 1}
<1>1. m \in S /\ \A y \in S : m >= y
  OBVIOUS
<1>2. \A x \in S : (\A y \in S : x >= y) => x = m
  OBVIOUS
<1>3. Max(S) \in S /\ \A y \in S : Max(S) >= y
  <2> HIDE DEF S
  <2> QED
    BY <1>1 DEF Max
<1> QED
  BY <1>2, <1>3

\* The right to watch is a seat that is active on a date that is not over.
LEMMA EntitledMeans ==
    ASSUME NEW isOver \in BOOLEAN, NEW seats
    PROVE  /\ screensAllowedBy(seats) \in Nat
           /\ Entitled(isOver, seats) <=> ~isOver /\ \E s \in Seats : seats[s] = "active"
<1> DEFINE A == {s \in Seats : seats[s] = "active"}
<1>1. IsFiniteSet(A) /\ Cardinality(A) \in Nat
  BY Bounds, FS_Subset, FS_CardinalityType
<1>2. Cardinality(A) = 0 <=> A = {}
  BY <1>1, FS_EmptySet
<1> QED
  BY <1>1, <1>2 DEF Entitled, screensAllowedBy

-----------------------------------------------------------------------------
(***************************************************************************)
(* Rows.                                                                   *)
(***************************************************************************)

\* A row is active exactly when it is of an active session's.
LEMMA ActiveMeans ==
    ASSUME NEW rows \in [Ids -> Row]
    PROVE  /\ ActiveIn(rows) \subseteq Ids
           /\ \A i \in Ids : i \in ActiveIn(rows) <=> rows[i] \in ActiveRow
<1> SUFFICES ASSUME NEW i \in Ids
             PROVE  i \in ActiveIn(rows) <=> rows[i] \in ActiveRow
  BY DEF ActiveIn
<1>1. rows[i] \in ActiveRow \/ rows[i] \in EndedRow \/ rows[i] = NULL
  BY DEF Row
<1>2. rows[i] \in ActiveRow => rows[i].state = "active" /\ rows[i] # NULL
  BY Bounds DEF ActiveRow
<1>3. rows[i] \in EndedRow => rows[i].state # "active"
  BY DEF EndedRow
<1> QED
  BY <1>1, <1>2, <1>3 DEF ActiveIn

\* Closing sessions takes them out of the active ones and leaves the others alone.
LEMMA ClosedRows ==
    ASSUME NEW rows \in [Ids -> Row], NEW ids, NEW state \in {"released", "expired", "revoked"}
    PROVE  /\ Closed(rows, ids, state) \in [Ids -> Row]
           /\ ActiveIn(Closed(rows, ids, state)) = ActiveIn(rows) \ ids
           /\ \A i \in Ids \ ids : Closed(rows, ids, state)[i] = rows[i]
           /\ \A i \in ids \cap ActiveIn(rows) : Closed(rows, ids, state)[i].state = state
           /\ ids \cap ActiveIn(rows) = {} => Closed(rows, ids, state) = rows
<1> DEFINE ended == [state |-> state]
           after == Closed(rows, ids, state)
<1>1. ended \in EndedRow /\ ended.state # "active"
  BY DEF EndedRow
<1>2. after = [i \in Ids |-> IF i \in ids \cap ActiveIn(rows) THEN ended ELSE rows[i]]
  BY DEF Closed
<1> HIDE DEF ended, after
<1>3. after \in [Ids -> Row]
  BY <1>1, <1>2 DEF Row
<1>4. ActiveIn(after) = ActiveIn(rows) \ ids
  BY <1>1, <1>2 DEF ActiveIn
<1>5. ids \cap ActiveIn(rows) = {} => after = rows
  BY <1>2
<1>6. \A i \in ids \cap ActiveIn(rows) : after[i] = ended /\ ended.state = state
  BY <1>2 DEF ActiveIn, ended
<1> QED
  BY <1>2, <1>3, <1>4, <1>5, <1>6 DEF after

\* A device's own screen is not taken over: what is, is among the others.
LEMMA TakenOverAmong ==
    ASSUME NEW others, NEW allowed
    PROVE  leasesTakenOverBy(others, allowed) \subseteq others
BY DEF leasesTakenOverBy

\* The order in which screens are taken over is a strict total one.
LEMMA RenewalsOrdered ==
    ASSUME lease \in [Ids -> Row], NEW i \in ActiveLeases, NEW j \in ActiveLeases
    PROVE  /\ ~LeastRecentlyRenewed(i, i)
           /\ i # j => LeastRecentlyRenewed(i, j) \/ LeastRecentlyRenewed(j, i)
           /\ \A l \in ActiveLeases :
                 LeastRecentlyRenewed(i, j) /\ LeastRecentlyRenewed(j, l)
                     => LeastRecentlyRenewed(i, l)
<1>1. ActiveLeases \subseteq Ids /\ \A l \in ActiveLeases : lease[l] \in ActiveRow
  BY ActiveMeans DEF ActiveLeases
<1>2. \A l \in ActiveLeases :
          l \in Nat /\ lease[l].lastRenewedAt \in Nat /\ lease[l].openedAt \in Nat
  BY <1>1, Bounds DEF ActiveRow, Instant
<1> QED
  BY <1>2 DEF LeastRecentlyRenewed

\* Each screen has more before it than any before it has.
LEMMA RanksApart ==
    ASSUME lease \in [Ids -> Row], NEW others \in SUBSET ActiveLeases,
           NEW i \in others, NEW j \in others, LeastRecentlyRenewed(j, i)
    PROVE  Cardinality({l \in others : LeastRecentlyRenewed(l, j)})
               < Cardinality({l \in others : LeastRecentlyRenewed(l, i)})
<1> DEFINE before(x) == {l \in others : LeastRecentlyRenewed(l, x)}
<1>1. others \in SUBSET Ids
  BY ActiveMeans DEF ActiveLeases
<1>2. j \notin before(j) /\ before(j) \cup {j} \subseteq before(i)
  BY RenewalsOrdered
<1>3. before(j) \in SUBSET Ids /\ before(i) \in SUBSET Ids
  BY <1>1
<1> HIDE DEF before
<1>4. /\ IsFiniteSet(before(j)) /\ Cardinality(before(j)) \in Nat
      /\ Cardinality(before(i)) \in Nat
  BY <1>3, IdsFinite
<1>5. Cardinality(before(j) \cup {j}) = Cardinality(before(j)) + 1
  BY <1>2, <1>4, FS_AddElement
<1>6. Cardinality(before(j) \cup {j}) <= Cardinality(before(i))
  BY <1>2, <1>3, IdsMonotone
<1>7. Cardinality(before(j)) < Cardinality(before(i))
  BY <1>4, <1>5, <1>6
<1> QED
  BY <1>7 DEF before

\* An opening that takes screens over leaves the places beside it taken.
LEMMA TakenOverFew ==
    ASSUME lease \in [Ids -> Row], NEW others \in SUBSET ActiveLeases, NEW allowed \in Nat,
           leasesTakenOverBy(others, allowed) # {}
    PROVE  Cardinality(others \ leasesTakenOverBy(others, allowed)) + 1 >= allowed
<1> DEFINE taken == leasesTakenOverBy(others, allowed)
           rank(x) == Cardinality({l \in others : LeastRecentlyRenewed(l, x)})
           beside == IF allowed = 0 THEN 0 ELSE allowed - 1
           few == Cardinality(others) - beside
<1>1. taken = {i \in others : rank(i) < few}
  BY PlacesBeside DEF leasesTakenOverBy
<1>2. others \in SUBSET Ids /\ \A i \in others : {l \in others : LeastRecentlyRenewed(l, i)} \in SUBSET Ids
  BY ActiveMeans DEF ActiveLeases
<1>3. /\ IsFiniteSet(others) /\ Cardinality(others) \in Nat
      /\ \A i \in others : rank(i) \in Nat
  BY <1>2, IdsFinite
<1>4. \A i, j \in others : i # j => rank(i) # rank(j)
  <2> SUFFICES ASSUME NEW i \in others, NEW j \in others, i # j
               PROVE  rank(i) # rank(j)
    OBVIOUS
  <2>1. LeastRecentlyRenewed(i, j) \/ LeastRecentlyRenewed(j, i)
    BY RenewalsOrdered
  <2>2. rank(i) < rank(j) \/ rank(j) < rank(i)
    BY <2>1, RanksApart
  <2> HIDE DEF rank
  <2> QED
    BY <2>2, <1>3
<1> HIDE DEF taken, rank, few
<1>5. few \in Nat /\ few > 0
  <2>1. PICK i \in taken : TRUE
    BY DEF taken
  <2>2. rank(i) \in Nat /\ rank(i) < few
    BY <2>1, <1>1, <1>3
  <2> QED
    BY <2>2, <1>3 DEF few
<1>6. IsFiniteSet(taken) /\ Cardinality(taken) <= few /\ Cardinality(taken) \in Nat
  <2> DEFINE f == [i \in taken |-> rank(i)]
  <2>1. f \in Injection(taken, 0 .. few - 1)
    <3>1. \A i \in taken : rank(i) \in 0 .. few - 1
      BY <1>1, <1>3, <1>5
    <3>2. \A i, j \in taken : f[i] = f[j] => i = j
      BY <1>1, <1>4
    <3> QED
      BY <3>1, <3>2 DEF Injection, IsInjective
  <2>2. IsFiniteSet(0 .. few - 1) /\ Cardinality(0 .. few - 1) = few
    BY <1>5, FS_Interval
  <2>3. IsFiniteSet(taken) /\ Cardinality(taken) <= Cardinality(0 .. few - 1)
    BY <2>1, <2>2, FS_Injection
  <2> QED
    BY <2>2, <2>3, FS_CardinalityType
<1>7. taken \subseteq others
  BY <1>1
<1>8. Cardinality(others \ taken) = Cardinality(others) - Cardinality(taken)
  <2>1. others \cap taken = taken
    BY <1>7
  <2> QED
    BY ZenonT(40), <2>1, <1>3, <1>6, FS_Difference
<1>9. Cardinality(others \ taken) + 1 >= allowed
  BY <1>3, <1>5, <1>6, <1>8 DEF few
<1> QED
  BY <1>9 DEF taken

-----------------------------------------------------------------------------
(***************************************************************************)
(* What moves, and what it leaves.                                         *)
(***************************************************************************)

\* A decision is about the leases alone.
LEMMA StandsStill ==
    ASSUME lease' = lease, NEW request
    PROVE  Stands(request)' <=> Stands(request)
<1>1. ActiveLeases' = ActiveLeases
  BY DEF ActiveLeases
<1>2. \A at : ScreensAt(at)' = ScreensAt(at)
  BY <1>1 DEF ScreensAt, holdsAScreen
<1>3. \A others, allowed : leasesTakenOverBy(others, allowed)' = leasesTakenOverBy(others, allowed)
  BY DEF leasesTakenOverBy, LeastRecentlyRenewed
<1>4. OthersOf(request)' = OthersOf(request)
  BY <1>2 DEF OthersOf
<1>5. \A i, at : newerScreensThan(i, at)' = newerScreensThan(i, at)
  BY <1>2 DEF newerScreensThan, openedLater
<1>6. OpeningStands(request)' <=> OpeningStands(request)
  BY <1>1, <1>2, <1>3, <1>4 DEF OpeningStands
<1>7. RenewalStands(request)' <=> RenewalStands(request)
  BY <1>1, <1>5 DEF RenewalStands
<1> QED
  BY <1>6, <1>7 DEF Stands

\* A request moves and no lease: it decides alone, on what the leases are.
LEMMA RequestMoves ==
    ASSUME PlaybackInv, NEW c \in Calls, NEW request \in Pending,
           call' = [call EXCEPT ![c] = request],
           UNCHANGED <<now, lease, facts>>,
           request # NULL => request.at <= now,
           request # NULL /\ request.decision # NULL =>
               /\ lockScreens(c) /\ Stands(request)
               /\ request.decision.verdict = "full" => Entitled(over, seat)
    PROVE  PlaybackInv'
<1>1. UNCHANGED <<now, lease, seat, over, lostAt>>
  BY DEF facts
<1>2. /\ call'[c] = request /\ \A d \in Calls \ {c} : call'[d] = call[d]
      /\ call' \in [Calls -> Pending]
  BY DEF PlaybackInv, Typed, Pending
<1>3. Typed'
  BY <1>1, <1>2 DEF PlaybackInv, Typed, Pending
<1>4. /\ \A d \in Calls \ {c} : Deciding(d)' <=> Deciding(d)
      /\ Deciding(c)' <=> request # NULL /\ request.decision # NULL
  BY <1>2 DEF Deciding
<1>5. OneDecides'
  BY <1>4 DEF PlaybackInv, OneDecides, lockScreens
<1>6. ActiveLeases' = ActiveLeases
  BY <1>1 DEF ActiveLeases
<1>7. OneLeasePerDevice'
  BY <1>1, <1>6 DEF PlaybackInv, OneLeasePerDevice
<1>8. DecisionsStand'
  <2> SUFFICES ASSUME NEW d \in Calls, Deciding(d)'
               PROVE  Stands(call[d])'
    BY DEF DecisionsStand
  <2>1. Stands(call'[d])
    <3>1. CASE d = c
      BY <3>1, <1>2, <1>4
    <3>2. CASE d # c
      BY <3>2, <1>2, <1>4 DEF PlaybackInv, DecisionsStand
    <3> QED
      BY <3>1, <3>2
  <2> QED
    BY <2>1, <1>1, StandsStill
<1>9. ClocksRead'
  BY <1>1, <1>2, <1>6 DEF PlaybackInv, ClocksRead
<1>10. GrantedBeforeLoss'
  <2>1. Entitled(over, seat)' <=> Entitled(over, seat)
    BY <1>1 DEF Entitled, screensAllowedBy
  <2> QED
    BY <1>1, <1>2, <1>4, <1>6, <2>1 DEF PlaybackInv, GrantedBeforeLoss
<1> QED
  BY <1>3, <1>5, <1>7, <1>8, <1>9, <1>10 DEF PlaybackInv

\* A request that decided ends, and its leases with it: nobody decides any more.
LEMMA RequestEnds ==
    ASSUME PlaybackInv, NEW c \in Calls, Deciding(c),
           call' = [call EXCEPT ![c] = NULL],
           UNCHANGED <<now, facts>>,
           lease' \in [Ids -> Row],
           OneLeasePerDevice',
           \A i \in ActiveLeases' :
               /\ lease'[i].expiresAt <= now + LeaseTtl
               /\ ~Entitled(over, seat) => lease'[i].expiresAt <= lostAt + LeaseTtl
    PROVE  PlaybackInv'
<1>1. UNCHANGED <<now, seat, over, lostAt>>
  BY DEF facts
<1>2. /\ call'[c] = NULL /\ \A d \in Calls \ {c} : call'[d] = call[d]
      /\ call' \in [Calls -> Pending]
  BY DEF PlaybackInv, Typed, Pending
<1>3. Typed'
  BY <1>1, <1>2 DEF PlaybackInv, Typed, Pending, Row
<1>4. \A d \in Calls : ~Deciding(d)'
  BY <1>2 DEF PlaybackInv, OneDecides, Deciding
<1>5. ClocksRead'
  BY <1>1, <1>2 DEF PlaybackInv, ClocksRead
<1>6. GrantedBeforeLoss'
  <2>1. Entitled(over, seat)' <=> Entitled(over, seat)
    BY <1>1 DEF Entitled, screensAllowedBy
  <2> QED
    BY <1>1, <1>4, <2>1 DEF GrantedBeforeLoss
<1> QED
  BY <1>3, <1>4, <1>5, <1>6 DEF PlaybackInv, OneDecides, DecisionsStand

\* Leases end without the advisory lock only while no request holds them.
LEMMA LeasesEnd ==
    ASSUME PlaybackInv, NEW ids \in SUBSET ActiveLeases, ids \cap LockedRows = {},
           NEW state \in {"released", "expired", "revoked"},
           lease' = Closed(lease, ids, state),
           UNCHANGED <<now, call, facts>>
    PROVE  PlaybackInv'
<1>1. UNCHANGED <<now, call, seat, over, lostAt>>
  BY DEF facts
<1>2. lease \in [Ids -> Row]
  BY DEF PlaybackInv, Typed, Row
<1>3. /\ lease' \in [Ids -> Row] /\ ActiveLeases' \subseteq ActiveLeases
      /\ \A i \in ActiveLeases' : lease'[i] = lease[i]
  BY <1>2, ClosedRows, ActiveMeans DEF ActiveLeases
<1>4. Typed'
  BY <1>1, <1>3 DEF PlaybackInv, Typed, Row
<1>5. \A c \in Calls : Deciding(c)' <=> Deciding(c)
  BY <1>1 DEF Deciding
<1>6. DecisionsStand'
  <2> SUFFICES ASSUME NEW c \in Calls, Deciding(c)
               PROVE  Stands(call[c])'
    BY <1>5 DEF DecisionsStand
  <2>1. call[c].decision.locked = ActiveLeases
    <3>1. Stands(call[c])
      BY DEF PlaybackInv, DecisionsStand
    <3>2. call[c].kind = "open" \/ call[c].kind = "renew"
      BY DEF PlaybackInv, Typed, Deciding, OpenCall, RenewCall
    <3> QED
      BY <3>1, <3>2 DEF Stands, OpeningStands, RenewalStands
  <2>2. ActiveLeases \subseteq LockedRows
    BY <2>1 DEF LockedRows
  <2>3. ids \cap ActiveIn(lease) = {}
    BY <2>2 DEF ActiveLeases
  <2>4. lease' = lease
    BY <1>2, <2>3, ClosedRows
  <2> QED
    BY <1>1, <2>4, StandsStill DEF PlaybackInv, DecisionsStand
<1>7. OneLeasePerDevice' /\ ClocksRead'
  BY <1>1, <1>3 DEF PlaybackInv, OneLeasePerDevice, ClocksRead
<1>8. GrantedBeforeLoss'
  <2>1. Entitled(over, seat)' <=> Entitled(over, seat)
    BY <1>1 DEF Entitled, screensAllowedBy
  <2> QED
    BY <1>1, <1>3, <1>5, <2>1 DEF PlaybackInv, GrantedBeforeLoss
<1> QED
  BY <1>1, <1>4, <1>5, <1>6, <1>7, <1>8 DEF PlaybackInv, OneDecides

-----------------------------------------------------------------------------
(***************************************************************************)
(* Every step keeps the invariant.                                         *)
(***************************************************************************)

\* Nothing plays at first.
LEMMA InitInv == Init => PlaybackInv
<1> SUFFICES ASSUME Init PROVE PlaybackInv
  OBVIOUS
<1>1. Typed
  <2>1. 0 \in Instant
    BY Bounds DEF Instant
  <2> QED
    BY <2>1 DEF Init, Typed
<1>2. ActiveLeases = {} /\ \A c \in Calls : ~Deciding(c)
  BY DEF Init, ActiveLeases, ActiveIn, Deciding
<1>3. ClocksRead
  BY <1>2 DEF Init, ClocksRead
<1> QED
  BY <1>1, <1>2, <1>3
  DEF PlaybackInv, OneDecides, OneLeasePerDevice, DecisionsStand, GrantedBeforeLoss

\* A request is made with the clock it reads.
LEMMA CallInv ==
    ASSUME PlaybackInv, NEW c \in Calls,
           \/ \E d \in Devices, p \in Profiles : CallOpen(c, d, p)
           \/ \E i \in Ids : CallRenew(c, i)
    PROVE  PlaybackInv'
<1>1. now \in Instant
  BY DEF PlaybackInv, Typed
<1>2. ASSUME NEW d \in Devices, NEW p \in Profiles, CallOpen(c, d, p)
      PROVE  PlaybackInv'
  <2> DEFINE request == [kind |-> "open", device |-> d, profile |-> p, at |-> now,
                         decision |-> NULL]
  <2>1. request \in Pending /\ request.at = now /\ request.decision = NULL
    BY <1>1 DEF Pending, OpenCall
  <2>2. call' = [call EXCEPT ![c] = request] /\ UNCHANGED <<now, lease, facts>>
    BY <1>2 DEF CallOpen
  <2> HIDE DEF request
  <2>3. request.at <= now
    BY <1>1, <2>1, Bounds DEF Instant
  <2> QED
    BY <2>1, <2>2, <2>3, RequestMoves
<1>3. ASSUME NEW i \in Ids, CallRenew(c, i)
      PROVE  PlaybackInv'
  <2> DEFINE request == [kind |-> "renew", id |-> i, at |-> now, decision |-> NULL]
  <2>1. request \in Pending /\ request.at = now /\ request.decision = NULL
    BY <1>1 DEF Pending, RenewCall
  <2>2. call' = [call EXCEPT ![c] = request] /\ UNCHANGED <<now, lease, facts>>
    BY <1>3 DEF CallRenew
  <2> HIDE DEF request
  <2>3. request.at <= now
    BY <1>1, <2>1, Bounds DEF Instant
  <2> QED
    BY <2>1, <2>2, <2>3, RequestMoves
<1> QED
  BY <1>2, <1>3

\* A full verdict is of an account that has a right and a screen left.
LEMMA FullMeans ==
    ASSUME NEW open \in Nat, NEW allowed, allowed = screensAllowedBy(seat)
    PROVE  /\ allowed \in Nat /\ verdictOf(open, allowed) \in Verdict
           /\ verdictOf(open, allowed) = "full" => Entitled(over, seat) /\ open < allowed
           /\ verdictOf(open, allowed) = "concurrent_limit_reached" => open >= allowed
<1>1. allowed \in Nat
  BY Bounds, FS_Subset, FS_CardinalityType DEF screensAllowedBy
<1>2. allowed > 0 /\ ~over => Entitled(over, seat)
  BY DEF Entitled
<1> QED
  BY <1>1, <1>2 DEF verdictOf, Verdict

\* An opening decides on the leases it holds from then on.
LEMMA DecideOpenInv ==
    ASSUME PlaybackInv, NEW c \in Calls, DecideOpen(c)
    PROVE  PlaybackInv'
<1> DEFINE screens == ScreensAt(call[c].at)
           others == {i \in screens : lease[i].device # call[c].device}
           allowed == screensAllowedBy(seat)
           takenOver == leasesTakenOverBy(others, allowed)
           verdict == verdictOf(Cardinality(others \ takenOver), allowed)
           decision == [verdict |-> verdict, allowed |-> allowed, locked |-> ActiveLeases,
                        lapsed |-> ActiveLeases \ screens, takenOver |-> takenOver]
           request == [call[c] EXCEPT !.decision = decision]
<1>1. /\ call[c] # NULL /\ call[c].kind = "open" /\ lockScreens(c)
      /\ call' = [call EXCEPT ![c].decision = decision] /\ UNCHANGED <<now, lease, facts>>
  BY DEF DecideOpen, activeOnDate, Decided
<1>2. call[c] \in OpenCall /\ call[c].at <= now
  BY <1>1 DEF PlaybackInv, Typed, RenewCall, ClocksRead
<1>3. ActiveLeases \in SUBSET Ids /\ others \in SUBSET ActiveLeases /\ takenOver \subseteq others
  BY TakenOverAmong DEF ActiveLeases, ActiveIn, ScreensAt
<1>4. Cardinality(others \ takenOver) \in Nat
  <2>1. others \ takenOver \in SUBSET Ids
    BY <1>3
  <2> QED
    BY <2>1, IdsFinite
<1>5. /\ allowed \in Nat /\ verdict \in Verdict
      /\ verdict = "full" => Entitled(over, seat) /\ Cardinality(others \ takenOver) < allowed
  BY <1>4, FullMeans
<1>6. others = OthersOf(call[c])
  BY DEF OthersOf
<1>7. /\ decision.verdict = verdict /\ decision.allowed = allowed
      /\ decision.locked = ActiveLeases /\ decision.lapsed = ActiveLeases \ screens
      /\ decision.takenOver = takenOver
  OBVIOUS
<1>8. decision \in OpenDecision
  BY <1>3, <1>5 DEF OpenDecision
<1> HIDE DEF decision, takenOver, verdict, allowed, others, screens
<1>9. /\ request \in OpenCall /\ request.decision = decision /\ request.at = call[c].at
      /\ request.device = call[c].device /\ request.kind = "open"
  BY <1>2, <1>8 DEF OpenCall
<1>10. call' = [call EXCEPT ![c] = request]
  BY <1>1
<1> HIDE DEF request
<1>11. OthersOf(request) = others
  BY <1>6, <1>9 DEF OthersOf
<1>12. OpeningStands(request)
  BY <1>5, <1>7, <1>9, <1>11 DEF OpeningStands, takenOver, screens
<1>13. Stands(request)
  BY <1>9, <1>12 DEF Stands
<1> QED
  BY <1>1, <1>2, <1>5, <1>7, <1>9, <1>10, <1>13, RequestMoves DEF Pending

\* So does a renewal, whose screen may have ended before.
LEMMA DecideRenewInv ==
    ASSUME PlaybackInv, NEW c \in Calls, DecideRenew(c)
    PROVE  PlaybackInv'
<1> DEFINE id == call[c].id
           newer == newerScreensThan(id, call[c].at)
           allowed == screensAllowedBy(seat)
           verdict == IF id \notin ActiveLeases THEN "not_found"
                      ELSE IF ~holdsAScreen(id, call[c].at) THEN "lapsed"
                      ELSE verdictOf(newer, allowed)
           decision == [verdict |-> verdict, allowed |-> allowed, locked |-> ActiveLeases]
           request == [call[c] EXCEPT !.decision = decision]
<1>1. /\ call[c] # NULL /\ call[c].kind = "renew" /\ lockScreens(c)
      /\ call' = [call EXCEPT ![c].decision = decision] /\ UNCHANGED <<now, lease, facts>>
  BY DEF DecideRenew, activeOnDate, Decided
<1>2. call[c] \in RenewCall /\ call[c].at <= now
  BY <1>1 DEF PlaybackInv, Typed, OpenCall, ClocksRead
<1>3. ActiveLeases \in SUBSET Ids
  BY DEF ActiveLeases, ActiveIn
<1>4. newer \in Nat
  <2>1. {j \in ScreensAt(call[c].at) \ {id} : openedLater(j, id)} \in SUBSET Ids
    BY <1>3 DEF ScreensAt
  <2> QED
    BY <2>1, IdsFinite DEF newerScreensThan
<1>5. /\ allowed \in Nat /\ verdictOf(newer, allowed) \in Verdict
      /\ verdictOf(newer, allowed) = "full" => Entitled(over, seat)
      /\ verdictOf(newer, allowed) = "concurrent_limit_reached" => newer >= allowed
  BY <1>4, FullMeans
<1>6. /\ verdict \in Verdict \cup {"not_found", "lapsed"}
      /\ verdict = "full" => Entitled(over, seat)
      /\ verdict # "not_found" => id \in ActiveLeases
      /\ verdict = "concurrent_limit_reached" => newer >= allowed
  BY <1>5
<1>7. /\ decision.verdict = verdict /\ decision.allowed = allowed
      /\ decision.locked = ActiveLeases
  OBVIOUS
<1>8. decision \in RenewDecision
  BY <1>3, <1>5, <1>6 DEF RenewDecision
<1> HIDE DEF decision, verdict, allowed, newer
<1>9. /\ request \in RenewCall /\ request.decision = decision /\ request.at = call[c].at
      /\ request.id = id /\ request.kind = "renew"
  BY <1>2, <1>8 DEF RenewCall
<1>10. call' = [call EXCEPT ![c] = request]
  BY <1>1
<1> HIDE DEF request
<1>11. RenewalStands(request)
  BY <1>6, <1>7, <1>9 DEF RenewalStands, newer
<1>12. Stands(request)
  BY <1>9, <1>11 DEF Stands
<1> QED
  BY <1>1, <1>2, <1>6, <1>7, <1>9, <1>10, <1>12, RequestMoves DEF Pending

\* An opening is committed: what it does to the leases, of which a renewal knows nothing.
LEMMA OpeningCommits ==
    ASSUME PlaybackInv, NEW c \in Calls, CommitOpen(c), call[c].decision.verdict = "full"
    PROVE  LET decision == call[c].decision
               others == OthersOf(call[c])
               at == call[c].at
           IN  \E i \in Ids :
                 /\ lease' \in [Ids -> Row]
                 /\ i \notin others
                 /\ decision.takenOver = leasesTakenOverBy(others, decision.allowed)
                 /\ Cardinality(others \ decision.takenOver) < decision.allowed
                 /\ ActiveLeases' = (others \ decision.takenOver) \cup {i}
                 /\ \A j \in others \ decision.takenOver : lease'[j] = lease[j]
                 /\ lease'[i] \in ActiveRow /\ lease'[i].device = call[c].device
                 /\ lease'[i].expiresAt = at + LeaseTtl
                 /\ \A j \in ActiveLeases : lease'[j].state = "revoked" => j \in decision.takenOver
<1> DEFINE at == call[c].at
           decision == call[c].decision
           others == OthersOf(call[c])
           lapsed == decision.lapsed
           takenOver == decision.takenOver
           first == Closed(lease, lapsed, "expired")
           ended == Closed(first, takenOver, "revoked")
           own == {i \in ActiveIn(ended) : ended[i].device = call[c].device}
           opened == [device |-> call[c].device, profile |-> call[c].profile, openedAt |-> at,
                      lastRenewedAt |-> at, expiresAt |-> at + LeaseTtl, state |-> "active"]
<1>1. /\ Deciding(c) /\ call[c].kind = "open"
      /\ \E i \in IF own # {} THEN own ELSE {j \in Ids : lease[j] = NULL} :
             lease' = [ended EXCEPT ![i] = opened]
  BY Zenon DEF CommitOpen
<1>2. /\ call[c] \in OpenCall /\ OpeningStands(call[c])
      /\ lease \in [Ids -> Row] /\ OneLeasePerDevice
  BY <1>1 DEF PlaybackInv, Typed, Deciding, RenewCall, DecisionsStand, Stands, Row
<1>3. /\ lapsed = ActiveLeases \ ScreensAt(at)
      /\ takenOver = leasesTakenOverBy(others, decision.allowed)
      /\ Cardinality(others \ takenOver) < decision.allowed
      /\ takenOver \subseteq others /\ others \subseteq ScreensAt(at)
      /\ ScreensAt(at) \subseteq ActiveLeases
  BY <1>2, TakenOverAmong DEF OpeningStands, OthersOf, ScreensAt
<1>4. \A i \in ScreensAt(at) \ others : lease[i].device = call[c].device
  BY DEF OthersOf
<1>5. opened \in ActiveRow /\ opened.state = "active" /\ opened.device = call[c].device
      /\ opened.expiresAt = at + LeaseTtl
  BY <1>2, Bounds DEF OpenCall, ActiveRow, Instant
<1>6. opened \in Row /\ opened # NULL
  BY <1>5, Bounds DEF Row
<1> HIDE DEF opened, at, decision, lapsed, takenOver, others
<1>7. /\ first \in [Ids -> Row] /\ ActiveIn(first) = ActiveLeases \ lapsed
      /\ \A i \in Ids \ lapsed : first[i] = lease[i]
  BY <1>2, ClosedRows DEF ActiveLeases
<1> HIDE DEF first
<1>8. /\ ended \in [Ids -> Row] /\ ActiveIn(ended) = (ActiveLeases \ lapsed) \ takenOver
      /\ \A i \in Ids \ takenOver : ended[i] = first[i]
  BY <1>7, ClosedRows
<1> HIDE DEF ended
<1>9. ActiveIn(ended) = ScreensAt(at) \ takenOver /\ ActiveLeases \subseteq Ids
  BY <1>3, <1>8, ActiveMeans, <1>2 DEF ActiveLeases
<1>10. \A i \in ActiveIn(ended) : ended[i] = lease[i]
  BY <1>3, <1>7, <1>8, <1>9
<1>11. \A i \in others : lease[i].device # call[c].device
  BY DEF others, OthersOf
<1>12. own = ScreensAt(at) \ others
  BY <1>3, <1>4, <1>9, <1>10, <1>11
<1>13. PICK i \in Ids :
          /\ own # {} => i \in own
          /\ own = {} => lease[i] = NULL
          /\ lease' = [ended EXCEPT ![i] = opened]
  BY <1>1, <1>9, <1>12, <1>3
<1>14. \A j \in own : j = i
  BY <1>13, <1>12, <1>4, <1>2, <1>3 DEF OneLeasePerDevice
<1>15. i \notin others
  <2>1. CASE own # {}
    BY <2>1, <1>13, <1>12
  <2>2. CASE own = {}
    BY <2>2, <1>13, <1>3 DEF ActiveLeases, ActiveIn
  <2> QED
    BY <2>1, <2>2
<1>16. /\ lease' \in [Ids -> Row] /\ lease'[i] = opened
       /\ \A j \in Ids \ {i} : lease'[j] = ended[j]
  BY <1>6, <1>8, <1>13
<1>17. ActiveLeases' = ActiveIn(ended) \cup {i}
  <2>1. ActiveLeases' = ActiveIn(lease')
    BY DEF ActiveLeases
  <2>2. i \in ActiveIn(lease')
    BY <1>5, <1>6, <1>16 DEF ActiveIn
  <2>3. \A j \in Ids \ {i} : j \in ActiveIn(lease') <=> j \in ActiveIn(ended)
    BY <1>16 DEF ActiveIn
  <2>4. ActiveIn(lease') \subseteq Ids /\ ActiveIn(ended) \subseteq Ids
    BY DEF ActiveIn
  <2> QED
    BY <2>1, <2>2, <2>3, <2>4
<1>18. ActiveLeases' = (others \ takenOver) \cup {i}
  BY <1>3, <1>9, <1>12, <1>14, <1>17
<1>19. \A j \in others \ takenOver : lease'[j] = lease[j]
  BY <1>3, <1>9, <1>10, <1>15, <1>16
<1>20. \A j \in ActiveLeases : lease'[j].state = "revoked" => j \in takenOver
  <2> SUFFICES ASSUME NEW j \in ActiveLeases, j \notin takenOver
               PROVE  lease'[j].state # "revoked"
    OBVIOUS
  <2>1. j \in Ids /\ lease[j].state = "active"
    BY <1>9 DEF ActiveLeases, ActiveIn
  <2>2. CASE j = i
    BY <2>2, <1>5, <1>16
  <2>3. CASE j # i
    <3>1. lease'[j] = first[j]
      BY <2>1, <2>3, <1>8, <1>16
    <3>2. first[j].state = "expired" \/ first[j] = lease[j]
      <4>1. j \in lapsed => first[j].state = "expired"
        BY <1>2, ClosedRows DEF first, ActiveLeases
      <4> QED
        BY <4>1, <2>1, <1>7
    <3> QED
      BY <2>1, <3>1, <3>2
  <2> QED
    BY <2>2, <2>3
<1> QED
  BY <1>3, <1>5, <1>15, <1>16, <1>18, <1>19, <1>20
  DEF at, decision, takenOver, others

\* An opening that commits keeps the invariant.
LEMMA CommitOpenInv ==
    ASSUME PlaybackInv, NEW c \in Calls, CommitOpen(c)
    PROVE  PlaybackInv'
<1>1. /\ Deciding(c) /\ call' = [call EXCEPT ![c] = NULL] /\ UNCHANGED <<now, facts>>
      /\ call[c].decision.verdict # "full" => lease' = lease
  BY Zenon DEF CommitOpen
<1>2. lease \in [Ids -> Row]
  BY DEF PlaybackInv, Typed, Row
<1>3. CASE call[c].decision.verdict # "full"
  <2>1. lease' = lease /\ ActiveLeases' = ActiveLeases
    BY <1>1, <1>3 DEF ActiveLeases
  <2>2. OneLeasePerDevice'
    BY <2>1 DEF PlaybackInv, OneLeasePerDevice
  <2>3. \A i \in ActiveLeases' :
            /\ lease'[i].expiresAt <= now + LeaseTtl
            /\ ~Entitled(over, seat) => lease'[i].expiresAt <= lostAt + LeaseTtl
    BY <2>1 DEF PlaybackInv, ClocksRead, GrantedBeforeLoss
  <2> QED
    BY <1>1, <1>2, <2>1, <2>2, <2>3, RequestEnds
<1>4. CASE call[c].decision.verdict = "full"
  <2> DEFINE others == OthersOf(call[c])
             takenOver == call[c].decision.takenOver
             at == call[c].at
  <2>1. PICK i \in Ids :
            /\ lease' \in [Ids -> Row]
            /\ i \notin others
            /\ ActiveLeases' = (others \ takenOver) \cup {i}
            /\ \A j \in others \ takenOver : lease'[j] = lease[j]
            /\ lease'[i].device = call[c].device
            /\ lease'[i].expiresAt = at + LeaseTtl
    BY <1>4, OpeningCommits
  <2>2. \A j \in others : j \in ActiveLeases /\ lease[j].device # call[c].device
    BY DEF OthersOf, ScreensAt
  <2>3. at \in Int /\ at <= now /\ (~Entitled(over, seat) => at <= lostAt)
    BY <1>1, <1>4, Bounds
    DEF PlaybackInv, Typed, ClocksRead, GrantedBeforeLoss, Deciding, OpenCall, RenewCall, Instant
  <2>4. now \in Int /\ lostAt \in Int
    BY Bounds DEF PlaybackInv, Typed, Instant
  <2> HIDE DEF others, takenOver, at
  <2>5. OneLeasePerDevice'
    BY <2>1, <2>2 DEF PlaybackInv, OneLeasePerDevice
  <2>6. \A j \in ActiveLeases' :
            /\ lease'[j].expiresAt <= now + LeaseTtl
            /\ ~Entitled(over, seat) => lease'[j].expiresAt <= lostAt + LeaseTtl
    BY <2>1, <2>2, <2>3, <2>4, Bounds DEF PlaybackInv, ClocksRead, GrantedBeforeLoss
  <2> QED
    BY <1>1, <2>1, <2>5, <2>6, RequestEnds
<1> QED
  BY <1>3, <1>4

\* A renewal is committed: it moves its own lease on, ends it, or finds none.
LEMMA RenewalCommits ==
    ASSUME PlaybackInv, NEW c \in Calls, CommitRenew(c)
    PROVE  LET id == call[c].id
               at == call[c].at
               verdict == call[c].decision.verdict
           IN  /\ RenewalStands(call[c]) /\ call[c] \in RenewCall
               /\ lease' \in [Ids -> Row]
               /\ verdict = "not_found" => lease' = lease
               /\ verdict = "full" =>
                     /\ ActiveLeases' = ActiveLeases
                     /\ lease'[id].device = lease[id].device
                     /\ lease'[id].expiresAt = at + LeaseTtl
                     /\ \A i \in Ids \ {id} : lease'[i] = lease[i]
               /\ verdict \notin {"not_found", "full"} =>
                     /\ ActiveLeases' = ActiveLeases \ {id}
                     /\ \A i \in Ids \ {id} : lease'[i] = lease[i]
               /\ verdict = "lapsed" => lease' = Closed(lease, {id}, "expired")
<1> DEFINE id == call[c].id
           at == call[c].at
           verdict == call[c].decision.verdict
           renewed == [lease[id] EXCEPT !.lastRenewedAt = at, !.expiresAt = at + LeaseTtl]
<1>1. /\ Deciding(c) /\ call[c].kind = "renew"
      /\ verdict = "not_found" => lease' = lease
      /\ verdict = "lapsed" => lease' = Closed(lease, {id}, "expired")
      /\ verdict = "full" => lease' = [lease EXCEPT ![id].lastRenewedAt = at,
                                                    ![id].expiresAt = at + LeaseTtl]
      /\ verdict \notin {"not_found", "lapsed", "full"} => lease' = Closed(lease, {id}, "revoked")
  BY DEF CommitRenew
<1>2. /\ call[c] \in RenewCall /\ RenewalStands(call[c]) /\ lease \in [Ids -> Row]
  BY <1>1 DEF PlaybackInv, Typed, Deciding, OpenCall, DecisionsStand, Stands, Row
<1>3. at \in Instant /\ id \in Ids /\ at + LeaseTtl \in Int
  BY <1>2, Bounds DEF RenewCall, Instant
<1>4. CASE verdict = "full"
  <2>1. id \in ActiveLeases /\ lease[id] \in ActiveRow
    BY <1>2, <1>3, <1>4, ActiveMeans DEF RenewalStands, ActiveLeases
  <2>2. /\ renewed \in ActiveRow /\ renewed.device = lease[id].device
        /\ renewed.expiresAt = at + LeaseTtl
    BY <1>3, <2>1 DEF ActiveRow
  <2>3. lease' = [lease EXCEPT ![id] = renewed]
    BY <1>1, <1>2, <1>3, <1>4
  <2> HIDE DEF renewed
  <2>4. /\ lease' \in [Ids -> Row] /\ lease'[id] = renewed
        /\ \A i \in Ids \ {id} : lease'[i] = lease[i]
    BY <1>2, <1>3, <2>2, <2>3 DEF Row
  <2>5. ActiveLeases' = ActiveLeases
    <3>1. /\ ActiveIn(lease') \subseteq Ids /\ ActiveIn(lease) \subseteq Ids
          /\ \A i \in Ids : /\ i \in ActiveIn(lease') <=> lease'[i] \in ActiveRow
                            /\ i \in ActiveIn(lease) <=> lease[i] \in ActiveRow
      BY <1>2, <2>4, ActiveMeans
    <3>2. ActiveIn(lease') = ActiveIn(lease)
      BY <2>1, <2>2, <2>4, <3>1
    <3> QED
      BY <3>2 DEF ActiveLeases
  <2> QED
    BY <1>2, <1>4, <2>2, <2>4, <2>5
<1>5. CASE verdict = "not_found"
  BY <1>1, <1>2, <1>5
<1>6. CASE verdict \notin {"not_found", "full"}
  <2>1. lease' = Closed(lease, {id}, "expired") \/ lease' = Closed(lease, {id}, "revoked")
    BY <1>1, <1>6
  <2>2. /\ lease' \in [Ids -> Row] /\ ActiveIn(lease') = ActiveIn(lease) \ {id}
        /\ \A i \in Ids \ {id} : lease'[i] = lease[i]
    BY <1>2, <2>1, ClosedRows
  <2> QED
    BY <1>1, <1>2, <1>6, <2>2 DEF ActiveLeases
<1> QED
  BY <1>4, <1>5, <1>6

\* A renewal that commits keeps the invariant.
LEMMA CommitRenewInv ==
    ASSUME PlaybackInv, NEW c \in Calls, CommitRenew(c)
    PROVE  PlaybackInv'
<1> DEFINE id == call[c].id
           at == call[c].at
           verdict == call[c].decision.verdict
<1>1. /\ Deciding(c) /\ call' = [call EXCEPT ![c] = NULL] /\ UNCHANGED <<now, facts>>
  BY DEF CommitRenew
<1>2. /\ call[c] \in RenewCall /\ lease' \in [Ids -> Row]
      /\ verdict = "not_found" => lease' = lease
      /\ verdict = "full" =>
            /\ ActiveLeases' = ActiveLeases
            /\ lease'[id].device = lease[id].device
            /\ lease'[id].expiresAt = at + LeaseTtl
            /\ \A i \in Ids \ {id} : lease'[i] = lease[i]
      /\ verdict \notin {"not_found", "full"} =>
            /\ ActiveLeases' = ActiveLeases \ {id}
            /\ \A i \in Ids \ {id} : lease'[i] = lease[i]
  BY RenewalCommits
<1>3. at \in Int /\ at <= now /\ (~Entitled(over, seat) /\ verdict = "full" => at <= lostAt)
  BY <1>1, <1>2, Bounds
  DEF PlaybackInv, ClocksRead, GrantedBeforeLoss, Deciding, RenewCall, Instant
<1>4. now \in Int /\ lostAt \in Int
  BY Bounds DEF PlaybackInv, Typed, Instant
<1>5. verdict = "not_found" => ActiveLeases' = ActiveLeases
  BY <1>2 DEF ActiveLeases
<1>6. ActiveLeases' \subseteq ActiveLeases /\ ActiveLeases \subseteq Ids
  BY <1>2, <1>5 DEF ActiveLeases, ActiveIn
<1> HIDE DEF id, at, verdict
<1>7. \A i \in ActiveLeases' :
          /\ lease'[i].device = lease[i].device
          /\ \/ lease'[i] = lease[i]
             \/ verdict = "full" /\ lease'[i].expiresAt = at + LeaseTtl
  BY <1>2, <1>6
<1>8. OneLeasePerDevice'
  BY <1>6, <1>7 DEF PlaybackInv, OneLeasePerDevice
<1>9. \A i \in ActiveLeases' :
          /\ lease'[i].expiresAt <= now + LeaseTtl
          /\ ~Entitled(over, seat) => lease'[i].expiresAt <= lostAt + LeaseTtl
  BY <1>3, <1>4, <1>6, <1>7, Bounds DEF PlaybackInv, ClocksRead, GrantedBeforeLoss
<1> QED
  BY <1>1, <1>2, <1>8, <1>9, RequestEnds

\* A call rolled back keeps the invariant.
LEMMA RollBackInv ==
    ASSUME PlaybackInv, NEW c \in Calls, RollBack(c)
    PROVE  PlaybackInv'
BY RequestMoves DEF RollBack, Pending

\* Releases, revocations and the sweep.
LEMMA EndingInv ==
    ASSUME PlaybackInv, Ending
    PROVE  PlaybackInv'
<1>1. ASSUME NEW i \in Ids, Release(i)
      PROVE  PlaybackInv'
  BY <1>1, LeasesEnd DEF Release
<1>2. CASE ExpireLapsedLeases
  <2> DEFINE due == (ActiveLeases \ ScreensAt(now)) \ LockedRows
  <2>1. lease' = Closed(lease, due, "expired") /\ UNCHANGED <<now, call, facts>>
    BY <1>2 DEF ExpireLapsedLeases
  <2>2. due \in SUBSET ActiveLeases /\ due \cap LockedRows = {}
    OBVIOUS
  <2> HIDE DEF due
  <2> QED
    BY <2>1, <2>2, LeasesEnd
<1>3. ASSUME NEW ids \in SUBSET ActiveLeases, revokeDevice(ids)
      PROVE  PlaybackInv'
  BY <1>3, LeasesEnd DEF revokeDevice
<1>4. ASSUME NEW d \in Devices, RevokeDeviceLeases(d)
      PROVE  PlaybackInv'
  <2>1. {i \in ActiveLeases : lease[i].device = d} \in SUBSET ActiveLeases
    OBVIOUS
  <2> QED
    BY <1>3, <1>4, <2>1 DEF RevokeDeviceLeases
<1>5. ASSUME NEW d \in Devices, NEW p \in Profiles, RevokeProfileLeases(d, p)
      PROVE  PlaybackInv'
  <2>1. PICK closedAt \in Instant :
          revokeDevice({i \in ActiveLeases : /\ lease[i].device = d /\ lease[i].profile = p
                                             /\ lease[i].openedAt <= closedAt})
    BY <1>5 DEF RevokeProfileLeases
  <2>2. {i \in ActiveLeases : /\ lease[i].device = d /\ lease[i].profile = p
                              /\ lease[i].openedAt <= closedAt} \in SUBSET ActiveLeases
    OBVIOUS
  <2> QED
    BY <1>3, <2>1, <2>2
<1> QED
  BY <1>1, <1>2, <1>4, <1>5 DEF Ending

\* A fact moves no lease; the right to watch, once lost, is lost at the machine's instant.
LEMMA FactsInv ==
    ASSUME PlaybackInv, Facts
    PROVE  PlaybackInv'
<1>1. UNCHANGED <<now, lease, call>>
  BY DEF Facts, DeclareOutcome, ActivateSeat, CancelSeat
<1>2. /\ seat' \in [Seats -> {"active", "cancelled", NULL}] /\ over' \in BOOLEAN
      /\ over \in BOOLEAN /\ now \in Instant /\ lostAt \in Instant /\ lostAt <= now
  BY DEF PlaybackInv, Typed, ClocksRead, Facts, DeclareOutcome, ActivateSeat, CancelSeat
<1>3. \/ lostAt' = lostAt /\ (~Entitled(over', seat') => ~Entitled(over, seat))
      \/ lostAt' = now
  <2>1. CASE DeclareOutcome \/ \E s \in Seats : CancelSeat(s)
    BY <2>1 DEF DeclareOutcome, CancelSeat, Loses
  <2>2. ASSUME NEW s \in Seats, ActivateSeat(s)
        PROVE  lostAt' = lostAt /\ (~Entitled(over', seat') => ~Entitled(over, seat))
    <3>1. lostAt' = lostAt /\ over' = over /\ seat' = [seat EXCEPT ![s] = "active"]
      BY <2>2 DEF ActivateSeat
    <3>2. \A x \in Seats : seat[x] = "active" => seat'[x] = "active"
      BY <3>1 DEF PlaybackInv, Typed
    <3> QED
      BY <1>2, <3>1, <3>2, EntitledMeans
  <2> QED
    BY <2>1, <2>2 DEF Facts
<1>4. Typed'
  BY <1>1, <1>2, <1>3 DEF PlaybackInv, Typed
<1>5. ActiveLeases' = ActiveLeases /\ \A c \in Calls : Deciding(c)' <=> Deciding(c)
  BY <1>1 DEF ActiveLeases, Deciding
<1>6. OneDecides' /\ OneLeasePerDevice'
  BY <1>1, <1>5 DEF PlaybackInv, OneDecides, OneLeasePerDevice
<1>7. DecisionsStand'
  BY <1>1, <1>5, StandsStill DEF PlaybackInv, DecisionsStand
<1>8. ClocksRead'
  BY <1>1, <1>2, <1>3, <1>5, Bounds DEF PlaybackInv, ClocksRead, Instant
<1>9. GrantedBeforeLoss'
  <2>1. CASE lostAt' = lostAt /\ (~Entitled(over', seat') => ~Entitled(over, seat))
    BY <1>1, <1>5, <2>1 DEF PlaybackInv, GrantedBeforeLoss
  <2>2. CASE lostAt' = now
    BY <1>1, <1>5, <2>2 DEF PlaybackInv, GrantedBeforeLoss, ClocksRead, Deciding
  <2> QED
    BY <1>3, <2>1, <2>2
<1> QED
  BY <1>4, <1>6, <1>7, <1>8, <1>9 DEF PlaybackInv

\* Time passing keeps the invariant: what is read of the clock stays behind it.
LEMMA TickInv ==
    ASSUME PlaybackInv, Tick
    PROVE  PlaybackInv'
<1>1. /\ now' = now + 1 /\ now < MaxTime /\ UNCHANGED <<lease, call, seat, over, lostAt>>
      /\ now \in Nat /\ lostAt \in Nat
  BY Bounds DEF Tick, facts, PlaybackInv, Typed, Instant
<1>2. Typed'
  BY <1>1, Bounds DEF PlaybackInv, Typed, Instant
<1>3. ActiveLeases' = ActiveLeases /\ \A c \in Calls : Deciding(c)' <=> Deciding(c)
  BY <1>1 DEF ActiveLeases, Deciding
<1>4. OneDecides' /\ OneLeasePerDevice'
  BY <1>1, <1>3 DEF PlaybackInv, OneDecides, OneLeasePerDevice
<1>5. DecisionsStand'
  BY <1>1, <1>3, StandsStill DEF PlaybackInv, DecisionsStand
<1>6. ClocksRead'
  <2>1. \A i \in ActiveLeases : lease[i].expiresAt \in Int
    BY ActiveMeans DEF PlaybackInv, Typed, Row, ActiveRow, ActiveLeases
  <2>2. \A c \in Calls : call[c] # NULL => call[c].at \in Nat
    BY Bounds DEF PlaybackInv, Typed, OpenCall, RenewCall, Instant
  <2> QED
    BY <1>1, <1>3, <2>1, <2>2, Bounds DEF PlaybackInv, ClocksRead
<1>7. GrantedBeforeLoss'
  <2>1. Entitled(over, seat)' <=> Entitled(over, seat)
    BY <1>1 DEF Entitled, screensAllowedBy
  <2> QED
    BY <1>1, <1>3, <2>1 DEF PlaybackInv, GrantedBeforeLoss
<1> QED
  BY <1>2, <1>4, <1>5, <1>6, <1>7 DEF PlaybackInv

\* A stuttering step keeps the invariant.
LEMMA StutterInv ==
    ASSUME PlaybackInv, UNCHANGED vars
    PROVE  PlaybackInv'
<1>1. UNCHANGED <<now, lease, call, seat, over, lostAt>>
  BY DEF vars, facts
<1>2. ActiveLeases' = ActiveLeases /\ \A c \in Calls : Deciding(c)' <=> Deciding(c)
  BY <1>1 DEF ActiveLeases, Deciding
<1>3. DecisionsStand'
  BY <1>1, <1>2, StandsStill DEF PlaybackInv, DecisionsStand
<1>4. Entitled(over, seat)' <=> Entitled(over, seat)
  BY <1>1 DEF Entitled, screensAllowedBy
<1> QED
  BY <1>1, <1>2, <1>3, <1>4
  DEF PlaybackInv, Typed, OneDecides, OneLeasePerDevice, ClocksRead, GrantedBeforeLoss

\* Every step keeps the invariant.
LEMMA NextInv == PlaybackInv /\ [Next]_vars => PlaybackInv'
<1> SUFFICES ASSUME PlaybackInv, [Next]_vars PROVE PlaybackInv'
  OBVIOUS
<1>1. ASSUME NEW c \in Calls, Request(c)
      PROVE  PlaybackInv'
  BY <1>1, CallInv, DecideOpenInv, DecideRenewInv, CommitOpenInv, CommitRenewInv, RollBackInv
  DEF Request
<1> QED
  BY <1>1, TickInv, FactsInv, EndingInv, StutterInv DEF Next

\* The invariant holds of every reachable state.
THEOREM PlaybackInvariant == Spec => []PlaybackInv
<1> QED
  BY InitInv, NextInv, PTL DEF Spec

-----------------------------------------------------------------------------
(***************************************************************************)
(* What the invariant promises.                                            *)
(***************************************************************************)

\* RightEnds: what was granted before the right to watch was lost lapses in a lease's time.
THEOREM NoScreenPastRight == Spec => []RightEnds
<1>1. PlaybackInv => RightEnds
  <2> SUFFICES ASSUME PlaybackInv, now >= lostAt + LeaseTtl, ~Entitled(over, seat),
                      NEW i \in ActiveLeases
               PROVE  ~(lease[i].expiresAt > now)
    BY DEF RightEnds, ScreensAt, holdsAScreen
  <2>1. lease[i].expiresAt <= lostAt + LeaseTtl
    BY DEF PlaybackInv, GrantedBeforeLoss
  <2>2. lease[i].expiresAt \in Int
    BY ActiveMeans DEF PlaybackInv, Typed, Row, ActiveRow, ActiveLeases
  <2>3. now \in Int /\ lostAt + LeaseTtl \in Int
    BY Bounds DEF PlaybackInv, Typed, Instant
  <2> QED
    BY <2>1, <2>2, <2>3
<1> QED
  BY <1>1, PlaybackInvariant, PTL

\* A decision that moves a lease is an opening's or a renewal's commit.
LEMMA CommitsAre ==
    ASSUME Next, NEW c \in Calls, Commits(c)
    PROVE  CommitOpen(c) \/ CommitRenew(c)
<1>1. Deciding(c) /\ call'[c] = NULL /\ lease' # lease /\ call[c] # NULL
  BY DEF Commits, Deciding
<1>2. ~(Tick \/ Facts \/ Ending)
  BY <1>1 DEF Tick, Facts, DeclareOutcome, ActivateSeat, CancelSeat, Ending, Release,
     ExpireLapsedLeases, RevokeDeviceLeases, RevokeProfileLeases, revokeDevice
<1>3. PICK d \in Calls : Request(d)
  BY <1>2 DEF Next
<1>4. CommitOpen(d) \/ CommitRenew(d)
  BY <1>1, <1>3 DEF Request, CallOpen, CallRenew, DecideOpen, DecideRenew, Decided, RollBack
<1>5. call' = [call EXCEPT ![d] = NULL]
  BY <1>4, Zenon DEF CommitOpen, CommitRenew
<1>6. d = c
  BY <1>1, <1>5
<1> QED
  BY <1>4, <1>6

\* The screens an opening leaves: those of others it did not take over, and its own.
LEMMA ScreensOpeningLeaves ==
    ASSUME PlaybackInv, NEW c \in Calls, CommitOpen(c), Commits(c)
    PROVE  LET decision == call[c].decision
               others == OthersOf(call[c])
           IN  /\ Cardinality(ScreensLeft(c)) = Cardinality(others \ decision.takenOver) + 1
               /\ Cardinality(others \ decision.takenOver) \in Nat
               /\ Cardinality(others \ decision.takenOver) < decision.allowed
               /\ decision.allowed \in Nat /\ others \in SUBSET ActiveLeases
               /\ decision.takenOver = leasesTakenOverBy(others, decision.allowed)
               /\ \A j \in ActiveLeases : lease'[j].state = "revoked" => j \in decision.takenOver
<1> DEFINE decision == call[c].decision
           others == OthersOf(call[c])
           left == others \ decision.takenOver
           at == call[c].at
<1>1. Deciding(c) /\ call[c].kind = "open" /\ lease' # lease
  BY DEF Commits, CommitOpen
<1>2. decision.verdict = "full"
  BY <1>1, Zenon DEF CommitOpen
<1>3. /\ call[c] \in OpenCall /\ decision \in OpenDecision
  BY <1>1 DEF PlaybackInv, Typed, Deciding, OpenCall, RenewCall
<1>4. at \in Nat /\ decision.allowed \in Nat
  BY <1>3, Bounds DEF OpenCall, OpenDecision, Instant
<1>5. PICK i \in Ids :
          /\ i \notin others
          /\ decision.takenOver = leasesTakenOverBy(others, decision.allowed)
          /\ Cardinality(left) < decision.allowed
          /\ ActiveLeases' = left \cup {i}
          /\ \A j \in left : lease'[j] = lease[j]
          /\ lease'[i].expiresAt = at + LeaseTtl
          /\ \A j \in ActiveLeases : lease'[j].state = "revoked" => j \in decision.takenOver
  BY <1>2, OpeningCommits
<1>6. others \in SUBSET ActiveLeases /\ \A j \in others : lease[j].expiresAt > at
  BY DEF OthersOf, ScreensAt, holdsAScreen
<1>7. ScreensLeft(c) = left \cup {i}
  <2>1. ScreensLeft(c) = {j \in ActiveLeases' : lease'[j].expiresAt > at}
    BY DEF ScreensLeft, ActiveLeases
  <2> HIDE DEF left, at
  <2>2. \A j \in left : lease'[j].expiresAt > at
    BY <1>5, <1>6 DEF left
  <2>3. lease'[i].expiresAt > at
    BY <1>4, <1>5, Bounds
  <2> QED
    BY <1>5, <2>1, <2>2, <2>3
<1>8. left \in SUBSET Ids /\ i \notin left
  BY <1>5, <1>6 DEF ActiveLeases, ActiveIn
<1> HIDE DEF left
<1>9. IsFiniteSet(left) /\ Cardinality(left) \in Nat
  BY <1>8, IdsFinite
<1>10. Cardinality(left \cup {i}) = Cardinality(left) + 1
  BY <1>8, <1>9, FS_AddElement
<1> QED
  BY <1>4, <1>5, <1>6, <1>7, <1>9, <1>10 DEF left

\* OpeningFits: an opening leaves no more screens than the allowance it read.
THEOREM OpeningsFit == Spec => OpeningFits
<1>1. PlaybackInv /\ [Next]_vars =>
          [\A c \in Calls : (Commits(c) /\ call[c].kind = "open")
              => Cardinality(ScreensLeft(c)) <= call[c].decision.allowed]_vars
  <2> SUFFICES ASSUME PlaybackInv, Next, NEW c \in Calls, Commits(c), call[c].kind = "open"
               PROVE  Cardinality(ScreensLeft(c)) <= call[c].decision.allowed
    OBVIOUS
  <2>1. CommitOpen(c)
    BY CommitsAre DEF CommitRenew
  <2> DEFINE left == Cardinality(OthersOf(call[c]) \ call[c].decision.takenOver)
  <2>2. /\ Cardinality(ScreensLeft(c)) = left + 1 /\ left \in Nat
        /\ left < call[c].decision.allowed /\ call[c].decision.allowed \in Nat
    BY <2>1, ScreensOpeningLeaves
  <2> HIDE DEF left
  <2> QED
    BY <2>2
<1> QED
  BY <1>1, PlaybackInvariant, PTL DEF Spec, OpeningFits

\* NoNeedlessLoss: a screen is taken for the ceiling only when the ceiling is reached.
THEOREM NoScreenLostNeedlessly == Spec => NoNeedlessLoss
<1>1. PlaybackInv /\ [Next]_vars =>
          [\A c \in Calls :
              (/\ Commits(c) /\ \E i \in ActiveLeases : lease'[i].state = "revoked"
               /\ call[c].decision.verdict \in {"full", "concurrent_limit_reached"})
              => Cardinality(ScreensLeft(c)) >= call[c].decision.allowed]_vars
  <2> SUFFICES ASSUME PlaybackInv, Next, NEW c \in Calls, Commits(c),
                      NEW i \in ActiveLeases, lease'[i].state = "revoked",
                      call[c].decision.verdict \in {"full", "concurrent_limit_reached"}
               PROVE  Cardinality(ScreensLeft(c)) >= call[c].decision.allowed
    OBVIOUS
  <2>1. lease \in [Ids -> Row]
    BY DEF PlaybackInv, Typed, Row
  <2>2. CASE CommitOpen(c)
    <3> DEFINE others == OthersOf(call[c])
               allowed == call[c].decision.allowed
               takenOver == leasesTakenOverBy(others, allowed)
    <3>1. /\ Cardinality(ScreensLeft(c)) = Cardinality(others \ takenOver) + 1
          /\ takenOver # {} /\ allowed \in Nat /\ others \in SUBSET ActiveLeases
      BY <2>2, ScreensOpeningLeaves
    <3> HIDE DEF others, allowed
    <3>2. Cardinality(others \ takenOver) + 1 >= allowed
      BY <2>1, <3>1, TakenOverFew
    <3> QED
      BY <3>1, <3>2 DEF allowed
  <2>3. CASE CommitRenew(c)
    <3> DEFINE id == call[c].id
               at == call[c].at
               newer == {j \in ScreensAt(at) \ {id} : openedLater(j, id)}
    <3>1. /\ RenewalStands(call[c]) /\ call[c] \in RenewCall
          /\ lease' \in [Ids -> Row]
          /\ call[c].decision.verdict = "full" => ActiveLeases' = ActiveLeases
          /\ call[c].decision.verdict \notin {"not_found", "full"} =>
                /\ ActiveLeases' = ActiveLeases \ {id}
                /\ \A j \in Ids \ {id} : lease'[j] = lease[j]
      BY <2>3, RenewalCommits
    <3>2. call[c].decision.verdict = "concurrent_limit_reached"
      <4>1. i \notin ActiveLeases'
        BY <3>1 DEF ActiveLeases, ActiveIn
      <4> QED
        BY <3>1, <4>1
    <3>3. Cardinality(newer) >= call[c].decision.allowed
      BY <3>1, <3>2 DEF RenewalStands, newerScreensThan
    <3>4. newer \subseteq ScreensLeft(c) /\ ScreensLeft(c) \subseteq Ids
      <4>1. ScreensLeft(c) = {j \in ActiveLeases' : lease'[j].expiresAt > at}
        BY DEF ScreensLeft, ActiveLeases
      <4>2. \A j \in newer : j \in ActiveLeases /\ j # id /\ lease[j].expiresAt > at
        BY DEF ScreensAt, holdsAScreen
      <4>3. ActiveLeases \subseteq Ids
        BY DEF ActiveLeases, ActiveIn
      <4> HIDE DEF newer, at, id
      <4> QED
        BY <3>1, <3>2, <4>1, <4>2, <4>3
    <3>5. Cardinality(newer) <= Cardinality(ScreensLeft(c))
      BY <3>4, IdsMonotone
    <3>6. /\ Cardinality(newer) \in Nat /\ Cardinality(ScreensLeft(c)) \in Nat
          /\ call[c].decision.allowed \in Nat
      <4>1. call[c].decision \in RenewDecision
        BY <2>3, <3>1 DEF CommitRenew, Deciding, RenewCall
      <4>2. newer \in SUBSET Ids
        BY <3>4
      <4> QED
        BY <3>4, <4>1, <4>2, IdsFinite DEF RenewDecision
    <3> HIDE DEF newer
    <3> QED
      BY <3>3, <3>5, <3>6
  <2> QED
    BY <2>2, <2>3, CommitsAre
<1> QED
  BY <1>1, PlaybackInvariant, PTL DEF Spec, NoNeedlessLoss

=============================================================================
