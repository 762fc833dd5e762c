---------------------------- MODULE SearchIndex ----------------------------
(***************************************************************************)
(* Facts on their way to search: catalog's outbox, the connector and the   *)
(* topics (libs/messaging, infra/debezium), and the consumer that keeps a  *)
(* copy of shows, artists and dates and writes the search documents from   *)
(* it (apps/search-indexer), for one show, its artist and one of its       *)
(* dates.                                                                  *)
(*                                                                         *)
(* A message is read from its topic, or from the service's retry topic,    *)
(* applied in one transaction together with its claim, and the documents   *)
(* are put in the index after the commit.  A failure publishes a copy to   *)
(* the retry topic, or to the dead-letter topic when its attempts are      *)
(* spent, and only then lets the offset advance.  A partition that is      *)
(* taken away in the middle of a message leaves its old consumer at work.  *)
(*                                                                         *)
(* Transactions read what is committed, statement by statement, and wait   *)
(* only for row locks.  The content of a row or a document is the version  *)
(* of the fact each of its groups was taken from, 0 for none; the groups   *)
(* of a date that change after its scheduling (publication, outcome, move, *)
(* replay) are guarded alike, and one stands for them.                     *)
(***************************************************************************)
EXTENDS Integers, FiniteSets, Sequences, SequencesExt

CONSTANTS
    Facts,          \* the messages, by id
    KindOf,         \* [Facts -> Kind]
    VersionOf,      \* [Facts -> Nat \ {0}]
    Written,        \* the outbox: [Key -> Seq(Facts)], as committed
    PublicAtFirst,  \* the date is public and indexed when the model begins
    Tiers,          \* the length of RETRY_DELAYS_MS
    MaxFaults,      \* bound: failures, crashes, reassignments, lost slots, and rows emitted
                    \* again that were not lost
    NULL

Kind == {"show_published", "show_updated", "artist_updated", "date_scheduled", "state_changed"}

Key == {"show", "artist", "date"}

ASSUME SearchIndexConstants ==
    /\ KindOf \in [Facts -> Kind]
    /\ VersionOf \in [Facts -> Nat \ {0}]
    /\ Written \in [Key -> Seq(Facts)]
    /\ PublicAtFirst \in BOOLEAN /\ Tiers \in Nat /\ MaxFaults \in Nat

VARIABLES
    wal,        \* by key: outbox rows the connector has yet to read
    topic,      \* by key: the partition, as published
    offset,     \* by key: the committed offset of the main group
    retry,      \* by key: the retry topic beyond its group's offset
    dead,       \* the dead-letter topic
    job,        \* by consumer: the message under way, NULL for none
    processed,  \* processed_message
    show, artist, date,     \* the read model
    overwritten,    \* history: artist facts an older one was saved over
    index,      \* the search documents
    faults

path == <<wal, topic, offset, retry, dead>>

model == <<processed, show, artist, date, overwritten>>

vars == <<path, job, model, index, faults>>

Lane == {"main", "retry", "zombie"}

Consumers == Lane \X Key

KeyOf(m) ==
    CASE KindOf[m] \in {"show_published", "show_updated"} -> "show"
      [] KindOf[m] = "artist_updated" -> "artist"
      [] OTHER -> "date"

\* A fact is a row, keyed by what it is about; a show is published once, and updated only
\* after.
ASSUME OutboxAssumption ==
    /\ \A k \in Key : \A m \in ToSet(Written[k]) : KeyOf(m) = k
    /\ \A m \in Facts : m \in ToSet(Written[KeyOf(m)])
    /\ \A m, n \in Facts : KindOf[m] = "show_published" /\ KindOf[n] = "show_published" => m = n
    /\ \A m \in Facts : KeyOf(m) = "show" => \E n \in Facts : KindOf[n] = "show_published"

Delivery == [msg : Facts, attempts : 0..Tiers]

ShowRow == [published : Nat, updatable : Nat]

DateRow == [scheduled : Nat, publication : Nat, doc : Nat]

\* What a consumer does with a message: its transaction's locks, whether it found no row to
\* lock, and the rows it read or wrote.
Job ==
    [msg : Facts, attempts : 0..Tiers, phase : {"open", "put_show", "put_date", "done"},
     outcome : {"applied", "duplicate", "superseded"}, locks : SUBSET Key, first : BOOLEAN,
     show : ShowRow, artist : Nat, date : DateRow]

ASSUME NullAssumption == NULL \notin Job

MaxOf(a, b) == IF a >= b THEN a ELSE b

showDocumentOf(s) ==
    [version |-> MaxOf(s.published, s.updatable), published |-> s.published,
     updatable |-> s.updatable]

dateDocumentOf(d, s, a) ==
    [version |-> d.doc, scheduled |-> d.scheduled, publication |-> d.publication,
     published |-> s.published, updatable |-> s.updatable, artist |-> a]

TypeOK ==
    /\ wal \in [Key -> Seq(Facts)] /\ topic \in [Key -> Seq(Facts)]
    /\ offset \in [Key -> Nat] /\ retry \in [Key -> Seq(Delivery)]
    /\ dead \subseteq Facts /\ processed \subseteq Facts /\ overwritten \subseteq Facts
    /\ job \in [Consumers -> Job \cup {NULL}]
    /\ show \in ShowRow /\ artist \in Nat /\ date \in DateRow
    /\ index \in [show : [version : Nat, published : Nat, updatable : Nat],
                  date : [version : Nat, scheduled : Nat, publication : Nat,
                          published : Nat, updatable : Nat, artist : Nat]]
    /\ faults \in 0..MaxFaults

Init ==
    /\ wal = Written
    /\ topic = [k \in Key |-> <<>>]
    /\ offset = [k \in Key |-> 0]
    /\ retry = [k \in Key |-> <<>>]
    /\ dead = {}
    /\ job = [w \in Consumers |-> NULL]
    /\ processed = {} /\ overwritten = {}
    /\ show = [published |-> 0, updatable |-> 0]
    /\ artist = 0
    /\ LET first == IF PublicAtFirst THEN 1 ELSE 0
       IN  date = [scheduled |-> first, publication |-> 0, doc |-> first]
    /\ index = [show |-> showDocumentOf(show), date |-> dateDocumentOf(date, show, artist)]
    /\ faults = 0

Fault == faults < MaxFaults /\ faults' = faults + 1

-----------------------------------------------------------------------------
(* From the outbox to the topic.                                           *)

Relay(k) ==
    /\ wal[k] # <<>>
    /\ topic' = [topic EXCEPT ![k] = Append(@, Head(wal[k]))]
    /\ wal' = [wal EXCEPT ![k] = Tail(@)]
    /\ UNCHANGED <<offset, retry, dead, job, model, index, faults>>

\* A recreated slot starts past what was not read.
LoseSlot ==
    /\ Fault /\ \E k \in Key : wal[k] # <<>>
    /\ wal' = [k \in Key |-> <<>>]
    /\ UNCHANGED <<topic, offset, retry, dead, job, model, index>>

\* A committed row is emitted again, under its id, whether or not its topic holds it.
republishOutboxRow(m) ==
    LET k == KeyOf(m)
    IN  /\ m \in ToSet(Written[k])
        /\ wal' = [wal EXCEPT ![k] = Append(@, m)]
        /\ IF m \in ToSet(topic[k]) \cup ToSet(wal[k]) THEN Fault ELSE UNCHANGED faults
        /\ UNCHANGED <<topic, offset, retry, dead, job, model, index>>

-----------------------------------------------------------------------------
(* The handler's transaction.                                              *)

takes(m, version) == VersionOf[m] >= version

showAfter(m, s) ==
    [published |-> IF KindOf[m] = "show_published" /\ takes(m, s.published)
                   THEN VersionOf[m] ELSE s.published,
     updatable |-> IF takes(m, s.updatable) THEN VersionOf[m] ELSE s.updatable]

\* One group moves, whichever the fact's is; a fact as new as its group is taken again.
dateAfter(m, d) ==
    IF KindOf[m] = "date_scheduled" THEN [d EXCEPT !.scheduled = VersionOf[m]]
    ELSE [d EXCEPT !.publication = VersionOf[m]]

Superseded(m) ==
    CASE KindOf[m] = "show_published" -> ~takes(m, show.published) /\ ~takes(m, show.updatable)
      [] KindOf[m] = "show_updated" -> ~takes(m, show.updatable)
      [] KindOf[m] = "artist_updated" -> ~takes(m, artist)
      [] KindOf[m] = "date_scheduled" -> ~takes(m, date.scheduled)
      [] OTHER -> ~takes(m, date.publication)

Open(w) == job[w] # NULL /\ job[w].phase = "open"

Locked(row) == \E w \in Consumers : Open(w) /\ row \in job[w].locks

\* The claim waits for a transaction that claimed the same message.
Claimable(m) == ~ \E w \in Consumers : Open(w) /\ job[w].msg = m

\* Only a date that is public has a document to recompose.
recomposed(d) == IF d.scheduled = 0 THEN d ELSE [d EXCEPT !.doc = @ + 1]

Begun(w, next, outcome, locks, s, a, d) ==
    /\ Claimable(next.msg) /\ \A row \in locks : ~Locked(row)
    /\ job' = [job EXCEPT ![w] =
            [msg |-> next.msg, attempts |-> next.attempts, phase |-> "open",
             outcome |-> outcome, locks |-> locks, first |-> locks = {},
             show |-> s, artist |-> a, date |-> d]]

\* A duplicate rewrites the documents at their current versions, and advances none.  The
\* show's and the date's rows are made to be locked; an artist that has no row locks nothing.
Begin(w, next) ==
    LET m == next.msg
        k == KeyOf(m)
        outcome == IF m \in processed THEN "duplicate"
                   ELSE IF Superseded(m) THEN "superseded" ELSE "applied"
        dates == IF outcome = "applied" /\ date.scheduled # 0 THEN {"date"} ELSE {}
    IN  \/ outcome # "applied" /\ Begun(w, next, outcome, {k}, show, artist, date)
        \/ /\ outcome = "applied" /\ k = "show"
           /\ Begun(w, next, outcome, {k} \cup dates, showAfter(m, show), 0, recomposed(date))
        \/ /\ outcome = "applied" /\ k = "artist"
           /\ Begun(w, next, outcome, IF artist = 0 THEN {} ELSE {k} \cup dates,
                    show, VersionOf[m], recomposed(date))
        \/ /\ outcome = "applied" /\ k = "date"
           /\ Begun(w, next, outcome, {k}, show, artist, recomposed(dateAfter(m, date)))

\* What was read as absent is saved over whatever is there by now, and locked; the channel's
\* dates come after it.
SaveArtist(w) ==
    LET locks == {"artist"} \cup (IF date.scheduled # 0 THEN {"date"} ELSE {})
    IN  /\ Open(w) /\ job[w].locks = {} /\ \A row \in locks : ~Locked(row)
        /\ job' = [job EXCEPT ![w].locks = locks, ![w].date = recomposed(date)]
        /\ UNCHANGED <<path, model, index, faults>>

PhaseAfter(j) ==
    IF j.outcome = "superseded" THEN "done"
    ELSE IF KeyOf(j.msg) = "show" THEN "put_show" ELSE "put_date"

\* The claim and the rows, together.  The artist consumer reads the show last.
Commit(w) ==
    /\ Open(w) /\ job[w].locks # {}
    /\ LET j == job[w]
           taken(row) == j.outcome = "applied" /\ row \in j.locks
       IN  /\ processed' = processed \cup {j.msg}
           /\ show' = IF taken("show") THEN j.show ELSE show
           /\ artist' = IF taken("artist") THEN j.artist ELSE artist
           /\ date' = IF taken("date") THEN j.date ELSE date
           /\ overwritten' = IF ~j.first THEN overwritten
                 ELSE overwritten \cup {n \in processed : /\ KindOf[n] = "artist_updated"
                                                         /\ VersionOf[n] > j.artist}
           /\ job' = [job EXCEPT ![w].phase = PhaseAfter(j),
                                 ![w].show = IF KeyOf(j.msg) = "artist" THEN show ELSE @]
    /\ UNCHANGED <<path, index, faults>>

-----------------------------------------------------------------------------
(* The documents, after the commit.                                        *)

\* A put that trusts the order of the messages.
versionedPutUnguarded(kept, document) == document

\* external_gte: the index refuses to go backwards, an equal version is a rebuild.
versionedPut(kept, document) == IF document.version >= kept.version THEN document ELSE kept

\* An update alone makes no document.
showPut(j, kept) ==
    IF j.show.published = 0 \/ j.show.updatable = 0 THEN kept
    ELSE versionedPut(kept, showDocumentOf(j.show))

\* The documents of the show's dates alone are rewritten.
PutDatesOfShow(w) ==
    /\ job[w] # NULL /\ job[w].phase = "put_show"
    /\ LET a == IF job[w].show.published = 0 THEN 0 ELSE artist
       IN  /\ index' = IF job[w].date.scheduled = 0 THEN index
                       ELSE [index EXCEPT !.date = versionedPut(@,
                                dateDocumentOf(job[w].date, job[w].show, a))]
           /\ job' = [job EXCEPT ![w].phase = "done", ![w].artist = a]
    /\ UNCHANGED <<path, model, faults>>

\* The show consumer reads the artist outside its transaction, by the channel of the publication.
PutShow(w) ==
    /\ job[w] # NULL /\ job[w].phase = "put_show"
    /\ index' = [index EXCEPT !.show = showPut(job[w], @)]
    /\ job' = [job EXCEPT ![w].phase = "put_date",
                          ![w].artist = IF job[w].show.published = 0 THEN 0 ELSE artist]
    /\ UNCHANGED <<path, model, faults>>

PutDate(w) ==
    /\ job[w] # NULL /\ job[w].phase = "put_date"
    /\ index' = IF job[w].date.scheduled = 0 THEN index
                ELSE [index EXCEPT !.date = versionedPut(@,
                          dateDocumentOf(job[w].date, job[w].show, job[w].artist))]
    /\ job' = [job EXCEPT ![w].phase = "done"]
    /\ UNCHANGED <<path, model, faults>>

-----------------------------------------------------------------------------
(* The consumers.                                                          *)

\* What a consumer reads next; a group that lost the partition reads nothing more.
Delivered(w) ==
    LET k == w[2]
    IN  CASE w[1] = "main" /\ offset[k] < Len(topic[k]) ->
                {[msg |-> topic[k][offset[k] + 1], attempts |-> 0]}
          [] w[1] = "retry" /\ retry[k] # <<>> -> {Head(retry[k])}
          [] OTHER -> {}

eachMessage(w) ==
    /\ job[w] = NULL
    /\ \E next \in Delivered(w) : Begin(w, next)
    /\ UNCHANGED <<path, model, index, faults>>

\* Returning is what lets the offset advance; a lost partition's is not its to commit.
advanced(w, copies) ==
    /\ offset' = IF w[1] = "main" THEN [offset EXCEPT ![w[2]] = @ + 1] ELSE offset
    /\ retry' = [retry EXCEPT ![w[2]] = (IF w[1] = "retry" THEN Tail(@) ELSE @) \o copies]

Return(w) ==
    /\ job[w] # NULL /\ job[w].phase = "done"
    /\ advanced(w, <<>>)
    /\ job' = [job EXCEPT ![w] = NULL]
    /\ UNCHANGED <<wal, topic, dead, model, index, faults>>

\* The last attempt's copy goes nowhere.
routeFailureDropped(j, permanent) ==
    IF ~permanent /\ j.attempts < Tiers
    THEN [copies |-> <<[msg |-> j.msg, attempts |-> j.attempts + 1]>>, dead |-> {}]
    ELSE [copies |-> <<>>, dead |-> {}]

\* A permanent error is not tried again.
routeFailure(j, permanent) ==
    IF ~permanent /\ j.attempts < Tiers
    THEN [copies |-> <<[msg |-> j.msg, attempts |-> j.attempts + 1]>>, dead |-> {}]
    ELSE [copies |-> <<>>, dead |-> {j.msg}]

\* What a failure may be: a database or an index that does not answer, or an index that
\* refuses the document for good.
Errors(j) == IF j.phase = "open" THEN {FALSE} ELSE BOOLEAN

\* What was not committed rolls back, and the copy is published before the offset advances.
FailsWith(w, permanent) ==
    /\ LET route == routeFailure(job[w], permanent)
       IN  advanced(w, route.copies) /\ dead' = dead \cup route.dead
    /\ job' = [job EXCEPT ![w] = NULL]
    /\ UNCHANGED <<wal, topic, model, index>>

HandlerFails(w) ==
    /\ job[w] # NULL /\ job[w].phase # "done" /\ Fault
    /\ \E permanent \in Errors(job[w]) : FailsWith(w, permanent)

\* The row came between the save's read and its INSERT: a unique violation.
SaveConflicts(w) ==
    /\ Open(w) /\ job[w].locks = {} /\ artist # 0
    /\ FailsWith(w, FALSE) /\ UNCHANGED faults

\* The process dies, its copy published or not; the offset stays.
Crash(w) ==
    /\ job[w] # NULL /\ Fault
    /\ \/ UNCHANGED <<retry, dead>>
       \/ /\ job[w].phase # "done"
          /\ \E permanent \in Errors(job[w]) :
                LET route == routeFailure(job[w], permanent)
                IN  /\ retry' = [retry EXCEPT ![w[2]] = @ \o route.copies]
                    /\ dead' = dead \cup route.dead
    /\ job' = [job EXCEPT ![w] = NULL]
    /\ UNCHANGED <<wal, topic, offset, model, index>>

\* The partition is another member's; the message goes on where it was.
Reassign(w) ==
    LET zombie == <<"zombie", w[2]>>
    IN  /\ w # zombie /\ job[w] # NULL /\ job[zombie] = NULL /\ Fault
        /\ job' = [job EXCEPT ![zombie] = job[w], ![w] = NULL]
        /\ UNCHANGED <<path, model, index>>

-----------------------------------------------------------------------------
Step(w) ==
    \/ eachMessage(w) \/ SaveArtist(w) \/ SaveConflicts(w) \/ Commit(w)
    \/ PutShow(w) \/ PutDate(w) \/ Return(w)

Next ==
    \/ LoseSlot
    \/ \E k \in Key : Relay(k)
    \/ \E m \in Facts : republishOutboxRow(m)
    \/ \E w \in Consumers : Step(w) \/ HandlerFails(w) \/ Crash(w) \/ Reassign(w)

Spec == Init /\ [][Next]_vars

-----------------------------------------------------------------------------
Quiet ==
    /\ \A w \in Consumers : job[w] = NULL
    /\ \A k \in Key :
          /\ ToSet(Written[k]) \subseteq ToSet(topic[k]) /\ wal[k] = <<>>
          /\ offset[k] = Len(topic[k]) /\ retry[k] = <<>>

ShowIndexed == show.published # 0 => index.show = showDocumentOf(show)

DateIndexed == date.scheduled # 0 => index.date = dateDocumentOf(date, show, artist)

(* NoSilentGap: once every committed fact is published, every message      *)
(* handled and none is dead, the documents are the read model's, whatever  *)
(* was retried, duplicated, reordered or interrupted between a commit and  *)
(* its puts (applyShowMessage, applyArtistMessage, applyDateMessage).      *)
NoSilentGap == (Quiet /\ dead = {}) => (ShowIndexed /\ DateIndexed)

(* IndexNeverBack: whatever consumers put, and in whatever order, a show's *)
(* document never tells an older fact than it told, and a date's document  *)
(* never an older fact of the date (versionedPut).                         *)
IndexNeverBack ==
    [][/\ \A f \in {"published", "updatable"} : index'.show[f] >= index.show[f]
       /\ \A f \in {"scheduled", "publication"} : index'.date[f] >= index.date[f]]_vars

\* A show known by an update alone names no channel, and its dates' documents no artist.
Shows(m) ==
    CASE KindOf[m] = "show_published" -> index.date.published >= VersionOf[m]
      [] KindOf[m] = "show_updated" -> index.date.updatable >= VersionOf[m]
      [] KindOf[m] = "artist_updated" ->
            \/ index.date.artist >= VersionOf[m]
            \/ index.date.published = 0 /\ index.date.updatable # 0
      [] KindOf[m] = "date_scheduled" -> index.date.scheduled >= VersionOf[m]
      [] OTHER -> index.date.publication >= VersionOf[m]

\* Some consumer has the message, or will read it.
Ahead(m) ==
    LET k == KeyOf(m)
    IN  \/ \E i \in offset[k] + 1 .. Len(topic[k]) : topic[k][i] = m
        \/ \E i \in DOMAIN retry[k] : retry[k][i].msg = m
        \/ \E w \in Consumers : job[w] # NULL /\ job[w].msg = m

\* A fact as new, that states whatever the other one does.
Restates(n, m) ==
    /\ VersionOf[n] >= VersionOf[m]
    /\ \/ KindOf[n] = KindOf[m]
       \/ KindOf[n] = "show_published" /\ KindOf[m] = "show_updated"

(* NoFactLost: a fact its topic holds is told by the date's document, or   *)
(* it, or one as new that supersedes it, is in the dead-letter topic or    *)
(* still ahead of a consumer: no failure, crash or reassignment, before or *)
(* after the transaction commits, lets the offset pass a message whose     *)
(* effect is not in the index (dispatch).  The one exception is an artist  *)
(* fact an older one was saved over: two that both found no row (see       *)
(* SaveArtist) are not ordered by their versions.                          *)
NoFactLost ==
    \A m \in Facts :
        m \in ToSet(topic[KeyOf(m)]) =>
            \/ Shows(m) \/ m \in overwritten
            \/ \E n \in Facts : Restates(n, m) /\ (n \in dead \/ Ahead(n))
=============================================================================
