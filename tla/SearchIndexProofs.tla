------------------------- MODULE SearchIndexProofs -------------------------
(***************************************************************************)
(* Proofs about SearchIndex, for any facts and versions, any outbox, retry *)
(* schedule and number of faults.                                          *)
(***************************************************************************)
EXTENDS SearchIndex, SequenceTheorems, TLAPS

-----------------------------------------------------------------------------
(***************************************************************************)
(* The queues: what is still to be read, and what a consumer has in hand.  *)
(***************************************************************************)

\* The consumers whose return advances an offset.
Readers == {"main", "retry"} \X Key

\* A partition and a retry topic, from a position on.
From(s, i) == {s[x] : x \in i .. Len(s)}

CopiesFrom(s, i) == {s[x].msg : x \in i .. Len(s)}

\* The messages to be read that no reader has in hand.
FreeTopic(k) == From(topic[k], offset[k] + (IF job[<<"main", k>>] = NULL THEN 1 ELSE 2))

FreeRetry(k) == CopiesFrom(retry[k], IF job[<<"retry", k>>] = NULL THEN 1 ELSE 2)

Free(m) == m \in FreeTopic(KeyOf(m)) \cup FreeRetry(KeyOf(m))

\* A message is on its key's partition.
PathOK(k) ==
    /\ offset[k] <= Len(topic[k])
    /\ \A i \in 1 .. Len(topic[k]) : KeyOf(topic[k][i]) = k
    /\ \A i \in 1 .. Len(wal[k]) : KeyOf(wal[k][i]) = k
    /\ \A i \in 1 .. Len(retry[k]) : KeyOf(retry[k][i].msg) = k

\* A reader has the first in hand; a message whose transaction a lost consumer has open
\* waits for a reader.
HandsOK(k) ==
    /\ job[<<"main", k>>] # NULL =>
          offset[k] + 1 <= Len(topic[k]) /\ job[<<"main", k>>].msg = topic[k][offset[k] + 1]
    /\ job[<<"retry", k>>] # NULL =>
          1 <= Len(retry[k]) /\ job[<<"retry", k>>].msg = retry[k][1].msg
    /\ \A m \in Facts : Open(<<"zombie", k>>) /\ job[<<"zombie", k>>].msg = m => Free(m)

QueueOK ==
    /\ \A k \in Key : PathOK(k) /\ HandsOK(k)
    /\ \A w \in Consumers : job[w] # NULL => KeyOf(job[w].msg) = w[2]

-----------------------------------------------------------------------------
(***************************************************************************)
(* The transactions.                                                       *)
(***************************************************************************)

\* No two wait on the same row or claim.
LocksOK ==
    \A v, w \in Consumers :
        Open(v) /\ Open(w) /\ v # w =>
            job[v].locks \cap job[w].locks = {} /\ job[v].msg # job[w].msg

\* An open transaction writes what it computed from the rows it holds.  One that found no
\* row of its artist holds none until it saves, and then is not the newest for sure.
OpenOK(j) ==
    LET k == KeyOf(j.msg)
    IN  /\ j.outcome = "duplicate" <=> j.msg \in processed
        /\ j.outcome # "applied" => j.locks = {k}
        /\ j.outcome = "superseded" => Superseded(j.msg)
        /\ j.locks = {} => j.first
        /\ j.first => k = "artist" /\ j.outcome = "applied"
        /\ j.outcome = "applied" =>
              /\ j.first \/ ~Superseded(j.msg)
              /\ j.locks \subseteq {k, "date"} /\ (j.locks # {} => k \in j.locks)
              /\ k = "show" => j.show = showAfter(j.msg, show)
              /\ k = "artist" => j.artist = VersionOf[j.msg]
              /\ k = "date" => j.date = recomposed(dateAfter(j.msg, date))
              /\ k # "date" /\ "date" \in j.locks => date.scheduled # 0 /\ j.date = recomposed(date)
              /\ j.locks # {} /\ "date" \notin j.locks => j.date.scheduled = 0

\* What a job has done so far.
JobOK(j) ==
    /\ j.phase = "open" => OpenOK(j)
    /\ j.phase # "open" => j.msg \in processed
    /\ j.phase = "put_show" => KeyOf(j.msg) = "show"
    /\ j.outcome = "superseded" => j.phase \in {"open", "done"}

TransactionsOK == LocksOK /\ \A w \in Consumers : job[w] # NULL => JobOK(job[w])

\* A job with documents to put, composed of rows that were committed.
Composing(j) ==
    /\ j # NULL /\ j.phase # "done" /\ j.outcome # "superseded"
    /\ j.phase = "open" => j.outcome = "duplicate"

-----------------------------------------------------------------------------
(***************************************************************************)
(* The versions of the documents.                                          *)
(***************************************************************************)

NoOlder(x, y) == x.scheduled >= y.scheduled /\ x.publication >= y.publication

\* A date's documents tell what its row told at their version.
DatesChained ==
    /\ index.date.version <= date.doc /\ NoOlder(date, index.date)
    /\ date.scheduled = 0 => date.doc = 0 /\ index.date.publication = 0
    /\ index.date.version = date.doc => date.scheduled = 0 \/ NoOlder(index.date, date)
    /\ \A w \in Consumers : Composing(job[w]) /\ job[w].date.scheduled # 0 =>
          /\ job[w].date.doc <= date.doc /\ NoOlder(date, job[w].date)
          /\ job[w].date.doc = date.doc => NoOlder(job[w].date, date)
          /\ job[w].date.doc >= index.date.version => NoOlder(job[w].date, index.date)
          /\ job[w].date.doc <= index.date.version => NoOlder(index.date, job[w].date)
          /\ \A v \in Consumers :
                Composing(job[v]) /\ job[v].date.scheduled # 0 /\ job[v].date.doc >= job[w].date.doc =>
                    NoOlder(job[v].date, job[w].date)

\* A row or a document of the show: published once, and the updatable group no older.
ShowOK(s) ==
    /\ s.updatable >= s.published
    /\ s.published # 0 => \E m \in Facts : KindOf[m] = "show_published" /\ s.published = VersionOf[m]

ShowsChained ==
    /\ ShowOK(show) /\ ShowOK(index.show)
    /\ index.show.version = index.show.updatable /\ index.show.updatable <= show.updatable
    /\ \A w \in Consumers : job[w] # NULL /\ KeyOf(job[w].msg) = "show" =>
          /\ ShowOK(job[w].show)
          /\ Composing(job[w]) => job[w].show.updatable <= show.updatable

IndexInv == TypeOK /\ QueueOK /\ TransactionsOK /\ DatesChained /\ ShowsChained

-----------------------------------------------------------------------------
(***************************************************************************)
(* A date public from the beginning: its documents tell the whole read     *)
(* model.                                                                  *)
(***************************************************************************)

\* A document of the row's version tells the rows.  A show known by an update alone names
\* no artist.
DocumentsCurrent ==
    /\ date.scheduled # 0
    /\ \A w \in Consumers : job[w] # NULL =>
          /\ job[w].date.scheduled # 0
          /\ KeyOf(job[w].msg) = "show" => job[w].show.updatable # 0
          /\ Open(w) /\ job[w].outcome = "applied" =>
                /\ job[w].locks # {} => "date" \in job[w].locks
                /\ KeyOf(job[w].msg) = "date" => job[w].show = show /\ job[w].artist = artist
    /\ \A w \in Consumers : Composing(job[w]) /\ job[w].date.doc = date.doc =>
          /\ KeyOf(job[w].msg) # "artist" \/ job[w].phase # "open" => job[w].show = show
          /\ KeyOf(job[w].msg) # "show" => job[w].artist = artist
          /\ KeyOf(job[w].msg) = "show" /\ job[w].phase = "put_date" =>
                job[w].artist = IF show.published = 0 THEN 0 ELSE artist
    /\ index.date.version = date.doc =>
          /\ index.date.published = show.published /\ index.date.updatable = show.updatable
          /\ index.date.artist = artist \/ (show.published = 0 /\ show.updatable # 0)

\* The read model has a fact, or a newer one.
Known(m) ==
    CASE KindOf[m] = "show_published" ->
            show.published >= VersionOf[m] /\ show.updatable >= VersionOf[m]
      [] KindOf[m] = "show_updated" -> show.updatable >= VersionOf[m]
      [] KindOf[m] = "artist_updated" -> artist >= VersionOf[m]
      [] KindOf[m] = "date_scheduled" -> date.scheduled >= VersionOf[m]
      [] OTHER -> date.publication >= VersionOf[m]

IndexTells(m) ==
    /\ Shows(m)
    /\ KindOf[m] = "show_published" => index.date.updatable >= VersionOf[m]

\* So does the date's document a job is to put, for what it has read already.
JobTells(j, m) ==
    LET k == KeyOf(j.msg)
    IN  CASE KindOf[m] = "show_published" ->
                \/ k = "artist" /\ j.phase = "open"
                \/ j.show.published >= VersionOf[m] /\ j.show.updatable >= VersionOf[m]
          [] KindOf[m] = "show_updated" ->
                \/ k = "artist" /\ j.phase = "open"
                \/ j.show.updatable >= VersionOf[m]
          [] KindOf[m] = "artist_updated" ->
                \/ j.artist >= VersionOf[m]
                \/ k = "show" /\ (j.phase # "put_date" \/ j.show.published = 0)
          [] KindOf[m] = "date_scheduled" -> j.date.scheduled >= VersionOf[m]
          [] OTHER -> j.date.publication >= VersionOf[m]

\* Every document of the version d or a later one tells m.
Since(m, d) ==
    /\ Known(m)
    /\ index.date.version >= d => IndexTells(m)
    /\ \A w \in Consumers : Composing(job[w]) /\ job[w].date.doc >= d => JobTells(job[w], m)

Told(m) == \E d \in Nat : d <= index.date.version /\ Since(m, d)

\* The artist facts no older one was saved over, and all the others.
Standing == processed \ overwritten

\* A message is applied, or superseded, once it is processed, and its own document tells it.
FactsKnown ==
    /\ \A m \in Standing : Known(m)
    /\ \A w \in Consumers, m \in Facts \ overwritten, d \in Nat :
          Composing(job[w]) /\ job[w].msg = m /\ job[w].date.doc = d => Since(m, d)

\* The rows come from facts that were processed, and that stand.
RowsFromFacts ==
    /\ \A n \in overwritten : n \in processed /\ KindOf[n] = "artist_updated"
    /\ show.published # 0 =>
          \E n \in processed : KindOf[n] = "show_published" /\ VersionOf[n] = show.published
    /\ show.updatable # 0 =>
          \E n \in processed : KeyOf(n) = "show" /\ VersionOf[n] = show.updatable
    /\ artist # 0 => \E n \in Standing : KindOf[n] = "artist_updated" /\ VersionOf[n] = artist
    /\ date.scheduled > 1 =>
          \E n \in processed : KindOf[n] = "date_scheduled" /\ VersionOf[n] = date.scheduled
    /\ date.publication # 0 =>
          \E n \in processed : KindOf[n] = "state_changed" /\ VersionOf[n] = date.publication

\* A reader is to put the documents of n, or will read n, as a duplicate.
ToPut(n) == Free(n) \/ \E w \in Readers : Composing(job[w]) /\ job[w].msg = n

FactsTold ==
    \A m \in Standing :
        Told(m) \/ \E n \in Standing : Restates(n, m) /\ (n \in dead \/ ToPut(n))

\* No offset passes a message that was not processed.
NotSkipped ==
    \A m \in Facts : m \in ToSet(topic[KeyOf(m)]) =>
        \/ m \in processed \/ m \in dead \/ Free(m)
        \/ \E w \in Readers : job[w] # NULL /\ job[w].msg = m

\* While a document is older than its row, a reader is to put the row's.
DateToPut ==
    \/ dead # {} \/ index.date.version = date.doc
    \/ \E n \in processed :
          \/ Free(n)
          \/ \E w \in Readers : Composing(job[w]) /\ job[w].msg = n /\ job[w].date.doc = date.doc

ShowToPut ==
    \/ dead # {} \/ show.published = 0 \/ index.show = showDocumentOf(show)
    \/ \E n \in processed :
          \/ Free(n) /\ KeyOf(n) = "show"
          \/ \E w \in Readers : /\ Composing(job[w]) /\ job[w].msg = n /\ KeyOf(n) = "show"
                                /\ job[w].phase # "put_date" /\ job[w].show = show

PublicInv ==
    /\ IndexInv /\ DocumentsCurrent /\ FactsKnown /\ RowsFromFacts
    /\ FactsTold /\ NotSkipped /\ DateToPut /\ ShowToPut
-----------------------------------------------------------------------------
(***************************************************************************)
(* Constants, kinds and keys.                                              *)
(***************************************************************************)

\* A fact's kind names its key.
LEMMA FactKinds ==
    ASSUME NEW m \in Facts
    PROVE  /\ KindOf[m] \in Kind /\ VersionOf[m] \in Nat /\ VersionOf[m] > 0
           /\ KeyOf(m) \in Key
           /\ KeyOf(m) = "show" <=> KindOf[m] \in {"show_published", "show_updated"}
           /\ KeyOf(m) = "artist" <=> KindOf[m] = "artist_updated"
           /\ KeyOf(m) = "date" <=> KindOf[m] \in {"date_scheduled", "state_changed"}
BY SearchIndexConstants DEF SearchIndexConstants, KeyOf, Kind, Key

\* A consumer is a lane of a key.
LEMMA Lanes ==
    /\ \A w \in Consumers : w[1] \in Lane /\ w[2] \in Key /\ w = <<w[1], w[2]>>
    /\ \A l \in Lane, k \in Key : <<l, k>> \in Consumers /\ <<l, k>>[1] = l /\ <<l, k>>[2] = k
    /\ \A w \in Readers : w \in Consumers /\ w[1] \in {"main", "retry"}
    /\ \A w \in Consumers : w[1] # "zombie" => w \in Readers
BY DEF Consumers, Lane, Readers

\* A job's fields.
LEMMA JobFields ==
    ASSUME NEW j \in Job
    PROVE  /\ j # NULL /\ j.msg \in Facts /\ j.attempts \in 0..Tiers
           /\ j.phase \in {"open", "put_show", "put_date", "done"}
           /\ j.outcome \in {"applied", "duplicate", "superseded"}
           /\ j.locks \in SUBSET Key /\ j.first \in BOOLEAN
           /\ j.show \in ShowRow /\ j.show.published \in Nat /\ j.show.updatable \in Nat
           /\ j.artist \in Nat
           /\ j.date \in DateRow /\ j.date.scheduled \in Nat /\ j.date.publication \in Nat
           /\ j.date.doc \in Nat
<1>1. /\ j.msg \in Facts /\ j.attempts \in 0..Tiers
      /\ j.phase \in {"open", "put_show", "put_date", "done"}
      /\ j.outcome \in {"applied", "duplicate", "superseded"}
      /\ j.locks \in SUBSET Key /\ j.first \in BOOLEAN
      /\ j.show \in ShowRow /\ j.artist \in Nat /\ j.date \in DateRow
  BY DEF Job
<1>2. j # NULL
  BY NullAssumption
<1> QED
  BY <1>1, <1>2 DEF ShowRow, DateRow

-----------------------------------------------------------------------------
(***************************************************************************)
(* Partitions and retry topics from a position on.                         *)
(***************************************************************************)

\* The elements of a sequence.
LEMMA Elements ==
    ASSUME NEW S, NEW s \in Seq(S)
    PROVE  /\ Len(s) \in Nat /\ \A i \in 1 .. Len(s) : s[i] \in S
           /\ ToSet(s) = {s[i] : i \in 1 .. Len(s)}
<1>1. Len(s) \in Nat /\ \A i \in 1 .. Len(s) : s[i] \in S
  OBVIOUS
<1>2. DOMAIN s = 1 .. Len(s)
  OBVIOUS
<1> QED
  BY <1>1, <1>2 DEF ToSet

\* One more element at the end.
LEMMA Appended ==
    ASSUME NEW S, NEW s \in Seq(S), NEW e \in S
    PROVE  /\ Append(s, e) \in Seq(S) /\ Len(Append(s, e)) = Len(s) + 1
           /\ \A i \in 1 .. Len(s) : Append(s, e)[i] = s[i]
           /\ Append(s, e)[Len(s) + 1] = e
OBVIOUS

\* The first element off.
LEMMA Rest ==
    ASSUME NEW S, NEW s \in Seq(S), s # <<>>
    PROVE  /\ Tail(s) \in Seq(S) /\ Len(s) \in Nat /\ Len(s) >= 1 /\ Len(Tail(s)) = Len(s) - 1
           /\ \A i \in 1 .. Len(s) - 1 : Tail(s)[i] = s[i + 1]
           /\ Head(s) = s[1] /\ Head(s) \in S
OBVIOUS

\* Copies at the end.
LEMMA Joined ==
    ASSUME NEW S, NEW s \in Seq(S), NEW t \in Seq(S)
    PROVE  /\ s \o t \in Seq(S) /\ Len(s \o t) = Len(s) + Len(t)
           /\ \A i \in 1 .. Len(s) : (s \o t)[i] = s[i]
           /\ \A i \in 1 .. Len(t) : (s \o t)[Len(s) + i] = t[i]
OBVIOUS

\* What was to be read still is when the partition grows.
LEMMA FromGrows ==
    ASSUME NEW S, NEW s \in Seq(S), NEW e \in S, NEW i \in Nat, i >= 1
    PROVE  /\ From(s, i) \subseteq From(Append(s, e), i)
           /\ i <= Len(s) + 1 => e \in From(Append(s, e), i)
<1>1. Len(s) \in Nat
  OBVIOUS
<1>2. From(s, i) \subseteq From(Append(s, e), i)
  <2> SUFFICES ASSUME NEW x \in i .. Len(s)
               PROVE  s[x] \in From(Append(s, e), i)
    BY DEF From
  <2>1. x \in 1 .. Len(s) /\ x \in i .. Len(Append(s, e))
    BY <1>1, Appended
  <2> QED
    BY <2>1, Appended DEF From
<1>3. i <= Len(s) + 1 => e \in From(Append(s, e), i)
  <2>1. i <= Len(s) + 1 => Len(s) + 1 \in i .. Len(Append(s, e))
    BY <1>1, Appended
  <2> QED
    BY <2>1, Appended DEF From
<1> QED
  BY <1>2, <1>3

\* The next position on, one message fewer.
LEMMA FromNext ==
    ASSUME NEW S, NEW s \in Seq(S), NEW i \in Nat, i >= 1
    PROVE  /\ From(s, i + 1) \subseteq From(s, i)
           /\ i <= Len(s) => From(s, i) = From(s, i + 1) \cup {s[i]}
<1>1. Len(s) \in Nat
  OBVIOUS
<1>2. i + 1 .. Len(s) \subseteq i .. Len(s)
  BY <1>1
<1>3. i <= Len(s) => i .. Len(s) = (i + 1 .. Len(s)) \cup {i}
  BY <1>1
<1> QED
  BY <1>2, <1>3 DEF From

\* The same of copies.
LEMMA CopiesNext ==
    ASSUME NEW S, NEW s \in Seq(S), NEW i \in Nat, i >= 1
    PROVE  /\ CopiesFrom(s, i + 1) \subseteq CopiesFrom(s, i)
           /\ i <= Len(s) => CopiesFrom(s, i) = CopiesFrom(s, i + 1) \cup {s[i].msg}
<1>1. Len(s) \in Nat
  OBVIOUS
<1>2. i + 1 .. Len(s) \subseteq i .. Len(s)
  BY <1>1
<1>3. i <= Len(s) => i .. Len(s) = (i + 1 .. Len(s)) \cup {i}
  BY <1>1
<1> QED
  BY <1>2, <1>3 DEF CopiesFrom

\* Copies published at the end are to be read, and those before them still are.
LEMMA CopiesGrow ==
    ASSUME NEW S, NEW s \in Seq(S), NEW t \in Seq(S), NEW i \in Nat, i >= 1
    PROVE  /\ CopiesFrom(s, i) \subseteq CopiesFrom(s \o t, i)
           /\ i <= Len(s) + 1 => \A x \in 1 .. Len(t) : t[x].msg \in CopiesFrom(s \o t, i)
<1>1. Len(s) \in Nat /\ Len(t) \in Nat
  OBVIOUS
<1>2. CopiesFrom(s, i) \subseteq CopiesFrom(s \o t, i)
  <2> SUFFICES ASSUME NEW x \in i .. Len(s)
               PROVE  s[x].msg \in CopiesFrom(s \o t, i)
    BY DEF CopiesFrom
  <2>1. x \in 1 .. Len(s) /\ x \in i .. Len(s \o t)
    BY <1>1, Joined
  <2>2. (s \o t)[x] = s[x]
    BY <2>1, Joined
  <2> QED
    BY <2>1, <2>2 DEF CopiesFrom
<1>3. ASSUME i <= Len(s) + 1, NEW x \in 1 .. Len(t)
      PROVE  t[x].msg \in CopiesFrom(s \o t, i)
  <2>1. Len(s) + x \in i .. Len(s \o t)
    BY <1>1, <1>3, Joined
  <2>2. (s \o t)[Len(s) + x] = t[x]
    BY Joined
  <2> QED
    BY <2>1, <2>2 DEF CopiesFrom
<1> QED
  BY <1>2, <1>3

\* A retry topic read past its first copy.
LEMMA CopiesRest ==
    ASSUME NEW S, NEW s \in Seq(S), s # <<>>
    PROVE  CopiesFrom(Tail(s), 1) = CopiesFrom(s, 2)
<1>1. Len(s) \in Nat /\ Len(s) >= 1 /\ Len(Tail(s)) = Len(s) - 1
  BY Rest
<1>2. CopiesFrom(Tail(s), 1) \subseteq CopiesFrom(s, 2)
  <2> SUFFICES ASSUME NEW x \in 1 .. Len(Tail(s))
               PROVE  Tail(s)[x].msg \in CopiesFrom(s, 2)
    BY DEF CopiesFrom
  <2>1. x + 1 \in 2 .. Len(s) /\ Tail(s)[x] = s[x + 1]
    BY <1>1, Rest
  <2> QED
    BY <2>1 DEF CopiesFrom
<1>3. CopiesFrom(s, 2) \subseteq CopiesFrom(Tail(s), 1)
  <2> SUFFICES ASSUME NEW x \in 2 .. Len(s)
               PROVE  s[x].msg \in CopiesFrom(Tail(s), 1)
    BY DEF CopiesFrom
  <2>1. x - 1 \in 1 .. Len(Tail(s)) /\ Tail(s)[x - 1] = s[(x - 1) + 1] /\ (x - 1) + 1 = x
    BY <1>1, Rest
  <2> QED
    BY <2>1 DEF CopiesFrom
<1> QED
  BY <1>2, <1>3

-----------------------------------------------------------------------------
(***************************************************************************)
(* The rows and their moves.                                               *)
(***************************************************************************)

\* The rows' fields.
LEMMA RowFields ==
    ASSUME TypeOK
    PROVE  /\ show.published \in Nat /\ show.updatable \in Nat /\ artist \in Nat
           /\ date.scheduled \in Nat /\ date.publication \in Nat /\ date.doc \in Nat
           /\ index.date.version \in Nat /\ index.date.scheduled \in Nat
           /\ index.date.publication \in Nat /\ index.date.published \in Nat
           /\ index.date.updatable \in Nat /\ index.date.artist \in Nat
           /\ index.show.version \in Nat /\ index.show.published \in Nat
           /\ index.show.updatable \in Nat
BY DEF TypeOK, ShowRow, DateRow

\* Two rows of the same fields are one.
LEMMA SameShow ==
    ASSUME NEW s \in ShowRow, NEW t \in ShowRow
    PROVE  s.published = t.published /\ s.updatable = t.updatable => s = t
BY DEF ShowRow

\* So are two dates.
LEMMA SameDate ==
    ASSUME NEW s \in DateRow, NEW t \in DateRow
    PROVE  s.scheduled = t.scheduled /\ s.publication = t.publication /\ s.doc = t.doc => s = t
BY DEF DateRow

\* What a fact leaves of a show.
LEMMA ShowAfter ==
    ASSUME NEW m \in Facts, NEW s \in ShowRow
    PROVE  LET t == showAfter(m, s)
           IN  /\ t \in ShowRow /\ s.published \in Nat /\ s.updatable \in Nat
               /\ t.updatable = IF VersionOf[m] >= s.updatable THEN VersionOf[m] ELSE s.updatable
               /\ t.published = IF KindOf[m] = "show_published" /\ VersionOf[m] >= s.published
                                THEN VersionOf[m] ELSE s.published
BY FactKinds DEF showAfter, takes, ShowRow

\* What a fact leaves of a date.
LEMMA DateAfter ==
    ASSUME NEW m \in Facts, NEW d \in DateRow
    PROVE  LET t == dateAfter(m, d)
           IN  /\ t \in DateRow /\ t.doc = d.doc
               /\ t.scheduled = IF KindOf[m] = "date_scheduled" THEN VersionOf[m] ELSE d.scheduled
               /\ t.publication =
                     IF KindOf[m] = "date_scheduled" THEN d.publication ELSE VersionOf[m]
BY FactKinds DEF dateAfter, DateRow

\* What a recomposition leaves of it.
LEMMA Recomposed ==
    ASSUME NEW d \in DateRow
    PROVE  LET t == recomposed(d)
           IN  /\ t \in DateRow /\ t.scheduled = d.scheduled /\ t.publication = d.publication
               /\ t.doc = IF d.scheduled = 0 THEN d.doc ELSE d.doc + 1
BY DEF recomposed, DateRow

\* Where a transaction begins.
LEMMA BeginShape ==
    ASSUME TypeOK, NEW w \in Consumers, NEW next \in Delivery, Begin(w, next)
    PROVE  LET j == job'[w]
               m == next.msg
               k == KeyOf(m)
           IN  /\ job' = [job EXCEPT ![w] = j] /\ j \in Job /\ m \in Facts
               /\ j.msg = m /\ j.attempts = next.attempts /\ j.phase = "open"
               /\ Claimable(m) /\ \A row \in j.locks : ~Locked(row)
               /\ j.outcome = "duplicate" <=> m \in processed
               /\ j.outcome # "applied" =>
                     j.locks = {k} /\ j.show = show /\ j.artist = artist /\ j.date = date
               /\ j.outcome = "superseded" => Superseded(m)
               /\ j.first <=> j.locks = {}
               /\ j.outcome = "applied" =>
                     /\ ~Superseded(m)
                     /\ k = "show" => j.show = showAfter(m, show)
                     /\ k = "artist" => j.artist = VersionOf[m]
                     /\ k = "date" => /\ j.locks = {k} /\ j.show = show /\ j.artist = artist
                                      /\ j.date = recomposed(dateAfter(m, date))
                     /\ k # "date" =>
                           /\ \/ j.locks = {k} \cup (IF date.scheduled # 0 THEN {"date"} ELSE {})
                              \/ k = "artist" /\ j.locks = {}
                           /\ j.date = recomposed(date)
<1> DEFINE m == next.msg
           k == KeyOf(m)
           outcome == IF m \in processed THEN "duplicate"
                      ELSE IF Superseded(m) THEN "superseded" ELSE "applied"
           dates == IF outcome = "applied" /\ date.scheduled # 0 THEN {"date"} ELSE {}
<1>1. m \in Facts /\ next.attempts \in 0..Tiers /\ k \in Key /\ VersionOf[m] \in Nat
  BY FactKinds DEF Delivery
<1>2. show \in ShowRow /\ artist \in Nat /\ date \in DateRow /\ job \in [Consumers -> Job \cup {NULL}]
  BY DEF TypeOK
<1>3. /\ showAfter(m, show) \in ShowRow /\ recomposed(date) \in DateRow
      /\ recomposed(dateAfter(m, date)) \in DateRow
  BY <1>1, <1>2, ShowAfter, DateAfter, Recomposed
<1>4. ASSUME NEW locks \in SUBSET Key, NEW s \in ShowRow, NEW a \in Nat, NEW d \in DateRow,
             Begun(w, next, outcome, locks, s, a, d)
      PROVE  LET j == job'[w]
             IN  /\ job' = [job EXCEPT ![w] = j] /\ j \in Job
                 /\ j.msg = m /\ j.attempts = next.attempts /\ j.phase = "open"
                 /\ j.outcome = outcome /\ j.locks = locks /\ j.first = (locks = {})
                 /\ j.show = s /\ j.artist = a /\ j.date = d
                 /\ Claimable(m) /\ \A row \in j.locks : ~Locked(row)
  <2> DEFINE made == [msg |-> next.msg, attempts |-> next.attempts, phase |-> "open",
                      outcome |-> outcome, locks |-> locks, first |-> locks = {},
                      show |-> s, artist |-> a, date |-> d]
  <2>1. made \in Job
    BY <1>1, <1>4 DEF Job
  <2>2. job' = [job EXCEPT ![w] = made] /\ Claimable(m) /\ \A row \in locks : ~Locked(row)
    BY <1>4 DEF Begun
  <2>3. job'[w] = made
    BY <2>2, <1>2
  <2>4. /\ made.msg = m /\ made.attempts = next.attempts /\ made.phase = "open"
        /\ made.outcome = outcome /\ made.locks = locks /\ made.first = (locks = {})
        /\ made.show = s /\ made.artist = a /\ made.date = d
    OBVIOUS
  <2> HIDE DEF made, outcome
  <2> QED
    BY <2>1, <2>2, <2>3, <2>4
<1>5. dates \in SUBSET Key /\ {k} \in SUBSET Key /\ {k} \cup dates \in SUBSET Key
  BY <1>1 DEF Key
<1>6. CASE outcome # "applied"
  <2>1. Begun(w, next, outcome, {k}, show, artist, date)
    BY <1>6 DEF Begin
  <2> QED
    BY <1>1, <1>2, <1>4, <1>5, <1>6, <2>1
<1>7. CASE outcome = "applied" /\ k = "show"
  <2>1. Begun(w, next, outcome, {k} \cup dates, showAfter(m, show), 0, recomposed(date))
    BY <1>7 DEF Begin
  <2>2. dates = (IF date.scheduled # 0 THEN {"date"} ELSE {}) /\ k # "date"
    BY <1>7
  <2>3. m \notin processed /\ ~Superseded(m)
    BY <1>7
  <2> HIDE DEF outcome, dates, k, m
  <2>4. LET j == job'[w]
        IN  /\ job' = [job EXCEPT ![w] = j] /\ j \in Job
            /\ j.msg = m /\ j.attempts = next.attempts /\ j.phase = "open"
            /\ j.outcome = outcome /\ j.locks = {k} \cup dates /\ j.first = (j.locks = {})
            /\ j.show = showAfter(m, show) /\ j.date = recomposed(date)
            /\ Claimable(m) /\ \A row \in j.locks : ~Locked(row)
    BY <1>3, <1>4, <1>5, <2>1
  <2> QED
    BY <1>1, <1>7, <2>2, <2>3, <2>4 DEF m, k
<1>8. CASE outcome = "applied" /\ k = "artist"
  <2> DEFINE locks == IF artist = 0 THEN {} ELSE {k} \cup dates
  <2>0. locks \in SUBSET Key /\ locks \in {{}, {k} \cup dates}
    BY <1>5
  <2>1. Begun(w, next, outcome, locks, show, VersionOf[m], recomposed(date))
    BY <1>8 DEF Begin
  <2>2. dates = (IF date.scheduled # 0 THEN {"date"} ELSE {}) /\ k # "date"
    BY <1>8
  <2>3. m \notin processed /\ ~Superseded(m)
    BY <1>8
  <2> HIDE DEF outcome, dates, k, m, locks
  <2>4. LET j == job'[w]
        IN  /\ job' = [job EXCEPT ![w] = j] /\ j \in Job
            /\ j.msg = m /\ j.attempts = next.attempts /\ j.phase = "open"
            /\ j.outcome = outcome /\ j.locks = locks /\ j.first = (j.locks = {})
            /\ j.artist = VersionOf[m] /\ j.date = recomposed(date)
            /\ Claimable(m) /\ \A row \in j.locks : ~Locked(row)
    BY <1>1, <1>2, <1>3, <1>4, <2>0, <2>1
  <2> QED
    BY <1>1, <1>8, <2>0, <2>2, <2>3, <2>4 DEF m, k
<1>9. CASE outcome = "applied" /\ k \notin {"show", "artist"}
  <2>1. Begun(w, next, outcome, {k}, show, artist, recomposed(dateAfter(m, date)))
    BY <1>9 DEF Begin
  <2>2. k = "date"
    BY <1>1, <1>9 DEF Key
  <2>3. m \notin processed /\ ~Superseded(m)
    BY <1>9
  <2> HIDE DEF outcome, dates, k, m
  <2>4. LET j == job'[w]
        IN  /\ job' = [job EXCEPT ![w] = j] /\ j \in Job
            /\ j.msg = m /\ j.attempts = next.attempts /\ j.phase = "open"
            /\ j.outcome = outcome /\ j.locks = {k} /\ j.first = (j.locks = {})
            /\ j.show = show /\ j.artist = artist /\ j.date = recomposed(dateAfter(m, date))
            /\ Claimable(m) /\ \A row \in j.locks : ~Locked(row)
    BY <1>2, <1>3, <1>4, <1>5, <2>1
  <2> QED
    BY <1>1, <1>9, <2>2, <2>3, <2>4 DEF m, k
<1> QED
  BY <1>6, <1>7, <1>8, <1>9

-----------------------------------------------------------------------------
(***************************************************************************)
(* What the actions make of a consumer's job.                              *)
(***************************************************************************)

\* A consumer's job.
LEMMA JobOf ==
    ASSUME TypeOK, NEW w \in Consumers, job[w] # NULL
    PROVE  job[w] \in Job
BY DEF TypeOK

\* What a reader takes is its partition's next, or the retry topic's first.
LEMMA DeliveredShape ==
    ASSUME TypeOK, NEW w \in Consumers, NEW next \in Delivered(w)
    PROVE  /\ next \in Delivery /\ w \in Readers
           /\ w[1] = "main" => /\ offset[w[2]] + 1 <= Len(topic[w[2]])
                               /\ next.msg = topic[w[2]][offset[w[2]] + 1]
           /\ w[1] = "retry" => retry[w[2]] # <<>> /\ next = retry[w[2]][1]
<1>1. w[1] \in Lane /\ w[2] \in Key
  BY Lanes
<1>2. topic[w[2]] \in Seq(Facts) /\ offset[w[2]] \in Nat /\ retry[w[2]] \in Seq(Delivery)
  BY <1>1 DEF TypeOK
<1>3. Len(topic[w[2]]) \in Nat
  BY <1>2
<1>4. CASE w[1] = "main" /\ offset[w[2]] < Len(topic[w[2]])
  <2>1. next = [msg |-> topic[w[2]][offset[w[2]] + 1], attempts |-> 0]
    BY <1>4 DEF Delivered
  <2>2. offset[w[2]] + 1 \in 1 .. Len(topic[w[2]])
    BY <1>2, <1>3, <1>4
  <2>3. topic[w[2]][offset[w[2]] + 1] \in Facts
    BY <1>2, <2>2, Elements
  <2>4. 0 \in 0 .. Tiers
    BY SearchIndexConstants DEF SearchIndexConstants
  <2> QED
    BY <1>3, <1>4, <2>1, <2>2, <2>3, <2>4, Lanes DEF Delivery
<1>5. CASE w[1] = "retry" /\ retry[w[2]] # <<>>
  <2>1. next = Head(retry[w[2]])
    BY <1>5 DEF Delivered
  <2> QED
    BY <1>2, <1>5, <2>1, Rest, Lanes
<1> QED
  BY <1>1, <1>4, <1>5 DEF Delivered, Lane

\* A transaction's end.
LEMMA CommitShape ==
    ASSUME TypeOK, NEW w \in Consumers, Commit(w)
    PROVE  LET i == job[w]
               j == job'[w]
           IN  /\ i \in Job /\ i.phase = "open" /\ i.locks # {}
               /\ job' = [job EXCEPT ![w] = j] /\ j \in Job
               /\ j.msg = i.msg /\ j.attempts = i.attempts /\ j.outcome = i.outcome
               /\ j.locks = i.locks /\ j.artist = i.artist /\ j.date = i.date
               /\ j.show = IF KeyOf(i.msg) = "artist" THEN show ELSE i.show
               /\ j.phase = IF i.outcome = "superseded" THEN "done"
                            ELSE IF KeyOf(i.msg) = "show" THEN "put_show" ELSE "put_date"
<1> DEFINE i == job[w]
           made == [i EXCEPT !.phase = PhaseAfter(i),
                             !.show = IF KeyOf(i.msg) = "artist" THEN show ELSE @]
<1>1. i \in Job /\ i.phase = "open" /\ i.locks # {}
  BY JobOf DEF Commit, Open
<1>2. job' = [job EXCEPT ![w] = made]
  BY DEF Commit
<1>3. job'[w] = made
  BY <1>2 DEF TypeOK
<1>4. PhaseAfter(i) = (IF i.outcome = "superseded" THEN "done"
                       ELSE IF KeyOf(i.msg) = "show" THEN "put_show" ELSE "put_date")
  BY DEF PhaseAfter
<1>5. PhaseAfter(i) \in {"open", "put_show", "put_date", "done"} /\ show \in ShowRow
  BY DEF PhaseAfter, TypeOK
<1> HIDE DEF i
<1>6. /\ made \in Job
      /\ made.msg = i.msg /\ made.attempts = i.attempts /\ made.outcome = i.outcome
      /\ made.locks = i.locks /\ made.artist = i.artist /\ made.date = i.date
      /\ made.show = (IF KeyOf(i.msg) = "artist" THEN show ELSE i.show)
      /\ made.phase = PhaseAfter(i)
  BY <1>1, <1>5 DEF Job
<1> HIDE DEF made
<1> QED
  BY <1>1, <1>2, <1>3, <1>4, <1>6 DEF i

\* The show's document put.
LEMMA PutShowShape ==
    ASSUME TypeOK, NEW w \in Consumers, PutShow(w)
    PROVE  LET i == job[w]
               j == job'[w]
           IN  /\ i \in Job /\ i.phase = "put_show"
               /\ job' = [job EXCEPT ![w] = j] /\ j \in Job
               /\ j.msg = i.msg /\ j.attempts = i.attempts /\ j.outcome = i.outcome
               /\ j.locks = i.locks /\ j.show = i.show /\ j.date = i.date
               /\ j.artist = IF i.show.published = 0 THEN 0 ELSE artist
               /\ j.phase = "put_date"
<1> DEFINE i == job[w]
           a == IF i.show.published = 0 THEN 0 ELSE artist
           made == [i EXCEPT !.phase = "put_date", !.artist = a]
<1>1. i \in Job /\ i.phase = "put_show"
  BY JobOf DEF PutShow
<1>2. job' = [job EXCEPT ![w] = made]
  BY DEF PutShow
<1>3. job'[w] = made
  BY <1>2 DEF TypeOK
<1>4. a \in Nat
  BY DEF TypeOK
<1> HIDE DEF i, a
<1>5. /\ made \in Job
      /\ made.msg = i.msg /\ made.attempts = i.attempts /\ made.outcome = i.outcome
      /\ made.locks = i.locks /\ made.show = i.show /\ made.date = i.date
      /\ made.artist = a /\ made.phase = "put_date"
  BY <1>1, <1>4 DEF Job
<1> HIDE DEF made
<1> QED
  BY <1>1, <1>2, <1>3, <1>5 DEF i, a

\* The date's document put.
LEMMA PutDateShape ==
    ASSUME TypeOK, NEW w \in Consumers, PutDate(w)
    PROVE  LET i == job[w]
               j == job'[w]
           IN  /\ i \in Job /\ i.phase = "put_date"
               /\ job' = [job EXCEPT ![w] = j] /\ j \in Job
               /\ j.msg = i.msg /\ j.attempts = i.attempts /\ j.outcome = i.outcome
               /\ j.locks = i.locks /\ j.show = i.show /\ j.date = i.date
               /\ j.artist = i.artist /\ j.phase = "done"
<1> DEFINE i == job[w]
           made == [i EXCEPT !.phase = "done"]
<1>1. i \in Job /\ i.phase = "put_date"
  BY JobOf DEF PutDate
<1>2. job' = [job EXCEPT ![w] = made]
  BY DEF PutDate
<1>3. job'[w] = made
  BY <1>2 DEF TypeOK
<1> HIDE DEF i
<1>4. /\ made \in Job
      /\ made.msg = i.msg /\ made.attempts = i.attempts /\ made.outcome = i.outcome
      /\ made.locks = i.locks /\ made.show = i.show /\ made.date = i.date
      /\ made.artist = i.artist /\ made.phase = "done"
  BY <1>1 DEF Job
<1> HIDE DEF made
<1> QED
  BY <1>1, <1>2, <1>3, <1>4 DEF i

\* An artist saved, and its row held.
LEMMA SaveShape ==
    ASSUME TypeOK, NEW w \in Consumers, SaveArtist(w)
    PROVE  LET i == job[w]
               j == job'[w]
           IN  /\ i \in Job /\ i.phase = "open" /\ i.locks = {}
               /\ job' = [job EXCEPT ![w] = j] /\ j \in Job
               /\ j.msg = i.msg /\ j.attempts = i.attempts /\ j.outcome = i.outcome
               /\ j.first = i.first /\ j.show = i.show /\ j.artist = i.artist
               /\ j.phase = "open" /\ j.date = recomposed(date)
               /\ j.locks = {"artist"} \cup (IF date.scheduled # 0 THEN {"date"} ELSE {})
               /\ \A row \in j.locks : ~Locked(row)
<1> DEFINE i == job[w]
           locks == {"artist"} \cup (IF date.scheduled # 0 THEN {"date"} ELSE {})
           made == [i EXCEPT !.locks = locks, !.date = recomposed(date)]
<1>1. i \in Job /\ i.phase = "open" /\ i.locks = {} /\ \A row \in locks : ~Locked(row)
  BY JobOf DEF SaveArtist, Open
<1>2. job' = [job EXCEPT ![w] = made]
  BY DEF SaveArtist
<1>3. job'[w] = made
  BY <1>2 DEF TypeOK
<1>4. locks \in SUBSET Key /\ recomposed(date) \in DateRow
  BY Recomposed DEF Key, TypeOK
<1> HIDE DEF i, locks
<1>5. /\ made \in Job
      /\ made.msg = i.msg /\ made.attempts = i.attempts /\ made.outcome = i.outcome
      /\ made.first = i.first /\ made.show = i.show /\ made.artist = i.artist
      /\ made.phase = i.phase /\ made.date = recomposed(date) /\ made.locks = locks
  BY <1>1, <1>4 DEF Job
<1> HIDE DEF made
<1> QED
  BY <1>1, <1>2, <1>3, <1>5 DEF i, locks

\* A handler that fails, by an outage or by a conflict.
LEMMA FailsShape ==
    ASSUME TypeOK, NEW w \in Consumers, HandlerFails(w) \/ SaveConflicts(w)
    PROVE  /\ job[w] # NULL /\ job[w] \in Job /\ faults' \in 0 .. MaxFaults
           /\ job' = [job EXCEPT ![w] = NULL] /\ UNCHANGED <<wal, topic, model, index>>
           /\ \E permanent \in BOOLEAN :
                 /\ advanced(w, routeFailure(job[w], permanent).copies)
                 /\ dead' = dead \cup routeFailure(job[w], permanent).dead
<1>1. job[w] # NULL /\ job[w] \in Job
  BY JobOf DEF HandlerFails, SaveConflicts, Open
<1>2. faults' \in 0 .. MaxFaults
  <2>1. faults \in 0 .. MaxFaults /\ MaxFaults \in Nat
    BY SearchIndexConstants DEF TypeOK, SearchIndexConstants
  <2>2. (faults < MaxFaults /\ faults' = faults + 1) \/ faults' = faults
    BY DEF HandlerFails, SaveConflicts, Fault
  <2> QED
    BY <2>1, <2>2
<1>3. \E permanent \in BOOLEAN : FailsWith(w, permanent)
  BY DEF HandlerFails, SaveConflicts, Errors
<1> QED
  BY <1>1, <1>2, <1>3 DEF FailsWith

\* What a failure publishes: the next attempt's copy, or the dead letter.
LEMMA RouteShape ==
    ASSUME NEW j \in Job, NEW permanent \in BOOLEAN
    PROVE  LET route == routeFailure(j, permanent)
           IN  /\ route.copies \in Seq(Delivery) /\ route.dead \subseteq Facts
               /\ \A x \in 1 .. Len(route.copies) : route.copies[x].msg = j.msg
               /\ j.msg \in route.dead \/ Len(route.copies) = 1
<1>1. j.msg \in Facts /\ j.attempts \in 0 .. Tiers /\ Tiers \in Nat
  BY JobFields, SearchIndexConstants DEF SearchIndexConstants
<1> DEFINE copy == [msg |-> j.msg, attempts |-> j.attempts + 1]
<1>2. CASE ~permanent /\ j.attempts < Tiers
  <2>1. copy \in Delivery /\ copy.msg = j.msg
    BY <1>1, <1>2 DEF Delivery
  <2>2. routeFailure(j, permanent) = [copies |-> <<copy>>, dead |-> {}]
    BY <1>2 DEF routeFailure
  <2> HIDE DEF copy
  <2>3. <<copy>> \in Seq(Delivery) /\ Len(<<copy>>) = 1 /\ <<copy>>[1] = copy
    BY <2>1
  <2> QED
    BY <2>1, <2>2, <2>3
<1>3. CASE permanent \/ ~(j.attempts < Tiers)
  <2>1. routeFailure(j, permanent) = [copies |-> <<>>, dead |-> {j.msg}]
    BY <1>3 DEF routeFailure
  <2> QED
    BY <1>1, <2>1
<1> QED
  BY <1>2, <1>3

-----------------------------------------------------------------------------
(***************************************************************************)
(* Types.                                                                  *)
(***************************************************************************)

\* The index's documents.
ShowDocument == [version : Nat, published : Nat, updatable : Nat]

DateDocument ==
    [version : Nat, scheduled : Nat, publication : Nat, published : Nat, updatable : Nat,
     artist : Nat]

\* Documents composed of rows.
LEMMA Composed ==
    ASSUME NEW s \in ShowRow, NEW a \in Nat, NEW d \in DateRow
    PROVE  /\ showDocumentOf(s) \in ShowDocument /\ dateDocumentOf(d, s, a) \in DateDocument
           /\ showDocumentOf(s).version \in Nat /\ dateDocumentOf(d, s, a).version \in Nat
BY DEF showDocumentOf, dateDocumentOf, MaxOf, ShowRow, DateRow, ShowDocument, DateDocument

\* The index as TypeOK has it.
LEMMA IndexFields ==
    ASSUME TypeOK
    PROVE  index \in [show : ShowDocument, date : DateDocument]
BY DEF TypeOK, ShowDocument, DateDocument

\* The first state.
LEMMA TypeInit ==
    ASSUME Init
    PROVE  TypeOK
<1>1. show \in ShowRow /\ artist \in Nat /\ date \in DateRow
  BY DEF Init, ShowRow, DateRow
<1>2. index \in [show : ShowDocument, date : DateDocument]
  BY <1>1, Composed DEF Init
<1>3. /\ wal \in [Key -> Seq(Facts)] /\ topic \in [Key -> Seq(Facts)]
      /\ offset \in [Key -> Nat] /\ retry \in [Key -> Seq(Delivery)]
      /\ dead \subseteq Facts /\ processed \subseteq Facts /\ overwritten \subseteq Facts
      /\ job \in [Consumers -> Job \cup {NULL}] /\ faults \in 0 .. MaxFaults
  BY SearchIndexConstants DEF Init, SearchIndexConstants
<1> QED
  BY <1>1, <1>2, <1>3 DEF TypeOK, ShowDocument, DateDocument

\* What a job leaves behind keeps its type.
LEMMA LeftTypes ==
    ASSUME TypeOK, NEW w \in Consumers, NEW copies \in Seq(Delivery),
           job' = [job EXCEPT ![w] = NULL], dead' \subseteq Facts,
           UNCHANGED <<wal, topic, model, index>>, faults' \in 0 .. MaxFaults,
           \/ advanced(w, copies) /\ (w[1] = "retry" => retry[w[2]] # <<>>)
           \/ offset' = offset /\ retry' = [retry EXCEPT ![w[2]] = @ \o copies]
    PROVE  TypeOK'
<1>1. w[2] \in Key
  BY Lanes
<1>2. retry[w[2]] \in Seq(Delivery) /\ offset[w[2]] \in Nat
  BY <1>1 DEF TypeOK
<1>3. retry[w[2]] \o copies \in Seq(Delivery)
  BY <1>2, Joined
<1>4. retry[w[2]] # <<>> => Tail(retry[w[2]]) \o copies \in Seq(Delivery)
  BY <1>2, Rest, Joined
<1>5. offset' \in [Key -> Nat] /\ retry' \in [Key -> Seq(Delivery)]
  <2>0. offset \in [Key -> Nat] /\ retry \in [Key -> Seq(Delivery)]
    BY DEF TypeOK
  <2>1. offset[w[2]] + 1 \in Nat
    BY <1>2
  <2>2. CASE w[1] = "main" /\ advanced(w, copies)
    BY <1>1, <1>3, <2>0, <2>1, <2>2 DEF advanced
  <2>3. CASE w[1] = "retry" /\ retry[w[2]] # <<>> /\ advanced(w, copies)
    BY <1>1, <1>4, <2>0, <2>3 DEF advanced
  <2>4. CASE w[1] \notin {"main", "retry"} /\ advanced(w, copies)
    BY <1>1, <1>3, <2>0, <2>4 DEF advanced
  <2>5. CASE offset' = offset /\ retry' = [retry EXCEPT ![w[2]] = @ \o copies]
    BY <1>1, <1>3, <2>0, <2>5
  <2> QED
    BY <2>2, <2>3, <2>4, <2>5
<1>6. job' \in [Consumers -> Job \cup {NULL}]
  BY DEF TypeOK
<1> QED
  BY <1>5, <1>6 DEF TypeOK, model

\* TypeOK is inductive, with what the queues hold.
LEMMA TypeStep ==
    ASSUME TypeOK, QueueOK, [Next]_vars
    PROVE  TypeOK'
<1>1. CASE UNCHANGED vars
  BY <1>1 DEF vars, path, model, TypeOK
<1>0. faults < MaxFaults => faults + 1 \in 0 .. MaxFaults
  BY SearchIndexConstants DEF TypeOK, SearchIndexConstants
<1>2. CASE LoseSlot
  <2>1. wal' \in [Key -> Seq(Facts)] /\ faults' \in 0 .. MaxFaults
    BY <1>0, <1>2 DEF LoseSlot, Fault
  <2> QED
    BY <1>2, <2>1 DEF LoseSlot, model, TypeOK
<1>3. ASSUME NEW k \in Key, Relay(k)
      PROVE  TypeOK'
  <2>1. Append(topic[k], Head(wal[k])) \in Seq(Facts) /\ Tail(wal[k]) \in Seq(Facts)
    BY <1>3, Rest, Appended DEF Relay, TypeOK
  <2> QED
    BY <1>3, <2>1 DEF Relay, model, TypeOK
<1>4. ASSUME NEW m \in Facts, republishOutboxRow(m)
      PROVE  TypeOK'
  <2>1. KeyOf(m) \in Key
    BY FactKinds
  <2>2. Append(wal[KeyOf(m)], m) \in Seq(Facts)
    BY <2>1, Appended DEF TypeOK
  <2> QED
    BY <1>0, <1>4, <2>1, <2>2 DEF republishOutboxRow, Fault, model, TypeOK
<1>5. ASSUME NEW w \in Consumers, eachMessage(w)
      PROVE  TypeOK'
  <2>1. PICK next \in Delivered(w) : Begin(w, next)
    BY <1>5 DEF eachMessage
  <2>2. job' = [job EXCEPT ![w] = job'[w]] /\ job'[w] \in Job
    BY <2>1, DeliveredShape, BeginShape
  <2>3. job' \in [Consumers -> Job \cup {NULL}]
    BY <2>2 DEF TypeOK
  <2> QED
    BY <1>5, <2>3 DEF eachMessage, path, model, TypeOK
<1>6. ASSUME NEW w \in Consumers, Commit(w)
      PROVE  TypeOK'
  <2>1. job' = [job EXCEPT ![w] = job'[w]] /\ job'[w] \in Job /\ job[w] \in Job
    BY <1>6, CommitShape
  <2>2. job' \in [Consumers -> Job \cup {NULL}]
    BY <2>1 DEF TypeOK
  <2>3. /\ job[w].msg \in Facts /\ job[w].show \in ShowRow /\ job[w].artist \in Nat
        /\ job[w].date \in DateRow
    BY <2>1, JobFields
  <2>4. /\ processed' \subseteq Facts /\ overwritten' \subseteq Facts
        /\ show' \in ShowRow /\ artist' \in Nat /\ date' \in DateRow
    BY <1>6, <2>3 DEF Commit, TypeOK
  <2> QED
    BY <1>6, <2>2, <2>4 DEF Commit, path, TypeOK
<1>7. ASSUME NEW w \in Consumers, PutShow(w)
      PROVE  TypeOK'
  <2>1. job' = [job EXCEPT ![w] = job'[w]] /\ job'[w] \in Job /\ job[w] \in Job
    BY <1>7, PutShowShape
  <2>2. job' \in [Consumers -> Job \cup {NULL}]
    BY <2>1 DEF TypeOK
  <2>3. showDocumentOf(job[w].show) \in ShowDocument
    BY <2>1, JobFields, Composed
  <2>4. index' \in [show : ShowDocument, date : DateDocument]
    BY <1>7, <2>3, IndexFields DEF PutShow, showPut, versionedPut
  <2> QED
    BY <1>7, <2>2, <2>4 DEF PutShow, path, model, TypeOK, ShowDocument, DateDocument
<1>8. ASSUME NEW w \in Consumers, PutDate(w)
      PROVE  TypeOK'
  <2>1. job' = [job EXCEPT ![w] = job'[w]] /\ job'[w] \in Job /\ job[w] \in Job
    BY <1>8, PutDateShape
  <2>2. job' \in [Consumers -> Job \cup {NULL}]
    BY <2>1 DEF TypeOK
  <2>3. dateDocumentOf(job[w].date, job[w].show, job[w].artist) \in DateDocument
    BY <2>1, JobFields, Composed
  <2>4. index' \in [show : ShowDocument, date : DateDocument]
    BY <1>8, <2>3, IndexFields DEF PutDate, versionedPut
  <2> QED
    BY <1>8, <2>2, <2>4 DEF PutDate, path, model, TypeOK, ShowDocument, DateDocument
<1>9. ASSUME NEW w \in Consumers, job[w] # NULL, w[1] = "retry"
      PROVE  retry[w[2]] # <<>>
  <2>1. w[2] \in Key /\ job[<<"retry", w[2]>>] # NULL
    BY <1>9, Lanes
  <2>2. 1 <= Len(retry[w[2]])
    BY <2>1 DEF QueueOK, HandsOK
  <2> QED
    BY <2>1, <2>2 DEF TypeOK
<1>10. ASSUME NEW w \in Consumers, Return(w)
       PROVE  TypeOK'
  <2>1. <<>> \in Seq(Delivery)
    OBVIOUS
  <2>2. dead' \subseteq Facts /\ faults' \in 0 .. MaxFaults
    BY <1>10 DEF Return, TypeOK
  <2> QED
    BY <1>9, <1>10, <2>1, <2>2, LeftTypes DEF Return
<1>11. ASSUME NEW j \in Job
       PROVE  Errors(j) \subseteq BOOLEAN
  BY DEF Errors
<1>12. ASSUME NEW w \in Consumers, HandlerFails(w) \/ SaveConflicts(w)
       PROVE  TypeOK'
  <2>1. /\ job[w] # NULL /\ job[w] \in Job /\ faults' \in 0 .. MaxFaults
        /\ job' = [job EXCEPT ![w] = NULL] /\ UNCHANGED <<wal, topic, model, index>>
    BY <1>12, FailsShape
  <2>2. PICK permanent \in BOOLEAN :
           /\ advanced(w, routeFailure(job[w], permanent).copies)
           /\ dead' = dead \cup routeFailure(job[w], permanent).dead
    BY <1>12, FailsShape
  <2>3. dead' \subseteq Facts /\ routeFailure(job[w], permanent).copies \in Seq(Delivery)
    BY <2>1, <2>2, RouteShape DEF TypeOK
  <2> QED
    BY <1>9, <2>1, <2>2, <2>3, LeftTypes
<1>13. ASSUME NEW w \in Consumers, Crash(w)
       PROVE  TypeOK'
  <2>1. job[w] \in Job
    BY <1>13, JobOf DEF Crash
  <2>2. CASE UNCHANGED <<retry, dead>>
    <3>1. job' \in [Consumers -> Job \cup {NULL}] /\ faults' \in 0 .. MaxFaults
      BY <1>0, <1>13 DEF Crash, Fault, TypeOK
    <3> QED
      BY <1>13, <2>2, <3>1 DEF Crash, model, TypeOK
  <2>3. CASE \E permanent \in Errors(job[w]) :
                /\ retry' = [retry EXCEPT ![w[2]] = @ \o routeFailure(job[w], permanent).copies]
                /\ dead' = dead \cup routeFailure(job[w], permanent).dead
    <3>1. PICK permanent \in Errors(job[w]) :
             /\ retry' = [retry EXCEPT ![w[2]] = @ \o routeFailure(job[w], permanent).copies]
             /\ dead' = dead \cup routeFailure(job[w], permanent).dead
      BY <2>3
    <3>2. permanent \in BOOLEAN
      BY <1>11, <2>1
    <3>3. dead' \subseteq Facts /\ routeFailure(job[w], permanent).copies \in Seq(Delivery)
      BY <2>1, <3>1, <3>2, RouteShape DEF TypeOK
    <3> QED
      BY <1>0, <1>13, <3>1, <3>3, LeftTypes DEF Crash, Fault
  <2> QED
    BY <1>13, <2>2, <2>3 DEF Crash
<1>14. ASSUME NEW w \in Consumers, Reassign(w)
       PROVE  TypeOK'
  <2>1. <<"zombie", w[2]>> \in Consumers
    BY Lanes DEF Lane
  <2>2. job' \in [Consumers -> Job \cup {NULL}] /\ faults' \in 0 .. MaxFaults
    BY <1>0, <1>14, <2>1 DEF Reassign, Fault, TypeOK
  <2> QED
    BY <1>14, <2>2 DEF Reassign, path, model, TypeOK
<1>15. ASSUME NEW w \in Consumers, SaveArtist(w)
       PROVE  TypeOK'
  <2>1. job' = [job EXCEPT ![w] = job'[w]] /\ job'[w] \in Job
    BY <1>15, SaveShape
  <2>2. job' \in [Consumers -> Job \cup {NULL}]
    BY <2>1 DEF TypeOK
  <2> QED
    BY <1>15, <2>2 DEF SaveArtist, path, model, TypeOK
<1> QED
  BY <1>1, <1>2, <1>3, <1>4, <1>5, <1>6, <1>7, <1>8, <1>10, <1>12, <1>13, <1>14, <1>15
     DEF Next, Step

-----------------------------------------------------------------------------
(***************************************************************************)
(* The queues.                                                             *)
(***************************************************************************)

\* What the path holds of a key.
LEMMA PathFields ==
    ASSUME TypeOK, NEW k \in Key
    PROVE  /\ topic[k] \in Seq(Facts) /\ wal[k] \in Seq(Facts) /\ retry[k] \in Seq(Delivery)
           /\ offset[k] \in Nat /\ Len(topic[k]) \in Nat /\ Len(wal[k]) \in Nat
           /\ Len(retry[k]) \in Nat
<1>1. /\ topic[k] \in Seq(Facts) /\ wal[k] \in Seq(Facts) /\ retry[k] \in Seq(Delivery)
      /\ offset[k] \in Nat
  BY DEF TypeOK
<1> QED
  BY <1>1

\* Nothing is read or published: what waits still does, and hands hold what they held.
LEMMA SameHands ==
    ASSUME TypeOK, QueueOK, UNCHANGED <<topic, offset, retry>>,
           \A k \in Key : \A i \in 1 .. Len(wal'[k]) : KeyOf(wal'[k][i]) = k,
           \A v \in Consumers :
              /\ job'[v] = NULL <=> job[v] = NULL
              /\ job[v] # NULL => job'[v].msg = job[v].msg
              /\ Open(v)' => Open(v)
    PROVE  QueueOK' /\ \A m \in Facts : Free(m)' <=> Free(m)
<1>1. ASSUME NEW k \in Key
      PROVE  FreeTopic(k)' = FreeTopic(k) /\ FreeRetry(k)' = FreeRetry(k)
  <2>1. <<"main", k>> \in Consumers /\ <<"retry", k>> \in Consumers
    BY Lanes DEF Lane
  <2> QED
    BY <2>1 DEF FreeTopic, FreeRetry
<1>2. ASSUME NEW m \in Facts
      PROVE  Free(m)' <=> Free(m)
  BY <1>1, FactKinds DEF Free
<1>3. ASSUME NEW k \in Key
      PROVE  PathOK(k)' /\ HandsOK(k)'
  <2>1. /\ <<"main", k>> \in Consumers /\ <<"retry", k>> \in Consumers
        /\ <<"zombie", k>> \in Consumers
    BY Lanes DEF Lane
  <2>2. PathOK(k) /\ HandsOK(k)
    BY DEF QueueOK
  <2>3. PathOK(k)'
    BY <2>2 DEF PathOK
  <2>4. ASSUME NEW m \in Facts, Open(<<"zombie", k>>)', job'[<<"zombie", k>>].msg = m
        PROVE  Free(m)'
    <3>1. Open(<<"zombie", k>>) /\ job[<<"zombie", k>>].msg = m
      BY <2>1, <2>4 DEF Open
    <3> QED
      BY <1>2, <2>2, <3>1 DEF HandsOK
  <2> QED
    BY <2>1, <2>2, <2>3, <2>4 DEF HandsOK
<1>4. ASSUME NEW w \in Consumers, job'[w] # NULL
      PROVE  KeyOf(job'[w].msg) = w[2]
  BY <1>4 DEF QueueOK
<1> QED
  BY <1>2, <1>3, <1>4 DEF QueueOK

\* The connector publishes a row: it is to be read, and so is what was.
LEMMA Relayed ==
    ASSUME TypeOK, QueueOK, NEW k \in Key, Relay(k)
    PROVE  QueueOK' /\ \A m \in Facts : Free(m) \/ m = Head(wal[k]) => Free(m)'
<1> DEFINE main == <<"main", k>>
           i == offset[k] + (IF job[main] = NULL THEN 1 ELSE 2)
<1>0. PICK e \in Facts : e = Head(wal[k])
  BY Rest DEF Relay, TypeOK
<1>1. /\ job' = job /\ offset' = offset /\ retry' = retry
      /\ topic' = [topic EXCEPT ![k] = Append(topic[k], e)]
      /\ wal' = [wal EXCEPT ![k] = Tail(wal[k])] /\ wal[k] # <<>>
  BY <1>0 DEF Relay
<1>2. /\ topic \in [Key -> Seq(Facts)] /\ wal \in [Key -> Seq(Facts)] /\ offset[k] \in Nat
      /\ topic[k] \in Seq(Facts) /\ wal[k] \in Seq(Facts) /\ Len(topic[k]) \in Nat
  BY PathFields DEF TypeOK
<1>3. /\ e = wal[k][1] /\ Len(wal[k]) \in Nat /\ Len(wal[k]) >= 1
      /\ Len(Tail(wal[k])) = Len(wal[k]) - 1
      /\ \A x \in 1 .. Len(wal[k]) - 1 : Tail(wal[k])[x] = wal[k][x + 1]
  BY <1>0, <1>1, <1>2, Rest
<1>4. PathOK(k) /\ HandsOK(k)
  BY DEF QueueOK
<1>5. KeyOf(e) = k
  BY <1>3, <1>4 DEF PathOK
<1>6. /\ topic'[k] = Append(topic[k], e) /\ wal'[k] = Tail(wal[k])
      /\ \A l \in Key : l # k => topic'[l] = topic[l] /\ wal'[l] = wal[l]
  BY <1>1, <1>2
<1>7. /\ Len(topic'[k]) = Len(topic[k]) + 1 /\ topic'[k][Len(topic[k]) + 1] = e
      /\ \A x \in 1 .. Len(topic[k]) : topic'[k][x] = topic[k][x]
  BY <1>2, <1>3, <1>6, Appended
<1>8. i \in Nat /\ i >= 1 /\ i <= Len(topic[k]) + 1
  <2>1. offset[k] <= Len(topic[k])
    BY <1>4 DEF PathOK
  <2>2. job[main] # NULL => offset[k] + 1 <= Len(topic[k])
    BY <1>4 DEF HandsOK
  <2> QED
    BY <1>2, <2>1, <2>2
<1>9. FreeTopic(k) \subseteq FreeTopic(k)' /\ e \in FreeTopic(k)'
  <2>1. FreeTopic(k) = From(topic[k], i) /\ FreeTopic(k)' = From(topic'[k], i)
    BY <1>1 DEF FreeTopic
  <2> HIDE DEF i
  <2> QED
    BY <1>2, <1>3, <1>6, <1>8, <2>1, FromGrows
<1>10. \A l \in Key : FreeRetry(l)' = FreeRetry(l) /\ (l # k => FreeTopic(l)' = FreeTopic(l))
  BY <1>1, <1>6 DEF FreeTopic, FreeRetry
<1>11. Free(e)' /\ \A m \in Facts : Free(m) => Free(m)'
  <2>1. Free(e)'
    BY <1>5, <1>9 DEF Free
  <2>2. ASSUME NEW m \in Facts, Free(m)
        PROVE  Free(m)'
    BY <1>9, <1>10, <2>2, FactKinds DEF Free
  <2> QED
    BY <2>1, <2>2
<1>12. ASSUME NEW l \in Key
       PROVE  PathOK(l)' /\ HandsOK(l)'
  <2>1. PathOK(l) /\ HandsOK(l)
    BY DEF QueueOK
  <2>2. CASE l # k
    BY <1>1, <1>6, <1>11, <2>1, <2>2 DEF PathOK, HandsOK, Open
  <2>3. CASE l = k
    <3>1. \A x \in 1 .. Len(topic'[k]) : KeyOf(topic'[k][x]) = k
      <4> SUFFICES ASSUME NEW x \in 1 .. Len(topic'[k])
                   PROVE  KeyOf(topic'[k][x]) = k
        OBVIOUS
      <4>1. x \in 1 .. Len(topic[k]) \/ x = Len(topic[k]) + 1
        BY <1>2, <1>7
      <4> QED
        BY <1>4, <1>5, <1>7, <4>1 DEF PathOK
    <3>2. \A x \in 1 .. Len(wal'[k]) : KeyOf(wal'[k][x]) = k
      <4> SUFFICES ASSUME NEW x \in 1 .. Len(wal[k]) - 1
                   PROVE  KeyOf(Tail(wal[k])[x]) = k
        BY <1>3, <1>6
      <4>1. x + 1 \in 1 .. Len(wal[k])
        BY <1>3
      <4> QED
        BY <1>3, <1>4, <4>1 DEF PathOK
    <3>3. PathOK(k)'
      BY <1>1, <1>2, <1>4, <1>7, <3>1, <3>2 DEF PathOK
    <3>4. HandsOK(k)'
      <4>1. job[main] # NULL => offset[k] + 1 \in 1 .. Len(topic[k])
        BY <1>2, <1>4 DEF HandsOK
      <4>2. job[main] # NULL =>
               offset[k] + 1 <= Len(topic'[k]) /\ job[main].msg = topic'[k][offset[k] + 1]
        BY <1>2, <1>4, <1>7, <4>1 DEF HandsOK
      <4>3. job[<<"retry", k>>] # NULL =>
               1 <= Len(retry[k]) /\ job[<<"retry", k>>].msg = retry[k][1].msg
        BY <1>4 DEF HandsOK
      <4>4. \A m \in Facts : Open(<<"zombie", k>>)' /\ job'[<<"zombie", k>>].msg = m => Free(m)'
        <5>1. \A m \in Facts : Open(<<"zombie", k>>) /\ job[<<"zombie", k>>].msg = m => Free(m)
          BY <1>4 DEF HandsOK
        <5>2. Open(<<"zombie", k>>)' <=> Open(<<"zombie", k>>)
          BY <1>1 DEF Open
        <5> QED
          BY <1>1, <1>11, <5>1, <5>2
      <4> QED
        BY <1>1, <4>2, <4>3, <4>4 DEF HandsOK
    <3> QED
      BY <2>3, <3>3, <3>4
  <2> QED
    BY <2>2, <2>3
<1>13. ASSUME NEW w \in Consumers, job'[w] # NULL
       PROVE  KeyOf(job'[w].msg) = w[2]
  BY <1>1, <1>13 DEF QueueOK
<1> QED
  BY <1>0, <1>11, <1>12, <1>13 DEF QueueOK

\* A reader takes its next message: what waits besides still does.
LEMMA Taken ==
    ASSUME TypeOK, QueueOK, NEW w \in Consumers, job[w] = NULL, UNCHANGED path,
           NEW next \in Delivered(w), Begin(w, next)
    PROVE  QueueOK' /\ \A m \in Facts : Free(m) /\ m # next.msg => Free(m)'
<1> DEFINE k == w[2]
           i == offset[k] + 1
<1>1. /\ next \in Delivery /\ w \in Readers
      /\ w[1] = "main" => offset[k] + 1 <= Len(topic[k]) /\ next.msg = topic[k][offset[k] + 1]
      /\ w[1] = "retry" => retry[k] # <<>> /\ next = retry[k][1]
  BY DeliveredShape
<1>2. /\ job' = [job EXCEPT ![w] = job'[w]] /\ job'[w] \in Job
      /\ job'[w].msg = next.msg /\ job'[w].phase = "open" /\ Claimable(next.msg)
      /\ next.msg \in Facts
  BY <1>1, BeginShape
<1>3. /\ job'[w] # NULL /\ \A v \in Consumers : v # w => job'[v] = job[v]
  BY <1>2, JobFields DEF TypeOK
<1>4. /\ topic' = topic /\ wal' = wal /\ offset' = offset /\ retry' = retry
  BY DEF path
<1>5. k \in Key /\ w \in {<<"main", k>>, <<"retry", k>>} /\ w[1] \in {"main", "retry"}
  BY <1>1, Lanes
<1>6. /\ topic[k] \in Seq(Facts) /\ retry[k] \in Seq(Delivery) /\ i \in Nat /\ i >= 1
      /\ offset[k] \in Nat
  BY <1>5, PathFields
<1>7. \A l \in Key : \A m : m # next.msg =>
         /\ m \in FreeTopic(l) => m \in FreeTopic(l)'
         /\ m \in FreeRetry(l) => m \in FreeRetry(l)'
  <2>1. ASSUME NEW l \in Key, w # <<"main", l>>
        PROVE  FreeTopic(l)' = FreeTopic(l)
    <3>1. <<"main", l>> \in Consumers
      BY Lanes DEF Lane
    <3> QED
      BY <1>3, <1>4, <2>1, <3>1 DEF FreeTopic
  <2>2. ASSUME NEW l \in Key, w # <<"retry", l>>
        PROVE  FreeRetry(l)' = FreeRetry(l)
    <3>1. <<"retry", l>> \in Consumers
      BY Lanes DEF Lane
    <3> QED
      BY <1>3, <1>4, <2>2, <3>1 DEF FreeRetry
  <2>3. ASSUME NEW l \in Key, w = <<"main", l>>
        PROVE  FreeTopic(l) = FreeTopic(l)' \cup {next.msg}
    <3>1. l = k /\ w[1] = "main"
      BY <2>3, Lanes DEF Lane
    <3>2. FreeTopic(k) = From(topic[k], i) /\ FreeTopic(k)' = From(topic[k], offset[k] + 2)
      BY <1>3, <1>4, <2>3, <3>1 DEF FreeTopic
    <3>3. offset[k] + 2 = i + 1
      BY <1>6
    <3>4. i <= Len(topic[k]) /\ next.msg = topic[k][i]
      BY <1>1, <3>1
    <3> HIDE DEF i, k
    <3> QED
      BY <1>6, <3>1, <3>2, <3>3, <3>4, FromNext
  <2>4. ASSUME NEW l \in Key, w = <<"retry", l>>
        PROVE  FreeRetry(l) = FreeRetry(l)' \cup {next.msg}
    <3>1. l = k /\ w[1] = "retry"
      BY <2>4, Lanes DEF Lane
    <3>2. FreeRetry(k) = CopiesFrom(retry[k], 1) /\ FreeRetry(k)' = CopiesFrom(retry[k], 1 + 1)
      BY <1>3, <1>4, <2>4, <3>1 DEF FreeRetry
    <3>3. 1 <= Len(retry[k]) /\ next.msg = retry[k][1].msg
      BY <1>1, <1>6, <3>1, Rest
    <3> HIDE DEF k
    <3> QED
      BY <1>6, <3>1, <3>2, <3>3, CopiesNext
  <2> QED
    BY <2>1, <2>2, <2>3, <2>4
<1>8. ASSUME NEW m \in Facts, Free(m), m # next.msg
      PROVE  Free(m)'
  BY <1>7, <1>8, FactKinds DEF Free
<1>9. ASSUME NEW l \in Key
      PROVE  PathOK(l)' /\ HandsOK(l)'
  <2>1. PathOK(l) /\ HandsOK(l)
    BY DEF QueueOK
  <2>2. PathOK(l)'
    BY <1>4, <2>1 DEF PathOK
  <2>3. /\ <<"main", l>> \in Consumers /\ <<"retry", l>> \in Consumers
        /\ <<"zombie", l>> \in Consumers /\ <<"zombie", l>> # w
    BY <1>5, Lanes DEF Lane
  <2>4. job'[<<"main", l>>] # NULL =>
           offset[l] + 1 <= Len(topic[l]) /\ job'[<<"main", l>>].msg = topic[l][offset[l] + 1]
    <3>1. CASE w = <<"main", l>>
      <4>1. l = k /\ w[1] = "main"
        BY <3>1, Lanes DEF Lane
      <4> QED
        BY <1>1, <1>2, <3>1, <4>1
    <3>2. CASE w # <<"main", l>>
      BY <1>3, <2>1, <2>3, <3>2 DEF HandsOK
    <3> QED
      BY <3>1, <3>2
  <2>5. job'[<<"retry", l>>] # NULL =>
           1 <= Len(retry[l]) /\ job'[<<"retry", l>>].msg = retry[l][1].msg
    <3>1. CASE w = <<"retry", l>>
      <4>1. l = k /\ w[1] = "retry"
        BY <3>1, Lanes DEF Lane
      <4>2. 1 <= Len(retry[k])
        BY <1>1, <1>6, <4>1, Rest
      <4> QED
        BY <1>1, <1>2, <3>1, <4>1, <4>2
    <3>2. CASE w # <<"retry", l>>
      BY <1>3, <2>1, <2>3, <3>2 DEF HandsOK
    <3> QED
      BY <3>1, <3>2
  <2>6. ASSUME NEW m \in Facts, Open(<<"zombie", l>>)', job'[<<"zombie", l>>].msg = m
        PROVE  Free(m)'
    <3>1. Open(<<"zombie", l>>) /\ job[<<"zombie", l>>].msg = m
      BY <1>3, <2>3, <2>6 DEF Open
    <3>2. m # next.msg
      BY <1>2, <2>3, <3>1 DEF Claimable
    <3>3. Free(m)
      BY <2>1, <3>1 DEF HandsOK
    <3> QED
      BY <1>8, <3>2, <3>3
  <2> QED
    BY <1>4, <2>2, <2>4, <2>5, <2>6 DEF HandsOK
<1>10. ASSUME NEW v \in Consumers, job'[v] # NULL
       PROVE  KeyOf(job'[v].msg) = v[2]
  <2>1. CASE v # w
    BY <1>3, <1>10, <2>1 DEF QueueOK
  <2>2. CASE v = w
    <3>1. PathOK(k)
      BY <1>5 DEF QueueOK
    <3>2. CASE w[1] = "main"
      <4>1. offset[k] + 1 \in 1 .. Len(topic[k])
        BY <1>1, <1>5, <1>6, <3>2, PathFields
      <4> QED
        BY <1>1, <1>2, <2>2, <3>1, <3>2, <4>1 DEF PathOK
    <3>3. CASE w[1] = "retry"
      <4>1. 1 \in 1 .. Len(retry[k])
        BY <1>1, <1>6, <3>3, Rest
      <4> QED
        BY <1>1, <1>2, <2>2, <3>1, <3>3, <4>1 DEF PathOK
    <3> QED
      BY <1>5, <3>2, <3>3
  <2> QED
    BY <2>1, <2>2
<1> QED
  BY <1>8, <1>9, <1>10 DEF QueueOK

\* A job is over: what waits still does, and so do its copies.
LEMMA Left ==
    ASSUME TypeOK, QueueOK, NEW w \in Consumers, job[w] # NULL, UNCHANGED <<wal, topic>>,
           job' = [job EXCEPT ![w] = NULL], NEW copies \in Seq(Delivery),
           \A x \in 1 .. Len(copies) : copies[x].msg = job[w].msg,
           \/ advanced(w, copies)
           \/ offset' = offset /\ retry' = [retry EXCEPT ![w[2]] = @ \o copies]
    PROVE  /\ QueueOK' /\ \A m \in Facts : Free(m) => Free(m)'
           /\ \A m \in Facts : job[w].msg = m /\ Len(copies) = 1 => Free(m)'
           /\ \A m \in Facts : job[w].msg = m /\ w \in Readers /\ offset' = offset
                                  /\ retry' = [retry EXCEPT ![w[2]] = @ \o copies] => Free(m)'
<1> DEFINE k == w[2]
           main == <<"main", k>>
           second == <<"retry", k>>
           i == offset[k] + (IF job[main] = NULL THEN 1 ELSE 2)
           r == IF w = second /\ retry' # [retry EXCEPT ![k] = @ \o copies]
                THEN Tail(retry[k]) ELSE retry[k]
           first == IF job[second] = NULL THEN 1 ELSE 2
           after == IF job'[second] = NULL THEN 1 ELSE 2
<1>1. k \in Key /\ w \in {main, second, <<"zombie", k>>} /\ w[1] \in Lane
  BY Lanes DEF Lane
<1>2. /\ main \in Consumers /\ second \in Consumers
      /\ main[1] = "main" /\ second[1] = "retry" /\ main # second
      /\ w = main <=> w[1] = "main"
      /\ w = second <=> w[1] = "retry"
  BY <1>1, Lanes DEF Lane
<1>3. job'[w] = NULL /\ \A v \in Consumers : v # w => job'[v] = job[v]
  BY DEF TypeOK
<1>4. /\ topic[k] \in Seq(Facts) /\ retry[k] \in Seq(Delivery) /\ offset[k] \in Nat
      /\ Len(topic[k]) \in Nat /\ Len(retry[k]) \in Nat
  BY <1>1, PathFields
<1>5. topic' = topic /\ wal' = wal
  OBVIOUS
<1>6. PathOK(k) /\ HandsOK(k) /\ KeyOf(job[w].msg) = k /\ job[w].msg \in Facts
  BY <1>1, JobOf, JobFields DEF QueueOK
<1>7. w = second => retry[k] # <<>> /\ 1 <= Len(retry[k]) /\ job[w].msg = retry[k][1].msg
  <2>1. w = second => 1 <= Len(retry[k]) /\ job[w].msg = retry[k][1].msg
    BY <1>6 DEF HandsOK
  <2> QED
    BY <1>4, <2>1
<1>8. /\ \A l \in Key : l # k => retry'[l] = retry[l] /\ offset'[l] = offset[l]
      /\ offset'[k] = offset[k] \/ (w = main /\ offset'[k] = offset[k] + 1)
      /\ retry'[k] = r \o copies /\ r \in Seq(Delivery)
      /\ r = retry[k] \/ (w = second /\ r = Tail(retry[k]))
  <2>1. offset \in [Key -> Nat] /\ retry \in [Key -> Seq(Delivery)]
    BY DEF TypeOK
  <2>2. CASE retry' = [retry EXCEPT ![k] = @ \o copies] /\ offset' = offset
    BY <1>1, <1>4, <2>1, <2>2
  <2>3. CASE advanced(w, copies)
    <3>1. offset' = IF w = main THEN [offset EXCEPT ![k] = @ + 1] ELSE offset
      BY <1>2, <2>3 DEF advanced
    <3>2. retry' = [retry EXCEPT ![k] = (IF w = second THEN Tail(@) ELSE @) \o copies]
      BY <1>2, <2>3 DEF advanced
    <3>3. w = second => Tail(retry[k]) \in Seq(Delivery)
      BY <1>4, <1>7, Rest
    <3>4. w = second => retry' = [retry EXCEPT ![k] = Tail(@) \o copies]
      BY <3>2
    <3>5. w # second => retry' = [retry EXCEPT ![k] = @ \o copies]
      BY <3>2
    <3> HIDE DEF main, second, k
    <3>6. retry'[k] = r \o copies /\ r \in Seq(Delivery)
      BY <1>1, <1>4, <2>1, <3>3, <3>4, <3>5
    <3> QED
      BY <1>1, <1>4, <2>1, <3>1, <3>4, <3>5, <3>6
  <2> QED
    BY <2>2, <2>3
<1>9. ASSUME NEW l \in Key, l # k
      PROVE  FreeTopic(l)' = FreeTopic(l) /\ FreeRetry(l)' = FreeRetry(l)
  <2>1. /\ <<"main", l>> \in Consumers /\ <<"retry", l>> \in Consumers
        /\ w # <<"main", l>> /\ w # <<"retry", l>>
    BY <1>1, <1>9, Lanes DEF Lane
  <2> QED
    BY <1>3, <1>5, <1>8, <1>9, <2>1 DEF FreeTopic, FreeRetry
<1>10. FreeTopic(k) \subseteq FreeTopic(k)'
  <2>1. FreeTopic(k) = From(topic[k], i)
    BY DEF FreeTopic
  <2>2. CASE w # main
    <3>1. offset'[k] = offset[k] /\ job'[main] = job[main]
      BY <1>2, <1>3, <1>8, <2>2
    <3> QED
      BY <1>5, <3>1 DEF FreeTopic
  <2>3. CASE w = main
    <3>1. i = offset[k] + 2 /\ FreeTopic(k)' = From(topic[k], offset'[k] + 1)
      BY <1>3, <1>5, <2>3 DEF FreeTopic
    <3>2. offset'[k] = offset[k] + 1 => offset'[k] + 1 = i
      BY <1>4, <3>1
    <3>3. offset'[k] = offset[k] => (offset'[k] + 1) + 1 = i /\ offset'[k] + 1 \in Nat
                                       /\ offset'[k] + 1 >= 1
      BY <1>4, <3>1
    <3>4. offset'[k] = offset[k] \/ offset'[k] = offset[k] + 1
      BY <1>8
    <3> HIDE DEF i, k
    <3> QED
      BY <1>4, <2>1, <3>1, <3>2, <3>3, <3>4, FromNext
  <2> QED
    BY <2>2, <2>3
<1>11. /\ FreeRetry(k) = CopiesFrom(retry[k], first)
       /\ FreeRetry(k)' = CopiesFrom(r \o copies, after)
  BY <1>8 DEF FreeRetry
<1>12. /\ after \in Nat /\ after >= 1 /\ after <= Len(r) + 1 /\ Len(r) \in Nat
       /\ FreeRetry(k) \subseteq CopiesFrom(r, after)
  <2>1. CASE w # second
    <3>1. job'[second] = job[second] /\ r = retry[k]
      BY <1>2, <1>3, <2>1
    <3>2. job[second] # NULL => 1 <= Len(retry[k])
      BY <1>6 DEF HandsOK
    <3>3. after = first /\ after \in {1, 2} /\ (after = 2 => job[second] # NULL)
      BY <3>1
    <3> HIDE DEF r, after, first, k, second
    <3> QED
      BY <1>4, <1>11, <3>1, <3>2, <3>3
  <2>2. CASE w = second
    <3>1. first = 2 /\ after = 1
      BY <1>3, <2>2
    <3> HIDE DEF r, after, first, k, second
    <3>2. CASE r = Tail(retry[k])
      <4>1. CopiesFrom(r, 1) = CopiesFrom(retry[k], 2) /\ Len(r) \in Nat
        BY <1>4, <1>7, <1>8, <2>2, <3>2, CopiesRest
      <4> QED
        BY <1>11, <3>1, <4>1
    <3>3. CASE r = retry[k]
      <4>1. CopiesFrom(retry[k], 1 + 1) \subseteq CopiesFrom(retry[k], 1)
        BY <1>4, CopiesNext
      <4> QED
        BY <1>4, <1>11, <3>1, <3>3, <4>1
    <3> QED
      BY <1>8, <3>2, <3>3
  <2> QED
    BY <2>1, <2>2
<1> HIDE DEF r, after
<1>13. /\ CopiesFrom(r, after) \subseteq FreeRetry(k)'
       /\ \A x \in 1 .. Len(copies) : copies[x].msg \in FreeRetry(k)'
  BY <1>8, <1>11, <1>12, CopiesGrow
<1>14. ASSUME NEW m \in Facts, Free(m)
       PROVE  Free(m)'
  BY <1>9, <1>10, <1>12, <1>13, <1>14, FactKinds DEF Free
<1>15. ASSUME NEW m \in Facts, job[w].msg = m, Len(copies) = 1
       PROVE  Free(m)'
  <2>1. copies[1].msg = m /\ 1 \in 1 .. Len(copies)
    BY <1>15
  <2> QED
    BY <1>6, <1>13, <1>15, <2>1 DEF Free
<1>16. ASSUME NEW m \in Facts, job[w].msg = m, w \in Readers, offset' = offset,
              retry' = [retry EXCEPT ![w[2]] = @ \o copies]
       PROVE  Free(m)'
  <2>1. CASE w = main
    <3>1. FreeTopic(k)' = From(topic[k], offset[k] + 1)
      BY <1>3, <1>5, <1>16, <2>1 DEF FreeTopic
    <3>2. offset[k] + 1 <= Len(topic[k]) /\ m = topic[k][offset[k] + 1]
      BY <1>6, <1>16, <2>1 DEF HandsOK
    <3>3. offset[k] + 1 \in Nat /\ offset[k] + 1 >= 1
      BY <1>4
    <3>4. m \in From(topic[k], offset[k] + 1)
      <4> HIDE DEF k
      <4> QED
        BY <1>4, <3>2, <3>3, FromNext
    <3> QED
      BY <1>6, <1>16, <3>1, <3>4 DEF Free
  <2>2. CASE w = second
    <3>1. r = retry[k] /\ after = 1
      BY <1>3, <1>16, <2>2 DEF r, after
    <3>2. m \in CopiesFrom(retry[k], 1)
      BY <1>4, <1>7, <1>16, <2>2, CopiesNext
    <3> QED
      BY <1>6, <1>13, <1>16, <3>1, <3>2 DEF Free
  <2> QED
    BY <1>2, <1>16, <2>1, <2>2, Lanes
<1>17. ASSUME NEW l \in Key
       PROVE  PathOK(l)' /\ HandsOK(l)'
  <2>1. PathOK(l) /\ HandsOK(l)
    BY DEF QueueOK
  <2>2. /\ <<"main", l>> \in Consumers /\ <<"retry", l>> \in Consumers
        /\ <<"zombie", l>> \in Consumers
        /\ <<"main", l>>[2] = l /\ <<"retry", l>>[2] = l /\ <<"zombie", l>>[2] = l
    BY Lanes DEF Lane
  <2>3. ASSUME NEW m \in Facts, Open(<<"zombie", l>>)', job'[<<"zombie", l>>].msg = m
        PROVE  Free(m)'
    <3>1. Open(<<"zombie", l>>) /\ job[<<"zombie", l>>].msg = m
      BY <1>3, <2>2, <2>3 DEF Open
    <3> QED
      BY <1>14, <2>1, <3>1 DEF HandsOK
  <2>4. CASE l # k
    <3>1. w # <<"main", l>> /\ w # <<"retry", l>>
      BY <2>2, <2>4
    <3>2. job'[<<"main", l>>] = job[<<"main", l>>] /\ job'[<<"retry", l>>] = job[<<"retry", l>>]
      BY <1>3, <2>2, <3>1
    <3>3. /\ offset'[l] = offset[l] /\ retry'[l] = retry[l]
          /\ topic'[l] = topic[l] /\ wal'[l] = wal[l]
      BY <1>5, <1>8, <2>4
    <3>4. PathOK(l)'
      BY <2>1, <3>3 DEF PathOK
    <3>5. /\ job'[<<"main", l>>] # NULL =>
                /\ offset'[l] + 1 <= Len(topic'[l])
                /\ job'[<<"main", l>>].msg = topic'[l][offset'[l] + 1]
          /\ job'[<<"retry", l>>] # NULL =>
                1 <= Len(retry'[l]) /\ job'[<<"retry", l>>].msg = retry'[l][1].msg
      BY <2>1, <3>2, <3>3 DEF HandsOK
    <3>6. HandsOK(l)'
      BY Zenon, <2>3, <3>5 DEF HandsOK
    <3> QED
      BY <3>4, <3>6
  <2>5. CASE l = k
    <3>1. offset'[k] <= Len(topic[k])
      <4>1. w = main => offset[k] + 1 <= Len(topic[k])
        BY <1>6 DEF HandsOK
      <4>2. offset[k] <= Len(topic[k])
        BY <1>6 DEF PathOK
      <4> QED
        BY <1>4, <1>8, <4>1, <4>2
    <3>2. /\ Len(retry'[k]) = Len(r) + Len(copies) /\ Len(copies) \in Nat
          /\ \A x \in 1 .. Len(r) : retry'[k][x] = r[x]
          /\ \A x \in 1 .. Len(copies) : retry'[k][Len(r) + x] = copies[x]
      BY <1>8, Joined
    <3>3. \A x \in 1 .. Len(r) : KeyOf(r[x].msg) = k
      <4>1. \A x \in 1 .. Len(retry[k]) : KeyOf(retry[k][x].msg) = k
        BY <1>6 DEF PathOK
      <4>2. CASE w = second /\ r = Tail(retry[k])
        <5> SUFFICES ASSUME NEW x \in 1 .. Len(r)
                     PROVE  KeyOf(r[x].msg) = k
          OBVIOUS
        <5>1. x \in 1 .. Len(retry[k]) - 1 /\ x + 1 \in 1 .. Len(retry[k])
          BY <1>4, <1>7, <4>2, Rest
        <5>2. r[x] = retry[k][x + 1]
          BY <1>4, <1>7, <4>2, <5>1, Rest
        <5> QED
          BY <4>1, <5>1, <5>2
      <4> QED
        BY <1>8, <4>1, <4>2
    <3>4. \A x \in 1 .. Len(retry'[k]) : KeyOf(retry'[k][x].msg) = k
      <4> SUFFICES ASSUME NEW x \in 1 .. Len(retry'[k])
                   PROVE  KeyOf(retry'[k][x].msg) = k
        OBVIOUS
      <4>1. CASE x \in 1 .. Len(r)
        BY <3>2, <3>3, <4>1
      <4>2. CASE x > Len(r)
        <5>1. x - Len(r) \in 1 .. Len(copies) /\ x = Len(r) + (x - Len(r))
          BY <1>12, <3>2, <4>2
        <5>2. PICK y \in 1 .. Len(copies) : x = Len(r) + y
          BY <5>1
        <5>3. retry'[k][x] = copies[y] /\ copies[y].msg = job[w].msg
          BY <3>2, <5>2
        <5> QED
          BY <1>6, <5>3
      <4> QED
        BY <1>12, <4>1, <4>2
    <3>5. PathOK(k)'
      BY <1>5, <1>6, <3>1, <3>4 DEF PathOK
    <3>6. job'[main] # NULL =>
             offset'[k] + 1 <= Len(topic[k]) /\ job'[main].msg = topic[k][offset'[k] + 1]
      BY <1>2, <1>3, <1>6, <1>8 DEF HandsOK
    <3>7. job'[second] # NULL =>
             1 <= Len(retry'[k]) /\ job'[second].msg = retry'[k][1].msg
      <4> SUFFICES ASSUME job'[second] # NULL
                   PROVE  1 <= Len(retry'[k]) /\ job'[second].msg = retry'[k][1].msg
        OBVIOUS
      <4>1. w # second /\ job'[second] = job[second] /\ r = retry[k]
        BY <1>2, <1>3, <1>8
      <4>2. 1 \in 1 .. Len(r) /\ job[second].msg = r[1].msg
        BY <1>4, <1>6, <4>1 DEF HandsOK
      <4>3. retry'[k][1] = r[1]
        BY <3>2, <4>2
      <4>4. Len(r) \in Nat /\ 1 <= Len(r)
        BY <1>12, <4>2
      <4>5. 1 <= Len(retry'[k])
        BY <3>2, <4>4
      <4> QED
        BY <4>1, <4>2, <4>3, <4>5
    <3>8. topic'[k] = topic[k]
      BY <1>5
    <3>9. /\ job'[<<"main", l>>] # NULL =>
                /\ offset'[l] + 1 <= Len(topic'[l])
                /\ job'[<<"main", l>>].msg = topic'[l][offset'[l] + 1]
          /\ job'[<<"retry", l>>] # NULL =>
                1 <= Len(retry'[l]) /\ job'[<<"retry", l>>].msg = retry'[l][1].msg
      BY <2>5, <3>6, <3>7, <3>8
    <3>10. HandsOK(l)'
      BY Zenon, <2>3, <3>9 DEF HandsOK
    <3> QED
      BY <2>5, <3>5, <3>10
  <2> QED
    BY <2>4, <2>5
<1>18. ASSUME NEW v \in Consumers, job'[v] # NULL
       PROVE  KeyOf(job'[v].msg) = v[2]
  BY <1>3, <1>18 DEF QueueOK
<1>19. QueueOK'
  BY <1>17, <1>18 DEF QueueOK
<1> QED
  BY <1>14, <1>15, <1>16, <1>19

\* A partition is taken away: the message is to be read again.
LEMMA Reassigned ==
    ASSUME TypeOK, QueueOK, NEW w \in Consumers, Reassign(w)
    PROVE  QueueOK' /\ w \in Readers /\ \A m \in Facts : Free(m) \/ job[w].msg = m => Free(m)'
<1> DEFINE k == w[2]
           zombie == <<"zombie", k>>
<1>1. /\ w # zombie /\ job[w] # NULL /\ job[zombie] = NULL
      /\ job' = [job EXCEPT ![zombie] = job[w], ![w] = NULL]
      /\ topic' = topic /\ wal' = wal /\ offset' = offset /\ retry' = retry
  BY DEF Reassign, path
<1>2. k \in Key /\ w[1] \in {"main", "retry"} /\ w \in Readers /\ zombie \in Consumers
      /\ w \in {<<"main", k>>, <<"retry", k>>}
  BY <1>1, Lanes DEF Lane
<1>3. /\ job'[w] = NULL /\ job'[zombie] = job[w]
      /\ \A v \in Consumers \ {w, zombie} : job'[v] = job[v]
  BY <1>1, <1>2 DEF TypeOK
<1>4. /\ topic[k] \in Seq(Facts) /\ retry[k] \in Seq(Delivery) /\ offset[k] \in Nat
      /\ KeyOf(job[w].msg) = k /\ job[w].msg \in Facts /\ HandsOK(k)
  BY <1>1, <1>2, PathFields, JobOf, JobFields DEF QueueOK
<1>5. ASSUME NEW l \in Key
      PROVE  /\ FreeTopic(l) \subseteq FreeTopic(l)' /\ FreeRetry(l) \subseteq FreeRetry(l)'
             /\ w = <<"main", l>> => job[w].msg \in FreeTopic(l)'
             /\ w = <<"retry", l>> => job[w].msg \in FreeRetry(l)'
  <2>1. /\ <<"main", l>> \in Consumers /\ <<"retry", l>> \in Consumers
        /\ <<"main", l>> # zombie /\ <<"retry", l>> # zombie
        /\ w = <<"main", l>> \/ w = <<"retry", l>> => l = k
    BY <1>2, Lanes DEF Lane
  <2>2. w # <<"main", l>> => FreeTopic(l)' = FreeTopic(l)
    BY <1>1, <1>3, <2>1 DEF FreeTopic
  <2>3. w # <<"retry", l>> => FreeRetry(l)' = FreeRetry(l)
    BY <1>1, <1>3, <2>1 DEF FreeRetry
  <2>4. CASE w = <<"main", l>>
    <3>1. /\ FreeTopic(l) = From(topic[k], offset[k] + 2)
          /\ FreeTopic(l)' = From(topic[k], offset[k] + 1)
      BY <1>1, <1>3, <2>1, <2>4 DEF FreeTopic
    <3>2. offset[k] + 1 <= Len(topic[k]) /\ job[w].msg = topic[k][offset[k] + 1]
      BY <1>1, <1>4, <2>1, <2>4 DEF HandsOK
    <3>3. offset[k] + 1 \in Nat /\ offset[k] + 1 >= 1 /\ offset[k] + 2 = (offset[k] + 1) + 1
      BY <1>4
    <3>4. w # <<"retry", l>>
      BY <2>4
    <3> HIDE DEF k
    <3> QED
      BY <1>4, <2>3, <3>1, <3>2, <3>3, <3>4, FromNext
  <2>5. CASE w = <<"retry", l>>
    <3>1. /\ FreeRetry(l) = CopiesFrom(retry[k], 1 + 1)
          /\ FreeRetry(l)' = CopiesFrom(retry[k], 1)
      BY <1>1, <1>3, <2>1, <2>5 DEF FreeRetry
    <3>2. 1 <= Len(retry[k]) /\ job[w].msg = retry[k][1].msg
      BY <1>1, <1>4, <2>1, <2>5 DEF HandsOK
    <3>3. w # <<"main", l>>
      BY <2>5
    <3> HIDE DEF k
    <3> QED
      BY <1>4, <2>2, <3>1, <3>2, <3>3, CopiesNext
  <2> QED
    BY <2>2, <2>3, <2>4, <2>5
<1>6. ASSUME NEW m \in Facts, Free(m) \/ job[w].msg = m
      PROVE  Free(m)'
  <2>1. KeyOf(m) \in Key
    BY FactKinds
  <2>2. CASE Free(m)
    BY <1>5, <2>1, <2>2 DEF Free
  <2>3. CASE job[w].msg = m
    BY <1>2, <1>4, <1>5, <2>3 DEF Free
  <2> QED
    BY <1>6, <2>2, <2>3
<1>7. ASSUME NEW l \in Key
      PROVE  PathOK(l)' /\ HandsOK(l)'
  <2>1. PathOK(l) /\ HandsOK(l)
    BY DEF QueueOK
  <2>2. PathOK(l)'
    BY <1>1, <2>1 DEF PathOK
  <2>3. /\ <<"main", l>> \in Consumers /\ <<"retry", l>> \in Consumers
        /\ <<"zombie", l>> \in Consumers /\ <<"zombie", l>> # w
        /\ <<"main", l>> # zombie /\ <<"retry", l>> # zombie
    BY <1>2, Lanes DEF Lane
  <2>4. ASSUME NEW m \in Facts, Open(<<"zombie", l>>)', job'[<<"zombie", l>>].msg = m
        PROVE  Free(m)'
    <3>1. CASE <<"zombie", l>> = zombie
      BY <1>3, <1>6, <2>4, <3>1
    <3>2. CASE <<"zombie", l>> # zombie
      <4>1. Open(<<"zombie", l>>) /\ job[<<"zombie", l>>].msg = m
        BY <1>3, <2>3, <2>4, <3>2 DEF Open
      <4> QED
        BY <1>6, <2>1, <4>1 DEF HandsOK
    <3> QED
      BY <3>1, <3>2
  <2>5. /\ job'[<<"main", l>>] # NULL => job'[<<"main", l>>] = job[<<"main", l>>]
        /\ job'[<<"retry", l>>] # NULL => job'[<<"retry", l>>] = job[<<"retry", l>>]
    BY <1>3, <2>3
  <2> QED
    BY <1>1, <2>1, <2>2, <2>4, <2>5 DEF HandsOK
<1>8. ASSUME NEW v \in Consumers, job'[v] # NULL
      PROVE  KeyOf(job'[v].msg) = v[2]
  <2>1. zombie[2] = k
    OBVIOUS
  <2> QED
    BY <1>3, <1>4, <1>8, <2>1 DEF QueueOK
<1> QED
  BY <1>2, <1>6, <1>7, <1>8 DEF QueueOK

-----------------------------------------------------------------------------
(***************************************************************************)
(* The read model and the index, step by step.                             *)
(***************************************************************************)

\* A step of the path, or of who has a job: no row, document or job is written.
Kept ==
    /\ UNCHANGED <<model, index>>
    /\ \E from \in [Consumers -> Consumers] :
          /\ \A v \in Consumers : job'[v] # NULL => job'[v] = job[from[v]]
          /\ \A u, v \in Consumers :
                job'[u] # NULL /\ job'[v] # NULL /\ u # v => from[u] # from[v]

\* Such are the steps of the path, a job's end and a partition's loss.
LEMMA KeptSteps ==
    ASSUME TypeOK, UNCHANGED <<model, index>>, NEW w \in Consumers,
           \/ job' = job \/ job' = [job EXCEPT ![w] = NULL] \/ Reassign(w)
    PROVE  Kept
<1>1. CASE job' = job \/ job' = [job EXCEPT ![w] = NULL]
  <2> DEFINE from == [v \in Consumers |-> v]
  <2>1. from \in [Consumers -> Consumers] /\ \A v \in Consumers : from[v] = v
    OBVIOUS
  <2>2. \A v \in Consumers : job'[v] # NULL => job'[v] = job[v]
    BY <1>1 DEF TypeOK
  <2> HIDE DEF from
  <2> QED
    BY <2>1, <2>2 DEF Kept
<1>2. CASE Reassign(w)
  <2> DEFINE zombie == <<"zombie", w[2]>>
             from == [v \in Consumers |-> IF v = zombie THEN w ELSE v]
  <2>1. zombie \in Consumers
    BY Lanes DEF Lane
  <2>2. /\ from \in [Consumers -> Consumers] /\ from[zombie] = w
        /\ \A v \in Consumers : v # zombie => from[v] = v
    BY <2>1
  <2>3. job'[w] = NULL /\ job'[zombie] = job[w]
        /\ \A v \in Consumers \ {w, zombie} : job'[v] = job[v]
    BY <1>2, <2>1 DEF Reassign, TypeOK
  <2> HIDE DEF from, zombie
  <2>4. \A v \in Consumers : job'[v] # NULL => job'[v] = job[from[v]]
    BY <2>1, <2>2, <2>3
  <2>5. \A u, v \in Consumers : job'[u] # NULL /\ job'[v] # NULL /\ u # v => from[u] # from[v]
    BY <2>1, <2>2, <2>3
  <2> QED
    BY <2>2, <2>4, <2>5 DEF Kept
<1> QED
  BY <1>1, <1>2

\* The rows, the documents and the jobs are as they were.
LEMMA KeptIndex ==
    ASSUME TypeOK, TransactionsOK, DatesChained, ShowsChained, Kept
    PROVE  TransactionsOK' /\ DatesChained' /\ ShowsChained'
<1>1. /\ processed' = processed /\ show' = show /\ artist' = artist /\ date' = date
      /\ index' = index
  BY DEF Kept, model
<1>2. PICK from \in [Consumers -> Consumers] :
         /\ \A v \in Consumers : job'[v] # NULL => job'[v] = job[from[v]]
         /\ \A u, v \in Consumers :
               job'[u] # NULL /\ job'[v] # NULL /\ u # v => from[u] # from[v]
  BY DEF Kept
<1>3. LocksOK'
  <2> SUFFICES ASSUME NEW u \in Consumers, NEW v \in Consumers, Open(u)', Open(v)', u # v
               PROVE  job'[u].locks \cap job'[v].locks = {} /\ job'[u].msg # job'[v].msg
    BY DEF LocksOK
  <2>1. /\ job'[u] = job[from[u]] /\ job'[v] = job[from[v]] /\ from[u] # from[v]
        /\ from[u] \in Consumers /\ from[v] \in Consumers
    BY <1>2 DEF Open
  <2> QED
    BY <2>1 DEF TransactionsOK, LocksOK, Open
<1>4. ASSUME NEW v \in Consumers, job'[v] # NULL
      PROVE  JobOK(job[v])'
  <2>1. job'[v] = job[from[v]] /\ from[v] \in Consumers /\ job[from[v]] # NULL
    BY <1>2, <1>4
  <2>2. JobOK(job[from[v]])
    BY <2>1 DEF TransactionsOK
  <2> QED
    BY <1>1, <2>1, <2>2 DEF JobOK, OpenOK, Superseded
<1>5. DatesChained'
  BY <1>1, <1>2 DEF DatesChained, Composing
<1>6. ShowsChained'
  BY <1>1, <1>2 DEF ShowsChained, Composing
<1> QED
  BY <1>3, <1>4, <1>5, <1>6 DEF TransactionsOK

\* A transaction begins.
LEMMA BegunIndex ==
    ASSUME TypeOK, TransactionsOK, DatesChained, ShowsChained, NEW w \in Consumers,
           NEW next \in Delivery, Begin(w, next), job[w] = NULL, UNCHANGED <<model, index>>
    PROVE  TransactionsOK' /\ DatesChained' /\ ShowsChained'
<1> DEFINE j == job'[w]
           m == next.msg
           k == KeyOf(m)
<1>1. /\ job' = [job EXCEPT ![w] = j] /\ j \in Job /\ m \in Facts
      /\ j.msg = m /\ j.attempts = next.attempts /\ j.phase = "open"
      /\ Claimable(m) /\ \A row \in j.locks : ~Locked(row)
      /\ j.outcome = "duplicate" <=> m \in processed
      /\ j.outcome # "applied" =>
            j.locks = {k} /\ j.show = show /\ j.artist = artist /\ j.date = date
      /\ j.outcome = "superseded" => Superseded(m)
      /\ j.first <=> j.locks = {}
      /\ j.outcome = "applied" =>
            /\ ~Superseded(m)
            /\ k = "show" => j.show = showAfter(m, show)
            /\ k = "artist" => j.artist = VersionOf[m]
            /\ k = "date" => /\ j.locks = {k} /\ j.show = show /\ j.artist = artist
                             /\ j.date = recomposed(dateAfter(m, date))
            /\ k # "date" =>
                  /\ \/ j.locks = {k} \cup (IF date.scheduled # 0 THEN {"date"} ELSE {})
                     \/ k = "artist" /\ j.locks = {}
                  /\ j.date = recomposed(date)
  BY BeginShape
<1>2. /\ processed' = processed /\ show' = show /\ artist' = artist /\ date' = date
      /\ index' = index
  BY DEF model
<1>3. \A v \in Consumers : v # w => job'[v] = job[v]
  BY <1>1 DEF TypeOK
<1>4. j # NULL /\ k \in Key /\ date \in DateRow /\ show \in ShowRow
  BY <1>1, JobFields, FactKinds DEF TypeOK
<1> HIDE DEF j, m
<1>5. LocksOK'
  <2> SUFFICES ASSUME NEW u \in Consumers, NEW v \in Consumers, Open(u)', Open(v)', u # v
               PROVE  job'[u].locks \cap job'[v].locks = {} /\ job'[u].msg # job'[v].msg
    BY DEF LocksOK
  <2>1. CASE u # w /\ v # w
    BY <1>3, <2>1 DEF TransactionsOK, LocksOK, Open
  <2>2. CASE u = w
    <3>1. Open(v) /\ job'[v] = job[v] /\ job'[u] = j
      BY <1>3, <2>2 DEF Open, j
    <3> QED
      BY <1>1, <3>1 DEF Claimable, Locked
  <2>3. CASE v = w
    <3>1. Open(u) /\ job'[u] = job[u] /\ job'[v] = j
      BY <1>3, <2>3 DEF Open, j
    <3> QED
      BY <1>1, <3>1 DEF Claimable, Locked
  <2> QED
    BY <2>1, <2>2, <2>3
<1>6. ASSUME NEW v \in Consumers, job'[v] # NULL, v # w
      PROVE  JobOK(job[v])'
  <2>1. job'[v] = job[v] /\ JobOK(job[v])
    BY <1>3, <1>6 DEF TransactionsOK
  <2> QED
    BY <1>2, <2>1 DEF JobOK, OpenOK, Superseded
<1>7. JobOK(job[w])'
  <2>1. j.locks # {} /\ "date" \notin j.locks /\ j.outcome = "applied" => j.date.scheduled = 0
    <3> SUFFICES ASSUME j.locks # {}, "date" \notin j.locks, j.outcome = "applied"
                 PROVE  j.date.scheduled = 0
      OBVIOUS
    <3>1. k # "date" /\ date.scheduled = 0 /\ j.date = recomposed(date)
      BY <1>1, <1>4
    <3> QED
      BY <1>4, <3>1, Recomposed
  <2>2. /\ j.outcome = "applied" => j.locks \subseteq {k, "date"} /\ (j.locks # {} => k \in j.locks)
        /\ j.first <=> j.locks = {}
        /\ j.locks = {} => k = "artist" /\ j.outcome = "applied"
    BY <1>1
  <2>3. j.outcome = "applied" /\ k # "date" /\ "date" \in j.locks => date.scheduled # 0
    BY <1>1, <1>4
  <2>4. OpenOK(job[w])'
    BY <1>1, <1>2, <2>1, <2>2, <2>3 DEF OpenOK, Superseded, j
  <2> QED
    BY <1>1, <2>4 DEF JobOK, j
<1>8. Composing(j) => j.date = date /\ j.show = show
  BY <1>1 DEF Composing
<1>9. DatesChained'
  <2> DEFINE docs == {v \in Consumers : Composing(job[v]) /\ job[v].date.scheduled # 0}
  <2>1. ASSUME NEW v \in Consumers, Composing(job'[v]), job'[v].date.scheduled # 0, v # w
        PROVE  /\ job'[v] = job[v] /\ v \in docs
    BY <1>3, <2>1
  <2>2. ASSUME NEW v \in docs
        PROVE  /\ job[v].date.doc <= date.doc /\ NoOlder(date, job[v].date)
               /\ job[v].date.doc = date.doc => NoOlder(job[v].date, date)
               /\ job[v].date.doc >= index.date.version => NoOlder(job[v].date, index.date)
               /\ job[v].date.doc <= index.date.version => NoOlder(index.date, job[v].date)
               /\ \A u \in docs : job[u].date.doc >= job[v].date.doc =>
                     NoOlder(job[u].date, job[v].date)
               /\ job[v].date.doc \in Nat
    <3>1. job[v] \in Job
      BY JobOf DEF Composing
    <3> QED
      BY <3>1, JobFields DEF DatesChained
  <2>3. NoOlder(date, date)
    BY RowFields DEF NoOlder
  <2>4. date.scheduled # 0 /\ date.doc <= index.date.version => NoOlder(index.date, date)
    BY RowFields DEF DatesChained
  <2>5. index.date.version <= date.doc /\ NoOlder(date, index.date) /\ date.doc \in Nat
    BY RowFields DEF DatesChained
  <2> HIDE DEF docs
  <2>6. ASSUME NEW v \in Consumers, Composing(job'[v]), job'[v].date.scheduled # 0
        PROVE  /\ job'[v].date.doc <= date.doc /\ NoOlder(date, job'[v].date)
               /\ job'[v].date.doc = date.doc => NoOlder(job'[v].date, date)
               /\ job'[v].date.doc >= index.date.version => NoOlder(job'[v].date, index.date)
               /\ job'[v].date.doc <= index.date.version => NoOlder(index.date, job'[v].date)
    BY <1>8, <2>1, <2>2, <2>3, <2>4, <2>5, <2>6 DEF j
  <2>7. ASSUME NEW v \in Consumers, Composing(job'[v]), job'[v].date.scheduled # 0,
               NEW u \in Consumers, Composing(job'[u]), job'[u].date.scheduled # 0,
               job'[u].date.doc >= job'[v].date.doc
        PROVE  NoOlder(job'[u].date, job'[v].date)
    <3>1. CASE u # w /\ v # w
      BY <2>1, <2>2, <2>7, <3>1
    <3>2. CASE u = w
      BY <1>8, <2>6, <2>7, <3>2 DEF j
    <3>3. CASE v = w /\ u # w
      BY <1>8, <2>1, <2>2, <2>5, <2>7, <3>3 DEF j
    <3> QED
      BY <3>1, <3>2, <3>3
  <2> QED
    BY <1>2, <2>6, <2>7 DEF DatesChained, NoOlder, Composing
<1>10. ShowsChained'
  <2>1. k = "show" => ShowOK(j.show)
    <3>1. CASE j.outcome # "applied"
      BY <1>1, <3>1 DEF ShowsChained
    <3>2. CASE j.outcome = "applied" /\ k = "show"
      <4>1. ShowOK(show) /\ j.show = showAfter(m, show)
        BY <1>1, <3>2 DEF ShowsChained
      <4> QED
        BY <1>1, <1>4, <4>1, ShowAfter, FactKinds DEF ShowOK
    <3> QED
      BY <3>1, <3>2
  <2>2. Composing(j) => j.show.updatable <= show.updatable
    BY <1>8, RowFields
  <2> QED
    BY <1>1, <1>2, <1>3, <2>1, <2>2 DEF ShowsChained, ShowOK, Composing, j
<1> QED
  BY <1>5, <1>6, <1>7, <1>9, <1>10 DEF TransactionsOK

\* What a commit makes of the rows.
LEMMA CommitRows ==
    ASSUME TypeOK, TransactionsOK, NEW w \in Consumers, Commit(w)
    PROVE  LET i == job[w]
               m == i.msg
               k == KeyOf(m)
           IN  /\ m \in Facts /\ k \in Key /\ k \in i.locks /\ OpenOK(i)
               /\ processed' = processed \cup {m} /\ index' = index
               /\ overwritten' = IF ~i.first THEN overwritten
                     ELSE overwritten \cup {n \in processed : /\ KindOf[n] = "artist_updated"
                                                             /\ VersionOf[n] > i.artist}
               /\ i.outcome # "applied" => show' = show /\ artist' = artist /\ date' = date
               /\ i.outcome = "applied" =>
                     /\ show' = IF k = "show" THEN showAfter(m, show) ELSE show
                     /\ artist' = IF k = "artist" THEN VersionOf[m] ELSE artist
                     /\ date' = IF "date" \in i.locks THEN i.date ELSE date
               /\ "show" \notin i.locks => show' = show
               /\ "artist" \notin i.locks => artist' = artist
               /\ "date" \notin i.locks => date' = date
<1> DEFINE i == job[w]
<1>1. i \in Job /\ i.phase = "open" /\ i # NULL /\ i.locks # {}
  BY CommitShape, JobFields
<1>2. OpenOK(i) /\ i.msg \in Facts
  BY <1>1, JobFields DEF TransactionsOK, JobOK
<1>3. KeyOf(i.msg) \in Key /\ KeyOf(i.msg) \in i.locks
  <2>1. i.outcome \in {"applied", "duplicate", "superseded"}
    BY <1>1, JobFields
  <2> QED
    BY <1>1, <1>2, <2>1, FactKinds DEF OpenOK
<1>4. /\ processed' = processed \cup {i.msg} /\ index' = index
      /\ overwritten' = IF ~i.first THEN overwritten
            ELSE overwritten \cup {n \in processed : /\ KindOf[n] = "artist_updated"
                                                    /\ VersionOf[n] > i.artist}
      /\ show' = IF i.outcome = "applied" /\ "show" \in i.locks THEN i.show ELSE show
      /\ artist' = IF i.outcome = "applied" /\ "artist" \in i.locks THEN i.artist ELSE artist
      /\ date' = IF i.outcome = "applied" /\ "date" \in i.locks THEN i.date ELSE date
  BY DEF Commit
<1> HIDE DEF i
<1>5. i.outcome = "applied" =>
         /\ "show" \in i.locks <=> KeyOf(i.msg) = "show"
         /\ "artist" \in i.locks <=> KeyOf(i.msg) = "artist"
         /\ KeyOf(i.msg) = "show" => i.show = showAfter(i.msg, show)
         /\ KeyOf(i.msg) = "artist" => i.artist = VersionOf[i.msg]
  BY <1>2, <1>3 DEF OpenOK
<1> QED
  BY <1>2, <1>3, <1>4, <1>5 DEF i

\* The show only grows newer, and so does the artist once its row is there; they take in the
\* fact.
LEMMA NewerRows ==
    ASSUME TypeOK, TransactionsOK, NEW w \in Consumers, Commit(w)
    PROVE  /\ show'.published \in Nat /\ show'.updatable \in Nat /\ artist' \in Nat
           /\ show'.published >= show.published /\ show'.updatable >= show.updatable
           /\ job[w].first \/ artist' >= artist
           /\ job[w].outcome = "applied" /\ KeyOf(job[w].msg) = "show" =>
                 /\ show'.updatable >= VersionOf[job[w].msg]
                 /\ KindOf[job[w].msg] = "show_published" =>
                       show'.published >= VersionOf[job[w].msg]
<1> DEFINE i == job[w]
           m == i.msg
<1>1. /\ m \in Facts /\ OpenOK(i)
      /\ i.outcome # "applied" => show' = show /\ artist' = artist
      /\ i.outcome = "applied" =>
            /\ show' = IF KeyOf(m) = "show" THEN showAfter(m, show) ELSE show
            /\ artist' = IF KeyOf(m) = "artist" THEN VersionOf[m] ELSE artist
  BY CommitRows
<1>2. /\ show.published \in Nat /\ show.updatable \in Nat /\ artist \in Nat /\ show \in ShowRow
  BY RowFields DEF TypeOK
<1>3. VersionOf[m] \in Nat /\ (KeyOf(m) = "artist" <=> KindOf[m] = "artist_updated")
  BY <1>1, FactKinds
<1>4. i.outcome = "applied" /\ KeyOf(m) = "artist" /\ ~i.first => VersionOf[m] >= artist
  BY <1>1, <1>3 DEF OpenOK, Superseded, takes
<1>5. LET t == showAfter(m, show)
      IN  /\ t.published \in Nat /\ t.updatable \in Nat
          /\ t.updatable >= show.updatable /\ t.published >= show.published
          /\ t.updatable >= VersionOf[m]
          /\ KindOf[m] = "show_published" => t.published >= VersionOf[m]
  BY <1>1, <1>2, <1>3, ShowAfter
<1> HIDE DEF i, m
<1> QED
  BY <1>1, <1>2, <1>3, <1>4, <1>5 DEF i, m

\* So does the date; a row with a document moves to its next version.
LEMMA NewerDate ==
    ASSUME TypeOK, TransactionsOK, NEW w \in Consumers, Commit(w)
    PROVE  /\ date' \in DateRow /\ NoOlder(date', date) /\ date'.doc >= date.doc
           /\ job[w].outcome = "applied" /\ "date" \in job[w].locks =>
                 /\ date' = job[w].date
                 /\ date'.scheduled # 0 => date'.doc = date.doc + 1
                 /\ date'.scheduled = 0 => date'.doc = date.doc /\ date.scheduled = 0
                 /\ KindOf[job[w].msg] = "date_scheduled" => date'.scheduled = VersionOf[job[w].msg]
                 /\ KindOf[job[w].msg] = "state_changed" => date'.publication = VersionOf[job[w].msg]
                 /\ date'.scheduled \in {date.scheduled, VersionOf[job[w].msg]}
                 /\ date'.publication \in {date.publication, VersionOf[job[w].msg]}
                 /\ KindOf[job[w].msg] # "date_scheduled" => date'.scheduled = date.scheduled
                 /\ KindOf[job[w].msg] # "state_changed" => date'.publication = date.publication
           /\ ~(job[w].outcome = "applied" /\ "date" \in job[w].locks) => date' = date
<1> DEFINE i == job[w]
           m == i.msg
           k == KeyOf(m)
<1>1. /\ m \in Facts /\ k \in Key /\ OpenOK(i)
      /\ i.outcome # "applied" => date' = date
      /\ i.outcome = "applied" => date' = IF "date" \in i.locks THEN i.date ELSE date
  BY CommitRows
<1>2. /\ date \in DateRow /\ date.scheduled \in Nat /\ date.publication \in Nat /\ date.doc \in Nat
  BY RowFields DEF TypeOK
<1>3. VersionOf[m] \in Nat /\ VersionOf[m] > 0 /\ KindOf[m] \in Kind
      /\ (k = "date" <=> KindOf[m] \in {"date_scheduled", "state_changed"})
  BY <1>1, FactKinds
<1>4. CASE ~(i.outcome = "applied" /\ "date" \in i.locks)
  BY <1>1, <1>2, <1>4 DEF NoOlder
<1>5. CASE i.outcome = "applied" /\ "date" \in i.locks /\ k # "date"
  <2>1. date.scheduled # 0 /\ i.date = recomposed(date) /\ date' = i.date
    BY <1>1, <1>5 DEF OpenOK
  <2>2. date' \in DateRow /\ date'.scheduled = date.scheduled /\ date'.publication = date.publication
        /\ date'.doc = date.doc + 1
    BY <1>2, <2>1, Recomposed
  <2> HIDE DEF i, m, k
  <2> QED
    BY <1>2, <1>3, <1>5, <2>1, <2>2 DEF NoOlder, i, m
<1>6. CASE i.outcome = "applied" /\ "date" \in i.locks /\ k = "date"
  <2>1. i.date = recomposed(dateAfter(m, date)) /\ date' = i.date /\ ~Superseded(m)
    BY <1>1, <1>6 DEF OpenOK
  <2>2. LET t == dateAfter(m, date)
        IN  /\ t \in DateRow /\ t.doc = date.doc
            /\ t.scheduled = IF KindOf[m] = "date_scheduled" THEN VersionOf[m] ELSE date.scheduled
            /\ t.publication =
                  IF KindOf[m] = "date_scheduled" THEN date.publication ELSE VersionOf[m]
    BY <1>1, <1>2, DateAfter
  <2>3. /\ date' \in DateRow
        /\ date'.scheduled = IF KindOf[m] = "date_scheduled" THEN VersionOf[m] ELSE date.scheduled
        /\ date'.publication =
              IF KindOf[m] = "date_scheduled" THEN date.publication ELSE VersionOf[m]
        /\ date'.doc = IF date'.scheduled = 0 THEN date.doc ELSE date.doc + 1
    BY <2>1, <2>2, Recomposed
  <2>4. /\ KindOf[m] = "date_scheduled" => VersionOf[m] >= date.scheduled
        /\ KindOf[m] = "state_changed" => VersionOf[m] >= date.publication
    BY <1>3, <2>1 DEF Superseded, takes
  <2> HIDE DEF i, m, k
  <2> QED
    BY <1>2, <1>3, <1>6, <2>1, <2>3, <2>4 DEF NoOlder, i, m
<1> QED
  BY <1>4, <1>5, <1>6

\* A commit: the other transactions hold other rows.
LEMMA CommitTransactions ==
    ASSUME TypeOK, TransactionsOK, NEW w \in Consumers, Commit(w)
    PROVE  TransactionsOK'
<1> DEFINE i == job[w]
           m == i.msg
<1>1. /\ m \in Facts /\ KeyOf(m) \in i.locks /\ OpenOK(i)
      /\ processed' = processed \cup {m}
      /\ "show" \notin i.locks => show' = show
      /\ "artist" \notin i.locks => artist' = artist
      /\ "date" \notin i.locks => date' = date
  BY CommitRows
<1>2. /\ i \in Job /\ i.phase = "open"
      /\ job' = [job EXCEPT ![w] = job'[w]] /\ job'[w] \in Job
      /\ job'[w].msg = m /\ job'[w].outcome = i.outcome
      /\ job'[w].phase = IF i.outcome = "superseded" THEN "done"
                         ELSE IF KeyOf(m) = "show" THEN "put_show" ELSE "put_date"
  BY CommitShape
<1>3. \A v \in Consumers : v # w => job'[v] = job[v]
  BY <1>2 DEF TypeOK
<1>4. i # NULL /\ Open(w)
  BY <1>2, JobFields DEF Open
<1>5. LocksOK'
  <2> SUFFICES ASSUME NEW u \in Consumers, NEW v \in Consumers, Open(u)', Open(v)', u # v
               PROVE  job'[u].locks \cap job'[v].locks = {} /\ job'[u].msg # job'[v].msg
    BY DEF LocksOK
  <2>1. u # w /\ v # w
    BY <1>2 DEF Open
  <2> QED
    BY <1>3, <2>1 DEF TransactionsOK, LocksOK, Open
<1>6. JobOK(job[w])'
  BY <1>1, <1>2 DEF JobOK
<1>7. ASSUME NEW v \in Consumers, job'[v] # NULL, v # w
      PROVE  JobOK(job[v])'
  <2>1. job'[v] = job[v] /\ job[v] # NULL /\ JobOK(job[v]) /\ job[v] \in Job
    BY <1>3, <1>7, JobOf DEF TransactionsOK
  <2>2. CASE job[v].phase # "open"
    BY <1>1, <2>1, <2>2 DEF JobOK
  <2>3. CASE job[v].phase = "open"
    <3>1. /\ OpenOK(job[v]) /\ Open(v) /\ job[v].msg \in Facts
          /\ job[v].outcome \in {"applied", "duplicate", "superseded"}
      BY <2>1, <2>3, JobFields DEF JobOK, Open
    <3>2. job[v].locks \cap i.locks = {} /\ job[v].msg # m
      BY <1>4, <1>7, <3>1 DEF TransactionsOK, LocksOK
    <3>3. KeyOf(job[v].msg) \in job[v].locks \/ (job[v].first /\ KeyOf(job[v].msg) = "artist")
      BY <3>1 DEF OpenOK
    <3>4. /\ "show" \in job[v].locks => show' = show
          /\ "artist" \in job[v].locks => artist' = artist
          /\ "date" \in job[v].locks => date' = date
      BY <1>1, <3>2
    <3>5. job[v].first \/ (Superseded(job[v].msg)' <=> Superseded(job[v].msg))
      <4> SUFFICES ASSUME ~job[v].first
                   PROVE  Superseded(job[v].msg)' <=> Superseded(job[v].msg)
        OBVIOUS
      <4>1. KindOf[job[v].msg] \in Kind
        BY <3>1, FactKinds
      <4>2. /\ KindOf[job[v].msg] \in {"show_published", "show_updated"} => show' = show
            /\ KindOf[job[v].msg] = "artist_updated" => artist' = artist
            /\ KindOf[job[v].msg] \in {"date_scheduled", "state_changed"} => date' = date
        BY <3>1, <3>3, <3>4, FactKinds
      <4> QED
        BY <2>1, <4>1, <4>2 DEF Superseded, Kind
    <3>6. job[v].msg \in processed' <=> job[v].msg \in processed
      BY <1>1, <3>2
    <3> DEFINE j == job[v]
               k == KeyOf(j.msg)
    <3>7. /\ k = "show" => showAfter(j.msg, show') = showAfter(j.msg, show)
          /\ k = "date" => recomposed(dateAfter(j.msg, date')) = recomposed(dateAfter(j.msg, date))
          /\ "date" \in j.locks => date' = date
      BY <3>3, <3>4
    <3>8. /\ j.outcome = "superseded" => Superseded(job[v].msg)'
          /\ j.outcome = "applied" => j.first \/ ~Superseded(job[v].msg)'
      BY <3>1, <3>5 DEF OpenOK
    <3>9. OpenOK(job[v])'
      BY <2>1, <3>1, <3>6, <3>7, <3>8 DEF OpenOK
    <3> QED
      BY <2>1, <2>3, <3>9 DEF JobOK
  <2> QED
    BY <2>2, <2>3
<1> QED
  BY <1>5, <1>6, <1>7 DEF TransactionsOK

\* A commit: the row's next document is the newest, and none is older than it was.
LEMMA CommitChained ==
    ASSUME TypeOK, TransactionsOK, DatesChained, ShowsChained, NEW w \in Consumers, Commit(w)
    PROVE  DatesChained' /\ ShowsChained'
<1> DEFINE i == job[w]
           j == job'[w]
           m == i.msg
           k == KeyOf(m)
           taken == i.outcome = "applied" /\ "date" \in i.locks
<1>1. /\ m \in Facts /\ k \in Key /\ OpenOK(i) /\ index' = index
      /\ i.outcome # "applied" => show' = show
      /\ i.outcome = "applied" => show' = IF k = "show" THEN showAfter(m, show) ELSE show
  BY CommitRows
<1>2. /\ i \in Job /\ i.phase = "open" /\ i # NULL /\ i.locks # {}
      /\ job' = [job EXCEPT ![w] = j] /\ j \in Job /\ j # NULL
      /\ j.msg = m /\ j.outcome = i.outcome /\ j.date = i.date
      /\ j.show = IF k = "artist" THEN show ELSE i.show
      /\ j.phase = IF i.outcome = "superseded" THEN "done"
                   ELSE IF k = "show" THEN "put_show" ELSE "put_date"
  BY CommitShape, JobFields
<1>3. \A v \in Consumers : v # w => job'[v] = job[v]
  BY <1>2 DEF TypeOK
<1>4. /\ date' \in DateRow /\ NoOlder(date', date) /\ date'.doc >= date.doc
      /\ taken => /\ date' = i.date
                  /\ date'.scheduled # 0 => date'.doc = date.doc + 1
                  /\ date'.scheduled = 0 => date'.doc = date.doc /\ date.scheduled = 0
      /\ ~taken => date' = date
  BY NewerDate
<1>5. i.outcome = "applied" /\ "date" \notin i.locks => i.date.scheduled = 0
  BY <1>1, <1>2 DEF OpenOK
<1>6. Composing(j) <=> i.outcome # "superseded"
  BY <1>2 DEF Composing
<1>7. i.outcome = "duplicate" => Composing(i)
  BY <1>2 DEF Composing
<1>8. i.outcome \in {"applied", "duplicate", "superseded"} /\ i.date \in DateRow
  BY <1>2, JobFields
<1>9. /\ show'.updatable \in Nat /\ show'.published \in Nat
      /\ show'.updatable >= show.updatable
  BY NewerRows
<1> HIDE DEF i, j
<1>10. DatesChained'
  <2>1. /\ date.scheduled \in Nat /\ date.publication \in Nat /\ date.doc \in Nat
        /\ index.date.version \in Nat /\ index.date.scheduled \in Nat
        /\ index.date.publication \in Nat
    BY RowFields
  <2>2. date'.scheduled \in Nat /\ date'.publication \in Nat /\ date'.doc \in Nat
    BY <1>4 DEF DateRow
  <2>3. /\ index.date.version <= date.doc /\ NoOlder(date, index.date)
        /\ date.scheduled = 0 => date.doc = 0 /\ index.date.publication = 0
        /\ index.date.version = date.doc => date.scheduled = 0 \/ NoOlder(index.date, date)
    BY DEF DatesChained
  <2>4. /\ index.date.version <= date'.doc /\ NoOlder(date', index.date)
        /\ date'.scheduled = 0 => date'.doc = 0 /\ index.date.publication = 0
        /\ index.date.version = date'.doc => date'.scheduled = 0 \/ NoOlder(index.date, date')
    BY <1>4, <2>1, <2>2, <2>3 DEF NoOlder
  <2> DEFINE D(v) == job[v].date
             Old(v) == v \in Consumers /\ Composing(job[v]) /\ D(v).scheduled # 0
  <2>5. ASSUME NEW v, Old(v)
        PROVE  /\ D(v).doc <= date.doc /\ NoOlder(date, D(v))
               /\ D(v).doc = date.doc => NoOlder(D(v), date)
               /\ D(v).doc >= index.date.version => NoOlder(D(v), index.date)
               /\ D(v).doc <= index.date.version => NoOlder(index.date, D(v))
               /\ \A u : Old(u) /\ D(u).doc >= D(v).doc => NoOlder(D(u), D(v))
               /\ D(v).doc \in Nat /\ D(v).scheduled \in Nat /\ D(v).publication \in Nat
    <3>1. job[v] \in Job
      BY <2>5, JobOf DEF Composing
    <3> QED
      BY <2>5, <3>1, JobFields DEF DatesChained
  <2>6. ASSUME NEW v \in Consumers, Composing(job'[v]), job'[v].date.scheduled # 0
        PROVE  \/ Old(v) /\ job'[v].date = D(v)
               \/ v = w /\ taken /\ job'[v].date = date' /\ date'.scheduled # 0
    <3>1. CASE v # w
      BY <1>3, <2>6, <3>1
    <3>2. CASE v = w
      BY <1>2, <1>4, <1>5, <1>6, <1>7, <1>8, <2>6, <3>2 DEF i, j
    <3> QED
      BY <3>1, <3>2
  <2>7. ASSUME NEW v, Old(v)
        PROVE  /\ D(v).doc <= date'.doc /\ NoOlder(date', D(v))
               /\ D(v).doc = date'.doc => NoOlder(D(v), date')
               /\ taken /\ date'.scheduled # 0 => D(v).doc < date'.doc
    <3>1. date.scheduled # 0
      BY <2>1, <2>5, <2>7 DEF NoOlder
    <3> HIDE DEF D
    <3> QED
      BY <1>4, <2>1, <2>2, <2>5, <2>7, <3>1 DEF NoOlder
  <2>8. /\ NoOlder(date', date')
        /\ taken /\ date'.scheduled # 0 => index.date.version < date'.doc
    BY <1>4, <2>1, <2>2, <2>3 DEF NoOlder
  <2> HIDE DEF D, Old, taken
  <2>9. ASSUME NEW v \in Consumers, Composing(job'[v]), job'[v].date.scheduled # 0
        PROVE  /\ job'[v].date.doc <= date'.doc /\ NoOlder(date', job'[v].date)
               /\ job'[v].date.doc = date'.doc => NoOlder(job'[v].date, date')
               /\ job'[v].date.doc >= index.date.version => NoOlder(job'[v].date, index.date)
               /\ job'[v].date.doc <= index.date.version => NoOlder(index.date, job'[v].date)
    BY <2>1, <2>2, <2>4, <2>5, <2>6, <2>7, <2>8, <2>9
  <2>10. ASSUME NEW v \in Consumers, Composing(job'[v]), job'[v].date.scheduled # 0,
                NEW u \in Consumers, Composing(job'[u]), job'[u].date.scheduled # 0,
                job'[u].date.doc >= job'[v].date.doc
         PROVE  NoOlder(job'[u].date, job'[v].date)
    <3>1. CASE Old(u) /\ job'[u].date = D(u) /\ Old(v) /\ job'[v].date = D(v)
      BY <2>5, <2>10, <3>1
    <3>2. CASE job'[u].date = date'
      BY <2>9, <2>10, <3>2
    <3>3. CASE Old(u) /\ job'[u].date = D(u) /\ taken /\ job'[v].date = date' /\ date'.scheduled # 0
      <4>1. D(u).doc < date'.doc /\ D(u).doc \in Nat
        BY <2>5, <2>7, <3>3
      <4> QED
        BY <2>2, <2>10, <3>3, <4>1
    <3> QED
      BY <2>6, <2>10, <3>1, <3>2, <3>3
  <2> QED
    BY <1>1, <2>4, <2>9, <2>10 DEF DatesChained, NoOlder, Composing
<1>11. ShowsChained'
  <2>1. ShowOK(show')
    <3>1. ShowOK(show) /\ show \in ShowRow
      BY DEF ShowsChained, TypeOK
    <3>2. ShowOK(showAfter(m, show))
      BY <1>1, <3>1, ShowAfter, FactKinds DEF ShowOK
    <3> QED
      BY <1>1, <1>8, <3>1, <3>2
  <2>2. ASSUME NEW v \in Consumers, job'[v] # NULL, KeyOf(job'[v].msg) = "show"
        PROVE  /\ ShowOK(job'[v].show)
               /\ Composing(job'[v]) => job'[v].show.updatable <= show'.updatable
    <3>1. job[v] # NULL /\ KeyOf(job[v].msg) = "show" /\ job'[v].show = job[v].show
      BY <1>2, <1>3, <2>2 DEF i, j
    <3>2. /\ ShowOK(job[v].show) /\ job[v].show.updatable \in Nat
          /\ Composing(job[v]) => job[v].show.updatable <= show.updatable
      BY <3>1, JobOf, JobFields DEF ShowsChained
    <3>3. CASE Composing(job[v]) \/ v # w
      BY <1>3, <1>9, <3>1, <3>2, <3>3, RowFields
    <3>4. CASE v = w /\ i.outcome = "applied"
      <4>1. i.show = showAfter(m, show) /\ show' = showAfter(m, show)
        BY <1>1, <3>1, <3>4 DEF OpenOK, i
      <4> QED
        BY <1>9, <3>1, <3>2, <3>4, <4>1 DEF i
    <3> QED
      BY <1>6, <1>7, <1>8, <3>2, <3>3, <3>4, <3>1 DEF i, j
  <2>3. index.show.updatable <= show'.updatable
    BY <1>9, RowFields DEF ShowsChained
  <2> QED
    BY <1>1, <2>1, <2>2, <2>3 DEF ShowsChained, ShowOK, Composing
<1> QED
  BY <1>10, <1>11

\* An artist saved: the rows are as they were, and no other transaction holds its own.
LEMMA SaveIndex ==
    ASSUME TypeOK, TransactionsOK, DatesChained, ShowsChained, NEW w \in Consumers, SaveArtist(w)
    PROVE  TransactionsOK' /\ DatesChained' /\ ShowsChained'
<1> DEFINE i == job[w]
           j == job'[w]
           m == i.msg
<1>1. /\ i \in Job /\ i.phase = "open" /\ i.locks = {} /\ i # NULL /\ j # NULL
      /\ job' = [job EXCEPT ![w] = j] /\ j \in Job
      /\ j.msg = m /\ j.outcome = i.outcome /\ j.first = i.first
      /\ j.show = i.show /\ j.artist = i.artist /\ j.phase = "open" /\ j.date = recomposed(date)
      /\ j.locks = {"artist"} \cup (IF date.scheduled # 0 THEN {"date"} ELSE {})
      /\ \A row \in j.locks : ~Locked(row)
  BY SaveShape, JobFields
<1>2. /\ processed' = processed /\ show' = show /\ artist' = artist /\ date' = date
      /\ index' = index
  BY DEF SaveArtist, model
<1>3. \A v \in Consumers : v # w => job'[v] = job[v]
  BY <1>1 DEF TypeOK
<1>4. OpenOK(i) /\ Open(w)
  BY <1>1 DEF TransactionsOK, JobOK, Open
<1>5. i.first /\ KeyOf(m) = "artist" /\ i.outcome = "applied"
  BY <1>1, <1>4 DEF OpenOK
<1>6. ~Composing(i) /\ ~Composing(j)
  BY <1>1, <1>5 DEF Composing
<1>7. date \in DateRow /\ (date.scheduled = 0 => j.date.scheduled = 0)
  BY <1>1, Recomposed DEF TypeOK
<1> HIDE DEF i, j, m
<1>8. LocksOK'
  <2> SUFFICES ASSUME NEW u \in Consumers, NEW v \in Consumers, Open(u)', Open(v)', u # v
               PROVE  job'[u].locks \cap job'[v].locks = {} /\ job'[u].msg # job'[v].msg
    BY DEF LocksOK
  <2>1. CASE u # w /\ v # w
    BY <1>3, <2>1 DEF TransactionsOK, LocksOK, Open
  <2>2. CASE u = w
    <3>1. Open(v) /\ job'[v] = job[v] /\ job'[u] = j /\ job[v].msg # m
      BY <1>3, <1>4, <2>2 DEF Open, j, m, i, TransactionsOK, LocksOK
    <3> QED
      BY <1>1, <3>1 DEF Locked
  <2>3. CASE v = w
    <3>1. Open(u) /\ job'[u] = job[u] /\ job'[v] = j /\ job[u].msg # m
      BY <1>3, <1>4, <2>3 DEF Open, j, m, i, TransactionsOK, LocksOK
    <3> QED
      BY <1>1, <3>1 DEF Locked
  <2> QED
    BY <2>1, <2>2, <2>3
<1>9. ASSUME NEW v \in Consumers, job'[v] # NULL, v # w
      PROVE  JobOK(job[v])'
  <2>1. job'[v] = job[v] /\ JobOK(job[v])
    BY <1>3, <1>9 DEF TransactionsOK
  <2> QED
    BY <1>2, <2>1 DEF JobOK, OpenOK, Superseded
<1>10. JobOK(job[w])'
  <2>1. "date" \in j.locks <=> date.scheduled # 0
    BY <1>1
  <2>2. /\ i.msg \notin processed /\ j.artist = VersionOf[m]
        /\ j.locks \subseteq {"artist", "date"} /\ "artist" \in j.locks /\ j.locks # {}
    BY <1>1, <1>4, <1>5 DEF OpenOK, m
  <2>3. OpenOK(job[w])'
    BY <1>1, <1>2, <1>5, <1>7, <2>1, <2>2 DEF OpenOK, Superseded, j, m
  <2> QED
    BY <1>1, <1>5, <2>3 DEF JobOK, j
<1>11. \A v \in Consumers : Composing(job'[v]) => Composing(job[v]) /\ job'[v] = job[v]
  BY <1>3, <1>6 DEF j
<1>12. DatesChained'
  BY <1>2, <1>11 DEF DatesChained, Composing
<1>13. ASSUME NEW v \in Consumers, job'[v] # NULL, KeyOf(job'[v].msg) = "show"
       PROVE  job'[v] = job[v]
  BY <1>1, <1>3, <1>5, <1>13 DEF j
<1>14. ShowsChained'
  BY <1>2, <1>13 DEF ShowsChained, Composing
<1> QED
  BY <1>8, <1>9, <1>10, <1>12, <1>14 DEF TransactionsOK

\* After a put the transactions are as they were.
LEMMA PutTransactions ==
    ASSUME TypeOK, TransactionsOK, NEW w \in Consumers, PutShow(w) \/ PutDate(w)
    PROVE  TransactionsOK'
<1> DEFINE i == job[w]
           j == job'[w]
<1>1. /\ i \in Job /\ i.phase \in {"put_show", "put_date"} /\ i # NULL
      /\ job' = [job EXCEPT ![w] = j]
      /\ j.msg = i.msg /\ j.outcome = i.outcome /\ j.locks = i.locks
      /\ j.phase \in {"put_date", "done"}
  BY PutShowShape, PutDateShape, JobFields
<1>2. \A v \in Consumers : v # w => job'[v] = job[v]
  BY <1>1 DEF TypeOK
<1>3. processed' = processed /\ show' = show /\ artist' = artist /\ date' = date
  BY DEF PutShow, PutDate, model
<1> HIDE DEF i, j
<1>4. LocksOK'
  <2> SUFFICES ASSUME NEW u \in Consumers, NEW v \in Consumers, Open(u)', Open(v)', u # v
               PROVE  job'[u].locks \cap job'[v].locks = {} /\ job'[u].msg # job'[v].msg
    BY DEF LocksOK
  <2>1. u # w /\ v # w
    BY <1>1 DEF Open, j
  <2> QED
    BY <1>2, <2>1 DEF TransactionsOK, LocksOK, Open
<1>5. JobOK(job[w])'
  <2>1. JobOK(i)
    BY <1>1 DEF TransactionsOK, i
  <2> QED
    BY <1>1, <1>3, <2>1 DEF JobOK, j
<1>6. ASSUME NEW v \in Consumers, job'[v] # NULL, v # w
      PROVE  JobOK(job[v])'
  <2>1. job'[v] = job[v] /\ JobOK(job[v])
    BY <1>2, <1>6 DEF TransactionsOK
  <2> QED
    BY <1>3, <2>1 DEF JobOK, OpenOK, Superseded
<1> QED
  BY <1>4, <1>5, <1>6 DEF TransactionsOK

\* A put of the show's document.
LEMMA PutShowIndex ==
    ASSUME TypeOK, TransactionsOK, ShowsChained, NEW w \in Consumers, PutShow(w)
    PROVE  LET i == job[w]
           IN  /\ index'.date = index.date /\ KeyOf(i.msg) = "show" /\ ShowOK(i.show)
               /\ Composing(i) /\ i.show \in ShowRow /\ i.show.updatable <= show.updatable
               /\ \/ /\ index'.show = index.show
                     /\ i.show.published # 0 => i.show.updatable < index.show.updatable
                  \/ /\ i.show.published # 0 /\ index'.show = showDocumentOf(i.show)
                     /\ index'.show.version = i.show.updatable
                     /\ index'.show.updatable = i.show.updatable
                     /\ index'.show.published = i.show.published
                     /\ i.show.updatable >= index.show.updatable
<1> DEFINE i == job[w]
<1>1. i \in Job /\ i.phase = "put_show" /\ i # NULL
  BY PutShowShape, JobFields
<1>2. JobOK(i) /\ i.outcome # "superseded"
  BY <1>1 DEF TransactionsOK, JobOK
<1>3. KeyOf(i.msg) = "show" /\ Composing(i)
  BY <1>1, <1>2 DEF JobOK, Composing
<1>4. ShowOK(i.show) /\ i.show.updatable <= show.updatable
  BY <1>1, <1>3 DEF ShowsChained
<1>5. i.show \in ShowRow /\ i.show.published \in Nat /\ i.show.updatable \in Nat
  BY <1>1, JobFields
<1>6. index \in [show : ShowDocument, date : DateDocument]
  BY IndexFields
<1>7. index'.date = index.date /\ index'.show = showPut(i, index.show)
  BY <1>6 DEF PutShow
<1>8. /\ showDocumentOf(i.show).version = i.show.updatable
      /\ showDocumentOf(i.show).updatable = i.show.updatable
      /\ showDocumentOf(i.show).published = i.show.published
  BY <1>4, <1>5 DEF showDocumentOf, MaxOf, ShowOK
<1>9. index.show.version = index.show.updatable /\ index.show.updatable \in Nat
  BY RowFields DEF ShowsChained
<1>10. i.show.published # 0 => i.show.updatable # 0
  BY <1>4, <1>5 DEF ShowOK
<1> HIDE DEF i
<1>11. CASE i.show.published = 0
  BY <1>3, <1>4, <1>5, <1>7, <1>11 DEF showPut, i
<1>12. CASE i.show.published # 0 /\ i.show.updatable >= index.show.updatable
  <2>1. index'.show = showDocumentOf(i.show)
    BY <1>7, <1>8, <1>9, <1>10, <1>12 DEF showPut, versionedPut
  <2> QED
    BY <1>3, <1>4, <1>5, <1>7, <1>8, <1>12, <2>1 DEF i
<1>13. CASE i.show.published # 0 /\ ~(i.show.updatable >= index.show.updatable)
  <2>1. index'.show = index.show
    BY <1>7, <1>8, <1>9, <1>10, <1>13 DEF showPut, versionedPut
  <2> QED
    BY <1>3, <1>4, <1>5, <1>7, <1>9, <1>13, <2>1 DEF i
<1> QED
  BY <1>11, <1>12, <1>13

\* The documents after it.
LEMMA PutShowChained ==
    ASSUME TypeOK, TransactionsOK, DatesChained, ShowsChained, NEW w \in Consumers, PutShow(w)
    PROVE  DatesChained' /\ ShowsChained'
<1> DEFINE i == job[w]
           j == job'[w]
<1>1. /\ i \in Job /\ i.phase = "put_show" /\ i # NULL
      /\ job' = [job EXCEPT ![w] = j] /\ j \in Job /\ j # NULL
      /\ j.msg = i.msg /\ j.outcome = i.outcome /\ j.show = i.show /\ j.date = i.date
      /\ j.phase = "put_date"
  BY PutShowShape, JobFields
<1>2. \A v \in Consumers : v # w => job'[v] = job[v]
  BY <1>1 DEF TypeOK
<1>3. show' = show /\ date' = date
  BY DEF PutShow, model
<1>4. /\ index'.date = index.date /\ KeyOf(i.msg) = "show" /\ ShowOK(i.show) /\ Composing(i)
      /\ i.show.updatable <= show.updatable
      /\ \/ index'.show = index.show
         \/ /\ index'.show.version = i.show.updatable
            /\ index'.show.updatable = i.show.updatable
            /\ index'.show.published = i.show.published
  BY PutShowIndex
<1> HIDE DEF i, j
<1>5. \A v \in Consumers :
         /\ (Composing(job'[v]) <=> Composing(job[v])) /\ (job'[v] = NULL <=> job[v] = NULL)
         /\ job[v] # NULL =>
               job'[v].date = job[v].date /\ job'[v].show = job[v].show /\ job'[v].msg = job[v].msg
  BY <1>1, <1>2, <1>4 DEF Composing, i, j
<1>6. DatesChained'
  <2>1. \A v \in Consumers : Composing(job'[v]) => Composing(job[v]) /\ job'[v].date = job[v].date
    BY <1>5 DEF Composing
  <2> HIDE DEF i
  <2>2. DatesChained' <=>
           /\ index'.date.version <= date'.doc /\ NoOlder(date', index'.date)
           /\ date'.scheduled = 0 => date'.doc = 0 /\ index'.date.publication = 0
           /\ index'.date.version = date'.doc => date'.scheduled = 0 \/ NoOlder(index'.date, date')
           /\ \A v \in Consumers : Composing(job'[v]) /\ job'[v].date.scheduled # 0 =>
                 /\ job'[v].date.doc <= date'.doc /\ NoOlder(date', job'[v].date)
                 /\ job'[v].date.doc = date'.doc => NoOlder(job'[v].date, date')
                 /\ job'[v].date.doc >= index'.date.version => NoOlder(job'[v].date, index'.date)
                 /\ job'[v].date.doc <= index'.date.version => NoOlder(index'.date, job'[v].date)
                 /\ \A u \in Consumers :
                       Composing(job'[u]) /\ job'[u].date.scheduled # 0
                       /\ job'[u].date.doc >= job'[v].date.doc =>
                           NoOlder(job'[u].date, job'[v].date)
    BY DEF DatesChained, NoOlder, Composing
  <2> QED
    BY <1>3, <1>4, <2>1, <2>2 DEF DatesChained
<1>7. ShowOK(index'.show) /\ index'.show.version = index'.show.updatable
      /\ index'.show.updatable <= show.updatable
  BY <1>4 DEF ShowsChained, ShowOK
<1>8. ShowsChained'
  BY <1>3, <1>5, <1>7 DEF ShowsChained, ShowOK, Composing
<1> QED
  BY <1>6, <1>8

\* A put of the date's document.
LEMMA PutDateIndex ==
    ASSUME TypeOK, TransactionsOK, NEW w \in Consumers, PutDate(w)
    PROVE  LET i == job[w]
           IN  /\ index'.show = index.show /\ Composing(i) /\ i \in Job
               /\ \/ /\ index'.date = index.date
                     /\ i.date.scheduled = 0 \/ i.date.doc < index.date.version
                  \/ /\ i.date.scheduled # 0 /\ i.date.doc >= index.date.version
                     /\ index'.date.version = i.date.doc
                     /\ index'.date.scheduled = i.date.scheduled
                     /\ index'.date.publication = i.date.publication
                     /\ index'.date.published = i.show.published
                     /\ index'.date.updatable = i.show.updatable
                     /\ index'.date.artist = i.artist
<1> DEFINE i == job[w]
           document == dateDocumentOf(i.date, i.show, i.artist)
<1>1. i \in Job /\ i.phase = "put_date" /\ i # NULL
  BY PutDateShape, JobFields
<1>2. i.outcome # "superseded" /\ Composing(i)
  BY <1>1 DEF TransactionsOK, JobOK, Composing
<1>3. index \in [show : ShowDocument, date : DateDocument] /\ index.date.version \in Nat
  BY IndexFields, RowFields
<1>4. /\ document.version = i.date.doc /\ document.scheduled = i.date.scheduled
      /\ document.publication = i.date.publication /\ document.published = i.show.published
      /\ document.updatable = i.show.updatable /\ document.artist = i.artist
      /\ i.date.doc \in Nat
  BY <1>1, JobFields DEF dateDocumentOf
<1>5. index' = IF i.date.scheduled = 0 THEN index
               ELSE [index EXCEPT !.date = versionedPut(@, document)]
  BY DEF PutDate
<1> HIDE DEF i, document
<1>6. CASE i.date.scheduled = 0
  BY <1>1, <1>2, <1>5, <1>6 DEF i
<1>7. CASE i.date.scheduled # 0
  <2>1. index'.show = index.show /\ index'.date = versionedPut(index.date, document)
    BY <1>3, <1>5, <1>7
  <2>2. CASE i.date.doc >= index.date.version
    <3>1. index'.date = document
      BY <1>4, <2>1, <2>2 DEF versionedPut
    <3> QED
      BY <1>1, <1>2, <1>4, <1>7, <2>1, <2>2, <3>1 DEF i
  <2>3. CASE ~(i.date.doc >= index.date.version)
    <3>1. index'.date = index.date
      BY <1>4, <2>1, <2>3 DEF versionedPut
    <3> QED
      BY <1>1, <1>2, <1>3, <1>4, <2>1, <2>3, <3>1 DEF i
  <2> QED
    BY <2>2, <2>3
<1> QED
  BY <1>6, <1>7

\* The documents after it.
LEMMA PutDateChained ==
    ASSUME TypeOK, TransactionsOK, DatesChained, ShowsChained, NEW w \in Consumers, PutDate(w)
    PROVE  DatesChained' /\ ShowsChained'
<1> DEFINE i == job[w]
           j == job'[w]
<1>1. /\ i \in Job /\ i # NULL /\ job' = [job EXCEPT ![w] = j] /\ j # NULL
      /\ j.msg = i.msg /\ j.show = i.show /\ j.phase = "done"
  BY PutDateShape, JobFields
<1>2. \A v \in Consumers : v # w => job'[v] = job[v]
  BY <1>1 DEF TypeOK
<1>3. show' = show /\ date' = date
  BY DEF PutDate, model
<1>4. /\ index'.show = index.show /\ Composing(i)
      /\ \/ index'.date = index.date
         \/ /\ i.date.scheduled # 0 /\ i.date.doc >= index.date.version
            /\ index'.date.version = i.date.doc
            /\ index'.date.scheduled = i.date.scheduled
            /\ index'.date.publication = i.date.publication
  BY PutDateIndex
<1>5. ~Composing(j)
  BY <1>1 DEF Composing
<1> HIDE DEF i, j
<1>6. \A v \in Consumers : Composing(job'[v]) => job'[v] = job[v] /\ Composing(job[v])
  BY <1>2, <1>5 DEF j
<1>7. DatesChained'
  <2>1. CASE index'.date = index.date
    BY <1>3, <1>6, <2>1 DEF DatesChained, NoOlder, Composing
  <2>2. CASE /\ i.date.scheduled # 0 /\ i.date.doc >= index.date.version
             /\ index'.date.version = i.date.doc
             /\ index'.date.scheduled = i.date.scheduled
             /\ index'.date.publication = i.date.publication
    <3>1. /\ i.date.doc <= date.doc /\ NoOlder(date, i.date)
          /\ i.date.doc = date.doc => NoOlder(i.date, date)
          /\ i.date.scheduled \in Nat /\ i.date.publication \in Nat /\ i.date.doc \in Nat
      BY <1>1, <1>4, <2>2, JobFields DEF DatesChained, i
    <3>2. date.scheduled # 0
      BY <2>2, <3>1, RowFields DEF NoOlder
    <3>3. ASSUME NEW v \in Consumers, Composing(job'[v]), job'[v].date.scheduled # 0
          PROVE  /\ job'[v].date.doc >= i.date.doc => NoOlder(job'[v].date, i.date)
                 /\ job'[v].date.doc <= i.date.doc => NoOlder(i.date, job'[v].date)
                 /\ job'[v].date.doc <= date.doc /\ NoOlder(date, job'[v].date)
                 /\ job'[v].date.doc = date.doc => NoOlder(job'[v].date, date)
                 /\ \A u \in Consumers :
                       Composing(job'[u]) /\ job'[u].date.scheduled # 0
                       /\ job'[u].date.doc >= job'[v].date.doc =>
                           NoOlder(job'[u].date, job'[v].date)
      <4>1. job'[v] = job[v] /\ Composing(job[v]) /\ job[v].date.doc \in Nat
        BY <1>6, <3>3, JobOf, JobFields DEF Composing
      <4>2. job[v].date.doc <= i.date.doc <=> i.date.doc >= job[v].date.doc
        BY <3>1, <4>1
      <4> QED
        BY <1>4, <1>6, <2>2, <3>3, <4>1, <4>2 DEF DatesChained, i
    <3> QED
      BY <1>3, <2>2, <3>1, <3>2, <3>3 DEF DatesChained, NoOlder, Composing
  <2> QED
    BY <1>4, <2>1, <2>2
<1>8. ShowsChained'
  <2>1. \A v \in Consumers : job'[v] # NULL =>
           job[v] # NULL /\ job'[v].show = job[v].show /\ job'[v].msg = job[v].msg
    BY <1>1, <1>2 DEF i, j
  <2> QED
    BY <1>3, <1>4, <1>6, <2>1 DEF ShowsChained, ShowOK, Composing
<1> QED
  BY <1>7, <1>8

-----------------------------------------------------------------------------
(***************************************************************************)
(* The invariant of every instance.                                        *)
(***************************************************************************)

\* The first state.
LEMMA IndexInit ==
    ASSUME Init
    PROVE  IndexInv
<1>1. TypeOK
  BY TypeInit
<1>2. \A w \in Consumers : job[w] = NULL
  BY DEF Init
<1>3. QueueOK
  <2>1. ASSUME NEW k \in Key
        PROVE  PathOK(k)
    <3>1. offset[k] = 0 /\ topic[k] = <<>> /\ retry[k] = <<>> /\ wal[k] = Written[k]
      BY DEF Init
    <3>2. Written[k] \in Seq(Facts)
      BY SearchIndexConstants DEF SearchIndexConstants
    <3>3. \A x \in 1 .. Len(Written[k]) : KeyOf(Written[k][x]) = k
      <4>1. \A x \in 1 .. Len(Written[k]) : Written[k][x] \in ToSet(Written[k])
        BY <3>2, Elements
      <4> QED
        BY <4>1, OutboxAssumption DEF OutboxAssumption
    <3> QED
      BY <3>1, <3>3 DEF PathOK
  <2>2. ASSUME NEW k \in Key
        PROVE  HandsOK(k)
    <3>1. /\ <<"main", k>> \in Consumers /\ <<"retry", k>> \in Consumers
          /\ <<"zombie", k>> \in Consumers
      BY Lanes DEF Lane
    <3> QED
      BY <1>2, <3>1 DEF HandsOK, Open
  <2> QED
    BY <1>2, <2>1, <2>2 DEF QueueOK
<1>4. TransactionsOK
  BY <1>2 DEF TransactionsOK, LocksOK, Open
<1>5. /\ show = [published |-> 0, updatable |-> 0] /\ artist = 0 /\ date.publication = 0
      /\ date.scheduled = date.doc /\ date.doc \in Nat /\ date.scheduled \in Nat
      /\ index = [show |-> showDocumentOf(show), date |-> dateDocumentOf(date, show, artist)]
  <2>1. date = IF PublicAtFirst THEN [scheduled |-> 1, publication |-> 0, doc |-> 1]
               ELSE [scheduled |-> 0, publication |-> 0, doc |-> 0]
    BY DEF Init
  <2>2. show = [published |-> 0, updatable |-> 0] /\ artist = 0
        /\ index = [show |-> showDocumentOf(show), date |-> dateDocumentOf(date, show, artist)]
    BY DEF Init
  <2>3. date.publication = 0 /\ date.scheduled = date.doc /\ date.doc \in Nat
    BY <2>1
  <2> QED
    BY <2>2, <2>3
<1>6. /\ index.date.version = date.doc /\ index.date.scheduled = date.scheduled
      /\ index.date.publication = 0
      /\ index.show.version = 0 /\ index.show.published = 0 /\ index.show.updatable = 0
      /\ show.published = 0 /\ show.updatable = 0
  BY <1>5 DEF showDocumentOf, dateDocumentOf, MaxOf
<1>7. DatesChained
  BY <1>2, <1>5, <1>6 DEF DatesChained, NoOlder, Composing
<1>8. ShowsChained
  BY <1>2, <1>6 DEF ShowsChained, ShowOK
<1> QED
  BY <1>1, <1>3, <1>4, <1>7, <1>8 DEF IndexInv

\* A message is done with.
LEMMA Returned ==
    ASSUME TypeOK, QueueOK, NEW w \in Consumers, Return(w)
    PROVE  /\ job[w] # NULL /\ job' = [job EXCEPT ![w] = NULL] /\ job[w].phase = "done"
           /\ UNCHANGED <<topic, model, index, dead>>
           /\ QueueOK' /\ \A m \in Facts : Free(m) => Free(m)'
<1>1. /\ job[w] # NULL /\ job' = [job EXCEPT ![w] = NULL] /\ job[w].phase = "done"
      /\ UNCHANGED <<wal, topic, model, index, dead>> /\ advanced(w, <<>>)
  BY DEF Return
<1>2. <<>> \in Seq(Delivery) /\ \A x \in 1 .. Len(<<>>) : <<>>[x].msg = job[w].msg
  OBVIOUS
<1>3. QueueOK' /\ \A m \in Facts : Free(m) => Free(m)'
  BY <1>1, <1>2, Left
<1> QED
  BY <1>1, <1>3

\* A message fails: it waits again, or is dead.
LEMMA Failed ==
    ASSUME TypeOK, QueueOK, NEW w \in Consumers, HandlerFails(w) \/ SaveConflicts(w)
    PROVE  /\ job[w] # NULL /\ job' = [job EXCEPT ![w] = NULL]
           /\ UNCHANGED <<topic, model, index>> /\ dead \subseteq dead'
           /\ QueueOK' /\ \A m \in Facts : Free(m) => Free(m)'
           /\ \A m \in Facts : job[w].msg = m => Free(m)' \/ m \in dead'
<1>1. job[w] # NULL /\ job' = [job EXCEPT ![w] = NULL] /\ UNCHANGED <<wal, topic, model, index>>
  BY FailsShape
<1>2. job[w] \in Job
  BY FailsShape
<1>3. PICK permanent \in BOOLEAN :
         /\ advanced(w, routeFailure(job[w], permanent).copies)
         /\ dead' = dead \cup routeFailure(job[w], permanent).dead
  BY FailsShape
<1> DEFINE route == routeFailure(job[w], permanent)
<1>4. /\ route.copies \in Seq(Delivery)
      /\ \A x \in 1 .. Len(route.copies) : route.copies[x].msg = job[w].msg
      /\ job[w].msg \in route.dead \/ Len(route.copies) = 1
  BY <1>2, RouteShape
<1>5. PICK copies \in Seq(Delivery) : copies = route.copies
  BY <1>4
<1>6. advanced(w, copies) /\ \A x \in 1 .. Len(copies) : copies[x].msg = job[w].msg
  BY <1>3, <1>4, <1>5
<1>7. /\ QueueOK' /\ \A m \in Facts : Free(m) => Free(m)'
      /\ \A m \in Facts : job[w].msg = m /\ Len(copies) = 1 => Free(m)'
  BY <1>1, <1>6, Left
<1> QED
  BY <1>1, <1>3, <1>4, <1>5, <1>7

\* A process dies: its message waits again, for its reader.
LEMMA Crashed ==
    ASSUME TypeOK, QueueOK, NEW w \in Consumers, Crash(w)
    PROVE  /\ job[w] # NULL /\ job' = [job EXCEPT ![w] = NULL]
           /\ UNCHANGED <<topic, model, index>> /\ dead \subseteq dead'
           /\ QueueOK' /\ \A m \in Facts : Free(m) => Free(m)'
           /\ \A m \in Facts : job[w].msg = m /\ w \in Readers => Free(m)'
<1>1. job[w] # NULL /\ job' = [job EXCEPT ![w] = NULL] /\ UNCHANGED <<wal, topic, model, index>>
      /\ offset' = offset
  BY DEF Crash
<1>2. job[w] \in Job /\ Errors(job[w]) \subseteq BOOLEAN
  BY <1>1, JobOf DEF Errors
<1>3. dead \subseteq dead'
  BY DEF Crash
<1>4. \E copies \in Seq(Delivery) :
         /\ retry' = [retry EXCEPT ![w[2]] = @ \o copies]
         /\ \A x \in 1 .. Len(copies) : copies[x].msg = job[w].msg
  <2>1. CASE retry' = retry
    <3>1. w[2] \in Key
      BY Lanes
    <3>2. retry[w[2]] \o <<>> = retry[w[2]]
      BY <3>1, PathFields
    <3>3. retry' = [retry EXCEPT ![w[2]] = @ \o <<>>]
      BY <2>1, <3>1, <3>2 DEF TypeOK
    <3>4. <<>> \in Seq(Delivery) /\ \A x \in 1 .. Len(<<>>) : <<>>[x].msg = job[w].msg
      OBVIOUS
    <3> QED
      BY <3>3, <3>4
  <2>2. ASSUME NEW p \in Errors(job[w]),
               retry' = [retry EXCEPT ![w[2]] = @ \o routeFailure(job[w], p).copies]
        PROVE  \E copies \in Seq(Delivery) :
                  /\ retry' = [retry EXCEPT ![w[2]] = @ \o copies]
                  /\ \A x \in 1 .. Len(copies) : copies[x].msg = job[w].msg
    <3>1. /\ routeFailure(job[w], p).copies \in Seq(Delivery)
          /\ \A x \in 1 .. Len(routeFailure(job[w], p).copies) :
                routeFailure(job[w], p).copies[x].msg = job[w].msg
      BY <1>2, RouteShape
    <3> QED
      BY <2>2, <3>1
  <2> QED
    BY <2>1, <2>2 DEF Crash
<1>5. PICK copies \in Seq(Delivery) :
         /\ retry' = [retry EXCEPT ![w[2]] = @ \o copies]
         /\ \A x \in 1 .. Len(copies) : copies[x].msg = job[w].msg
  BY <1>4
<1>6. /\ QueueOK' /\ \A m \in Facts : Free(m) => Free(m)'
      /\ \A m \in Facts : job[w].msg = m /\ w \in Readers => Free(m)'
  BY <1>1, <1>5, Left
<1> QED
  BY <1>1, <1>3, <1>6

\* The invariant is inductive.
LEMMA IndexStep ==
    ASSUME IndexInv, [Next]_vars
    PROVE  IndexInv'
<1> USE DEF IndexInv
<1>1. TypeOK'
  BY TypeStep
<1>2. PICK c \in Consumers : TRUE
  BY Lanes DEF Lane, Key
<1>3. ASSUME UNCHANGED <<model, index>>, job' = job
      PROVE  TransactionsOK' /\ DatesChained' /\ ShowsChained'
  BY <1>2, <1>3, KeptSteps, KeptIndex
<1>4. \A k \in Key : \A i \in 1 .. Len(wal[k]) : KeyOf(wal[k][i]) = k
  BY DEF QueueOK, PathOK
<1>5. CASE UNCHANGED vars
  <2>1. QueueOK'
    BY <1>4, <1>5, SameHands DEF vars, path, Open
  <2> QED
    BY <1>1, <1>3, <1>5, <2>1 DEF vars, model
<1>6. CASE LoseSlot
  <2>1. \A k \in Key : \A i \in 1 .. Len(wal'[k]) : KeyOf(wal'[k][i]) = k
    BY <1>6 DEF LoseSlot
  <2>2. QueueOK'
    BY <1>6, <2>1, SameHands DEF LoseSlot, Open
  <2> QED
    BY <1>1, <1>3, <1>6, <2>2 DEF LoseSlot
<1>7. ASSUME NEW k \in Key, Relay(k)
      PROVE  IndexInv'
  BY <1>1, <1>3, <1>7, Relayed DEF Relay
<1>8. ASSUME NEW m \in Facts, republishOutboxRow(m)
      PROVE  IndexInv'
  <2>1. KeyOf(m) \in Key
    BY FactKinds
  <2>2. \A k \in Key : \A i \in 1 .. Len(wal'[k]) : KeyOf(wal'[k][i]) = k
    <3> SUFFICES ASSUME NEW k \in Key, NEW i \in 1 .. Len(wal'[k])
                 PROVE  KeyOf(wal'[k][i]) = k
      OBVIOUS
    <3>1. wal' = [wal EXCEPT ![KeyOf(m)] = Append(@, m)] /\ wal \in [Key -> Seq(Facts)]
      BY <1>8 DEF republishOutboxRow, TypeOK
    <3>2. CASE k # KeyOf(m)
      BY <1>4, <2>1, <3>1, <3>2
    <3>3. CASE k = KeyOf(m)
      <4>1. wal'[k] = Append(wal[k], m) /\ wal[k] \in Seq(Facts) /\ Len(wal[k]) \in Nat
        BY <2>1, <3>1, <3>3, PathFields
      <4>2. i \in 1 .. Len(wal[k]) \/ i = Len(wal[k]) + 1
        BY <4>1, Appended
      <4> QED
        BY <1>4, <3>3, <4>1, <4>2, Appended
    <3> QED
      BY <3>2, <3>3
  <2>3. QueueOK'
    BY <1>8, <2>2, SameHands DEF republishOutboxRow, Open
  <2> QED
    BY <1>1, <1>3, <1>8, <2>3 DEF republishOutboxRow
<1>9. ASSUME NEW w \in Consumers, eachMessage(w)
      PROVE  IndexInv'
  <2>1. PICK next \in Delivered(w) : Begin(w, next)
    BY <1>9 DEF eachMessage
  <2>2. job[w] = NULL /\ UNCHANGED path /\ UNCHANGED <<model, index>> /\ next \in Delivery
    BY <1>9, DeliveredShape DEF eachMessage
  <2>3. QueueOK'
    BY <2>1, <2>2, Taken
  <2>4. TransactionsOK' /\ DatesChained' /\ ShowsChained'
    BY <2>1, <2>2, BegunIndex
  <2> QED
    BY <1>1, <2>3, <2>4
<1>10. ASSUME NEW w \in Consumers, SaveArtist(w) \/ Commit(w) \/ PutShow(w) \/ PutDate(w)
       PROVE  IndexInv'
  <2>1. /\ job[w] \in Job /\ job'[w] \in Job /\ job' = [job EXCEPT ![w] = job'[w]]
        /\ job'[w].msg = job[w].msg /\ (job'[w].phase = "open" => job[w].phase = "open")
    BY <1>10, SaveShape, CommitShape, PutShowShape, PutDateShape
  <2>2. UNCHANGED path
    BY <1>10 DEF SaveArtist, Commit, PutShow, PutDate
  <2>3. \A v \in Consumers : /\ job'[v] = NULL <=> job[v] = NULL
                             /\ job[v] # NULL => job'[v].msg = job[v].msg
                             /\ Open(v)' => Open(v)
    <3>1. \A v \in Consumers : v # w => job'[v] = job[v]
      BY <2>1 DEF TypeOK
    <3>2. job[w] # NULL /\ job'[w] # NULL
      BY <2>1, JobFields
    <3> QED
      BY <2>1, <3>1, <3>2 DEF Open
  <2>4. QueueOK'
    BY <1>4, <2>2, <2>3, SameHands DEF path
  <2>5. TransactionsOK'
    BY <1>10, SaveIndex, CommitTransactions, PutTransactions
  <2>6. DatesChained' /\ ShowsChained'
    BY <1>10, SaveIndex, CommitChained, PutShowChained, PutDateChained
  <2> QED
    BY <1>1, <2>4, <2>5, <2>6
<1>11. ASSUME NEW w \in Consumers,
              Return(w) \/ HandlerFails(w) \/ SaveConflicts(w) \/ Crash(w)
       PROVE  IndexInv'
  <2>1. job' = [job EXCEPT ![w] = NULL] /\ UNCHANGED <<model, index>> /\ QueueOK'
    BY <1>11, Returned, Failed, Crashed
  <2> QED
    BY <1>1, <2>1, KeptSteps, KeptIndex
<1>12. ASSUME NEW w \in Consumers, Reassign(w)
       PROVE  IndexInv'
  <2>1. QueueOK' /\ UNCHANGED <<model, index>>
    BY <1>12, Reassigned DEF Reassign
  <2> QED
    BY <1>1, <1>12, <2>1, KeptSteps, KeptIndex
<1> QED
  BY <1>5, <1>6, <1>7, <1>8, <1>9, <1>10, <1>11, <1>12 DEF Next, Step

\* Every reachable state has a type, its messages where a reader finds them, transactions
\* on rows of their own, and documents in the order of their versions.
THEOREM IndexInvariance == Spec => []IndexInv
<1>1. Init => IndexInv
  BY IndexInit
<1>2. IndexInv /\ [Next]_vars => IndexInv'
  BY IndexStep
<1> QED
  BY <1>1, <1>2, PTL DEF Spec

\* TypeOK: the path, the jobs, the read model and the documents keep their types
\* (eachMessage, applyShowMessage, applyArtistMessage, applyDateMessage).
THEOREM TypeInvariance == Spec => []TypeOK
<1>1. IndexInv => TypeOK
  BY DEF IndexInv
<1> QED
  BY <1>1, IndexInvariance, PTL

\* A put replaces a document by one no older.
LEMMA ForwardStep ==
    ASSUME IndexInv, [Next]_vars
    PROVE  [/\ \A f \in {"published", "updatable"} : index'.show[f] >= index.show[f]
            /\ \A f \in {"scheduled", "publication"} : index'.date[f] >= index.date[f]]_vars
<1> USE DEF IndexInv
<1>1. /\ index.show.published \in Nat /\ index.show.updatable \in Nat
      /\ index.date.scheduled \in Nat /\ index.date.publication \in Nat
      /\ index.date.version \in Nat
  BY RowFields
<1>2. CASE UNCHANGED index
  BY <1>1, <1>2
<1>3. ASSUME NEW w \in Consumers, PutShow(w)
      PROVE  /\ index'.date = index.date /\ index'.show.updatable >= index.show.updatable
             /\ index'.show.published >= index.show.published
  <2> DEFINE i == job[w]
  <2>1. /\ index'.date = index.date /\ ShowOK(i.show) /\ i.show \in ShowRow
        /\ \/ index'.show = index.show
           \/ /\ i.show.published # 0
              /\ index'.show.updatable = i.show.updatable
              /\ index'.show.published = i.show.published
              /\ i.show.updatable >= index.show.updatable
    BY <1>3, PutShowIndex
  <2>2. i.show.published # 0 /\ index.show.published # 0 => i.show.published = index.show.published
    <3>1. ShowOK(index.show)
      BY DEF ShowsChained
    <3> QED
      BY <2>1, <3>1, OutboxAssumption DEF ShowOK, OutboxAssumption
  <2>3. i.show.published \in Nat
    BY <2>1 DEF ShowRow
  <2> QED
    BY <1>1, <2>1, <2>2, <2>3
<1>4. ASSUME NEW w \in Consumers, PutDate(w)
      PROVE  /\ index'.show = index.show /\ index'.date.scheduled >= index.date.scheduled
             /\ index'.date.publication >= index.date.publication
  <2> DEFINE i == job[w]
  <2>1. /\ index'.show = index.show /\ Composing(i) /\ i \in Job
        /\ \/ index'.date = index.date
           \/ /\ i.date.scheduled # 0 /\ i.date.doc >= index.date.version
              /\ index'.date.scheduled = i.date.scheduled
              /\ index'.date.publication = i.date.publication
    BY <1>4, PutDateIndex
  <2>2. i.date.scheduled # 0 /\ i.date.doc >= index.date.version => NoOlder(i.date, index.date)
    BY <2>1 DEF DatesChained
  <2> QED
    BY <1>1, <2>1, <2>2 DEF NoOlder
<1>5. \/ UNCHANGED index
      \/ \E w \in Consumers : PutShow(w) \/ PutDate(w)
  BY DEF Next, Step, vars, LoseSlot, Relay, republishOutboxRow, eachMessage, SaveArtist, Commit,
         Return, HandlerFails, SaveConflicts, FailsWith, Crash, Reassign
<1> QED
  BY <1>1, <1>2, <1>3, <1>4, <1>5

\* IndexNeverBack: no put, of any consumer and however late, makes a document tell an older
\* fact than it told (versionedPut).
THEOREM IndexForward == Spec => IndexNeverBack
<1>1. IndexInv /\ [Next]_vars =>
         [/\ \A f \in {"published", "updatable"} : index'.show[f] >= index.show[f]
          /\ \A f \in {"scheduled", "publication"} : index'.date[f] >= index.date[f]]_vars
  BY ForwardStep
<1> QED
  BY <1>1, IndexInvariance, PTL DEF Spec, IndexNeverBack

-----------------------------------------------------------------------------
(***************************************************************************)
(* A date public from the beginning: what its documents tell.              *)
(***************************************************************************)

\* What a job tells of a fact rests on the rows it holds.
LEMMA JobTellsRows ==
    ASSUME NEW j, NEW m \in Facts,
           KindOf[m] \in {"show_published", "show_updated"} =>
              \/ KeyOf(j.msg) = "artist" /\ j.phase = "open"
              \/ /\ j.show.updatable >= VersionOf[m]
                 /\ KindOf[m] = "show_published" => j.show.published >= VersionOf[m],
           KindOf[m] = "artist_updated" =>
              \/ j.artist >= VersionOf[m]
              \/ KeyOf(j.msg) = "show" /\ (j.phase # "put_date" \/ j.show.published = 0),
           KindOf[m] = "date_scheduled" => j.date.scheduled >= VersionOf[m],
           KindOf[m] = "state_changed" => j.date.publication >= VersionOf[m]
    PROVE  JobTells(j, m)
BY FactKinds DEF JobTells, Kind

\* A document of the row's version tells what the rows know.
LEMMA SinceNow ==
    TypeOK /\ DatesChained /\ DocumentsCurrent =>
        \A m \in Facts, d \in Nat : Known(m) /\ d >= date.doc => Since(m, d)
<1> SUFFICES ASSUME TypeOK, DatesChained, DocumentsCurrent, NEW m \in Facts, NEW d \in Nat,
                    Known(m), d >= date.doc
             PROVE  Since(m, d)
  OBVIOUS
<1>1. KindOf[m] \in Kind /\ VersionOf[m] \in Nat /\ VersionOf[m] > 0
  BY FactKinds
<1>2. /\ KindOf[m] = "show_published" => show.published >= VersionOf[m]
      /\ KindOf[m] \in {"show_published", "show_updated"} => show.updatable >= VersionOf[m]
      /\ KindOf[m] = "artist_updated" => artist >= VersionOf[m]
      /\ KindOf[m] = "date_scheduled" => date.scheduled >= VersionOf[m]
      /\ KindOf[m] = "state_changed" => date.publication >= VersionOf[m]
  BY <1>1 DEF Known, Kind
<1>3. ASSUME index.date.version >= d
      PROVE  IndexTells(m)
  <2>1. index.date.version = date.doc
    BY <1>3, RowFields DEF DatesChained
  <2>2. /\ index.date.published = show.published /\ index.date.updatable = show.updatable
        /\ index.date.artist = artist \/ (show.published = 0 /\ show.updatable # 0)
        /\ NoOlder(index.date, date)
    BY <2>1 DEF DocumentsCurrent, DatesChained
  <2>3. /\ index.date.scheduled >= date.scheduled /\ index.date.publication >= date.publication
    BY <2>2 DEF NoOlder
  <2>4. /\ KindOf[m] = "date_scheduled" => index.date.scheduled >= VersionOf[m]
        /\ KindOf[m] = "state_changed" => index.date.publication >= VersionOf[m]
    BY <1>1, <1>2, <2>3, RowFields
  <2> QED
    BY <1>1, <1>2, <2>2, <2>4 DEF IndexTells, Shows, Kind
<1>4. ASSUME NEW w \in Consumers, Composing(job[w]), job[w].date.doc >= d
      PROVE  JobTells(job[w], m)
  <2> DEFINE j == job[w]
  <2>1. j \in Job /\ j.date.scheduled # 0
    BY <1>4, JobOf DEF DocumentsCurrent, Composing
  <2>2. j.date.doc <= date.doc
    BY <1>4, <2>1 DEF DatesChained
  <2>3. j.date.doc = date.doc
    BY <1>4, <2>1, <2>2, JobFields, RowFields
  <2>4. NoOlder(j.date, date)
    BY <1>4, <2>1, <2>3 DEF DatesChained
  <2>5. /\ KeyOf(j.msg) # "artist" \/ j.phase # "open" => j.show = show
        /\ KeyOf(j.msg) # "show" => j.artist = artist
        /\ KeyOf(j.msg) = "show" /\ j.phase = "put_date" =>
              j.artist = IF show.published = 0 THEN 0 ELSE artist
    BY <1>4, <2>3 DEF DocumentsCurrent
  <2>6. /\ KindOf[m] = "date_scheduled" => j.date.scheduled >= VersionOf[m]
        /\ KindOf[m] = "state_changed" => j.date.publication >= VersionOf[m]
    BY <1>1, <1>2, <2>1, <2>4, RowFields, JobFields DEF NoOlder
  <2> HIDE DEF j
  <2>7. KindOf[m] = "artist_updated" =>
           \/ j.artist >= VersionOf[m]
           \/ KeyOf(j.msg) = "show" /\ (j.phase # "put_date" \/ j.show.published = 0)
    BY <1>2, <2>5
  <2>8. KindOf[m] \in {"show_published", "show_updated"} =>
           \/ KeyOf(j.msg) = "artist" /\ j.phase = "open"
           \/ /\ j.show.updatable >= VersionOf[m]
              /\ KindOf[m] = "show_published" => j.show.published >= VersionOf[m]
    BY <1>2, <2>5
  <2>9. JobTells(j, m)
    BY <2>6, <2>7, <2>8, JobTellsRows
  <2> QED
    BY <2>9 DEF j
<1> QED
  BY <1>3, <1>4 DEF Since

\* What tells a fact tells the ones it restates.
LEMMA Restated ==
    TypeOK => \A m, n \in Facts, d \in Nat : Restates(n, m) /\ Since(n, d) => Since(m, d)
<1> SUFFICES ASSUME TypeOK, NEW m \in Facts, NEW n \in Facts, NEW d \in Nat,
                    Restates(n, m), Since(n, d)
             PROVE  Since(m, d)
  OBVIOUS
<1>1. /\ VersionOf[n] >= VersionOf[m] /\ VersionOf[n] \in Nat /\ VersionOf[m] \in Nat
      /\ KindOf[m] \in Kind /\ KindOf[n] \in Kind
      /\ KindOf[n] = KindOf[m] \/ (KindOf[n] = "show_published" /\ KindOf[m] = "show_updated")
  BY FactKinds DEF Restates
<1>2. Known(m)
  BY <1>1, RowFields DEF Since, Known, Kind
<1>3. index.date.version >= d => IndexTells(m)
  BY <1>1, RowFields DEF Since, IndexTells, Shows, Kind
<1>4. ASSUME NEW w \in Consumers, Composing(job[w]), job[w].date.doc >= d
      PROVE  JobTells(job[w], m)
  <2>1. job[w] \in Job /\ JobTells(job[w], n)
    BY <1>4, JobOf DEF Since, Composing
  <2>2. /\ job[w].show.published \in Nat /\ job[w].show.updatable \in Nat /\ job[w].artist \in Nat
        /\ job[w].date.scheduled \in Nat /\ job[w].date.publication \in Nat
    BY <2>1, JobFields
  <2> QED
    BY <1>1, <2>1, <2>2 DEF JobTells, Kind
<1> QED
  BY <1>2, <1>3, <1>4 DEF Since

\* To restate is a preorder.
LEMMA RestatesOrder ==
    /\ \A m \in Facts : Restates(m, m)
    /\ \A l, m, n \in Facts : Restates(n, m) /\ Restates(m, l) => Restates(n, l)
BY FactKinds DEF Restates

-----------------------------------------------------------------------------
(* What was told stays told.                                               *)

\* While no row, document or job is written.
LEMMA KeptTold ==
    ASSUME TypeOK, DocumentsCurrent, FactsKnown, RowsFromFacts, Kept
    PROVE  /\ \A m \in Facts, d \in Nat : Since(m, d) => Since(m, d)'
           /\ DocumentsCurrent' /\ FactsKnown' /\ RowsFromFacts'
<1>1. /\ processed' = processed /\ show' = show /\ artist' = artist /\ date' = date
      /\ index' = index /\ overwritten' = overwritten
  BY DEF Kept, model
<1>2. PICK from \in [Consumers -> Consumers] :
         \A v \in Consumers : job'[v] # NULL => job'[v] = job[from[v]]
  BY DEF Kept
<1>3. ASSUME NEW m \in Facts
      PROVE  (Known(m)' <=> Known(m)) /\ (IndexTells(m)' <=> IndexTells(m))
  BY <1>1 DEF Known, IndexTells, Shows
<1>4. ASSUME NEW m \in Facts, NEW d \in Nat, Since(m, d)
      PROVE  Since(m, d)'
  <2>1. ASSUME NEW v \in Consumers, Composing(job'[v]), job'[v].date.doc >= d
        PROVE  JobTells(job'[v], m)
    <3>1. job'[v] = job[from[v]] /\ from[v] \in Consumers
      BY <1>2, <2>1 DEF Composing
    <3> QED
      BY <1>4, <2>1, <3>1 DEF Since
  <2> QED
    BY <1>1, <1>3, <1>4, <2>1 DEF Since, JobTells, Composing
<1>5. DocumentsCurrent'
  <2>1. \A v \in Consumers : job'[v] # NULL => job'[v] = job[from[v]] /\ from[v] \in Consumers
    BY <1>2
  <2> QED
    BY <1>1, <2>1 DEF DocumentsCurrent, Composing, Open
<1>6. FactsKnown'
  <2>1. \A m \in Standing' : Known(m)'
    BY <1>1, <1>3 DEF FactsKnown, Standing, TypeOK
  <2>2. ASSUME NEW v \in Consumers, NEW m \in Facts \ overwritten', NEW d \in Nat,
               Composing(job'[v]), job'[v].msg = m, job'[v].date.doc = d
        PROVE  Since(m, d)'
    <3>1. job'[v] = job[from[v]] /\ from[v] \in Consumers
      BY <1>2, <2>2 DEF Composing
    <3> QED
      BY <1>1, <1>4, <2>2, <3>1 DEF FactsKnown
  <2> QED
    BY <2>1, <2>2 DEF FactsKnown, Composing
<1>7. RowsFromFacts'
  BY <1>1 DEF RowsFromFacts, Standing
<1> QED
  BY <1>4, <1>5, <1>6, <1>7

\* A transaction begins: a duplicate's documents are the rows'.
LEMMA BegunTold ==
    ASSUME TypeOK, DatesChained, DocumentsCurrent, FactsKnown, RowsFromFacts,
           NEW w \in Consumers, NEW next \in Delivery, Begin(w, next), job[w] = NULL,
           UNCHANGED <<model, index>>
    PROVE  /\ \A m \in Facts, d \in Nat : Since(m, d) => Since(m, d)'
           /\ DocumentsCurrent' /\ FactsKnown' /\ RowsFromFacts'
<1> DEFINE j == job'[w]
           n == next.msg
           k == KeyOf(n)
<1>1. /\ job' = [job EXCEPT ![w] = j] /\ j \in Job /\ j # NULL /\ n \in Facts
      /\ j.msg = n /\ j.phase = "open"
      /\ j.outcome = "duplicate" <=> n \in processed
      /\ j.outcome # "applied" => j.show = show /\ j.artist = artist /\ j.date = date
      /\ j.outcome = "superseded" => Superseded(n)
      /\ j.outcome = "applied" =>
            /\ k = "show" => j.show = showAfter(n, show)
            /\ k = "date" => /\ j.locks = {k} /\ j.show = show /\ j.artist = artist
                             /\ j.date = recomposed(dateAfter(n, date))
            /\ k # "date" =>
                  /\ \/ j.locks = {k} \cup (IF date.scheduled # 0 THEN {"date"} ELSE {})
                     \/ k = "artist" /\ j.locks = {}
                  /\ j.date = recomposed(date)
  BY BeginShape, JobFields
<1>2. /\ processed' = processed /\ show' = show /\ artist' = artist /\ date' = date
      /\ index' = index /\ overwritten' = overwritten
  BY DEF model
<1>3. \A v \in Consumers : v # w => job'[v] = job[v]
  BY <1>1 DEF TypeOK
<1>4. /\ date \in DateRow /\ show \in ShowRow /\ artist \in Nat /\ date.doc \in Nat
      /\ date.scheduled \in Nat /\ show.updatable \in Nat /\ show.published \in Nat
  BY RowFields DEF TypeOK
<1>5. /\ VersionOf[n] \in Nat /\ VersionOf[n] > 0 /\ k \in Key /\ KindOf[n] \in Kind
      /\ k = "show" <=> KindOf[n] \in {"show_published", "show_updated"}
  BY <1>1, FactKinds
<1>6. Composing(j) <=> j.outcome = "duplicate"
  BY <1>1 DEF Composing
<1> HIDE DEF j, n
<1>7. ASSUME NEW m \in Facts
      PROVE  (Known(m)' <=> Known(m)) /\ (IndexTells(m)' <=> IndexTells(m))
  BY <1>2 DEF Known, IndexTells, Shows
<1>8. ASSUME NEW m \in Facts, Known(m), Composing(j)
      PROVE  JobTells(j, m)
  <2>1. j.show = show /\ j.artist = artist /\ j.date = date
    BY <1>1, <1>6, <1>8
  <2> QED
    BY <1>8, <2>1, FactKinds DEF Known, JobTells, Kind
<1>9. ASSUME NEW m \in Facts, NEW d \in Nat, Since(m, d)
      PROVE  Since(m, d)'
  <2>1. Known(m)
    BY <1>9 DEF Since
  <2>2. ASSUME NEW v \in Consumers, Composing(job'[v]), job'[v].date.doc >= d
        PROVE  JobTells(job'[v], m)
    <3>1. CASE v = w
      BY <1>8, <2>1, <2>2, <3>1 DEF j
    <3>2. CASE v # w
      BY <1>3, <1>9, <2>2, <3>2 DEF Since
    <3> QED
      BY <3>1, <3>2
  <2>3. Known(m)' /\ (index'.date.version >= d => IndexTells(m)')
    BY <1>2, <1>7, <1>9 DEF Since
  <2> QED
    BY <2>2, <2>3 DEF Since, JobTells, Composing
<1>10. n \in processed /\ KindOf[n] # "artist_updated" => Known(n)
  BY DEF FactsKnown, RowsFromFacts, Standing
<1>11. DocumentsCurrent'
  <2>1. j.date.scheduled # 0
    <3>1. date.scheduled # 0
      BY DEF DocumentsCurrent
    <3>2. recomposed(date).scheduled = date.scheduled
      BY <1>4, Recomposed
    <3>3. recomposed(dateAfter(n, date)).scheduled # 0
      BY <1>1, <1>4, <1>5, <3>1, DateAfter, Recomposed
    <3> QED
      BY <1>1, <3>1, <3>2, <3>3
  <2>2. k = "show" => j.show.updatable # 0
    <3> SUFFICES ASSUME k = "show"
                 PROVE  j.show.updatable # 0
      OBVIOUS
    <3>1. CASE j.outcome = "applied"
      BY <1>1, <1>4, <1>5, <3>1, ShowAfter
    <3>2. CASE j.outcome = "superseded"
      <4>1. ~(VersionOf[n] >= show.updatable)
        BY <1>1, <1>5, <3>2 DEF Superseded, takes
      <4> QED
        BY <1>1, <1>4, <1>5, <3>2, <4>1
    <3>3. CASE j.outcome = "duplicate"
      <4>1. show.updatable >= VersionOf[n]
        BY <1>1, <1>5, <1>10, <3>3 DEF Known
      <4> QED
        BY <1>1, <1>4, <1>5, <3>3, <4>1
    <3> QED
      BY <1>1, <3>1, <3>2, <3>3, JobFields
  <2>3. j.outcome = "applied" =>
           /\ j.locks # {} => "date" \in j.locks
           /\ k = "date" => j.show = show /\ j.artist = artist
    BY <1>1 DEF DocumentsCurrent
  <2>4. ASSUME NEW v \in Consumers, job'[v] # NULL
        PROVE  /\ job'[v].date.scheduled # 0
               /\ KeyOf(job'[v].msg) = "show" => job'[v].show.updatable # 0
               /\ job'[v].phase = "open" /\ job'[v].outcome = "applied" =>
                     /\ job'[v].locks # {} => "date" \in job'[v].locks
                     /\ KeyOf(job'[v].msg) = "date" => job'[v].show = show /\ job'[v].artist = artist
    <3>1. CASE v = w
      BY <1>1, <2>1, <2>2, <2>3, <3>1 DEF j
    <3>2. CASE v # w
      BY <1>3, <2>4, <3>2 DEF DocumentsCurrent, Open
    <3> QED
      BY <3>1, <3>2
  <2>5. ASSUME NEW v \in Consumers, Composing(job'[v]), job'[v].date.doc = date.doc
        PROVE  /\ KeyOf(job'[v].msg) # "artist" \/ job'[v].phase # "open" => job'[v].show = show
               /\ KeyOf(job'[v].msg) # "show" => job'[v].artist = artist
               /\ KeyOf(job'[v].msg) = "show" /\ job'[v].phase = "put_date" =>
                     job'[v].artist = IF show.published = 0 THEN 0 ELSE artist
    <3>1. CASE v = w
      BY <1>1, <1>6, <2>5, <3>1 DEF j
    <3>2. CASE v # w
      BY <1>3, <2>5, <3>2 DEF DocumentsCurrent
    <3> QED
      BY <3>1, <3>2
  <2> QED
    BY <1>2, <2>4, <2>5 DEF DocumentsCurrent, Open, Composing
<1>12. FactsKnown'
  <2>1. \A m \in Standing' : Known(m)'
    BY <1>2, <1>7 DEF FactsKnown, Standing, TypeOK
  <2>2. ASSUME NEW v \in Consumers, NEW m \in Facts \ overwritten', NEW d \in Nat,
               Composing(job'[v]), job'[v].msg = m, job'[v].date.doc = d
        PROVE  Since(m, d)'
    <3>1. CASE v # w
      BY <1>2, <1>3, <1>9, <2>2, <3>1 DEF FactsKnown
    <3>2. CASE v = w
      <4>1. m \in processed /\ d = date.doc
        BY <1>1, <1>6, <2>2, <3>2 DEF j
      <4>2. Known(m)
        BY <1>2, <2>2, <4>1 DEF FactsKnown, Standing
      <4>3. Since(m, d)
        BY <1>4, <4>1, <4>2, SinceNow
      <4> QED
        BY <1>9, <4>3
    <3> QED
      BY <3>1, <3>2
  <2> QED
    BY <2>1, <2>2 DEF FactsKnown, Composing
<1>13. RowsFromFacts'
  BY <1>2 DEF RowsFromFacts, Standing
<1> QED
  BY <1>9, <1>11, <1>12, <1>13

\* A commit leaves the rows knowing its fact, and all they knew but what it was saved over.
LEMMA CommitKnown ==
    ASSUME TypeOK, TransactionsOK, DocumentsCurrent, FactsKnown, NEW w \in Consumers, Commit(w)
    PROVE  /\ \A m \in processed : Known(m) /\ m \notin overwritten' => Known(m)'
           /\ \A m \in Facts : job[w].msg = m /\ m \notin overwritten' => Known(m)'
<1> DEFINE i == job[w]
           n == i.msg
<1>1. /\ n \in Facts /\ OpenOK(i)
      /\ i.outcome # "applied" => show' = show /\ artist' = artist /\ date' = date
      /\ i.outcome = "applied" =>
            artist' = IF KeyOf(n) = "artist" THEN VersionOf[n] ELSE artist
      /\ overwritten' = IF ~i.first THEN overwritten
            ELSE overwritten \cup {x \in processed : /\ KindOf[x] = "artist_updated"
                                                    /\ VersionOf[x] > i.artist}
  BY CommitRows
<1>2. /\ i \in Job /\ i.phase = "open" /\ i # NULL /\ i.locks # {}
      /\ i.outcome \in {"applied", "duplicate", "superseded"}
  BY CommitShape, JobFields
<1>3. /\ show'.published \in Nat /\ show'.updatable \in Nat /\ artist' \in Nat
      /\ show'.published >= show.published /\ show'.updatable >= show.updatable
      /\ i.first \/ artist' >= artist
      /\ i.outcome = "applied" /\ KeyOf(n) = "show" =>
            /\ show'.updatable >= VersionOf[n]
            /\ KindOf[n] = "show_published" => show'.published >= VersionOf[n]
  BY NewerRows
<1>4. /\ date' \in DateRow /\ NoOlder(date', date)
      /\ i.outcome = "applied" /\ "date" \in i.locks =>
            /\ KindOf[n] = "date_scheduled" => date'.scheduled = VersionOf[n]
            /\ KindOf[n] = "state_changed" => date'.publication = VersionOf[n]
  BY NewerDate
<1>5. i.outcome = "applied" => "date" \in i.locks
  BY <1>2 DEF DocumentsCurrent, Open
<1>6. /\ VersionOf[n] \in Nat /\ KindOf[n] \in Kind
      /\ KeyOf(n) = "show" <=> KindOf[n] \in {"show_published", "show_updated"}
      /\ KeyOf(n) = "artist" <=> KindOf[n] = "artist_updated"
  BY <1>1, FactKinds
<1>7. /\ show.published \in Nat /\ show.updatable \in Nat /\ artist \in Nat
      /\ date.scheduled \in Nat /\ date.publication \in Nat
      /\ date'.scheduled \in Nat /\ date'.publication \in Nat
      /\ date'.scheduled >= date.scheduled /\ date'.publication >= date.publication
  BY <1>4, RowFields DEF DateRow, NoOlder
<1>8. i.first => i.artist = artist' /\ i.outcome = "applied"
  BY <1>1, <1>6 DEF OpenOK
<1> HIDE DEF i, n
<1>9. ASSUME NEW m \in processed, Known(m), m \notin overwritten'
      PROVE  Known(m)'
  <2>1. VersionOf[m] \in Nat /\ KindOf[m] \in Kind
    BY FactKinds DEF TypeOK
  <2>2. KindOf[m] = "artist_updated" => artist' >= VersionOf[m]
    <3> SUFFICES ASSUME KindOf[m] = "artist_updated"
                 PROVE  artist' >= VersionOf[m]
      OBVIOUS
    <3>1. CASE ~i.first
      BY <1>3, <1>7, <1>9, <2>1, <3>1 DEF Known
    <3>2. CASE i.first
      <4>1. ~(VersionOf[m] > artist')
        BY <1>1, <1>8, <1>9, <3>2
      <4> QED
        BY <1>3, <2>1, <4>1
    <3> QED
      BY <3>1, <3>2
  <2> QED
    BY <1>3, <1>7, <1>9, <2>1, <2>2 DEF Known, Kind
<1>10. ASSUME NEW m \in Facts, n = m, m \notin overwritten'
       PROVE  Known(m)'
  <2>1. CASE i.outcome = "applied"
    <3>1. /\ KindOf[m] = "show_published" => show'.published >= VersionOf[m]
          /\ KindOf[m] \in {"show_published", "show_updated"} => show'.updatable >= VersionOf[m]
          /\ KindOf[m] = "artist_updated" => artist' >= VersionOf[m]
          /\ KindOf[m] = "date_scheduled" => date'.scheduled >= VersionOf[m]
          /\ KindOf[m] = "state_changed" => date'.publication >= VersionOf[m]
      BY <1>1, <1>3, <1>4, <1>5, <1>6, <1>7, <1>10, <2>1
    <3> QED
      BY <1>6, <1>10, <3>1 DEF Known, Kind
  <2>2. CASE i.outcome = "duplicate"
    <3>1. m \in Standing
      BY <1>1, <1>10, <2>2 DEF OpenOK, Standing, n
    <3> QED
      BY <1>9, <1>10, <3>1 DEF FactsKnown, Standing
  <2>3. CASE i.outcome = "superseded"
    <3>1. Superseded(m)
      BY <1>1, <1>10, <2>3 DEF OpenOK, n
    <3>2. Known(m)
      BY <1>6, <1>7, <1>10, <3>1 DEF Superseded, Known, takes, Kind
    <3> QED
      BY <1>1, <2>3, <3>2 DEF Known
  <2> QED
    BY <1>2, <2>1, <2>2, <2>3
<1> QED
  BY <1>9, <1>10 DEF n, i

\* Its documents are the rows'.
LEMMA CommitCurrent ==
    ASSUME TypeOK, TransactionsOK, DatesChained, DocumentsCurrent, NEW w \in Consumers, Commit(w)
    PROVE  /\ DocumentsCurrent'
           /\ job[w].outcome = "applied" => job'[w].date = date' /\ date'.doc = date.doc + 1
<1> DEFINE i == job[w]
           j == job'[w]
           n == i.msg
           k == KeyOf(n)
<1>1. /\ n \in Facts /\ k \in Key /\ OpenOK(i) /\ index' = index
      /\ i.outcome # "applied" => show' = show /\ artist' = artist /\ date' = date
      /\ i.outcome = "applied" =>
            /\ show' = IF k = "show" THEN showAfter(n, show) ELSE show
            /\ artist' = IF k = "artist" THEN VersionOf[n] ELSE artist
            /\ date' = IF "date" \in i.locks THEN i.date ELSE date
  BY CommitRows
<1>2. /\ i \in Job /\ i.phase = "open" /\ i # NULL /\ Open(w) /\ i.locks # {}
      /\ i.outcome \in {"applied", "duplicate", "superseded"}
      /\ job' = [job EXCEPT ![w] = j] /\ j \in Job /\ j # NULL
      /\ j.msg = n /\ j.outcome = i.outcome /\ j.artist = i.artist /\ j.date = i.date
      /\ j.show = IF k = "artist" THEN show ELSE i.show
      /\ j.phase = IF i.outcome = "superseded" THEN "done"
                   ELSE IF k = "show" THEN "put_show" ELSE "put_date"
  BY CommitShape, JobFields DEF Open
<1>3. \A v \in Consumers : v # w => job'[v] = job[v]
  BY <1>2 DEF TypeOK
<1>4. /\ i.date.scheduled # 0
      /\ k = "show" => i.show.updatable # 0
      /\ i.outcome = "applied" =>
            /\ "date" \in i.locks
            /\ k = "date" => i.show = show /\ i.artist = artist
  BY <1>2 DEF DocumentsCurrent
<1>5. i.outcome = "applied" => i.date = date' /\ date'.doc = date.doc + 1
  BY <1>1, <1>4, NewerDate
<1>6. /\ date.scheduled # 0 /\ date.scheduled \in Nat /\ date.doc \in Nat
      /\ index.date.version \in Nat /\ index.date.version <= date.doc
  BY RowFields DEF DocumentsCurrent, DatesChained
<1> HIDE DEF i, j
<1>7. date'.scheduled # 0
  BY <1>1, <1>4, <1>5, <1>6
<1>8. ASSUME NEW v \in Consumers, job'[v] # NULL
      PROVE  /\ job'[v].date.scheduled # 0
             /\ KeyOf(job'[v].msg) = "show" => job'[v].show.updatable # 0
             /\ job'[v].phase = "open" /\ job'[v].outcome = "applied" =>
                   /\ job'[v].locks # {} => "date" \in job'[v].locks
                   /\ KeyOf(job'[v].msg) = "date" => job'[v].show = show' /\ job'[v].artist = artist'
  <2>1. CASE v = w
    BY <1>2, <1>4, <2>1 DEF j
  <2>2. CASE v # w
    <3>1. /\ job'[v] = job[v] /\ job[v] # NULL
          /\ job[v].date.scheduled # 0
          /\ KeyOf(job[v].msg) = "show" => job[v].show.updatable # 0
          /\ job[v].phase = "open" /\ job[v].outcome = "applied" =>
                /\ job[v].locks # {} => "date" \in job[v].locks
                /\ KeyOf(job[v].msg) = "date" => job[v].show = show /\ job[v].artist = artist
      BY <1>3, <1>8, <2>2 DEF DocumentsCurrent, Open
    <3>2. job[v].phase = "open" /\ job[v].outcome = "applied" /\ KeyOf(job[v].msg) = "date" =>
             i.outcome # "applied"
      <4>1. job[v].phase = "open" => job[v].locks \cap i.locks = {}
        BY <1>2, <2>2, <3>1 DEF TransactionsOK, LocksOK, Open, i
      <4>2. job[v].phase = "open" /\ KeyOf(job[v].msg) = "date" => job[v].locks # {}
        BY <3>1 DEF TransactionsOK, JobOK, OpenOK
      <4> QED
        BY <1>4, <3>1, <4>1, <4>2
    <3> QED
      BY <1>1, <3>1, <3>2
  <2> QED
    BY <2>1, <2>2
<1>9. ASSUME NEW v \in Consumers, Composing(job'[v]), job'[v].date.doc = date'.doc
      PROVE  /\ KeyOf(job'[v].msg) # "artist" \/ job'[v].phase # "open" => job'[v].show = show'
             /\ KeyOf(job'[v].msg) # "show" => job'[v].artist = artist'
             /\ KeyOf(job'[v].msg) = "show" /\ job'[v].phase = "put_date" =>
                   job'[v].artist = IF show'.published = 0 THEN 0 ELSE artist'
  <2>1. CASE i.outcome = "applied" /\ v # w
    <3>1. job'[v] = job[v] /\ job[v] \in Job /\ job[v].date.scheduled # 0
      BY <1>3, <1>9, <2>1, JobOf DEF Composing, DocumentsCurrent
    <3>2. job[v].date.doc <= date.doc
      BY <1>9, <3>1 DEF DatesChained
    <3>3. job[v].date.doc \in Nat /\ date'.doc = date.doc + 1
      BY <1>5, <2>1, <3>1, JobFields
    <3> QED
      BY <1>6, <1>9, <3>1, <3>2, <3>3
  <2>2. CASE i.outcome = "applied" /\ v = w
    <3>1. k = "show" => i.show = showAfter(n, show)
      BY <1>1, <2>2 DEF OpenOK
    <3>2. k = "artist" => i.artist = VersionOf[n]
      BY <1>1, <2>2 DEF OpenOK
    <3> QED
      BY <1>1, <1>2, <1>4, <2>2, <3>1, <3>2 DEF j, Key
  <2>3. CASE i.outcome # "applied" /\ v # w
    BY <1>1, <1>3, <1>9, <2>3 DEF DocumentsCurrent
  <2>4. CASE i.outcome # "applied" /\ v = w
    <3>1. Composing(i) /\ i.date.doc = date.doc
      BY <1>1, <1>2, <1>9, <2>4 DEF Composing, j
    <3>2. /\ k # "artist" => i.show = show
          /\ k # "show" => i.artist = artist
      BY <3>1 DEF DocumentsCurrent, i
    <3> QED
      BY <1>1, <1>2, <2>4, <3>2 DEF j
  <2> QED
    BY <2>1, <2>2, <2>3, <2>4
<1>10. index'.date.version = date'.doc =>
          /\ index'.date.published = show'.published /\ index'.date.updatable = show'.updatable
          /\ index'.date.artist = artist' \/ (show'.published = 0 /\ show'.updatable # 0)
  <2>1. CASE i.outcome = "applied"
    BY <1>1, <1>5, <1>6, <2>1
  <2>2. CASE i.outcome # "applied"
    BY <1>1, <2>2 DEF DocumentsCurrent
  <2> QED
    BY <2>1, <2>2
<1>11. DocumentsCurrent'
  BY <1>7, <1>8, <1>9, <1>10 DEF DocumentsCurrent, Open, Composing
<1> QED
  BY <1>2, <1>5, <1>11 DEF i, j

\* The rows come from what is processed.
LEMMA CommitSources ==
    ASSUME TypeOK, TransactionsOK, RowsFromFacts, NEW w \in Consumers, Commit(w)
    PROVE  RowsFromFacts'
<1> DEFINE i == job[w]
           n == i.msg
           k == KeyOf(n)
<1>1. /\ n \in Facts /\ OpenOK(i) /\ processed' = processed \cup {n}
      /\ i.outcome # "applied" => show' = show /\ artist' = artist /\ date' = date
      /\ i.outcome = "applied" =>
            /\ show' = IF k = "show" THEN showAfter(n, show) ELSE show
            /\ artist' = IF k = "artist" THEN VersionOf[n] ELSE artist
      /\ overwritten' = IF ~i.first THEN overwritten
            ELSE overwritten \cup {x \in processed : /\ KindOf[x] = "artist_updated"
                                                    /\ VersionOf[x] > i.artist}
  BY CommitRows
<1>2. /\ i.outcome = "applied" /\ "date" \in i.locks =>
            /\ date'.scheduled \in {date.scheduled, VersionOf[n]}
            /\ date'.publication \in {date.publication, VersionOf[n]}
            /\ KindOf[n] # "date_scheduled" => date'.scheduled = date.scheduled
            /\ KindOf[n] # "state_changed" => date'.publication = date.publication
      /\ ~(i.outcome = "applied" /\ "date" \in i.locks) => date' = date
  BY NewerDate
<1>3. /\ show \in ShowRow /\ show.published \in Nat /\ show.updatable \in Nat
  BY RowFields DEF TypeOK
<1>4. /\ k = "artist" <=> KindOf[n] = "artist_updated"
  BY <1>1, FactKinds
<1>5. /\ showAfter(n, show).updatable \in {show.updatable, VersionOf[n]}
      /\ showAfter(n, show).published = show.published
         \/ (KindOf[n] = "show_published" /\ showAfter(n, show).published = VersionOf[n])
  BY <1>1, <1>3, ShowAfter
<1>0. /\ i.first => i.outcome = "applied" /\ k = "artist" /\ i.artist = VersionOf[n]
      /\ i.outcome = "applied" => n \notin processed
      /\ VersionOf[n] \in Nat /\ i.outcome \in {"applied", "duplicate", "superseded"}
  BY <1>1, FactKinds, CommitShape, JobFields DEF OpenOK
<1> HIDE DEF i, n
<1>6. /\ show'.published = show.published
         \/ (KindOf[n] = "show_published" /\ show'.published = VersionOf[n])
      /\ show'.updatable = show.updatable \/ (k = "show" /\ show'.updatable = VersionOf[n])
      /\ artist' = artist \/ (KindOf[n] = "artist_updated" /\ artist' = VersionOf[n])
  BY <1>1, <1>4, <1>5
<1>7. /\ date'.scheduled = date.scheduled
         \/ (KindOf[n] = "date_scheduled" /\ date'.scheduled = VersionOf[n])
      /\ date'.publication = date.publication
         \/ (KindOf[n] = "state_changed" /\ date'.publication = VersionOf[n])
  BY <1>2
<1>8. n \in processed' /\ processed \subseteq processed'
  BY <1>1
<1>9. \A x \in overwritten' : x \in processed' /\ KindOf[x] = "artist_updated"
  BY <1>1, <1>8 DEF RowsFromFacts
<1>10. artist' # 0 => \E x \in Standing' : KindOf[x] = "artist_updated" /\ VersionOf[x] = artist'
  <2>1. CASE i.outcome = "applied" /\ k = "artist"
    <3>1. n \notin overwritten'
      BY <1>0, <1>1, <2>1 DEF RowsFromFacts
    <3> QED
      BY <1>1, <1>4, <1>8, <2>1, <3>1 DEF Standing
  <2>2. CASE ~(i.outcome = "applied" /\ k = "artist")
    <3>1. artist' = artist /\ overwritten' = overwritten
      BY <1>0, <1>1, <2>2
    <3> QED
      BY <1>8, <3>1 DEF RowsFromFacts, Standing
  <2> QED
    BY <2>1, <2>2
<1> QED
  BY <1>6, <1>7, <1>8, <1>9, <1>10 DEF RowsFromFacts

\* A commit: what was told stays told, and its documents tell its fact.
LEMMA CommitTold ==
    ASSUME TypeOK, TransactionsOK, DatesChained, ShowsChained, DocumentsCurrent, FactsKnown,
           TypeOK', NEW w \in Consumers, Commit(w)
    PROVE  /\ \A m \in processed \ overwritten', d \in Nat : Since(m, d) => Since(m, d)'
           /\ FactsKnown'
<1> DEFINE i == job[w]
           j == job'[w]
           n == i.msg
           k == KeyOf(n)
<1>1. /\ n \in Facts /\ processed' = processed \cup {n} /\ index' = index
      /\ i.outcome # "applied" => show' = show /\ artist' = artist /\ date' = date
  BY CommitRows
<1>2. /\ i \in Job /\ i.phase = "open" /\ i # NULL
      /\ i.outcome \in {"applied", "duplicate", "superseded"}
      /\ job' = [job EXCEPT ![w] = j] /\ j \in Job /\ j # NULL
      /\ j.msg = n /\ j.outcome = i.outcome /\ j.artist = i.artist /\ j.date = i.date
      /\ j.show = IF k = "artist" THEN show ELSE i.show
      /\ j.phase = IF i.outcome = "superseded" THEN "done"
                   ELSE IF k = "show" THEN "put_show" ELSE "put_date"
  BY CommitShape, JobFields
<1>3. \A v \in Consumers : v # w => job'[v] = job[v]
  BY <1>2 DEF TypeOK
<1>4. /\ \A m \in processed : Known(m) /\ m \notin overwritten' => Known(m)'
      /\ \A m \in Facts : n = m /\ m \notin overwritten' => Known(m)'
      /\ overwritten \subseteq overwritten' /\ processed \subseteq Facts
  BY CommitKnown, CommitRows DEF TypeOK
<1>5. /\ DocumentsCurrent' /\ DatesChained'
      /\ i.outcome = "applied" => j.date = date' /\ date'.doc = date.doc + 1
  BY CommitCurrent, CommitChained
<1>6. (TypeOK /\ DatesChained /\ DocumentsCurrent =>
          \A m \in Facts, d \in Nat : Known(m) /\ d >= date.doc => Since(m, d))'
  BY SinceNow, PTL
<1>7. \A m \in Facts, d \in Nat : Known(m)' /\ d >= date'.doc => Since(m, d)'
  BY <1>5, <1>6
<1>8. date'.doc \in Nat /\ date.doc \in Nat
  BY RowFields DEF TypeOK, DateRow
<1> HIDE DEF i, j
<1>9. ASSUME NEW m \in processed \ overwritten', NEW d \in Nat, Since(m, d)
      PROVE  Since(m, d)'
  <2>0. m \in Facts
    BY <1>4
  <2>1. Known(m) /\ Known(m)'
    BY <1>4, <1>9 DEF Since
  <2>2. index'.date.version >= d => IndexTells(m)'
    BY <1>1, <1>9 DEF Since, IndexTells, Shows
  <2>3. ASSUME Composing(j), j.date.doc >= d
        PROVE  JobTells(j, m)
    <3>1. CASE i.outcome = "applied"
      <4>1. PICK e \in Nat : e = date'.doc
        BY <1>8
      <4>2. Since(m, e)'
        BY <1>7, <1>8, <2>0, <2>1, <4>1
      <4>3. \A v \in Consumers : Composing(job'[v]) /\ job'[v].date.doc >= e => JobTells(job'[v], m)
        BY <4>2 DEF Since, Composing, JobTells
      <4>4. j.date.doc >= e
        BY <1>5, <1>8, <3>1, <4>1
      <4> QED
        BY <2>3, <4>3, <4>4 DEF j
    <3>2. CASE i.outcome = "duplicate"
      <4>1. Composing(i) /\ i.date.doc >= d
        BY <1>2, <2>3, <3>2 DEF Composing
      <4>2. JobTells(i, m)
        BY <1>9, <4>1 DEF Since, i
      <4>3. k = "artist" /\ KindOf[m] \in {"show_published", "show_updated"} =>
               /\ j.show.updatable >= VersionOf[m]
               /\ KindOf[m] = "show_published" => j.show.published >= VersionOf[m]
        BY <1>2, <2>1 DEF Known
      <4>4. KindOf[m] \in Kind /\ k \in Key
        BY <1>1, <2>0, FactKinds
      <4>5. CASE k = "artist"
        BY <1>2, <1>3, <3>2, <4>2, <4>3, <4>4, <4>5 DEF JobTells, Kind
      <4>6. CASE k # "artist"
        BY <1>2, <3>2, <4>2, <4>4, <4>6 DEF JobTells, Kind
      <4> QED
        BY <4>5, <4>6
    <3> QED
      BY <1>2, <2>3, <3>1, <3>2 DEF Composing
  <2>4. ASSUME NEW v \in Consumers, Composing(job'[v]), job'[v].date.doc >= d
        PROVE  JobTells(job'[v], m)
    BY <1>3, <1>9, <2>3, <2>4 DEF Since, j
  <2> QED
    BY <2>1, <2>2, <2>4 DEF Since, JobTells, Composing
<1>10. FactsKnown'
  <2>1. \A m \in Standing' : Known(m)'
    BY <1>1, <1>4 DEF FactsKnown, Standing, TypeOK
  <2>2. ASSUME NEW v \in Consumers, NEW m \in Facts \ overwritten', NEW d \in Nat,
               Composing(job'[v]), job'[v].msg = m, job'[v].date.doc = d
        PROVE  Since(m, d)'
    <3>1. CASE v # w
      <4>1. job[v] = job'[v] /\ m \in processed
        BY <1>3, <2>2, <3>1 DEF Composing, TransactionsOK, JobOK, OpenOK
      <4> QED
        BY <1>4, <1>9, <2>2, <4>1 DEF FactsKnown
    <3>2. CASE v = w /\ i.outcome = "applied"
      <4>1. m = n /\ d = date'.doc
        BY <1>2, <1>5, <2>2, <3>2 DEF j
      <4> QED
        BY <1>4, <1>7, <1>8, <4>1
    <3>3. CASE v = w /\ i.outcome # "applied"
      <4>1. Composing(i) /\ i.msg = m /\ i.date.doc = d
        BY <1>2, <2>2, <3>3 DEF Composing, j
      <4>2. m \in processed
        BY <1>2, <4>1 DEF Composing, TransactionsOK, JobOK, OpenOK, i
      <4> QED
        BY <1>4, <1>9, <2>2, <4>1, <4>2 DEF FactsKnown, i
    <3> QED
      BY <3>1, <3>2, <3>3
  <2> QED
    BY <2>1, <2>2 DEF FactsKnown, Composing
<1> QED
  BY <1>9, <1>10

\* A put of the show: the date's document is to name the artist as read now.
LEMMA PutShowTold ==
    ASSUME TypeOK, TransactionsOK, ShowsChained, DocumentsCurrent, FactsKnown, RowsFromFacts,
           NEW w \in Consumers, PutShow(w)
    PROVE  /\ \A m \in Facts, d \in Nat : Since(m, d) => Since(m, d)'
           /\ DocumentsCurrent' /\ FactsKnown' /\ RowsFromFacts'
<1> DEFINE i == job[w]
           j == job'[w]
<1>1. /\ i \in Job /\ i.phase = "put_show" /\ i # NULL
      /\ job' = [job EXCEPT ![w] = j] /\ j \in Job /\ j # NULL
      /\ j.msg = i.msg /\ j.outcome = i.outcome /\ j.locks = i.locks /\ j.show = i.show
      /\ j.date = i.date /\ j.artist = IF i.show.published = 0 THEN 0 ELSE artist
      /\ j.phase = "put_date"
  BY PutShowShape, JobFields
<1>2. \A v \in Consumers : v # w => job'[v] = job[v]
  BY <1>1 DEF TypeOK
<1>3. /\ processed' = processed /\ show' = show /\ artist' = artist /\ date' = date
      /\ overwritten' = overwritten
  BY DEF PutShow, model
<1>4. index'.date = index.date /\ KeyOf(i.msg) = "show" /\ Composing(i)
  BY PutShowIndex
<1> HIDE DEF i, j
<1>5. ASSUME NEW m \in Facts
      PROVE  (Known(m)' <=> Known(m)) /\ (IndexTells(m)' <=> IndexTells(m))
  BY <1>3, <1>4 DEF Known, IndexTells, Shows
<1>6. ASSUME NEW m \in Facts, NEW d \in Nat, Since(m, d)
      PROVE  Since(m, d)'
  <2>1. Known(m) /\ KindOf[m] \in Kind
    BY <1>6, FactKinds DEF Since
  <2>2. ASSUME j.date.doc >= d
        PROVE  JobTells(j, m)
    <3>1. JobTells(i, m)
      BY <1>1, <1>4, <1>6, <2>2 DEF Since, i
    <3>2. KindOf[m] = "artist_updated" => artist >= VersionOf[m]
      BY <2>1 DEF Known
    <3> QED
      BY <1>1, <1>4, <2>1, <3>1, <3>2 DEF JobTells, Kind
  <2>3. ASSUME NEW v \in Consumers, Composing(job'[v]), job'[v].date.doc >= d
        PROVE  JobTells(job'[v], m)
    BY <1>2, <1>6, <2>2, <2>3 DEF Since, j
  <2>4. Known(m)' /\ (index'.date.version >= d => IndexTells(m)')
    BY <1>4, <1>5, <1>6, <2>1 DEF Since
  <2> QED
    BY <2>3, <2>4 DEF Since, JobTells, Composing
<1>7. DocumentsCurrent'
  <2>1. ASSUME NEW v \in Consumers, job'[v] # NULL
        PROVE  /\ job'[v].date.scheduled # 0
               /\ KeyOf(job'[v].msg) = "show" => job'[v].show.updatable # 0
               /\ job'[v].phase = "open" /\ job'[v].outcome = "applied" =>
                     /\ job'[v].locks # {} => "date" \in job'[v].locks
                     /\ KeyOf(job'[v].msg) = "date" => job'[v].show = show /\ job'[v].artist = artist
    <3>1. CASE v = w
      BY <1>1, <3>1 DEF DocumentsCurrent, i, j
    <3>2. CASE v # w
      BY <1>2, <2>1, <3>2 DEF DocumentsCurrent, Open
    <3> QED
      BY <3>1, <3>2
  <2>2. ASSUME NEW v \in Consumers, Composing(job'[v]), job'[v].date.doc = date.doc
        PROVE  /\ KeyOf(job'[v].msg) # "artist" \/ job'[v].phase # "open" => job'[v].show = show
               /\ KeyOf(job'[v].msg) # "show" => job'[v].artist = artist
               /\ KeyOf(job'[v].msg) = "show" /\ job'[v].phase = "put_date" =>
                     job'[v].artist = IF show.published = 0 THEN 0 ELSE artist
    <3>1. CASE v = w
      <4>1. i.show = show
        BY <1>1, <1>4, <2>2, <3>1 DEF DocumentsCurrent, i, j
      <4> QED
        BY <1>1, <1>4, <3>1, <4>1 DEF j
    <3>2. CASE v # w
      BY <1>2, <2>2, <3>2 DEF DocumentsCurrent
    <3> QED
      BY <3>1, <3>2
  <2> QED
    BY <1>3, <1>4, <2>1, <2>2 DEF DocumentsCurrent, Open, Composing
<1>8. FactsKnown'
  <2>1. \A m \in Standing' : Known(m)'
    BY <1>3, <1>5 DEF FactsKnown, Standing, TypeOK
  <2>2. ASSUME NEW v \in Consumers, NEW m \in Facts \ overwritten', NEW d \in Nat,
               Composing(job'[v]), job'[v].msg = m, job'[v].date.doc = d
        PROVE  Since(m, d)'
    <3>1. Composing(job[v]) /\ job[v].msg = m /\ job[v].date.doc = d
      BY <1>1, <1>2, <1>4, <2>2 DEF i, j
    <3> QED
      BY <1>3, <1>6, <3>1 DEF FactsKnown
  <2> QED
    BY <2>1, <2>2 DEF FactsKnown, Composing
<1>9. RowsFromFacts'
  BY <1>3 DEF RowsFromFacts, Standing
<1> QED
  BY <1>6, <1>7, <1>8, <1>9

\* A put of the date: the index tells what the job told.
LEMMA PutDateTold ==
    ASSUME TypeOK, TransactionsOK, DocumentsCurrent, FactsKnown, RowsFromFacts,
           NEW w \in Consumers, PutDate(w)
    PROVE  /\ \A m \in Facts, d \in Nat : Since(m, d) => Since(m, d)'
           /\ DocumentsCurrent' /\ FactsKnown' /\ RowsFromFacts'
           /\ index'.date.version >= index.date.version
           /\ index'.date.version >= job[w].date.doc
           /\ index'.date.version \in {index.date.version, job[w].date.doc}
<1> DEFINE i == job[w]
           j == job'[w]
<1>1. /\ i \in Job /\ i.phase = "put_date" /\ i # NULL
      /\ job' = [job EXCEPT ![w] = j] /\ j \in Job /\ j # NULL
      /\ j.msg = i.msg /\ j.outcome = i.outcome /\ j.locks = i.locks /\ j.show = i.show
      /\ j.date = i.date /\ j.phase = "done"
  BY PutDateShape, JobFields
<1>2. \A v \in Consumers : v # w => job'[v] = job[v]
  BY <1>1 DEF TypeOK
<1>3. /\ processed' = processed /\ show' = show /\ artist' = artist /\ date' = date
      /\ overwritten' = overwritten
  BY DEF PutDate, model
<1>4. i.date.scheduled # 0
  BY <1>1 DEF DocumentsCurrent
<1>5. /\ Composing(i)
      /\ \/ index'.date = index.date /\ i.date.doc < index.date.version
         \/ /\ i.date.doc >= index.date.version
            /\ index'.date.version = i.date.doc
            /\ index'.date.scheduled = i.date.scheduled
            /\ index'.date.publication = i.date.publication
            /\ index'.date.published = i.show.published
            /\ index'.date.updatable = i.show.updatable
            /\ index'.date.artist = i.artist
  BY <1>4, PutDateIndex
<1>6. ~Composing(j)
  BY <1>1 DEF Composing
<1>7. i.date.doc \in Nat /\ index.date.version \in Nat
  BY <1>1, JobFields, RowFields
<1>8. KeyOf(i.msg) = "show" => i.show.updatable # 0
  BY <1>1 DEF DocumentsCurrent
<1> HIDE DEF i, j
<1>9. /\ index'.date.version >= index.date.version /\ index'.date.version >= i.date.doc
      /\ index'.date.version \in {index.date.version, i.date.doc}
  BY <1>5, <1>7
<1>10. \A v \in Consumers : Composing(job'[v]) => Composing(job[v]) /\ job'[v] = job[v]
  BY <1>2, <1>6 DEF j
<1>11. ASSUME NEW m \in Facts
       PROVE  Known(m)' <=> Known(m)
  BY <1>3 DEF Known
<1>12. ASSUME NEW m \in Facts, NEW d \in Nat, Since(m, d)
       PROVE  Since(m, d)'
  <2>1. ASSUME index'.date.version >= d
        PROVE  IndexTells(m)'
    <3>1. CASE index'.date = index.date
      BY <1>12, <2>1, <3>1 DEF Since, IndexTells, Shows
    <3>2. CASE /\ index'.date.version = i.date.doc
               /\ index'.date.scheduled = i.date.scheduled
               /\ index'.date.publication = i.date.publication
               /\ index'.date.published = i.show.published
               /\ index'.date.updatable = i.show.updatable
               /\ index'.date.artist = i.artist
      <4>1. JobTells(i, m) /\ KindOf[m] \in Kind
        BY <1>5, <1>12, <2>1, <3>2, FactKinds DEF Since, i
      <4> QED
        BY <1>1, <1>8, <3>2, <4>1 DEF JobTells, IndexTells, Shows, Kind
    <3> QED
      BY <1>5, <3>1, <3>2
  <2>2. ASSUME NEW v \in Consumers, Composing(job'[v]), job'[v].date.doc >= d
        PROVE  JobTells(job'[v], m)
    BY <1>10, <1>12, <2>2 DEF Since
  <2>3. Known(m)'
    BY <1>11, <1>12 DEF Since
  <2> QED
    BY <2>1, <2>2, <2>3 DEF Since, JobTells, Composing
<1>13. DocumentsCurrent'
  <2>1. ASSUME NEW v \in Consumers, job'[v] # NULL
        PROVE  /\ job'[v].date.scheduled # 0
               /\ KeyOf(job'[v].msg) = "show" => job'[v].show.updatable # 0
               /\ job'[v].phase = "open" /\ job'[v].outcome = "applied" =>
                     /\ job'[v].locks # {} => "date" \in job'[v].locks
                     /\ KeyOf(job'[v].msg) = "date" => job'[v].show = show /\ job'[v].artist = artist
    <3>1. CASE v = w
      BY <1>1, <3>1 DEF DocumentsCurrent, i, j
    <3>2. CASE v # w
      BY <1>2, <2>1, <3>2 DEF DocumentsCurrent, Open
    <3> QED
      BY <3>1, <3>2
  <2>2. ASSUME NEW v \in Consumers, Composing(job'[v]), job'[v].date.doc = date.doc
        PROVE  /\ KeyOf(job'[v].msg) # "artist" \/ job'[v].phase # "open" => job'[v].show = show
               /\ KeyOf(job'[v].msg) # "show" => job'[v].artist = artist
               /\ KeyOf(job'[v].msg) = "show" /\ job'[v].phase = "put_date" =>
                     job'[v].artist = IF show.published = 0 THEN 0 ELSE artist
    BY <1>10, <2>2 DEF DocumentsCurrent
  <2>3. index'.date.version = date.doc =>
           /\ index'.date.published = show.published /\ index'.date.updatable = show.updatable
           /\ index'.date.artist = artist \/ (show.published = 0 /\ show.updatable # 0)
    <3>1. CASE index'.date = index.date
      BY <3>1 DEF DocumentsCurrent
    <3>2. CASE /\ index'.date.version = i.date.doc
               /\ index'.date.published = i.show.published
               /\ index'.date.updatable = i.show.updatable
               /\ index'.date.artist = i.artist
      <4> SUFFICES ASSUME i.date.doc = date.doc
                   PROVE  /\ i.show.published = show.published /\ i.show.updatable = show.updatable
                          /\ i.artist = artist \/ (show.published = 0 /\ show.updatable # 0)
        BY <3>2
      <4>1. /\ i.show = show
            /\ KeyOf(i.msg) # "show" => i.artist = artist
            /\ KeyOf(i.msg) = "show" => i.artist = IF show.published = 0 THEN 0 ELSE artist
        BY <1>1, <1>5 DEF DocumentsCurrent, i
      <4> QED
        BY <1>8, <4>1
    <3> QED
      BY <1>5, <3>1, <3>2
  <2> QED
    BY <1>3, <2>1, <2>2, <2>3 DEF DocumentsCurrent, Open, Composing
<1>14. FactsKnown'
  <2>1. \A m \in Standing' : Known(m)'
    BY <1>3, <1>11 DEF FactsKnown, Standing, TypeOK
  <2>2. ASSUME NEW v \in Consumers, NEW m \in Facts \ overwritten', NEW d \in Nat,
               Composing(job'[v]), job'[v].msg = m, job'[v].date.doc = d
        PROVE  Since(m, d)'
    BY <1>3, <1>10, <1>12, <2>2 DEF FactsKnown
  <2> QED
    BY <2>1, <2>2 DEF FactsKnown, Composing
<1>15. RowsFromFacts'
  BY <1>3 DEF RowsFromFacts, Standing
<1> QED
  BY <1>9, <1>12, <1>13, <1>14, <1>15 DEF i

-----------------------------------------------------------------------------
(* What is not told yet is still ahead.                                    *)

Waiting == FactsTold /\ NotSkipped /\ DateToPut /\ ShowToPut

\* While no row or document is written, no message leaves a reader's hand but to wait again,
\* to be dead, or done with.
LEMMA KeptWaiting ==
    ASSUME TypeOK, TransactionsOK, Waiting, UNCHANGED <<model, index>>, dead \subseteq dead',
           \A m \in Facts, d \in Nat : Since(m, d) => Since(m, d)',
           \A m \in Facts : Free(m) => Free(m)',
           \A m \in Facts : m \in ToSet(topic'[KeyOf(m)]) => m \in ToSet(topic[KeyOf(m)]) \/ Free(m)',
           \A v \in Readers, m \in Facts : job[v] # NULL /\ job[v].msg = m =>
              \/ job'[v] = job[v] \/ Free(m)' \/ m \in dead' \/ job[v].phase = "done"
              \/ ~Composing(job[v]) /\ job'[v] # NULL /\ job'[v].msg = m
    PROVE  Waiting'
<1>1. /\ processed' = processed /\ show' = show /\ artist' = artist /\ date' = date
      /\ index' = index /\ overwritten' = overwritten /\ processed \subseteq Facts
  BY DEF model, TypeOK
<1>2. ASSUME NEW v \in Readers, NEW m \in Facts, Composing(job[v]), job[v].msg = m
      PROVE  job'[v] = job[v] \/ Free(m)' \/ m \in dead'
  BY <1>2 DEF Composing
<1>3. FactsTold'
  <2> SUFFICES ASSUME NEW m \in Standing
               PROVE  \/ Told(m)'
                      \/ \E n \in Standing : /\ Restates(n, m)
                                             /\ \/ n \in dead' \/ Free(n)'
                                                \/ \E v \in Readers : Composing(job'[v]) /\ job'[v].msg = n
    BY <1>1 DEF FactsTold, Standing, ToPut, Composing
  <2>1. CASE Told(m)
    <3>1. PICK d \in Nat : d <= index.date.version /\ Since(m, d)
      BY <2>1 DEF Told
    <3>2. Since(m, d)'
      BY <1>1, <3>1 DEF Standing
    <3> QED
      BY <1>1, <3>1, <3>2 DEF Told
  <2>2. CASE \E n \in Standing : Restates(n, m) /\ (n \in dead \/ ToPut(n))
    <3>1. PICK n \in Standing : Restates(n, m) /\ (n \in dead \/ ToPut(n))
      BY <2>2
    <3> QED
      BY <1>1, <1>2, <3>1 DEF ToPut, Standing
  <2> QED
    BY <2>1, <2>2 DEF Waiting, FactsTold
<1>4. NotSkipped'
  <2> SUFFICES ASSUME NEW m \in Facts, m \in ToSet(topic'[KeyOf(m)])
               PROVE  \/ m \in processed \/ m \in dead' \/ Free(m)'
                      \/ \E v \in Readers : job'[v] # NULL /\ job'[v].msg = m
    BY <1>1 DEF NotSkipped
  <2>1. CASE \E v \in Readers : job[v] # NULL /\ job[v].msg = m
    <3>1. PICK v \in Readers : job[v] # NULL /\ job[v].msg = m
      BY <2>1
    <3>2. job[v].phase = "done" => m \in processed
      BY <3>1, Lanes DEF TransactionsOK, JobOK
    <3> QED
      BY <3>1, <3>2
  <2> QED
    BY <2>1 DEF Waiting, NotSkipped
<1>5. DateToPut'
  BY <1>1, <1>2 DEF Waiting, DateToPut, Composing
<1>6. ShowToPut'
  <2>1. CASE dead # {} \/ show.published = 0 \/ index.show = showDocumentOf(show)
    BY <1>1, <2>1 DEF ShowToPut
  <2>2. CASE \E n \in processed :
                \/ Free(n) /\ KeyOf(n) = "show"
                \/ \E v \in Readers : /\ Composing(job[v]) /\ job[v].msg = n /\ KeyOf(n) = "show"
                                      /\ job[v].phase # "put_date" /\ job[v].show = show
    BY <1>1, <1>2, <2>2 DEF ShowToPut, Composing
  <2> QED
    BY <2>1, <2>2 DEF Waiting, ShowToPut
<1> QED
  BY <1>3, <1>4, <1>5, <1>6 DEF Waiting

\* A reader takes a message: one that was processed is a duplicate, its documents to put.
LEMMA BegunWaiting ==
    ASSUME TypeOK, QueueOK, Waiting, NEW w \in Consumers, job[w] = NULL,
           NEW next \in Delivered(w), Begin(w, next), UNCHANGED path, UNCHANGED <<model, index>>,
           \A m \in Facts, d \in Nat : Since(m, d) => Since(m, d)'
    PROVE  Waiting'
<1> DEFINE j == job'[w]
<1>1. next \in Delivery /\ w \in Readers
  BY DeliveredShape
<1>2. /\ job' = [job EXCEPT ![w] = j] /\ j \in Job /\ j # NULL /\ next.msg \in Facts
      /\ j.msg = next.msg /\ j.phase = "open"
      /\ j.outcome = "duplicate" <=> next.msg \in processed
      /\ j.outcome # "applied" => j.show = show /\ j.artist = artist /\ j.date = date
  BY <1>1, BeginShape, JobFields
<1>3. \A v \in Consumers : v # w => job'[v] = job[v]
  BY <1>2 DEF TypeOK
<1>4. /\ processed' = processed /\ show' = show /\ artist' = artist /\ date' = date
      /\ index' = index /\ overwritten' = overwritten /\ processed \subseteq Facts /\ dead' = dead /\ topic' = topic
  BY DEF model, TypeOK, path
<1>5. \A m \in Facts : Free(m) /\ m # next.msg => Free(m)'
  BY Taken
<1>6. next.msg \in processed => Composing(j) /\ j.date = date /\ j.show = show
  BY <1>2 DEF Composing
<1>7. \A v \in Readers : job[v] # NULL => job'[v] = job[v]
  BY <1>3, Lanes
<1> HIDE DEF j
<1>8. FactsTold'
  <2> SUFFICES ASSUME NEW m \in Standing
               PROVE  \/ Told(m)'
                      \/ \E n \in Standing : /\ Restates(n, m)
                                             /\ \/ n \in dead \/ Free(n)'
                                                \/ \E v \in Readers : Composing(job'[v]) /\ job'[v].msg = n
    BY <1>4 DEF FactsTold, Standing, ToPut, Composing
  <2>1. CASE Told(m)
    <3>1. PICK d \in Nat : d <= index.date.version /\ Since(m, d)
      BY <2>1 DEF Told
    <3>2. Since(m, d)'
      BY <1>4, <3>1 DEF Standing
    <3> QED
      BY <1>4, <3>1, <3>2 DEF Told
  <2>2. CASE \E n \in Standing : Restates(n, m) /\ (n \in dead \/ ToPut(n))
    <3>1. PICK n \in Standing : Restates(n, m) /\ (n \in dead \/ ToPut(n))
      BY <2>2
    <3>2. CASE Free(n)
      BY <1>1, <1>2, <1>4, <1>5, <1>6, <3>1, <3>2 DEF j, Standing
    <3>3. CASE \E v \in Readers : Composing(job[v]) /\ job[v].msg = n
      <4>1. PICK v \in Readers : Composing(job[v]) /\ job[v].msg = n
        BY <3>3
      <4>2. job'[v] = job[v]
        BY <1>7, <4>1 DEF Composing
      <4> QED
        BY <3>1, <4>1, <4>2
    <3> QED
      BY <3>1, <3>2, <3>3 DEF ToPut
  <2> QED
    BY <2>1, <2>2 DEF Waiting, FactsTold
<1>9. NotSkipped'
  <2> SUFFICES ASSUME NEW m \in Facts, m \in ToSet(topic[KeyOf(m)])
               PROVE  \/ m \in processed \/ m \in dead \/ Free(m)'
                      \/ \E v \in Readers : job'[v] # NULL /\ job'[v].msg = m
    BY <1>4 DEF NotSkipped
  <2> QED
    BY <1>1, <1>2, <1>5, <1>7 DEF Waiting, NotSkipped, j
<1>10. DateToPut'
  <2>1. CASE dead # {} \/ index.date.version = date.doc
    BY <1>4, <2>1 DEF DateToPut
  <2>2. ASSUME NEW n \in processed, Free(n)
        PROVE  DateToPut'
    <3>1. CASE n # next.msg
      BY <1>4, <1>5, <2>2, <3>1 DEF DateToPut
    <3>2. CASE n = next.msg
      BY <1>1, <1>2, <1>4, <1>6, <2>2, <3>2 DEF DateToPut, Composing, j
    <3> QED
      BY <3>1, <3>2
  <2>3. ASSUME NEW n \in processed, NEW v \in Readers,
               Composing(job[v]), job[v].msg = n, job[v].date.doc = date.doc
        PROVE  DateToPut'
    <3>1. job'[v] = job[v]
      BY <1>7, <2>3 DEF Composing
    <3> QED
      BY <1>4, <2>3, <3>1 DEF DateToPut, Composing
  <2> QED
    BY <2>1, <2>2, <2>3 DEF Waiting, DateToPut
<1>11. ShowToPut'
  <2>1. CASE dead # {} \/ show.published = 0 \/ index.show = showDocumentOf(show)
    BY <1>4, <2>1 DEF ShowToPut
  <2>2. ASSUME NEW n \in processed, Free(n), KeyOf(n) = "show"
        PROVE  ShowToPut'
    <3>1. CASE n # next.msg
      BY <1>4, <1>5, <2>2, <3>1 DEF ShowToPut
    <3>2. CASE n = next.msg
      BY <1>1, <1>2, <1>4, <1>6, <2>2, <3>2 DEF ShowToPut, Composing, j
    <3> QED
      BY <3>1, <3>2
  <2>3. ASSUME NEW n \in processed, NEW v \in Readers, Composing(job[v]), job[v].msg = n,
               KeyOf(n) = "show", job[v].phase # "put_date", job[v].show = show
        PROVE  ShowToPut'
    <3>1. job'[v] = job[v]
      BY <1>7, <2>3 DEF Composing
    <3> QED
      BY <1>4, <2>3, <3>1 DEF ShowToPut, Composing
  <2> QED
    BY <2>1, <2>2, <2>3 DEF Waiting, ShowToPut
<1> QED
  BY <1>8, <1>9, <1>10, <1>11 DEF Waiting

\* What supersedes a fact was processed, and restates it.
LEMMA SupersededBy ==
    ASSUME TypeOK, RowsFromFacts, NEW m \in Facts, Superseded(m)
    PROVE  \E n \in Standing : Restates(n, m)
<1>1. KindOf[m] \in Kind /\ VersionOf[m] \in Nat /\ VersionOf[m] > 0 /\ processed \subseteq Facts
  BY FactKinds DEF TypeOK
<1>2. CASE KindOf[m] = "show_published"
  <2>1. show.published > VersionOf[m] /\ show.published # 0
    BY <1>1, <1>2, RowFields DEF Superseded, takes
  <2>2. PICK n \in processed : KindOf[n] = "show_published" /\ VersionOf[n] = show.published
    BY <2>1 DEF RowsFromFacts
  <2> QED
    BY <1>1, <1>2, <2>1, <2>2, RowFields DEF Restates, RowsFromFacts, Standing
<1>3. CASE KindOf[m] = "show_updated"
  <2>1. show.updatable > VersionOf[m] /\ show.updatable # 0
    BY <1>1, <1>3, RowFields DEF Superseded, takes
  <2>2. PICK n \in processed : KeyOf(n) = "show" /\ VersionOf[n] = show.updatable
    BY <2>1 DEF RowsFromFacts
  <2>3. KindOf[n] \in {"show_published", "show_updated"}
    BY <1>1, <2>2, FactKinds
  <2> QED
    BY <1>1, <1>3, <2>1, <2>2, <2>3, RowFields DEF Restates, RowsFromFacts, Standing
<1>4. CASE KindOf[m] = "artist_updated"
  <2>1. artist > VersionOf[m] /\ artist # 0
    BY <1>1, <1>4, RowFields DEF Superseded, takes
  <2>2. PICK n \in Standing : KindOf[n] = "artist_updated" /\ VersionOf[n] = artist
    BY <2>1 DEF RowsFromFacts
  <2> QED
    BY <1>1, <1>4, <2>1, <2>2, RowFields DEF Restates, RowsFromFacts, Standing
<1>5. CASE KindOf[m] = "date_scheduled"
  <2>1. date.scheduled > VersionOf[m] /\ date.scheduled > 1
    BY <1>1, <1>5, RowFields DEF Superseded, takes
  <2>2. PICK n \in processed : KindOf[n] = "date_scheduled" /\ VersionOf[n] = date.scheduled
    BY <2>1 DEF RowsFromFacts
  <2> QED
    BY <1>1, <1>5, <2>1, <2>2, RowFields DEF Restates, RowsFromFacts, Standing
<1>6. CASE KindOf[m] = "state_changed"
  <2>1. date.publication > VersionOf[m] /\ date.publication # 0
    BY <1>1, <1>6, RowFields DEF Superseded, takes
  <2>2. PICK n \in processed : KindOf[n] = "state_changed" /\ VersionOf[n] = date.publication
    BY <2>1 DEF RowsFromFacts
  <2> QED
    BY <1>1, <1>6, <2>1, <2>2, RowFields DEF Restates, RowsFromFacts, Standing
<1> QED
  BY <1>1, <1>2, <1>3, <1>4, <1>5, <1>6 DEF Kind

\* A commit: its documents are to be put, by the reader itself or by the one that will read
\* the message again.
LEMMA CommitWaiting ==
    ASSUME TypeOK, QueueOK, TransactionsOK, DatesChained, DocumentsCurrent, RowsFromFacts,
           Waiting, TypeOK', NEW w \in Consumers, Commit(w),
           \A m \in processed \ overwritten', d \in Nat : Since(m, d) => Since(m, d)'
    PROVE  Waiting'
<1>0. (TypeOK => \A m, n \in Facts, d \in Nat : Restates(n, m) /\ Since(n, d) => Since(m, d))'
  BY Restated, PTL
<1> DEFINE i == job[w]
           j == job'[w]
           n == i.msg
           k == KeyOf(n)
<1>1. /\ n \in Facts /\ k \in Key /\ OpenOK(i) /\ processed' = processed \cup {n} /\ index' = index
      /\ i.outcome # "applied" => show' = show /\ artist' = artist /\ date' = date
      /\ i.outcome = "applied" => show' = IF k = "show" THEN showAfter(n, show) ELSE show
      /\ overwritten' = IF ~i.first THEN overwritten
            ELSE overwritten \cup {x \in processed : /\ KindOf[x] = "artist_updated"
                                                    /\ VersionOf[x] > i.artist}
  BY CommitRows
<1>2. /\ i \in Job /\ i.phase = "open" /\ i # NULL /\ Open(w)
      /\ i.outcome \in {"applied", "duplicate", "superseded"}
      /\ job' = [job EXCEPT ![w] = j] /\ j \in Job /\ j # NULL
      /\ j.msg = n /\ j.outcome = i.outcome /\ j.date = i.date
      /\ j.show = IF k = "artist" THEN show ELSE i.show
      /\ j.phase = IF i.outcome = "superseded" THEN "done"
                   ELSE IF k = "show" THEN "put_show" ELSE "put_date"
  BY CommitShape, JobFields DEF Open
<1>3. \A v \in Consumers : v # w => job'[v] = job[v]
  BY <1>2 DEF TypeOK
<1>4. /\ dead' = dead /\ topic' = topic /\ UNCHANGED <<topic, offset, retry>> /\ wal' = wal
      /\ processed \subseteq Facts
  BY DEF Commit, path, TypeOK
<1>5. \A m \in Facts : Free(m)' <=> Free(m)
  <2>1. \A v \in Consumers : /\ job'[v] = NULL <=> job[v] = NULL
                             /\ job[v] # NULL => job'[v].msg = job[v].msg
                             /\ Open(v)' => Open(v)
    BY <1>2, <1>3 DEF Open
  <2>2. \A x \in Key : \A y \in 1 .. Len(wal'[x]) : KeyOf(wal'[x][y]) = x
    BY <1>4 DEF QueueOK, PathOK
  <2> QED
    BY <1>4, <2>1, <2>2, SameHands
<1>6. w \in Readers \/ Free(n)
  <2>1. w[1] \in Lane /\ w[2] \in Key /\ w = <<w[1], w[2]>>
    BY Lanes
  <2>2. CASE w[1] = "zombie"
    <3>1. HandsOK(w[2])
      BY <2>1 DEF QueueOK
    <3>2. w = <<"zombie", w[2]>>
      BY <2>1, <2>2
    <3>3. \A m \in Facts : Open(w) /\ job[w].msg = m => Free(m)
      BY <3>1, <3>2 DEF HandsOK
    <3> QED
      BY <1>1, <1>2, <3>3
  <2>3. CASE w[1] # "zombie"
    BY <2>3, Lanes
  <2> QED
    BY <2>2, <2>3
<1>7. i.outcome # "superseded" => Composing(j)
  BY <1>2 DEF Composing
<1>8. i.outcome = "applied" => j.date = date' /\ date'.doc = date.doc + 1
  BY CommitCurrent
<1>9. i.outcome = "duplicate" <=> n \in processed
  BY <1>1 DEF OpenOK
<1>10. i.outcome = "applied" /\ k = "show" => j.show = show'
  BY <1>1, <1>2 DEF OpenOK
<1>11. i.outcome = "superseded" => Superseded(n)
  BY <1>1 DEF OpenOK
<1>19. /\ i.first => /\ i.outcome = "applied" /\ KindOf[n] = "artist_updated"
                     /\ i.artist = VersionOf[n]
       /\ VersionOf[n] \in Nat
       /\ i.outcome = "applied" => n \in Standing'
  <2>1. /\ i.first => i.outcome = "applied" /\ k = "artist" /\ i.artist = VersionOf[n]
        /\ VersionOf[n] \in Nat /\ (k = "artist" => KindOf[n] = "artist_updated")
    BY <1>1, FactKinds DEF OpenOK
  <2>2. i.outcome = "applied" => n \notin overwritten'
    BY <1>1, <1>9, <2>1 DEF RowsFromFacts
  <2> QED
    BY <1>1, <2>1, <2>2 DEF Standing
<1> HIDE DEF i, j, n, k
<1>12. ASSUME NEW v \in Readers, Composing(job[v])
       PROVE  /\ Composing(job'[v]) /\ job'[v].msg = job[v].msg /\ job'[v].date = job[v].date
              /\ v = w => i.outcome = "duplicate"
  <2>1. CASE v = w
    BY <1>2, <1>7, <1>12, <2>1 DEF Composing, i, j, n
  <2>2. CASE v # w
    BY <1>3, <1>12, <2>2, Lanes
  <2> QED
    BY <2>1, <2>2
<1> DEFINE Put(m) == \E v \in Readers : Composing(job'[v]) /\ job'[v].msg = m
           Ends(m) == \/ Told(m)'
                      \/ \E x \in Standing' : Restates(x, m) /\ (x \in dead \/ Free(x) \/ Put(x))
<1>20. i.outcome = "applied" => Free(n) \/ Put(n)
  BY <1>2, <1>6, <1>7 DEF j
<1>13. ASSUME NEW m \in processed, m \notin overwritten'
       PROVE  Ends(m)
  <2>0. m \in Standing /\ m \in Facts
    BY <1>1, <1>4, <1>13 DEF Standing
  <2>1. CASE Told(m)
    <3>1. PICK d \in Nat : d <= index.date.version /\ Since(m, d)
      BY <2>1 DEF Told
    <3>2. Since(m, d)'
      BY <1>13, <3>1
    <3> QED
      BY <1>1, <3>1, <3>2 DEF Told
  <2>2. CASE \E x \in Standing : Restates(x, m) /\ (x \in dead \/ ToPut(x))
    <3>1. PICK x \in Standing : Restates(x, m) /\ (x \in dead \/ ToPut(x))
      BY <2>2
    <3>2. x \in dead \/ Free(x) \/ Put(x)
      BY <1>12, <3>1 DEF ToPut
    <3>3. CASE x \notin overwritten'
      BY <1>1, <3>1, <3>2, <3>3 DEF Standing
    <3>4. CASE x \in overwritten'
      <4>1. i.first /\ KindOf[x] = "artist_updated"
        BY <1>1, <3>1, <3>4 DEF Standing
      <4>2. KindOf[m] = "artist_updated"
        BY <3>1, <4>1 DEF Restates
      <4>3. ~(VersionOf[m] > VersionOf[n])
        BY <1>1, <1>13, <1>19, <4>1, <4>2
      <4>4. VersionOf[m] \in Nat
        BY <2>0, FactKinds
      <4>5. Restates(n, m)
        BY <1>19, <4>1, <4>2, <4>3, <4>4 DEF Restates
      <4> HIDE DEF Put
      <4> QED
        BY <1>19, <1>20, <4>1, <4>5
    <3> QED
      BY <3>3, <3>4
  <2> QED
    BY <2>0, <2>1, <2>2 DEF Waiting, FactsTold
<1>14. ASSUME NEW f \in Facts, f = n, f \notin overwritten'
       PROVE  Ends(f)
  <2>1. CASE i.outcome = "duplicate"
    BY <1>9, <1>13, <1>14, <2>1
  <2>2. CASE i.outcome = "applied"
    <3>1. Restates(f, f) /\ f \in Standing'
      BY <1>14, <1>19, <2>2, RestatesOrder
    <3>2. Free(f) \/ Put(f)
      BY <1>14, <1>20, <2>2
    <3> QED
      BY <3>1, <3>2
  <2>3. CASE i.outcome = "superseded"
    <3>0. overwritten' = overwritten
      BY <1>1, <1>19, <2>3
    <3>1. PICK x \in Standing : Restates(x, f)
      BY <1>1, <1>11, <1>14, <2>3, SupersededBy
    <3>2. x \in Facts /\ Ends(x)
      BY <1>1, <1>4, <1>13, <3>0 DEF Standing
    <3>3. CASE Told(x)'
      <4>1. PICK d \in Nat : d <= index'.date.version /\ Since(x, d)'
        BY <3>3 DEF Told
      <4>2. \A m, y \in Facts, e \in Nat : Restates(y, m) /\ Since(y, e)' => Since(m, e)'
        BY <1>0
      <4> QED
        BY <3>1, <3>2, <4>1, <4>2 DEF Told
    <3>4. CASE \E y \in Standing' : Restates(y, x) /\ (y \in dead \/ Free(y) \/ Put(y))
      <4>1. PICK y \in Standing' : Restates(y, x) /\ (y \in dead \/ Free(y) \/ Put(y))
        BY <3>4
      <4>2. y \in Facts
        BY <1>1, <1>4 DEF Standing
      <4>3. Restates(y, f)
        BY <3>1, <3>2, <4>1, <4>2, RestatesOrder
      <4> QED
        BY <4>1, <4>3
    <3> QED
      BY <3>2, <3>3, <3>4
  <2> QED
    BY <1>2, <2>1, <2>2, <2>3
<1>15. FactsTold'
  <2> SUFFICES ASSUME NEW m \in Standing'
               PROVE  Ends(m)
    BY <1>1, <1>4, <1>5 DEF FactsTold, Standing, ToPut, Composing
  <2>1. m \notin overwritten' /\ (m \in processed \/ m = n)
    BY <1>1 DEF Standing
  <2> QED
    BY <1>1, <1>13, <1>14, <2>1
<1>16. NotSkipped'
  <2> SUFFICES ASSUME NEW m \in Facts, m \in ToSet(topic[KeyOf(m)])
               PROVE  \/ m \in processed' \/ m \in dead \/ Free(m)
                      \/ \E v \in Readers : job'[v] # NULL /\ job'[v].msg = m
    BY <1>4, <1>5 DEF NotSkipped
  <2>1. \A v \in Readers : job[v] # NULL => job'[v] # NULL /\ job'[v].msg = job[v].msg
    BY <1>2, <1>3, Lanes DEF i, j, n
  <2> QED
    BY <1>1, <2>1 DEF Waiting, NotSkipped
<1>17. DateToPut'
  <2>1. ASSUME NEW x \in processed', Free(x) \/ (\E v \in Readers : /\ Composing(job'[v])
                                                 /\ job'[v].msg = x /\ job'[v].date.doc = date'.doc)
        PROVE  DateToPut'
    BY <1>1, <1>4, <1>5, <2>1 DEF DateToPut, Composing
  <2>2. CASE i.outcome = "applied"
    BY <1>1, <1>2, <1>6, <1>7, <1>8, <2>1, <2>2 DEF j
  <2>3. CASE i.outcome # "applied"
    <3>1. date' = date
      BY <1>1, <2>3
    <3>2. CASE dead # {} \/ index.date.version = date.doc
      BY <1>1, <1>4, <3>1, <3>2 DEF DateToPut
    <3>3. CASE \E x \in processed :
                  \/ Free(x)
                  \/ \E v \in Readers : Composing(job[v]) /\ job[v].msg = x /\ job[v].date.doc = date.doc
      BY <1>1, <1>12, <2>1, <3>1, <3>3
    <3> QED
      BY <3>2, <3>3 DEF Waiting, DateToPut
  <2> QED
    BY <2>2, <2>3
<1>18. ShowToPut'
  <2>1. ASSUME NEW x \in processed', KeyOf(x) = "show",
               Free(x) \/ (\E v \in Readers : /\ Composing(job'[v]) /\ job'[v].msg = x
                                              /\ job'[v].phase # "put_date" /\ job'[v].show = show')
        PROVE  ShowToPut'
    BY <1>1, <1>4, <1>5, <2>1 DEF ShowToPut, Composing
  <2>2. CASE i.outcome = "applied" /\ k = "show"
    BY <1>1, <1>2, <1>6, <1>7, <1>10, <2>1, <2>2 DEF j, k
  <2>3. CASE ~(i.outcome = "applied" /\ k = "show")
    <3>1. show' = show
      BY <1>1, <2>3
    <3>2. CASE dead # {} \/ show.published = 0 \/ index.show = showDocumentOf(show)
      BY <1>1, <1>4, <3>1, <3>2 DEF ShowToPut
    <3>3. ASSUME NEW x \in processed, Free(x), KeyOf(x) = "show"
          PROVE  ShowToPut'
      BY <1>1, <2>1, <3>3
    <3>4. ASSUME NEW x \in processed, NEW v \in Readers, Composing(job[v]), job[v].msg = x,
                 KeyOf(x) = "show", job[v].phase # "put_date", job[v].show = show
          PROVE  ShowToPut'
      <4>1. Composing(job'[v]) /\ job'[v].msg = x
        BY <1>12, <3>4
      <4>2. job'[v].phase # "put_date" /\ job'[v].show = show
        <5>1. CASE v # w
          BY <1>3, <3>4, <5>1, Lanes
        <5>2. CASE v = w
          <6>1. k = "show" /\ i.outcome = "duplicate"
            BY <1>12, <3>4, <5>2 DEF k, n, i
          <6> QED
            BY <1>2, <3>4, <5>2, <6>1 DEF j, i
        <5> QED
          BY <5>1, <5>2
      <4> QED
        BY <1>1, <2>1, <3>1, <3>4, <4>1, <4>2
    <3> QED
      BY <3>2, <3>3, <3>4 DEF Waiting, ShowToPut
  <2> QED
    BY <2>2, <2>3
<1> QED
  BY <1>15, <1>16, <1>17, <1>18 DEF Waiting

\* A put of the show: a job that holds the row leaves the row's document, and one that holds
\* an older row does not replace it.
LEMMA PutShowWaiting ==
    ASSUME TypeOK, QueueOK, TransactionsOK, ShowsChained, Waiting, NEW w \in Consumers, PutShow(w),
           \A m \in Facts, d \in Nat : Since(m, d) => Since(m, d)'
    PROVE  Waiting'
<1> DEFINE i == job[w]
           j == job'[w]
<1>1. /\ i \in Job /\ i.phase = "put_show" /\ i # NULL
      /\ job' = [job EXCEPT ![w] = j] /\ j \in Job /\ j # NULL
      /\ j.msg = i.msg /\ j.outcome = i.outcome /\ j.date = i.date /\ j.phase = "put_date"
  BY PutShowShape, JobFields
<1>2. \A v \in Consumers : v # w => job'[v] = job[v]
  BY <1>1 DEF TypeOK
<1>3. /\ processed' = processed /\ show' = show /\ artist' = artist /\ date' = date
      /\ overwritten' = overwritten /\ dead' = dead /\ UNCHANGED <<topic, offset, retry>> /\ wal' = wal /\ processed \subseteq Facts
  BY DEF PutShow, model, path, TypeOK
<1>4. /\ index'.date = index.date /\ KeyOf(i.msg) = "show" /\ ShowOK(i.show)
      /\ Composing(i) /\ i.show \in ShowRow /\ i.show.updatable <= show.updatable
      /\ \/ /\ index'.show = index.show
            /\ i.show.published # 0 => i.show.updatable < index.show.updatable
         \/ /\ i.show.published # 0 /\ index'.show = showDocumentOf(i.show)
            /\ i.show.updatable >= index.show.updatable
  BY PutShowIndex
<1>5. \A m \in Facts : Free(m)' <=> Free(m)
  <2>1. \A v \in Consumers : /\ job'[v] = NULL <=> job[v] = NULL
                             /\ job[v] # NULL => job'[v].msg = job[v].msg
                             /\ Open(v)' => Open(v)
    BY <1>1, <1>2 DEF Open
  <2>2. \A x \in Key : \A y \in 1 .. Len(wal'[x]) : KeyOf(wal'[x][y]) = x
    BY <1>3 DEF QueueOK, PathOK
  <2> QED
    BY <1>3, <2>1, <2>2, SameHands
<1> HIDE DEF i, j
<1>6. ASSUME NEW v \in Readers
      PROVE  /\ Composing(job[v]) =>
                  Composing(job'[v]) /\ job'[v].msg = job[v].msg /\ job'[v].date = job[v].date
             /\ job[v] # NULL => job'[v] # NULL /\ job'[v].msg = job[v].msg
  <2>1. CASE v = w
    BY <1>1, <1>4, <2>1 DEF Composing, i, j
  <2>2. CASE v # w
    BY <1>2, <2>2, Lanes
  <2> QED
    BY <2>1, <2>2
<1>7. FactsTold'
  <2> SUFFICES ASSUME NEW m \in Standing
               PROVE  \/ Told(m)'
                      \/ \E n \in Standing : /\ Restates(n, m)
                                             /\ \/ n \in dead \/ Free(n)
                                                \/ \E v \in Readers : Composing(job'[v]) /\ job'[v].msg = n
    BY <1>3, <1>5 DEF FactsTold, Standing, ToPut, Composing
  <2>1. CASE Told(m)
    <3>1. PICK d \in Nat : d <= index.date.version /\ Since(m, d)
      BY <2>1 DEF Told
    <3>2. Since(m, d)'
      BY <1>3, <3>1 DEF Standing
    <3> QED
      BY <1>4, <3>1, <3>2 DEF Told
  <2>2. CASE \E n \in Standing : Restates(n, m) /\ (n \in dead \/ ToPut(n))
    BY <1>6, <2>2 DEF ToPut
  <2> QED
    BY <2>1, <2>2 DEF Waiting, FactsTold
<1>8. NotSkipped'
  <2> SUFFICES ASSUME NEW m \in Facts, m \in ToSet(topic[KeyOf(m)])
               PROVE  \/ m \in processed \/ m \in dead \/ Free(m)
                      \/ \E v \in Readers : job'[v] # NULL /\ job'[v].msg = m
    BY <1>3, <1>5 DEF NotSkipped
  <2> QED
    BY <1>6 DEF Waiting, NotSkipped
<1>9. DateToPut'
  <2>1. CASE dead # {} \/ index.date.version = date.doc
    BY <1>3, <1>4, <2>1 DEF DateToPut
  <2>2. ASSUME NEW n \in processed, Free(n)
        PROVE  DateToPut'
    BY <1>3, <1>5, <2>2 DEF DateToPut
  <2>3. ASSUME NEW n \in processed, NEW v \in Readers,
               Composing(job[v]), job[v].msg = n, job[v].date.doc = date.doc
        PROVE  DateToPut'
    BY <1>3, <1>6, <2>3 DEF DateToPut, Composing
  <2> QED
    BY <2>1, <2>2, <2>3 DEF Waiting, DateToPut
<1>10. ShowToPut'
  <2>1. CASE dead # {} \/ show.published = 0
    BY <1>3, <2>1 DEF ShowToPut
  <2>2. /\ show \in ShowRow /\ show.published \in Nat /\ show.updatable \in Nat
        /\ i.show.published \in Nat /\ i.show.updatable \in Nat
        /\ index.show.updatable \in Nat /\ index.show.updatable <= show.updatable /\ ShowOK(show)
    BY <1>1, RowFields, JobFields DEF TypeOK, ShowsChained
  <2>3. CASE show.published # 0 /\ index.show = showDocumentOf(show)
    <3>1. CASE index'.show = index.show
      BY <1>3, <2>3, <3>1 DEF ShowToPut
    <3>2. CASE /\ i.show.published # 0 /\ index'.show = showDocumentOf(i.show)
               /\ i.show.updatable >= index.show.updatable
      <4>1. index.show.updatable = show.updatable
        BY <2>3 DEF showDocumentOf
      <4>2. i.show.updatable = show.updatable
        BY <1>4, <2>2, <3>2, <4>1
      <4>3. i.show.published = show.published
        BY <1>4, <2>2, <2>3, <3>2, OutboxAssumption DEF ShowOK, OutboxAssumption
      <4>4. i.show = show
        BY <1>4, <2>2, <4>2, <4>3, SameShow
      <4> QED
        BY <1>3, <3>2, <4>4 DEF ShowToPut
    <3> QED
      BY <1>4, <3>1, <3>2
  <2>4. ASSUME NEW n \in processed, Free(n), KeyOf(n) = "show"
        PROVE  ShowToPut'
    BY <1>3, <1>5, <2>4 DEF ShowToPut
  <2>5. ASSUME NEW n \in processed, NEW v \in Readers, Composing(job[v]), job[v].msg = n,
               KeyOf(n) = "show", job[v].phase # "put_date", job[v].show = show, show.published # 0
        PROVE  ShowToPut'
    <3>1. CASE v # w
      <4>1. job'[v] = job[v]
        BY <1>2, <3>1, Lanes
      <4> QED
        BY <1>3, <2>5, <4>1 DEF ShowToPut, Composing
    <3>2. CASE v = w
      <4>1. i.show = show
        BY <2>5, <3>2 DEF i
      <4>2. index'.show = showDocumentOf(show)
        BY <1>4, <2>2, <2>5, <4>1
      <4> QED
        BY <1>3, <4>2 DEF ShowToPut
    <3> QED
      BY <3>1, <3>2
  <2> QED
    BY <2>1, <2>3, <2>4, <2>5 DEF Waiting, ShowToPut
<1> QED
  BY <1>7, <1>8, <1>9, <1>10 DEF Waiting

\* A put of the date: the index tells the job's fact from then on.
LEMMA PutDateWaiting ==
    ASSUME TypeOK, QueueOK, TransactionsOK, DatesChained, DocumentsCurrent, FactsKnown,
           RowsFromFacts, Waiting, TypeOK', NEW w \in Consumers, PutDate(w),
           \A m \in Facts, d \in Nat : Since(m, d) => Since(m, d)'
    PROVE  Waiting'
<1>0. (TypeOK => \A m, n \in Facts, d \in Nat : Restates(n, m) /\ Since(n, d) => Since(m, d))'
  BY Restated, PTL
<1> DEFINE i == job[w]
           j == job'[w]
<1>1. /\ i \in Job /\ i.phase = "put_date" /\ i # NULL
      /\ job' = [job EXCEPT ![w] = j] /\ j \in Job /\ j # NULL /\ j.msg = i.msg /\ j.phase = "done"
  BY PutDateShape, JobFields
<1>2. \A v \in Consumers : v # w => job'[v] = job[v]
  BY <1>1 DEF TypeOK
<1>3. /\ processed' = processed /\ show' = show /\ artist' = artist /\ date' = date
      /\ overwritten' = overwritten /\ dead' = dead /\ UNCHANGED <<topic, offset, retry>> /\ wal' = wal /\ processed \subseteq Facts
  BY DEF PutDate, model, path, TypeOK
<1>4. index'.show = index.show /\ Composing(i) /\ i.date.doc \in Nat /\ i.date.scheduled # 0
  BY <1>1, PutDateIndex, JobFields DEF DocumentsCurrent
<1>5. \A m \in Facts : Free(m)' <=> Free(m)
  <2>1. \A v \in Consumers : /\ job'[v] = NULL <=> job[v] = NULL
                             /\ job[v] # NULL => job'[v].msg = job[v].msg
                             /\ Open(v)' => Open(v)
    BY <1>1, <1>2 DEF Open
  <2>2. \A x \in Key : \A y \in 1 .. Len(wal'[x]) : KeyOf(wal'[x][y]) = x
    BY <1>3 DEF QueueOK, PathOK
  <2> QED
    BY <1>3, <2>1, <2>2, SameHands
<1>6. /\ index'.date.version >= index.date.version /\ index'.date.version >= i.date.doc
      /\ index'.date.version \in {index.date.version, i.date.doc}
  BY PutDateTold
<1>7. index.date.version \in Nat /\ date.doc \in Nat
  BY RowFields
<1>8. i.date.doc <= date.doc /\ index.date.version <= date.doc
  BY <1>4 DEF DatesChained
<1> HIDE DEF i, j
<1>9. ASSUME NEW m \in Facts, NEW d \in Nat, d <= index.date.version \/ d <= i.date.doc, Since(m, d)'
      PROVE  Told(m)'
  <2>1. d <= index'.date.version
    BY <1>4, <1>6, <1>7, <1>9
  <2> QED
    BY <1>9, <2>1 DEF Told
<1>10. ASSUME NEW n \in Facts \ overwritten, Composing(i), i.msg = n, NEW m \in Facts, Restates(n, m)
       PROVE  Told(m)'
  <2>1. PICK d \in Nat : d = i.date.doc
    BY <1>4
  <2>2. Since(n, d)
    BY <1>10, <2>1 DEF FactsKnown, i
  <2>3. Since(n, d)'
    BY <1>10, <2>2
  <2>4. Since(m, d)'
    BY <1>0, <1>10, <2>3
  <2> QED
    BY <1>4, <1>9, <2>1, <2>4
<1>11. FactsTold'
  <2> SUFFICES ASSUME NEW m \in Standing
               PROVE  \/ Told(m)'
                      \/ \E n \in Standing : /\ Restates(n, m)
                                             /\ \/ n \in dead \/ Free(n)
                                                \/ \E v \in Readers : Composing(job'[v]) /\ job'[v].msg = n
    BY <1>3, <1>5 DEF FactsTold, Standing, ToPut, Composing
  <2>1. CASE Told(m)
    <3>1. PICK d \in Nat : d <= index.date.version /\ Since(m, d)
      BY <2>1 DEF Told
    <3>2. Since(m, d)' /\ m \in Facts
      BY <1>3, <3>1 DEF Standing
    <3> QED
      BY <1>9, <3>1, <3>2
  <2>2. ASSUME NEW n \in Standing, Restates(n, m), NEW v \in Readers, Composing(job[v]), job[v].msg = n
        PROVE  Told(m)' \/ (Composing(job'[v]) /\ job'[v].msg = n)
    <3>1. CASE v = w
      BY <1>3, <1>10, <2>2, <3>1 DEF i, Standing
    <3>2. CASE v # w
      BY <1>2, <2>2, <3>2, Lanes
    <3> QED
      BY <3>1, <3>2
  <2>3. CASE \E n \in Standing : Restates(n, m) /\ (n \in dead \/ ToPut(n))
    BY <2>2, <2>3 DEF ToPut
  <2> QED
    BY <2>1, <2>3 DEF Waiting, FactsTold
<1>12. NotSkipped'
  <2> SUFFICES ASSUME NEW m \in Facts, m \in ToSet(topic[KeyOf(m)])
               PROVE  \/ m \in processed \/ m \in dead \/ Free(m)
                      \/ \E v \in Readers : job'[v] # NULL /\ job'[v].msg = m
    BY <1>3, <1>5 DEF NotSkipped
  <2>1. \A v \in Readers : job[v] # NULL => job'[v] # NULL /\ job'[v].msg = job[v].msg
    BY <1>1, <1>2, Lanes DEF i, j
  <2> QED
    BY <2>1 DEF Waiting, NotSkipped
<1>13. DateToPut'
  <2>1. CASE dead # {}
    BY <1>3, <2>1 DEF DateToPut
  <2>2. CASE index.date.version = date.doc
    <3>1. index'.date.version = date'.doc
      BY <1>3, <1>4, <1>6, <1>7, <1>8, <2>2
    <3> QED
      BY <3>1 DEF DateToPut
  <2>3. ASSUME NEW n \in processed, Free(n)
        PROVE  DateToPut'
    BY <1>3, <1>5, <2>3 DEF DateToPut
  <2>4. ASSUME NEW n \in processed, NEW v \in Readers,
               Composing(job[v]), job[v].msg = n, job[v].date.doc = date.doc
        PROVE  DateToPut'
    <3>1. CASE v = w
      <4>1. index'.date.version = date'.doc
        BY <1>3, <1>4, <1>6, <1>7, <1>8, <2>4, <3>1 DEF i
      <4> QED
        BY <4>1 DEF DateToPut
    <3>2. CASE v # w
      <4>1. job'[v] = job[v]
        BY <1>2, <3>2, Lanes
      <4> QED
        BY <1>3, <2>4, <4>1 DEF DateToPut, Composing
    <3> QED
      BY <3>1, <3>2
  <2> QED
    BY <2>1, <2>2, <2>3, <2>4 DEF Waiting, DateToPut
<1>14. ShowToPut'
  <2>1. CASE dead # {} \/ show.published = 0 \/ index.show = showDocumentOf(show)
    BY <1>3, <1>4, <2>1 DEF ShowToPut
  <2>2. ASSUME NEW n \in processed, Free(n), KeyOf(n) = "show"
        PROVE  ShowToPut'
    BY <1>3, <1>5, <2>2 DEF ShowToPut
  <2>3. ASSUME NEW n \in processed, NEW v \in Readers, Composing(job[v]), job[v].msg = n,
               KeyOf(n) = "show", job[v].phase # "put_date", job[v].show = show
        PROVE  ShowToPut'
    <3>1. v # w
      BY <1>1, <2>3 DEF i
    <3>2. job'[v] = job[v]
      BY <1>2, <3>1, Lanes
    <3> QED
      BY <1>3, <2>3, <3>2 DEF ShowToPut, Composing
  <2> QED
    BY <2>1, <2>2, <2>3 DEF Waiting, ShowToPut
<1> QED
  BY <1>11, <1>12, <1>13, <1>14 DEF Waiting

\* An artist saved: its transaction is not committed, and tells nothing yet.
LEMMA SaveTold ==
    ASSUME TypeOK, QueueOK, TransactionsOK, DocumentsCurrent, FactsKnown, RowsFromFacts, Waiting,
           NEW w \in Consumers, SaveArtist(w)
    PROVE  DocumentsCurrent' /\ FactsKnown' /\ RowsFromFacts' /\ Waiting'
<1> DEFINE i == job[w]
           j == job'[w]
<1>1. /\ i \in Job /\ i.phase = "open" /\ i.locks = {} /\ i # NULL /\ j # NULL
      /\ job' = [job EXCEPT ![w] = j] /\ j.msg = i.msg /\ j.outcome = i.outcome
      /\ j.phase = "open" /\ j.date = recomposed(date)
      /\ j.locks = {"artist"} \cup (IF date.scheduled # 0 THEN {"date"} ELSE {})
  BY SaveShape, JobFields
<1>2. /\ processed' = processed /\ show' = show /\ artist' = artist /\ date' = date
      /\ index' = index /\ overwritten' = overwritten /\ dead' = dead
      /\ UNCHANGED <<model, index>> /\ UNCHANGED <<topic, offset, retry>> /\ wal' = wal
  BY DEF SaveArtist, model, path
<1>3. \A v \in Consumers : v # w => job'[v] = job[v]
  BY <1>1 DEF TypeOK
<1>4. KeyOf(i.msg) = "artist" /\ i.outcome = "applied"
  BY <1>1 DEF TransactionsOK, JobOK, OpenOK
<1>5. ~Composing(i) /\ ~Composing(j)
  BY <1>1, <1>4 DEF Composing
<1>6. j.date.scheduled # 0 /\ "date" \in j.locks
  BY <1>1, Recomposed DEF DocumentsCurrent, TypeOK
<1> HIDE DEF i, j
<1>7. \A v \in Consumers : Composing(job'[v]) => Composing(job[v]) /\ job'[v] = job[v]
  BY <1>3, <1>5 DEF j
<1>8. ASSUME NEW m \in Facts
      PROVE  (Known(m)' <=> Known(m)) /\ (IndexTells(m)' <=> IndexTells(m))
  BY <1>2 DEF Known, IndexTells, Shows
<1>9. ASSUME NEW m \in Facts, NEW d \in Nat, Since(m, d)
      PROVE  Since(m, d)'
  <2>1. \A v \in Consumers : Composing(job'[v]) /\ job'[v].date.doc >= d => JobTells(job'[v], m)
    BY <1>7, <1>9 DEF Since
  <2>2. Known(m)' /\ (index'.date.version >= d => IndexTells(m)')
    BY <1>2, <1>8, <1>9 DEF Since
  <2> QED
    BY <2>1, <2>2 DEF Since, JobTells, Composing
<1>10. DocumentsCurrent'
  <2>1. ASSUME NEW v \in Consumers, job'[v] # NULL
        PROVE  /\ job'[v].date.scheduled # 0
               /\ KeyOf(job'[v].msg) = "show" => job'[v].show.updatable # 0
               /\ job'[v].phase = "open" /\ job'[v].outcome = "applied" =>
                     /\ job'[v].locks # {} => "date" \in job'[v].locks
                     /\ KeyOf(job'[v].msg) = "date" => job'[v].show = show /\ job'[v].artist = artist
    <3>1. CASE v = w
      BY <1>1, <1>4, <1>6, <3>1 DEF j
    <3>2. CASE v # w
      BY <1>3, <2>1, <3>2 DEF DocumentsCurrent, Open
    <3> QED
      BY <3>1, <3>2
  <2>2. ASSUME NEW v \in Consumers, Composing(job'[v]), job'[v].date.doc = date.doc
        PROVE  /\ KeyOf(job'[v].msg) # "artist" \/ job'[v].phase # "open" => job'[v].show = show
               /\ KeyOf(job'[v].msg) # "show" => job'[v].artist = artist
               /\ KeyOf(job'[v].msg) = "show" /\ job'[v].phase = "put_date" =>
                     job'[v].artist = IF show.published = 0 THEN 0 ELSE artist
    BY <1>7, <2>2 DEF DocumentsCurrent
  <2> QED
    BY <1>2, <2>1, <2>2 DEF DocumentsCurrent, Open, Composing
<1>11. FactsKnown'
  <2>1. \A m \in Standing' : Known(m)'
    BY <1>2, <1>8 DEF FactsKnown, Standing, TypeOK
  <2>2. ASSUME NEW v \in Consumers, NEW m \in Facts \ overwritten', NEW d \in Nat,
               Composing(job'[v]), job'[v].msg = m, job'[v].date.doc = d
        PROVE  Since(m, d)'
    BY <1>2, <1>7, <1>9, <2>2 DEF FactsKnown
  <2> QED
    BY <2>1, <2>2 DEF FactsKnown, Composing
<1>12. RowsFromFacts'
  BY <1>2 DEF RowsFromFacts, Standing
<1>13. \A m \in Facts : Free(m)' <=> Free(m)
  <2>1. \A v \in Consumers : /\ job'[v] = NULL <=> job[v] = NULL
                             /\ job[v] # NULL => job'[v].msg = job[v].msg
                             /\ Open(v)' => Open(v)
    BY <1>1, <1>3 DEF Open, i, j
  <2>2. \A x \in Key : \A y \in 1 .. Len(wal'[x]) : KeyOf(wal'[x][y]) = x
    BY <1>2 DEF QueueOK, PathOK
  <2> QED
    BY <1>2, <2>1, <2>2, SameHands
<1>14. ASSUME NEW v \in Readers, NEW m \in Facts, job[v] # NULL, job[v].msg = m
       PROVE  job'[v] = job[v] \/ (~Composing(job[v]) /\ job'[v] # NULL /\ job'[v].msg = m)
  <2>1. CASE v = w
    BY <1>1, <1>5, <1>14, <2>1 DEF i, j
  <2>2. CASE v # w
    BY <1>3, <2>2, Lanes
  <2> QED
    BY <2>1, <2>2
<1>15. Waiting'
  BY <1>2, <1>9, <1>13, <1>14, KeptWaiting
<1> QED
  BY <1>10, <1>11, <1>12, <1>15

-----------------------------------------------------------------------------
(***************************************************************************)
(* The invariant of a date public from the beginning.                      *)
(***************************************************************************)

\* The first state: the document is the row's, and nothing is published.
LEMMA PublicInit ==
    ASSUME PublicAtFirst, Init
    PROVE  PublicInv
<1>1. IndexInv /\ TypeOK
  BY IndexInit DEF IndexInv
<1>2. /\ \A w \in Consumers : job[w] = NULL
      /\ processed = {} /\ overwritten = {} /\ dead = {} /\ \A k \in Key : topic[k] = <<>>
      /\ show = [published |-> 0, updatable |-> 0] /\ artist = 0
      /\ date = [scheduled |-> 1, publication |-> 0, doc |-> 1]
      /\ index = [show |-> showDocumentOf(show), date |-> dateDocumentOf(date, show, artist)]
  BY DEF Init
<1>3. /\ show.published = 0 /\ show.updatable = 0
      /\ date.scheduled = 1 /\ date.publication = 0 /\ date.doc = 1
      /\ index.date.version = 1 /\ index.date.published = 0 /\ index.date.updatable = 0
      /\ index.date.artist = 0
  BY <1>2 DEF dateDocumentOf
<1>4. DocumentsCurrent
  BY <1>2, <1>3 DEF DocumentsCurrent, Composing
<1>5. FactsKnown
  BY <1>2 DEF FactsKnown, Standing, Composing
<1>6. RowsFromFacts
  BY <1>2, <1>3 DEF RowsFromFacts
<1>7. FactsTold /\ DateToPut /\ ShowToPut
  BY <1>2, <1>3 DEF FactsTold, Standing, DateToPut, ShowToPut
<1>8. NotSkipped
  <2>1. \A m \in Facts : topic[KeyOf(m)] = <<>>
    BY <1>2, FactKinds
  <2>2. ToSet(<<>>) = {}
    BY DEF ToSet
  <2> QED
    BY <2>1, <2>2 DEF NotSkipped
<1> QED
  BY <1>1, <1>4, <1>5, <1>6, <1>7, <1>8 DEF PublicInv

\* The invariant is inductive.
LEMMA PublicStep ==
    ASSUME PublicInv, [Next]_vars
    PROVE  PublicInv'
<1>1. /\ TypeOK /\ QueueOK /\ TransactionsOK /\ DatesChained /\ ShowsChained
      /\ DocumentsCurrent /\ FactsKnown /\ RowsFromFacts /\ Waiting /\ IndexInv
  BY DEF PublicInv, IndexInv, Waiting
<1>2. IndexInv' /\ TypeOK'
  BY <1>1, IndexStep DEF IndexInv
<1> SUFFICES DocumentsCurrent' /\ FactsKnown' /\ RowsFromFacts' /\ Waiting'
  BY <1>2 DEF PublicInv, Waiting
<1>3. PICK c \in Consumers : TRUE
  BY Lanes DEF Lane, Key
<1>4. ASSUME UNCHANGED <<model, index>>, job' = job, dead' = dead,
             \A m \in Facts : Free(m) => Free(m)',
             \A m \in Facts : m \in ToSet(topic'[KeyOf(m)]) => m \in ToSet(topic[KeyOf(m)]) \/ Free(m)'
      PROVE  DocumentsCurrent' /\ FactsKnown' /\ RowsFromFacts' /\ Waiting'
  <2>1. Kept
    BY <1>1, <1>3, <1>4, KeptSteps
  <2>2. /\ \A m \in Facts, d \in Nat : Since(m, d) => Since(m, d)'
        /\ DocumentsCurrent' /\ FactsKnown' /\ RowsFromFacts'
    BY <1>1, <2>1, KeptTold
  <2>3. Waiting'
    BY <1>1, <1>4, <2>2, KeptWaiting
  <2> QED
    BY <2>2, <2>3
<1>5. ASSUME job' = job, UNCHANGED <<topic, offset, retry>>
      PROVE  \A m \in Facts : Free(m) => Free(m)'
  BY <1>5 DEF Free, FreeTopic, FreeRetry
<1>6. CASE UNCHANGED vars
  BY <1>4, <1>5, <1>6 DEF vars, path
<1>7. CASE LoseSlot
  BY <1>4, <1>5, <1>7 DEF LoseSlot
<1>8. ASSUME NEW k \in Key, Relay(k)
      PROVE  DocumentsCurrent' /\ FactsKnown' /\ RowsFromFacts' /\ Waiting'
  <2>1. \A m \in Facts : Free(m) \/ m = Head(wal[k]) => Free(m)'
    BY <1>1, <1>8, Relayed
  <2>2. /\ topic' = [topic EXCEPT ![k] = Append(@, Head(wal[k]))] /\ wal[k] # <<>>
        /\ UNCHANGED <<model, index>> /\ job' = job /\ dead' = dead
    BY <1>8 DEF Relay
  <2>3. ASSUME NEW m \in Facts, m \in ToSet(topic'[KeyOf(m)])
        PROVE  m \in ToSet(topic[KeyOf(m)]) \/ Free(m)'
    <3>1. topic \in [Key -> Seq(Facts)] /\ KeyOf(m) \in Key
      BY <1>1, FactKinds DEF TypeOK
    <3>2. CASE KeyOf(m) # k
      BY <2>2, <2>3, <3>1, <3>2
    <3>3. CASE KeyOf(m) = k
      <4>1. topic'[k] = Append(topic[k], Head(wal[k])) /\ topic[k] \in Seq(Facts)
        BY <2>2, <3>1, <3>3
      <4>2. PICK e \in Facts : e = Head(wal[k])
        BY <1>1, <2>2, PathFields, Rest
      <4>3. /\ Append(topic[k], e) \in Seq(Facts) /\ Len(Append(topic[k], e)) = Len(topic[k]) + 1
            /\ \A i \in 1 .. Len(topic[k]) : Append(topic[k], e)[i] = topic[k][i]
            /\ Append(topic[k], e)[Len(topic[k]) + 1] = e
        BY <4>1, Appended
      <4>4. PICK i \in 1 .. Len(Append(topic[k], e)) : m = Append(topic[k], e)[i]
        <5>1. m \in ToSet(Append(topic[k], e))
          BY <2>3, <3>3, <4>1, <4>2
        <5>2. \A t \in Seq(Facts) : m \in ToSet(t) => \E x \in 1 .. Len(t) : m = t[x]
          <6> TAKE t \in Seq(Facts)
          <6>1. ToSet(t) = {t[x] : x \in 1 .. Len(t)}
            BY Elements
          <6> QED
            BY <6>1
        <5> QED
          BY <4>3, <5>1, <5>2
      <4>5. CASE i = Len(topic[k]) + 1
        BY <2>1, <4>2, <4>3, <4>4, <4>5
      <4>6. CASE i # Len(topic[k]) + 1
        <5>1. i \in 1 .. Len(topic[k]) /\ m = topic[k][i]
          BY <4>1, <4>3, <4>4, <4>6
        <5> QED
          BY <3>3, <4>1, <5>1, Elements
      <4> QED
        BY <4>5, <4>6
    <3> QED
      BY <3>2, <3>3
  <2> QED
    BY <1>4, <2>1, <2>2, <2>3
<1>9. ASSUME NEW m \in Facts, republishOutboxRow(m)
      PROVE  DocumentsCurrent' /\ FactsKnown' /\ RowsFromFacts' /\ Waiting'
  BY <1>4, <1>5, <1>9 DEF republishOutboxRow
<1>10. ASSUME NEW w \in Consumers, eachMessage(w)
       PROVE  DocumentsCurrent' /\ FactsKnown' /\ RowsFromFacts' /\ Waiting'
  <2>1. PICK next \in Delivered(w) : Begin(w, next)
    BY <1>10 DEF eachMessage
  <2>2. job[w] = NULL /\ UNCHANGED path /\ UNCHANGED <<model, index>> /\ next \in Delivery
    BY <1>1, <1>10, DeliveredShape DEF eachMessage
  <2>3. /\ \A m \in Facts, d \in Nat : Since(m, d) => Since(m, d)'
        /\ DocumentsCurrent' /\ FactsKnown' /\ RowsFromFacts'
    BY <1>1, <2>1, <2>2, BegunTold
  <2>4. Waiting'
    BY <1>1, <2>1, <2>2, <2>3, BegunWaiting
  <2> QED
    BY <2>3, <2>4
<1>11. ASSUME NEW w \in Consumers, Commit(w)
       PROVE  DocumentsCurrent' /\ FactsKnown' /\ RowsFromFacts' /\ Waiting'
  <2>1. /\ \A m \in processed \ overwritten', d \in Nat : Since(m, d) => Since(m, d)'
        /\ FactsKnown'
    BY <1>1, <1>2, <1>11, CommitTold
  <2>2. DocumentsCurrent' /\ RowsFromFacts'
    BY <1>1, <1>11, CommitCurrent, CommitSources
  <2>3. Waiting'
    BY <1>1, <1>2, <1>11, <2>1, CommitWaiting
  <2> QED
    BY <2>1, <2>2, <2>3
<1>12. ASSUME NEW w \in Consumers, PutShow(w)
       PROVE  DocumentsCurrent' /\ FactsKnown' /\ RowsFromFacts' /\ Waiting'
  <2>1. /\ \A m \in Facts, d \in Nat : Since(m, d) => Since(m, d)'
        /\ DocumentsCurrent' /\ FactsKnown' /\ RowsFromFacts'
    BY <1>1, <1>12, PutShowTold
  <2>2. Waiting'
    BY <1>1, <1>12, <2>1, PutShowWaiting
  <2> QED
    BY <2>1, <2>2
<1>13. ASSUME NEW w \in Consumers, PutDate(w)
       PROVE  DocumentsCurrent' /\ FactsKnown' /\ RowsFromFacts' /\ Waiting'
  <2>1. /\ \A m \in Facts, d \in Nat : Since(m, d) => Since(m, d)'
        /\ DocumentsCurrent' /\ FactsKnown' /\ RowsFromFacts'
    BY <1>1, <1>13, PutDateTold
  <2>2. Waiting'
    BY <1>1, <1>2, <1>13, <2>1, PutDateWaiting
  <2> QED
    BY <2>1, <2>2
<1>14. ASSUME NEW w \in Consumers, job[w] # NULL, UNCHANGED <<topic, model, index>>,
              job' = [job EXCEPT ![w] = NULL] \/ Reassign(w), dead \subseteq dead',
              \A m \in Facts : Free(m) => Free(m)',
              \A v \in Readers \ {w} : job[v] # NULL => job'[v] = job[v],
              \A m \in Facts : w \in Readers /\ job[w].msg = m =>
                 Free(m)' \/ m \in dead' \/ job[w].phase = "done"
       PROVE  DocumentsCurrent' /\ FactsKnown' /\ RowsFromFacts' /\ Waiting'
  <2>1. Kept
    BY <1>1, <1>14, KeptSteps
  <2>2. /\ \A m \in Facts, d \in Nat : Since(m, d) => Since(m, d)'
        /\ DocumentsCurrent' /\ FactsKnown' /\ RowsFromFacts'
    BY <1>1, <2>1, KeptTold
  <2>3. \A v \in Readers, m \in Facts : job[v] # NULL /\ job[v].msg = m =>
           job'[v] = job[v] \/ Free(m)' \/ m \in dead' \/ job[v].phase = "done"
    BY <1>14
  <2>4. Waiting'
    BY <1>1, <1>14, <2>2, <2>3, KeptWaiting
  <2> QED
    BY <2>2, <2>4
<1>15. ASSUME NEW w \in Consumers,
              Return(w) \/ HandlerFails(w) \/ SaveConflicts(w) \/ Crash(w)
       PROVE  DocumentsCurrent' /\ FactsKnown' /\ RowsFromFacts' /\ Waiting'
  <2>1. /\ job[w] # NULL /\ job' = [job EXCEPT ![w] = NULL] /\ UNCHANGED <<topic, model, index>>
        /\ dead \subseteq dead' /\ \A m \in Facts : Free(m) => Free(m)'
        /\ \A m \in Facts : w \in Readers /\ job[w].msg = m =>
              Free(m)' \/ m \in dead' \/ job[w].phase = "done"
    <3>1. CASE Return(w)
      BY <1>1, <3>1, Returned
    <3>2. CASE HandlerFails(w) \/ SaveConflicts(w)
      BY <1>1, <3>2, Failed
    <3>3. CASE Crash(w)
      BY <1>1, <3>3, Crashed
    <3> QED
      BY <1>15, <3>1, <3>2, <3>3
  <2>2. \A v \in Readers \ {w} : job'[v] = job[v]
    BY <1>1, <2>1, Lanes DEF TypeOK
  <2> QED
    BY <1>14, <2>1, <2>2
<1>16. ASSUME NEW w \in Consumers, Reassign(w)
       PROVE  DocumentsCurrent' /\ FactsKnown' /\ RowsFromFacts' /\ Waiting'
  <2>1. w \in Readers /\ \A m \in Facts : Free(m) \/ job[w].msg = m => Free(m)'
    BY <1>1, <1>16, Reassigned
  <2>2. /\ job[w] # NULL /\ job' = [job EXCEPT ![<<"zombie", w[2]>>] = job[w], ![w] = NULL]
        /\ UNCHANGED <<topic, model, index>> /\ dead' = dead
    BY <1>16 DEF Reassign, path
  <2>3. \A v \in Readers \ {w} : job'[v] = job[v]
    <3>1. \A v \in Readers : v \in Consumers /\ v # <<"zombie", w[2]>>
      BY Lanes
    <3> QED
      BY <1>1, <2>2, <3>1 DEF TypeOK
  <2> QED
    BY <1>14, <1>16, <2>1, <2>2, <2>3
<1>17. ASSUME NEW w \in Consumers, SaveArtist(w)
       PROVE  DocumentsCurrent' /\ FactsKnown' /\ RowsFromFacts' /\ Waiting'
  BY <1>1, <1>17, SaveTold
<1> QED
  BY <1>6, <1>7, <1>8, <1>9, <1>10, <1>11, <1>12, <1>13, <1>15, <1>16, <1>17 DEF Next, Step

\* Of a date public from the beginning, every document of the row's version tells the whole
\* read model, the read model has every processed fact but the artist's that an older one was
\* saved over, and whatever the index does not tell of them is dead or still ahead of a reader.
THEOREM PublicInvariance ==
    ASSUME PublicAtFirst
    PROVE  Spec => []PublicInv
<1>1. Init => PublicInv
  BY PublicInit
<1>2. PublicInv /\ [Next]_vars => PublicInv'
  BY PublicStep
<1> QED
  BY <1>1, <1>2, PTL DEF Spec

\* What waits for a reader is ahead.
LEMMA FreeAhead ==
    ASSUME TypeOK, NEW m \in Facts, Free(m)
    PROVE  Ahead(m)
<1> DEFINE k == KeyOf(m)
<1>1. k \in Key
  BY FactKinds
<1>2. /\ topic[k] \in Seq(Facts) /\ retry[k] \in Seq(Delivery) /\ offset[k] \in Nat
      /\ Len(topic[k]) \in Nat /\ Len(retry[k]) \in Nat
  BY <1>1, PathFields
<1>3. CASE m \in FreeTopic(k)
  <2>1. PICK x \in offset[k] + (IF job[<<"main", k>>] = NULL THEN 1 ELSE 2) .. Len(topic[k]) :
           m = topic[k][x]
    BY <1>3 DEF FreeTopic, From
  <2>2. x \in offset[k] + 1 .. Len(topic[k])
    BY <1>2
  <2> QED
    BY <2>1, <2>2 DEF Ahead
<1>4. CASE m \in FreeRetry(k)
  <2>1. PICK x \in (IF job[<<"retry", k>>] = NULL THEN 1 ELSE 2) .. Len(retry[k]) :
           m = retry[k][x].msg
    BY <1>4 DEF FreeRetry, CopiesFrom
  <2>2. x \in DOMAIN retry[k]
    BY <1>2
  <2> QED
    BY <2>1, <2>2 DEF Ahead
<1> QED
  BY <1>3, <1>4 DEF Free

\* NoFactLost: of a date public from the beginning, a fact its topic holds is told by the
\* date's document, or it, or one as new that supersedes it, is in the dead-letter topic or
\* still ahead of a consumer, whatever failed, crashed or was reassigned (dispatch), unless
\* an artist fact that found no row was saved over it (applyArtistMessage).
THEOREM FactsKept ==
    ASSUME PublicAtFirst
    PROVE  Spec => []NoFactLost
<1>1. ASSUME PublicInv
      PROVE  NoFactLost
  <2>1. TypeOK /\ FactsTold /\ NotSkipped /\ processed \subseteq Facts
    BY <1>1 DEF PublicInv, IndexInv, TypeOK
  <2>2. ASSUME NEW n \in Facts, ToPut(n)
        PROVE  Ahead(n)
    BY <2>1, <2>2, FreeAhead, Lanes DEF ToPut, Ahead, Composing
  <2> SUFFICES ASSUME NEW m \in Facts, m \in ToSet(topic[KeyOf(m)])
               PROVE  \/ Shows(m) \/ m \in overwritten
                      \/ \E n \in Facts : Restates(n, m) /\ (n \in dead \/ Ahead(n))
    BY DEF NoFactLost
  <2>3. Restates(m, m)
    BY RestatesOrder
  <2>4. CASE m \in dead \/ Free(m)
    BY <2>1, <2>3, <2>4, FreeAhead
  <2>5. CASE \E w \in Readers : job[w] # NULL /\ job[w].msg = m
    <3>1. Ahead(m)
      BY <2>5, Lanes DEF Ahead
    <3> QED
      BY <2>3, <3>1
  <2>6. CASE m \in Standing
    <3>1. CASE Told(m)
      <4>1. PICK d \in Nat : d <= index.date.version /\ Since(m, d)
        BY <3>1 DEF Told
      <4>2. index.date.version >= d
        BY <2>1, <4>1, RowFields
      <4> QED
        BY <4>1, <4>2 DEF Since, IndexTells
    <3>2. CASE \E n \in Standing : Restates(n, m) /\ (n \in dead \/ ToPut(n))
      BY <2>1, <2>2, <3>2 DEF Standing
    <3> QED
      BY <2>1, <2>6, <3>1, <3>2 DEF FactsTold
  <2> QED
    BY <2>1, <2>4, <2>5, <2>6 DEF NotSkipped, Standing
<1> QED
  BY <1>1, PublicInvariance, PTL

\* NoSilentGap: of a date public from the beginning, once every committed fact is published,
\* every message handled and none dead, the documents are the read model's
\* (applyShowMessage, applyArtistMessage, applyDateMessage).
THEOREM NoGapAtRest ==
    ASSUME PublicAtFirst
    PROVE  Spec => []NoSilentGap
<1>1. ASSUME PublicInv
      PROVE  NoSilentGap
  <2> SUFFICES ASSUME Quiet, dead = {}
               PROVE  ShowIndexed /\ DateIndexed
    BY DEF NoSilentGap
  <2>1. /\ TypeOK /\ DatesChained /\ ShowsChained /\ DocumentsCurrent /\ FactsKnown /\ RowsFromFacts
        /\ NotSkipped /\ DateToPut /\ ShowToPut /\ processed \subseteq Facts
    BY <1>1 DEF PublicInv, IndexInv, TypeOK
  <2>2. \A w \in Readers : job[w] = NULL
    BY Lanes DEF Quiet
  <2>3. ASSUME NEW m \in Facts
        PROVE  ~Free(m)
    <3> DEFINE k == KeyOf(m)
    <3>1. k \in Key
      BY FactKinds
    <3>2. offset[k] \in Nat /\ offset[k] = Len(topic[k]) /\ retry[k] = <<>>
      BY <2>1, <3>1, PathFields DEF Quiet
    <3>3. /\ <<"main", k>> \in Readers /\ <<"retry", k>> \in Readers
      BY <3>1 DEF Readers
    <3> HIDE DEF k
    <3>4. FreeTopic(k) = {}
      <4>1. FreeTopic(k) = {topic[k][x] : x \in offset[k] + 1 .. Len(topic[k])}
        BY <2>2, <3>3 DEF FreeTopic, From
      <4>2. \A x \in offset[k] + 1 .. offset[k] : FALSE
        BY <3>2
      <4> QED
        BY <3>2, <4>1, <4>2
    <3>5. FreeRetry(k) = {}
      BY <2>2, <3>2, <3>3 DEF FreeRetry, CopiesFrom
    <3> QED
      BY <3>4, <3>5 DEF Free, k
  <2>4. index.date.version = date.doc
    BY <2>1, <2>2, <2>3 DEF DateToPut, Composing
  <2>5. ShowIndexed
    BY <2>1, <2>2, <2>3 DEF ShowToPut, ShowIndexed, Composing
  <2>6. \A m \in Facts : m \in processed
    <3>1. \A m \in Facts : KeyOf(m) \in Key
      BY FactKinds
    <3>2. \A m \in Facts : m \in ToSet(topic[KeyOf(m)])
      BY <3>1, OutboxAssumption DEF OutboxAssumption, Quiet
    <3> QED
      BY <2>1, <2>2, <2>3, <3>2 DEF NotSkipped
  <2>7. show.updatable # 0 => show.published # 0
    <3>1. SUFFICES ASSUME show.updatable # 0
                   PROVE  show.published # 0
      OBVIOUS
    <3>2. PICK n \in processed : KeyOf(n) = "show"
      BY <2>1, <3>1 DEF RowsFromFacts
    <3>3. PICK p \in Facts : KindOf[p] = "show_published"
      BY <2>1, <3>2, OutboxAssumption DEF OutboxAssumption
    <3>4. Known(p) /\ VersionOf[p] \in Nat /\ VersionOf[p] > 0
      BY <2>1, <2>6, <3>3, FactKinds DEF FactsKnown, RowsFromFacts, Standing
    <3> QED
      BY <2>1, <3>3, <3>4, RowFields DEF Known
  <2>8. /\ index.date.published = show.published /\ index.date.updatable = show.updatable
        /\ index.date.artist = artist
    BY <2>1, <2>4, <2>7 DEF DocumentsCurrent
  <2>9. index.date.scheduled = date.scheduled /\ index.date.publication = date.publication
    <3>1. NoOlder(date, index.date) /\ NoOlder(index.date, date)
      BY <2>1, <2>4 DEF DatesChained, DocumentsCurrent
    <3> QED
      BY <2>1, <3>1, RowFields DEF NoOlder
  <2>10. DateIndexed
    <3>1. index.date \in DateDocument
      BY <2>1, IndexFields
    <3> QED
      BY <2>4, <2>8, <2>9, <3>1 DEF DateIndexed, DateDocument, dateDocumentOf
  <2> QED
    BY <2>5, <2>10
<1> QED
  BY <1>1, PublicInvariance, PTL
=============================================================================
