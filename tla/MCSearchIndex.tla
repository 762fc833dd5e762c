--------------------------- MODULE MCSearchIndex ---------------------------
(***************************************************************************)
(* Two instances of SearchIndex, of a show, its artist and a date: the     *)
(* date is public from the beginning and opens, while the show is          *)
(* published, then updated, and an artist of whom nothing is known is      *)
(* named, then renamed, so that of two facts of one key either may         *)
(* overtake the other; or the date is first scheduled while the show is    *)
(* first published.                                                        *)
(***************************************************************************)
EXTENDS SearchIndex, TLC

CONSTANTS published, updated, named, renamed, scheduled, opened

Kinds ==
    published :> "show_published" @@ updated :> "show_updated" @@ named :> "artist_updated"
        @@ renamed :> "artist_updated" @@ scheduled :> "date_scheduled" @@ opened :> "state_changed"

Versions ==
    published :> 1 @@ updated :> 2 @@ named :> 1 @@ renamed :> 2 @@ scheduled :> 2 @@ opened :> 1

PublicFacts == {published, updated, named, renamed, opened}

PublicKinds == [m \in PublicFacts |-> Kinds[m]]

PublicVersions == [m \in PublicFacts |-> Versions[m]]

PublicWritten ==
    "show" :> <<published, updated>> @@ "artist" :> <<named, renamed>> @@ "date" :> <<opened>>

FirstFacts == {published, named, scheduled, opened}

FirstKinds == [m \in FirstFacts |-> Kinds[m]]

FirstVersions == [m \in FirstFacts |-> Versions[m]]

FirstWritten ==
    "show" :> <<published>> @@ "artist" :> <<named>> @@ "date" :> <<scheduled, opened>>
=============================================================================
