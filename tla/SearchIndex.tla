----------------------------- MODULE SearchIndex -----------------------------
(***************************************************************************)
(* The cards of a project as their readers see them: the rows that listings*)
(* page through, the full-text table that searches and the backup read the *)
(* bodies from, and the files that complete listings read them from.       *)
(*                                                                         *)
(* A card change is one step, as CardMutation shows it to be; it writes    *)
(* the row and the full-text entry in one transaction.  What is left to    *)
(* interleave are the pages of a listing, the steps of a reindex, which is *)
(* not a transaction, and the changes of other callers between them.       *)
(*                                                                         *)
(* Cards are numbers, ordered as their ids are.  A time is a second of the *)
(* clock: cards may well be changed in the same one.                       *)
(***************************************************************************)
EXTENDS Naturals, FiniteSets, FiniteSetsExt, SequencesExt

CONSTANTS
    Card,      \* a set of numbers
    Body,
    Empty,     \* the body "", which no card of a listing really has
    None,
    Limit,     \* the cards that a page may hold
    MaxTime,
    Scenarios  \* sets of circumstances, one of which holds in a behaviour

Circumstance ==
    {"change",  \* cards are changed between two listings
     "touch",   \* cards are changed while they are listed
     "reindex", \* the full-text table is refilled from the rows
     "rows",    \* the rows are rebuilt by a call that has no full-text table
     "crash"}   \* the process dies inside a reindex

VARIABLES
    cards, \* cards[c]: its body, the time of its last change, and if trashed
    fts,   \* fts[c]: the body that the full-text table has for c
    time,
    job,   \* the cards that the reindex has seen; None if it is not running
    page,  \* the listing in progress
    allow

vars == <<cards, fts, time, job, page, allow>>

NoPage == [by |-> "none", after |-> None, got |-> <<>>, same |-> {},
           kept |-> {}]

Init ==
    /\ \E S \in SUBSET Card, b \in Body, t \in [Card -> 0..1] :
          cards = [c \in Card |-> IF c \in S
                                  THEN [of |-> b, at |-> t[c], trash |-> FALSE]
                                  ELSE None]
    /\ fts = [c \in Card |-> IF cards[c] = None THEN None ELSE cards[c].of]
    /\ time = 1
    /\ job = None
    /\ page = NoPage
    /\ allow \in Scenarios

Live == {c \in Card : cards[c] # None /\ ~cards[c].trash}

-----------------------------------------------------------------------------
(* Changes.  Each one is refused while a listing goes on, unless the       *)
(* circumstances allow it; page.same and page.kept remember which cards    *)
(* have stayed as they were, and which have stayed live.                   *)

Set(c, new, entry) ==
    /\ (IF page.by = "none" THEN "change" ELSE "touch") \in allow
    /\ cards' = [cards EXCEPT ![c] = new]
    /\ fts' = [fts EXCEPT ![c] = entry]
    /\ page' = [page EXCEPT !.same = @ \ {c},
                            !.kept = IF new = None \/ new.trash
                                     THEN @ \ {c} ELSE @]
    /\ UNCHANGED <<time, job, allow>>

Create(c, b) ==
    /\ cards[c] = None
    /\ Set(c, [of |-> b, at |-> time, trash |-> FALSE], b)

UpdateContent(c, b) ==
    /\ c \in Live
    /\ Set(c, [of |-> b, at |-> time, trash |-> FALSE], b)

SoftDelete(c) ==
    /\ c \in Live
    /\ Set(c, [cards[c] EXCEPT !.at = time, !.trash = TRUE], None)

Restore(c) ==
    /\ cards[c] # None /\ cards[c].trash
    /\ Set(c, [cards[c] EXCEPT !.at = time, !.trash = FALSE], cards[c].of)

Purge(c) ==
    /\ cards[c] # None /\ cards[c].trash
    /\ Set(c, None, None)

Tick ==
    /\ time < MaxTime
    /\ time' = time + 1
    /\ UNCHANGED <<cards, fts, job, page, allow>>

-----------------------------------------------------------------------------
(* A rebuild reads the rows back from the files.  The resource and location*)
(* stores run one after a failed transaction, and give it no full-text     *)
(* table: it empties the entries of the project and writes none.           *)

RebuildProject ==
    /\ fts' = [c \in Card |-> IF c \in Live THEN cards[c].of ELSE None]
    /\ UNCHANGED <<cards, time, job, page, allow>>

RebuildRows ==
    /\ "rows" \in allow
    /\ fts' = [c \in Card |-> None]
    /\ UNCHANGED <<cards, time, job, page, allow>>

(* Reindexer::run empties the table and inserts one entry per live row.    *)

ReindexClear ==
    /\ "reindex" \in allow
    /\ job = None
    /\ job' = {}
    /\ fts' = [c \in Card |-> None]
    /\ UNCHANGED <<cards, time, page, allow>>

ReindexCard(c) ==
    /\ job # None
    /\ c \in Live \ job
    /\ job' = job \cup {c}
    /\ fts' = [fts EXCEPT ![c] = Empty]
    /\ UNCHANGED <<cards, time, page, allow>>

ReindexEnds ==
    /\ job # None
    /\ Live \subseteq job \/ "crash" \in allow
    /\ job' = None
    /\ UNCHANGED <<cards, fts, time, page, allow>>

-----------------------------------------------------------------------------
(* Listings.  A complete page and a collection page ordered by id ask for  *)
(* one card more than the page holds, to see whether there is another page;*)
(* the pages of the backup, most recent first, end with one that is not    *)
(* full.                                                                   *)

IdBefore(c, d) == c < d

RecentBefore(c, d) ==
    \/ cards[c].at > cards[d].at
    \/ cards[c].at = cards[d].at /\ c > d

\* Mutant: the cards changed in the same moment as the last one are passed over.
AfterRecentLoose(c, cursor) == cards[c].at < cursor.at

AfterRecent(c, cursor) ==
    \/ cards[c].at < cursor.at
    \/ cards[c].at = cursor.at /\ c < cursor.id

Selected ==
    CASE page.after = None -> Live
      [] page.by = "recent" /\ page.after # None ->
            {c \in Live : AfterRecent(c, page.after)}
      [] page.by = "id" /\ page.after # None ->
            {c \in Live : c > page.after.id}

InOrder ==
    IF page.by = "recent"
    THEN SetToSortSeq(Selected, LAMBDA c, d : RecentBefore(c, d))
    ELSE SetToSortSeq(Selected, LAMBDA c, d : IdBefore(c, d))

Begin(by) ==
    /\ page.by = "none"
    /\ page' = [by |-> by, after |-> None, got |-> [c \in Card |-> None],
                same |-> Live, kept |-> Live]
    /\ UNCHANGED <<cards, fts, time, job, allow>>

Reads(c) ==
    IF page.by = "id" THEN cards[c].of
    ELSE IF fts[c] = None THEN Empty ELSE fts[c]

Cursor(c) == [id |-> c, at |-> cards[c].at]

Turn(seq, more) ==
    LET n == IF Len(seq) < Limit THEN Len(seq) ELSE Limit
    IN page' = [page EXCEPT
         !.got = [c \in Card |-> IF \E i \in 1..n : seq[i] = c
                                 THEN Reads(c) ELSE @[c]],
         !.after = IF more THEN Cursor(seq[n]) ELSE @,
         !.by = IF more THEN @ ELSE @ \o "Done"]

ListCompletePage ==
    /\ page.by = "id"
    /\ Turn(InOrder, Len(InOrder) > Limit)
    /\ UNCHANGED <<cards, fts, time, job, allow>>

BackupSnapshotPage ==
    /\ page.by = "recent"
    /\ Turn(InOrder, Len(InOrder) >= Limit)
    /\ UNCHANGED <<cards, fts, time, job, allow>>

Finish ==
    /\ page.by \in {"idDone", "recentDone"}
    /\ page' = NoPage
    /\ UNCHANGED <<cards, fts, time, job, allow>>

Changes ==
    \/ \E c \in Card :
          \/ \E b \in Body : Create(c, b) \/ UpdateContent(c, b)
          \/ SoftDelete(c) \/ Restore(c) \/ Purge(c)
    \/ Tick

Refills ==
    \/ RebuildProject \/ RebuildRows
    \/ ReindexClear \/ ReindexEnds
    \/ \E c \in Card : ReindexCard(c)

Listings ==
    \/ \E by \in {"id", "recent"} : Begin(by)
    \/ ListCompletePage \/ BackupSnapshotPage \/ Finish

Next == Changes \/ Refills \/ Listings

Spec == Init /\ [][Next]_vars

-----------------------------------------------------------------------------
(* A complete listing that has come to its end holds every card that was   *)
(* live all the while, whatever was created, edited or trashed between its *)
(* pages, and the body of a card that was not edited.                      *)
ListingComplete ==
    page.by = "idDone" =>
        /\ \A c \in page.kept : page.got[c] # None
        /\ \A c \in page.same : page.got[c] = cards[c].of

(* A backup that has come to its end holds every card that was not changed *)
(* while it was taken, with the card's body, as long as nothing but card   *)
(* changes and whole rebuilds writes the full-text table: a card that is   *)
(* changed moves in front of the cursor, and the backup may miss it.       *)
BackupComplete ==
    (page.by = "recentDone" /\ allow \cap {"reindex", "rows"} = {}) =>
        \A c \in page.same : page.got[c] = cards[c].of
=============================================================================
