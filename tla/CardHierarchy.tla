---------------------------- MODULE CardHierarchy ----------------------------
(***************************************************************************)
(* The card tree of a project, as the functions of CardHierarchy.cpp and   *)
(* the Rebuilder's loader compute on it.                                   *)
(*                                                                         *)
(* "rows" is the cards table: a function from the ids that have a row to   *)
(* the row's parent and whether deleted_at is set.  "live" and "trash" are *)
(* the card files under cards/ and trash/cards/: functions from the ids    *)
(* that have a file there to the parent its front matter names.  Sort keys *)
(* are CardOrder's subject: a placement that re-spaces siblings rewrites   *)
(* their files from their rows, and that is all this module sees of it.    *)
(*                                                                         *)
(* The code's walks up the tree keep the ids they have visited: the line   *)
(* of a card is the set of ids such a walk comes to.                       *)
(***************************************************************************)
EXTENDS Naturals, FiniteSets

CONSTANTS
    Card,  \* card ids
    Root   \* the parent of a card at the project's top level

ASSUME RootAssumption == Root \notin Card

Parent == Card \cup {Root}
Row == [parent : Parent, trashed : BOOLEAN]
Partial(D, R) == UNION {[S -> R] : S \in SUBSET D}

\* f with the values of g, and f without the ids in S
With(f, g) == [x \in DOMAIN f \cup DOMAIN g |-> IF x \in DOMAIN g THEN g[x] ELSE f[x]]
Without(f, S) == [x \in DOMAIN f \ S |-> f[x]]
At(c, v) == [x \in {c} |-> v]

-----------------------------------------------------------------------------
Live(rows) == {c \in DOMAIN rows : ~rows[c].trashed}
Trashed(rows) == DOMAIN rows \ Live(rows)
Up(rows) == [c \in DOMAIN rows |-> rows[c].parent]

\* The card, its parent, its parent's parent, ... up to the top, to an id
\* without a row, or round a cycle: the walk has seen all of it after as many
\* steps as there are cards
Line(c, up) ==
    LET walk[n \in 0..Cardinality(Card)] ==
            IF n = 0 THEN {c}
            ELSE LET seen == walk[n - 1]
                 IN  seen \cup ({up[a] : a \in seen \cap DOMAIN up} \ {Root})
    IN  walk[Cardinality(Card)]

\* The walk up from c comes to an end: at an id without a row, or at the top
Ends(c, up) ==
    LET line == Line(c, up)
    IN  line \subseteq DOMAIN up => \E a \in line : up[a] = Root

\* The cards whose line is live, and comes to the top
IsOpen(a, rows) == Line(a, Up(rows)) \subseteq Live(rows) /\ Ends(a, Up(rows))
Open(rows) == {a \in Live(rows) : IsOpen(a, rows)}

\* Mutant: the walk stops at the first live ancestor.
ReachableFirstLive(c, rows) ==
    LET above == Live(rows) \cap (Line(c, Up(rows)) \ {c})
    IN  IF above = {} THEN Root ELSE CHOOSE a \in above : above \subseteq Line(a, Up(rows))

\* reachable_card_parent: the nearest ancestor of c that is live with everything
\* above it, or the top level.  It throws when the walk does not end.
Reachable(c, rows) ==
    LET open == {a \in Line(c, Up(rows)) \ {c} : IsOpen(a, rows)}
    IN  IF open = {} THEN Root ELSE CHOOSE a \in open : open \subseteq Line(a, Up(rows))

\* Mutant: the line above the parent is not walked.
ValidParentNoWalk(c, p, rows) == p # c /\ p \in Live(rows) \cup {Root}

\* validate_card_parent, for c placed under p.  Where the walk would throw, p is
\* not reachable either.
ValidParent(c, p, rows) ==
    LET placed == With(rows, At(c, [parent |-> p, trashed |-> FALSE]))
    IN  Reachable(c, placed) = p

\* The rows after the cards of S have been placed under p
Placed(S, p, rows) ==
    [c \in DOMAIN rows |-> IF c \in S THEN [rows[c] EXCEPT !.parent = p] ELSE rows[c]]

Children(p, rows) == {c \in Live(rows) : rows[c].parent = p}

\* promoted_card_children: they go where c itself is reachable
Promoted(c, rows) == Placed(Children(c, rows), Reachable(c, rows), rows)

\* CardStore::trash with TrashSubtree: everything below c, through trashed cards
Subtree(c, rows) == {d \in DOMAIN rows : c \in Line(d, Up(rows))}

\* plan_hierarchy_repair: the heads of the hidden branches and where they go
Heads(rows) ==
    {c \in Live(rows) : /\ rows[c].parent # Root
                        /\ rows[c].parent \notin Live(rows)
                        /\ Ends(c, Up(rows))}
Cycles(rows) == {c \in Live(rows) : ~Ends(c, Up(rows))}

\* Mutant: only a parent without a row is replaced.
RepairedMissing(rows) ==
    [c \in DOMAIN rows |-> IF rows[c].parent \notin DOMAIN rows
                           THEN [rows[c] EXCEPT !.parent = Root]
                           ELSE rows[c]]

Repaired(rows) ==
    [c \in DOMAIN rows |-> IF c \in Heads(rows)
                           THEN [rows[c] EXCEPT !.parent = Reachable(c, rows)]
                           ELSE rows[c]]

-----------------------------------------------------------------------------
\* rebuild_project_in_transaction: card files become rows, a row only after its
\* parent's; a card with two files breaks the primary key, and a round that
\* inserts nothing throws.
Loadable(live, trash) ==
    LET up == With(live, trash)
        ids == DOMAIN up
    IN  /\ DOMAIN live \cap DOMAIN trash = {}
        /\ \A S \in SUBSET ids :
              S # {} => {c \in S : up[c] \in (ids \ S) \cup {Root}} # {}

Loaded(live, trash) ==
    [c \in DOMAIN live \cup DOMAIN trash |->
        IF c \in DOMAIN trash THEN [parent |-> trash[c], trashed |-> TRUE]
        ELSE [parent |-> live[c], trashed |-> FALSE]]

\* The files a set of rows corresponds to
LiveFiles(rows) == [c \in Live(rows) |-> rows[c].parent]
TrashFiles(rows) == [c \in Trashed(rows) |-> rows[c].parent]
=============================================================================
