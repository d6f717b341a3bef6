---------------------------- MODULE CardLifecycle ----------------------------
(***************************************************************************)
(* The operations of CardStore on the cards of one project: what they do   *)
(* to the cards table and to the card files.                               *)
(*                                                                         *)
(* An operation that reads the card again under the project lock is one    *)
(* action.  update_content, update_links, update_milestone(s) and          *)
(* hard_delete use what they read before they took the lock, so each is    *)
(* two actions with a pending call in between.  The operations that go     *)
(* through apply_card_changes are atomic here; module CardMutation is      *)
(* about that.  Create, move and hard_delete change a file before the      *)
(* table with no journal, so a crash can fall between the two.             *)
(*                                                                         *)
(* "allow" says which of the circumstances that separate the files from    *)
(* the table, or that older versions left behind, a behaviour may meet.    *)
(***************************************************************************)
EXTENDS CardHierarchy, Naturals

CONSTANTS
    Few,       \* the cards of the behaviours that begin with an empty project
    Scenarios, \* sets of circumstances, one of which holds in a behaviour
    MaxCalls,  \* bound on calls that wait for the lock
    MaxOps     \* bound on commits, in the behaviours that keep the history

Circumstance ==
    {"editTrashed",   \* a caller edits the content of a trashed card
     "purgeParents",  \* a caller purges a card that another card names as parent
     "overlap",       \* operations run between a call's read and its lock
     "crash",         \* the process dies between a file and the table
     "hidden",        \* the project has cards hidden by an older version
     "history",       \* live historical versions are restored
     "trashHistory"}  \* trashed historical versions are restored, too

ASSUME LifecycleAssumption ==
    /\ Few \subseteq Card /\ Scenarios \subseteq SUBSET Circumstance
    /\ MaxCalls \in Nat /\ MaxOps \in Nat

VARIABLES
    rows, live, trash, \* the table and the files, see CardHierarchy
    versions,          \* the card versions that commits hold
    purged,            \* ids that were permanently deleted
    calls,             \* calls between their read and the project lock, with what
                       \* they will use of it (a purge uses no parent)
    ops,               \* commits counted
    allow              \* the circumstances of this behaviour

vars == <<rows, live, trash, versions, purged, calls, ops, allow>>

Version == [card : Card, side : {"live", "trash"}, parent : Parent]
Call == [op : {"edit", "purge"}, card : Card, parent : Parent]
History == {"history", "trashHistory"} \cap allow # {}

\* Ids that no card has had
Unused == (IF "hidden" \in allow THEN Card ELSE Few)
              \ (DOMAIN rows \cup DOMAIN live \cup DOMAIN trash \cup purged)

Init ==
    /\ allow \in Scenarios
    /\ rows \in IF "hidden" \in allow
                THEN {r \in Partial(Card, Row) : Loadable(LiveFiles(r), TrashFiles(r))}
                ELSE {[c \in {} |-> {}]}
    /\ live = LiveFiles(rows) /\ trash = TrashFiles(rows)
    /\ versions = {} /\ purged = {} /\ calls = {} /\ ops = 0

-----------------------------------------------------------------------------
\* The commit that ends an operation: the cards in the new tree can be restored
\* from it; a card that has a live file is read from that.
Commit ==
    IF History
    THEN /\ ops < MaxOps /\ ops' = ops + 1
         /\ versions' = versions
              \cup {[card |-> c, side |-> "live", parent |-> live'[c]] : c \in DOMAIN live'}
              \cup {[card |-> c, side |-> "trash", parent |-> trash'[c]] :
                        c \in DOMAIN trash' \ DOMAIN live'}
    ELSE UNCHANGED <<versions, ops>>

\* The project lock is free and, unless calls may overlap, nobody waits for it.
Alone == "overlap" \in allow \/ calls = {}

\* apply_card_changes: the cards of S get the rows of "new", their files follow
Apply(S, new) ==
    /\ \A c \in S : IF rows[c].trashed THEN c \in DOMAIN trash ELSE c \in DOMAIN live
    /\ \A c \in S : rows[c].trashed # new[c].trashed
                    => c \notin IF new[c].trashed THEN DOMAIN trash ELSE DOMAIN live
    /\ rows' = new
    /\ live' = With(Without(live, S), [c \in S \cap Live(new) |-> new[c].parent])
    /\ trash' = With(Without(trash, S), [c \in S \cap Trashed(new) |-> new[c].parent])
    /\ UNCHANGED <<purged, calls>>
    /\ Commit

\* Sets of siblings that inserting a block of cards under the parents P can
\* re-space; there is nothing to re-space when the block is empty
Respaced(block, P) ==
    SUBSET (IF block = {} THEN {} ELSE UNION {Children(p, rows) : p \in P})

Create(c, p) ==
    /\ Alone
    /\ c \in Unused
    /\ ValidParent(c, p, rows)
    /\ live' = With(live, At(c, p))
    /\ rows' = With(rows, At(c, [parent |-> p, trashed |-> FALSE]))
    /\ UNCHANGED <<trash, purged, calls>>
    /\ Commit

\* Mutant: only the table is changed.
MoveRowOnly(c, p) ==
    /\ Alone
    /\ c \in Live(rows) /\ c \in DOMAIN live /\ ValidParent(c, p, rows)
    /\ rows' = Placed({c}, p, rows)
    /\ UNCHANGED <<live, trash, purged, calls>>
    /\ Commit

Move(c, p) ==
    /\ Alone
    /\ c \in Live(rows) /\ c \in DOMAIN live /\ ValidParent(c, p, rows)
    /\ live' = With(live, At(c, p))
    /\ rows' = Placed({c}, p, rows)
    /\ UNCHANGED <<trash, purged, calls>>
    /\ Commit

\* move_to, for every intent that resolves to the parent p
MoveTo(c, p) ==
    /\ Alone
    /\ c \in Live(rows) /\ ValidParent(c, p, rows)
    /\ \E sibs \in Respaced({c}, {p}) : Apply({c} \cup sibs, Placed({c}, p, rows))

TrashedBy(S, new) == [c \in DOMAIN new |-> IF c \in S THEN [new[c] EXCEPT !.trashed = TRUE]
                                           ELSE new[c]]

TrashPromote(c) ==
    LET children == Children(c, rows) IN
    /\ Alone
    /\ c \in Live(rows) /\ Ends(c, Up(rows))
    /\ \E sibs \in Respaced(children, {Reachable(c, rows)}) :
          Apply({c} \cup children \cup sibs, TrashedBy({c}, Promoted(c, rows)))

TrashSubtree(c) ==
    LET S == Subtree(c, rows) \cap Live(rows) IN
    /\ Alone
    /\ c \in Live(rows)
    /\ Apply(S, TrashedBy(S, rows))

\* The row of c restored below p or, if p is not reachable, nearer to the top
Revived(c, p) ==
    LET saved == With(rows, At(c, [parent |-> p, trashed |-> FALSE]))
    IN  Placed({c}, Reachable(c, saved), saved)

\* restored_card_placement, for c with the saved parent p
Revive(c, p) ==
    LET new == Revived(c, p) IN
    /\ Ends(c, Up(Placed({c}, p, rows)))
    /\ \E sibs \in Respaced({c}, {new[c].parent}) : Apply({c} \cup sibs, new)

Restore(c) ==
    /\ Alone
    /\ c \in Trashed(rows)
    /\ Revive(c, rows[c].parent)

\* restore_version.  A trashed version keeps its saved parent (the foreign key
\* wants it to exist), and the card's present children are promoted.
RestoreVersion(v) ==
    LET c == v.card
        children == Children(c, rows)
    IN  /\ Alone
        /\ c \in DOMAIN rows
        /\ \/ /\ v.side = "live"
              /\ Revive(c, v.parent)
           \/ /\ v.side = "trash" /\ "trashHistory" \in allow
              /\ v.parent \in DOMAIN rows \cup {Root}
              /\ Ends(c, Up(rows))
              /\ \E sibs \in Respaced(children, {Reachable(c, rows)}) :
                    Apply({c} \cup children \cup sibs,
                          TrashedBy({c}, Placed({c}, v.parent, Promoted(c, rows))))

Repair ==
    LET new == Repaired(rows)
        heads == Heads(rows)
    IN  /\ Alone
        /\ heads # {}
        /\ \E sibs \in Respaced(heads, {new[h].parent : h \in heads}) :
              Apply(heads \cup sibs, new)

\* Rebuilder::rebuild_project; when the files do not load its transaction is lost
Rebuild ==
    /\ Alone
    /\ Loadable(live, trash)
    /\ rows' = Loaded(live, trash)
    /\ UNCHANGED <<live, trash, versions, purged, calls, ops>>

RebuildThrows == Alone /\ ~Loadable(live, trash) /\ UNCHANGED vars

-----------------------------------------------------------------------------
\* The calls that act on what they read before the lock.

Wait(call) ==
    /\ Alone
    /\ Cardinality(calls) < MaxCalls
    /\ History => ops < MaxOps
    /\ calls' = calls \cup {call}
    /\ UNCHANGED <<rows, live, trash, versions, purged, ops>>

BeginEdit(c) ==
    /\ c \in DOMAIN rows
    /\ "editTrashed" \in allow \/ c \in Live(rows)
    /\ Wait([op |-> "edit", card |-> c, parent |-> rows[c].parent])

\* update_content writes the card file with the metadata it read, at the live path
WriteEdit(k) ==
    /\ k \in calls /\ k.op = "edit"
    /\ live' = With(live, At(k.card, k.parent))
    /\ calls' = calls \ {k}
    /\ UNCHANGED <<rows, trash, purged>>
    /\ Commit

\* nothing to write, or (links, milestones) the live file is missing
DropEdit(k) ==
    /\ k \in calls /\ k.op = "edit"
    /\ calls' = calls \ {k}
    /\ UNCHANGED <<rows, live, trash, versions, purged, ops>>

BeginPurge(c) ==
    /\ c \in Trashed(rows)
    /\ "purgeParents" \in allow \/ \A d \in DOMAIN rows : rows[d].parent # c
    /\ Wait([op |-> "purge", card |-> c, parent |-> Root])

\* hard_delete: the trash file, then the row; the foreign key clears the parent
\* of the rows below it
HardDelete(k) ==
    LET below == {d \in DOMAIN rows : rows[d].parent = k.card} IN
    /\ k \in calls /\ k.op = "purge"
    /\ trash' = Without(trash, {k.card})
    /\ rows' = Without(Placed(below, Root, rows), {k.card})
    /\ purged' = purged \cup {k.card}
    /\ calls' = calls \ {k}
    /\ UNCHANGED live
    /\ Commit

-----------------------------------------------------------------------------
\* The process dies after the file and before the table.

Died == "crash" \in allow /\ calls' = {} /\ UNCHANGED <<rows, versions, purged, ops>>

CrashCreate(c, p) ==
    /\ Alone
    /\ c \in Unused
    /\ ValidParent(c, p, rows)
    /\ live' = With(live, At(c, p))
    /\ UNCHANGED trash
    /\ Died

CrashMove(c, p) ==
    /\ Alone
    /\ c \in Live(rows) /\ c \in DOMAIN live /\ ValidParent(c, p, rows)
    /\ live' = With(live, At(c, p))
    /\ UNCHANGED trash
    /\ Died

CrashPurge(k) ==
    /\ k \in calls /\ k.op = "purge"
    /\ trash' = Without(trash, {k.card})
    /\ UNCHANGED live
    /\ Died

Next ==
    \/ \E c \in Card, p \in Parent :
          Create(c, p) \/ Move(c, p) \/ MoveTo(c, p) \/ CrashCreate(c, p) \/ CrashMove(c, p)
    \/ \E c \in Card :
          TrashPromote(c) \/ TrashSubtree(c) \/ Restore(c) \/ BeginEdit(c) \/ BeginPurge(c)
    \/ \E v \in versions : RestoreVersion(v)
    \/ \E k \in calls : WriteEdit(k) \/ DropEdit(k) \/ HardDelete(k) \/ CrashPurge(k)
    \/ Repair \/ Rebuild \/ RebuildThrows

Spec == Init /\ [][Next /\ UNCHANGED allow]_vars
-----------------------------------------------------------------------------
\* Properties

\* README, "Card lifecycle": each operation updates card files and SQLite.  Unless
\* calls overlap or die, trashed cards are edited or parents purged, the table has
\* exactly the cards that have a file, where the file is, and under the parent the
\* file names; and the files can be loaded: a rebuild of the index, which a pull, an
\* import and the recovery of an interrupted change rely on, does not throw.
\* (Restored historical versions can put a cycle into the trash.)
Orderly == {"editTrashed", "purgeParents", "overlap", "crash"} \cap allow = {}
Mirrors ==
    Orderly => /\ live = LiveFiles(rows) /\ trash = TrashFiles(rows)
               /\ ~History => Loadable(live, trash)

\* Whatever races and crashes a project meets, every parent in the table has a row,
\* and the table has no cycle of parents that older versions or restored ones did
\* not put there: the walks of reachable_card_parent end for every card.
TableEnds ==
    \A c \in DOMAIN rows :
        /\ rows[c].parent \in DOMAIN rows \cup {Root}
        /\ "hidden" \notin allow /\ ~History => Ends(c, Up(rows))

\* holder.h, holder_card_purge: only a card that is in the trash is deleted for good.
PurgesOnlyTrashed ==
    [][\A c \in DOMAIN rows \ DOMAIN rows' : rows[c].trashed]_vars

\* Whatever cards an older version left hidden, no operation hides another one: a
\* live card that cannot be reached by browsing from the project's roots was live
\* and could not be reached before.  So a project without hidden cards has none.
NothingHidden ==
    [][Orderly => Live(rows') \ Open(rows') \subseteq Live(rows) \ Open(rows)]_vars

\* CardStore.h, repair_hierarchy: one repair makes every live card reachable that
\* is not on a cycle, and a second one finds nothing.
RepairSuffices ==
    LET new == Repaired(rows)
    IN  Heads(new) = {} /\ (Cycles(rows) = {} => Live(new) = Open(new))
=============================================================================
