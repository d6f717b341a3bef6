----------------------------- MODULE ProjectSync -----------------------------
(***************************************************************************)
(* Devices that share one project through a Git remote: run_project_sync,  *)
(* with the pull, the resolution of a diverged pull, the reconciliation of *)
(* the index, the repair of the hierarchy and the push that it runs.       *)
(*                                                                         *)
(* Every push is a fast-forward, so the remote branch is a sequence of     *)
(* trees.  A device's branch is a position in that sequence, the newest    *)
(* remote commit it contains, followed by commits of its own: the merge    *)
(* base of the two branches is always the tree at that position.  A sync   *)
(* holds the project lock of its device from the pull to the end of the    *)
(* push; the other devices go on.                                          *)
(*                                                                         *)
(* A card file is its parent and its body, the body standing for every-    *)
(* thing else the file holds.  The working tree is the tree of the branch  *)
(* tip: every operation of CardStore ends with a commit.                   *)
(***************************************************************************)
EXTENDS CardHierarchy, Naturals, Sequences, SequencesExt

CONSTANTS
    Device,
    Start,      \* the cards of the project at the beginning; the rest are ids for copies
    Body,       \* what a card file can say besides its parent
    Scenarios,  \* the sets of circumstances to consider together
    MaxEdits    \* bound on the changes users make

Circumstance ==
    {"trash",     \* users move cards to the trash
     "move",      \* users move cards in the hierarchy
     "byHand",    \* somebody pushes a commit that removes a card file
     "older",     \* an older version pushes a commit that trashes a card and not its children
     "scheduled", \* scheduled sync: it pushes even after a failed pull
     "pushOnly",  \* a push is requested without a pull
     "crash"}     \* a process dies between the merge and the reconciliation

ASSUME SyncAssumption ==
    Start \subseteq Card /\ Scenarios \subseteq SUBSET Circumstance /\ MaxEdits \in Nat

File == [parent : Parent, body : Body]

VARIABLES
    tree,    \* tree[d]: the card files of device d
    rows,    \* rows[d]: the cards table of device d
    remote,  \* the trees of the remote branch, oldest first
    base,    \* base[d]: the newest remote commit the branch of d contains
    ahead,   \* ahead[d]: the branch of d has commits of its own after that
    phase,   \* phase[d]: "idle", or how the pull of the running sync ended
    edits,   \* changes made by users
    allow    \* the circumstances of this behaviour, which never change

vars == <<tree, rows, remote, base, ahead, phase, edits, allow>>

Ups(files) == [c \in DOMAIN files |-> files[c].parent]
Loads(t) == Loadable(Ups(t.live), Ups(t.trash))
RowsOf(t) == Loaded(Ups(t.live), Ups(t.trash))
Mirrors(d) ==
    /\ Ups(tree[d].live) = LiveFiles(rows[d])
    /\ Ups(tree[d].trash) = TrashFiles(rows[d])

Init ==
    /\ \E up \in [Start -> Start \cup {Root}], b \in Body :
          remote = <<[live |-> [c \in Start |-> [parent |-> up[c], body |-> b]],
                      trash |-> [c \in {} |-> {}]]>>
    /\ Loads(remote[1])
    /\ tree = [d \in Device |-> remote[1]]
    /\ rows = [d \in Device |-> RowsOf(remote[1])]
    /\ base = [d \in Device |-> 1]
    /\ ahead = [d \in Device |-> FALSE]
    /\ phase = [d \in Device |-> "idle"]
    /\ edits = 0
    /\ allow \in Scenarios

-----------------------------------------------------------------------------
\* The operations of CardStore (module CardLifecycle), as far as they bear on
\* syncing: a change of some files and rows, and a commit.

UserChange(d, t, r) ==
    /\ phase[d] = "idle"
    /\ edits < MaxEdits /\ edits' = edits + 1
    /\ tree' = [tree EXCEPT ![d] = t]
    /\ rows' = [rows EXCEPT ![d] = r]
    /\ ahead' = [ahead EXCEPT ![d] = TRUE]
    /\ UNCHANGED <<remote, base, phase>>

\* apply_card_changes for the cards S: the files follow the rows, bodies stay
Rewritten(t, S, r) ==
    LET all == With(t.live, t.trash)
        file == [c \in S |-> [parent |-> r[c].parent, body |-> all[c].body]]
    IN  [live |-> With(Without(t.live, S), [c \in S \cap Live(r) |-> file[c]]),
         trash |-> With(Without(t.trash, S), [c \in S \cap Trashed(r) |-> file[c]])]

\* The files that apply_card_changes reads are there, those it creates are not
Present(t, S, r) ==
    \A c \in S : /\ c \in IF r[c].trashed THEN DOMAIN t.trash ELSE DOMAIN t.live
                 /\ c \notin DOMAIN t.live \cap DOMAIN t.trash

Change(d, S, r) ==
    /\ Present(tree[d], S, rows[d])
    /\ UserChange(d, Rewritten(tree[d], S, r), r)

Edit(d, c, b) ==
    LET t == tree[d] IN
    /\ c \in Live(rows[d])
    /\ c \in DOMAIN t.live /\ t.live[c].body # b
    /\ UserChange(d, [t EXCEPT !.live[c] = [parent |-> rows[d][c].parent, body |-> b]], rows[d])

Move(d, c, p) ==
    /\ "move" \in allow
    /\ c \in Live(rows[d]) /\ rows[d][c].parent # p /\ ValidParent(c, p, rows[d])
    /\ Change(d, {c}, Placed({c}, p, rows[d]))

Trash(d, c) ==
    LET r == Promoted(c, rows[d]) IN
    /\ "trash" \in allow
    /\ c \in Live(rows[d]) /\ Ends(c, Up(rows[d]))
    /\ Change(d, {c} \cup Children(c, rows[d]), [r EXCEPT ![c].trashed = TRUE])

\* A commit from outside the program that removes a card file
RemoveByHand(c) ==
    LET t == Last(remote) IN
    /\ "byHand" \in allow /\ edits < MaxEdits /\ edits' = edits + 1
    /\ c \in DOMAIN t.live
    /\ remote' = Append(remote, [t EXCEPT !.live = Without(t.live, {c})])
    /\ UNCHANGED <<tree, rows, base, ahead, phase>>

\* A commit of an older version: the card goes to the trash, its children stay
TrashByOlderVersion(c) ==
    LET t == Last(remote) IN
    /\ "older" \in allow /\ edits < MaxEdits /\ edits' = edits + 1
    /\ c \in DOMAIN t.live \ DOMAIN t.trash
    /\ remote' = Append(remote, [live |-> Without(t.live, {c}),
                                trash |-> With(t.trash, At(c, t.live[c]))])
    /\ UNCHANGED <<tree, rows, base, ahead, phase>>

-----------------------------------------------------------------------------
\* The paths of one directory that differ between two trees
Changed(f, g) ==
    {c \in DOMAIN f \cup DOMAIN g : IF c \in DOMAIN f \cap DOMAIN g THEN f[c] # g[c] ELSE TRUE}

\* Mutant: a conflicted path keeps the local file.
MergeOurs(from, mine, theirs) ==
    LET only == Changed(from, mine)
    IN  With(Without(theirs, only), [c \in only \cap DOMAIN mine |-> mine[c]])

\* The remote's files, with the changes that only this device made
Merge(from, mine, theirs) ==
    LET only == Changed(from, mine) \ Changed(from, theirs)
    IN  With(Without(theirs, only), [c \in only \cap DOMAIN mine |-> mine[c]])

Behind(d) == base[d] < Len(remote)
Diverged(d) == ahead[d] /\ Behind(d)

\* merge_remote_taking_theirs_for_conflicts
Merged(d) ==
    LET from == remote[base[d]]
        theirs == Last(remote)
    IN  [live |-> Merge(from.live, tree[d].live, theirs.live),
         trash |-> Merge(from.trash, tree[d].trash, theirs.trash)]

\* Mutant: files that the remote removed stay behind, as they did when the branch
\* was moved before the checkout.
FetchedStale(d) ==
    IF Diverged(d) THEN Merged(d)
    ELSE [live |-> With(tree[d].live, Last(remote).live),
          trash |-> With(tree[d].trash, Last(remote).trash)]

\* The working tree when pull_remote_ff_only, or the merge, is done
Fetched(d) ==
    IF Diverged(d) THEN Merged(d) ELSE IF Behind(d) THEN Last(remote) ELSE tree[d]

\* Local versions of the conflicted paths, one copy each if create accepts it
Conflicts(d) ==
    LET from == remote[base[d]]
        theirs == Last(remote)
        both(f, g, h) == Changed(f, g) \cap Changed(f, h) \cap DOMAIN g
    IN  {<<"live", c>> : c \in both(from.live, tree[d].live, theirs.live)} \cup
        {<<"trash", c>> : c \in both(from.trash, tree[d].trash, theirs.trash)}

LocalFile(d, k) == IF k[1] = "live" THEN tree[d].live[k[2]] ELSE tree[d].trash[k[2]]

Used == UNION {DOMAIN tree[d].live \cup DOMAIN tree[d].trash \cup DOMAIN rows[d] : d \in Device}
        \cup UNION {DOMAIN t.live \cup DOMAIN t.trash : t \in Range(remote)}

\* Ids for the copies: fresh ones, in place of generate_id
Names(d) ==
    LET K == Conflicts(d)
        ids == [K -> Card \ Used]
    IN  IF Diverged(d) THEN {f \in ids : IsInjective(f)} ELSE {[k \in {} |-> {}]}

\* Mutant: a copy that has a parent is refused, and skipped like any other that is.
CopiesOfRoots(d, name) == {k \in DOMAIN name : LocalFile(d, k).parent = Root}

\* resolve_pull_conflicts: the copies that CardStore::create accepts, judging by
\* the rows from before the pull
Copies(d, name) ==
    {k \in DOMAIN name : ValidParent(name[k], LocalFile(d, k).parent, rows[d])}

\* The working trees that the Git part of a pull and the copies can leave
Pulled(d) ==
    {LET K == Copies(d, name)
         copies == [c \in {name[k] : k \in K} |-> LocalFile(d, CHOOSE k \in K : name[k] = c)]
     IN  [Fetched(d) EXCEPT !.live = With(@, copies)] : name \in Names(d)}

\* The device's branch after the Git part of a pull
Advance(d, t, more) ==
    /\ tree' = [tree EXCEPT ![d] = t]
    /\ base' = [base EXCEPT ![d] = Len(remote)]
    /\ ahead' = [ahead EXCEPT ![d] = ahead[d] \/ more]
    /\ UNCHANGED <<remote, edits>>

\* Mutant: the index is only reconciled when the pull fast-forwarded.
PullReconcilesNothingMerged(d) ==
    /\ phase[d] = "idle"
    /\ \E t \in Pulled(d) :
          /\ rows' = IF Diverged(d) THEN rows ELSE [rows EXCEPT ![d] = RowsOf(t)]
          /\ Advance(d, t, FALSE)
          /\ phase' = [phase EXCEPT ![d] = "succeeded"]

\* The pull phase when the fetch works: the index is rebuilt and the hierarchy
\* repaired, or the files do not load and the table keeps what it had
Pull(d) ==
    /\ phase[d] = "idle"
    /\ \E t \in Pulled(d) :
          \/ /\ Loads(t)
             /\ \E r \in {RowsOf(t)} :
                   /\ rows' = [rows EXCEPT ![d] = Repaired(r)]
                   /\ Advance(d, Rewritten(t, Heads(r), Repaired(r)), Heads(r) # {})
             /\ phase' = [phase EXCEPT ![d] = "succeeded"]
          \/ /\ ~Loads(t)
             /\ rows' = [rows EXCEPT ![d] =
                    With(@, [c \in DOMAIN t.live \ Used |->
                               [parent |-> t.live[c].parent, trashed |-> FALSE]])]
             /\ Advance(d, t, FALSE)
             /\ phase' = [phase EXCEPT ![d] = "failed"]

\* The remote cannot be reached
PullFails(d) ==
    /\ phase[d] = "idle"
    /\ phase' = [phase EXCEPT ![d] = "failed"]
    /\ UNCHANGED <<tree, rows, remote, base, ahead, edits>>

\* The process dies when the branch has been moved
PullDies(d) ==
    /\ "crash" \in allow
    /\ phase[d] = "idle" /\ Behind(d)
    /\ Advance(d, Fetched(d), FALSE)
    /\ UNCHANGED <<rows, phase>>

\* Mutant: the outcome of the pull is not asked for.
MayPushAnyway(d) == phase[d] # "idle"

MayPush(d) ==
    \/ phase[d] = "succeeded"
    \/ phase[d] = "failed" /\ "scheduled" \in allow
    \/ phase[d] = "idle" /\ "pushOnly" \in allow

\* Mutant: the push is recorded as done although the remote did not take it.
PushRecorded(d) ==
    /\ MayPush(d) /\ ahead[d] /\ ~Behind(d)
    /\ base' = [base EXCEPT ![d] = Len(remote) + 1]
    /\ ahead' = [ahead EXCEPT ![d] = FALSE]
    /\ phase' = [phase EXCEPT ![d] = "idle"]
    /\ UNCHANGED <<tree, rows, remote, edits>>

Push(d) ==
    /\ MayPush(d) /\ ahead[d] /\ ~Behind(d)
    /\ remote' = Append(remote, tree[d])
    /\ base' = [base EXCEPT ![d] = Len(remote')]
    /\ ahead' = [ahead EXCEPT ![d] = FALSE]
    /\ phase' = [phase EXCEPT ![d] = "idle"]
    /\ UNCHANGED <<tree, rows, edits>>

\* No push was asked for, there was nothing to push, the remote had moved on or
\* could not be reached
EndSync(d) ==
    /\ phase[d] # "idle"
    /\ phase' = [phase EXCEPT ![d] = "idle"]
    /\ UNCHANGED <<tree, rows, remote, base, ahead, edits>>

Next ==
    \/ \E d \in Device, c \in Card :
          \/ \E b \in Body : Edit(d, c, b)
          \/ \E p \in Parent : Move(d, c, p)
          \/ Trash(d, c)
    \/ \E c \in Card : RemoveByHand(c) \/ TrashByOlderVersion(c)
    \/ \E d \in Device : Pull(d) \/ PullFails(d) \/ PullDies(d) \/ Push(d) \/ EndSync(d)

Spec == Init /\ [][Next /\ UNCHANGED allow]_vars

\* A host keeps syncing, and the remote can be reached again and again.
FairSpec ==
    /\ Spec
    /\ \A d \in Device : /\ WF_vars(EndSync(d) /\ UNCHANGED allow)
                         /\ SF_vars(Pull(d) /\ UNCHANGED allow)
                         /\ SF_vars(Push(d) /\ UNCHANGED allow)
-----------------------------------------------------------------------------
\* Properties

\* ProjectSyncOperation.h: a pull that is reported as successful has reconciled
\* the index, and every card it brought can be reached by browsing.
PullDelivers ==
    \A d \in Device :
        phase[d] = "succeeded" => Mirrors(d) /\ Live(rows[d]) = Open(rows[d])

\* A device that does not differ from the remote commit it has pulled or pushed
\* has that commit's files: a fast-forward or a push loses or invents nothing.
InStep == \A d \in Device : ~ahead[d] => tree[d] = remote[base[d]]

\* Nothing dies, nobody removes card files by hand, and no push runs unless the
\* pull before it succeeded
Orderly == {"byHand", "scheduled", "pushOnly", "crash"} \cap allow = {}

\* holder.h, holder_git_sync_now: a failed pull skips the push.  So a tree that
\* cannot be loaded is never spread to the other devices.
RemoteLoads == Orderly => \A i \in DOMAIN remote : Loads(remote[i])

\* PullConflictResolution.h: the pre-merge local version of each conflicted card
\* is kept as a copy, "nothing silently lost", as long as no process dies between
\* the merge and the copies.
LocalVersionsKept ==
    [][\A d \in Device :
          Orderly /\ Diverged(d) /\ base'[d] # base[d] =>
              \A b \in Body :
                  LET lost == {k \in Conflicts(d) : k[1] = "live" /\ LocalFile(d, k).body = b}
                      kept == {c \in DOMAIN tree'[d].live \ Used : tree'[d].live[c].body = b}
                  IN  Cardinality(lost) <= Cardinality(kept)]_vars

\* PullConflictResolution.h: the remote wins for any card touched on both sides.
\* The card is live or trashed as it is in the remote, and says what it says there
\* (the repair that follows may give it another parent).
RemoteWins ==
    [][\A d \in Device :
          Diverged(d) /\ base'[d] # base[d] =>
              LET from == remote[base[d]]
                  theirs == Last(remote)
                  touched(t) == Changed(from.live, t.live) \cup Changed(from.trash, t.trash)
              IN  \A c \in touched(tree[d]) \cap touched(theirs) :
                      /\ c \in DOMAIN tree'[d].live <=> c \in DOMAIN theirs.live
                      /\ c \in DOMAIN tree'[d].trash <=> c \in DOMAIN theirs.trash
                      /\ c \in DOMAIN theirs.live =>
                             tree'[d].live[c].body = theirs.live[c].body]_vars

\* ProjectSyncOperation.cpp, above repair_hierarchy_after_pull: whatever arrives,
\* a card whose parent is gone is made reachable again: no pull ends with a live
\* card below one that has no live file.
HiddenRepaired ==
    [][\A d \in Device :
          Orderly /\ base'[d] # base[d] /\ phase'[d] # "idle" =>
              LET up == Ups(tree'[d].live)
              IN  \A c \in DOMAIN up : up[c] \in DOMAIN up \cup {Root}]_vars

\* When users stop making changes, every device ends up with the same files, the
\* remote's, and an index that mirrors them.
Converges ==
    <>[](\A d \in Device : tree[d] = Last(remote) /\ Mirrors(d))
=============================================================================
