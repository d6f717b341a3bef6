------------------------------ MODULE Resources ------------------------------
(***************************************************************************)
(* Attachments of one project: resource and location manifests in the work *)
(* tree, the attachment links in a card's file, the rows that index them,  *)
(* and the objects that a storage provider holds.                          *)
(*                                                                         *)
(* A resource is the sequence of its assets, oldest first.  An import      *)
(* makes a resource with one asset that has a placement; the object of     *)
(* that placement is named after the resource here, since asset ids and    *)
(* resource ids are drawn together.  Further assets are described by the   *)
(* callers and have no placement.  A content stands for the bytes of a     *)
(* file and their hash; AssetEnvelope is about how they are stored.        *)
(*                                                                         *)
(* A call makes its checks, takes the lock of the repository, and performs *)
(* the rest of its steps under it.  The lock itself is RepoLocks' subject. *)
(***************************************************************************)
EXTENDS Naturals, Sequences, FiniteSets, SequencesExt

CONSTANTS
    Resource,
    Content,
    Location,
    Caller,
    None,      \* no resource, no object, no location, nobody
    Scenarios  \* sets of circumstances, one of which holds in a behaviour

Circumstance ==
    {"overlap",  \* a call begins while another is in progress
     "edit",     \* callers put bundles that they read, or without an asset
     "describe", \* callers add assets that they describe
     "trash",    \* the card is trashed and restored
     "rebuild",  \* the rows are rebuilt from the files
     "fail",     \* a write, a commit or the provider fails
     "failRows", \* a transaction fails after the commit
     "crash"}    \* the process dies inside a call

VARIABLES
    rows,  \* what SQLite lists: res[r], loc, and the card's link rows
    work,  \* what the files say, in the same shape
    store, \* store[r]: the content of the object of r
    card,  \* "live" or "trash"
    lock,
    call,  \* call[a]: what a has asked for and the steps it has left
    torn,  \* "torn": a call ended in an error or a crash after its first
           \* write; "rebuilt": and the rows have been rebuilt since
    told,  \* <<r, c>>: a caller was told that its file c is resource r
    allow

vars == <<rows, work, store, card, lock, call, torn, told, allow>>

Asset == [of : Content, at : Location \cup {None}]
Bundles == UNION {[1..n -> Asset] : n \in 0..2}
Project == [res : [Resource -> Bundles \cup {None}], loc : SUBSET Location,
            link : SUBSET Resource]

Idle == [op |-> "none", res |-> None, of |-> None, at |-> None,
         bundle |-> None, links |-> {}, dirty |-> FALSE, todo |-> <<>>]
Asked(op) == [Idle EXCEPT !.op = op, !.todo = <<"lock">>]
Next1(a) == Head(call[a].todo)

Init ==
    /\ allow \in Scenarios
    /\ rows = [res |-> [r \in Resource |-> None], loc |-> {}, link |-> {}]
    /\ work = rows
    /\ store = [r \in Resource |-> None]
    /\ card = "live"
    /\ lock = None
    /\ call = [a \in Caller |-> Idle]
    /\ torn = "whole"
    /\ told = {}

Listed(p) == {r \in Resource : p.res[r] # None}
Placements(p) == UNION {{p.res[r][i].at : i \in DOMAIN p.res[r]} : r \in Listed(p)} \ {None}
Loadable == Placements(work) \subseteq work.loc

-----------------------------------------------------------------------------
(* What a call checks and reads before it takes the lock. *)

CanCall(a) ==
    /\ call[a] = Idle
    /\ "overlap" \in allow \/ \A b \in Caller : call[b] = Idle

Ask(a, what) ==
    /\ CanCall(a)
    /\ call' = [call EXCEPT ![a] = what]
    /\ UNCHANGED <<rows, work, store, card, lock, torn, told, allow>>

\* The ids that are still unused.  There are as many imports as ids: an import
\* begins only when one is left for it.
Fresh == {r \in Resource : /\ work.res[r] = None /\ rows.res[r] = None
                           /\ store[r] = None
                           /\ \A b \in Caller : call[b].res # r
                           /\ \A t \in told : t[1] # r}

ImportFile(a, c, l) ==
    /\ Cardinality(Fresh) > Cardinality({b \in Caller : call[b].op = "import"})
    /\ card = "live"
    /\ l \in rows.loc
    /\ Ask(a, [Asked("import") EXCEPT !.of = c, !.at = l])

PutBundle(a, r, bundle) == Ask(a, [Asked("put") EXCEPT !.res = r, !.bundle = bundle])

\* The caller's bundle is one that it read before, and changed in what is not
\* modelled.
ResourcePut(a, r) ==
    /\ "edit" \in allow
    /\ r \in Listed(rows)
    /\ PutBundle(a, r, rows.res[r])

AssetPut(a, r, c) ==
    /\ "describe" \in allow
    /\ r \in Listed(rows)
    /\ Len(rows.res[r]) < 2
    /\ PutBundle(a, r, Append(rows.res[r], [of |-> c, at |-> None]))

AssetDelete(a, r, i) ==
    /\ "edit" \in allow
    /\ r \in Listed(rows)
    /\ i \in DOMAIN rows.res[r]
    /\ PutBundle(a, r, RemoveAt(rows.res[r], i))

ResourceRemove(a, r) ==
    /\ r \in Listed(rows)
    /\ Ask(a, [Asked("remove") EXCEPT !.res = r])

LocationPut(a, l) == Ask(a, [Asked("putLocation") EXCEPT !.at = l])

LocationRemove(a, l) ==
    /\ l \in rows.loc
    /\ l \notin Placements(rows)
    /\ Ask(a, [Asked("removeLocation") EXCEPT !.at = l])

-----------------------------------------------------------------------------
(* Under the lock: what the call reads decides the steps that it has left. *)

Return(a) ==
    /\ call' = [call EXCEPT ![a] = Idle]
    /\ lock' = None

\* find_by_asset_hash: a bundle any of whose assets has the hash.
Duplicates(c) == {r \in Listed(rows) : \E i \in DOMAIN rows.res[r] : rows.res[r][i].of = c}

\* The links are rendered from the rows, the rest of the card from its file.
PlanDuplicate(p, r) ==
    [p EXCEPT !.res = r, !.links = rows.link \cup {r},
              !.todo = IF r \in rows.link THEN <<"rows">> ELSE <<"link", "commit", "rows">>]

\* Mutant: the object is stored once everything else is done.
PlanNewLate(p, r) ==
    [p EXCEPT !.res = r, !.links = rows.link \cup {r},
              !.bundle = <<[of |-> p.of, at |-> p.at]>>,
              !.todo = <<"manifest", "link", "commit", "object", "rows">>]

PlanNew(p, r) ==
    [p EXCEPT !.res = r, !.links = rows.link \cup {r},
              !.bundle = <<[of |-> p.of, at |-> p.at]>>,
              !.todo = <<"object", "manifest", "link", "commit", "rows">>]

Import(a, p) ==
    \/ /\ card = "live"
       /\ \/ \E r \in Duplicates(p.of) : call' = [call EXCEPT ![a] = PlanDuplicate(p, r)]
          \/ /\ Duplicates(p.of) = {}
             /\ \E r \in Fresh : call' = [call EXCEPT ![a] = PlanNew(p, r)]
       /\ lock' = a
    \/ /\ card = "trash" \* its file is not where the row said
       /\ Return(a)

\* Mutant: the cards that link to the resource are left alone.
PlanRemoveOnly(p) == [p EXCEPT !.todo = <<"manifest", "commit", "rows">>]

\* A trashed card keeps its link.
PlanRemove(p) ==
    [p EXCEPT !.links = work.link \ {p.res},
              !.todo = IF p.res \in rows.link /\ card = "live"
                       THEN <<"link", "manifest", "commit", "rows">>
                       ELSE <<"manifest", "commit", "rows">>]

Plan(p) ==
    CASE p.op = "remove" -> PlanRemove(p)
      [] p.op = "put" -> [p EXCEPT !.todo = <<"manifest", "commit", "rows">>]
      [] OTHER -> [p EXCEPT !.todo = <<"location", "commit", "rows">>]

TakeLock(a) ==
    LET p == call[a] IN
    /\ p.todo = <<"lock">>
    /\ lock = None
    /\ \/ /\ p.op = "import"
          /\ Import(a, p)
       \/ /\ p.op # "import"
          /\ call' = [call EXCEPT ![a] = Plan(p)]
          /\ lock' = a
    /\ UNCHANGED <<rows, work, store, card, torn, told, allow>>

-----------------------------------------------------------------------------
(* The steps. *)

Step(a, step) ==
    /\ call[a].todo # <<>>
    /\ Next1(a) = step

Done(a, wrote) ==
    call' = [call EXCEPT ![a].todo = Tail(@), ![a].dirty = @ \/ wrote]

\* StorageProvider::put, and exists
StoreObject(a) ==
    /\ Step(a, "object")
    /\ store' = [store EXCEPT ![call[a].res] = call[a].of]
    /\ Done(a, FALSE)
    /\ UNCHANGED <<rows, work, card, lock, torn, told, allow>>

Write(a, step, files) ==
    /\ Step(a, step)
    /\ work' = files
    /\ Done(a, TRUE)
    /\ UNCHANGED <<rows, store, card, lock, torn, told, allow>>

WriteManifest(a) ==
    Write(a, "manifest", [work EXCEPT !.res[call[a].res] = call[a].bundle])

WriteLink(a) ==
    Write(a, "link", [work EXCEPT !.link = call[a].links])

WriteLocation(a) ==
    Write(a, "location",
          [work EXCEPT !.loc = IF call[a].op = "putLocation" THEN @ \cup {call[a].at}
                                                             ELSE @ \ {call[a].at}])

Commit(a) ==
    /\ Step(a, "commit")
    /\ Done(a, TRUE)
    /\ UNCHANGED <<rows, work, store, card, lock, torn, told, allow>>

\* The rows that the call's transaction leaves.
RowsAfter(p) ==
    CASE p.op = "import" -> [rows EXCEPT !.res[p.res] = IF p.bundle = None THEN @ ELSE p.bundle,
                                         !.link = p.links]
      [] p.op = "put" -> [rows EXCEPT !.res[p.res] = p.bundle]
      [] p.op = "remove" -> [rows EXCEPT !.res[p.res] = None, !.link = @ \ {p.res}]
      [] p.op = "putLocation" -> [rows EXCEPT !.loc = @ \cup {p.at}]
      [] OTHER -> [rows EXCEPT !.loc = @ \ {p.at}]

\* The foreign key of asset_placements.
Referential(p) == Placements(p) \subseteq p.loc

Tell(p) == told' = IF p.op = "import" THEN told \cup {<<p.res, p.of>>} ELSE told

UpdateRows(a) ==
    /\ Step(a, "rows")
    /\ Referential(RowsAfter(call[a]))
    /\ rows' = RowsAfter(call[a])
    /\ Tell(call[a])
    /\ Return(a)
    /\ UNCHANGED <<work, store, card, torn, allow>>

Rebuilt == IF torn = "torn" THEN "rebuilt" ELSE torn
TornBy(a) == IF call[a].dirty THEN "torn" ELSE torn

\* The transaction fails after the commit: the rows are rebuilt from the files.
RebuildRows(a) ==
    /\ Step(a, "rows")
    /\ call[a].dirty
    /\ ~Referential(RowsAfter(call[a])) \/ "failRows" \in allow
    /\ \/ /\ Loadable
          /\ rows' = work
          /\ torn' = Rebuilt
          /\ Tell(call[a])
       \/ /\ ~Loadable
          /\ torn' = "torn"
          /\ UNCHANGED <<rows, told>>
    /\ Return(a)
    /\ UNCHANGED <<work, store, card, allow>>

\* The catch block of import_file removes the object unless it is committed, if
\* the provider lets it; nothing undoes what was written and staged.
Fail(a) ==
    /\ "fail" \in allow
    /\ lock = a
    /\ Next1(a) # "rows"
    /\ \E left \in BOOLEAN :
          store' = IF call[a].op = "import" /\ call[a].bundle # None /\ ~left
                   THEN [store EXCEPT ![call[a].res] = None] ELSE store
    /\ torn' = TornBy(a)
    /\ Return(a)
    /\ UNCHANGED <<rows, work, card, told, allow>>

-----------------------------------------------------------------------------
(* The rest of the world. *)

Crash ==
    /\ "crash" \in allow
    /\ lock # None
    /\ torn' = TornBy(lock)
    /\ call' = [a \in Caller |-> Idle]
    /\ lock' = None
    /\ UNCHANGED <<rows, work, store, card, told, allow>>

\* Rebuilder::rebuild_project
Rebuild ==
    /\ "rebuild" \in allow
    /\ lock = None
    /\ Loadable
    /\ rows' = work
    /\ torn' = Rebuilt
    /\ UNCHANGED <<work, store, card, lock, call, told, allow>>

MoveCard ==
    /\ "trash" \in allow
    /\ lock = None
    /\ card' = IF card = "live" THEN "trash" ELSE "live"
    /\ UNCHANGED <<rows, work, store, lock, call, torn, told, allow>>

Calls(a) ==
    \/ \E c \in Content, l \in Location : ImportFile(a, c, l)
    \/ \E r \in Resource : ResourcePut(a, r) \/ ResourceRemove(a, r)
    \/ \E r \in Resource, c \in Content : AssetPut(a, r, c)
    \/ \E r \in Resource, i \in 1..2 : AssetDelete(a, r, i)
    \/ \E l \in Location : LocationPut(a, l) \/ LocationRemove(a, l)

Steps(a) ==
    \/ TakeLock(a) \/ StoreObject(a) \/ WriteManifest(a) \/ WriteLink(a)
    \/ WriteLocation(a) \/ Commit(a) \/ UpdateRows(a) \/ RebuildRows(a) \/ Fail(a)

Next ==
    \/ \E a \in Caller : Calls(a) \/ Steps(a)
    \/ Crash
    \/ Rebuild
    \/ MoveCard

Spec == Init /\ [][Next]_vars

-----------------------------------------------------------------------------

\* What holder_asset_import_file says of a file that it reports as imported: the
\* storage provider has the bytes under the resource that it reports.
ImportStored == \A t \in told : store[t[1]] = t[2]

\* A file whose import was reported stays retrievable, whichever calls overlap
\* and wherever the process dies: the object is stored before any file names it,
\* and is removed only for a call that fails and is not committed.  Two
\* circumstances are left out: described assets, whose hash also counts as a
\* duplicate, and a rebuild of the rows after a failed call, which takes up the
\* manifest that the call left behind.
AcknowledgedStored ==
    (/\ "describe" \notin allow
     /\ "fail" \in allow => allow \cap {"rebuild", "failRows"} = {}) => ImportStored

\* As long as every call returned success, or the rows were rebuilt since, the
\* rows say what the files say and every placement has its location, although
\* locations are checked before the lock is taken.  And as long as every call
\* returned success, a link of the card leads to a resource.  (A trashed card
\* keeps its link to a resource that is removed, and its link row is gone.)
SuccessConsistent ==
    lock = None /\ torn # "torn" =>
        /\ rows.res = work.res /\ rows.loc = work.loc
        /\ Loadable
        /\ "trash" \notin allow =>
              /\ rows.link = work.link
              /\ torn = "whole" => work.link \subseteq Listed(work)
=============================================================================
