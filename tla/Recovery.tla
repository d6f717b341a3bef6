------------------------------ MODULE Recovery ------------------------------
(***************************************************************************)
(* One encrypted project on the device that made it (Home) and on a device *)
(* that recovers it from a token (New): the project row, the key in the    *)
(* keyring, the manifest (.holder/project.json and .holder/privacy.json)   *)
(* and the cards in the work tree and in the commits, and the remote.      *)
(*                                                                         *)
(* A project has one key, so what matters of it is who has it.  A commit   *)
(* is known by its author and a number, and a history is the set of its    *)
(* commits.  A card is known by the device that wrote it.  Each device     *)
(* performs one call at a time, step by step; card changes and merges are  *)
(* one step here, since CardMutation and ProjectSync are about them.       *)
(***************************************************************************)
EXTENDS Naturals, Sequences, FiniteSets

CONSTANTS
    Home, New,
    Name,
    First,      \* the name the project is created with
    None,
    MaxCommits, \* commits of one device
    MaxCrashes, \* crashes of both devices together
    Scenarios

Device == {Home, New}

Circumstance ==
    {"crash",   \* a process dies inside a call
     "cut",     \* a first checkout dies or fails after the branch was set
     "early",   \* New commits before it has pulled for the first time
     "stale",   \* the token has another name than the one Home was told, or
                \* New changes the metadata or rebuilds its row too
     "rebuild"} \* the database is rebuilt from the manifests

VARIABLES
    row,    \* row[d]: None, or the key flag, name and remote of the project
    ring,   \* ring[d]: the keyring of d has the key
    origin, \* origin[d]: the repository of d has its remote
    work,   \* work[d]: manifest and cards in the work tree and the index
    head,   \* head[d]: the commits of the branch, and what the last one has
    base,   \* base[d]: what d and the remote last had in common
    hub,    \* the remote, in the shape of head[d]
    token,  \* None, or what the exported token says
    call,   \* call[d]: the call in progress on d and the steps it has left
    named,  \* the name that Home was last told, or "any"
    crashes,
    allow

vars == <<row, ring, origin, work, head, base, hub, token, call, named, crashes, allow>>

Empty == [meta |-> None, cards |-> {}]
NoHistory == [commits |-> {}, snap |-> Empty]
Idle == [op |-> "none", name |-> None, pulled |-> FALSE, todo |-> <<>>]

Init ==
    /\ allow \in Scenarios
    /\ row = [d \in Device |-> None]
    /\ ring = [d \in Device |-> FALSE]
    /\ origin = [d \in Device |-> FALSE]
    /\ work = [d \in Device |-> Empty]
    /\ head = [d \in Device |-> NoHistory]
    /\ base = [d \in Device |-> Empty]
    /\ hub = NoHistory
    /\ token = None
    /\ call = [d \in Device |-> Idle]
    /\ named = "any"
    /\ crashes = 0

At(d, step) == call[d].todo # <<>> /\ Head(call[d].todo) = step
Go(d) == call' = [call EXCEPT ![d].todo = Tail(@)]
Born(d) == head[d].commits # {}
Own(d) == {c \in head[d].commits : c[1] = d}

\* Commits are bounded: a call that commits begins only while one is left.
CanCommit(d) == Cardinality(Own(d)) < MaxCommits
May(d) == d = Home \/ Born(d) \/ "early" \in allow
Begin(d, op, name, steps) ==
    /\ call[d] = Idle
    /\ call' = [call EXCEPT ![d] = [op |-> op, name |-> name, pulled |-> FALSE, todo |-> steps]]
    /\ named' = IF d = Home /\ op \in {"create", "rename"} THEN "any" ELSE named
    /\ UNCHANGED <<row, ring, origin, work, head, base, hub, token, crashes, allow>>

-----------------------------------------------------------------------------
(* The calls. *)

Persist == <<"write", "commit">>

Create ==
    /\ row[Home] = None
    /\ Begin(Home, "create", First, <<"row", "ring", "key">> \o Persist)

Rename(d, n) ==
    /\ row[d] # None /\ row[d].keyed /\ May(d) /\ CanCommit(d)
    /\ d = Home /\ (token = None \/ "stale" \in allow)
    /\ Begin(d, "rename", n, <<"name">> \o Persist)

UpdateGitRemote(d) ==
    /\ d = Home \/ "stale" \in allow
    /\ row[d] # None /\ row[d].keyed /\ May(d) /\ CanCommit(d)
    /\ Begin(d, "remote", None, <<"url", "origin">> \o Persist)

\* A token without a remote leaves the new device a history of its own, which
\* this module leaves out: Home exports once it has its remote.
RecoveryTokenExport(d) ==
    /\ call[d] = Idle
    /\ row[d] # None /\ row[d].keyed /\ row[d].hub /\ ring[d]
    /\ row[d].name = named \/ "stale" \in allow
    /\ token' = [name |-> row[d].name]
    /\ UNCHANGED <<row, ring, origin, work, head, base, hub, call, named, crashes, allow>>

ImportToken == <<"ring", "key", "url">>

RecoveryTokenImport(d) ==
    /\ d = Home \/ {"stale", "early"} \cap allow # {}
    /\ token # None /\ row[d] # None /\ May(d) /\ CanCommit(d)
    /\ Begin(d, "import", None, ImportToken \o Persist)

RecoveryTokenImportGlobal(d) ==
    /\ token # None /\ CanCommit(d)
    /\ Begin(d, "recover", token.name,
             (IF row[d] = None THEN <<"row">> ELSE <<>>) \o ImportToken
             \o <<"origin", "pull", "persist">>)

-----------------------------------------------------------------------------
(* Their steps. *)

CreateRow(d) ==
    /\ At(d, "row")
    /\ row' = [row EXCEPT ![d] = [keyed |-> FALSE, name |-> call[d].name, hub |-> FALSE]]
    /\ Go(d)
    /\ UNCHANGED <<ring, origin, work, head, base, hub, token, named, crashes, allow>>

StoreKey(d) ==
    /\ At(d, "ring")
    /\ ring' = [ring EXCEPT ![d] = TRUE]
    /\ Go(d)
    /\ UNCHANGED <<row, origin, work, head, base, hub, token, named, crashes, allow>>

UpdateProjectKeyId(d) ==
    /\ At(d, "key")
    /\ row' = [row EXCEPT ![d].keyed = TRUE]
    /\ Go(d)
    /\ UNCHANGED <<ring, origin, work, head, base, hub, token, named, crashes, allow>>

UpdateName(d) ==
    /\ At(d, "name")
    /\ row' = [row EXCEPT ![d].name = call[d].name]
    /\ Go(d)
    /\ UNCHANGED <<ring, origin, work, head, base, hub, token, named, crashes, allow>>

UpdateUrl(d) ==
    /\ At(d, "url")
    /\ row' = [row EXCEPT ![d].hub = TRUE]
    /\ Go(d)
    /\ UNCHANGED <<ring, origin, work, head, base, hub, token, named, crashes, allow>>

SetRemote(d) ==
    /\ At(d, "origin")
    /\ origin' = [origin EXCEPT ![d] = TRUE]
    /\ Go(d)
    /\ UNCHANGED <<row, ring, work, head, base, hub, token, named, crashes, allow>>

\* Mutant: a manifest that exists is not written again.
WriteManifestOnce(d) ==
    /\ At(d, "write")
    /\ row[d].keyed /\ ring[d]
    /\ work' = IF work[d].meta # None THEN work
               ELSE [work EXCEPT ![d].meta = [name |-> row[d].name, hub |-> row[d].hub]]
    /\ Go(d)
    /\ UNCHANGED <<row, ring, origin, head, base, hub, token, named, crashes, allow>>

\* The manifest is rendered from the row and encrypted, which takes the key.
WriteManifest(d) ==
    /\ At(d, "write")
    /\ row[d].keyed /\ ring[d]
    /\ work' = [work EXCEPT ![d].meta = [name |-> row[d].name, hub |-> row[d].hub]]
    /\ Go(d)
    /\ UNCHANGED <<row, ring, origin, head, base, hub, token, named, crashes, allow>>

\* A commit has what the index has.
Committed(d, snap) ==
    [commits |-> head[d].commits \cup {<<d, Cardinality(Own(d)) + 1>>}, snap |-> snap]

\* The last step of a call, with what it tells the caller.
Commit(d) ==
    /\ At(d, "commit")
    /\ head' = [head EXCEPT ![d] = Committed(d, work[d])]
    /\ call' = [call EXCEPT ![d] = Idle]
    /\ named' = IF d = Home THEN row[d].name ELSE named
    /\ UNCHANGED <<row, ring, origin, work, base, hub, token, crashes, allow>>

\* Mutant: the metadata is committed whether or not the pull
\* succeeded.
PersistAlways(d) ==
    /\ At(d, "persist")
    /\ call' = [call EXCEPT ![d].todo = Persist]
    /\ UNCHANGED <<row, ring, origin, work, head, base, hub, token, named, crashes, allow>>

PersistIfPulled(d) ==
    /\ At(d, "persist")
    /\ call' = [call EXCEPT ![d] = IF call[d].pulled THEN [@ EXCEPT !.todo = Persist] ELSE Idle]
    /\ UNCHANGED <<row, ring, origin, work, head, base, hub, token, named, crashes, allow>>

-----------------------------------------------------------------------------
(* Pull and push. *)

Pulled(d) == call' = [call EXCEPT ![d] = IF @.op = "pull" THEN Idle
                                          ELSE [@ EXCEPT !.pulled = TRUE, !.todo = Tail(@)]]

GitPull(d) ==
    /\ origin[d]
    /\ Begin(d, "pull", None, <<"pull">>)

\* The network, or a history without a common commit.
PullFails(d) ==
    /\ At(d, "pull")
    /\ call' = [call EXCEPT ![d] = IF @.op = "pull" THEN Idle ELSE [@ EXCEPT !.todo = Tail(@)]]
    /\ UNCHANGED <<row, ring, origin, work, head, base, hub, token, named, crashes, allow>>

\* On a branch without a commit: the branch is set, then checked out.
PullBootstrap(d) ==
    /\ At(d, "pull")
    /\ ~Born(d) /\ hub.commits # {}
    /\ head' = [head EXCEPT ![d] = hub]
    /\ base' = [base EXCEPT ![d] = hub.snap]
    /\ call' = [call EXCEPT ![d].todo = <<"checkout">> \o Tail(@)]
    /\ UNCHANGED <<row, ring, origin, work, hub, token, named, crashes, allow>>

PullUpToDate(d) ==
    /\ At(d, "pull")
    /\ Born(d) /\ hub.commits # {} /\ hub.commits \subseteq head[d].commits
    /\ Pulled(d)
    /\ UNCHANGED <<row, ring, origin, work, head, base, hub, token, named, crashes, allow>>

\* A checkout keeps a manifest that was changed and not committed, and refuses
\* when the commit it goes to changes that file too.  It makes missing files.
Changed(d) == work[d].meta # head[d].snap.meta /\ work[d].meta # None
CanCheckout(d) == Changed(d) => hub.snap.meta = head[d].snap.meta
CheckedOut(d, snap) == [snap EXCEPT !.meta = IF Changed(d) THEN work[d].meta ELSE @]

CheckoutFirst(d) ==
    /\ At(d, "checkout")
    /\ work' = [work EXCEPT ![d] = hub.snap]
    /\ call' = [call EXCEPT ![d] = IF @.op = "pull" THEN Idle
                                    ELSE [@ EXCEPT !.pulled = TRUE, !.todo = Tail(@)]]
    /\ UNCHANGED <<row, ring, origin, head, base, hub, token, named, crashes, allow>>

CheckoutFirstFails(d) ==
    /\ "cut" \in allow
    /\ At(d, "checkout")
    /\ call' = [call EXCEPT ![d] = IF @.op = "pull" THEN Idle ELSE [@ EXCEPT !.todo = Tail(@)]]
    /\ UNCHANGED <<row, ring, origin, work, head, base, hub, token, named, crashes, allow>>

PullFastForward(d) ==
    /\ At(d, "pull")
    /\ Born(d) /\ head[d].commits \subseteq hub.commits /\ head[d].commits # hub.commits
    /\ CanCheckout(d)
    /\ work' = [work EXCEPT ![d] = CheckedOut(d, hub.snap)]
    /\ head' = [head EXCEPT ![d] = hub]
    /\ base' = [base EXCEPT ![d] = hub.snap]
    /\ Pulled(d)
    /\ UNCHANGED <<row, ring, origin, hub, token, named, crashes, allow>>

\* The remote is the baseline; what only this device changed is put back.
Merged(d) ==
    [meta |-> IF hub.snap.meta # base[d].meta THEN hub.snap.meta
                ELSE head[d].snap.meta,
     cards |-> hub.snap.cards \cup (head[d].snap.cards \ base[d].cards)]

PullMerge(d) ==
    /\ At(d, "pull")
    /\ ~(head[d].commits \subseteq hub.commits) /\ ~(hub.commits \subseteq head[d].commits)
    /\ head[d].commits \cap hub.commits # {}
    /\ CanCheckout(d)
    /\ CanCommit(d)
    /\ work' = [work EXCEPT ![d] = CheckedOut(d, Merged(d))]
    /\ head' = [head EXCEPT ![d] = [Committed(d, CheckedOut(d, Merged(d))) EXCEPT
                                      !.commits = @ \cup hub.commits]]
    /\ base' = [base EXCEPT ![d] = hub.snap]
    /\ Pulled(d)
    /\ UNCHANGED <<row, ring, origin, hub, token, named, crashes, allow>>

\* Mutant: the push replaces what the remote has.
GitPushForced(d) ==
    /\ call[d] = Idle /\ origin[d] /\ Born(d)
    /\ hub' = head[d]
    /\ base' = [base EXCEPT ![d] = head[d].snap]
    /\ UNCHANGED <<row, ring, origin, work, head, token, call, named, crashes, allow>>

GitPush(d) ==
    /\ call[d] = Idle /\ origin[d] /\ Born(d)
    /\ hub.commits \subseteq head[d].commits
    /\ hub' = head[d]
    /\ base' = [base EXCEPT ![d] = head[d].snap]
    /\ UNCHANGED <<row, ring, origin, work, head, token, call, named, crashes, allow>>

-----------------------------------------------------------------------------
(* Cards, crashes and rebuilds. *)

CardCreate(d) ==
    /\ call[d] = Idle
    /\ row[d] # None /\ row[d].keyed /\ ring[d] /\ May(d) /\ CanCommit(d)
    /\ d \notin work[d].cards
    /\ work' = [work EXCEPT ![d].cards = @ \cup {d}]
    /\ head' = [head EXCEPT ![d] = Committed(d, work'[d])]
    /\ UNCHANGED <<row, ring, origin, base, hub, token, call, named, crashes, allow>>

Crash(d) ==
    /\ "crash" \in allow
    /\ call[d] # Idle
    /\ ~At(d, "checkout") \/ "cut" \in allow
    /\ crashes < MaxCrashes
    /\ crashes' = crashes + 1
    /\ call' = [call EXCEPT ![d] = Idle]
    /\ UNCHANGED <<row, ring, origin, work, head, base, hub, token, named, allow>>

\* A rebuilt row is read from the manifest, which takes the key.
DatabaseRebuild(d) ==
    /\ "rebuild" \in allow /\ (d = Home \/ "stale" \in allow)
    /\ call[d] = Idle
    /\ work[d].meta # None /\ ring[d]
    /\ row' = [row EXCEPT ![d] = [keyed |-> TRUE, name |-> work[d].meta.name,
                                  hub |-> work[d].meta.hub]]
    /\ UNCHANGED <<ring, origin, work, head, base, hub, token, call, named, crashes, allow>>

Calls(d) == \/ \E n \in Name : Rename(d, n)
            \/ UpdateGitRemote(d) \/ RecoveryTokenExport(d) \/ RecoveryTokenImport(d)
            \/ RecoveryTokenImportGlobal(d) \/ GitPull(d) \/ GitPush(d) \/ CardCreate(d)
            \/ DatabaseRebuild(d) \/ Crash(d)
Steps(d) == \/ CreateRow(d) \/ StoreKey(d) \/ UpdateProjectKeyId(d) \/ UpdateName(d)
            \/ UpdateUrl(d) \/ SetRemote(d) \/ WriteManifest(d) \/ Commit(d)
            \/ PersistIfPulled(d)
            \/ PullFails(d) \/ PullBootstrap(d) \/ PullUpToDate(d) \/ PullFastForward(d)
            \/ PullMerge(d) \/ CheckoutFirst(d) \/ CheckoutFirstFails(d)

Next == Create \/ \E d \in Device : Calls(d) \/ Steps(d)

Spec == Init /\ [][Next]_vars

-----------------------------------------------------------------------------

\* A row never names a key that the keyring of its device does not have, at
\* whatever step of a creation or of a recovery the process died.  So what is
\* committed under the key can be read on every device whose row names it.
KeyFirst == \A d \in Device : row[d] # None /\ row[d].keyed => ring[d]

\* "A newly recovered repository must pull before its first local metadata
\* commit": the history of a device shares a commit with the remote, so that
\* a pull can merge the two.  It needs that nothing else is committed on the
\* new device before its first pull.
HistoriesRelated ==
    "early" \notin allow =>
        \A d \in Device : Born(d) /\ hub.commits # {} =>
            head[d].commits \cap hub.commits # {}

\* The name that the first device was told is the one that its manifest has
\* between calls, and so the one that a rebuilt database has, through pushes,
\* pulls and merges with a device that recovered the project, whose recovery
\* writes the manifest too.  It needs a token that is not older than the name,
\* that the other device writes the manifest in its recovery only and keeps
\* the row it got there, and that no first checkout was cut short.
RenameKept ==
    {"stale", "cut"} \cap allow = {} /\ named # "any" /\ call[Home] = Idle =>
        row[Home].name = named /\ work[Home].meta.name = named

\* The remote never loses a card, whatever the two devices recover, pull,
\* merge and push, but for a first checkout that was cut short: the commit
\* after that one has only what is written since.
KeepsCards == ("cut" \in allow) \/ hub.snap.cards \subseteq hub'.snap.cards
CardsKept == [][KeepsCards]_vars
=============================================================================
