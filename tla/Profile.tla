------------------------------- MODULE Profile -------------------------------
(***************************************************************************)
(* One data directory: the SQLite file, the project directories, the       *)
(* marker that says the directories own everything the file lists, and the *)
(* replacement of the file by one that is rebuilt from the directories.    *)
(*                                                                         *)
(* A project stands for its id, its directory and its one card.  The       *)
(* projects of "External" have a directory that the caller chose, outside  *)
(* data_dir/projects; a new managed project gets a directory that does not *)
(* exist yet (unique_project_root).  A database is the projects and the    *)
(* cards that it lists.  A card is a row and a file here; the two are what *)
(* CardMutation and CardLifecycle are about.                               *)
(*                                                                         *)
(* One process at a time uses the directory.  A call is a sequence of      *)
(* steps and the process can die between any two of them.                  *)
(***************************************************************************)
EXTENDS Naturals, FiniteSets

CONSTANTS
    Project,
    External,   \* the projects whose directories the callers choose
    Missing,    \* there is no database file
    Corrupt,    \* the database file fails quick_check
    Unfinished, \* a temporary database that is still being filled
    Scenarios,  \* sets of circumstances, one of which holds in a behaviour
    MaxFaults   \* bound on the events that are not calls

Circumstance ==
    {"damage",   \* the database file is corrupted or lost
     "upgrade",  \* a build with a newer schema is installed
     "delete",   \* projects are deleted
     "external", \* callers choose directories
     "byHand",   \* a card file is removed by hand
     "threads",  \* AI threads are recorded, which only SQLite holds
     "recover",  \* projects are recovered from a token
     "fail",     \* writes fail
     "crash"}    \* the process dies inside a call

\* What a readable database lists
Lists == [projects : SUBSET Project, cards : SUBSET Project]

ASSUME ProfileAssumption ==
    /\ External \subseteq Project /\ MaxFaults \in Nat
    /\ Scenarios \subseteq SUBSET Circumstance
    /\ Missing # Corrupt /\ Missing # Unfinished /\ Corrupt # Unfinished
    /\ {Missing, Corrupt, Unfinished} \cap Lists = {}

VARIABLES
    db,     \* Missing, Corrupt or what the database lists
    stale,  \* its schema is older than the build's
    root,   \* root[p]: how far the directory of p has come
    files,  \* the projects whose card file exists
    loose,  \* the projects with a row that has no durable file
    marker, \* database-rebuild-ready.json says that directories own every row
    temp,   \* holder.db.rebuild.tmp
    kept,   \* what database-backups holds
    logged, \* the cards in quarantined-cards.json
    call,   \* the call in progress
    made,   \* projects a caller was told of and that nobody deleted
    faults,
    allow   \* the circumstances of this behaviour

vars == <<db, stale, root, files, loose, marker, temp, kept, logged, call,
          made, faults, allow>>

Nothing == [projects |-> {}, cards |-> {}]
Readable == db \notin {Missing, Corrupt}

\* Mutant: a directory is taken for a project only when it has cards.
ManagedRootsWithCards == {p \in Project \ External : root[p] = "manifest" /\ p \in files}

\* discover_managed_project_roots
ManagedRoots == {p \in Project \ External : root[p] = "manifest"}

\* inspect_database_health
Health == IF db = Missing THEN "missing" ELSE IF db = Corrupt THEN "corrupt" ELSE "healthy"

\* No context is open; a context is open and no call is in progress.  A call has
\* what it runs for, the health it found, where its audit leads, the projects it
\* is at work on and what the database listed before.
Closed == [pc |-> "closed", for |-> "none", was |-> "none", then |-> "none",
           who |-> {}, old |-> Nothing]
Opened == [Closed EXCEPT !.pc = "open"]

At(pc) == call.pc = pc
Go(pc) == call' = [call EXCEPT !.pc = pc]
Throw == call' = Closed

Init ==
    /\ db = Missing /\ stale = FALSE
    /\ root = [p \in Project |-> "none"]
    /\ files = {} /\ loose = {} /\ marker = FALSE
    /\ temp = Missing /\ kept = {} /\ logged = {}
    /\ call = Closed /\ made = {} /\ faults = 0
    /\ allow \in Scenarios

Durable == <<root, files>>
Aside == <<temp, kept>>
Ghost == <<made, faults, allow>>

-----------------------------------------------------------------------------
\* holder_context_open and holder_database_rebuild

NeedsRebuild ==
    \/ db = Corrupt
    \/ db = Missing /\ ManagedRoots # {}
    \/ Readable /\ stale

ContextOpen ==
    /\ At("closed")
    /\ call' = [Closed EXCEPT !.pc = IF NeedsRebuild THEN "check" ELSE "attach",
                              !.for = "open", !.was = Health]
    /\ UNCHANGED <<db, stale, Durable, loose, marker, Aside, logged, Ghost>>

DatabaseRebuild(mode) ==
    /\ At("closed")
    /\ call' = [Closed EXCEPT !.pc = "check", !.for = mode, !.was = Health]
    /\ UNCHANGED <<db, stale, Durable, loose, marker, Aside, logged, Ghost>>

\* A database that cannot be read is replaced only if the marker says so.  One
\* that can be read is audited first.
CheckReadiness ==
    /\ At("check")
    /\ IF call.was # "healthy" /\ ~marker /\ (call.was = "corrupt" \/ ManagedRoots # {})
       THEN Throw
       ELSE call' = [call EXCEPT !.pc = IF call.was = "healthy" THEN "audit" ELSE "build",
                                 !.then = "count"]
    /\ UNCHANGED <<db, stale, Durable, loose, marker, Aside, logged, Ghost>>

\* A failed audit ends a rebuild.  After an open it ends the call, too, unless
\* the database was healthy: then the context opens and the marker stays as it is.
AuditThrows == call' = IF call.then = "ready" /\ call.was = "healthy" THEN Opened ELSE Closed

\* audit_core_durable_ownership: every project has its metadata files; the rows
\* of cards without a file go one by one; then they are logged; then no row of
\* another kind may be without its file.
AuditProjects ==
    /\ At("audit") /\ \E p \in db.projects : root[p] # "manifest"
    /\ AuditThrows
    /\ UNCHANGED <<db, stale, Durable, loose, marker, Aside, logged, Ghost>>

QuarantineCard(p) ==
    /\ At("audit") /\ \A q \in db.projects : root[q] = "manifest"
    /\ p \in db.cards \ files
    /\ db' = [db EXCEPT !.cards = @ \ {p}]
    /\ call' = [call EXCEPT !.who = @ \cup {p}]
    /\ UNCHANGED <<stale, Durable, loose, marker, Aside, logged, Ghost>>

\* Mutant: the projects' metadata files are not looked for.
AuditRestOnly ==
    /\ At("audit") /\ db.cards \subseteq files
    /\ logged' = logged \cup call.who
    /\ IF loose \cap db.projects # {} THEN AuditThrows ELSE Go(call.then)
    /\ UNCHANGED <<db, stale, Durable, loose, marker, Aside, Ghost>>

AuditRest ==
    /\ At("audit") /\ \A q \in db.projects : root[q] = "manifest"
    /\ db.cards \subseteq files
    /\ logged' = logged \cup call.who
    /\ IF loose \cap db.projects # {} THEN AuditThrows ELSE Go(call.then)
    /\ UNCHANGED <<db, stale, Durable, loose, marker, Aside, Ghost>>

CountOld ==
    /\ At("count")
    /\ call' = [call EXCEPT !.pc = "build", !.old = db]
    /\ UNCHANGED <<db, stale, Durable, loose, marker, Aside, logged, Ghost>>

\* A temporary database that an earlier rebuild left behind stops this one.
BeginTemporary ==
    /\ At("build")
    /\ IF temp = Missing THEN temp' = Unfinished /\ Go("fill") ELSE Throw /\ UNCHANGED temp
    /\ UNCHANGED <<db, stale, Durable, loose, marker, kept, logged, Ghost>>

\* recover_project_roots in strict mode: every managed directory, with its card
Recovered == [projects |-> ManagedRoots, cards |-> ManagedRoots \cap files]

\* durable_counts
SameCounts(a, b) ==
    /\ Cardinality(a.projects) = Cardinality(b.projects)
    /\ Cardinality(a.cards) = Cardinality(b.cards)

\* Mutant: the numbers are compared with those of a database that cannot be read.
FillTemporaryCounted ==
    /\ At("fill")
    /\ IF ~SameCounts(call.old, Recovered)
       THEN temp' = Missing /\ Throw
       ELSE temp' = Recovered /\ Go(IF call.for = "dry" THEN "discard" ELSE "move")
    /\ UNCHANGED <<db, stale, Durable, loose, marker, kept, logged, Ghost>>

FillTemporary ==
    /\ At("fill")
    /\ IF call.was = "healthy" /\ ~SameCounts(call.old, Recovered)
       THEN temp' = Missing /\ Throw
       ELSE temp' = Recovered /\ Go(IF call.for = "dry" THEN "discard" ELSE "move")
    /\ UNCHANGED <<db, stale, Durable, loose, marker, kept, logged, Ghost>>

DiscardTemporary ==
    /\ At("discard")
    /\ temp' = Missing /\ Throw
    /\ UNCHANGED <<db, stale, Durable, loose, marker, kept, logged, Ghost>>

\* Mutant: the old database is removed.
MoveOldRemoved ==
    /\ At("move")
    /\ db' = Missing /\ Go("swap")
    /\ UNCHANGED <<stale, Durable, loose, marker, Aside, logged, Ghost>>

MoveOld ==
    /\ At("move")
    /\ kept' = IF db = Missing THEN kept ELSE kept \cup {db}
    /\ db' = Missing /\ Go("swap")
    /\ UNCHANGED <<stale, Durable, loose, marker, temp, logged, Ghost>>

SwapIn ==
    /\ At("swap")
    /\ db' = temp /\ temp' = Missing /\ stale' = FALSE /\ loose' = {}
    /\ Go("mark")
    /\ UNCHANGED <<Durable, marker, kept, logged, Ghost>>

\* The rename, the flush of the directory or the last health check fails: the
\* backup comes back if it was healthy.
SwapFails(renamed) ==
    /\ At("swap") /\ "fail" \in allow
    /\ temp' = IF renamed THEN Missing ELSE temp
    /\ IF call.was = "healthy"
       THEN db' = call.old /\ kept' = kept \ {call.old}
       ELSE UNCHANGED <<db, kept>>
    /\ Throw
    /\ UNCHANGED <<stale, Durable, loose, marker, logged, Ghost>>

MarkRebuilt ==
    /\ At("mark")
    /\ marker' = TRUE
    /\ IF call.for = "open" THEN Go("attach") ELSE Throw
    /\ UNCHANGED <<db, stale, Durable, loose, Aside, logged, Ghost>>

\* Db::open creates the file, the schema its tables
Attach ==
    /\ At("attach")
    /\ IF db = Missing THEN db' = Nothing /\ stale' = FALSE ELSE UNCHANGED <<db, stale>>
    /\ Go("survey")
    /\ UNCHANGED <<Durable, loose, marker, Aside, logged, Ghost>>

\* There are as many projects as managed directories.
Survey ==
    /\ At("survey")
    /\ IF Cardinality(db.projects) = Cardinality(ManagedRoots)
       THEN call' = [call EXCEPT !.pc = "audit", !.then = "ready"]
       ELSE call' = IF call.was = "healthy" THEN Opened ELSE Closed
    /\ UNCHANGED <<db, stale, Durable, loose, marker, Aside, logged, Ghost>>

MarkReady ==
    /\ At("ready")
    /\ marker' = TRUE /\ call' = Opened
    /\ UNCHANGED <<db, stale, Durable, loose, Aside, logged, Ghost>>

ContextDestroy ==
    /\ At("open")
    /\ call' = Closed
    /\ UNCHANGED <<db, stale, Durable, loose, marker, Aside, logged, Ghost>>

-----------------------------------------------------------------------------
\* ProjectStore::create, and the three calls that begin with it

CreateRow(p, for) ==
    /\ At("open") /\ root[p] = "none" /\ p \notin db.projects
    /\ p \in External => for = "create" /\ "external" \in allow
    /\ for = "default" => db.projects = {}
    /\ db' = [db EXCEPT !.projects = @ \cup {p}]
    /\ call' = [Closed EXCEPT !.pc = "init", !.for = for, !.who = {p}]
    /\ UNCHANGED <<stale, Durable, loose, marker, Aside, logged, Ghost>>

Told == made' = made \cup call.who /\ call' = Opened
Step(from, to) ==
    /\ At(from) /\ Go(to)
    /\ root' = [p \in Project |-> IF p \in call.who THEN to ELSE root[p]]
    /\ UNCHANGED <<db, stale, files, loose, marker, Aside, logged, Ghost>>

\* open_or_init; write_project_manifest writes the bootstrap file first
InitRepository == Step("init", "repository")
WriteBootstrap == Step("repository", "bootstrap")
WriteManifest == Step("bootstrap", "manifest")

CommitMetadata ==
    /\ At("manifest")
    /\ IF call.for # "create" THEN Go("cards") /\ UNCHANGED made
       ELSE IF call.who \subseteq External THEN Go("unmark") /\ UNCHANGED made ELSE Told
    /\ UNCHANGED <<db, stale, Durable, loose, marker, Aside, logged, faults, allow>>

\* A caller's directory is not found again: the marker goes.
RemoveMarker ==
    /\ At("unmark")
    /\ marker' = FALSE /\ Told
    /\ UNCHANGED <<db, stale, Durable, loose, Aside, logged, faults, allow>>

\* A failure removes the row; the directory stays.
CreateFails ==
    /\ call.pc \in {"init", "repository", "bootstrap", "manifest"} /\ "fail" \in allow
    /\ db' = [db EXCEPT !.projects = @ \ call.who]
    /\ call' = Opened
    /\ UNCHANGED <<stale, Durable, loose, marker, Aside, logged, Ghost>>

\* create_batch of a restore, the welcome card of the default project
CreateCards ==
    /\ At("cards")
    /\ db' = [db EXCEPT !.cards = @ \cup call.who]
    /\ files' = files \cup call.who
    /\ Told
    /\ UNCHANGED <<stale, root, loose, marker, Aside, logged, faults, allow>>

CardsFail ==
    /\ At("cards") /\ "fail" \in allow
    /\ db' = IF call.for = "restore" THEN [db EXCEPT !.projects = @ \ call.who] ELSE db
    /\ call' = Opened
    /\ UNCHANGED <<stale, Durable, loose, marker, Aside, logged, Ghost>>

-----------------------------------------------------------------------------
\* The other calls that change which projects there are

\* The row goes, with what depends on it; the directory stays.
ProjectDelete(p) ==
    /\ At("open") /\ p \in db.projects /\ "delete" \in allow
    /\ db' = [projects |-> db.projects \ {p}, cards |-> db.cards \ {p}]
    /\ loose' = loose \ {p} /\ made' = made \ {p}
    /\ UNCHANGED <<stale, Durable, marker, Aside, logged, call, faults, allow>>

\* import_project_into_empty_database, in one transaction
ProjectImport(p) ==
    /\ At("open") /\ db.projects = {} /\ p \in ManagedRoots
    /\ db' = [projects |-> {p}, cards |-> {p} \cap files]
    /\ made' = made \cup {p}
    /\ UNCHANGED <<stale, Durable, loose, marker, Aside, logged, call, faults, allow>>

\* holder_recovery_token_import_global for a project that is not known: a row
\* first; the key, which may be refused; then the pull, which brings the
\* directory's content.  Without a remote the metadata is written here.
RecoverRow(p) ==
    /\ At("open") /\ "recover" \in allow
    /\ p \notin External /\ root[p] = "none" /\ p \notin db.projects
    /\ db' = [db EXCEPT !.projects = @ \cup {p}]
    /\ call' = [Closed EXCEPT !.pc = "token", !.for = "recover", !.who = {p}]
    /\ UNCHANGED <<stale, Durable, loose, marker, Aside, logged, Ghost>>

RecoverContent(pulled) ==
    /\ At("token")
    /\ root' = [p \in Project |-> IF p \in call.who THEN "manifest" ELSE root[p]]
    /\ files' = IF pulled THEN files \cup call.who ELSE files
    /\ db' = [db EXCEPT !.cards = IF pulled THEN @ \cup call.who ELSE @]
    /\ Told
    /\ UNCHANGED <<stale, loose, marker, Aside, logged, faults, allow>>

\* The key is refused, the pull fails, or the index cannot be rebuilt from what
\* was pulled: the row stays in each case.
RecoverFails(how) ==
    /\ At("token")
    /\ root' = [p \in Project |-> IF p \notin call.who \/ how = "key" THEN root[p]
                                 ELSE IF how = "pull" THEN "repository" ELSE "manifest"]
    /\ files' = IF how = "index" THEN files \cup call.who ELSE files
    /\ call' = Opened
    /\ UNCHANGED <<db, stale, loose, marker, Aside, logged, Ghost>>

\* AiThreadRepo::create
AiThreadCreate(p) ==
    /\ At("open") /\ p \in db.projects \ loose /\ "threads" \in allow
    /\ loose' = loose \cup {p}
    /\ UNCHANGED <<db, stale, Durable, marker, Aside, logged, call, Ghost>>

-----------------------------------------------------------------------------
\* What is not a call

Event(kind) == kind \in allow /\ faults < MaxFaults /\ faults' = faults + 1

\* Closed or not, the process is gone and what it has written stays.
Crash ==
    /\ Event("crash") /\ call.pc \notin {"closed", "open"}
    /\ call' = Closed
    /\ UNCHANGED <<db, stale, Durable, loose, marker, Aside, logged, made, allow>>

Damage(how) ==
    /\ Event("damage") /\ At("closed") /\ Readable
    /\ db' = how /\ loose' = {}
    /\ UNCHANGED <<stale, Durable, marker, Aside, logged, call, made, allow>>

RemoveCardFile(p) ==
    /\ Event("byHand") /\ call.pc \in {"closed", "open"} /\ p \in files
    /\ files' = files \ {p}
    /\ UNCHANGED <<db, stale, root, loose, marker, Aside, logged, call, made, allow>>

Upgrade ==
    /\ Event("upgrade") /\ At("closed") /\ Readable
    /\ stale' = TRUE
    /\ UNCHANGED <<db, Durable, loose, marker, Aside, logged, call, made, allow>>

\* Migrations::migrate_to_latest, which the desktop daemon calls instead
Migrate ==
    /\ At("closed") /\ Readable /\ stale
    /\ stale' = FALSE
    /\ UNCHANGED <<db, Durable, loose, marker, Aside, logged, call, Ghost>>

-----------------------------------------------------------------------------
OpenSteps ==
    \/ CheckReadiness \/ AuditProjects \/ (\E p \in Project : QuarantineCard(p)) \/ AuditRest
    \/ CountOld \/ BeginTemporary \/ FillTemporary \/ DiscardTemporary
    \/ MoveOld \/ SwapIn \/ MarkRebuilt
    \/ Attach \/ Survey \/ MarkReady

CreateSteps ==
    \/ InitRepository \/ WriteBootstrap \/ WriteManifest
    \/ CommitMetadata \/ RemoveMarker \/ CreateCards
    \/ \E pulled \in BOOLEAN : RecoverContent(pulled)

Next ==
    \/ ContextOpen
    \/ \E mode \in {"rebuild", "dry"} : DatabaseRebuild(mode)
    \/ OpenSteps
    \/ \E renamed \in BOOLEAN : SwapFails(renamed)
    \/ ContextDestroy
    \/ \E p \in Project, for \in {"create", "restore", "default"} : CreateRow(p, for)
    \/ CreateSteps \/ CreateFails \/ CardsFail
    \/ \E p \in Project : ProjectDelete(p) \/ ProjectImport(p) \/ RecoverRow(p) \/ AiThreadCreate(p)
    \/ \E how \in {"key", "pull", "index"} : RecoverFails(how)
    \/ Crash \/ Upgrade \/ Migrate
    \/ \E how \in {Missing, Corrupt} : Damage(how)
    \/ \E p \in Project : RemoveCardFile(p)

Spec == Init /\ [][Next]_vars

\* A call goes on until it returns, and an application that finds the profile
\* closed tries again and again to open it.
Fairness == WF_vars(OpenSteps) /\ WF_vars(CreateSteps) /\ SF_vars(ContextOpen)
FairSpec == Spec /\ Fairness

-----------------------------------------------------------------------------
\* A context that opens lists every managed project that a caller was told of and
\* nobody deleted, however often the database was damaged, replaced or interrupted
\* on the way (holder_context_open fails instead).
CreatedListed == At("open") => made \ External \subseteq db.projects

\* A healthy database is replaced only by one that lists the same projects and the
\* same cards, although rebuild_database_projection compares their numbers only:
\* the audit has shown that every project listed has a directory to come back from.
\* It takes that all directories are managed ones.
RebuildFaithful ==
    call.pc \in {"move", "swap"} /\ call.was = "healthy" /\ "external" \notin allow
        => temp = call.old

\* When the process dies or fails between the two renames that replace a readable
\* database, the old one is in the backups and the complete new one, which lists
\* the same, is beside it (rebuild_database_projection moves nothing before it has
\* validated the temporary database).
SwapLosesNothing ==
    db = Missing /\ marker /\ {"damage", "external"} \cap allow = {} => temp \in kept

\* However the database was damaged, the profile opens again: from the directories,
\* with the marker that says they suffice.  So does one with an older schema, as
\* long as no project was deleted, whose directory would spoil the count.  A call
\* that dies or fails half-way can leave a profile that never opens again.
Reopens ==
    /\ {"crash", "fail", "threads", "recover", "external"} \cap allow = {}
    /\ ~({"delete", "upgrade"} \subseteq allow)
    => []<>At("open")
=============================================================================
