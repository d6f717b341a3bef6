---------------------------- MODULE MCComponents ----------------------------
(***************************************************************************)
(* Eight components for TLC.  They share no state, so a behaviour is that  *)
(* of one of them: "which" says of whose, and v1, v2, ... are its variables.*)
(***************************************************************************)
EXTENDS Naturals, Sequences, FiniteSets, TLC

CONSTANTS
    Item,     \* resources, messages, accounts, links
    Content,  \* contents, bodies, secrets, tags
    Caller,   \* threads
    Location, Home, New, Name, First, None, Torn, Absent,
    Due       \* milestones

VARIABLES which, v1, v2, v3, v4, v5, v6, v7, v8, v9, v10, v11, v12

vars == <<which, v1, v2, v3, v4, v5, v6, v7, v8, v9, v10, v11, v12>>

ResourceScenarios ==
    {{"overlap", "edit"}, {"describe", "edit"}, {"overlap", "rebuild", "crash"},
     {"trash", "rebuild", "crash"}, {"rebuild", "crash"}, {"fail", "overlap", "crash"},
     {"failRows", "crash", "edit"}}
Res == INSTANCE Resources
         WITH Resource <- Item, Scenarios <- ResourceScenarios,
              rows <- v1, work <- v2, store <- v3, card <- v4, lock <- v5, call <- v6,
              torn <- v7, told <- v8, allow <- v9

Env == INSTANCE AssetEnvelope
         WITH Reader <- Caller, Chunk <- 2, MaxSize <- 5,
              Damages <- {"none", "cut", "swap", "tail", "other"},
              source <- v1, enc <- v2, atomic <- v3, stage <- v4, object <- v5, hit <- v6,
              recorded <- v7, file <- v8, name <- v9, read <- v10

Sec == INSTANCE SecretStore
         WITH Account <- Item, Value <- Content,
              backend <- v1, index <- v2, secrets <- v3, key <- v4, rows <- v5, call <- v6,
              kept <- v7, current <- v8, mayCrash <- v9

RecoveryScenarios == {{"crash", "rebuild"}, {"stale", "rebuild"}, {"early"}, {"cut"}}
Rec == INSTANCE Recovery
         WITH MaxCommits <- 3, MaxCrashes <- 1, Scenarios <- RecoveryScenarios,
              row <- v1, ring <- v2, origin <- v3, work <- v4, head <- v5, base <- v6,
              hub <- v7, token <- v8, call <- v9, named <- v10, crashes <- v11, allow <- v12

SearchScenarios == {{"change", "touch"}, {"reindex", "rows", "crash"}}
Sea == INSTANCE SearchIndex
         WITH Card <- 1..3, Body <- Content, Empty <- Absent, Limit <- 2, MaxTime <- 2,
              Scenarios <- SearchScenarios,
              cards <- v1, fts <- v2, time <- v3, job <- v4, page <- v5, allow <- v6

MessageScenarios ==
    {{"overlap", "reuse", "rebuild"}, {"overlap", "remove", "rebuild"}, {"overlap", "crash"},
     {"update", "remove", "rebuild"}, {"crash", "rebuild"}, {"fail", "rebuild"},
     {"update", "trashed", "remove", "removeLive", "rebuild"}}
Msg == INSTANCE Messages
         WITH Message <- Item, Scenarios <- MessageScenarios,
              rows <- v1, fts <- v2, work <- v3, staged <- v4, head <- v5, thread <- v6,
              lock <- v7, call <- v8, said <- v9, cut <- v10, allow <- v11

MetadataScenarios ==
    {{"links", "tags", "overlap"}, {"links", "overlap", "fault"}, {"tags", "overlap", "fault"},
     {"milestones", "overlap"}, {"tags", "milestones", "rewrite"},
     {"links", "tags", "rewrite", "fault"},
     {"links", "milestones", "trashed", "rewrite", "fault"}}
Line(pure, tags) == [pure |-> pure, tags |-> tags]
Bodies == {<<Line(FALSE, <<t>>), Line(TRUE, <<t, u>>)>> : t, u \in Content}
Met == INSTANCE CardMetadata
         WITH Link <- Item, Tag <- Content, Milestone <- Due, Body <- Bodies,
              Scenarios <- MetadataScenarios,
              file <- v1, trashed <- v2, links <- v3, tags <- v4, miles <- v5, lock <- v6,
              call <- v7, kept <- v8, clean <- v9, allow <- v10

Ord == INSTANCE CardOrder
         WITH Card <- 1..3, Root <- Home, Unit <- 1, MaxKey <- 3, Given <- {0},
              MaxTime <- 1, Holders <- {1}, Scenarios <- {{}, {"given"}},
              rows <- v1, now <- v2, shown <- v3, allow <- v4

Init ==
    \/ which = "resources" /\ Res!Init /\ v10 = 0 /\ v11 = 0 /\ v12 = 0
    \/ which = "envelope" /\ Env!Init /\ v11 = 0 /\ v12 = 0
    \/ which = "secrets" /\ Sec!Init /\ v10 = 0 /\ v11 = 0 /\ v12 = 0
    \/ which = "recovery" /\ Rec!Init
    \/ /\ which = "search" /\ Sea!Init
       /\ v7 = 0 /\ v8 = 0 /\ v9 = 0 /\ v10 = 0 /\ v11 = 0 /\ v12 = 0
    \/ which = "messages" /\ Msg!Init /\ v12 = 0
    \/ which = "metadata" /\ Met!Init /\ v11 = 0 /\ v12 = 0
    \/ /\ which = "order" /\ Ord!Init
       /\ v5 = 0 /\ v6 = 0 /\ v7 = 0 /\ v8 = 0 /\ v9 = 0 /\ v10 = 0 /\ v11 = 0 /\ v12 = 0

Next ==
    /\ \/ which = "resources" /\ Res!Next /\ UNCHANGED <<v10, v11, v12>>
       \/ which = "envelope" /\ Env!Next /\ UNCHANGED <<v11, v12>>
       \/ which = "secrets" /\ Sec!Next /\ UNCHANGED <<v10, v11, v12>>
       \/ which = "recovery" /\ Rec!Next
       \/ which = "search" /\ Sea!Next /\ UNCHANGED <<v7, v8, v9, v10, v11, v12>>
       \/ which = "messages" /\ Msg!Next /\ UNCHANGED v12
       \/ which = "metadata" /\ Met!Next /\ UNCHANGED <<v11, v12>>
       \/ which = "order" /\ Ord!Next /\ UNCHANGED <<v5, v6, v7, v8, v9, v10, v11, v12>>
    /\ UNCHANGED which

Spec == Init /\ [][Next]_vars

Symmetry == Permutations(Item) \cup Permutations(Content) \cup Permutations(Caller)

-----------------------------------------------------------------------------
\* A file whose import was reported stays retrievable (AssetImportService::import_file).
AcknowledgedStored == which = "resources" => Res!AcknowledgedStored

\* Rows, files and placements agree as long as calls succeed (ResourceStore,
\* LocationStore, AssetImportService).
SuccessConsistent == which = "resources" => Res!SuccessConsistent

\* A retrieve delivers the imported bytes or fails, and fails only for damage or for
\* another retrieve (stage_asset_file, recover_asset_file).
AssetsDelivered == which = "envelope" => Env!DeliversExactly /\ Env!NeverRefusedAlone

\* A secret that was acknowledged is the one that get returns (DefaultSecretStore).
AcknowledgedKept == which = "secrets" => Sec!AcknowledgedKept

\* A recovered project has the key that its row names (ensure_project_key_material,
\* import_recovery_token), and its repository shares history with the remote
\* (holder_recovery_token_import_global).
RecoveredUsable == which = "recovery" => Rec!KeyFirst /\ Rec!HistoriesRelated

\* A recovery on another device does not take a rename back (holder_project_rename,
\* holder_recovery_token_import_global).
RenameKept == which = "recovery" => Rec!RenameKept

\* The remote never loses a card to a recovery (GitRepo::pull_remote_ff_only,
\* merge_remote_taking_theirs_for_conflicts, push_branch).
CardsKept == [][which = "recovery" => Rec!KeepsCards]_vars

\* Pages that were read one by one make a complete listing, and a complete backup
\* (CardStore::list_complete_page, holder_backup_snapshot_page).
PagesComplete == which = "search" => Sea!ListingComplete /\ Sea!BackupComplete

\* Between calls, the rows, the files, the last commit and the search index say the
\* same of every message, and one that was acknowledged keeps its file (AiMessageRepo).
MessagesStored == which = "messages" => Msg!MessagesMirror /\ Msg!MessageKept

\* When all calls have succeeded, the tables of links, tags and milestones say what the
\* card's file says (LinkRepo, TagRepo, MilestoneRepo, CardStore::update_links, ...).
MetadataMirrors == which = "metadata" => Met!MetadataMirrors

\* A link, tag or milestone that was reported as added stays in the file (CardStore).
MetadataKept == which = "metadata" => Met!MetadataKept

\* Cards are listed in the order that the calls asked for (CardPlacementResolver,
\* insert_block, restored_card_placement, promoted_card_children).
OrderKept == which = "order" => Ord!OrderKept
=============================================================================
