----------------------------- MODULE CardMutation -----------------------------
(***************************************************************************)
(* The journalled multi-card write: CardStore::apply_card_changes with the *)
(* CardMutation journal, its in-process rollback, and the recovery that    *)
(* Rebuilder::rebuild_project performs after an interruption.              *)
(*                                                                         *)
(* One project.  A card has a live path and a trash path.  Card bytes are  *)
(* members of Val; a path holds Absent when there is no file, and Torn     *)
(* when a write was cut short (write_file truncates and rewrites).  A Git  *)
(* index or tree holds the card paths and one entry, "other", for all the  *)
(* unrelated work a user may have staged.  A commit carries the set of     *)
(* commits reachable from it, which a commit object determines.            *)
(*                                                                         *)
(* The SQLite transaction is open exactly while pc is in Forward or Undo,  *)
(* so its pending rows need no variable: they are Rows(saved).             *)
(***************************************************************************)
EXTENDS Naturals, Sequences, FiniteSets

CONSTANTS
    Card,         \* card ids
    Val,          \* bytes a card file can hold
    Absent, Torn, \* no file; a file cut short by a crash or a failed write
    MaxOps,       \* bound on the card operations started
    MaxFaults,    \* bound on crashes and caught failures
    MaxOutside,   \* bound on commits made by others between crash and recovery
    MaxEdits,     \* bound on edits by others between crash and recovery
    TearUnjournalled \* can a rollback that never had a journal tear a file?

ASSUME ConstantsAssumption ==
    /\ Absent \notin Val /\ Torn \notin Val /\ Absent # Torn
    /\ MaxOps \in Nat /\ MaxFaults \in Nat
    /\ MaxOutside \in Nat /\ MaxEdits \in Nat
    /\ TearUnjournalled \in BOOLEAN

Side == {"live", "trash"}
OtherSide(s) == IF s = "live" THEN "trash" ELSE "live"
Path == Side \X Card
Content == Val \cup {Absent}   \* what Git or a journal can hold for a path
Bytes == Content \cup {Torn}   \* what the working tree can hold for a path

Tree == [cards : [Path -> Content], other : Content]
NoTree == [cards |-> [p \in Path |-> Absent], other |-> Absent]
Commit == [parent : Nat, tree : Tree, past : SUBSET Nat,
           by : {"init", "card", "outside"}]

\* The saved JSON object: HEAD (0 when the branch is unborn), the index file,
\* and per affected path the bytes before and after.  "paths" are the keys of
\* saved["files"] (both paths of every changed card), "changed" the keys that
\* also have an "after".
Saved == [head : Nat, index : Tree, paths : SUBSET Path, changed : SUBSET Path,
          before : [Path -> Bytes], after : [Path -> Content]]
NoSaved == [head |-> 0, index |-> NoTree, paths |-> {}, changed |-> {},
            before |-> [p \in Path |-> Absent], after |-> [p \in Path |-> Absent]]

VARIABLES
    files,     \* the card files of the working tree
    index,     \* the Git index
    commits,   \* the object store, in creation order
    head,      \* the branch tip, an index into commits, 0 when unborn
    db,        \* the committed card rows, as the file contents they mirror
    journal,   \* the holder-card-mutation file; NoSaved when it does not exist
    saved,     \* CardMutation::saved in the running process
    toMove,    \* cards apply_card_changes has still to rename
    toWrite,   \* cards apply_card_changes has still to write and stage
    cur,       \* the card between its file step and its index step
    toRestore, \* paths a rollback or a recovery has still to put back
    pc,        \* where the process is
    ops, faults, outside, edits, \* how often each bounded event has happened
    edited     \* card paths changed by others since the interruption

vars == <<files, index, commits, head, db, journal, saved, toMove, toWrite, cur,
          toRestore, pc, ops, faults, outside, edits, edited>>

disk == <<files, index, commits, head, db, journal>>
work == <<toMove, toWrite, cur>>
env  == <<ops, faults, outside, edits, edited>>

Forward == {"journal", "reset", "work", "unstage", "stage", "preserve",
            "adopt", "txcommit"}
Undo == {"undoRef", "undoFiles", "undoJournal"}
Settle == {"settleFiles", "putBack", "landedIndex", "landedPaths", "rebuild",
           "settled"}
PC == {"idle", "down", "finish"} \cup Forward \cup Undo \cup Settle

TreeOf(i) == IF i = 0 THEN NoTree ELSE commits[i].tree
Past(i) == IF i = 0 THEN {} ELSE commits[i].past

\* write_tree + commit on the current branch
CommitIndex(who) ==
    /\ commits' = Append(commits, [parent |-> head, tree |-> index,
                                   past |-> Past(head) \cup {Len(commits) + 1},
                                   by |-> who])
    /\ head' = Len(commits) + 1

-----------------------------------------------------------------------------
\* Where the row of a card says its file is (deleted_at selects the trash path).
RowSide(c) == CHOOSE s \in Side : db[<<s, c>>] # Absent
HasRow(c) == \E s \in Side : db[<<s, c>>] # Absent

Init ==
    /\ \E where \in [Card -> Side \cup {"none"}], body \in [Card -> Val] :
          files = [p \in Path |-> IF where[p[2]] = p[1] THEN body[p[2]] ELSE Absent]
    /\ db = files
    /\ \E other \in Content :
          \/ /\ commits = << [parent |-> 0, past |-> {1}, by |-> "init",
                              tree |-> [cards |-> files, other |-> Absent]] >>
             /\ head = 1
             /\ index = [cards |-> files, other |-> other]
          \/ /\ commits = << >>
             /\ head = 0
             /\ index = [NoTree EXCEPT !.other = other]
    /\ journal = NoSaved /\ saved = NoSaved
    /\ toMove = {} /\ toWrite = {} /\ cur = {} /\ toRestore = {}
    /\ pc = "idle"
    /\ ops = 0 /\ faults = 0 /\ outside = 0 /\ edits = 0 /\ edited = {}

-----------------------------------------------------------------------------
\* apply_card_changes up to the open transaction: every changed card's file is
\* where its row says, a rename destination is free, and CardMutation's
\* constructor found no journal and took its snapshots.
Start(cs, moved, body) ==
    LET from(c) == <<RowSide(c), c>>
        to(c) == <<IF c \in moved THEN OtherSide(RowSide(c)) ELSE RowSide(c), c>>
        set == {to(c) : c \in cs}
        paths == Side \X cs
    IN  /\ pc = "idle" /\ journal = NoSaved
        /\ ops < MaxOps
        /\ ops' = ops + 1
        /\ \A c \in cs : HasRow(c) /\ files[from(c)] # Absent
        /\ \A c \in moved : files[to(c)] = Absent
        /\ saved' = [head |-> head, index |-> index, paths |-> paths,
                     changed |-> set \cup {from(c) : c \in moved},
                     before |-> [p \in Path |-> IF p \in paths THEN files[p] ELSE Absent],
                     after |-> [p \in Path |-> IF p \in set THEN body[p[2]] ELSE Absent]]
        /\ toMove' = moved /\ toWrite' = cs
        /\ pc' = "journal"
        /\ UNCHANGED <<disk, cur, toRestore, faults, outside, edits, edited>>

StartSome ==
    \E cs \in (SUBSET Card) \ {{}} : \E moved \in SUBSET cs, body \in [cs -> Val] :
        Start(cs, moved, body)

\* Mutant: begin goes on without its journal.
WriteJournalSkipped ==
    /\ pc = "journal"
    /\ pc' = "reset"
    /\ UNCHANGED <<disk, saved, work, toRestore, env>>

\* begin: the temporary file is verified and renamed onto the journal
WriteJournal ==
    /\ pc = "journal"
    /\ journal' = saved
    /\ pc' = "reset"
    /\ UNCHANGED <<files, index, commits, head, db, saved, work, toRestore, env>>

\* begin, continued: the index becomes the HEAD tree, or is cleared
ResetIndex ==
    /\ pc = "reset"
    /\ index' = TreeOf(head)
    /\ pc' = "work"
    /\ UNCHANGED <<files, commits, head, db, journal, saved, work, toRestore, env>>

\* The paths the change of card c removes and sets
Gone(c) == {p \in saved.changed : p[2] = c /\ saved.after[p] = Absent}
Put(c)  == {p \in saved.changed : p[2] = c /\ saved.after[p] # Absent}

RenameFile(c) ==
    /\ pc = "work" /\ c \in toMove
    /\ files' = [p \in Path |-> IF p \in Gone(c) THEN Absent
                                ELSE IF p \in Put(c) THEN files[<<OtherSide(p[1]), c>>]
                                ELSE files[p]]
    /\ toMove' = toMove \ {c} /\ cur' = {c}
    /\ pc' = "unstage"
    /\ UNCHANGED <<index, commits, head, db, journal, saved, toWrite, toRestore, env>>

RemovePath(c) ==
    /\ pc = "unstage" /\ c \in cur
    /\ index' = [index EXCEPT !.cards = [p \in Path |-> IF p \in Gone(c) THEN Absent
                                                        ELSE index.cards[p]]]
    /\ cur' = {}
    /\ pc' = "work"
    /\ UNCHANGED <<files, commits, head, db, journal, saved, toMove, toWrite,
                   toRestore, env>>

\* write_file, which the read-back verifies
WriteFile(c) ==
    /\ pc = "work" /\ toMove = {} /\ c \in toWrite
    /\ files' = [p \in Path |-> IF p \in Put(c) THEN saved.after[p] ELSE files[p]]
    /\ toWrite' = toWrite \ {c} /\ cur' = {c}
    /\ pc' = "stage"
    /\ UNCHANGED <<index, commits, head, db, journal, saved, toMove, toRestore, env>>

StagePath(c) ==
    /\ pc = "stage" /\ c \in cur
    /\ index' = [index EXCEPT !.cards = [p \in Path |-> IF p \in Put(c) THEN files[p]
                                                        ELSE index.cards[p]]]
    /\ cur' = {}
    /\ pc' = "work"
    /\ UNCHANGED <<files, commits, head, db, journal, saved, toMove, toWrite,
                   toRestore, env>>

GitCommit ==
    /\ pc = "work" /\ toMove = {} /\ toWrite = {}
    /\ CommitIndex("card")
    /\ pc' = "preserve"
    /\ UNCHANGED <<files, index, db, journal, saved, work, toRestore, env>>

\* Mutant: the index stays the one the commit was made from.
PreserveIndexSkipped ==
    /\ pc = "preserve"
    /\ pc' = "adopt"
    /\ UNCHANGED <<disk, saved, work, toRestore, env>>

\* preserve_unrelated_index: the saved index file is put back ...
PreserveIndex ==
    /\ pc = "preserve"
    /\ index' = saved.index
    /\ pc' = "adopt"
    /\ UNCHANGED <<files, commits, head, db, journal, saved, work, toRestore, env>>

\* ... and the operation's own paths are taken from a commit's tree
TakePaths(s, i) ==
    [index EXCEPT !.cards = [p \in Path |-> IF p \in s.paths THEN TreeOf(i).cards[p]
                                            ELSE index.cards[p]]]

AdoptPaths ==
    /\ pc = "adopt"
    /\ index' = TakePaths(saved, head)
    /\ pc' = "txcommit"
    /\ UNCHANGED <<files, commits, head, db, journal, saved, work, toRestore, env>>

\* The rows of a change: both paths of every changed card are determined by it
Rows(s) == [p \in Path |-> IF p \in s.paths THEN s.after[p] ELSE db[p]]

TxCommit ==
    /\ pc = "txcommit"
    /\ db' = Rows(saved)
    /\ pc' = "finish"
    /\ UNCHANGED <<files, index, commits, head, journal, saved, work, toRestore, env>>

\* Back to a process that is running no card operation
Return ==
    /\ pc' = "idle"
    /\ saved' = NoSaved /\ toMove' = {} /\ toWrite' = {} /\ cur' = {}
    /\ toRestore' = {}

Finish ==
    /\ pc = "finish"
    /\ journal' = NoSaved
    /\ Return
    /\ UNCHANGED <<files, index, commits, head, db, env>>

-----------------------------------------------------------------------------
\* is_operation_commit: the saved HEAD is the only parent, and the tree holds
\* the intended bytes at every changed path
IsOperationCommit(i, s) ==
    /\ commits[i].parent = s.head
    /\ \A p \in s.changed : commits[i].tree.cards[p] = s.after[p]

\* landed_commit: the walk from the tip that hides the saved HEAD
Landed(s) == {i \in Past(head) \ Past(s.head) : IsOperationCommit(i, s)}

\* Mutant: the rollback restores files and index but leaves the branch.
UndoRefKeepsTip ==
    /\ pc = "undoRef"
    /\ toRestore' = saved.paths
    /\ pc' = "undoFiles"
    /\ UNCHANGED <<disk, saved, work, env>>

\* roll_back, first step: the branch is moved back only off this operation's commit
UndoRef ==
    /\ pc = "undoRef"
    /\ head' = IF head # saved.head /\ IsOperationCommit(head, saved)
               THEN saved.head ELSE head
    /\ toRestore' = saved.paths
    /\ pc' = "undoFiles"
    /\ UNCHANGED <<files, index, commits, db, journal, saved, work, env>>

\* One file of restore_original_files, or of the loop that ends recover_journal
RestoreFile(p) ==
    /\ pc \in {"undoFiles", "settleFiles", "putBack"} /\ p \in toRestore
    /\ files' = [files EXCEPT ![p] = saved.before[p]]
    /\ toRestore' = toRestore \ {p}
    /\ UNCHANGED <<index, commits, head, db, journal, saved, work, pc, env>>

UndoIndex ==
    /\ pc = "undoFiles" /\ toRestore = {}
    /\ index' = saved.index
    /\ pc' = "undoJournal"
    /\ UNCHANGED <<files, commits, head, db, journal, saved, work, toRestore, env>>

\* rollback ends by removing the journal; the transaction then rolls back
UndoJournal ==
    /\ pc = "undoJournal"
    /\ journal' = NoSaved
    /\ Return
    /\ UNCHANGED <<files, index, commits, head, db, env>>

-----------------------------------------------------------------------------
\* Mutants: recovery asks only whether the tip is the landed commit, takes the
\* branch back when it is not there, or puts back every file.
RecoverFilesTipOnly ==
    /\ pc = "idle" /\ journal # NoSaved
    /\ saved' = journal
    /\ \/ /\ head = journal.head
          /\ toRestore' = journal.paths
          /\ pc' = "settleFiles"
       \/ /\ head # journal.head /\ IsOperationCommit(head, journal)
          /\ toRestore' = {}
          /\ pc' = "landedIndex"
       \/ /\ head # journal.head /\ ~IsOperationCommit(head, journal)
          /\ toRestore' = {p \in journal.changed : files[p] = journal.after[p]}
          /\ pc' = "putBack"
    /\ UNCHANGED <<disk, work, env>>

RecoverFilesForces ==
    /\ pc = "idle" /\ journal # NoSaved
    /\ saved' = journal
    /\ toRestore' = IF head # journal.head /\ Landed(journal) # {} THEN {} ELSE journal.changed
    /\ pc' = IF head = journal.head THEN "settleFiles"
             ELSE IF Landed(journal) # {} THEN "rebuild" ELSE "putBack"
    /\ UNCHANGED <<disk, work, env>>

RecoverFilesRewinds ==
    /\ pc = "idle" /\ journal # NoSaved
    /\ saved' = journal
    /\ head' = journal.head
    /\ toRestore' = journal.paths
    /\ pc' = "settleFiles"
    /\ UNCHANGED <<files, index, commits, db, journal, work, env>>

\* Recovery: require_project, a pull or an explicit rebuild enters
\* rebuild_project, whose recover_files reads the journal and dispatches on
\* what the branch has become.
RecoverFiles ==
    /\ pc = "idle" /\ journal # NoSaved
    /\ saved' = journal
    /\ \/ /\ head = journal.head
          /\ toRestore' = journal.paths
          /\ pc' = "settleFiles"
       \/ /\ head # journal.head /\ Landed(journal) # {}
          /\ toRestore' = {}
          /\ pc' = IF head \in Landed(journal) THEN "landedIndex" ELSE "rebuild"
       \/ /\ head # journal.head /\ Landed(journal) = {}
          /\ toRestore' = {p \in journal.changed : files[p] = journal.after[p]}
          /\ pc' = "putBack"
    /\ UNCHANGED <<disk, work, env>>

\* rebuild_project when there is no journal to settle
RebuildOnly ==
    /\ pc = "idle" /\ journal = NoSaved
    /\ pc' = "rebuild"
    /\ UNCHANGED <<disk, saved, work, toRestore, env>>

SettleIndex ==
    /\ pc = "settleFiles" /\ toRestore = {}
    /\ index' = saved.index
    /\ pc' = "rebuild"
    /\ UNCHANGED <<files, commits, head, db, journal, saved, work, toRestore, env>>

PutBackDone ==
    /\ pc = "putBack" /\ toRestore = {}
    /\ pc' = "rebuild"
    /\ UNCHANGED <<disk, saved, work, toRestore, env>>

\* restore_unrelated_index, in its two writes
LandedIndex ==
    /\ pc = "landedIndex"
    /\ index' = saved.index
    /\ pc' = "landedPaths"
    /\ UNCHANGED <<files, commits, head, db, journal, saved, work, toRestore, env>>

LandedPaths ==
    /\ pc = "landedPaths"
    /\ index' = TakePaths(saved, head)
    /\ pc' = "rebuild"
    /\ UNCHANGED <<files, commits, head, db, journal, saved, work, toRestore, env>>

\* rebuild_project_in_transaction inserts one row per card file, live and trash:
\* a card with both violates the primary key and the transaction is lost.
Loadable == \A c \in Card : \E s \in Side : files[<<s, c>>] = Absent

Rebuild ==
    /\ pc = "rebuild" /\ Loadable
    /\ db' = files
    /\ pc' = "settled"
    /\ UNCHANGED <<files, index, commits, head, journal, saved, work, toRestore, env>>

RebuildRejects ==
    /\ pc = "rebuild" /\ ~Loadable
    /\ Return
    /\ UNCHANGED <<disk, env>>

\* Mutant: finish_recovery forgets to remove the journal.
FinishRecoveryKeepsJournal ==
    /\ pc = "settled"
    /\ Return
    /\ UNCHANGED <<disk, env>>

FinishRecovery ==
    /\ pc = "settled"
    /\ journal' = NoSaved
    /\ edited' = {}
    /\ Return
    /\ UNCHANGED <<files, index, commits, head, db, ops, faults, outside, edits>>

-----------------------------------------------------------------------------
\* Faults.  An exception inside the try block starts the rollback; one in the
\* rollback, in finish or in a rebuild leaves the journal as it is.
Fault == faults < MaxFaults /\ faults' = faults + 1
NoMoreThanFault == UNCHANGED <<ops, outside, edits, edited>>

Fail ==
    /\ pc \in Forward
    /\ Fault /\ NoMoreThanFault
    /\ pc' = "undoRef"
    /\ toMove' = {} /\ toWrite' = {} /\ cur' = {}
    /\ UNCHANGED <<disk, saved, toRestore>>

FailWriting(c) ==
    /\ pc = "work" /\ toMove = {} /\ c \in toWrite
    /\ Fault /\ NoMoreThanFault
    /\ files' = [p \in Path |-> IF p \in Put(c) THEN Torn ELSE files[p]]
    /\ pc' = "undoRef"
    /\ toMove' = {} /\ toWrite' = {} /\ cur' = {}
    /\ UNCHANGED <<index, commits, head, db, journal, saved, toRestore>>

\* Mutant: a failed rollback or recovery removes the journal all the same.
FailSettlingDropsJournal ==
    /\ pc \in Undo \cup Settle \cup {"finish"}
    /\ Fault /\ NoMoreThanFault
    /\ journal' = NoSaved
    /\ Return
    /\ UNCHANGED <<files, index, commits, head, db>>

FailSettling ==
    /\ pc \in Undo \cup Settle \cup {"finish"}
    /\ Fault /\ NoMoreThanFault
    /\ Return
    /\ UNCHANGED disk

Die == Fault /\ NoMoreThanFault /\ pc' = "down" /\ saved' = NoSaved
       /\ toMove' = {} /\ toWrite' = {} /\ cur' = {} /\ toRestore' = {}

Crash == pc \notin {"idle", "down"} /\ Die /\ UNCHANGED disk

CrashWriting(c) ==
    /\ pc = "work" /\ toMove = {} /\ c \in toWrite
    /\ files' = [p \in Path |-> IF p \in Put(c) THEN Torn ELSE files[p]]
    /\ Die
    /\ UNCHANGED <<index, commits, head, db, journal>>

\* A restore that is cut short.  A rollback entered because the journal itself
\* could not be written rewrites the untouched files, with no journal behind it.
TearRestored(p) ==
    /\ pc \in {"undoFiles", "settleFiles", "putBack"} /\ p \in toRestore
    /\ saved.before[p] # Absent
    /\ journal # NoSaved \/ TearUnjournalled
    /\ files' = [files EXCEPT ![p] = Torn]
    /\ UNCHANGED <<index, commits, head, db, journal>>

FailRestoring(p) == TearRestored(p) /\ Fault /\ NoMoreThanFault /\ Return
CrashRestoring(p) == TearRestored(p) /\ Die

Restart ==
    /\ pc = "down"
    /\ pc' = "idle"
    /\ UNCHANGED <<disk, saved, work, toRestore, env>>

\* Others, between the interruption and the recovery: a git commit of the index,
\* or a card file written or removed by hand.
OutsideCommit ==
    /\ pc \in {"down", "idle"} /\ journal # NoSaved /\ outside < MaxOutside
    /\ CommitIndex("outside")
    /\ outside' = outside + 1
    /\ UNCHANGED <<files, index, db, journal, saved, work, toRestore, pc, ops,
                   faults, edits, edited>>

OutsideEdit(p, b) ==
    /\ pc \in {"down", "idle"} /\ journal # NoSaved /\ edits < MaxEdits
    /\ b # files[p]
    /\ files' = [files EXCEPT ![p] = b]
    /\ edits' = edits + 1
    /\ edited' = edited \cup {p}
    /\ UNCHANGED <<index, commits, head, db, journal, saved, work, toRestore, pc,
                   ops, faults, outside>>

-----------------------------------------------------------------------------
\* What the code does on its own once begun; failing, dying and the outside
\* world are not among these.
Progress ==
    \/ WriteJournal \/ ResetIndex
    \/ \E c \in Card : RenameFile(c) \/ RemovePath(c) \/ WriteFile(c) \/ StagePath(c)
    \/ GitCommit \/ PreserveIndex \/ AdoptPaths \/ TxCommit \/ Finish
    \/ UndoRef \/ UndoIndex \/ UndoJournal
    \/ \E p \in Path : RestoreFile(p)
    \/ RecoverFiles \/ SettleIndex \/ PutBackDone \/ LandedIndex \/ LandedPaths
    \/ Rebuild \/ RebuildRejects \/ FinishRecovery
    \/ Restart

Faulty ==
    \/ Fail \/ FailSettling \/ Crash
    \/ \E c \in Card : FailWriting(c) \/ CrashWriting(c)
    \/ \E p \in Path : FailRestoring(p) \/ CrashRestoring(p)

Outside ==
    \/ OutsideCommit
    \/ \E p \in Path, b \in Content : OutsideEdit(p, b)

Next == StartSome \/ RebuildOnly \/ Progress \/ Faulty \/ Outside

Spec == Init /\ [][Next]_vars

\* A process that began a step goes on; a process that went down is started
\* again; and a project with a journal sees another card write or rebuild.
FairSpec == Spec /\ WF_vars(Progress)
-----------------------------------------------------------------------------
\* Properties

\* Every variable keeps its type; the journal exists exactly from WriteJournal
\* until the operation or a recovery has removed it.
TypeOK ==
    /\ files \in [Path -> Bytes]
    /\ index \in Tree
    /\ commits \in Seq(Commit)
    /\ head \in 0..Len(commits)
    /\ db \in [Path -> Bytes]
    /\ journal \in Saved /\ journal.head \in 0..Len(commits)
    /\ saved \in Saved /\ saved.head \in 0..Len(commits)
    /\ toMove \in SUBSET Card /\ toWrite \in SUBSET Card /\ cur \in SUBSET Card
    /\ toRestore \in SUBSET Path
    /\ pc \in PC
    /\ ops \in 0..MaxOps /\ faults \in 0..MaxFaults
    /\ outside \in 0..MaxOutside /\ edits \in 0..MaxEdits
    /\ edited \in SUBSET Path

Settled == pc = "idle" /\ journal = NoSaved
Untouched == outside = 0 /\ edits = 0

\* Once no journal is left, whatever was interrupted and whatever others did
\* meanwhile, the rows of the index mirror the card files: rebuild_project removes
\* the journal only after its transaction committed.
SettledIndexed == Settled => db = files

\* If nobody else touched the project, then once no journal is left the files,
\* the branch tip and the Git index agree on every card: a partly applied change
\* is never what a card operation, its rollback or its recovery leaves behind.
\* (A path the project has never committed may have an untracked file.)
SettledCommitted ==
    Settled /\ Untouched =>
        LET tracked == commits # << >> /\ commits[1].by = "init"
            tip == TreeOf(head).cards
        IN  /\ index.cards = tip
            /\ \A p \in Path : tip[p] = files[p] \/ (~tracked /\ tip[p] = Absent)

\* The commit an operation made itself is on the branch.  Landed may also hold a
\* commit of somebody else with the same parent and the same bytes.
OwnLanded(s) == \E i \in Landed(s) : commits[i].by = "card"

\* The fate of a journalled change is the fate of its commit: when its journal
\* is removed the index shows the change if the operation's own commit is on the
\* branch and, if nobody else touched the project, shows the state before it
\* otherwise.  (An index that an interrupted rollback has left staged, committed
\* by somebody else, looks like the operation's commit to landed_commit although
\* some files are back already: of such a commit nothing is claimed.)
FateFollowsCommit ==
    journal # NoSaved /\ journal' = NoSaved /\ edits = 0
    => IF OwnLanded(journal)
       THEN \A p \in journal.paths : db'[p] = journal.after[p]
       ELSE outside = 0 => \A p \in journal.paths : db'[p] = journal.before[p]
FateIsCommit == [][FateFollowsCommit]_vars

\* Commits made by others while a journal was waiting stay on the branch:
\* recovery moves no ref, and a rollback only leaves its own commit.
OutsideCommitsKept ==
    \A i \in DOMAIN commits : commits[i].by = "outside" => i \in Past(head)

\* An interrupted or failed operation does not leave its journal for ever.
JournalSettles == journal # NoSaved ~> journal = NoSaved

\* README, "Card lifecycle": recovery puts back only files still holding the
\* operation's uncommitted bytes.  When the branch has moved since, a file that
\* somebody else changed meanwhile is left as it is, also by a recovery that was
\* itself interrupted.  (On an unmoved branch recover_journal restores every file.)
EditsKept ==
    \A p \in edited : pc \in Settle \ {"settleFiles"} /\ files[p] # saved.after[p]
                       => files'[p] = files[p]
RecoveryKeepsEdits == [][EditsKept]_vars

\* CardStore.cpp:785: "If compensation itself fails the durable journal remains
\* for recovery", so a card file is torn only while a journal can mend it.
TornHasJournal ==
    Untouched /\ (\E p \in Path : files[p] = Torn) =>
        journal # NoSaved \/ pc \in Forward \cup Undo

\* The change in flight, as the caller of apply_card_changes sees it
Pending == IF pc \in Forward \cup Undo THEN Rows(saved)
           ELSE IF journal # NoSaved THEN Rows(journal) ELSE db
StagedWork == IF journal = NoSaved THEN index.other ELSE journal.index.other

Atomic == INSTANCE AtomicCardChange
    WITH Projection <- [Path -> Bytes], cards <- db, pending <- Pending,
         staged <- StagedWork

\* The journalled write implements the atomic change: rows change in one step
\* and as a whole, and the user's unrelated staged work is never lost, whatever
\* crashes and failures happen on the way.
AtomicSpec == Atomic!Spec
=============================================================================
