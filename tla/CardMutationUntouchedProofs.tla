---------------------- MODULE CardMutationUntouchedProofs ----------------------
(***************************************************************************)
(* A journalled change in a project nobody else touches: how far the files,*)
(* the rows, the branch and the Git index agree, with and without a        *)
(* journal, for every set of cards and every number of changes and faults. *)
(***************************************************************************)
EXTENDS CardMutationOthersProofs

-----------------------------------------------------------------------------
\* A project with an initial commit tracks its card files.
Tracked == commits # << >> /\ commits[1].by = "init"

\* The Git index, the tip and the files agree.
Clean ==
    /\ index.cards = TreeOf(head).cards
    /\ \A p \in Path : \/ TreeOf(head).cards[p] = files[p]
                       \/ ~Tracked /\ TreeOf(head).cards[p] = Absent

\* ... and agreed when s was saved.
Based(s) ==
    /\ s.index.cards = TreeOf(s.head).cards
    /\ \A p \in Path : \/ TreeOf(s.head).cards[p] = IF p \in s.paths THEN s.before[p] ELSE files[p]
                       \/ ~Tracked /\ TreeOf(s.head).cards[p] = Absent

FilesBack(s) == \A p \in s.paths : files[p] = s.before[p]
RowsBefore(s) == \A p \in s.paths : db[p] = s.before[p]
RowsAfter(s) == \A p \in s.paths : db[p] = s.after[p]

\* With a journal, the tip tells whether the change happened, and the rows are
\* those before or, only if it did, those after it.
Sound ==
    /\ Based(journal)
    /\ \A p \in journal.paths : journal.before[p] # Torn
    /\ \/ head = journal.head /\ RowsBefore(journal)
       \/ OwnTip(journal) /\ (RowsBefore(journal) \/ RowsAfter(journal))

\* A project nobody else touches is clean without a journal and sound with one,
\* where a recovery has come as far as pc says.
UntouchedInv ==
    Untouched =>
    /\ \A p \in Path : db[p] # Torn
    /\ journal = NoSaved => Clean
    /\ journal # NoSaved =>
        /\ Sound
        /\ pc \in {"rebuild", "settled"} =>
              IF head = journal.head THEN index = journal.index /\ FilesBack(journal)
              ELSE IndexKept(journal)
        /\ pc = "landedPaths" => index = journal.index
        /\ pc = "settleFiles" =>
              \A p \in journal.paths \ toRestore : files[p] = journal.before[p]
-----------------------------------------------------------------------------
\* A commit that an operation makes leaves a tracked project tracked, and an
\* untracked one untracked.
LEMMA TrackedKept ==
    ASSUME TypeOK, CommitIndex("card")
    PROVE  Tracked' <=> Tracked
<1>1. /\ head' = Len(commits) + 1 /\ DOMAIN commits' = 1..head'
      /\ \A i \in DOMAIN commits : commits'[i] = commits[i]
      /\ commits'[head'] = [parent |-> head, tree |-> index,
                           past |-> Past(head) \cup {head'}, by |-> "card"]
  BY CommitAdds
<1>2. commits \in Seq(Commit) /\ Len(commits) \in Nat /\ DOMAIN commits = 1..Len(commits)
  BY DEF TypeOK
<1>3. commits' # << >>
  BY <1>1, <1>2
<1>4. CASE commits = << >>
  BY <1>1, <1>4 DEF Tracked
<1>5. CASE commits # << >>
  <2>1. 1 \in DOMAIN commits
    BY <1>2, <1>5
  <2> QED  BY <1>1, <1>3, <1>5, <2>1 DEF Tracked
<1> QED  BY <1>4, <1>5

\* The end of a change that landed, and of one that was undone
LEMMA LandedClean ==
    ASSUME TypeOK, NEW s \in Saved, Whole(s), Based(s), OwnTip(s), IndexKept(s), FilesDone(s)
    PROVE  Clean
<1>1. s.changed \subseteq s.paths /\ s.paths \subseteq Path
  BY DEF Saved, Whole, WellFormed
<1>2. TreeOf(head) = commits[head].tree
  BY DEF OwnTip, TreeOf
<1>3. \A p \in Path : TreeOf(head).cards[p] = IF p \in s.changed THEN s.after[p]
                                              ELSE TreeOf(s.head).cards[p]
  BY <1>2 DEF OwnTip
<1>4. index.cards \in [Path -> Content] /\ TreeOf(head).cards \in [Path -> Content]
  <2>1. TreeOf(head) \in Tree
    BY TreeOfType DEF TypeOK
  <2> QED  BY <2>1 DEF TypeOK, Tree
<1>5. \A p \in Path : index.cards[p] = TreeOf(head).cards[p]
  BY <1>1, <1>3 DEF IndexKept, Based
<1>6. index.cards = TreeOf(head).cards
  BY <1>4, <1>5
<1>7. ASSUME NEW p \in Path
      PROVE  \/ TreeOf(head).cards[p] = files[p]
             \/ ~Tracked /\ TreeOf(head).cards[p] = Absent
  <2>1. CASE p \in s.changed
    BY <1>1, <1>3, <2>1 DEF FilesDone
  <2>2. CASE p \in s.paths /\ p \notin s.changed
    BY <1>3, <2>2 DEF FilesDone, Based, Whole, WellFormed
  <2>3. CASE p \notin s.paths
    BY <1>1, <1>3, <2>3 DEF Based
  <2> QED  BY <2>1, <2>2, <2>3
<1> QED  BY <1>6, <1>7 DEF Clean

LEMMA UndoneClean ==
    ASSUME NEW s, Based(s), head = s.head, index = s.index, FilesBack(s)
    PROVE  Clean
BY DEF Based, FilesBack, Clean

LEMMA UntouchedStep ==
    ASSUME ~TearUnjournalled, IInv, IInv', JournalInv, HeadInv, HeadInv', StageInv, PutBackInv,
           EditInv, UntouchedInv, [Next]_vars
    PROVE  UntouchedInv'
<1> TypeOK
  BY DEF IInv
<1> SUFFICES ASSUME Untouched' PROVE UntouchedInv'
  BY DEF UntouchedInv
<1> DEFINE Settling == pc \in {"rebuild", "settled", "landedPaths", "settleFiles"}
<1> USE DEF Forward, Undo, Settle, disk, work, env
<1>1. Untouched /\ ~Outside
  <2>1. ~Outside
    <3>1. outside \in Nat /\ edits \in Nat
      BY ConstantsAssumption DEF TypeOK
    <3> QED  BY <3>1 DEF Outside, OutsideCommit, OutsideEdit, Untouched
  <2>2. UNCHANGED <<outside, edits>>
    <3>1. CASE \/ WriteJournal \/ ResetIndex \/ GitCommit \/ PreserveIndex \/ AdoptPaths
               \/ TxCommit \/ Finish \/ UndoRef \/ UndoIndex \/ UndoJournal
      BY <3>1 DEF WriteJournal, ResetIndex, GitCommit, PreserveIndex, AdoptPaths, TxCommit,
         Finish, UndoRef, UndoIndex, UndoJournal
    <3>2. CASE \/ RecoverFiles \/ SettleIndex \/ PutBackDone \/ LandedIndex \/ LandedPaths
               \/ Rebuild \/ RebuildRejects \/ FinishRecovery \/ Restart \/ RebuildOnly
      BY <3>2 DEF RecoverFiles, SettleIndex, PutBackDone, LandedIndex, LandedPaths, Rebuild,
         RebuildRejects, FinishRecovery, Restart, RebuildOnly
    <3>3. CASE \E c \in Card : RenameFile(c) \/ RemovePath(c) \/ WriteFile(c) \/ StagePath(c)
      BY <3>3 DEF RenameFile, RemovePath, WriteFile, StagePath
    <3>4. CASE Faulty
      BY <3>4 DEF Faulty, Fail, FailSettling, Crash, FailWriting, CrashWriting, FailRestoring,
         CrashRestoring, Die, NoMoreThanFault
    <3>5. CASE StartSome \/ (\E p \in Path : RestoreFile(p)) \/ UNCHANGED vars
      BY <3>5 DEF StartSome, Start, RestoreFile, vars
    <3> QED  BY <2>1, <3>1, <3>2, <3>3, <3>4, <3>5 DEF Next, Progress
  <2> QED  BY <2>1, <2>2 DEF Untouched
<1>2. /\ edits = 0 /\ \A p \in Path : db[p] # Torn
      /\ journal = NoSaved => Clean
      /\ journal # NoSaved => /\ Sound /\ Based(journal)
                              /\ \A p \in journal.paths : journal.before[p] # Torn
  BY <1>1 DEF UntouchedInv, Untouched, Sound
<1>3. journal # NoSaved /\ head # journal.head =>
          /\ OwnTip(journal) /\ head \in Landed(journal) /\ FilesDone(journal)
  <2>1. OwnTip(journal) => head \in Landed(journal) /\ OwnLanded(journal)
    BY OwnTipLanded DEF TypeOK
  <2> QED  BY <1>2, <2>1 DEF EditInv, Sound
\* Steps that leave the project without a journal, or in the middle of a change
<1>4. CASE /\ journal = NoSaved /\ journal' = NoSaved
           /\ UNCHANGED <<index, commits, head, db>>
  <2>1. files = db /\ files' = db'
    BY <1>4 DEF IInv
  <2>2. Clean'
    BY <1>2, <1>4, <2>1 DEF Clean, TreeOf, Tracked
  <2> QED  BY <1>2, <1>4, <2>2 DEF UntouchedInv
<1>5. ASSUME journal # NoSaved, UNCHANGED <<commits, head, db, journal>>,
             \A p \in Path : p \notin journal.paths => files'[p] = files[p]
      PROVE  Sound'
  BY <1>2, <1>5 DEF Sound, Based, RowsBefore, RowsAfter, OwnTip, TreeOf, Past, Tracked
<1>6. CASE /\ journal # NoSaved /\ UNCHANGED <<commits, head, db, journal>>
           /\ \A p \in Path : p \notin journal.paths => files'[p] = files[p]
           /\ ~Settling'
  <2>1. Sound'
    BY <1>5, <1>6
  <2> QED  BY <1>2, <1>6, <2>1 DEF UntouchedInv
<1>7. CASE journal' = NoSaved /\ Clean /\ UNCHANGED <<files, index, commits, head, db>>
  <2>1. Clean'
    BY <1>7 DEF Clean, TreeOf, Tracked
  <2> QED  BY <1>2, <1>7, <2>1 DEF UntouchedInv
\* One step per action
<1>8. CASE StartSome \/ RebuildOnly
  BY <1>4, <1>8 DEF StartSome, Start, RebuildOnly
<1>9. CASE WriteJournal
  <2>1. /\ journal = NoSaved /\ journal' = saved /\ pc = "journal" /\ pc' = "reset"
        /\ UNCHANGED <<files, index, commits, head, db, saved>>
    BY <1>9 DEF WriteJournal, JournalInv
  <2>2. /\ Clean /\ files = db /\ head = saved.head /\ index = saved.index
        /\ \A p \in saved.paths : saved.before[p] = db[p]
    BY <1>2, <2>1 DEF IInv, TxInv, InTx, HeadInv, StageInv
  <2>3. saved.paths \subseteq Path
    BY DEF TypeOK, Saved
  <2>4. Based(saved)
    BY <2>2 DEF Clean, Based
  <2>5. Based(journal)'
    BY <2>1, <2>4 DEF Based, TreeOf, Tracked
  <2>6. RowsBefore(journal)' /\ head' = journal'.head
    BY <2>1, <2>2 DEF RowsBefore
  <2>7. \A p \in journal'.paths : journal'.before[p] # Torn
    BY <1>2, <2>1, <2>2, <2>3
  <2>8. journal' # NoSaved
    BY <2>1, EmptyValues DEF JournalInv, InTx, Whole, WellFormed
  <2> QED  BY <1>2, <2>1, <2>5, <2>6, <2>7, <2>8 DEF UntouchedInv, Sound
<1>10. CASE ResetIndex \/ PreserveIndex \/ AdoptPaths
  BY <1>6, <1>10 DEF ResetIndex, PreserveIndex, AdoptPaths, IInv, ForwardInv
<1>11. CASE \E c \in Card : RemovePath(c) \/ StagePath(c)
  BY <1>6, <1>11 DEF RemovePath, StagePath, IInv, ForwardInv
<1>12. CASE \E c \in Card : RenameFile(c) \/ WriteFile(c) \/ FailWriting(c) \/ CrashWriting(c)
  <2>1. PICK c \in Card : RenameFile(c) \/ WriteFile(c) \/ FailWriting(c) \/ CrashWriting(c)
    BY <1>12
  <2>2. /\ pc = "work" /\ pc' \in {"unstage", "stage", "undoRef", "down"}
        /\ UNCHANGED <<commits, head, db, journal>>
    BY <2>1 DEF RenameFile, WriteFile, FailWriting, CrashWriting, Die
  <2>3. journal = saved /\ journal # NoSaved /\ saved.changed \subseteq saved.paths
    BY <2>2 DEF JournalInv, Whole, WellFormed, IInv, ForwardInv
  <2>4. \A p \in Path : p \notin saved.changed => files'[p] = files[p]
    <3>1. Gone(c) \subseteq saved.changed /\ Put(c) \subseteq saved.changed
      BY DEF Gone, Put
    <3> QED  BY <2>1, <3>1, Zenon DEF RenameFile, WriteFile, FailWriting, CrashWriting
  <2> QED  BY <1>6, <2>2, <2>3, <2>4
<1>13. CASE Fail \/ FailSettling \/ Crash \/ Restart \/ RebuildRejects
  <2>1. UNCHANGED disk /\ pc' \in {"undoRef", "idle", "down"}
    BY <1>13 DEF Fail, FailSettling, Crash, Restart, RebuildRejects, Return, Die
  <2> QED  BY <1>4, <1>6, <2>1
<1>14. CASE GitCommit
  <2>1. /\ CommitIndex("card") /\ pc = "work" /\ pc' = "preserve"
        /\ UNCHANGED <<files, db, journal, saved>>
    BY <1>14 DEF GitCommit
  <2>2. journal = saved /\ journal # NoSaved
    BY <2>1 DEF JournalInv, IInv, ForwardInv
  <2>3. OwnTip(journal)'
    BY <2>1, <2>2 DEF HeadInv
  <2>4. TreeOf(journal.head)' = TreeOf(journal.head)
    BY <2>1, CommitAdds DEF TypeOK
  <2>5. Based(journal)'
    BY <1>2, <2>1, <2>2, <2>4, TrackedKept DEF Based
  <2>6. RowsBefore(journal)'
    BY <2>1, <2>2 DEF RowsBefore, IInv, TxInv, InTx
  <2> QED  BY <1>2, <2>1, <2>2, <2>3, <2>5, <2>6 DEF UntouchedInv, Sound
<1>15. CASE TxCommit
  <2>1. /\ pc = "txcommit" /\ pc' = "finish" /\ db' = Rows(saved)
        /\ UNCHANGED <<files, commits, head, journal>>
    BY <1>15 DEF TxCommit
  <2>2. journal = saved /\ journal # NoSaved /\ OwnTip(journal)
    BY <2>1, Zenon DEF JournalInv, IInv, ForwardInv, HeadInv
  <2>3. saved \in Saved /\ Torn \notin Content
    BY ConstantsAssumption DEF TypeOK, Content
  <2>4. \A p \in Path : db'[p] # Torn
    BY <1>2, <2>1, <2>3, Zenon DEF Rows, Saved
  <2>5. RowsAfter(journal)'
    BY <2>1, <2>2, <2>3 DEF RowsAfter, Rows, Saved
  <2>6. Based(journal)' /\ OwnTip(journal)'
    BY <1>2, <2>1, <2>2 DEF Based, OwnTip, TreeOf, Past, Tracked
  <2> QED  BY <1>2, <2>1, <2>2, <2>4, <2>5, <2>6, Zenon DEF UntouchedInv, Sound
<1>16. CASE Finish
  <2>1. pc = "finish" /\ journal' = NoSaved /\ UNCHANGED <<files, index, commits, head, db>>
    BY <1>16 DEF Finish
  <2>2. journal = saved /\ OwnTip(saved) /\ IndexKept(saved)
    BY <2>1 DEF JournalInv, HeadInv, StageInv
  <2>3. CASE journal = NoSaved
    BY <1>4, <2>1, <2>3
  <2>4. CASE journal # NoSaved
    <3>1. Whole(saved) /\ Based(saved) /\ FilesDone(saved) /\ saved \in Saved
      BY <1>2, <1>3, <2>2, <2>4 DEF JournalInv, TypeOK, OwnTip
    <3> QED  BY <1>7, <2>1, <2>2, <3>1, LandedClean
  <2> QED  BY <2>3, <2>4
<1>17. CASE UndoRef
  <2>1. /\ pc = "undoRef" /\ pc' = "undoFiles"
        /\ UNCHANGED <<files, index, commits, db, journal, saved>>
    BY <1>17 DEF UndoRef
  <2>2. OwnTip(saved) => IsOperationCommit(head, saved)
    BY OwnTipLanded DEF TypeOK
  <2>3. head' = saved.head /\ (journal = NoSaved => head = saved.head)
    BY <1>17, <2>2 DEF UndoRef, HeadInv
  <2>4. CASE journal = NoSaved
    BY <1>4, <2>1, <2>3, <2>4
  <2>5. CASE journal # NoSaved
    <3>1. journal = saved
      BY <2>1, <2>5 DEF JournalInv
    <3>2. RowsBefore(journal)'
      BY <2>1, <3>1 DEF RowsBefore, IInv, TxInv, InTx
    <3>3. Based(journal)'
      BY <1>2, <2>1, <2>5 DEF Based, TreeOf, Tracked
    <3> QED  BY <1>2, <2>1, <2>3, <2>5, <3>1, <3>2, <3>3 DEF UntouchedInv, Sound
  <2> QED  BY <2>4, <2>5
<1>18. CASE UndoIndex
  BY <1>4, <1>6, <1>18 DEF UndoIndex, StageInv, InTx
<1>19. CASE UndoJournal
  <2>1. pc = "undoJournal" /\ journal' = NoSaved /\ UNCHANGED <<files, index, commits, head, db>>
    BY <1>19 DEF UndoJournal
  <2>2. CASE journal = NoSaved
    BY <1>4, <2>1, <2>2
  <2>3. CASE journal # NoSaved
    <3>1. journal = saved /\ head = saved.head /\ index = saved.index /\ FilesBack(saved)
      BY <2>1, <2>3 DEF JournalInv, HeadInv, StageInv, IInv, UndoInv, FilesBack
    <3>2. Based(saved)
      BY <1>2, <2>3, <3>1
    <3> QED  BY <1>7, <2>1, <3>1, <3>2, UndoneClean
  <2> QED  BY <2>2, <2>3
<1>20. ASSUME NEW p \in Path, RestoreFile(p) PROVE UntouchedInv'
  <2>1. /\ pc \in {"undoFiles", "settleFiles", "putBack"} /\ p \in toRestore
        /\ UNCHANGED <<index, commits, head, db, journal, saved, pc>>
        /\ toRestore' = toRestore \ {p}
        /\ \A q \in Path : files'[q] = IF q = p THEN saved.before[p] ELSE files[q]
    BY <1>20 DEF RestoreFile, TypeOK
  <2>2. CASE journal = NoSaved
    BY <1>4, <2>1, <2>2
  <2>3. CASE journal # NoSaved /\ pc # "settleFiles"
    <3>1. journal = saved /\ p \in saved.paths
      BY <2>1, <2>3 DEF JournalInv, PutBackInv, IInv, UndoInv
    <3> QED  BY <1>6, <2>1, <2>3, <3>1
  <2>4. CASE journal # NoSaved /\ pc = "settleFiles"
    <3>1. journal = saved /\ p \in saved.paths /\ saved.paths \subseteq Path
      BY <2>1, <2>4 DEF JournalInv, PutBackInv, TypeOK, Saved
    <3>2. Sound'
      BY <1>5, <2>1, <2>4, <3>1
    <3>3. \A q \in journal.paths \ toRestore : files[q] = journal.before[q]
      BY <1>1, <2>4 DEF UntouchedInv
    <3>4. \A q \in journal'.paths \ toRestore' : files'[q] = journal'.before[q]
      BY <2>1, <3>1, <3>3
    <3> QED  BY <1>2, <2>1, <2>4, <3>2, <3>4 DEF UntouchedInv
  <2> QED  BY <2>2, <2>3, <2>4
<1>21. ASSUME NEW p \in Path, FailRestoring(p) \/ CrashRestoring(p) PROVE UntouchedInv'
  <2>1. /\ pc \in {"undoFiles", "settleFiles", "putBack"} /\ p \in toRestore
        /\ journal # NoSaved /\ pc' \in {"idle", "down"}
        /\ UNCHANGED <<index, commits, head, db, journal>>
        /\ \A q \in Path : q # p => files'[q] = files[q]
    BY <1>21 DEF FailRestoring, CrashRestoring, TearRestored, Return, Die, TypeOK
  <2>2. p \in journal.paths
    BY <2>1 DEF JournalInv, PutBackInv, IInv, UndoInv
  <2> QED  BY <1>6, <2>1, <2>2
<1>22. CASE RecoverFiles
  <2>1. journal # NoSaved /\ UNCHANGED disk
    BY <1>22 DEF RecoverFiles
  <2>2. CASE pc' = "settleFiles"
    <3>1. toRestore' = journal.paths
      BY <1>22, <2>2 DEF RecoverFiles
    <3>2. Sound'
      BY <1>5, <2>1
    <3> QED  BY <1>2, <2>1, <2>2, <3>1, <3>2 DEF UntouchedInv
  <2>3. CASE pc' # "settleFiles"
    <3>1. pc' \in {"landedIndex", "putBack"}
      BY <1>3, <1>22, <2>3 DEF RecoverFiles
    <3> QED  BY <1>6, <2>1, <3>1
  <2> QED  BY <2>2, <2>3
<1>23. CASE SettleIndex
  <2>1. /\ pc = "settleFiles" /\ toRestore = {} /\ pc' = "rebuild" /\ index' = saved.index
        /\ UNCHANGED <<files, commits, head, db, journal>>
    BY <1>23 DEF SettleIndex
  <2>2. journal = saved /\ journal # NoSaved /\ head = saved.head
    BY <2>1 DEF JournalInv, HeadInv
  <2>3. FilesBack(journal)'
    BY <1>1, <2>1, <2>2 DEF UntouchedInv, FilesBack
  <2>4. Sound'
    BY <1>5, <2>1, <2>2
  <2> QED  BY <1>2, <2>1, <2>2, <2>3, <2>4 DEF UntouchedInv
<1>24. CASE PutBackDone
  BY <1>3, <1>24 DEF PutBackDone, JournalInv, HeadInv
<1>25. CASE LandedIndex
  <2>1. /\ pc = "landedIndex" /\ pc' = "landedPaths" /\ index' = saved.index
        /\ UNCHANGED <<files, commits, head, db, journal>>
    BY <1>25 DEF LandedIndex
  <2>2. journal = saved /\ journal # NoSaved
    BY <2>1 DEF JournalInv
  <2>3. Sound'
    BY <1>5, <2>1, <2>2
  <2> QED  BY <1>2, <2>1, <2>2, <2>3 DEF UntouchedInv
<1>26. CASE LandedPaths
  <2>1. /\ pc = "landedPaths" /\ pc' = "rebuild" /\ index' = TakePaths(saved, head)
        /\ UNCHANGED <<files, commits, head, db, journal>>
    BY <1>26 DEF LandedPaths
  <2>2. journal = saved /\ journal # NoSaved /\ head # saved.head /\ index = journal.index
    BY <1>1, <2>1 DEF JournalInv, HeadInv, UntouchedInv
  <2>3. IndexKept(journal)'
    BY <2>1, <2>2 DEF TakePaths, IndexKept, TreeOf, TypeOK, Tree
  <2>4. Sound'
    BY <1>5, <2>1, <2>2
  <2> QED  BY <1>2, <2>1, <2>2, <2>3, <2>4 DEF UntouchedInv
<1>27. CASE Rebuild
  <2>1. /\ pc = "rebuild" /\ pc' = "settled" /\ db' = files
        /\ UNCHANGED <<files, index, commits, head, journal>>
    BY <1>27 DEF Rebuild
  <2>2. CASE journal = NoSaved
    BY <1>4, <2>1, <2>2 DEF IInv
  <2>3. CASE journal # NoSaved
    <3>1. /\ \A p \in Path \ journal.paths : files[p] = db[p]
          /\ IF head = journal.head THEN index = journal.index /\ FilesBack(journal)
             ELSE IndexKept(journal)
      BY <1>1, <2>1, <2>3 DEF EditInv, UntouchedInv, Untouched
    <3>2. journal \in Saved /\ Torn \notin Content
      BY ConstantsAssumption DEF TypeOK, Content
    <3>3. IF head = journal.head THEN FilesBack(journal) ELSE FilesDone(journal)
      BY <1>3, <2>3, <3>1
    <3>4. \A p \in Path : db'[p] # Torn
      BY <1>2, <2>1, <2>3, <3>1, <3>2, <3>3 DEF FilesBack, FilesDone, Saved
    <3>5. IF head' = journal'.head THEN RowsBefore(journal)' ELSE RowsAfter(journal)'
      BY <2>1, <3>3 DEF FilesBack, FilesDone, RowsBefore, RowsAfter
    <3>6. Based(journal)' /\ (head' # journal'.head => OwnTip(journal)')
      BY <1>2, <2>1, <2>3, Zenon DEF Sound, Based, OwnTip, TreeOf, Past, Tracked
    <3>7. IF head' = journal'.head THEN index' = journal'.index /\ FilesBack(journal)'
          ELSE IndexKept(journal)'
      BY <2>1, <3>1 DEF FilesBack, IndexKept, TreeOf
    <3>8. \A p \in journal'.paths : journal'.before[p] # Torn
      BY <1>2, <2>1, <2>3, Zenon DEF Sound
    <3>9. Sound'
      BY <3>5, <3>6, <3>8 DEF Sound
    <3> QED  BY <2>1, <2>3, <3>4, <3>7, <3>9 DEF UntouchedInv
  <2> QED  BY <2>2, <2>3
<1>28. CASE FinishRecovery
  <2>1. pc = "settled" /\ journal' = NoSaved /\ UNCHANGED <<files, index, commits, head, db>>
    BY <1>28 DEF FinishRecovery
  <2>2. CASE journal = NoSaved
    BY <1>4, <2>1, <2>2
  <2>3. CASE journal # NoSaved /\ head = journal.head
    <3>1. Based(journal) /\ index = journal.index /\ FilesBack(journal)
      BY <1>1, <1>2, <2>1, <2>3 DEF UntouchedInv, Sound
    <3> QED  BY <1>7, <2>1, <2>3, <3>1, UndoneClean
  <2>4. CASE journal # NoSaved /\ head # journal.head
    <3>1. /\ Whole(journal) /\ Based(journal) /\ OwnTip(journal) /\ IndexKept(journal)
          /\ FilesDone(journal) /\ journal \in Saved
      BY <1>1, <1>2, <1>3, <2>1, <2>4, Zenon DEF UntouchedInv, Sound, JournalInv, TypeOK
    <3> QED  BY <1>7, <2>1, <3>1, LandedClean
  <2> QED  BY <2>2, <2>3, <2>4
<1>29. CASE UNCHANGED vars
  BY <1>1, <1>29, Zenon DEF vars, UntouchedInv, Sound, Clean, Based, OwnTip, TreeOf, Past,
     Tracked,
     RowsBefore, RowsAfter, FilesBack, IndexKept
<1> QED
  BY <1>1, <1>8, <1>9, <1>10, <1>11, <1>12, <1>13, <1>14, <1>15, <1>16, <1>17, <1>18, <1>19,
     <1>20, <1>21, <1>22, <1>23, <1>24, <1>25, <1>26, <1>27, <1>28, <1>29
  DEF Next, Progress, Faulty
=============================================================================
