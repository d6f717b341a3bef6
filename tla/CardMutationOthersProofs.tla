----------------------- MODULE CardMutationOthersProofs -----------------------
(***************************************************************************)
(* What others did to a project: for every set of cards and every number   *)
(* of faults, their commits and their edits survive a change that fails,   *)
(* crashes or is recovered.                                                *)
(***************************************************************************)
EXTENDS CardMutationHistoryProofs

-----------------------------------------------------------------------------
\* The inductive invariant, continued

\* As long as nobody else writes files, those of other cards are as indexed, and
\* those of the change are the new ones if its own commit is on the branch.
EditInv ==
    edits = 0 /\ journal # NoSaved =>
        /\ \A p \in Path \ journal.paths : files[p] = db[p]
        /\ OwnLanded(journal) => FilesDone(journal)

\* What others committed is on the branch, and was before the operation began.
OutsideInv ==
    \A i \in DOMAIN commits : commits[i].by = "outside" =>
        i \in Past(head) /\ (InTx => i \in Past(saved.head))

\* A recovery restores files of the change, and on a branch that has moved only
\* those that still hold its bytes.
PutBackInv ==
    /\ pc \in {"settleFiles", "putBack"} => toRestore \subseteq saved.paths
    /\ pc = "putBack" => \A p \in toRestore : files[p] = saved.after[p]
-----------------------------------------------------------------------------
LEMMA OutsideStep ==
    ASSUME IInv, HeadInv, OutsideInv, [Next]_vars
    PROVE  OutsideInv'
<1> TypeOK
  BY DEF IInv
<1> USE DEF OutsideInv, InTx, Forward, Undo, Settle, disk, work, env
<1>1. CASE UNCHANGED <<commits, head, saved>> /\ (InTx' => InTx)
  BY <1>1 DEF Past
<1>2. CASE UNCHANGED <<commits, head>> /\ ~InTx'
  BY <1>2 DEF Past
<1>3. CASE GitCommit \/ OutsideCommit
  <2>1. PICK w \in {"card", "outside"} :
           CommitIndex(w) /\ (InTx' => InTx /\ w = "card" /\ saved' = saved)
    BY <1>3 DEF GitCommit, OutsideCommit
  <2>2. /\ head' = Len(commits) + 1 /\ DOMAIN commits' = 1..head'
        /\ \A i \in DOMAIN commits : commits'[i] = commits[i]
        /\ commits'[head'] = [parent |-> head, tree |-> index,
                             past |-> Past(head) \cup {head'}, by |-> w]
        /\ \A i \in 0..Len(commits) : TreeOf(i)' = TreeOf(i) /\ Past(i)' = Past(i)
    BY <2>1, CommitAdds, Zenon
  <2>3. Len(commits) \in Nat /\ DOMAIN commits = 1..Len(commits) /\ saved.head \in 0..Len(commits)
    BY DEF TypeOK
  <2>4. Past(head)' = Past(head) \cup {head'}
    BY <2>2, <2>3 DEF Past
  <2>5. InTx' => Past(saved.head)' = Past(saved.head)
    BY <2>1, <2>2, <2>3
  <2>6. \A i \in DOMAIN commits' : i = head' \/ (i \in DOMAIN commits /\ commits'[i] = commits[i])
    BY <2>2, <2>3
  <2>7. commits'[head'].by = w
    BY <2>2
  <2> QED  BY <2>1, <2>4, <2>5, <2>6, <2>7
<1>4. CASE UndoRef
  BY <1>4 DEF UndoRef, Past
<1>5. CASE StartSome
  <2>1. PICK cs \in (SUBSET Card) \ {{}} : \E moved \in SUBSET cs, body \in [cs -> Val] :
           Start(cs, moved, body)
    BY <1>5 DEF StartSome
  <2>2. PICK moved \in SUBSET cs, body \in [cs -> Val] : Start(cs, moved, body)
    BY <2>1
  <2>3. saved'.head = head /\ UNCHANGED disk
    BY <2>2, StartFacts DEF Start
  <2> QED  BY <2>3 DEF Past
<1>6. CASE Progress
  <2> HIDE DEF OutsideInv
  <2>1. CASE WriteJournal \/ ResetIndex \/ PreserveIndex \/ AdoptPaths \/ TxCommit \/ UndoIndex
    BY <1>1, <1>2, <2>1
    DEF WriteJournal, ResetIndex, PreserveIndex, AdoptPaths, TxCommit, UndoIndex
  <2>2. CASE \E c \in Card : RenameFile(c) \/ RemovePath(c) \/ WriteFile(c) \/ StagePath(c)
    BY <1>1, <2>2 DEF RenameFile, RemovePath, WriteFile, StagePath
  <2>3. CASE Finish \/ UndoJournal \/ RebuildRejects \/ FinishRecovery \/ Restart
    BY <1>2, <2>3 DEF Finish, UndoJournal, RebuildRejects, FinishRecovery, Restart, Return
  <2>4. CASE \E p \in Path : RestoreFile(p)
    BY <1>1, <2>4 DEF RestoreFile
  <2>5. CASE RecoverFiles \/ SettleIndex \/ PutBackDone \/ LandedIndex \/ LandedPaths \/ Rebuild
    BY <1>2, <2>5
    DEF RecoverFiles, SettleIndex, PutBackDone, LandedIndex, LandedPaths, Rebuild
  <2> QED  BY <1>3, <1>4, <1>6, <2>1, <2>2, <2>3, <2>4, <2>5 DEF Progress
<1>7. CASE Faulty
  BY <1>1, <1>2, <1>7
  DEF Faulty, Fail, FailSettling, Crash, FailWriting, CrashWriting, FailRestoring,
      CrashRestoring, TearRestored, Die, Return
<1>8. CASE RebuildOnly \/ \E p \in Path, b \in Content : OutsideEdit(p, b)
  BY <1>2, <1>8 DEF RebuildOnly, OutsideEdit
<1>9. CASE UNCHANGED vars
  BY <1>1, <1>9 DEF vars
<1> HIDE DEF OutsideInv, InTx
<1> QED
  BY <1>3, <1>5, <1>6, <1>7, <1>8, <1>9 DEF Next, Outside

LEMMA PutBackStep ==
    ASSUME IInv, JournalInv, PutBackInv, [Next]_vars
    PROVE  PutBackInv'
<1> TypeOK
  BY DEF IInv
<1> USE DEF PutBackInv, Forward, Undo, Settle, disk, work, env
<1>1. CASE pc' \notin {"settleFiles", "putBack"}
  BY <1>1
<1>2. CASE RecoverFiles
  BY <1>2, EmptyValues DEF RecoverFiles, JournalInv, Whole, WellFormed
<1>3. ASSUME NEW p \in Path, RestoreFile(p) PROVE PutBackInv'
  BY <1>3 DEF RestoreFile, TypeOK
<1>4. CASE Progress
  <2> HIDE DEF PutBackInv
  <2>1. CASE WriteJournal \/ ResetIndex \/ PreserveIndex \/ AdoptPaths \/ TxCommit \/ UndoIndex
             \/ UndoRef \/ GitCommit
    BY <1>1, <2>1 DEF WriteJournal, ResetIndex, PreserveIndex, AdoptPaths, TxCommit, UndoIndex,
       UndoRef, GitCommit
  <2>2. CASE \E c \in Card : RenameFile(c) \/ RemovePath(c) \/ WriteFile(c) \/ StagePath(c)
    BY <1>1, <2>2 DEF RenameFile, RemovePath, WriteFile, StagePath
  <2>3. CASE Finish \/ UndoJournal \/ RebuildRejects \/ FinishRecovery \/ Restart
    BY <1>1, <2>3 DEF Finish, UndoJournal, RebuildRejects, FinishRecovery, Restart, Return
  <2>4. CASE SettleIndex \/ PutBackDone \/ LandedIndex \/ LandedPaths \/ Rebuild
    BY <1>1, <2>4 DEF SettleIndex, PutBackDone, LandedIndex, LandedPaths, Rebuild
  <2> QED  BY <1>2, <1>3, <1>4, <2>1, <2>2, <2>3, <2>4 DEF Progress
<1>5. CASE Faulty
  BY <1>1, <1>5
  DEF Faulty, Fail, FailSettling, Crash, FailWriting, CrashWriting, FailRestoring,
      CrashRestoring, Die, Return
<1>6. CASE RebuildOnly \/ StartSome \/ Outside
  BY <1>1, <1>6 DEF RebuildOnly, StartSome, Start, Outside, OutsideCommit, OutsideEdit
<1>7. CASE UNCHANGED vars
  BY <1>7 DEF vars
<1> HIDE DEF PutBackInv
<1> QED
  BY <1>4, <1>5, <1>6, <1>7 DEF Next

LEMMA EditStep ==
    ASSUME IInv, JournalInv, HeadInv, PutBackInv, EditInv, [Next]_vars
    PROVE  EditInv'
<1> TypeOK
  BY DEF IInv
<1> USE DEF EditInv, InTx, Forward, Undo, Settle, disk, work, env
<1>1. head' = journal'.head => ~OwnLanded(journal)'
  BY DEF OwnLanded, Landed
\* The four ways in which a step can keep the invariant
<1>2. CASE journal' = NoSaved \/ edits' # 0
  BY <1>2
<1>3. CASE UNCHANGED <<commits, head, files, journal, edits>> /\ (db' = db \/ db' = files)
  BY <1>3 DEF OwnLanded, Landed, IsOperationCommit, Past, FilesDone
<1>4. CASE /\ UNCHANGED <<db, journal, edits>> /\ head' = journal'.head
           /\ \A p \in Path \ journal.paths : files'[p] = files[p]
  BY <1>1, <1>4
<1>5. CASE /\ pc \in Forward /\ UNCHANGED <<files, journal, edits>> /\ journal = saved
           /\ \A p \in Path \ journal.paths : db'[p] = db[p]
           /\ toMove = {} /\ toWrite = {}
  <2>1. FilesDone(saved)
    BY <1>5 DEF IInv, ForwardInv, FilesDone
  <2> QED  BY <1>5, <2>1 DEF FilesDone
<1>6. journal # NoSaved => journal.changed \subseteq journal.paths
  BY DEF JournalInv, Whole, WellFormed
<1>7. CASE WriteJournal
  BY <1>1, <1>7 DEF WriteJournal, HeadInv, IInv, TxInv
<1>8. CASE \/ ResetIndex \/ PreserveIndex \/ AdoptPaths \/ UndoIndex \/ SettleIndex
           \/ LandedIndex \/ LandedPaths \/ Rebuild \/ PutBackDone \/ RecoverFiles
           \/ RebuildOnly \/ RebuildRejects \/ Restart \/ Fail \/ FailSettling \/ Crash
  <2> HIDE DEF EditInv
  <2>1. CASE \/ ResetIndex \/ PreserveIndex \/ AdoptPaths \/ UndoIndex \/ SettleIndex
             \/ LandedIndex \/ LandedPaths \/ Rebuild
    BY <1>3, <2>1 DEF ResetIndex, PreserveIndex, AdoptPaths, UndoIndex, SettleIndex,
       LandedIndex, LandedPaths, Rebuild
  <2>2. CASE PutBackDone \/ RecoverFiles \/ RebuildOnly \/ RebuildRejects \/ Restart
    BY <1>3, <2>2 DEF PutBackDone, RecoverFiles, RebuildOnly, RebuildRejects, Restart
  <2>3. CASE Fail \/ FailSettling \/ Crash
    BY <1>3, <2>3 DEF Fail, FailSettling, Crash, Die, NoMoreThanFault
  <2> QED  BY <1>8, <2>1, <2>2, <2>3
<1>9. CASE \E c \in Card : RemovePath(c) \/ StagePath(c)
  BY <1>3, <1>9 DEF RemovePath, StagePath
<1>10. CASE \E c \in Card : RenameFile(c) \/ WriteFile(c) \/ FailWriting(c) \/ CrashWriting(c)
  <2>1. PICK c \in Card : RenameFile(c) \/ WriteFile(c) \/ FailWriting(c) \/ CrashWriting(c)
    BY <1>10
  <2>2. pc = "work" /\ UNCHANGED <<db, journal, edits, head>>
    BY <2>1 DEF RenameFile, WriteFile, FailWriting, CrashWriting, Die, NoMoreThanFault
  <2>3. journal = saved /\ journal # NoSaved /\ head = saved.head
    BY <2>2 DEF JournalInv, HeadInv, IInv, ForwardInv
  <2>4. \A p \in Path : p \notin saved.changed => files'[p] = files[p]
    <3>1. Gone(c) \subseteq saved.changed /\ Put(c) \subseteq saved.changed
      BY DEF Gone, Put
    <3> QED  BY <2>1, <3>1, Zenon DEF RenameFile, WriteFile, FailWriting, CrashWriting
  <2> QED  BY <1>4, <1>6, <2>2, <2>3, <2>4
<1>11. CASE GitCommit
  BY <1>5, <1>11 DEF GitCommit, JournalInv
<1>12. CASE TxCommit
  BY <1>5, <1>12 DEF TxCommit, Rows, JournalInv, IInv, ForwardInv
<1>13. CASE Finish \/ UndoJournal \/ FinishRecovery
  BY <1>2, <1>13 DEF Finish, UndoJournal, FinishRecovery
<1>14. CASE UndoRef
  <2>1. OwnTip(saved) => IsOperationCommit(head, saved)
    BY OwnTipLanded DEF TypeOK
  <2>2. head' = saved.head
    BY <1>14, <2>1 DEF UndoRef, HeadInv
  <2> QED  BY <1>2, <1>4, <1>14, <2>2 DEF UndoRef, JournalInv
<1>15. CASE \E p \in Path : RestoreFile(p) \/ FailRestoring(p) \/ CrashRestoring(p)
  <2>1. PICK p \in Path : RestoreFile(p) \/ FailRestoring(p) \/ CrashRestoring(p)
    BY <1>15
  <2>2. /\ pc \in {"undoFiles", "settleFiles", "putBack"} /\ p \in toRestore
        /\ UNCHANGED <<db, journal, edits, head, commits>>
        /\ \A q \in Path : q # p => files'[q] = files[q]
    BY <2>1 DEF RestoreFile, FailRestoring, CrashRestoring, TearRestored, Die, Return,
                NoMoreThanFault, TypeOK
  <2>3. p \in saved.paths /\ (journal # NoSaved => journal = saved)
    BY <2>2 DEF PutBackInv, JournalInv, IInv, UndoInv
  <2>4. CASE pc \in {"undoFiles", "settleFiles"}
    BY <1>2, <1>4, <2>2, <2>3, <2>4 DEF HeadInv
  <2>5. CASE pc = "putBack"
    <3>1. ~OwnLanded(journal)
      BY <2>5 DEF HeadInv, JournalInv, OwnLanded
    <3>2. ~OwnLanded(journal)'
      BY <2>2, <3>1 DEF OwnLanded, Landed, IsOperationCommit, Past
    <3> QED  BY <2>2, <2>3, <3>2
  <2> QED  BY <2>2, <2>4, <2>5
<1>16. CASE OutsideCommit
  <2>1. CommitIndex("outside") /\ UNCHANGED <<files, db, journal, edits>>
    BY <1>16 DEF OutsideCommit
  <2>2. /\ head' = Len(commits) + 1
        /\ \A i \in DOMAIN commits : commits'[i] = commits[i]
        /\ commits'[head'] = [parent |-> head, tree |-> index,
                             past |-> Past(head) \cup {head'}, by |-> "outside"]
        /\ \A i \in 0..Len(commits) : TreeOf(i)' = TreeOf(i) /\ Past(i)' = Past(i)
    BY <2>1, CommitAdds
  <2>3. /\ Len(commits) \in Nat /\ DOMAIN commits = 1..Len(commits)
        /\ head \in 0..Len(commits) /\ journal.head \in 0..Len(commits)
    BY DEF TypeOK
  <2>4. Past(head)' = Past(head) \cup {head'} /\ Past(journal.head)' = Past(journal.head)
    BY <2>1, <2>2, <2>3 DEF Past
  <2>5. Past(head) \subseteq DOMAIN commits
    <3>1. CASE head = 0
      BY <3>1 DEF Past
    <3>2. CASE head # 0
      <4>1. head \in DOMAIN commits
        BY <2>3, <3>2
      <4>2. commits[head].past \subseteq 1..head
        BY <4>1 DEF HeadInv, Ordered
      <4>3. 1..head \subseteq 1..Len(commits)
        BY <2>3
      <4> QED  BY <2>3, <3>2, <4>2, <4>3 DEF Past
    <3> QED  BY <3>1, <3>2
  <2>6. OwnLanded(journal)' => OwnLanded(journal)
    BY <2>1, <2>2, <2>4, <2>5 DEF OwnLanded, Landed, IsOperationCommit
  <2> QED  BY <2>1, <2>6 DEF FilesDone
<1>17. CASE \E p \in Path, b \in Content : OutsideEdit(p, b)
  <2>1. edits' = edits + 1 /\ edits \in Nat
    BY <1>17, ConstantsAssumption DEF OutsideEdit, TypeOK
  <2> QED  BY <1>2, <2>1
<1>18. CASE StartSome
  BY <1>2, <1>18, Zenon DEF StartSome, Start
<1>19. CASE UNCHANGED vars
  BY <1>3, <1>19 DEF vars
<1> HIDE DEF EditInv, InTx
<1> QED
  BY <1>7, <1>8, <1>9, <1>10, <1>11, <1>12, <1>13, <1>14, <1>15, <1>16, <1>17, <1>18, <1>19
  DEF Next, Progress, Faulty, Outside
-----------------------------------------------------------------------------
\* The parts together
HistoryInv ==
    IInv /\ JournalInv /\ HeadInv /\ StageInv /\ PutBackInv /\ EditInv /\ OutsideInv

LEMMA HistoryInit == Init => HistoryInv
<1> SUFFICES ASSUME Init PROVE HistoryInv
  OBVIOUS
<1>1. IInv /\ TypeOK
  BY InvInit DEF IInv
<1>2. /\ pc = "idle" /\ journal = NoSaved /\ db = files
      /\ \A p \in Path : files[p] \in Content
  <2>1. PICK where \in [Card -> Side \cup {"none"}], body \in [Card -> Val] :
           files = [p \in Path |-> IF where[p[2]] = p[1] THEN body[p[2]] ELSE Absent]
    BY DEF Init
  <2>2. \A p \in Path : files[p] \in Content
    BY <2>1 DEF Path, Content
  <2> QED  BY <2>2 DEF Init
<1>3. PICK other \in Content :
          \/ /\ commits = << [parent |-> 0, past |-> {1}, by |-> "init",
                              tree |-> [cards |-> files, other |-> Absent]] >>
             /\ head = 1
             /\ index = [cards |-> files, other |-> other]
          \/ /\ commits = << >>
             /\ head = 0
             /\ index = [NoTree EXCEPT !.other = other]
  BY DEF Init
<1>4. /\ \A i \in DOMAIN commits : i = 1 /\ commits[i].past = {1} /\ commits[i].by = "init"
      /\ {1} \subseteq 1..1
  BY <1>3
<1>5. JournalInv /\ StageInv /\ PutBackInv /\ EditInv
  BY <1>2 DEF JournalInv, StageInv, PutBackInv, EditInv, InTx, Forward, Undo
<1>6. Ordered
  BY <1>4 DEF Ordered
<1>7. HeadInv
  BY <1>2, <1>6 DEF HeadInv, Undo
<1>8. OutsideInv
  BY <1>4 DEF OutsideInv
<1> QED  BY <1>1, <1>5, <1>7, <1>8 DEF HistoryInv

LEMMA HistoryStep ==
    ASSUME ~TearUnjournalled, HistoryInv, [Next]_vars
    PROVE  HistoryInv'
<1>1. IInv /\ JournalInv /\ HeadInv /\ StageInv /\ PutBackInv /\ EditInv /\ OutsideInv
  BY DEF HistoryInv
<1>2. IInv'
  BY <1>1, InvStep
<1>3. JournalInv' /\ HeadInv' /\ StageInv' /\ PutBackInv'
  BY <1>1, JournalStep, HeadStep, StageStep, PutBackStep
<1>4. EditInv' /\ OutsideInv'
  BY <1>1, EditStep, OutsideStep
<1> QED  BY <1>2, <1>3, <1>4 DEF HistoryInv

\* Whatever crashes, failed rollbacks and recoveries happen, a commit that others
\* made while a journal was waiting stays on the branch: recover_journal moves no
\* ref and roll_back leaves only the operation's own commit.
THEOREM OthersCommitsSurvive == ~TearUnjournalled => (Spec => []OutsideCommitsKept)
<1> SUFFICES ASSUME ~TearUnjournalled PROVE Spec => []OutsideCommitsKept
  OBVIOUS
<1>1. HistoryInv /\ [Next]_vars => HistoryInv'
  BY HistoryStep
<1>2. HistoryInv => OutsideCommitsKept
  BY DEF HistoryInv, OutsideInv, OutsideCommitsKept
<1> QED  BY <1>1, <1>2, HistoryInit, PTL DEF Spec

\* A recovery on a branch that has moved never overwrites a file that others
\* changed: it restores only files that still hold the operation's bytes.
THEOREM EditsSurvive == ~TearUnjournalled => (Spec => RecoveryKeepsEdits)
<1> SUFFICES ASSUME ~TearUnjournalled PROVE Spec => RecoveryKeepsEdits
  OBVIOUS
<1>1. HistoryInv /\ [Next]_vars => HistoryInv'
  BY HistoryStep
<1>2. HistoryInv /\ [Next]_vars => [EditsKept]_vars
  <2> SUFFICES ASSUME HistoryInv, Next, NEW p \in edited,
                      pc \in Settle \ {"settleFiles"}, files[p] # saved.after[p]
               PROVE  files'[p] = files[p]
    BY DEF EditsKept
  <2>1. p \in Path /\ files \in [Path -> Bytes]
    BY DEF HistoryInv, IInv, TypeOK
  <2>2. CASE files' = files
    BY <2>2
  <2>3. ASSUME NEW q \in Path, RestoreFile(q) \/ FailRestoring(q) \/ CrashRestoring(q)
        PROVE  files'[p] = files[p]
    <3>1. pc = "putBack" /\ q \in toRestore
      BY <2>3 DEF RestoreFile, FailRestoring, CrashRestoring, TearRestored, Settle
    <3>2. p # q
      BY <3>1 DEF HistoryInv, PutBackInv
    <3> QED  BY <2>1, <2>3, <3>2 DEF RestoreFile, FailRestoring, CrashRestoring, TearRestored
  <2>4. pc \notin {"work", "idle", "down"}
    BY DEF Settle
  <2>5. CASE StartSome \/ RebuildOnly \/ Outside
    BY <2>2, <2>4, <2>5 DEF StartSome, Start, RebuildOnly, Outside, OutsideCommit, OutsideEdit,
       disk
  <2>6. CASE Faulty
    BY <2>2, <2>3, <2>4, <2>6 DEF Faulty, Fail, FailSettling, Crash, FailWriting, CrashWriting,
       disk
  <2>7. CASE \E c \in Card : RenameFile(c) \/ RemovePath(c) \/ WriteFile(c) \/ StagePath(c)
    BY <2>2, <2>4, <2>7 DEF RenameFile, RemovePath, WriteFile, StagePath
  <2>8. CASE \/ WriteJournal \/ ResetIndex \/ GitCommit \/ PreserveIndex \/ AdoptPaths
             \/ TxCommit \/ Finish \/ UndoRef \/ UndoIndex \/ UndoJournal
    BY <2>2, <2>8, Zenon DEF WriteJournal, ResetIndex, GitCommit, PreserveIndex, AdoptPaths,
       TxCommit,
       Finish, UndoRef, UndoIndex, UndoJournal
  <2>9. CASE \/ RecoverFiles \/ SettleIndex \/ PutBackDone \/ LandedIndex \/ LandedPaths
             \/ Rebuild \/ RebuildRejects \/ FinishRecovery \/ Restart
    BY <2>2, <2>9, Zenon DEF RecoverFiles, SettleIndex, PutBackDone, LandedIndex, LandedPaths,
       Rebuild,
       RebuildRejects, FinishRecovery, Restart, disk
  <2> QED  BY <2>3, <2>5, <2>6, <2>7, <2>8, <2>9 DEF Next, Progress
<1> QED  BY <1>1, <1>2, HistoryInit, PTL DEF Spec, RecoveryKeepsEdits
=============================================================================
