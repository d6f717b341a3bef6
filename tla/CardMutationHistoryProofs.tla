----------------------- MODULE CardMutationHistoryProofs -----------------------
(***************************************************************************)
(* The journal, the branch and the staged work of a journalled change, for *)
(* every set of cards and every number of faults, outside commits and      *)
(* outside edits: the first parts of its inductive invariant.              *)
(***************************************************************************)
EXTENDS CardMutationProofs

-----------------------------------------------------------------------------
\* The inductive invariant, in parts

\* A path of a changed card that the change does not name had no file.
Whole(s) == WellFormed(s) /\ \A p \in s.paths \ s.changed : s.before[p] = Absent

\* The journal is the running operation's snapshot, or the one a recovery read.
JournalInv ==
    /\ InTx => Whole(saved)
    /\ journal # NoSaved => Whole(journal)
    /\ pc = "journal" => journal = NoSaved
    /\ pc \in (Forward \ {"journal"}) \cup {"finish"} => journal = saved
    /\ pc \in Undo => journal \in {NoSaved, saved}
    /\ pc \in {"settleFiles", "putBack", "landedIndex", "landedPaths"} =>
          journal = saved /\ journal # NoSaved

\* The branch tip is the commit of the operation that saved s.
OwnTip(s) ==
    /\ head # 0 /\ s.head < head
    /\ commits[head].parent = s.head
    /\ commits[head].by = "card"
    /\ commits[head].past = Past(s.head) \cup {head}
    /\ \A p \in Path : commits[head].tree.cards[p] =
           IF p \in s.changed THEN s.after[p] ELSE TreeOf(s.head).cards[p]

FilesDone(s) == \A p \in s.paths : files[p] = s.after[p]

\* A commit reaches only itself and older ones.
Ordered == \A i \in DOMAIN commits : commits[i].past \subseteq 1..i /\ i \in commits[i].past

\* The tip is where the operation started until its commit, and again after
\* UndoRef.
HeadInv ==
    /\ Ordered
    /\ pc \in {"journal", "reset", "work", "unstage", "stage", "undoFiles",
               "undoJournal", "settleFiles"} => head = saved.head
    /\ pc \in {"preserve", "adopt", "txcommit", "finish"} => OwnTip(saved)
    /\ pc = "undoRef" => head = saved.head \/ (OwnTip(saved) /\ FilesDone(saved))
    /\ pc \in Undo /\ journal = NoSaved => head = saved.head
    /\ pc = "putBack" => Landed(saved) = {} /\ head # saved.head
    /\ pc \in {"landedIndex", "landedPaths"} => head # saved.head

\* The saved index with the operation's own paths as the tip has them
IndexKept(s) ==
    /\ index.other = s.index.other
    /\ \A p \in Path : index.cards[p] = IF p \in s.paths THEN TreeOf(head).cards[p]
                                        ELSE s.index.cards[p]

\* What is staged so far: the tip's tree with the paths of the cards done.
StageInv ==
    /\ InTx /\ journal = NoSaved => index = saved.index
    /\ pc \in {"journal", "reset"} =>
          \A p \in saved.changed : /\ p[2] \in toWrite
                                   /\ saved.after[p] = Absent => p[2] \in toMove
    /\ pc \in {"unstage", "stage"} => \E c \in Card : cur = {c}
    /\ pc \in {"work", "unstage", "stage"} => \A p \in Path :
          /\ p \notin saved.changed => index.cards[p] = TreeOf(head).cards[p]
          /\ /\ p \in saved.changed /\ saved.after[p] = Absent /\ p[2] \notin toMove
             /\ pc = "unstage" => p[2] \notin cur
             => index.cards[p] = Absent
          /\ /\ p \in saved.changed /\ saved.after[p] # Absent /\ p[2] \notin toWrite
             /\ pc = "stage" => p[2] \notin cur
             => index.cards[p] = saved.after[p]
    /\ pc \in {"adopt", "undoJournal"} => index = saved.index
    /\ pc \in {"txcommit", "finish"} => IndexKept(saved)

-----------------------------------------------------------------------------
\* What Start saves about the branch, the Git index, the rows and the files
LEMMA StartFacts ==
    ASSUME IInv, NEW cs \in (SUBSET Card) \ {{}}, NEW moved \in SUBSET cs,
           NEW body \in [cs -> Val], Start(cs, moved, body)
    PROVE  /\ Whole(saved')
           /\ saved'.head = head /\ saved'.index = index
           /\ \A p \in saved'.paths : saved'.before[p] = files[p]
           /\ \A p \in saved'.changed :
                 p[2] \in cs /\ (saved'.after[p] = Absent => p[2] \in moved)
<1> DEFINE from(c) == <<RowSide(c), c>>
           to(c) == <<IF c \in moved THEN OtherSide(RowSide(c)) ELSE RowSide(c), c>>
           set == {to(c) : c \in cs}
<1>1. TypeOK /\ OneRowPerCard /\ (journal = NoSaved => files = db)
  BY DEF IInv
<1>2. cs \in SUBSET Card /\ cs # {}
  OBVIOUS
<1>3. /\ WellFormed(saved') /\ saved'.paths = Side \X cs
      /\ \A p \in saved'.paths : saved'.before[p] = files[p]
      /\ \A p \in Path : p[2] \in moved => p \in saved'.changed
      /\ \A p \in Path : saved'.after[p] = Absent /\ p[2] \in cs \ moved
                         => files[p] = Absent
  BY ONLY <1>1, <1>2, StartSaved, moved \in SUBSET cs, body \in [cs -> Val],
          Start(cs, moved, body), Zenon
<1>4. saved'.head = head /\ saved'.index = index
  BY DEF Start
<1>5. \A p \in saved'.paths : p \in Path /\ p[2] \in cs
  BY <1>3 DEF Path
<1>6. ASSUME NEW p \in saved'.paths \ saved'.changed
      PROVE  saved'.before[p] = Absent
  BY <1>3, <1>5 DEF WellFormed
<1>7. /\ saved'.changed = set \cup {from(c) : c \in moved}
      /\ saved'.after = [p \in Path |-> IF p \in set THEN body[p[2]] ELSE Absent]
  BY DEF Start
<1>8. ASSUME NEW p \in saved'.changed, saved'.after[p] = Absent
      PROVE  p[2] \in moved
  <2>1. p \in saved'.paths /\ p \in Path /\ p[2] \in cs
    BY <1>3, <1>5 DEF WellFormed
  <2>2. body[p[2]] # Absent
    BY <2>1, ConstantsAssumption
  <2>3. p \notin set
    BY <1>7, <1>8, <2>1, <2>2
  <2> QED  BY <1>7, <2>3
<1> HIDE DEF from, to, set
<1> QED  BY <1>3, <1>4, <1>5, <1>6, <1>8 DEF Whole, WellFormed

LEMMA JournalStep ==
    ASSUME IInv, JournalInv, [Next]_vars
    PROVE  JournalInv'
<1> TypeOK
  BY DEF IInv
<1> USE EmptyValues DEF JournalInv, InTx, Forward, Undo, Settle, disk, work, env
<1>1. CASE WriteJournal \/ ResetIndex \/ GitCommit \/ PreserveIndex \/ AdoptPaths \/ TxCommit
  BY <1>1 DEF WriteJournal, ResetIndex, GitCommit, PreserveIndex, AdoptPaths, TxCommit
<1>2. CASE \E c \in Card : RenameFile(c) \/ RemovePath(c) \/ WriteFile(c) \/ StagePath(c)
  BY <1>2 DEF RenameFile, RemovePath, WriteFile, StagePath
<1>3. CASE Finish \/ UndoJournal \/ RebuildRejects \/ FinishRecovery \/ Restart
  BY <1>3 DEF Finish, UndoJournal, RebuildRejects, FinishRecovery, Return, Restart
<1>4. CASE UndoRef \/ UndoIndex \/ \E p \in Path : RestoreFile(p)
  BY <1>4 DEF UndoRef, UndoIndex, RestoreFile
<1>5. CASE RecoverFiles
  BY <1>5 DEF RecoverFiles
<1>6. CASE RebuildOnly \/ SettleIndex \/ PutBackDone \/ LandedIndex \/ LandedPaths \/ Rebuild
  BY <1>6 DEF RebuildOnly, SettleIndex, PutBackDone, LandedIndex, LandedPaths, Rebuild
<1>7. CASE Fail \/ FailSettling \/ Crash
  BY <1>7 DEF Fail, FailSettling, Return, Crash, Die
<1>8. CASE \E c \in Card : FailWriting(c) \/ CrashWriting(c)
  BY <1>8 DEF FailWriting, CrashWriting, Die
<1>9. CASE \E p \in Path : FailRestoring(p) \/ CrashRestoring(p)
  BY <1>9 DEF FailRestoring, CrashRestoring, TearRestored, Return, Die
<1>10. CASE Outside
  BY <1>10 DEF Outside, OutsideCommit, OutsideEdit
<1>11. CASE StartSome
  <2>1. PICK cs \in (SUBSET Card) \ {{}} : \E moved \in SUBSET cs, body \in [cs -> Val] :
           Start(cs, moved, body)
    BY <1>11 DEF StartSome
  <2>2. PICK moved \in SUBSET cs, body \in [cs -> Val] : Start(cs, moved, body)
    BY <2>1
  <2>3. Whole(saved')
    BY <2>2, StartFacts
  <2>4. pc' = "journal" /\ journal' = NoSaved
    BY <2>2 DEF Start
  <2> QED  BY <2>3, <2>4
<1>12. CASE UNCHANGED vars
  BY <1>12 DEF vars
<1> HIDE DEF JournalInv, InTx
<1> QED
  BY <1>1, <1>2, <1>3, <1>4, <1>5, <1>6, <1>7, <1>8, <1>9, <1>10, <1>11, <1>12
  DEF Next, Progress, Faulty
-----------------------------------------------------------------------------
\* A commit is added after all the others, which stay as they are.
LEMMA CommitAdds ==
    ASSUME TypeOK, NEW w \in {"card", "outside"}, CommitIndex(w)
    PROVE  /\ head' = Len(commits) + 1 /\ DOMAIN commits' = 1..head'
           /\ \A i \in DOMAIN commits : commits'[i] = commits[i]
           /\ commits'[head'] = [parent |-> head, tree |-> index,
                                past |-> Past(head) \cup {head'}, by |-> w]
           /\ \A i \in 0..Len(commits) : TreeOf(i)' = TreeOf(i) /\ Past(i)' = Past(i)
<1> DEFINE c == [parent |-> head, tree |-> index,
                 past |-> Past(head) \cup {Len(commits) + 1}, by |-> w]
<1>1. commits' = Append(commits, c) /\ head' = Len(commits) + 1
  BY DEF CommitIndex
<1>2. commits \in Seq(Commit) /\ Len(commits) \in Nat
  BY DEF TypeOK
<1> HIDE DEF c
<1>3. /\ DOMAIN commits = 1..Len(commits) /\ DOMAIN commits' = 1..(Len(commits) + 1)
      /\ \A i \in DOMAIN commits : commits'[i] = commits[i]
      /\ commits'[Len(commits) + 1] = c
  BY <1>1, <1>2
<1>4. \A i \in 0..Len(commits) : TreeOf(i)' = TreeOf(i) /\ Past(i)' = Past(i)
  BY <1>2, <1>3 DEF TreeOf, Past
<1> QED  BY <1>1, <1>3, <1>4 DEF c

\* The operation's commit at the tip is found by is_operation_commit and by
\* landed_commit.
LEMMA OwnTipLanded ==
    ASSUME TypeOK, HeadInv, NEW s \in Saved, s.head \in 0..Len(commits), OwnTip(s)
    PROVE  /\ IsOperationCommit(head, s)
           /\ head \in Landed(s) /\ OwnLanded(s)
           /\ Past(head) = Past(s.head) \cup {head}
<1>1. s.changed \subseteq Path
  BY DEF Saved
<1>2. IsOperationCommit(head, s)
  BY <1>1 DEF IsOperationCommit, OwnTip
<1>3. Past(head) = Past(s.head) \cup {head}
  BY DEF OwnTip, Past
<1>4. Past(s.head) \subseteq 1..s.head
  <2>1. CASE s.head = 0
    BY <2>1 DEF Past
  <2>2. CASE s.head # 0
    <3>1. s.head \in DOMAIN commits
      BY <2>2 DEF TypeOK
    <3> QED  BY <2>2, <3>1 DEF HeadInv, Ordered, Past
  <2> QED  BY <2>1, <2>2
<1>5. head \notin Past(s.head)
  BY <1>4 DEF OwnTip, TypeOK
<1> QED  BY <1>2, <1>3, <1>5 DEF Landed, OwnLanded, OwnTip

LEMMA HeadStep ==
    ASSUME IInv, JournalInv, HeadInv, StageInv, [Next]_vars
    PROVE  HeadInv'
<1> TypeOK
  BY DEF IInv
<1>0. ASSUME NEW w \in {"card", "outside"}, CommitIndex(w) PROVE Ordered'
  <2>1. /\ head' = Len(commits) + 1 /\ DOMAIN commits' = 1..head'
        /\ \A i \in DOMAIN commits : commits'[i] = commits[i]
        /\ commits'[head'].past = Past(head) \cup {head'}
    BY <1>0, CommitAdds
  <2>2. Past(head) \subseteq 1..head /\ head \in 0..Len(commits) /\ Len(commits) \in Nat
    BY DEF HeadInv, Ordered, Past, TypeOK
  <2>3. DOMAIN commits = 1..Len(commits)
    BY DEF TypeOK
  <2> QED  BY <2>1, <2>2, <2>3 DEF HeadInv, Ordered
<1>00. commits' = commits =>
          /\ Ordered'
          /\ head' = head /\ saved' = saved /\ OwnTip(saved) => OwnTip(saved)'
          /\ head' = head /\ saved' = saved /\ Landed(saved) = {} => Landed(saved)' = {}
  BY DEF HeadInv, Ordered, OwnTip, Past, TreeOf, Landed, IsOperationCommit
<1> USE EmptyValues, <1>00 DEF HeadInv, JournalInv, InTx, Forward, Undo, Settle, disk, work, env
<1>1. CASE WriteJournal \/ ResetIndex \/ PreserveIndex \/ AdoptPaths \/ TxCommit
  BY <1>1 DEF WriteJournal, ResetIndex, PreserveIndex, AdoptPaths, TxCommit
<1>2. CASE \E c \in Card : RenameFile(c) \/ RemovePath(c) \/ WriteFile(c) \/ StagePath(c)
  BY <1>2 DEF RenameFile, RemovePath, WriteFile, StagePath
<1>3. CASE Finish \/ UndoJournal \/ RebuildRejects \/ FinishRecovery \/ Restart
  BY <1>3 DEF Finish, UndoJournal, RebuildRejects, FinishRecovery, Return, Restart
<1>4. CASE UndoRef
  <2>1. OwnTip(saved) => IsOperationCommit(head, saved)
    <3> HIDE DEF HeadInv
    <3> QED  BY OwnTipLanded DEF TypeOK
  <2> QED  BY <1>4, <2>1, Zenon DEF UndoRef
<1>5. CASE UndoIndex \/ \E p \in Path : RestoreFile(p)
  BY <1>5 DEF UndoIndex, RestoreFile
<1>6. CASE RecoverFiles
  BY <1>6 DEF RecoverFiles, Landed, IsOperationCommit, Past
<1>7. CASE RebuildOnly \/ SettleIndex \/ PutBackDone \/ LandedIndex \/ LandedPaths \/ Rebuild
  BY <1>7 DEF RebuildOnly, SettleIndex, PutBackDone, LandedIndex, LandedPaths, Rebuild
<1>8. CASE Fail
  BY <1>8 DEF Fail, IInv, TxInv, ForwardInv, FilesDone
<1>9. CASE FailSettling \/ Crash
  BY <1>9 DEF FailSettling, Return, Crash, Die
<1>10. CASE \E c \in Card : FailWriting(c) \/ CrashWriting(c)
  BY <1>10 DEF FailWriting, CrashWriting, Die
<1>11. CASE \E p \in Path : FailRestoring(p) \/ CrashRestoring(p)
  BY <1>11 DEF FailRestoring, CrashRestoring, TearRestored, Return, Die
<1>12. CASE OutsideCommit
  BY <1>0, <1>12 DEF OutsideCommit
<1>13. CASE \E p \in Path, b \in Content : OutsideEdit(p, b)
  BY <1>13 DEF OutsideEdit
<1>14. CASE GitCommit
  <2>1. CommitIndex("card") /\ pc = "work" /\ pc' = "preserve" /\ saved' = saved
    BY <1>14 DEF GitCommit
  <2>2. Ordered'
    BY <1>0, <2>1
  <2>3. /\ head' = Len(commits) + 1
        /\ commits'[head'] = [parent |-> head, tree |-> index,
                             past |-> Past(head) \cup {head'}, by |-> "card"]
        /\ \A i \in 0..Len(commits) : TreeOf(i)' = TreeOf(i) /\ Past(i)' = Past(i)
    BY <2>1, CommitAdds
  <2>4. head = saved.head /\ head \in 0..Len(commits) /\ Len(commits) \in Nat
    BY <2>1 DEF TypeOK
  <2>5. \A p \in Path : index.cards[p] = IF p \in saved.changed THEN saved.after[p]
                                         ELSE TreeOf(head).cards[p]
    BY <1>14, <2>1 DEF GitCommit, StageInv
  <2>6. OwnTip(saved)'
    <3> HIDE DEF HeadInv
    <3>1. Past(saved.head)' = Past(head) /\ TreeOf(saved.head)' = TreeOf(head)
      BY <2>1, <2>3, <2>4
    <3> QED  BY <2>1, <2>3, <2>4, <2>5, <3>1 DEF OwnTip
  <2> QED  BY <2>1, <2>2, <2>6
<1>15. CASE StartSome
  <2>1. PICK cs \in (SUBSET Card) \ {{}} : \E moved \in SUBSET cs, body \in [cs -> Val] :
           Start(cs, moved, body)
    BY <1>15 DEF StartSome
  <2>2. PICK moved \in SUBSET cs, body \in [cs -> Val] : Start(cs, moved, body)
    BY <2>1
  <2>3. saved'.head = head
    BY <2>2, StartFacts
  <2>4. pc' = "journal" /\ journal' = NoSaved /\ UNCHANGED disk
    BY <2>2 DEF Start
  <2> QED  BY <2>3, <2>4
<1>16. CASE UNCHANGED vars
  BY <1>16 DEF vars, FilesDone
<1> HIDE <1>00 DEF HeadInv, JournalInv, InTx
<1> QED
  BY <1>1, <1>2, <1>3, <1>4, <1>5, <1>6, <1>7, <1>8, <1>9, <1>10, <1>11, <1>12, <1>13,
     <1>14, <1>15, <1>16
  DEF Next, Progress, Faulty, Outside
-----------------------------------------------------------------------------
LEMMA StageStep ==
    ASSUME IInv, JournalInv, HeadInv, StageInv, [Next]_vars
    PROVE  StageInv'
<1> TypeOK
  BY DEF IInv
<1>0. pc \in Forward \ {"journal"} => journal # NoSaved
  BY DEF IInv, ForwardInv, Forward
<1> USE DEF StageInv, InTx, Forward, Undo, Settle, disk, work, env, IndexKept, TreeOf
<1>1. CASE WriteJournal \/ PreserveIndex \/ TxCommit
  BY <1>1, Zenon DEF WriteJournal, PreserveIndex, TxCommit, JournalInv, Whole, WellFormed, NoSaved
<1>2. CASE ResetIndex
  BY <1>0, <1>2 DEF ResetIndex, JournalInv
<1>3. CASE AdoptPaths
  BY <1>0, <1>3 DEF AdoptPaths, TakePaths, TypeOK, Tree, JournalInv
<1>4. ASSUME NEW c \in Card, RenameFile(c) PROVE StageInv'
  BY <1>0, <1>4 DEF RenameFile, JournalInv
<1>5. ASSUME NEW c \in Card, RemovePath(c) PROVE StageInv'
  BY <1>0, <1>5 DEF RemovePath, Gone, TypeOK, Tree, JournalInv
<1>6. ASSUME NEW c \in Card, WriteFile(c) PROVE StageInv'
  BY <1>0, <1>6 DEF WriteFile, JournalInv
<1>7. ASSUME NEW c \in Card, StagePath(c) PROVE StageInv'
  <2>1. \A p \in Put(c) : files[p] = saved.after[p]
    BY <1>7 DEF StagePath, Put, IInv, ForwardInv, TxInv, WellFormed
  <2>2. \A p \in Path : index'.cards[p] = IF p \in Put(c) THEN saved.after[p]
                                          ELSE index.cards[p]
    BY <1>7, <2>1 DEF StagePath, TypeOK, Tree
  <2> QED  BY <1>0, <1>7, <2>2 DEF StagePath, Put, JournalInv
<1>8. CASE Finish \/ UndoJournal \/ RebuildRejects \/ FinishRecovery \/ Restart
  BY <1>8 DEF Finish, UndoJournal, RebuildRejects, FinishRecovery, Return, Restart
<1>9. CASE UndoRef \/ UndoIndex \/ \E p \in Path : RestoreFile(p)
  BY <1>9 DEF UndoRef, UndoIndex, RestoreFile
<1>10. CASE RecoverFiles
  BY <1>10 DEF RecoverFiles
<1>11. CASE RebuildOnly \/ SettleIndex \/ PutBackDone \/ LandedIndex \/ LandedPaths \/ Rebuild
  BY <1>11 DEF RebuildOnly, SettleIndex, PutBackDone, LandedIndex, LandedPaths, Rebuild
<1>12. CASE Fail \/ FailSettling \/ Crash
  BY <1>12 DEF Fail, FailSettling, Return, Crash, Die
<1>13. CASE \E c \in Card : FailWriting(c) \/ CrashWriting(c)
  BY <1>13 DEF FailWriting, CrashWriting, Die
<1>14. CASE \E p \in Path : FailRestoring(p) \/ CrashRestoring(p)
  BY <1>14 DEF FailRestoring, CrashRestoring, TearRestored, Return, Die
<1>15. CASE Outside
  BY <1>15 DEF Outside, OutsideCommit, OutsideEdit
<1>16. CASE GitCommit
  BY <1>16 DEF GitCommit
<1>17. CASE StartSome
  <2>1. PICK cs \in (SUBSET Card) \ {{}} : \E moved \in SUBSET cs, body \in [cs -> Val] :
           Start(cs, moved, body)
    BY <1>17 DEF StartSome
  <2>2. PICK moved \in SUBSET cs, body \in [cs -> Val] : Start(cs, moved, body)
    BY <2>1
  <2>3. /\ saved'.index = index
        /\ \A p \in saved'.changed :
              p[2] \in cs /\ (saved'.after[p] = Absent => p[2] \in moved)
    BY <2>2, StartFacts, Zenon
  <2>4. pc' = "journal" /\ toMove' = moved /\ toWrite' = cs /\ UNCHANGED disk
    BY <2>2 DEF Start
  <2> QED  BY <2>3, <2>4
<1>18. CASE UNCHANGED vars
  BY <1>18 DEF vars
<1> HIDE DEF StageInv, InTx, IndexKept, TreeOf
<1> QED
  BY <1>1, <1>2, <1>3, <1>4, <1>5, <1>6, <1>7, <1>8, <1>9, <1>10, <1>11, <1>12, <1>13,
     <1>14, <1>15, <1>16, <1>17, <1>18
  DEF Next, Progress, Faulty
=============================================================================
