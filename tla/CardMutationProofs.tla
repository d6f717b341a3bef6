-------------------------- MODULE CardMutationProofs --------------------------
(***************************************************************************)
(* For every set of cards and every number of faults, outside commits and  *)
(* outside edits: a project without a journal has an index that mirrors    *)
(* its card files.                                                         *)
(***************************************************************************)
EXTENDS CardMutation, TLAPS

InTx == pc \in Forward \cup Undo

\* A change names both paths of its cards and leaves at most one of them.
WellFormed(s) ==
    /\ s.paths # {} /\ s.changed \subseteq s.paths
    /\ \A p \in Path : p \notin s.changed => s.after[p] = Absent
    /\ \A c \in Card, a, b \in Side : <<a, c>> \in s.paths => <<b, c>> \in s.paths
    /\ \A c \in Card : \E a \in Side : s.after[<<a, c>>] = Absent

\* The rows do not change while the transaction is open, and until it commits
\* they are what the saved "before" bytes say; other cards are left alone.
TxInv ==
    InTx => /\ WellFormed(saved)
            /\ \A p \in saved.paths : saved.before[p] = db[p]
            /\ \A p \in Path : p \notin saved.paths => files[p] = db[p]

\* How far the forward steps have come
ForwardInv ==
    pc \in Forward =>
        /\ \A p \in saved.paths :
              saved.after[p] = Absent /\ p[2] \notin toMove => files[p] = Absent
        /\ \A p \in saved.paths :
              p[2] \notin toMove /\ p[2] \notin toWrite => files[p] = saved.after[p]
        /\ toMove \subseteq toWrite
        /\ \A p \in saved.paths : p[2] \in toMove => p \in saved.changed
        /\ pc \in {"preserve", "adopt", "txcommit"} => toMove = {} /\ toWrite = {}
        /\ pc = "stage" => toMove = {} /\ cur \cap toWrite = {}
        /\ pc # "journal" => journal # NoSaved

UndoInv ==
    /\ pc \in {"undoFiles", "undoJournal"} =>
          /\ toRestore \subseteq saved.paths
          /\ \A p \in saved.paths \ toRestore : files[p] = saved.before[p]
    /\ pc = "undoJournal" => toRestore = {}

SettleInv == pc \in {"settleFiles", "putBack"} => journal # NoSaved

OneRowPerCard == \A c \in Card : \E s \in Side : db[<<s, c>>] = Absent

IInv ==
    /\ TypeOK
    /\ journal = NoSaved => files = db
    /\ pc \in {"finish", "settled"} => files = db
    /\ OneRowPerCard
    /\ TxInv /\ ForwardInv /\ UndoInv /\ SettleInv
-----------------------------------------------------------------------------
\* Lemmas on the values the actions build

LEMMA EmptyValues ==
    /\ NoTree \in Tree
    /\ NoSaved \in Saved
    /\ NoSaved.paths = {} /\ NoSaved.head = 0
BY DEF NoTree, Tree, NoSaved, Saved, Content, Bytes

\* Two working trees, or a working tree and a table, that agree on every path
\* are equal.
LEMMA SameEverywhere ==
    ASSUME NEW f \in [Path -> Bytes], NEW g \in [Path -> Bytes],
           \A p \in Path : f[p] = g[p]
    PROVE  f = g
OBVIOUS

\* The tree of the branch tip, unborn or not, is a tree.
LEMMA TreeOfType ==
    ASSUME TypeOK, NEW i \in 0..Len(commits)
    PROVE  TreeOf(i) \in Tree
<1>1. CASE i = 0
  BY <1>1, EmptyValues DEF TreeOf
<1>2. CASE i # 0
  <2>1. commits[i] \in Commit
    BY <1>2 DEF TypeOK
  <2> QED  BY <1>2, <2>1 DEF TreeOf, Commit
<1> QED  BY <1>1, <1>2

LEMMA CommitIndexType ==
    ASSUME TypeOK, NEW w \in {"init", "card", "outside"}, CommitIndex(w)
    PROVE  /\ commits' \in Seq(Commit)
           /\ head' \in 0..Len(commits')
           /\ Len(commits') = Len(commits) + 1
<1> DEFINE c == [parent |-> head, tree |-> index,
                 past |-> Past(head) \cup {Len(commits) + 1}, by |-> w]
<1>1. Past(head) \in SUBSET Nat
  <2>1. CASE head = 0
    BY <2>1 DEF Past
  <2>2. CASE head # 0
    <3>1. commits[head] \in Commit
      BY <2>2 DEF TypeOK
    <3> QED  BY <2>2, <3>1 DEF Past, Commit
  <2> QED  BY <2>1, <2>2
<1>2. Len(commits) \in Nat /\ head \in Nat /\ index \in Tree
  BY DEF TypeOK
<1>3. c \in Commit
  BY <1>1, <1>2 DEF Commit
<1>4. commits' = Append(commits, c) /\ head' = Len(commits) + 1
  BY DEF CommitIndex
<1> HIDE DEF c
<1> QED  BY <1>2, <1>3, <1>4 DEF TypeOK

LEMMA TakePathsType ==
    ASSUME TypeOK, NEW s, NEW i \in 0..Len(commits)
    PROVE  TakePaths(s, i) \in Tree
<1>1. TreeOf(i) \in Tree
  BY TreeOfType
<1> QED  BY <1>1 DEF TakePaths, TypeOK, Tree

-----------------------------------------------------------------------------
\* Type correctness, one step per action.

LEMMA TypeInit == Init => TypeOK
<1> SUFFICES ASSUME Init PROVE TypeOK
  OBVIOUS
<1> USE DEF Content, Bytes
<1>1. files \in [Path -> Content]
  <2>1. PICK where \in [Card -> Side \cup {"none"}], body \in [Card -> Val] :
           files = [p \in Path |-> IF where[p[2]] = p[1] THEN body[p[2]] ELSE Absent]
    BY DEF Init
  <2> QED  BY <2>1 DEF Path
<1>2. db \in [Path -> Bytes] /\ files \in [Path -> Bytes]
  BY <1>1 DEF Init
<1>3. PICK other \in Content :
          \/ /\ commits = << [parent |-> 0, past |-> {1}, by |-> "init",
                              tree |-> [cards |-> files, other |-> Absent]] >>
             /\ head = 1
             /\ index = [cards |-> files, other |-> other]
          \/ /\ commits = << >>
             /\ head = 0
             /\ index = [NoTree EXCEPT !.other = other]
  BY DEF Init
<1>4. index \in Tree
  BY <1>1, <1>3 DEF NoTree, Tree
<1>5. commits \in Seq(Commit) /\ head \in 0..Len(commits)
  <2>1. CASE commits = << >> /\ head = 0
    BY <2>1
  <2>2. CASE commits # << >>
    <3> DEFINE c == [parent |-> 0, past |-> {1}, by |-> "init",
                     tree |-> [cards |-> files, other |-> Absent]]
    <3>1. c \in Commit
      BY <1>1 DEF Commit, Tree
    <3>2. commits = <<c>> /\ head = 1
      BY <1>3, <2>2
    <3> HIDE DEF c
    <3> QED  BY <3>1, <3>2
  <2> QED  BY <1>3, <2>1, <2>2
<1> QED
  BY <1>2, <1>4, <1>5, EmptyValues, ConstantsAssumption DEF Init, TypeOK, PC

LEMMA StartType ==
    ASSUME TypeOK, NEW cs \in SUBSET Card, NEW moved \in SUBSET cs,
           NEW body \in [cs -> Val], Start(cs, moved, body)
    PROVE  saved' \in Saved
<1> DEFINE from(c) == <<RowSide(c), c>>
           to(c) == <<IF c \in moved THEN OtherSide(RowSide(c)) ELSE RowSide(c), c>>
           set == {to(c) : c \in cs}
           changed == set \cup {from(c) : c \in moved}
           paths == Side \X cs
           before == [p \in Path |-> IF p \in paths THEN files[p] ELSE Absent]
           after == [p \in Path |-> IF p \in set THEN body[p[2]] ELSE Absent]
<1>1. \A c \in cs : RowSide(c) \in Side
  BY Zenon DEF Start, HasRow, RowSide
<1>2. changed \subseteq Path /\ paths \subseteq Path
  BY <1>1 DEF Path, Side, OtherSide
<1>3. before \in [Path -> Bytes]
  BY DEF TypeOK, Bytes, Content
<1>4. after \in [Path -> Content]
  BY DEF Content
<1>5. saved' = [head |-> head, index |-> index, paths |-> paths,
                changed |-> changed, before |-> before, after |-> after]
  BY DEF Start
<1>6. head \in Nat /\ index \in Tree
  BY DEF TypeOK
<1> HIDE DEF from, to, set, changed, paths, before, after
<1> QED  BY <1>2, <1>3, <1>4, <1>5, <1>6 DEF Saved

\* Only the staging of a written file needs more than types: what is staged is
\* what was written, not a torn file.
LEMMA TypeStep == IInv /\ [Next]_vars => TypeOK'
<1> SUFFICES ASSUME IInv, [Next]_vars PROVE TypeOK'
  OBVIOUS
<1> TypeOK
  BY DEF IInv
<1> USE DEF TypeOK, PC, Forward, Undo, Settle, disk, work, env
<1>1. CASE WriteJournal
  BY <1>1 DEF WriteJournal
<1>2. CASE ResetIndex
  BY <1>2, TreeOfType DEF ResetIndex
<1>3. CASE GitCommit
  <2>1. CommitIndex("card")
    BY <1>3 DEF GitCommit
  <2>2. /\ commits' \in Seq(Commit) /\ head' \in 0..Len(commits')
        /\ Len(commits') = Len(commits) + 1
    BY <2>1, CommitIndexType
  <2>3. saved.head \in 0..Len(commits') /\ journal.head \in 0..Len(commits')
    BY <2>2
  <2> QED  BY <1>3, <2>2, <2>3 DEF GitCommit
<1>4. CASE PreserveIndex
  BY <1>4 DEF PreserveIndex, Saved
<1>5. CASE AdoptPaths
  BY <1>5, TakePathsType DEF AdoptPaths
<1>6. CASE TxCommit
  BY <1>6 DEF TxCommit, Rows, Saved, Bytes, Content
<1>7. CASE Finish
  BY <1>7, EmptyValues DEF Finish, Return
<1>8. CASE UndoRef
  BY <1>8 DEF UndoRef, Saved
<1>9. CASE UndoIndex
  BY <1>9 DEF UndoIndex, Saved
<1>10. CASE UndoJournal
  BY <1>10, EmptyValues DEF UndoJournal, Return
<1>11. CASE RecoverFiles
  BY <1>11 DEF RecoverFiles, Saved
<1>12. CASE SettleIndex
  BY <1>12 DEF SettleIndex, Saved
<1>13. CASE PutBackDone
  BY <1>13 DEF PutBackDone
<1>14. CASE LandedIndex
  BY <1>14 DEF LandedIndex, Saved
<1>15. CASE LandedPaths
  BY <1>15, TakePathsType DEF LandedPaths
<1>16. CASE Rebuild
  BY <1>16 DEF Rebuild
<1>17. CASE RebuildRejects
  BY <1>17, EmptyValues DEF RebuildRejects, Return
<1>18. CASE FinishRecovery
  BY <1>18, EmptyValues DEF FinishRecovery, Return
<1>19. CASE Restart
  BY <1>19 DEF Restart
<1>20. CASE RebuildOnly
  BY <1>20 DEF RebuildOnly
<1>21. CASE Fail
  BY <1>21, ConstantsAssumption DEF Fail, Fault, NoMoreThanFault
<1>22. CASE FailSettling
  BY <1>22, EmptyValues, ConstantsAssumption DEF FailSettling, Fault, NoMoreThanFault, Return
<1>23. CASE Crash
  BY <1>23, EmptyValues, ConstantsAssumption DEF Crash, Die, Fault, NoMoreThanFault
<1>24. CASE OutsideCommit
  BY <1>24, CommitIndexType, ConstantsAssumption DEF OutsideCommit
<1>25. ASSUME NEW c \in Card, RenameFile(c) PROVE TypeOK'
  <2>1. \A p \in Path : <<OtherSide(p[1]), c>> \in Path
    BY DEF OtherSide, Path, Side
  <2>2. files' \in [Path -> Bytes]
    BY <1>25, <2>1 DEF RenameFile, Bytes, Content
  <2> QED  BY <1>25, <2>2 DEF RenameFile
<1>26. ASSUME NEW c \in Card, RemovePath(c) PROVE TypeOK'
  BY <1>26 DEF RemovePath, Gone, Tree, Content
<1>27. ASSUME NEW c \in Card, WriteFile(c) PROVE TypeOK'
  BY <1>27 DEF WriteFile, Put, Saved, Bytes
<1>28. ASSUME NEW p \in Path, RestoreFile(p) PROVE TypeOK'
  BY <1>28 DEF RestoreFile, Saved
<1>29. ASSUME NEW c \in Card, FailWriting(c) PROVE TypeOK'
  BY <1>29, ConstantsAssumption DEF FailWriting, Put, Bytes, Fault, NoMoreThanFault
<1>30. ASSUME NEW c \in Card, CrashWriting(c) PROVE TypeOK'
  BY <1>30, EmptyValues, ConstantsAssumption DEF CrashWriting, Put, Bytes, Die, Fault,
     NoMoreThanFault
<1>31. ASSUME NEW p \in Path, FailRestoring(p) PROVE TypeOK'
  BY <1>31, EmptyValues, ConstantsAssumption DEF FailRestoring, TearRestored, Bytes, Return,
     Fault, NoMoreThanFault
<1>32. ASSUME NEW p \in Path, CrashRestoring(p) PROVE TypeOK'
  BY <1>32, EmptyValues, ConstantsAssumption DEF CrashRestoring, TearRestored, Bytes, Die,
     Fault, NoMoreThanFault
<1>33. ASSUME NEW c \in Card, StagePath(c) PROVE TypeOK'
  <2>1. \A p \in Put(c) : files[p] = saved.after[p]
    BY <1>33 DEF StagePath, Put, IInv, ForwardInv, TxInv, InTx, WellFormed
  <2>2. \A p \in Put(c) : files[p] \in Content
    BY <2>1 DEF Saved, Put
  <2>3. index' \in Tree
    BY <1>33, <2>2 DEF StagePath, Tree
  <2> QED  BY <1>33, <2>3 DEF StagePath
<1>34. ASSUME NEW p \in Path, NEW b \in Content, OutsideEdit(p, b) PROVE TypeOK'
  BY <1>34, ConstantsAssumption DEF OutsideEdit, Bytes
<1>35. CASE StartSome
  <2>1. PICK cs \in (SUBSET Card) \ {{}} : \E moved \in SUBSET cs, body \in [cs -> Val] :
           Start(cs, moved, body)
    BY <1>35 DEF StartSome
  <2>2. PICK moved \in SUBSET cs, body \in [cs -> Val] : Start(cs, moved, body)
    BY <2>1
  <2>3. saved' \in Saved
    BY <2>2, StartType
  <2>4. saved'.head = head
    BY <2>2 DEF Start
  <2>5. /\ UNCHANGED <<disk, cur, toRestore, faults, outside, edits, edited>>
        /\ toMove' = moved /\ toWrite' = cs /\ pc' = "journal"
        /\ ops < MaxOps /\ ops' = ops + 1
    BY <2>2 DEF Start
  <2>6. ops' \in 0..MaxOps
    BY <2>5, ConstantsAssumption
  <2> QED  BY <2>3, <2>4, <2>5, <2>6
<1>36. CASE UNCHANGED vars
  BY <1>36 DEF vars
<1> QED
  BY <1>1, <1>2, <1>3, <1>4, <1>5, <1>6, <1>7, <1>8, <1>9, <1>10, <1>11, <1>12, <1>13, <1>14,
     <1>15, <1>16, <1>17, <1>18, <1>19, <1>20, <1>21, <1>22, <1>23, <1>24, <1>25, <1>26, <1>27,
     <1>28, <1>29, <1>30, <1>31, <1>32, <1>33, <1>34, <1>35, <1>36, Zenon
  DEF Next, Progress, Faulty, Outside

-----------------------------------------------------------------------------
\* The inductive invariant.

\* What Start saves: both paths of every card of the change; afterwards at most
\* one of them holds a file; a renamed card has both paths among the changes.
LEMMA StartSaved ==
    ASSUME TypeOK, OneRowPerCard, journal = NoSaved => files = db,
           NEW cs \in SUBSET Card, NEW moved \in SUBSET cs,
           NEW body \in [cs -> Val], Start(cs, moved, body)
    PROVE  /\ cs # {} => WellFormed(saved')
           /\ saved'.paths = Side \X cs
           /\ \A p \in saved'.paths : saved'.before[p] = files[p]
           /\ \A p \in Path : p[2] \in moved => p \in saved'.changed
           /\ \A p \in Path : saved'.after[p] = Absent /\ p[2] \in cs \ moved
                              => files[p] = Absent
<1> DEFINE from(c) == <<RowSide(c), c>>
           to(c) == <<IF c \in moved THEN OtherSide(RowSide(c)) ELSE RowSide(c), c>>
           set == {to(c) : c \in cs}
           changed == set \cup {from(c) : c \in moved}
<1>1. \A c \in cs : RowSide(c) \in Side
  BY Zenon DEF Start, HasRow, RowSide
<1>2. /\ saved'.paths = Side \X cs
      /\ saved'.changed = changed
      /\ saved'.before = [p \in Path |-> IF p \in Side \X cs THEN files[p] ELSE Absent]
      /\ saved'.after = [p \in Path |-> IF p \in set THEN body[p[2]] ELSE Absent]
  BY DEF Start
<1>3. changed \subseteq Side \X cs /\ Side \X cs \subseteq Path
  BY <1>1 DEF Path, Side, OtherSide
<1>4. \A p \in Path : p \notin changed => saved'.after[p] = Absent
  BY <1>2
<1>5. \A c \in Card : \E a \in Side : saved'.after[<<a, c>>] = Absent
  <2> TAKE c \in Card
  <2>1. <<"live", c>> \notin set \/ <<"trash", c>> \notin set
    BY DEF OtherSide
  <2>2. <<"live", c>> \in Path /\ <<"trash", c>> \in Path
    BY DEF Path, Side
  <2> QED  BY <1>2, <2>1, <2>2 DEF Side
<1>6. \A c \in Card, a, b \in Side : <<a, c>> \in Side \X cs => <<b, c>> \in Side \X cs
  OBVIOUS
<1>7. cs # {} => Side \X cs # {}
  <2>1. \A c \in cs : <<"live", c>> \in Side \X cs
    BY DEF Side
  <2> QED  BY <2>1, Zenon
<1>8. ASSUME NEW p \in Path, p[2] \in moved PROVE p \in changed
  BY <1>1, <1>8 DEF Path, Side, OtherSide
<1>9. ASSUME NEW p \in Path, saved'.after[p] = Absent, p[2] \in cs \ moved
      PROVE  files[p] = Absent
  <2>1. PICK s \in Side, c \in Card : p = <<s, c>>
    BY DEF Path
  <2>2. c \in cs /\ c \notin moved
    BY <1>9, <2>1
  <2>3. s # RowSide(c)
    <3> SUFFICES ASSUME s = RowSide(c) PROVE FALSE
      OBVIOUS
    <3>1. p \in set
      BY <2>1, <2>2
    <3> QED  BY <1>2, <1>9, <2>1, <2>2, <3>1, ConstantsAssumption
  <2>4. db[<<RowSide(c), c>>] # Absent
    BY <2>2, Zenon DEF Start, HasRow, RowSide
  <2>5. db[<<s, c>>] = Absent
    BY <1>1, <2>2, <2>3, <2>4 DEF OneRowPerCard, Side
  <2> QED  BY <2>1, <2>5 DEF Start
<1>10. cs # {} => WellFormed(saved')
  BY <1>2, <1>3, <1>4, <1>5, <1>6, <1>7, Zenon DEF WellFormed
<1> QED  BY <1>2, <1>3, <1>8, <1>9, <1>10

LEMMA InvStep ==
    ASSUME ~TearUnjournalled, IInv, [Next]_vars
    PROVE  IInv'
<1> TypeOK /\ TypeOK'
  BY TypeStep DEF IInv
<1> files \in [Path -> Bytes] /\ db \in [Path -> Bytes] /\ saved \in Saved
  BY Zenon DEF TypeOK
<1> files' \in [Path -> Bytes] /\ db' \in [Path -> Bytes] /\ saved' \in Saved
  BY Zenon DEF TypeOK
<1>0. ASSUME NEW cs \in (SUBSET Card) \ {{}}, NEW moved \in SUBSET cs,
             NEW body \in [cs -> Val], Start(cs, moved, body)
      PROVE  /\ WellFormed(saved') /\ saved'.paths = Side \X cs
             /\ \A p \in saved'.paths : saved'.before[p] = files[p]
             /\ \A p \in Path : p[2] \in moved => p \in saved'.changed
             /\ \A p \in Path : saved'.after[p] = Absent /\ p[2] \in cs \ moved
                                => files[p] = Absent
  <2>1. OneRowPerCard /\ (journal = NoSaved => files = db)
    BY DEF IInv
  <2>2. cs \in SUBSET Card /\ cs # {}
    OBVIOUS
  <2>3. Start(cs, moved, body)
    BY <1>0
  <2> QED  BY ONLY TypeOK, <2>1, <2>2, <2>3, moved \in SUBSET cs,
                   body \in [cs -> Val], StartSaved, Zenon
<1> USE EmptyValues DEF IInv, OneRowPerCard, TxInv, ForwardInv, UndoInv, SettleInv,
                        InTx, WellFormed, Forward, Undo, Settle, disk, work, env
<1>1. CASE WriteJournal
  BY <1>1 DEF WriteJournal
<1>2. CASE ResetIndex
  BY <1>2 DEF ResetIndex
<1>3. CASE GitCommit
  BY <1>3 DEF GitCommit
<1>4. CASE PreserveIndex
  BY <1>4 DEF PreserveIndex
<1>5. CASE AdoptPaths
  BY <1>5 DEF AdoptPaths
<1>6. CASE TxCommit
  <2>1. db' = files
    <3>1. \A p \in Path : db'[p] = files[p]
      BY <1>6 DEF TxCommit, Rows
    <3> QED  BY ONLY <3>1, SameEverywhere, files \in [Path -> Bytes], db' \in [Path -> Bytes]
  <2>2. OneRowPerCard'
    <3> SUFFICES ASSUME NEW c \in Card PROVE \E s \in Side : db'[<<s, c>>] = Absent
      BY DEF OneRowPerCard
    <3>1. \A s \in Side : <<s, c>> \in Path
      BY DEF Path
    <3>2. CASE \E s \in Side : <<s, c>> \in saved.paths
      <4>1. \A s \in Side : db'[<<s, c>>] = saved.after[<<s, c>>]
        BY <1>6, <3>1, <3>2 DEF TxCommit, Rows
      <4> QED  BY <1>6, <4>1, Zenon DEF TxCommit
    <3>3. CASE ~ \E s \in Side : <<s, c>> \in saved.paths
      <4>1. \A s \in Side : db'[<<s, c>>] = db[<<s, c>>]
        BY <1>6, <3>1, <3>3 DEF TxCommit, Rows
      <4> QED  BY <4>1
    <3> QED  BY <3>2, <3>3
  <2> QED  BY <1>6, <2>1, <2>2 DEF TxCommit
<1>7. CASE Finish
  BY <1>7 DEF Finish, Return
<1>8. CASE UndoRef
  BY <1>8 DEF UndoRef
<1>9. CASE UndoIndex
  BY <1>9 DEF UndoIndex
<1>10. CASE UndoJournal
  <2>1. \A p \in Path : files[p] = db[p]
    BY <1>10 DEF UndoJournal
  <2>2. files' = db' /\ pc' = "idle" /\ db' = db
    <3>1. files = db
      BY ONLY <2>1, SameEverywhere, files \in [Path -> Bytes], db \in [Path -> Bytes]
    <3> HIDE DEF IInv
    <3> QED  BY <1>10, <3>1 DEF UndoJournal, Return
  <2>3. OneRowPerCard' /\ TxInv' /\ ForwardInv' /\ UndoInv' /\ SettleInv'
    BY <2>2
  <2> HIDE DEF OneRowPerCard, TxInv, ForwardInv, UndoInv, SettleInv
  <2> QED  BY <2>2, <2>3
<1>11. CASE RecoverFiles
  BY <1>11 DEF RecoverFiles
<1>12. CASE SettleIndex
  BY <1>12 DEF SettleIndex
<1>13. CASE PutBackDone
  BY <1>13 DEF PutBackDone
<1>14. CASE LandedIndex
  BY <1>14 DEF LandedIndex
<1>15. CASE LandedPaths
  BY <1>15 DEF LandedPaths
<1>16. CASE Rebuild
  BY <1>16 DEF Rebuild, Loadable
<1>17. CASE RebuildRejects
  BY <1>17 DEF RebuildRejects, Return
<1>18. CASE FinishRecovery
  BY <1>18 DEF FinishRecovery, Return
<1>19. CASE Restart
  BY <1>19 DEF Restart
<1>20. CASE RebuildOnly
  BY <1>20 DEF RebuildOnly
<1>21. CASE Fail
  BY <1>21, Zenon DEF Fail
<1>22. CASE FailSettling
  BY <1>22 DEF FailSettling, Return
<1>23. CASE Crash
  BY <1>23 DEF Crash, Die
<1>24. CASE OutsideCommit
  BY <1>24 DEF OutsideCommit
<1>25. ASSUME NEW c \in Card, RenameFile(c) PROVE IInv'
  <2>1. saved.paths \subseteq Path /\ saved.changed \subseteq saved.paths
    BY <1>25 DEF RenameFile, Saved
  <2>2. \A p \in Path : p \notin Gone(c) \cup Put(c) => files'[p] = files[p]
    BY <1>25 DEF RenameFile
  <2>3. \A p \in Path : p \notin saved.paths => files'[p] = db'[p]
    BY <1>25, <2>1, <2>2 DEF RenameFile, Gone, Put
  <2>4. \A p \in saved'.paths : saved'.after[p] = Absent /\ p[2] \notin toMove'
                                => files'[p] = Absent
    BY <1>25, <2>1, <2>2 DEF RenameFile, Gone, Put
  <2>5. \A p \in saved'.paths : p[2] \notin toMove' /\ p[2] \notin toWrite'
                                => files'[p] = saved'.after[p]
    <3>1. /\ c \in toWrite /\ toWrite' = toWrite /\ toMove' = toMove \ {c}
          /\ saved' = saved /\ pc \in Forward
      BY <1>25 DEF RenameFile
    <3>2. \A p \in saved.paths : p[2] # c => files'[p] = files[p]
      BY <2>1, <2>2 DEF Gone, Put
    <3>3. \A p \in saved.paths : p[2] \notin toMove /\ p[2] \notin toWrite
                                 => files[p] = saved.after[p]
      BY <3>1
    <3> HIDE DEF IInv
    <3> QED  BY <3>1, <3>2, <3>3
  <2>6. TxInv'
    BY <1>25, <2>3 DEF RenameFile
  <2>7. ForwardInv'
    BY <1>25, <2>4, <2>5, Zenon DEF RenameFile
  <2>8. pc' = "unstage" /\ UNCHANGED <<db, journal>> /\ journal # NoSaved
    BY <1>25 DEF RenameFile
  <2>9. OneRowPerCard' /\ UndoInv' /\ SettleInv'
    BY <2>8
  <2> HIDE DEF OneRowPerCard, TxInv, ForwardInv, UndoInv, SettleInv
  <2> QED  BY <2>6, <2>7, <2>8, <2>9, Zenon
<1>26. ASSUME NEW c \in Card, RemovePath(c) PROVE IInv'
  BY <1>26 DEF RemovePath
<1>27. ASSUME NEW c \in Card, WriteFile(c) PROVE IInv'
  <2>1. saved.paths \subseteq Path /\ saved.changed \subseteq saved.paths
    BY <1>27 DEF WriteFile, Saved
  <2>2. \A p \in Path : files'[p] = IF p \in Put(c) THEN saved.after[p] ELSE files[p]
    BY <1>27 DEF WriteFile
  <2>3. \A p \in Path : p \notin saved.paths => files'[p] = db'[p]
    BY <1>27, <2>1, <2>2 DEF WriteFile, Put
  <2>4. \A p \in saved'.paths : saved'.after[p] = Absent /\ p[2] \notin toMove'
                                => files'[p] = Absent
    BY <1>27, <2>1, <2>2 DEF WriteFile, Put
  <2>5. \A p \in saved'.paths : p[2] \notin toMove' /\ p[2] \notin toWrite'
                                => files'[p] = saved'.after[p]
    BY <1>27, <2>1, <2>2 DEF WriteFile, Put
  <2>6. TxInv'
    BY <1>27, <2>3 DEF WriteFile
  <2>7. ForwardInv'
    BY <1>27, <2>4, <2>5, Zenon DEF WriteFile
  <2>8. pc' = "stage" /\ UNCHANGED <<db, journal>> /\ journal # NoSaved
    BY <1>27 DEF WriteFile
  <2>9. OneRowPerCard' /\ UndoInv' /\ SettleInv'
    BY <2>8
  <2> HIDE DEF OneRowPerCard, TxInv, ForwardInv, UndoInv, SettleInv
  <2> QED  BY <2>6, <2>7, <2>8, <2>9
<1>28. ASSUME NEW c \in Card, StagePath(c) PROVE IInv'
  BY <1>28 DEF StagePath
<1>29. ASSUME NEW p \in Path, RestoreFile(p) PROVE IInv'
  <2>1. /\ pc \in {"undoFiles", "settleFiles", "putBack"} /\ p \in toRestore
        /\ UNCHANGED <<pc, db, journal, saved>> /\ toRestore' = toRestore \ {p}
    BY <1>29 DEF RestoreFile
  <2>2. \A q \in Path : files'[q] = IF q = p THEN saved.before[p] ELSE files[q]
    BY <1>29 DEF RestoreFile
  <2>3. journal = NoSaved => files' = db
    <3>1. journal = NoSaved => files = db /\ pc = "undoFiles" /\ p \in saved.paths
      BY <2>1
    <3>2. journal = NoSaved => saved.before[p] = files[p]
      BY <2>1, <3>1
    <3> QED  BY <1>29, <3>1, <3>2 DEF RestoreFile
  <2>4. TxInv' /\ UndoInv'
    <3>1. pc = "undoFiles" => p \in saved.paths
      BY <2>1
    <3>2. TxInv'
      BY <2>1, <2>2, <3>1
    <3>3. UndoInv'
      <4>1. pc = "undoFiles" => /\ toRestore \subseteq saved.paths
                                /\ \A q \in saved.paths \ toRestore : files[q] = saved.before[q]
        BY <2>1
      <4>2. saved.paths \subseteq Path
        BY DEF Saved
      <4>3. pc' # "undoJournal" /\ (pc' = "undoFiles" => pc = "undoFiles")
        BY <2>1
      <4> HIDE DEF IInv
      <4> QED  BY <2>1, <2>2, <4>1, <4>2, <4>3
    <3> QED  BY <3>2, <3>3
  <2>5. OneRowPerCard' /\ ForwardInv' /\ SettleInv'
    BY <2>1
  <2> HIDE DEF OneRowPerCard, TxInv, ForwardInv, UndoInv, SettleInv
  <2> QED  BY <2>1, <2>3, <2>4, <2>5
<1>30. ASSUME NEW c \in Card, FailWriting(c) PROVE IInv'
  BY <1>30 DEF FailWriting, Put
<1>31. ASSUME NEW c \in Card, CrashWriting(c) PROVE IInv'
  BY <1>31 DEF CrashWriting, Put, Die
<1>32. ASSUME NEW p \in Path, FailRestoring(p) PROVE IInv'
  BY <1>32 DEF FailRestoring, TearRestored, Return
<1>33. ASSUME NEW p \in Path, CrashRestoring(p) PROVE IInv'
  BY <1>33, Zenon DEF CrashRestoring, TearRestored, Die
<1>34. ASSUME NEW p \in Path, NEW b \in Content, OutsideEdit(p, b) PROVE IInv'
  BY <1>34 DEF OutsideEdit
<1>35. CASE StartSome
  <2>1. PICK cs \in (SUBSET Card) \ {{}} : \E moved \in SUBSET cs, body \in [cs -> Val] :
           Start(cs, moved, body)
    BY <1>35 DEF StartSome
  <2>2. PICK moved \in SUBSET cs, body \in [cs -> Val] : Start(cs, moved, body)
    BY <2>1
  <2>3. /\ WellFormed(saved') /\ saved'.paths = Side \X cs
        /\ \A p \in saved'.paths : saved'.before[p] = files[p]
        /\ \A p \in Path : p[2] \in moved => p \in saved'.changed
        /\ \A p \in Path : saved'.after[p] = Absent /\ p[2] \in cs \ moved
                           => files[p] = Absent
    <3> HIDE DEF WellFormed
    <3> QED  BY <1>0, <2>1, <2>2, Zenon
  <2>6. /\ pc = "idle" /\ pc' = "journal" /\ journal = NoSaved
        /\ UNCHANGED <<disk, cur, toRestore>>
        /\ toMove' = moved /\ toWrite' = cs
    BY <2>2, Zenon DEF Start
  <2>7. \A p \in saved'.paths : p \in Path /\ p[2] \in cs
    BY <2>3 DEF Path
  <2>8. TxInv'
    BY <2>3, <2>6, <2>7
  <2>9. ForwardInv'
    BY <2>3, <2>6, <2>7
  <2>10. OneRowPerCard' /\ UndoInv' /\ SettleInv'
    BY <2>6
  <2> HIDE DEF OneRowPerCard, TxInv, ForwardInv, UndoInv, SettleInv
  <2> QED  BY <2>6, <2>8, <2>9, <2>10, Zenon
<1>36. CASE UNCHANGED vars
  BY <1>36, Zenon DEF vars
<1> QED
  BY <1>1, <1>2, <1>3, <1>4, <1>5, <1>6, <1>7, <1>8, <1>9, <1>10, <1>11, <1>12, <1>13, <1>14,
     <1>15, <1>16, <1>17, <1>18, <1>19, <1>20, <1>21, <1>22, <1>23, <1>24, <1>25, <1>26, <1>27,
     <1>28, <1>29, <1>30, <1>31, <1>32, <1>33, <1>34, <1>35, <1>36, Zenon
  DEF Next, Progress, Faulty, Outside

LEMMA InvInit == Init => IInv
<1> SUFFICES ASSUME Init PROVE IInv
  OBVIOUS
<1>1. TypeOK
  BY TypeInit
<1>2. OneRowPerCard
  <2>1. PICK where \in [Card -> Side \cup {"none"}], body \in [Card -> Val] :
           files = [p \in Path |-> IF where[p[2]] = p[1] THEN body[p[2]] ELSE Absent]
    BY DEF Init
  <2> SUFFICES ASSUME NEW c \in Card PROVE \E s \in Side : db[<<s, c>>] = Absent
    BY DEF OneRowPerCard
  <2>2. PICK s \in Side : where[c] # s
    BY DEF Side
  <2>3. <<s, c>> \in Path
    BY DEF Path
  <2> QED  BY <2>1, <2>2, <2>3 DEF Init
<1> QED
  BY <1>1, <1>2 DEF Init, IInv, TxInv, ForwardInv, UndoInv, SettleInv, InTx, Forward,
                    Undo

\* The variables of the journalled write keep their types through every crash,
\* failed rollback, recovery and outside change, provided a rollback without a
\* journal does not tear the files it rewrites.
THEOREM TypeCorrect == ~TearUnjournalled => (Spec => []TypeOK)
<1> SUFFICES ASSUME ~TearUnjournalled PROVE Spec => []TypeOK
  OBVIOUS
<1>1. IInv /\ [Next]_vars => IInv'
  BY InvStep
<1>2. IInv => TypeOK
  BY DEF IInv
<1> QED  BY <1>1, <1>2, InvInit, PTL DEF Spec

\* Whenever apply_card_changes, its rollback or rebuild_project has removed the
\* journal, and until the next change begins, the rows are the card files: for
\* every number of cards, faults, outside commits and outside edits.
THEOREM IndexMirrorsFiles == ~TearUnjournalled => (Spec => []SettledIndexed)
<1> SUFFICES ASSUME ~TearUnjournalled PROVE Spec => []SettledIndexed
  OBVIOUS
<1>1. IInv /\ [Next]_vars => IInv'
  BY InvStep
<1>2. IInv => SettledIndexed
  BY DEF IInv, SettledIndexed, Settled
<1> QED  BY <1>1, <1>2, InvInit, PTL DEF Spec
=============================================================================
