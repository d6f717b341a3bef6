------------------------ MODULE CardMutationFateProofs ------------------------
(***************************************************************************)
(* For every set of cards and every number of changes and faults: what     *)
(* becomes of a journalled change is what became of its commit, and in a   *)
(* project nobody else touches it leaves the files, the branch and the Git *)
(* index in agreement and implements AtomicCardChange.                     *)
(***************************************************************************)
EXTENDS CardMutationUntouchedProofs

-----------------------------------------------------------------------------
\* Both invariants together
FateInv == HistoryInv /\ UntouchedInv

LEMMA FateInit == Init => FateInv
<1> SUFFICES ASSUME Init PROVE FateInv
  OBVIOUS
<1>1. /\ pc = "idle" /\ journal = NoSaved /\ db = files
      /\ \A p \in Path : files[p] \in Content
  <2>1. PICK where \in [Card -> Side \cup {"none"}], body \in [Card -> Val] :
           files = [p \in Path |-> IF where[p[2]] = p[1] THEN body[p[2]] ELSE Absent]
    BY DEF Init
  <2>2. \A p \in Path : files[p] \in Content
    BY <2>1 DEF Path, Content
  <2> QED  BY <2>2 DEF Init
<1>2. PICK other \in Content :
          \/ /\ commits = << [parent |-> 0, past |-> {1}, by |-> "init",
                              tree |-> [cards |-> files, other |-> Absent]] >>
             /\ head = 1
             /\ index = [cards |-> files, other |-> other]
          \/ /\ commits = << >>
             /\ head = 0
             /\ index = [NoTree EXCEPT !.other = other]
  BY DEF Init
<1>3. Clean
  <2>1. CASE head = 1
    BY <1>2, <2>1 DEF Clean, TreeOf
  <2>2. CASE head = 0
    BY <1>2, <2>2 DEF Clean, TreeOf, NoTree, Tracked
  <2> QED  BY <1>2, <2>1, <2>2
<1>4. UntouchedInv
  BY <1>1, <1>3, ConstantsAssumption DEF UntouchedInv, Content
<1> QED  BY <1>4, HistoryInit DEF FateInv

LEMMA FateStep ==
    ASSUME ~TearUnjournalled, FateInv, [Next]_vars
    PROVE  FateInv'
<1>1. HistoryInv /\ HistoryInv' /\ UntouchedInv
  BY HistoryStep DEF FateInv
<1>2. UntouchedInv'
  BY <1>1, UntouchedStep DEF HistoryInv
<1> QED  BY <1>1, <1>2 DEF FateInv

\* In a project nobody else touches, when the journal is gone the card files, the
\* branch tip and the Git index agree, for any number of cards, changes and faults.
THEOREM SettledIsCommitted == ~TearUnjournalled => (Spec => []SettledCommitted)
<1> SUFFICES ASSUME ~TearUnjournalled PROVE Spec => []SettledCommitted
  OBVIOUS
<1>1. FateInv /\ [Next]_vars => FateInv'
  BY FateStep
<1>2. FateInv => SettledCommitted
  BY DEF FateInv, HistoryInv, UntouchedInv, Clean, Tracked, SettledCommitted, Settled
<1> QED  BY <1>1, <1>2, FateInit, PTL DEF Spec

\* A torn card file is always covered by the journal or by the operation that is
\* still rolling back.
THEOREM TornIsMendable == ~TearUnjournalled => (Spec => []TornHasJournal)
<1> SUFFICES ASSUME ~TearUnjournalled PROVE Spec => []TornHasJournal
  OBVIOUS
<1>1. FateInv /\ [Next]_vars => FateInv'
  BY FateStep
<1>2. FateInv => TornHasJournal
  BY DEF FateInv, HistoryInv, IInv, UntouchedInv, TornHasJournal
<1> QED  BY <1>1, <1>2, FateInit, PTL DEF Spec

\* Whenever finish, the rollback or a recovery removes the journal, and nobody
\* edited card files meanwhile, the rows hold the change if the operation's own
\* commit is on the branch, also under commits of others; and in an untouched
\* project they hold the state before it if it is not.
THEOREM FateIsTheCommits == ~TearUnjournalled => (Spec => FateIsCommit)
<1> SUFFICES ASSUME ~TearUnjournalled PROVE Spec => FateIsCommit
  OBVIOUS
<1>1. FateInv /\ [Next]_vars => FateInv'
  BY FateStep
<1>2. FateInv /\ [Next]_vars => [FateFollowsCommit]_vars
  <2> SUFFICES ASSUME FateInv, Next, journal # NoSaved, journal' = NoSaved, edits = 0
               PROVE  IF OwnLanded(journal)
                      THEN \A p \in journal.paths : db'[p] = journal.after[p]
                      ELSE outside = 0 => \A p \in journal.paths : db'[p] = journal.before[p]
    BY DEF FateFollowsCommit
  <2>0. pc # "journal"
    BY DEF FateInv, HistoryInv, JournalInv
  <2>1. Finish \/ UndoJournal \/ FinishRecovery
    <3>1. CASE \/ WriteJournal \/ ResetIndex \/ GitCommit \/ PreserveIndex \/ AdoptPaths
               \/ TxCommit \/ UndoRef \/ UndoIndex
      BY <2>0, <3>1 DEF WriteJournal, ResetIndex, GitCommit, PreserveIndex, AdoptPaths,
         TxCommit, UndoRef, UndoIndex
    <3>2. CASE \/ RecoverFiles \/ SettleIndex \/ PutBackDone \/ LandedIndex \/ LandedPaths
               \/ Rebuild \/ RebuildRejects \/ Restart \/ RebuildOnly
      BY <3>2 DEF RecoverFiles, SettleIndex, PutBackDone, LandedIndex, LandedPaths, Rebuild,
         RebuildRejects, Restart, RebuildOnly, disk
    <3>3. CASE \E c \in Card : RenameFile(c) \/ RemovePath(c) \/ WriteFile(c) \/ StagePath(c)
      BY <3>3 DEF RenameFile, RemovePath, WriteFile, StagePath
    <3>4. CASE Faulty
      BY <3>4 DEF Faulty, Fail, FailSettling, Crash, FailWriting, CrashWriting, FailRestoring,
         CrashRestoring, TearRestored, disk
    <3>5. CASE StartSome \/ Outside \/ \E p \in Path : RestoreFile(p)
      BY <3>5 DEF StartSome, Start, Outside, OutsideCommit, OutsideEdit, RestoreFile, disk
    <3> QED  BY <3>1, <3>2, <3>3, <3>4, <3>5 DEF Next, Progress
  <2>2. db' = db /\ pc \in {"finish", "settled", "undoJournal"}
    BY <2>1 DEF Finish, UndoJournal, FinishRecovery
  <2>3. CASE OwnLanded(journal)
    <3>1. FilesDone(journal)
      BY <2>3 DEF FateInv, HistoryInv, EditInv
    <3>2. head # journal.head
      BY <2>3 DEF OwnLanded, Landed
    <3>3. pc # "undoJournal"
      BY <3>2 DEF FateInv, HistoryInv, JournalInv, HeadInv, Undo
    <3>4. files = db
      BY <2>2, <3>3 DEF FateInv, HistoryInv, IInv
    <3> QED  BY <2>2, <2>3, <3>1, <3>4 DEF FilesDone
  <2>4. CASE ~OwnLanded(journal) /\ outside = 0
    <3>1. OwnTip(journal) => OwnLanded(journal)
      BY OwnTipLanded DEF FateInv, HistoryInv, IInv, TypeOK
    <3>2. RowsBefore(journal)
      BY <2>4, <3>1 DEF FateInv, HistoryInv, UntouchedInv, Sound, Untouched
    <3> QED  BY <2>2, <2>4, <3>2 DEF RowsBefore
  <2> QED  BY <2>3, <2>4
<1> QED  BY <1>1, <1>2, FateInit, PTL DEF Spec, FateIsCommit

-----------------------------------------------------------------------------
\* The refinement of the atomic change.

\* With a journal, what is pending is what the journal says.
LEMMA PendingRows ==
    ASSUME JournalInv
    PROVE  /\ journal # NoSaved => Pending = Rows(journal)
           /\ InTx => Pending = Rows(saved)
           /\ ~InTx /\ journal = NoSaved => Pending = db
BY DEF JournalInv, Pending, InTx, Forward, Undo

LEMMA AtomicStep ==
    ASSUME FateInv, FateInv', Untouched, Untouched', [Next]_vars
    PROVE  [Atomic!Next]_(Atomic!vars)
<1> USE DEF Atomic!Next, Atomic!vars, Atomic!Begin, Atomic!Apply, Atomic!Cancel
<1>1. TypeOK /\ TypeOK' /\ JournalInv /\ JournalInv' /\ HeadInv /\ StageInv /\ EditInv
  BY DEF FateInv, HistoryInv, IInv
<1>2. /\ journal # NoSaved => Pending = Rows(journal)
      /\ InTx => Pending = Rows(saved)
      /\ ~InTx /\ journal = NoSaved => Pending = db
  BY <1>1, PendingRows
<1>3. /\ journal' # NoSaved => Pending' = Rows(journal)'
      /\ InTx' => Pending' = Rows(saved)'
      /\ ~InTx' /\ journal' = NoSaved => Pending' = db'
  BY <1>1 DEF JournalInv, Pending, InTx, Forward, Undo
\* Steps with the journal in place, steps without one, and its removal
<1>4. CASE journal # NoSaved /\ UNCHANGED <<journal, db>>
  BY <1>2, <1>3, <1>4 DEF Rows, StagedWork
<1>5. CASE /\ journal = NoSaved /\ journal' = NoSaved /\ db' = db /\ index'.other = index.other
           /\ (InTx' => InTx /\ saved' = saved)
  BY <1>2, <1>3, <1>5 DEF Rows, StagedWork
<1>6. CASE /\ journal # NoSaved /\ journal' = NoSaved /\ UNCHANGED <<db, index>>
           /\ ~InTx' /\ index.other = journal.index.other
  BY <1>2, <1>3, <1>6 DEF StagedWork
\* An apply step: the rows become what was pending
<1>7. CASE /\ journal # NoSaved /\ UNCHANGED journal /\ db' = Rows(journal)
  <2>1. Rows(journal)' = Rows(journal)
    BY <1>7 DEF Rows
  <2> QED  BY <1>2, <1>3, <1>7, <2>1 DEF StagedWork
<1> HIDE DEF Atomic!Next, Atomic!vars
<1> USE DEF InTx, Forward, Undo, Settle, disk, work, env
<1>8. CASE StartSome
  <2>1. /\ pc = "idle" /\ pc' = "journal" /\ journal = NoSaved /\ UNCHANGED disk
    BY <1>8 DEF StartSome, Start
  <2>2. Pending = db /\ Pending' = Rows(saved)' /\ StagedWork' = StagedWork /\ db' = db
    BY <1>2, <1>3, <2>1 DEF StagedWork
  <2>3. Rows(saved)' \in [Path -> Bytes]
    BY <1>1 DEF TypeOK, Rows, Saved, Bytes
  <2> QED  BY <2>2, <2>3 DEF Atomic!Next, Atomic!Begin
<1>9. CASE WriteJournal
  <2>1. /\ pc = "journal" /\ pc' = "reset" /\ journal = NoSaved /\ journal' = saved
        /\ UNCHANGED <<index, db, saved>>
    BY <1>1, <1>9 DEF WriteJournal, JournalInv
  <2>2. index = saved.index
    BY <1>1, <2>1 DEF StageInv
  <2>3. Pending' = Pending
    BY <1>2, <1>3, <2>1 DEF Rows
  <2>4. StagedWork' = StagedWork
    BY <2>1, <2>2 DEF StagedWork
  <2> QED  BY <2>1, <2>3, <2>4 DEF Atomic!vars
<1>10. CASE /\ UNCHANGED <<journal, db>>
            /\ journal = NoSaved => index'.other = index.other /\ (InTx' => InTx /\ saved' = saved)
  BY <1>4, <1>5, <1>10
<1>11. pc \in Forward \ {"journal"} => journal # NoSaved
  BY DEF FateInv, HistoryInv, IInv, ForwardInv
<1>12. CASE ResetIndex \/ PreserveIndex \/ AdoptPaths \/ GitCommit
  BY <1>10, <1>11, <1>12 DEF ResetIndex, PreserveIndex, AdoptPaths, GitCommit
<1>13. CASE \E c \in Card : RenameFile(c) \/ RemovePath(c) \/ WriteFile(c) \/ StagePath(c)
                           \/ FailWriting(c) \/ CrashWriting(c)
  BY <1>10, <1>11, <1>13 DEF RenameFile, RemovePath, WriteFile, StagePath, FailWriting,
     CrashWriting
<1>14. CASE UndoRef \/ UndoIndex \/ \E p \in Path : RestoreFile(p)
  BY <1>1, <1>10, <1>14 DEF UndoRef, UndoIndex, RestoreFile, StageInv
<1>15. CASE \E p \in Path : FailRestoring(p) \/ CrashRestoring(p)
  BY <1>10, <1>15 DEF FailRestoring, CrashRestoring, TearRestored, Return, Die
<1>16. CASE RecoverFiles \/ RebuildOnly \/ RebuildRejects \/ Restart \/ PutBackDone
  BY <1>10, <1>16 DEF RecoverFiles, RebuildOnly, RebuildRejects, Restart, PutBackDone, Return
<1>17. CASE SettleIndex \/ LandedIndex \/ LandedPaths
  BY <1>1, <1>10, <1>17 DEF SettleIndex, LandedIndex, LandedPaths, JournalInv
<1>18. CASE Fail \/ FailSettling \/ Crash
  BY <1>10, <1>18 DEF Fail, FailSettling, Crash, Return, Die
<1>19. CASE TxCommit
  BY <1>1, <1>7, <1>11, <1>19 DEF TxCommit, JournalInv
<1>20. CASE Finish
  BY <1>1, <1>6, <1>10, <1>20 DEF Finish, Return, JournalInv, StageInv, IndexKept
<1>21. CASE UndoJournal
  BY <1>1, <1>6, <1>10, <1>21 DEF UndoJournal, Return, JournalInv, StageInv
<1>22. CASE FinishRecovery
  <2>1. pc = "settled" /\ pc' = "idle" /\ journal' = NoSaved /\ UNCHANGED <<index, db>>
    BY <1>22 DEF FinishRecovery, Return
  <2>2. journal # NoSaved => index.other = journal.index.other
    BY <2>1 DEF FateInv, HistoryInv, UntouchedInv, IndexKept
  <2> QED  BY <1>6, <1>10, <2>1, <2>2
<1>23. CASE Rebuild
  <2>1. /\ pc = "rebuild" /\ pc' = "settled" /\ db' = files
        /\ UNCHANGED <<index, commits, head, journal>>
    BY <1>23 DEF Rebuild
  <2>2. CASE journal = NoSaved
    BY <1>10, <2>1, <2>2 DEF FateInv, HistoryInv, IInv
  <2>3. CASE journal # NoSaved
    <3>1. /\ \A p \in Path \ journal.paths : files[p] = db[p]
          /\ files \in [Path -> Bytes] /\ db \in [Path -> Bytes]
      BY <1>1, <2>3 DEF EditInv, Untouched, TypeOK
    <3>2. CASE head = journal.head
      <4>0. ~OwnTip(journal)
        <5>1. head \in Nat
          BY <1>1 DEF TypeOK
        <5> QED  BY <3>2, <5>1 DEF OwnTip
      <4>1. \A p \in journal.paths : files[p] = db[p]
        BY <2>1, <2>3, <3>2, <4>0 DEF FateInv, HistoryInv, UntouchedInv, Sound, RowsBefore,
           FilesBack
      <4>2. files = db
        <5>1. \A p \in Path : files[p] = db[p]
          BY <3>1, <4>1
        <5> QED  BY <3>1, <5>1, SameEverywhere
      <4> QED  BY <1>10, <2>1, <2>3, <4>2
    <3>3. CASE head # journal.head
      <4>1. OwnTip(journal)
        BY <2>3, <3>3 DEF FateInv, HistoryInv, UntouchedInv, Sound
      <4>2. FilesDone(journal)
        BY <1>1, <2>3, <4>1, OwnTipLanded DEF TypeOK, EditInv, Untouched
      <4>3. files = Rows(journal)
        BY <3>1, <4>2 DEF FilesDone, Rows
      <4> QED  BY <1>7, <2>1, <2>3, <4>3
    <3> QED  BY <3>2, <3>3
  <2> QED  BY <2>2, <2>3
<1>24. CASE Outside
  BY <1>10, <1>24 DEF Outside, OutsideCommit, OutsideEdit
<1>25. CASE UNCHANGED vars
  BY <1>10, <1>25 DEF vars
<1> QED
  BY <1>8, <1>9, <1>12, <1>13, <1>14, <1>15, <1>16, <1>17, <1>18, <1>19, <1>20, <1>21, <1>22,
     <1>23, <1>24, <1>25
  DEF Next, Progress, Faulty

\* In a project nobody else touches, the journalled write implements the atomic
\* change, for any number of cards, changes and faults: the rows change as a
\* whole or not at all, and the user's unrelated staged work is the same before,
\* during (in the journal) and after.
THEOREM ChangeIsAtomic == ~TearUnjournalled => (Spec /\ []Untouched => AtomicSpec)
<1> SUFFICES ASSUME ~TearUnjournalled PROVE Spec /\ []Untouched => AtomicSpec
  OBVIOUS
<1>1. Init => Atomic!Init
  <2> SUFFICES ASSUME Init PROVE Atomic!Init
    OBVIOUS
  <2>1. TypeOK
    BY TypeInit
  <2>2. Pending = db
    BY DEF Init, Pending, Forward, Undo
  <2> QED  BY <2>1, <2>2 DEF Atomic!Init, TypeOK
<1>2. FateInv /\ [Next]_vars => FateInv'
  BY FateStep
<1>3. FateInv /\ FateInv' /\ Untouched /\ Untouched' /\ [Next]_vars => [Atomic!Next]_(Atomic!vars)
  BY AtomicStep
<1> QED  BY <1>1, <1>2, <1>3, FateInit, PTL DEF Spec, AtomicSpec, Atomic!Spec
=============================================================================
