---------------------------- MODULE ProfileProofs ----------------------------
(***************************************************************************)
(* The data directory for every set of projects: a context that opens      *)
(* lists what callers were told of, a rebuild changes nothing of a healthy *)
(* database, and its replacement loses nothing.                            *)
(***************************************************************************)
EXTENDS Profile, FiniteSetTheorems, TLAPS

-----------------------------------------------------------------------------
\* The inductive invariant, in parts

\* The calls that create a project or recover one, from their row to their answer
Creating == {"init", "repository", "bootstrap", "manifest", "cards", "unmark", "token"}

CallPc == Creating \cup
    {"closed", "open", "check", "audit", "count", "build", "fill", "discard", "move", "swap",
     "mark", "attach", "survey", "ready"}
CallFor == {"none", "open", "rebuild", "dry", "create", "restore", "default", "recover"}
CallType == [pc : CallPc, for : CallFor,
             was : {"none", "missing", "corrupt", "healthy"}, then : {"none", "count", "ready"},
             who : SUBSET Project, old : Lists]

TypeInv ==
    /\ db \in Lists \cup {Missing, Corrupt}
    /\ root \in [Project -> {"none", "repository", "bootstrap", "manifest"}]
    /\ files \in SUBSET Project /\ made \in SUBSET Project
    /\ temp \in Lists \cup {Missing, Unfinished}
    /\ kept \in SUBSET (Lists \cup {Corrupt})
    /\ call \in CallType

\* Where a call has a database that it can read, and what it found before it
\* replaces one
PcInv ==
    /\ call.pc \in {"audit", "count", "mark", "survey", "ready", "open"} \cup Creating => Readable
    /\ At("attach") => db # Corrupt /\ (db = Missing => ManagedRoots = {})
    /\ call.pc \in {"check", "build", "fill", "discard", "move"} => call.was = Health
    /\ At("audit") => call.then \in {"count", "ready"}
    /\ At("audit") /\ call.then = "count" => call.was = "healthy"
    /\ At("count") => call.was = "healthy"
    /\ At("swap") => db = Missing

\* How far the directory of a project has come that is being created
RootOf(pc) ==
    IF pc \in {"init", "token"} THEN "none"
    ELSE IF pc \in {"cards", "unmark"} THEN "manifest" ELSE pc

\* A project that callers know has its metadata files; one that is being created
\* is not known yet and has a row and no card.
RootInv ==
    /\ IsFiniteSet({p \in Project : root[p] # "none"})
    /\ \A p \in made : root[p] = "manifest"
    /\ call.pc \in Creating =>
        \E p \in Project : /\ call.who = {p} /\ root[p] = RootOf(call.pc)
                           /\ p \in db.projects /\ p \notin db.cards /\ p \notin made

\* What a readable database always lists
Complete(l) ==
    /\ l.cards \subseteq l.projects
    /\ made \ External \subseteq l.projects
    /\ "external" \notin allow => l.projects \cap External = {}

\* What an audit finds out about it
Audited(l) ==
    /\ Complete(l)
    /\ l.cards \subseteq files
    /\ \A p \in l.projects : root[p] = "manifest"

ListInv ==
    /\ Readable => Complete(db)
    /\ At("count") => Audited(db)
    /\ call.pc \in {"build", "fill", "move", "swap"} /\ call.was = "healthy" => Audited(call.old)
    /\ call.pc \in {"build", "fill", "move"} /\ call.was = "healthy" => db = call.old
    /\ call.pc \in {"move", "swap"} =>
        /\ temp = Recovered
        /\ call.was = "healthy" => SameCounts(call.old, Recovered)

\* Unless it is damaged, a database that is missing although the marker is set
\* was moved to the backups.
SwapInv ==
    {"damage", "external"} \cap allow = {} =>
        /\ db # Corrupt
        /\ db = Missing /\ marker => temp \in kept
        /\ call.pc \in {"fill", "discard", "move", "swap"} /\ call.was # "healthy" => ~marker

ProfileInv == TypeInv /\ PcInv /\ RootInv /\ ListInv /\ SwapInv

-----------------------------------------------------------------------------
\* A new project gets its row, a call that creates or recovers one ends, and a
\* project is deleted or imported.
AddRow(p) == RecoverRow(p) \/ \E for \in {"create", "restore", "default"} : CreateRow(p, for)
EndCall ==
    CreateFails \/ CreateCards \/ CardsFail \/ \E pulled \in BOOLEAN : RecoverContent(pulled)
Replace(p) == ProjectDelete(p) \/ ProjectImport(p)

\* The records of calls

LEMMA CallValues ==
    /\ Nothing \in Lists /\ Closed \in CallType /\ Opened \in CallType
    /\ Closed.pc = "closed" /\ Opened.pc = "open"
<1>1. Nothing \in Lists
  BY DEF Nothing, Lists
<1>2. Closed \in CallType /\ Closed.pc = "closed"
  BY <1>1 DEF Closed, CallType, CallPc, CallFor
<1> QED  BY <1>1, <1>2 DEF Opened, CallType, CallPc

\* A call that moves on keeps what it has.
LEMMA GoFacts ==
    ASSUME call \in CallType, NEW pc, Go(pc)
    PROVE  /\ call'.pc = pc /\ call'.was = call.was /\ call'.then = call.then
           /\ call'.who = call.who /\ call'.old = call.old
           /\ pc \in CallPc => call' \in CallType
BY DEF Go, CallType

\* A call begins.
LEMMA BeginFacts ==
    /\ \A mode \in {"rebuild", "dry"} : DatabaseRebuild(mode) =>
          /\ call' \in CallType /\ call'.pc = "check" /\ call'.was = Health
    /\ ContextOpen => /\ call' \in CallType /\ call'.was = Health
                      /\ call'.pc = IF NeedsRebuild THEN "check" ELSE "attach"
    /\ \A p \in Project, for \in {"create", "restore", "default"} : CreateRow(p, for) =>
          call' \in CallType /\ call'.pc = "init" /\ call'.who = {p}
    /\ \A p \in Project : RecoverRow(p) =>
          call' \in CallType /\ call'.pc = "token" /\ call'.who = {p}
<1>1. Health \in {"missing", "corrupt", "healthy"}
  BY DEF Health
<1> USE CallValues, <1>1 DEF CallType, CallPc, CallFor, Creating, Closed
<1>2. ASSUME NEW mode, mode \in {"rebuild", "dry"}, DatabaseRebuild(mode)
      PROVE  call' \in CallType /\ call'.pc = "check" /\ call'.was = Health
  BY <1>2, Zenon DEF DatabaseRebuild
<1>3. ContextOpen => /\ call' \in CallType /\ call'.was = Health
                     /\ call'.pc = IF NeedsRebuild THEN "check" ELSE "attach"
  BY Zenon DEF ContextOpen
<1>4. ASSUME NEW p \in Project, NEW for, for \in {"create", "restore", "default"},
             CreateRow(p, for)
      PROVE  call' \in CallType /\ call'.pc = "init" /\ call'.who = {p}
  BY <1>4, Zenon DEF CreateRow
<1>5. ASSUME NEW p \in Project, RecoverRow(p)
      PROVE  call' \in CallType /\ call'.pc = "token" /\ call'.who = {p}
  BY <1>5, Zenon DEF RecoverRow
<1> QED  BY <1>2, <1>3, <1>4, <1>5

\* A call goes into the audit, into the rebuild, or returns.
LEMMA AuditFacts ==
    ASSUME call \in CallType
    PROVE  /\ CheckReadiness => \/ call' = Closed
                                \/ /\ call' \in CallType /\ call'.then = "count"
                                   /\ call'.was = call.was
                                   /\ call'.pc = IF call.was = "healthy" THEN "audit" ELSE "build"
           /\ Survey => \/ call' = IF call.was = "healthy" THEN Opened ELSE Closed
                        \/ /\ call' \in CallType /\ call'.pc = "audit" /\ call'.then = "ready"
           /\ CountOld /\ db \in Lists =>
                 /\ call' \in CallType /\ call'.pc = "build" /\ call'.old = db
                 /\ call'.was = call.was
<1> USE DEF CallType, CallPc
<1>1. CheckReadiness => \/ call' = Closed
                        \/ /\ call' \in CallType /\ call'.then = "count" /\ call'.was = call.was
                           /\ call'.pc = IF call.was = "healthy" THEN "audit" ELSE "build"
  BY Zenon DEF CheckReadiness, Throw
<1>2. Survey => \/ call' = IF call.was = "healthy" THEN Opened ELSE Closed
                \/ /\ call' \in CallType /\ call'.pc = "audit" /\ call'.then = "ready"
  BY Zenon DEF Survey
<1>3. CountOld /\ db \in Lists => /\ call' \in CallType /\ call'.pc = "build" /\ call'.old = db
                                  /\ call'.was = call.was
  BY Zenon DEF CountOld
<1> QED  BY <1>1, <1>2, <1>3

\* A database that is not Missing or Corrupt lists something.
LEMMA ReadableLists == ASSUME TypeInv, Readable PROVE db \in Lists
BY DEF TypeInv, Readable

\* A new project gets its row first.
LEMMA RowFacts ==
    ASSUME TypeInv, PcInv, NEW p \in Project, AddRow(p)
    PROVE  /\ At("open") /\ root[p] = "none" /\ db \in Lists /\ p \notin db.projects
           /\ db' \in Lists /\ db'.projects = db.projects \cup {p} /\ db'.cards = db.cards
           /\ call' \in CallType /\ call'.pc \in {"init", "token"} /\ call'.who = {p}
           /\ p \in External => "external" \in allow
           /\ UNCHANGED <<root, files, marker, temp, kept, made, allow>>
<1> USE DEF Durable, Aside, Ghost
<1>1. /\ At("open") /\ root[p] = "none" /\ p \notin db.projects
      /\ db' = [db EXCEPT !.projects = @ \cup {p}]
      /\ p \in External => "external" \in allow
      /\ UNCHANGED <<root, files, marker, temp, kept, made, allow>>
  BY DEF AddRow, CreateRow, RecoverRow
<1>2. call' \in CallType /\ call'.pc \in {"init", "token"} /\ call'.who = {p}
  BY BeginFacts DEF AddRow
<1>3. db \in Lists
  BY <1>1, ReadableLists DEF PcInv, At
<1>4. db' \in Lists /\ db'.projects = db.projects \cup {p} /\ db'.cards = db.cards
  BY <1>1, <1>3 DEF Lists
<1> QED  BY <1>1, <1>2, <1>3, <1>4

\* The audit removes the row of a card that has no file.
LEMMA QuarantineFacts ==
    ASSUME TypeInv, PcInv, NEW p \in Project, QuarantineCard(p)
    PROVE  /\ At("audit") /\ Readable
           /\ db' \in Lists /\ db'.projects = db.projects /\ db'.cards = db.cards \ {p}
           /\ call' \in CallType /\ call'.pc = "audit"
           /\ call'.was = call.was /\ call'.then = call.then
           /\ UNCHANGED <<root, files, marker, temp, kept, made, allow>>
<1>1. At("audit") /\ UNCHANGED <<root, files, marker, temp, kept, made, allow>>
  BY DEF QuarantineCard, Durable, Aside, Ghost
<1>2. Readable /\ db \in Lists
  BY <1>1, ReadableLists DEF PcInv, At
<1>3. db' \in Lists /\ db'.projects = db.projects /\ db'.cards = db.cards \ {p}
  BY <1>2 DEF QuarantineCard, Lists
<1>4. /\ call' \in CallType /\ call'.pc = "audit"
      /\ call'.was = call.was /\ call'.then = call.then
  BY DEF QuarantineCard, TypeInv, CallType, At
<1> QED  BY <1>1, <1>2, <1>3, <1>4

\* The new database is what the directories hold.
LEMMA SwapFacts ==
    ASSUME TypeInv, ListInv, SwapIn
    PROVE  /\ db' = Recovered /\ Recovered \in Lists /\ temp' = Missing
           /\ call' \in CallType /\ call'.pc = "mark"
           /\ UNCHANGED <<root, files, marker, kept, made, allow>>
<1>1. At("swap") /\ db' = temp /\ temp' = Missing /\ Go("mark")
  BY DEF SwapIn
<1>2. UNCHANGED <<root, files, marker, kept, made, allow>>
  BY DEF SwapIn, Durable, Ghost
<1>3. temp = Recovered
  BY <1>1 DEF ListInv, At
<1>4. Recovered \in Lists
  BY DEF Recovered, ManagedRoots, Lists
<1>5. call' \in CallType /\ call'.pc = "mark"
  BY <1>1, GoFacts DEF TypeInv, CallPc
<1> QED  BY <1>1, <1>2, <1>3, <1>4, <1>5

\* A call that creates or recovers a project ends: its row is gone again, its card
\* is there, or neither.
LEMMA EndFacts ==
    ASSUME TypeInv, PcInv, EndCall
    PROVE  /\ call.pc \in Creating /\ call' = Opened /\ db' \in Lists
           /\ \/ /\ db'.projects = db.projects \ call.who /\ db'.cards = db.cards /\ made' = made
              \/ /\ db'.projects = db.projects /\ db'.cards \in {db.cards, db.cards \cup call.who}
                 /\ made' \in {made, made \cup call.who}
           /\ UNCHANGED <<marker, temp, kept, allow>>
<1>1. call.pc \in Creating
  BY DEF EndCall, CreateFails, CreateCards, CardsFail, RecoverContent, At, Creating
<1>2. db \in Lists
  BY <1>1, ReadableLists DEF PcInv
<1>3. /\ call' = Opened /\ UNCHANGED <<marker, temp, kept, allow>>
      /\ \/ db' = [db EXCEPT !.projects = @ \ call.who] /\ made' = made
         \/ /\ db' = db \/ db' = [db EXCEPT !.cards = @ \cup call.who]
            /\ made' \in {made, made \cup call.who}
  <2>1. CASE CreateFails \/ CardsFail
    BY <2>1 DEF CreateFails, CardsFail, Aside, Ghost
  <2>2. CASE CreateCards
    BY <2>2 DEF CreateCards, Told, Aside
  <2>3. ASSUME NEW pulled, RecoverContent(pulled)
        PROVE  /\ call' = Opened /\ UNCHANGED <<marker, temp, kept, allow>>
               /\ db' = db \/ db' = [db EXCEPT !.cards = @ \cup call.who]
               /\ made' \in {made, made \cup call.who}
    BY <1>2, <2>3 DEF RecoverContent, Told, Aside, Lists
  <2> QED  BY <2>1, <2>2, <2>3 DEF EndCall
<1>4. call.who \subseteq Project
  BY DEF TypeInv, CallType
<1> QED  BY <1>1, <1>2, <1>3, <1>4 DEF Lists

\* A project is deleted, or imported from its directory.
LEMMA ReplaceFacts ==
    ASSUME TypeInv, PcInv, NEW p \in Project, Replace(p)
    PROVE  /\ At("open") /\ Readable /\ db' \in Lists
           /\ \/ /\ db'.projects = db.projects \ {p} /\ db'.cards = db.cards \ {p}
                 /\ made' = made \ {p}
              \/ /\ db.projects = {} /\ p \notin External /\ root[p] = "manifest"
                 /\ db'.projects = {p} /\ db'.cards \subseteq {p} /\ made' = made \cup {p}
           /\ UNCHANGED <<root, files, marker, temp, kept, call, allow>>
<1>1. At("open") /\ UNCHANGED <<root, files, marker, temp, kept, call, allow>>
  BY DEF Replace, ProjectDelete, ProjectImport, Durable, Aside
<1>2. Readable /\ db \in Lists
  BY <1>1, ReadableLists DEF PcInv, At
<1>3. CASE ProjectDelete(p)
  BY <1>1, <1>2, <1>3 DEF ProjectDelete, Lists
<1>4. CASE ProjectImport(p)
  BY <1>1, <1>2, <1>4 DEF ProjectImport, ManagedRoots, Lists
<1> QED  BY <1>3, <1>4 DEF Replace

LEMMA TypeStep ==
    ASSUME TypeInv, PcInv, ListInv, [Next]_vars
    PROVE  TypeInv'
<1> call \in CallType
  BY DEF TypeInv
<1> USE CallValues, GoFacts, ReadableLists DEF TypeInv, At, Durable, Aside, Ghost
<1>1. CASE UNCHANGED <<db, root, files, made, temp, kept>> /\ call' \in CallType
  BY <1>1
<1>2. CASE ContextOpen \/ (\E mode \in {"rebuild", "dry"} : DatabaseRebuild(mode))
  BY <1>1, <1>2, BeginFacts DEF ContextOpen, DatabaseRebuild
<1>3. CASE CheckReadiness \/ Survey
  BY <1>1, <1>3, AuditFacts DEF CheckReadiness, Survey
<1>4. CASE AuditProjects \/ ContextDestroy \/ Crash
  BY <1>1, <1>4 DEF AuditProjects, AuditThrows, ContextDestroy, Crash
<1>5. CASE AuditRest
  BY <1>1, <1>5 DEF AuditRest, AuditThrows, PcInv, CallPc
<1>6. CASE CountOld
  BY <1>1, <1>6, AuditFacts DEF CountOld, PcInv
<1>7. CASE MarkRebuilt \/ MarkReady
  BY <1>1, <1>7 DEF MarkRebuilt, MarkReady, Throw, CallPc
<1>8. CASE Upgrade \/ Migrate \/ (\E p \in Project : AiThreadCreate(p))
  BY <1>1, <1>8 DEF Upgrade, Migrate, AiThreadCreate
<1>9. ASSUME NEW p \in Project, QuarantineCard(p) PROVE TypeInv'
  BY <1>9, QuarantineFacts
<1>10. CASE BeginTemporary \/ FillTemporary \/ DiscardTemporary
  <2>1. Recovered \in Lists
    BY DEF Recovered, ManagedRoots, Lists
  <2> QED  BY <1>10, <2>1 DEF BeginTemporary, FillTemporary, DiscardTemporary, Throw, CallPc
<1>11. CASE MoveOld
  BY <1>11 DEF MoveOld, CallPc
<1>12. CASE SwapIn
  BY <1>12, SwapFacts
<1>13. ASSUME NEW renamed, SwapFails(renamed) PROVE TypeInv'
  BY <1>13 DEF SwapFails, Throw, CallType
<1>14. CASE Attach
  BY <1>14 DEF Attach, CallPc
<1>15. ASSUME NEW p \in Project, AddRow(p) PROVE TypeInv'
  BY <1>15, RowFacts
<1>16. CASE InitRepository \/ WriteBootstrap \/ WriteManifest
  BY <1>16 DEF InitRepository, WriteBootstrap, WriteManifest, Step, CallPc, Creating
<1>17. CASE CommitMetadata \/ RemoveMarker
  BY <1>17 DEF CommitMetadata, RemoveMarker, Told, CallType, CallPc, Creating
<1>18. CASE CreateFails \/ CardsFail
  BY <1>18, EndFacts DEF EndCall, CreateFails, CardsFail
<1>19. CASE CreateCards
  BY <1>19, EndFacts DEF EndCall, CreateCards, Told, CallType
<1>20. ASSUME NEW p \in Project, Replace(p) PROVE TypeInv'
  BY <1>20, ReplaceFacts
<1>21. ASSUME NEW pulled \in BOOLEAN, RecoverContent(pulled) PROVE TypeInv'
  <2>1. /\ call' = Opened /\ db' \in Lists /\ call.who \subseteq Project
        /\ UNCHANGED <<temp, kept>>
    BY <1>21, EndFacts DEF EndCall, CallType
  <2> QED  BY <1>21, <2>1 DEF RecoverContent, Told
<1>22. ASSUME NEW how, RecoverFails(how) PROVE TypeInv'
  BY <1>22 DEF RecoverFails, CallType
<1>23. CASE \E how \in {Missing, Corrupt} : Damage(how)
  BY <1>23 DEF Damage
<1>24. ASSUME NEW p \in Project, RemoveCardFile(p) PROVE TypeInv'
  BY <1>24 DEF RemoveCardFile
<1>25. CASE UNCHANGED vars
  BY <1>1, <1>25 DEF vars
<1> HIDE CallValues, GoFacts, ReadableLists DEF TypeInv, At, Durable, Aside, Ghost
<1> QED
  BY <1>2, <1>3, <1>4, <1>5, <1>6, <1>7, <1>8, <1>9, <1>10, <1>11, <1>12, <1>13, <1>14, <1>15,
     <1>16, <1>17, <1>18, <1>19, <1>20, <1>21, <1>22, <1>23, <1>24, <1>25
  DEF Next, OpenSteps, CreateSteps, AddRow, Replace

LEMMA PcStep ==
    ASSUME TypeInv, TypeInv', PcInv, ListInv, [Next]_vars
    PROVE  PcInv'
<1> call \in CallType
  BY DEF TypeInv
<1>1. /\ Readable => db \in Lists
      /\ db' \in Lists => Readable'
  BY ReadableLists, ProfileAssumption DEF Readable
<1> USE CallValues, GoFacts, <1>1 DEF PcInv, At, Creating, ManagedRoots, Durable, Aside, Ghost
<1>2. CASE call'.pc = "closed"
  BY <1>2
<1>3. CASE call'.pc = "open" /\ Readable'
  BY <1>3
<1>4. CASE db' = db /\ call'.pc = "check" /\ call'.was = Health
  BY <1>4 DEF Health
<1>5. CASE UNCHANGED <<db, root, call>>
  BY <1>5 DEF Health, Readable
<1>6. CASE ContextOpen \/ (\E mode \in {"rebuild", "dry"} : DatabaseRebuild(mode))
  BY <1>4, <1>6, BeginFacts DEF ContextOpen, NeedsRebuild, DatabaseRebuild
<1>7. CASE CheckReadiness
  BY <1>2, <1>7, AuditFacts DEF CheckReadiness, Health, Readable
<1>8. CASE Survey
  BY <1>2, <1>3, <1>8, AuditFacts DEF Survey, Readable
<1>9. CASE AuditProjects \/ ContextDestroy \/ Crash
  BY <1>2, <1>3, <1>9 DEF AuditProjects, AuditThrows, ContextDestroy, Crash, Readable
<1>10. CASE AuditRest
  <2>1. CASE AuditThrows
    BY <1>2, <1>3, <1>10, <2>1 DEF AuditRest, AuditThrows, Readable
  <2>2. CASE Go(call.then)
    BY <1>10, <2>2 DEF AuditRest, Readable
  <2> QED  BY <1>10, <2>1, <2>2 DEF AuditRest
<1>11. CASE CountOld
  BY <1>11, AuditFacts DEF CountOld, Health, Readable
<1>12. CASE MarkRebuilt \/ MarkReady
  BY <1>2, <1>3, <1>12 DEF MarkRebuilt, MarkReady, Throw, Readable
<1>13. CASE Upgrade \/ Migrate \/ (\E p \in Project : AiThreadCreate(p) \/ RemoveCardFile(p))
  BY <1>5, <1>13, Zenon DEF Upgrade, Migrate, AiThreadCreate, RemoveCardFile
<1>14. ASSUME NEW p \in Project, QuarantineCard(p) PROVE PcInv'
  BY <1>14, QuarantineFacts
<1>15. CASE BeginTemporary \/ FillTemporary \/ DiscardTemporary
  BY <1>2, <1>15 DEF BeginTemporary, FillTemporary, DiscardTemporary, Throw, Health
<1>16. CASE MoveOld
  BY <1>16 DEF MoveOld
<1>17. CASE SwapIn
  BY <1>17, SwapFacts
<1>18. ASSUME NEW renamed, SwapFails(renamed) PROVE PcInv'
  BY <1>2, <1>18 DEF SwapFails, Throw
<1>19. CASE Attach
  BY <1>19 DEF Attach, TypeInv, Readable
<1>20. ASSUME NEW p \in Project, AddRow(p) PROVE PcInv'
  BY <1>20, RowFacts
<1>21. CASE InitRepository \/ WriteBootstrap \/ WriteManifest
  BY <1>21 DEF InitRepository, WriteBootstrap, WriteManifest, Step, Readable
<1>22. CASE CommitMetadata \/ RemoveMarker
  BY <1>3, <1>22 DEF CommitMetadata, RemoveMarker, Told, Readable
<1>23. CASE EndCall
  BY <1>3, <1>23, EndFacts
<1>24. ASSUME NEW p \in Project, Replace(p) PROVE PcInv'
  BY <1>3, <1>24, ReplaceFacts
<1>26. ASSUME NEW how, RecoverFails(how) PROVE PcInv'
  BY <1>3, <1>26 DEF RecoverFails, Readable
<1>27. CASE \E how \in {Missing, Corrupt} : Damage(how)
  BY <1>2, <1>27 DEF Damage
<1>28. CASE UNCHANGED vars
  BY <1>5, <1>28 DEF vars
<1> HIDE CallValues, GoFacts, <1>1 DEF PcInv, At, Creating, ManagedRoots, Durable, Aside, Ghost
<1> QED
  BY <1>6, <1>7, <1>8, <1>9, <1>10, <1>11, <1>12, <1>13, <1>14, <1>15, <1>16, <1>17, <1>18,
     <1>19, <1>20, <1>21, <1>22, <1>23, <1>24, <1>26, <1>27, <1>28
  DEF Next, OpenSteps, CreateSteps, AddRow, EndCall, Replace

-----------------------------------------------------------------------------
\* The steps by what they can disturb

\* The steps that leave the database, the directories and the temporary database
\* alone and begin neither a project nor a rebuild
Quiet ==
    /\ UNCHANGED <<db, root, made, temp, kept, allow>>
    /\ \/ UNCHANGED <<call, files, marker>>
       \/ /\ marker' = marker \/ Readable
          /\ call'.pc \in {"closed", "open", "check", "audit", "attach"}

\* The steps of a rebuild
Rebuilding ==
    \/ CheckReadiness \/ AuditRest \/ CountOld
    \/ BeginTemporary \/ FillTemporary \/ DiscardTemporary
    \/ MoveOld \/ SwapIn \/ \E renamed \in BOOLEAN : SwapFails(renamed)

Changing ==
    \/ \E p \in Project : QuarantineCard(p) \/ AddRow(p) \/ Replace(p)
    \/ Attach
    \/ InitRepository \/ WriteBootstrap \/ WriteManifest \/ CommitMetadata \/ RemoveMarker
    \/ EndCall
    \/ \E how \in {"key", "pull", "index"} : RecoverFails(how)
    \/ \E how \in {Missing, Corrupt} : Damage(how)

LEMMA StepKinds ==
    ASSUME TypeInv, PcInv, [Next]_vars
    PROVE  Quiet \/ Rebuilding \/ Changing
<1> call \in CallType
  BY DEF TypeInv
<1>1. ContextOpen \/ (\E mode \in {"rebuild", "dry"} : DatabaseRebuild(mode)) => Quiet
  BY BeginFacts DEF ContextOpen, DatabaseRebuild, Quiet, Durable, Aside, Ghost
<1>2. Survey => Quiet
  BY AuditFacts, CallValues DEF Survey, Quiet, Durable, Aside, Ghost
<1>3. AuditProjects \/ ContextDestroy \/ Crash => Quiet
  BY CallValues DEF AuditProjects, AuditThrows, ContextDestroy, Crash, Quiet, Durable, Aside, Ghost
<1>4. MarkRebuilt \/ MarkReady => Quiet
  BY CallValues, GoFacts DEF MarkRebuilt, MarkReady, Throw, PcInv, At, Quiet, Durable, Aside, Ghost
<1>5. Upgrade \/ Migrate \/ (\E p \in Project : AiThreadCreate(p)) \/ UNCHANGED vars => Quiet
  BY Zenon DEF Upgrade, Migrate, AiThreadCreate, Quiet, Durable, Aside, Ghost, vars
<1>6. (\E p \in Project : RemoveCardFile(p)) => Quiet
  BY DEF RemoveCardFile, Quiet, Aside
<1> QED
  BY <1>1, <1>2, <1>3, <1>4, <1>5, <1>6
  DEF Next, OpenSteps, CreateSteps, Rebuilding, Changing, AddRow, EndCall, Replace

\* A rebuild touches no directory.
LEMMA RebuildingFacts ==
    ASSUME TypeInv, PcInv, Rebuilding
    PROVE  UNCHANGED <<root, files, made, allow>> /\ call'.pc \notin Creating
<1> call \in CallType
  BY DEF TypeInv
<1>1. UNCHANGED <<root, files, made, allow>>
  BY DEF Rebuilding, CheckReadiness, AuditRest, CountOld, BeginTemporary, FillTemporary,
     DiscardTemporary, MoveOld, SwapIn, SwapFails, Durable, Ghost
<1>2. CASE CheckReadiness \/ CountOld
  BY <1>1, <1>2, AuditFacts, CallValues, ReadableLists DEF CountOld, PcInv, At, Creating
<1>3. CASE AuditRest
  BY <1>1, <1>3, GoFacts, CallValues DEF AuditRest, AuditThrows, PcInv, At, Creating
<1>4. CASE BeginTemporary \/ FillTemporary \/ DiscardTemporary
  BY <1>1, <1>4, GoFacts, CallValues
  DEF BeginTemporary, FillTemporary, DiscardTemporary, Throw, Creating
<1>5. CASE MoveOld \/ SwapIn \/ \E renamed \in BOOLEAN : SwapFails(renamed)
  BY <1>1, <1>5, GoFacts, CallValues DEF MoveOld, SwapIn, SwapFails, Throw, Creating
<1> QED  BY <1>1, <1>2, <1>3, <1>4, <1>5 DEF Rebuilding

-----------------------------------------------------------------------------
\* One more directory leaves their number finite.
LEMMA FiniteRoots ==
    ASSUME RootInv, NEW p \in Project, \A q \in Project : q # p => root'[q] = root[q]
    PROVE  IsFiniteSet({q \in Project : root'[q] # "none"})
<1>1. IsFiniteSet({q \in Project : root[q] # "none"} \cup {p})
  BY FS_AddElement DEF RootInv
<1>2. {q \in Project : root'[q] # "none"} \subseteq {q \in Project : root[q] # "none"} \cup {p}
  OBVIOUS
<1> QED  BY <1>1, <1>2, FS_Subset

LEMMA RootStep ==
    ASSUME TypeInv, TypeInv', PcInv, RootInv, ListInv, [Next]_vars
    PROVE  RootInv'
<1> call \in CallType
  BY DEF TypeInv
<1>1. CASE root' = root /\ made' \subseteq made /\ call'.pc \notin Creating
  BY <1>1 DEF RootInv
<1>2. CASE /\ call.pc \in Creating /\ root' = root /\ made' = made \cup call.who
           /\ RootOf(call.pc) = "manifest" /\ call'.pc \notin Creating
  BY <1>2 DEF RootInv
<1>3. CASE Quiet
  <2>1. CASE UNCHANGED <<root, made, call, db>>
    BY <2>1 DEF RootInv
  <2> QED  BY <1>1, <1>3, <2>1 DEF Quiet, Creating
<1>4. CASE Rebuilding
  BY <1>1, <1>4, RebuildingFacts
<1>5. ASSUME NEW p \in Project, QuarantineCard(p) PROVE RootInv'
  BY <1>1, <1>5, QuarantineFacts DEF Creating
<1>6. CASE Attach
  BY <1>1, <1>6, GoFacts DEF Attach, Creating, Durable, Ghost
<1>7. ASSUME NEW p \in Project, AddRow(p) PROVE RootInv'
  <2>1. Readable
    BY <1>7, RowFacts DEF PcInv, At
  <2> QED  BY <1>7, <2>1, RowFacts DEF RootInv, RootOf, ListInv, Complete
<1>8. CASE InitRepository \/ WriteBootstrap \/ WriteManifest
  <2>1. PICK p \in Project :
           /\ call.who = {p} /\ p \in db.projects /\ p \notin db.cards /\ p \notin made
    BY <1>8 DEF InitRepository, WriteBootstrap, WriteManifest, Step, RootInv, At, Creating
  <2>2. /\ call'.pc \in {"repository", "bootstrap", "manifest"} /\ call'.who = call.who
        /\ root'[p] = call'.pc /\ \A q \in Project : q # p => root'[q] = root[q]
        /\ UNCHANGED <<db, made>>
    BY <1>8, <2>1, GoFacts DEF InitRepository, WriteBootstrap, WriteManifest, Step, Ghost
  <2>3. \A q \in made' : root'[q] = "manifest"
    BY <2>1, <2>2 DEF RootInv, TypeInv
  <2> QED  BY <2>1, <2>2, <2>3, FiniteRoots DEF RootInv, RootOf
<1>9. CASE CommitMetadata
  <2>1. CASE Told
    BY <1>2, <1>9, <2>1, CallValues DEF CommitMetadata, Told, At, Creating, RootOf, Durable
  <2>2. CASE (Go("cards") \/ Go("unmark")) /\ UNCHANGED made
    BY <1>9, <2>2, GoFacts DEF CommitMetadata, RootInv, At, Creating, RootOf, Durable
  <2> QED  BY <1>9, <2>1, <2>2 DEF CommitMetadata
<1>10. CASE RemoveMarker \/ CreateCards
  BY <1>2, <1>10, CallValues DEF RemoveMarker, CreateCards, Told, At, Creating, RootOf, Durable
<1>11. CASE CreateFails \/ CardsFail
  BY <1>1, <1>11, CallValues DEF CreateFails, CardsFail, Creating, Durable, Ghost
<1>12. ASSUME NEW p \in Project, Replace(p) PROVE RootInv'
  <2>1. /\ call' = call /\ call.pc = "open" /\ root' = root
        /\ \A q \in made' : q \in made \/ root[q] = "manifest"
    BY <1>12, ReplaceFacts DEF At
  <2> QED  BY <2>1 DEF RootInv, Creating
<1>13. ASSUME NEW pulled, RecoverContent(pulled) PROVE RootInv'
  <2>1. PICK p \in Project : call.who = {p} /\ p \notin made
    BY <1>13 DEF RecoverContent, RootInv, At, Creating
  <2>2. /\ root'[p] = "manifest" /\ \A q \in Project : q # p => root'[q] = root[q]
        /\ made' = made \cup {p} /\ call'.pc = "open"
    BY <1>13, <2>1, CallValues DEF RecoverContent, Told
  <2>3. \A q \in made' : root'[q] = "manifest"
    BY <2>1, <2>2 DEF RootInv, TypeInv
  <2> QED  BY <2>2, <2>3, FiniteRoots DEF RootInv, Creating
<1>14. ASSUME NEW how, RecoverFails(how) PROVE RootInv'
  <2>1. PICK p \in Project : call.who = {p} /\ p \notin made
    BY <1>14 DEF RecoverFails, RootInv, At, Creating
  <2>2. /\ \A q \in Project : q # p => root'[q] = root[q]
        /\ made' = made /\ call'.pc = "open"
    BY <1>14, <2>1, CallValues DEF RecoverFails, Ghost
  <2>3. \A q \in made' : root'[q] = "manifest"
    BY <2>1, <2>2 DEF RootInv, TypeInv
  <2> QED  BY <2>2, <2>3, FiniteRoots DEF RootInv, Creating
<1>15. ASSUME NEW how, Damage(how) PROVE RootInv'
  BY <1>1, <1>15 DEF Damage, At, Creating, Durable
<1> QED
  BY <1>3, <1>4, <1>5, <1>6, <1>7, <1>8, <1>9, <1>10, <1>11, <1>12, <1>13, <1>14, <1>15, StepKinds
  DEF Changing, EndCall

LEMMA ListStep ==
    ASSUME TypeInv, TypeInv', PcInv, RootInv, ListInv, [Next]_vars
    PROVE  ListInv'
<1> call \in CallType
  BY DEF TypeInv
<1>a. /\ Readable => db \in Lists
      /\ db' \in Lists => Readable'
      /\ Readable => Complete(db)
  BY ReadableLists, ProfileAssumption DEF Readable, ListInv
<1>b. call.pc \in Creating =>
         /\ Readable
         /\ \E p \in Project : /\ call.who = {p} /\ p \in db.projects
                               /\ p \notin db.cards /\ p \notin made
  BY DEF RootInv, PcInv
<1> DEFINE Working == call.pc \in {"count", "build", "fill", "move", "swap"}
\* Steps outside a rebuild
<1>1. CASE ~Working' /\ UNCHANGED <<db, made, allow>>
  BY <1>1 DEF ListInv, At, Complete, Readable
<1>2. CASE ~Working' /\ Complete(db)'
  BY <1>2 DEF ListInv, At
<1>3. CASE ~Working' /\ ~Readable'
  BY <1>3 DEF ListInv, At
<1>4. CASE Quiet
  <2>1. CASE UNCHANGED <<db, root, files, made, temp, allow, call>>
    BY <2>1, Zenon DEF ListInv, At, Complete, Audited, Readable, Recovered, ManagedRoots, SameCounts
  <2> QED  BY <1>1, <1>4, <2>1 DEF Quiet
<1>5. ASSUME NEW p \in Project, QuarantineCard(p) PROVE ListInv'
  BY <1>2, <1>5, <1>a, QuarantineFacts DEF Complete
<1>6. CASE Attach
  <2>1. /\ At("attach") /\ call'.pc = "survey" /\ UNCHANGED <<root, made, allow>>
        /\ db' = db \/ (db = Missing /\ db' = Nothing)
    BY <1>6, GoFacts DEF Attach, Durable, Ghost
  <2>2. db = Missing => made \ External = {}
    BY <2>1 DEF PcInv, RootInv, TypeInv, ManagedRoots
  <2> QED  BY <1>1, <1>2, <2>1, <2>2 DEF Complete, Nothing
<1>7. ASSUME NEW p \in Project, AddRow(p) PROVE ListInv'
  <2>1. Readable
    BY <1>7, RowFacts DEF PcInv, At
  <2> QED  BY <1>2, <1>7, <1>a, <2>1, RowFacts DEF Complete
<1>8. CASE InitRepository \/ WriteBootstrap \/ WriteManifest
  BY <1>1, <1>8, GoFacts DEF InitRepository, WriteBootstrap, WriteManifest, Step, Ghost
<1>9. CASE CommitMetadata \/ RemoveMarker
  <2>1. /\ call.pc \in Creating /\ call'.pc \in {"cards", "unmark", "open"}
        /\ made' \subseteq made \cup call.who /\ UNCHANGED <<db, allow>>
    BY <1>9, GoFacts, CallValues DEF CommitMetadata, RemoveMarker, Told, At, Creating
  <2> QED  BY <1>2, <1>a, <1>b, <2>1 DEF Complete
<1>10. CASE EndCall
  BY <1>2, <1>10, <1>a, <1>b, EndFacts, CallValues DEF Complete
<1>11. ASSUME NEW p \in Project, Replace(p) PROVE ListInv'
  BY <1>2, <1>11, <1>a, ReplaceFacts DEF At, Complete
<1>12. CASE \E how \in {"key", "pull", "index"} : RecoverFails(how)
  BY <1>1, <1>12, CallValues DEF RecoverFails, Ghost
<1>13. CASE \E how \in {Missing, Corrupt} : Damage(how)
  BY <1>3, <1>13 DEF Damage, At, Readable
\* The steps of a rebuild
<1>c. ASSUME Rebuilding
      PROVE  /\ Recovered' = Recovered
             /\ db' = db => (Readable' => Complete(db)')
             /\ call'.old = call.old /\ Audited(call.old) => Audited(call.old)'
             /\ call'.old = db /\ Audited(db) => Audited(call.old)'
             /\ db' = db /\ Audited(db) => Audited(db)'
             /\ call'.old = call.old =>
                   SameCounts(call.old, Recovered)' = SameCounts(call.old, Recovered)
  <2>1. UNCHANGED <<root, files, made, allow>>
    BY <1>c, RebuildingFacts
  <2>2. Recovered' = Recovered
    BY <2>1 DEF Recovered, ManagedRoots
  <2>3. /\ call'.old = call.old /\ Audited(call.old) => Audited(call.old)'
        /\ call'.old = db /\ Audited(db) => Audited(call.old)'
        /\ db' = db /\ Audited(db) => Audited(db)'
    BY <2>1, Zenon DEF Audited, Complete
  <2>4. call'.old = call.old => SameCounts(call.old, Recovered)' = SameCounts(call.old, Recovered)
    BY <2>2 DEF SameCounts
  <2> QED  BY <1>a, <2>1, <2>2, <2>3, <2>4 DEF Readable, Complete
<1>14. CASE CheckReadiness
  BY <1>14, <1>c, AuditFacts, CallValues DEF CheckReadiness, Rebuilding, ListInv, At
<1>15. CASE AuditRest
  <2>1. CASE AuditThrows
    BY <1>1, <1>15, <2>1, CallValues DEF AuditRest, AuditThrows, Ghost
  <2>2. CASE Go(call.then)
    <3>1. call.pc = "audit" /\ call'.pc \in {"count", "ready"} /\ db' = db
      BY <1>15, <2>2, GoFacts DEF AuditRest, PcInv, At
    <3>2. Audited(db)
      BY <1>15, <1>a, <3>1 DEF AuditRest, PcInv, Audited
    <3> QED  BY <1>15, <1>c, <3>1, <3>2 DEF Rebuilding, ListInv, At
  <2> QED  BY <1>15, <2>1, <2>2 DEF AuditRest
<1>16. CASE CountOld
  <2>1. At("count") /\ Readable /\ db' = db
    BY <1>16 DEF CountOld, PcInv, At
  <2> QED  BY <1>16, <1>a, <1>c, <2>1, AuditFacts DEF Rebuilding, ListInv, At
<1>17. CASE BeginTemporary
  <2>1. call.pc = "build" /\ db' = db /\ (Go("fill") \/ Throw)
    BY <1>17 DEF BeginTemporary, At
  <2> QED  BY <1>17, <1>c, <2>1, GoFacts, CallValues DEF Rebuilding, Throw, ListInv, At
<1>18. CASE FillTemporary
  <2>1. CASE Throw
    BY <1>1, <1>18, <2>1, CallValues DEF FillTemporary, Throw, Ghost
  <2>2. CASE /\ temp' = Recovered /\ (Go("discard") \/ Go("move"))
             /\ call.was = "healthy" => SameCounts(call.old, Recovered)
    <3>1. call.pc = "fill" /\ db' = db
      BY <1>18 DEF FillTemporary, At
    <3> QED  BY <1>18, <1>c, <2>2, <3>1, GoFacts DEF Rebuilding, ListInv, At
  <2> QED  BY <1>18, <2>1, <2>2 DEF FillTemporary
<1>19. CASE DiscardTemporary
  BY <1>1, <1>19, CallValues DEF DiscardTemporary, Throw, Ghost
<1>20. CASE MoveOld
  <2>1. call.pc = "move" /\ ~Readable' /\ temp' = temp /\ Go("swap")
    BY <1>20 DEF MoveOld, At, Readable
  <2> QED  BY <1>20, <1>c, <2>1, GoFacts DEF Rebuilding, ListInv, At
<1>21. CASE SwapIn
  <2>1. made \ External \subseteq ManagedRoots
    BY DEF RootInv, TypeInv, ManagedRoots
  <2>2. ManagedRoots \cap External = {}
    BY DEF ManagedRoots
  <2> QED  BY <1>2, <1>21, <2>1, <2>2, SwapFacts DEF Complete, Recovered
<1>22. ASSUME NEW renamed, SwapFails(renamed) PROVE ListInv'
  <2>1. /\ call'.pc = "closed" /\ UNCHANGED <<made, allow>> /\ At("swap")
        /\ db' = IF call.was = "healthy" THEN call.old ELSE db
    BY <1>22, CallValues DEF SwapFails, Throw, Ghost
  <2>2. call.was = "healthy" => Complete(call.old)
    BY <2>1 DEF ListInv, Audited, At
  <2> QED  BY <1>1, <1>2, <2>1, <2>2 DEF Complete
<1> QED
  BY <1>4, <1>5, <1>6, <1>7, <1>8, <1>9, <1>10, <1>11, <1>12, <1>13, <1>14, <1>15, <1>16, <1>17,
     <1>18, <1>19, <1>20, <1>21, <1>22, StepKinds
  DEF Changing, Rebuilding

\* The projects that an audited database lists are among the directories, and so
\* are its cards among the files: equal numbers make them equal.
LEMMA SameListing ==
    ASSUME TypeInv, RootInv, ListInv
    PROVE  RebuildFaithful
<1> SUFFICES ASSUME call.pc \in {"move", "swap"}, call.was = "healthy", "external" \notin allow
             PROVE  temp = call.old
  BY DEF RebuildFaithful
<1>1. /\ temp = Recovered /\ SameCounts(call.old, Recovered) /\ Audited(call.old)
      /\ call.old \in Lists
  BY DEF ListInv, TypeInv, CallType
<1>2. call.old.projects \subseteq ManagedRoots /\ call.old.cards \subseteq ManagedRoots \cap files
  BY <1>1 DEF Audited, Complete, ManagedRoots, Lists
<1>3. IsFiniteSet(ManagedRoots) /\ IsFiniteSet(ManagedRoots \cap files)
  <2>1. ManagedRoots \subseteq {p \in Project : root[p] # "none"}
    BY DEF ManagedRoots
  <2>2. IsFiniteSet(ManagedRoots)
    BY <2>1, FS_Subset DEF RootInv
  <2> QED  BY <2>2, FS_Subset
<1>4. call.old.projects = ManagedRoots
  BY <1>1, <1>2, <1>3, FS_Subset DEF SameCounts, Recovered
<1>5. call.old.cards = ManagedRoots \cap files
  BY <1>1, <1>2, <1>3, FS_Subset DEF SameCounts, Recovered
<1> QED  BY <1>1, <1>4, <1>5, Zenon DEF Recovered, Lists

LEMMA SwapStep ==
    ASSUME TypeInv, TypeInv', PcInv, PcInv', RootInv, ListInv, SwapInv, [Next]_vars
    PROVE  SwapInv'
<1> call \in CallType
  BY DEF TypeInv
<1>a. /\ Readable => db \in Lists
      /\ db' \in Lists => db' # Missing /\ db' # Corrupt
      /\ Missing \notin kept
  BY ReadableLists, ProfileAssumption DEF Readable, TypeInv
<1> DEFINE Building == call.pc \in {"fill", "discard", "move", "swap"}
<1>1. CASE ~Building' /\ UNCHANGED <<db, marker, temp, kept, allow>>
  BY <1>1 DEF SwapInv
<1>2. CASE ~Building' /\ allow' = allow /\ db' \in Lists
  BY <1>2, <1>a DEF SwapInv
<1>3. CASE Quiet
  <2>1. CASE UNCHANGED <<db, marker, temp, kept, allow, call>>
    BY <2>1 DEF SwapInv
  <2> QED  BY <1>1, <1>2, <1>3, <1>a, <2>1 DEF Quiet
<1>4. CASE CheckReadiness \/ CountOld
  BY <1>1, <1>4, AuditFacts, CallValues, <1>a DEF CheckReadiness, CountOld, PcInv, At, Aside, Ghost
<1>5. CASE AuditRest
  BY <1>1, <1>5, GoFacts, CallValues DEF AuditRest, AuditThrows, PcInv, At, Aside, Ghost
<1>6. CASE BeginTemporary
  BY <1>6, <1>a, GoFacts, CallValues DEF BeginTemporary, SwapInv, Throw, PcInv, At, Health, Ghost
<1>7. CASE FillTemporary \/ DiscardTemporary
  BY <1>7, <1>a, GoFacts, CallValues
  DEF FillTemporary, DiscardTemporary, SwapInv, Throw, PcInv, At, Health, Ghost
<1>8. CASE MoveOld
  <2>1. {"damage", "external"} \cap allow = {} /\ call.was = "healthy" => temp = db /\ db # Missing
    BY <1>8, SameListing DEF MoveOld, RebuildFaithful, ListInv, PcInv, Health, At
  <2>2. /\ call.pc = "move" /\ db' = Missing /\ call'.pc = "swap" /\ call'.was = call.was
        /\ UNCHANGED <<temp, marker, allow>>
        /\ db # Missing => kept' = kept \cup {db}
    BY <1>8, GoFacts DEF MoveOld, At, Ghost
  <2> QED  BY <2>1, <2>2, ProfileAssumption DEF SwapInv
<1>9. CASE SwapIn
  BY <1>2, <1>9, SwapFacts
<1>10. ASSUME NEW renamed, SwapFails(renamed) PROVE SwapInv'
  BY <1>2, <1>10, <1>a, CallValues DEF SwapFails, SwapInv, Throw, CallType, PcInv, At, Ghost
<1>11. CASE Attach
  <2>1. call'.pc = "survey" /\ allow' = allow
    BY <1>11, GoFacts DEF Attach, Ghost
  <2>2. db' \in Lists
    BY <2>1 DEF PcInv, Readable, TypeInv
  <2> QED  BY <1>2, <2>1, <2>2
<1>12. ASSUME NEW p \in Project, QuarantineCard(p) PROVE SwapInv'
  BY <1>2, <1>12, QuarantineFacts
<1>13. ASSUME NEW p \in Project, AddRow(p) PROVE SwapInv'
  BY <1>2, <1>13, RowFacts
<1>14. CASE InitRepository \/ WriteBootstrap \/ WriteManifest
  BY <1>1, <1>14, GoFacts DEF InitRepository, WriteBootstrap, WriteManifest, Step, Aside, Ghost
<1>15. CASE CommitMetadata \/ RemoveMarker
  <2>1. call.pc \in Creating /\ call'.pc \in {"cards", "unmark", "open"} /\ UNCHANGED <<db, allow>>
    BY <1>15, GoFacts, CallValues DEF CommitMetadata, RemoveMarker, Told, At, Creating
  <2> QED  BY <1>2, <1>a, <2>1 DEF PcInv
<1>16. CASE EndCall
  BY <1>2, <1>16, EndFacts, CallValues
<1>17. ASSUME NEW p \in Project, Replace(p) PROVE SwapInv'
  BY <1>2, <1>17, ReplaceFacts DEF At
<1>18. CASE \E how \in {"key", "pull", "index"} : RecoverFails(how)
  BY <1>1, <1>18, CallValues DEF RecoverFails, Aside, Ghost
<1>19. CASE \E how \in {Missing, Corrupt} : Damage(how)
  BY <1>19 DEF Damage, Event, SwapInv
<1> QED
  BY <1>3, <1>4, <1>5, <1>6, <1>7, <1>8, <1>9, <1>10, <1>11, <1>12, <1>13, <1>14, <1>15, <1>16,
     <1>17, <1>18, <1>19, StepKinds
  DEF Changing, Rebuilding

-----------------------------------------------------------------------------
LEMMA ProfileInit == Init => ProfileInv
<1> SUFFICES ASSUME Init PROVE ProfileInv
  OBVIOUS
<1> USE CallValues, ProfileAssumption DEF Init
<1>1. TypeInv
  BY DEF TypeInv
<1>2. PcInv
  BY DEF PcInv, At, Creating
<1>3. IsFiniteSet({p \in Project : root[p] # "none"})
  <2>1. {p \in Project : root[p] # "none"} = {}
    OBVIOUS
  <2> QED  BY <2>1, FS_EmptySet, Zenon
<1>4. RootInv
  BY <1>3 DEF RootInv, Creating
<1>5. ListInv /\ SwapInv
  BY DEF ListInv, SwapInv, At, Readable
<1> QED  BY <1>1, <1>2, <1>4, <1>5 DEF ProfileInv

LEMMA ProfileStep == ProfileInv /\ [Next]_vars => ProfileInv'
<1> SUFFICES ASSUME ProfileInv, [Next]_vars PROVE ProfileInv'
  OBVIOUS
<1>1. TypeInv'
  BY TypeStep DEF ProfileInv
<1>2. PcInv'
  BY <1>1, PcStep DEF ProfileInv
<1>3. RootInv' /\ ListInv'
  BY <1>1, RootStep, ListStep DEF ProfileInv
<1>4. SwapInv'
  BY <1>1, <1>2, SwapStep DEF ProfileInv
<1> QED  BY <1>1, <1>2, <1>3, <1>4 DEF ProfileInv

\* For any set of projects and any number of damages, deletions, crashes and
\* failed writes: a context that opens lists every managed project that a caller
\* was told of and nobody deleted (holder_context_open).
THEOREM OpenListsCreated == Spec => []CreatedListed
<1>1. ProfileInv => CreatedListed
  BY DEF ProfileInv, PcInv, ListInv, Complete, CreatedListed, At
<1> QED  BY <1>1, ProfileInit, ProfileStep, PTL DEF Spec

\* For any set of managed projects: rebuild_database_projection, which compares
\* numbers, replaces a healthy database only by one that lists the same projects
\* and the same cards.
THEOREM RebuildKeepsListing == Spec => []RebuildFaithful
<1>1. ProfileInv => RebuildFaithful
  BY SameListing DEF ProfileInv
<1> QED  BY <1>1, ProfileInit, ProfileStep, PTL DEF Spec

\* For any set of managed projects and any number of crashes and failures: when
\* the database is missing although the marker is set, the complete temporary
\* database and its equal in database-backups are there.
THEOREM ReplacementLosesNothing == Spec => []SwapLosesNothing
<1>1. ProfileInv => SwapLosesNothing
  BY DEF ProfileInv, SwapInv, SwapLosesNothing
<1> QED  BY <1>1, ProfileInit, ProfileStep, PTL DEF Spec
=============================================================================
