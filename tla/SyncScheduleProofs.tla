------------------------- MODULE SyncScheduleProofs -------------------------
(***************************************************************************)
(* For any number of threads, any back-off table and any intervals: the    *)
(* sync state row never loses the result of a phase, although every result *)
(* is recorded by reading the row and writing all of it.                   *)
(***************************************************************************)
EXTENDS SyncSchedule, TLAPS

Entry == [age : Nat, wait : Nat, fails : Nat]
SyncRow == [pull : Entry, push : Entry, unpushed : Nat]
Call == [pc : {"idle", "lock", "pull", "push", "read", "write", "count", "refresh"},
         for : {"none", "scheduled", "now", "push"}, phases : SUBSET Phase, phase : Phase,
         ok : BOOLEAN, lag : Nat, copy : SyncRow]

TypeOK ==
    /\ row \in SyncRow
    /\ lock \in Caller \cup {Nobody}
    /\ call \in [Caller -> Call]
    /\ url \in BOOLEAN /\ reach \in BOOLEAN /\ tracked \in BOOLEAN /\ behind \in BOOLEAN
    /\ ahead \in Nat
    /\ last \in [Phase -> {"none", "failed", "succeeded"}]

\* While a remote is set, whoever works on the row has the lock.
Owned ==
    "unset" \notin allow =>
        /\ url
        /\ \A c \in Caller : call[c].pc \notin {"idle", "lock"} => lock = c

SameResults(r, s) == r.pull = s.pull /\ r.push = s.push

\* So what a thread has read, and is about to write, is what the row says.
Fresh ==
    "unset" \notin allow =>
        \A c \in Caller : call[c].pc \in {"write", "refresh"} => SameResults(call[c].copy, row)

IInv == TypeOK /\ Owned /\ Fresh /\ StatusHonest

-----------------------------------------------------------------------------
LEMMA Numbers ==
    /\ Len(Backoff) \in Nat \ {0}
    /\ \A i \in 1..Len(Backoff) : Backoff[i] \in Nat
    /\ Every["pull"] \in Nat /\ Every["push"] \in Nat
    /\ MaxLag \in Nat
<1>1. Len(Backoff) \in Nat \ {0} /\ \A i \in 1..Len(Backoff) : Backoff[i] \in Nat
  BY ScheduleAssumption
<1>2. Every["pull"] \in Nat /\ Every["push"] \in Nat
  BY ScheduleAssumption DEF Phase
<1> QED  BY <1>1, <1>2 DEF MaxLag, Longest

LEMMA NoRowType == NoRow \in SyncRow
BY Numbers DEF NoRow, SyncRow, Entry

LEMMA IdleType == Idle \in Call
BY NoRowType DEF Idle, Called, Call, Phase

LEMMA TwoFields ==
    ASSUME NEW e \in Entry, NEW w, NEW k
    PROVE  [e EXCEPT !.wait = w, !.fails = k] = [age |-> e.age, wait |-> w, fails |-> k]
<1> DEFINE x == [e EXCEPT !.wait = w]
<1>1. x = [age |-> e.age, wait |-> w, fails |-> e.fails]
  BY DEF Entry
<1>2. [x EXCEPT !.fails = k] = [age |-> x.age, wait |-> x.wait, fails |-> k]
  <2> HIDE DEF x
  <2> QED  BY <1>1
<1>3. x.age = e.age /\ x.wait = w
  BY <1>1
<1> QED  BY <1>2, <1>3

\* A result sets the failures of its own phase and leaves those of the other.
LEMMA RecordedResult ==
    ASSUME NEW r \in SyncRow, NEW f \in Phase, NEW ok \in BOOLEAN, NEW lag \in Nat
    PROVE  LET new == Recorded(r, f, ok, lag)
           IN  /\ new \in SyncRow
               /\ new[f].fails > 0 <=> ~ok
               /\ \A g \in Phase \ {f} : new[g] = r[g]
<1> DEFINE good(e) == [age |-> Least(lag, Every[f]), wait |-> 0, fails |-> 0]
           bad(e) == [e EXCEPT !.wait = Left(BackoffFor(e.fails + 1), lag),
                               !.fails = Least(@ + 1, Len(Backoff))]
           n(e) == Least(e.fails + 1, Len(Backoff))
<1>1. \A e \in Entry : good(e) \in Entry /\ good(e).fails = 0
  BY Numbers, ScheduleAssumption DEF Entry, Least, Phase
<1>2. \A e \in Entry : n(e) \in 1..Len(Backoff)
  BY Numbers DEF Entry, Least
<1>3. \A e \in Entry : Left(BackoffFor(e.fails + 1), lag) \in Nat
  BY <1>2, Numbers DEF Left, BackoffFor
<1>4. \A e \in Entry : bad(e) \in Entry /\ bad(e).fails > 0
  <2> SUFFICES ASSUME NEW e \in Entry PROVE bad(e) \in Entry /\ bad(e).fails > 0
    OBVIOUS
  <2>1. bad(e) = [age |-> e.age, wait |-> Left(BackoffFor(e.fails + 1), lag), fails |-> n(e)]
    BY TwoFields
  <2>2. n(e) \in Nat /\ n(e) > 0
    BY <1>2, Numbers
  <2> HIDE DEF n, bad
  <2> QED  BY <2>1, <2>2, <1>3 DEF Entry
<1>5. r.pull \in Entry /\ r.push \in Entry
  BY DEF SyncRow
<1> HIDE DEF n
<1>6. CASE f = "pull"
  <2>1. Recorded(r, f, ok, lag) = [r EXCEPT !.pull = IF ok THEN good(r.pull) ELSE bad(r.pull)]
    BY <1>6 DEF Recorded, SyncRow
  <2> HIDE DEF good, bad
  <2> QED  BY <2>1, <1>1, <1>4, <1>5, <1>6 DEF SyncRow, Phase, Entry
<1>7. CASE f = "push"
  <2>1. Recorded(r, f, ok, lag) = [r EXCEPT !.push = IF ok THEN good(r.push) ELSE bad(r.push)]
    BY <1>7 DEF Recorded, SyncRow
  <2> HIDE DEF good, bad
  <2> QED  BY <2>1, <1>1, <1>4, <1>5, <1>7 DEF SyncRow, Phase, Entry
<1> QED  BY <1>6, <1>7 DEF Phase

-----------------------------------------------------------------------------
\* One thread changes its call and nothing else of what IInv is about, but perhaps
\* the lock, which it has, takes when it is free, or gives back.
LEMMA OwnStep ==
    ASSUME IInv, NEW c \in Caller, NEW k \in Call,
           call' = [call EXCEPT ![c] = k],
           UNCHANGED <<row, url, last, allow>>,
           reach' \in BOOLEAN, tracked' \in BOOLEAN, behind' \in BOOLEAN, ahead' \in Nat,
           lock' \in {lock, c, Nobody}, lock' # lock => lock \in {c, Nobody},
           "unset" \notin allow => (k.pc \notin {"idle", "lock"} => lock' = c),
           "unset" \notin allow => (k.pc \in {"write", "refresh"} => SameResults(k.copy, row))
    PROVE  IInv'
<1>1. TypeOK'
  BY DEF IInv, TypeOK
<1>2. call'[c] = k /\ \A o \in Caller \ {c} : call'[o] = call[o]
  BY DEF IInv, TypeOK
<1>3. Owned'
  BY <1>2, ScheduleAssumption DEF IInv, Owned
<1>4. Fresh'
  BY <1>2 DEF IInv, Fresh, SameResults
<1>5. StatusHonest'
  BY DEF IInv, StatusHonest
<1> QED  BY <1>1, <1>3, <1>4, <1>5 DEF IInv

LEMMA BeginStep ==
    ASSUME IInv, NEW c \in Caller, NEW for \in {"scheduled", "now", "push"},
           NEW phases \in SUBSET Phase, NEW pc \in {"lock", "read"},
           pc = "read" => ~url, Begin(c, for, phases, pc)
    PROVE  IInv'
<1> DEFINE k == Called(pc, for, phases)
<1>1. k \in Call /\ k.pc = pc
  BY NoRowType DEF Called, Call, Phase
<1>2. call' = [call EXCEPT ![c] = k] /\ UNCHANGED <<row, lock, url, reach, ahead, behind, tracked, last, allow>>
  BY DEF Begin
<1>3. "unset" \notin allow => pc = "lock"
  BY DEF IInv, Owned
<1> HIDE DEF k
<1> QED  BY <1>1, <1>2, <1>3, OwnStep DEF IInv, TypeOK

\* How a step changes a call: where it is, in which phase and with which result, and
\* what it has of the row.
At(k, pc, phase, ok, copy) ==
    [pc |-> pc, for |-> k.for, phases |-> k.phases, phase |-> phase, ok |-> ok,
     lag |-> k.lag, copy |-> copy]

LEMMA AtType ==
    ASSUME NEW k \in Call, NEW pc \in {"lock", "pull", "push", "read", "write", "count", "refresh"},
           NEW phase \in Phase, NEW ok \in BOOLEAN, NEW copy \in SyncRow
    PROVE  /\ At(k, pc, phase, ok, copy) \in Call
           /\ At(k, pc, phase, ok, copy).pc = pc /\ At(k, pc, phase, ok, copy).copy = copy
BY DEF At, Call

LEMMA ChangePc ==
    ASSUME TypeOK, NEW c \in Caller, NEW pc
    PROVE  LET k == call[c]
           IN  [call EXCEPT ![c].pc = pc] = [call EXCEPT ![c] = At(k, pc, k.phase, k.ok, k.copy)]
<1>1. call[c] \in Call
  BY DEF TypeOK
<1>2. [call[c] EXCEPT !.pc = pc] = At(call[c], pc, call[c].phase, call[c].ok, call[c].copy)
  BY <1>1 DEF At, Call
<1> QED  BY <1>2

\* A second change of the same call
LEMMA ChangeAgain ==
    ASSUME TypeOK, NEW c \in Caller, NEW x, NEW y, x = [call EXCEPT ![c] = y]
    PROVE  /\ x[c] = y
           /\ \A z : [x EXCEPT ![c] = z] = [call EXCEPT ![c] = z]
BY DEF TypeOK

LEMMA EndedCall ==
    ASSUME TypeOK, NEW c \in Caller, NEW ok, Ended(c, ok)
    PROVE  LET k == call[c]
           IN  call' = [call EXCEPT ![c] = At(k, "read", k.phase, ok, k.copy)]
<1> DEFINE k == call[c]
           pc == "read"
           x == [call EXCEPT ![c].pc = pc]
           y == At(k, pc, k.phase, k.ok, k.copy)
           z == At(k, pc, k.phase, ok, k.copy)
<1>1. x = [call EXCEPT ![c] = y]
  BY ChangePc
<1>2. [y EXCEPT !.ok = ok] = z
  BY DEF At
<1>3. [x EXCEPT ![c].ok = ok] = [x EXCEPT ![c] = [x[c] EXCEPT !.ok = ok]]
  OBVIOUS
<1> HIDE DEF x, y, z
<1>4. x[c] = y /\ [x EXCEPT ![c] = z] = [call EXCEPT ![c] = z]
  BY <1>1, ChangeAgain
<1>5. [x EXCEPT ![c].ok = ok] = [call EXCEPT ![c] = z]
  BY <1>2, <1>3, <1>4
<1> QED  BY <1>5 DEF Ended, x, z

LEMMA GoesCall ==
    ASSUME TypeOK, NEW c \in Caller, NEW pc, NEW phase, NEW copy, Goes(c, pc, phase, copy)
    PROVE  call' = [call EXCEPT ![c] = At(call[c], pc, phase, call[c].ok, copy)]
<1> DEFINE k == call[c]
           x == [call EXCEPT ![c].pc = pc]
           w == [x EXCEPT ![c].phase = phase]
           y == At(k, pc, k.phase, k.ok, k.copy)
           u == At(k, pc, phase, k.ok, k.copy)
           z == At(k, pc, phase, k.ok, copy)
<1>1. x = [call EXCEPT ![c] = y]
  BY ChangePc
<1>2. [y EXCEPT !.phase = phase] = u /\ [u EXCEPT !.copy = copy] = z
  BY DEF At
<1>3. w = [x EXCEPT ![c] = [x[c] EXCEPT !.phase = phase]]
  OBVIOUS
<1>4. [w EXCEPT ![c].copy = copy] = [w EXCEPT ![c] = [w[c] EXCEPT !.copy = copy]]
  OBVIOUS
<1> HIDE DEF x, y, z, u, w
<1>5. x[c] = y /\ [x EXCEPT ![c] = u] = [call EXCEPT ![c] = u]
  BY <1>1, ChangeAgain
<1>6. w = [call EXCEPT ![c] = u]
  BY <1>2, <1>3, <1>5
<1>7. w[c] = u /\ [w EXCEPT ![c] = z] = [call EXCEPT ![c] = z]
  BY <1>6, ChangeAgain
<1>8. [w EXCEPT ![c].copy = copy] = [call EXCEPT ![c] = z]
  BY <1>2, <1>4, <1>7
<1> QED  BY <1>8 DEF Goes, x, w, z

-----------------------------------------------------------------------------
\* The steps of a call before its row is written

LEMMA TakeLockStep == ASSUME IInv, NEW c \in Caller, TakeLock(c) PROVE IInv'
<1> DEFINE k == call[c]
           pc == IF url \/ k.for = "push" THEN k.phase ELSE "read"
<1>1. k \in Call
  BY DEF IInv, TypeOK
<1>2. pc \in {"pull", "push", "read"}
  BY <1>1 DEF Call, Phase
<1>3. call' = [call EXCEPT ![c] = At(k, pc, k.phase, k.ok, k.copy)]
  BY ChangePc DEF IInv, TakeLock
<1>4. k.phase \in Phase /\ k.ok \in BOOLEAN /\ k.copy \in SyncRow
  BY <1>1 DEF Call
<1> HIDE DEF k, pc
<1>5. /\ At(k, pc, k.phase, k.ok, k.copy) \in Call
      /\ At(k, pc, k.phase, k.ok, k.copy).pc = pc
  BY <1>1, <1>2, <1>4, AtType
<1> QED  BY <1>2, <1>3, <1>5, OwnStep DEF TakeLock, IInv, TypeOK

LEMMA EndedStep ==
    ASSUME IInv, NEW c \in Caller, NEW ok \in BOOLEAN, call[c].pc \in {"pull", "push"},
           Ended(c, ok), UNCHANGED <<row, lock, url, last, allow>>,
           reach' \in BOOLEAN, tracked' \in BOOLEAN, behind' \in BOOLEAN, ahead' \in Nat
    PROVE  IInv'
<1> DEFINE k == call[c]
<1>1. k \in Call
  BY DEF IInv, TypeOK
<1>2. call' = [call EXCEPT ![c] = At(k, "read", k.phase, ok, k.copy)]
  BY EndedCall DEF IInv
<1>3. k.phase \in Phase /\ k.copy \in SyncRow
  BY <1>1 DEF Call
<1>4. "unset" \notin allow => lock = c
  BY DEF IInv, Owned
<1> HIDE DEF k
<1>5. /\ At(k, "read", k.phase, ok, k.copy) \in Call
      /\ At(k, "read", k.phase, ok, k.copy).pc = "read"
  BY <1>1, <1>3 DEF At, Call
<1> QED  BY <1>2, <1>4, <1>5, OwnStep

LEMMA CopyStep ==
    ASSUME IInv, NEW c \in Caller, NEW pc, NEW copy, call[c].pc \in {"read", "count"},
           Goes(c, pc, call[c].phase, copy), pc \in {"write", "refresh"},
           copy \in SyncRow, SameResults(copy, row),
           UNCHANGED <<row, lock, url, reach, ahead, behind, tracked, last, others, allow>>
    PROVE  IInv'
<1> DEFINE k == call[c]
           new == At(k, pc, k.phase, k.ok, copy)
<1>1. k \in Call
  BY DEF IInv, TypeOK
<1>2. call' = [call EXCEPT ![c] = new]
  BY GoesCall DEF IInv
<1>3. k.phase \in Phase /\ k.ok \in BOOLEAN
  BY <1>1 DEF Call
<1>4. "unset" \notin allow => lock = c
  BY DEF IInv, Owned
<1> HIDE DEF k
<1>5. new \in Call /\ new.pc = pc /\ new.copy = copy
  BY <1>1, <1>3, AtType
<1> HIDE DEF new
<1> QED  BY <1>2, <1>4, <1>5, OwnStep DEF IInv, TypeOK

LEMMA CountedRow ==
    ASSUME NEW r \in SyncRow, TypeOK
    PROVE  Counted(r) \in SyncRow /\ SameResults(Counted(r), r)
BY DEF Counted, SyncRow, SameResults, TypeOK

-----------------------------------------------------------------------------
\* The steps that write the row.  The one that has the lock does, so nobody else
\* is about to write.
LEMMA RowStep ==
    ASSUME IInv, NEW c \in Caller, NEW k \in Call, call[c].pc \in {"write", "refresh"},
           call' = [call EXCEPT ![c] = k], k.pc \in {"idle", "push", "count"},
           lock' = IF k.pc = "idle" /\ lock = c THEN Nobody ELSE lock,
           row' \in SyncRow, last' \in [Phase -> {"none", "failed", "succeeded"}],
           StatusHonest', UNCHANGED <<url, reach, ahead, behind, tracked, allow>>
    PROVE  IInv'
<1>1. TypeOK'
  BY DEF IInv, TypeOK
<1>2. call'[c] = k /\ \A o \in Caller \ {c} : call'[o] = call[o]
  BY DEF IInv, TypeOK
<1>3. "unset" \notin allow => lock = c
  BY DEF IInv, Owned
<1>4. "unset" \notin allow => \A o \in Caller \ {c} : call[o].pc \in {"idle", "lock"}
  BY <1>3 DEF IInv, Owned
<1>5. Owned'
  BY <1>2, <1>3, <1>4 DEF IInv, Owned
<1>6. Fresh'
  BY <1>2, <1>4 DEF Fresh
<1> QED  BY <1>1, <1>5, <1>6 DEF IInv

LEMMA WriteResultStep == ASSUME IInv, NEW c \in Caller, WriteResult(c) PROVE IInv'
<1> DEFINE k == call[c]
           result == IF k.ok THEN "succeeded" ELSE "failed"
<1>1. k \in Call
  BY DEF IInv, TypeOK
<1>2. k.phase \in Phase /\ k.ok \in BOOLEAN /\ k.copy \in SyncRow /\ k.lag \in Nat
  BY <1>1 DEF Call
<1>3. k.pc = "write" /\ row' = Recorded(k.copy, k.phase, k.ok, k.lag)
      /\ last' = [last EXCEPT ![k.phase] = result]
  BY DEF WriteResult
<1>4. "unset" \notin allow => SameResults(k.copy, row)
  BY <1>3 DEF IInv, Fresh
<1> HIDE DEF k
<1>5. /\ row' \in SyncRow
      /\ row'[k.phase].fails > 0 <=> ~k.ok
      /\ \A g \in Phase \ {k.phase} : row'[g] = k.copy[g]
  BY <1>2, <1>3, RecordedResult
<1>6. /\ last' \in [Phase -> {"none", "failed", "succeeded"}]
      /\ last'[k.phase] = result
      /\ \A g \in Phase \ {k.phase} : last'[g] = last[g]
  BY <1>2, <1>3 DEF IInv, TypeOK
<1>7. StatusHonest'
  <2> SUFFICES ASSUME "unset" \notin allow, NEW f \in Phase
               PROVE  row'[f].fails > 0 <=> last'[f] = "failed"
    BY DEF StatusHonest, WriteResult
  <2>1. CASE f = k.phase
    BY <2>1, <1>2, <1>5, <1>6
  <2>2. CASE f # k.phase
    <3>1. row'[f] = row[f]
      BY <2>2, <1>4, <1>5 DEF SameResults, Phase
    <3> QED  BY <2>2, <3>1, <1>6 DEF IInv, StatusHonest
  <2> QED  BY <2>1, <2>2
<1>8. CASE Return(c)
  <2>1. Idle.pc = "idle"
    BY DEF Idle, Called
  <2> QED  BY <1>3, <1>5, <1>6, <1>7, <1>8, <2>1, IdleType, RowStep DEF Return, WriteResult, k
<1>9. CASE Goes(c, "count", k.phase, NoRow) /\ UNCHANGED lock
  <2> DEFINE new == At(k, "count", k.phase, k.ok, NoRow)
  <2>1. call' = [call EXCEPT ![c] = new]
    BY <1>9, GoesCall DEF IInv, k
  <2>2. new \in Call /\ new.pc = "count"
    BY <1>1, <1>2, NoRowType, AtType
  <2> HIDE DEF new
  <2> QED  BY <1>3, <1>5, <1>6, <1>7, <1>9, <2>1, <2>2, RowStep DEF WriteResult, k
<1> QED  BY <1>8, <1>9 DEF WriteResult, k

LEMMA CountWriteStep == ASSUME IInv, NEW c \in Caller, CountWrite(c) PROVE IInv'
<1> DEFINE k == call[c]
<1>1. k \in Call
  BY DEF IInv, TypeOK
<1>2. k.ok \in BOOLEAN /\ k.copy \in SyncRow
  BY <1>1 DEF Call
<1>3. k.pc = "refresh" /\ row' = k.copy /\ UNCHANGED last
  BY DEF CountWrite
<1>4. last' \in [Phase -> {"none", "failed", "succeeded"}]
  BY <1>3 DEF IInv, TypeOK
<1>5. StatusHonest'
  <2> SUFFICES ASSUME "unset" \notin allow, NEW f \in Phase
               PROVE  row'[f].fails > 0 <=> last'[f] = "failed"
    BY DEF StatusHonest, CountWrite
  <2>1. SameResults(k.copy, row)
    BY <1>3 DEF IInv, Fresh
  <2>2. row'[f] = row[f]
    BY <1>3, <2>1 DEF SameResults, Phase
  <2> QED  BY <1>3, <2>2 DEF IInv, StatusHonest
<1>6. CASE Return(c)
  <2>1. Idle.pc = "idle"
    BY DEF Idle, Called
  <2> QED  BY <1>2, <1>3, <1>4, <1>5, <1>6, <2>1, IdleType, RowStep DEF Return, CountWrite
<1>7. CASE Goes(c, "push", "push", NoRow) /\ UNCHANGED lock
  <2> DEFINE new == At(k, "push", "push", k.ok, NoRow)
  <2>1. call' = [call EXCEPT ![c] = new]
    BY <1>7, GoesCall DEF IInv
  <2>2. new \in Call /\ new.pc = "push"
    BY <1>1, <1>2, NoRowType DEF At, Call, Phase
  <2> HIDE DEF new
  <2> QED  BY <1>2, <1>3, <1>4, <1>5, <1>7, <2>1, <2>2, RowStep DEF CountWrite
<1> QED  BY <1>6, <1>7 DEF CountWrite

-----------------------------------------------------------------------------
\* Time passes

LEMMA OlderEntry ==
    ASSUME NEW e \in Entry, NEW every \in Nat
    PROVE  Older(e, every) \in Entry /\ Older(e, every).fails = e.fails
<1> DEFINE x == [e EXCEPT !.age = Least(@ + 1, every)]
<1>1. x = [age |-> Least(e.age + 1, every), wait |-> e.wait, fails |-> e.fails]
  BY DEF Entry
<1>2. Least(e.age + 1, every) \in Nat /\ Left(e.wait, 1) \in Nat
  BY DEF Entry, Least, Left
<1>3. x \in Entry /\ x.fails = e.fails /\ x.wait = e.wait
  BY <1>1, <1>2 DEF Entry
<1>4. Older(e, every) = [x EXCEPT !.wait = Left(e.wait, 1)]
  BY DEF Older
<1> HIDE DEF x
<1> QED  BY <1>2, <1>3, <1>4 DEF Entry

LEMMA AgedRow ==
    ASSUME NEW r \in SyncRow
    PROVE  Aged(r) \in SyncRow /\ \A f \in Phase : Aged(r)[f].fails = r[f].fails
<1> DEFINE p == Older(r.pull, Every["pull"])
           q == Older(r.push, Every["push"])
           x == [r EXCEPT !.pull = p]
<1>1. r.pull \in Entry /\ r.push \in Entry
  BY DEF SyncRow
<1>2. p \in Entry /\ p.fails = r.pull.fails /\ q \in Entry /\ q.fails = r.push.fails
  BY <1>1, Numbers, OlderEntry
<1>3. x.push = r.push
  BY DEF SyncRow
<1>4. Aged(r) = [x EXCEPT !.push = q]
  BY <1>3 DEF Aged
<1> HIDE DEF p, q
<1>5. x \in SyncRow /\ x.pull = p
  BY <1>2 DEF SyncRow
<1> HIDE DEF x
<1>6. Aged(r) \in SyncRow /\ Aged(r).pull = p /\ Aged(r).push = q
  BY <1>2, <1>4, <1>5 DEF SyncRow
<1> QED  BY <1>2, <1>6 DEF Phase, p, q

LEMMA TickStep == ASSUME IInv, Tick PROVE IInv'
<1>1. row' \in SyncRow /\ \A f \in Phase : row'[f].fails = row[f].fails
  BY AgedRow DEF IInv, TypeOK, Tick
<1>2. \A c \in Caller : call'[c] \in Call /\ call'[c].pc = call[c].pc
  <2> SUFFICES ASSUME NEW c \in Caller
               PROVE  call'[c] \in Call /\ call'[c].pc = call[c].pc
    OBVIOUS
  <2> DEFINE k == call[c]
             lag == Least(k.lag + 1, MaxLag)
  <2>1. k \in Call
    BY DEF IInv, TypeOK
  <2>2. call'[c] = IF k = Idle THEN Idle ELSE [k EXCEPT !.lag = lag]
    BY DEF Tick
  <2>3. lag \in Nat
    BY <2>1, Numbers DEF Call, Least
  <2> HIDE DEF k, lag
  <2>4. [k EXCEPT !.lag = lag] \in Call /\ [k EXCEPT !.lag = lag].pc = k.pc
    BY <2>1, <2>3 DEF Call
  <2> QED  BY <2>1, <2>2, <2>4 DEF k
<1>3. call' \in [Caller -> Call]
  <2>1. call' = [c \in Caller |-> call'[c]]
    BY DEF Tick
  <2> QED  BY <2>1, <1>2
<1>4. TypeOK'
  BY <1>1, <1>3 DEF IInv, TypeOK, Tick
<1>5. Owned'
  BY <1>2 DEF IInv, Owned, Tick
<1>6. Fresh'
  BY <1>2 DEF Fresh, Tick
<1>7. StatusHonest'
  BY <1>1 DEF IInv, StatusHonest, Tick
<1> QED  BY <1>4, <1>5, <1>6, <1>7 DEF IInv

-----------------------------------------------------------------------------
LEMMA InitIInv == Init => IInv
<1> SUFFICES ASSUME Init PROVE IInv
  OBVIOUS
<1>1. TypeOK
  BY NoRowType, IdleType DEF Init, TypeOK, Phase
<1>2. \A c \in Caller : call[c].pc = "idle"
  BY DEF Init, Idle, Called
<1>3. \A f \in Phase : row[f].fails = 0 /\ last[f] = "none"
  BY DEF Init, NoRow, Phase
<1>4. Owned /\ Fresh
  BY <1>2 DEF Init, Owned, Fresh
<1>5. StatusHonest
  BY <1>3 DEF StatusHonest
<1> QED  BY <1>1, <1>4, <1>5 DEF IInv

LEMMA StepsIInv == ASSUME IInv, NEW c \in Caller, Steps(c) PROVE IInv'
<1>1. CASE TakeLock(c)
  BY <1>1, TakeLockStep
<1>2. CASE PullPhase(c)
  BY <1>2, EndedStep DEF PullPhase, IInv, TypeOK
<1>3. CASE PushPhase(c)
  BY <1>3, EndedStep DEF PushPhase, IInv, TypeOK
<1>4. CASE ReadRow(c)
  <2>1. row \in SyncRow /\ SameResults(row, row)
    BY DEF IInv, TypeOK, SameResults
  <2> QED  BY <1>4, <2>1, CopyStep DEF ReadRow
<1>5. CASE WriteResult(c)
  BY <1>5, WriteResultStep
<1>6. CASE CountRead(c)
  <2>1. Counted(row) \in SyncRow /\ SameResults(Counted(row), row)
    BY CountedRow DEF IInv, TypeOK
  <2> QED  BY <1>6, <2>1, CopyStep DEF CountRead
<1>7. CASE CountWrite(c)
  BY <1>7, CountWriteStep
<1> QED  BY <1>1, <1>2, <1>3, <1>4, <1>5, <1>6, <1>7 DEF Steps

LEMMA NextIInv == IInv /\ [Next]_vars => IInv'
<1> SUFFICES ASSUME IInv, [Next]_vars PROVE IInv'
  OBVIOUS
<1>1. CASE SyncIfDue
  BY <1>1, BeginStep, ScheduleAssumption DEF SyncIfDue
<1>2. ASSUME NEW c \in Caller, NEW push \in BOOLEAN, SyncNow(c, push) PROVE IInv'
  BY <1>2, BeginStep DEF SyncNow, Phase
<1>3. ASSUME NEW c \in Caller, GitPull(c) PROVE IInv'
  BY <1>3, BeginStep DEF GitPull, Phase
<1>4. ASSUME NEW c \in Caller, GitPush(c) PROVE IInv'
  BY <1>4, BeginStep DEF GitPush, Phase
<1>5. ASSUME NEW c \in Caller, Steps(c) PROVE IInv'
  BY <1>5, StepsIInv
<1>6. CASE Tick
  BY <1>6, TickStep
<1>7. CASE Commit \/ OtherPushes \/ Network \/ UNCHANGED vars
  <2>1. UNCHANGED <<row, lock, call, url, last, allow>>
    BY <1>7 DEF Commit, OtherPushes, Network, vars
  <2>2. reach' \in BOOLEAN /\ tracked' \in BOOLEAN /\ behind' \in BOOLEAN /\ ahead' \in Nat
    <3>1. CASE Commit
      BY <3>1 DEF Commit, IInv, TypeOK
    <3>2. CASE OtherPushes
      BY <3>2 DEF OtherPushes, IInv, TypeOK
    <3>3. CASE Network
      BY <3>3 DEF Network, IInv, TypeOK
    <3>4. CASE UNCHANGED vars
      BY <3>4 DEF vars, IInv, TypeOK
    <3> QED  BY <1>7, <3>1, <3>2, <3>3, <3>4
  <2>3. TypeOK'
    BY <2>1, <2>2 DEF IInv, TypeOK
  <2>4. Owned' /\ Fresh' /\ StatusHonest'
    BY <2>1 DEF IInv, Owned, Fresh, SameResults, StatusHonest
  <2> QED  BY <2>3, <2>4 DEF IInv
<1>8. CASE UpdateGitRemote
  BY <1>8 DEF UpdateGitRemote, IInv, TypeOK, Owned, Fresh, SameResults, StatusHonest
<1> QED  BY <1>1, <1>2, <1>3, <1>4, <1>5, <1>6, <1>7, <1>8 DEF Next

\* The sync state the user sees is that of the last attempt of each phase, however
\* the calls of the threads are interleaved: record_pull_result, record_push_result
\* and update_activity_counts read and write the row under the project's lock.
THEOREM StatusIsHonest == Spec => []StatusHonest
<1>1. IInv => StatusHonest
  BY DEF IInv
<1> QED  BY <1>1, InitIInv, NextIInv, PTL DEF Spec
=============================================================================
