--------------------------- MODULE RepoLocksProofs ---------------------------
(***************************************************************************)
(* For any number of threads, repositories, adapters and nested guards:    *)
(* the registry gives one repository one live mutex, so operations on it   *)
(* exclude each other, and the lock order admits no deadlock.              *)
(***************************************************************************)
EXTENDS RepoLocks, TLAPS

\* A guard's mutex is the one its key is registered under, and no other key's.
Registered ==
    \A t \in Thread : \A i \in Entries(t) :
        /\ slot[stack[t][i].key] = stack[t][i].mutex
        /\ \A k \in Key : slot[k] = stack[t][i].mutex => k = stack[t][i].key

\* The registry points only to live mutexes.
Alive == \A k \in Key : slot[k] # NoMutex => \E t \in Thread : References(t, slot[k])

RepoExclusive ==
    \A t, u \in Thread : t # u =>
        \A i \in RepoHeld(t), j \in RepoHeld(u) : stack[t][i].mutex # stack[u][j].mutex

\* Nested guards are for one repository and bring no adapter but the thread's own.
Nested ==
    \A t \in Thread : \A i \in Entries(t) :
        /\ stack[t][i].key = stack[t][1].key
        /\ stack[t][i].git \in {t, NoGit, stack[t][1].git}
        /\ stack[t][i].git \in SharedGit \cup {t, NoGit}

WantsAnAdapter == \A t \in Thread : stage[t] = "wantGit" => Top(t).git # NoGit

IInv == /\ TypeOK /\ Registered /\ Alive /\ RepoExclusive /\ Nested
        /\ OneOperationPerAdapter /\ WantsAnAdapter

-----------------------------------------------------------------------------
\* How the stacks look after the two actions that change one.

LEMMA Pushed ==
    ASSUME TypeOK, NEW t \in Thread, NEW r \in Root, NEW g \in Git, NEW m \in Mutex,
           Lookup(t, r, g, m)
    PROVE  /\ stack' \in [Thread -> Seq(Guard)]
           /\ \A u \in Thread \ {t} : stack'[u] = stack[u] /\ stage'[u] = stage[u]
           /\ Len(stack'[t]) = Len(stack[t]) + 1
           /\ Len(stack[t]) \in Nat
           /\ DOMAIN stack[t] = 1..Len(stack[t])
           /\ DOMAIN stack'[t] = 1..(Len(stack[t]) + 1)
           /\ \A i \in 1..Len(stack[t]) : stack'[t][i] = stack[t][i]
           /\ stack'[t][Len(stack[t]) + 1] = [key |-> KeyOf[r], mutex |-> m, git |-> g]
           /\ stage'[t] = "wantRepo"
<1> DEFINE e == [key |-> KeyOf[r], mutex |-> m, git |-> g]
<1>1. e \in Guard
  BY LocksAssumption DEF Guard
<1>2. stack[t] \in Seq(Guard) /\ stack' = [stack EXCEPT ![t] = Append(stack[t], e)]
  BY DEF TypeOK, Lookup
<1>3. stage'[t] = "wantRepo" /\ \A u \in Thread \ {t} : stage'[u] = stage[u]
  BY DEF TypeOK, Lookup
<1> HIDE DEF e
<1>4. stack' \in [Thread -> Seq(Guard)] /\ stack'[t] = Append(stack[t], e)
  BY <1>1, <1>2 DEF TypeOK
<1>5. \A u \in Thread \ {t} : stack'[u] = stack[u]
  BY <1>2 DEF TypeOK
<1> QED  BY <1>1, <1>2, <1>3, <1>4, <1>5 DEF e

LEMMA Popped ==
    ASSUME TypeOK, NEW t \in Thread, DropReference(t)
    PROVE  /\ stack' \in [Thread -> Seq(Guard)]
           /\ \A u \in Thread \ {t} : stack'[u] = stack[u] /\ stage'[u] = stage[u]
           /\ stack'[t] = Pop(t)
           /\ Len(stack[t]) \in Nat \ {0}
           /\ DOMAIN stack[t] = 1..Len(stack[t])
           /\ Len(stack'[t]) = Len(stack[t]) - 1
           /\ DOMAIN stack'[t] = 1..(Len(stack[t]) - 1)
           /\ \A i \in 1..(Len(stack[t]) - 1) : stack'[t][i] = stack[t][i]
           /\ stage'[t] = "run"
<1>1. stack[t] \in Seq(Guard) /\ stack[t] # << >>
  BY DEF TypeOK, DropReference
<1>2. Len(stack[t]) \in Nat \ {0}
  BY <1>1
<1>3. /\ Pop(t) \in Seq(Guard) /\ Len(Pop(t)) = Len(stack[t]) - 1
      /\ DOMAIN Pop(t) = 1..(Len(stack[t]) - 1)
      /\ \A i \in 1..(Len(stack[t]) - 1) : Pop(t)[i] = stack[t][i]
  BY <1>1, <1>2 DEF Pop
<1>4. /\ stack' \in [Thread -> Seq(Guard)] /\ stack'[t] = Pop(t)
      /\ \A u \in Thread \ {t} : stack'[u] = stack[u] /\ stage'[u] = stage[u]
      /\ stage'[t] = "run"
  BY <1>3 DEF DropReference, TypeOK
<1> QED  BY <1>1, <1>2, <1>3, <1>4

-----------------------------------------------------------------------------
LEMMA LookupStep ==
    ASSUME IInv, NEW t \in Thread, NEW r \in Root, NEW g \in Git, NEW m \in Mutex,
           Lookup(t, r, g, m)
    PROVE  IInv'
<1> DEFINE k == KeyOf[r]  n == Len(stack[t])
<1> TypeOK
  BY DEF IInv
<1>1. k \in Key
  BY LocksAssumption
<1>2. slot' = [slot EXCEPT ![k] = m] /\ slot \in [Key -> Mutex \cup {NoMutex}] /\ m # NoMutex
  BY LocksAssumption DEF Lookup, TypeOK
<1>3. /\ stack' \in [Thread -> Seq(Guard)]
      /\ \A u \in Thread \ {t} : stack'[u] = stack[u] /\ stage'[u] = stage[u]
      /\ Len(stack'[t]) = n + 1 /\ n \in Nat
      /\ DOMAIN stack[t] = 1..n /\ DOMAIN stack'[t] = 1..(n + 1)
      /\ \A i \in 1..n : stack'[t][i] = stack[t][i]
      /\ stack'[t][n + 1] = [key |-> k, mutex |-> m, git |-> g]
      /\ stage'[t] = "wantRepo"
  BY Pushed
<1>4. /\ stage[t] = "run"
      /\ n > 0 => k = stack[t][n].key
      /\ g \in Adapters(t)
      /\ IF slot[k] # NoMutex THEN m = slot[k] ELSE \A u \in Thread : ~References(u, m)
  <2>1. stack[t] \in Seq(Guard)
    BY DEF TypeOK
  <2> QED  BY <2>1 DEF Lookup, Top
<1>5. stage' \in [Thread -> Stage]
  BY DEF Lookup, TypeOK, Stage
<1> HIDE DEF k, n
<1>6. TypeOK'
  <2>1. slot' \in [Key -> Mutex \cup {NoMutex}]
    BY <1>2
  <2>2. \A u \in Thread : stage'[u] # "run" => stack'[u] # << >>
    <3>1. stack'[t] # << >>
      BY <1>3
    <3> QED  BY <1>3, <3>1 DEF TypeOK
  <2> QED  BY <1>3, <1>5, <2>1, <2>2 DEF TypeOK
\* No other key has m, and no guard for another key references m.
<1>7. \A q \in Key : slot[q] = m => q = k
  <2> SUFFICES ASSUME NEW q \in Key, slot[q] = m PROVE q = k
    OBVIOUS
  <2>1. PICK u \in Thread : References(u, m)
    BY <1>2 DEF IInv, Alive
  <2>2. m = slot[k]
    BY <1>4, <2>1
  <2> QED  BY <2>1, <2>2, <1>1 DEF IInv, Registered, References
<1>8. \A u \in Thread : \A i \in Entries(u) :
         stack[u][i].mutex = m <=> stack[u][i].key = k
  <2> SUFFICES ASSUME NEW u \in Thread, NEW i \in Entries(u)
               PROVE  stack[u][i].mutex = m <=> stack[u][i].key = k
    OBVIOUS
  <2>1. stack[u][i] \in Guard
    BY DEF TypeOK, Entries
  <2>2. /\ slot[stack[u][i].key] = stack[u][i].mutex
        /\ slot[k] = stack[u][i].mutex => k = stack[u][i].key
    BY <1>1 DEF IInv, Registered
  <2>3. stack[u][i].mutex # NoMutex
    BY <2>1, LocksAssumption DEF Guard
  <2> QED  BY <1>4, <2>1, <2>2, <2>3 DEF References
<1>9. Registered'
  <2> SUFFICES ASSUME NEW u \in Thread, NEW i \in DOMAIN stack'[u]
               PROVE  /\ slot'[stack'[u][i].key] = stack'[u][i].mutex
                      /\ \A q \in Key : slot'[q] = stack'[u][i].mutex
                                        => q = stack'[u][i].key
    BY DEF Registered, Entries
  <2>1. CASE u = t /\ i = n + 1
    BY <1>1, <1>2, <1>3, <1>7, <2>1
  <2>2. CASE ~(u = t /\ i = n + 1)
    <3>1. i \in Entries(u) /\ stack'[u][i] = stack[u][i]
      BY <1>3, <2>2 DEF Entries
    <3>2. stack[u][i] \in Guard
      BY <3>1 DEF TypeOK, Entries
    <3> QED  BY <1>1, <1>2, <1>8, <3>1, <3>2 DEF IInv, Registered, Guard
  <2> QED  BY <2>1, <2>2
<1>10. Alive'
  <2> SUFFICES ASSUME NEW q \in Key, slot'[q] # NoMutex
               PROVE  \E u \in Thread : \E i \in DOMAIN stack'[u] :
                          stack'[u][i].mutex = slot'[q]
    BY DEF Alive, References, Entries
  <2>1. CASE q = k
    <3>1. n + 1 \in DOMAIN stack'[t]
      BY <1>3
    <3> QED  BY <1>1, <1>2, <1>3, <2>1, <3>1
  <2>2. CASE q # k
    <3>1. slot'[q] = slot[q]
      BY <1>2, <2>2
    <3>2. PICK u \in Thread : References(u, slot[q])
      BY <3>1 DEF IInv, Alive
    <3>3. PICK i \in Entries(u) : stack[u][i].mutex = slot[q]
      BY <3>2 DEF References
    <3>4. i \in DOMAIN stack'[u] /\ stack'[u][i] = stack[u][i]
      BY <1>3 DEF Entries
    <3> QED  BY <3>1, <3>3, <3>4
  <2> QED  BY <2>1, <2>2
\* The new guard holds nothing yet; the old ones hold what they held.
<1>11. \A u \in Thread : /\ RepoHeld(u)' = RepoHeld(u) /\ GitHeld(u)' = GitHeld(u)
                         /\ \A i \in RepoHeld(u) \cup GitHeld(u) :
                               stack'[u][i] = stack[u][i]
  BY <1>3, <1>4 DEF RepoHeld, GitHeld, Entries
<1>12. RepoExclusive' /\ OneOperationPerAdapter'
  BY <1>11 DEF IInv, RepoExclusive, OneOperationPerAdapter
<1>13. Nested'
  <2>1. \A u \in Thread \ {t} : \A i \in DOMAIN stack'[u] :
            /\ stack'[u][i].key = stack'[u][1].key
            /\ stack'[u][i].git \in {u, NoGit, stack'[u][1].git}
            /\ stack'[u][i].git \in SharedGit \cup {u, NoGit}
    BY <1>3 DEF IInv, Nested, Entries
  <2>2. \A i \in DOMAIN stack'[t] :
            /\ stack'[t][i].key = stack'[t][1].key
            /\ stack'[t][i].git \in {t, NoGit, stack'[t][1].git}
            /\ stack'[t][i].git \in SharedGit \cup {t, NoGit}
    <3>1. CASE n = 0
      <4>1. stack[t] = << >>
        BY <1>3, <3>1 DEF TypeOK, n
      <4> QED  BY <1>3, <1>4, <3>1, <4>1 DEF Adapters
    <3>2. CASE n > 0
      <4>1. stack[t] # << >> /\ 1 \in 1..n /\ n \in 1..n
        BY <1>3, <3>2 DEF TypeOK, n
      <4>2. \A i \in 1..n : /\ stack[t][i].key = stack[t][1].key
                            /\ stack[t][i].git \in {t, NoGit, stack[t][1].git}
                            /\ stack[t][i].git \in SharedGit \cup {t, NoGit}
        BY <1>3 DEF IInv, Nested, Entries
      <4>3. g \in {t, NoGit, stack[t][1].git} /\ g \in SharedGit \cup {t, NoGit}
        BY <1>3, <1>4, <4>1, <4>2 DEF Adapters, Entries
      <4> QED  BY <1>3, <1>4, <3>2, <4>1, <4>2, <4>3
    <3> QED  BY <1>3, <3>1, <3>2
  <2> QED  BY <2>1, <2>2 DEF Nested, Entries
<1>14. WantsAnAdapter'
  BY <1>3 DEF IInv, WantsAnAdapter, Top
<1> QED  BY <1>6, <1>9, <1>10, <1>12, <1>13, <1>14 DEF IInv

\* The steps that change only what a thread does with its innermost guard
LEMMA StageStep ==
    ASSUME IInv, NEW t \in Thread, LockRepo(t) \/ LockGit(t) \/ Unlock(t)
    PROVE  IInv'
<1> TypeOK
  BY DEF IInv
<1>1. /\ UNCHANGED <<slot, stack>>
      /\ stage' \in [Thread -> Stage]
      /\ \A u \in Thread \ {t} : stage'[u] = stage[u]
      /\ stack[t] # << >>
  BY DEF LockRepo, LockGit, Unlock, TypeOK, Stage
<1>2. stack[t] \in Seq(Guard) /\ Len(stack[t]) \in Entries(t)
  <2>1. stack[t] \in Seq(Guard)
    BY DEF TypeOK
  <2> QED  BY <1>1, <2>1 DEF Entries
<1>3. TypeOK' /\ Registered' /\ Alive' /\ Nested'
  BY <1>1 DEF IInv, TypeOK, Registered, Alive, Nested, Entries, References
<1>4. \A u \in Thread \ {t} : RepoHeld(u)' = RepoHeld(u) /\ GitHeld(u)' = GitHeld(u)
  BY <1>1 DEF RepoHeld, GitHeld, Entries
<1>5. CASE LockRepo(t)
  <2>1. /\ stage[t] = "wantRepo"
        /\ stage'[t] = IF Top(t).git = NoGit THEN "run" ELSE "wantGit"
        /\ \A u \in Thread \ {t} : \A j \in RepoHeld(u) : stack[u][j].mutex # Top(t).mutex
    BY <1>5 DEF LockRepo, HoldsRepo, TypeOK
  <2>2. RepoHeld(t)' \subseteq RepoHeld(t) \cup {Len(stack[t])}
    BY <1>1 DEF RepoHeld, Entries
  <2>3. RepoExclusive'
    BY <1>1, <1>4, <2>1, <2>2 DEF IInv, RepoExclusive, Top
  <2>4. \A i \in GitHeld(t)' : i \in GitHeld(t) \/ stack[t][i].git = NoGit
    BY <1>1, <2>1 DEF GitHeld, Entries, Top
  <2>5. OneOperationPerAdapter'
    BY <1>1, <1>4, <2>4 DEF IInv, OneOperationPerAdapter
  <2>6. WantsAnAdapter'
    BY <1>1, <2>1 DEF IInv, WantsAnAdapter, Top
  <2> QED  BY <1>3, <2>3, <2>5, <2>6 DEF IInv
<1>6. CASE LockGit(t)
  <2>1. /\ stage[t] = "wantGit" /\ stage'[t] = "run"
        /\ \A u \in Thread \ {t} : \A j \in GitHeld(u) : stack[u][j].git # Top(t).git
    BY <1>6 DEF LockGit, HoldsGit, TypeOK
  <2>2. RepoHeld(t)' = RepoHeld(t)
    BY <1>1, <2>1 DEF RepoHeld, Entries
  <2>3. RepoExclusive'
    BY <1>1, <1>4, <2>2 DEF IInv, RepoExclusive
  <2>4. GitHeld(t)' \subseteq GitHeld(t) \cup {Len(stack[t])}
    BY <1>1 DEF GitHeld, Entries
  <2>5. OneOperationPerAdapter'
    BY <1>1, <1>4, <2>1, <2>4 DEF IInv, OneOperationPerAdapter, Top
  <2>6. WantsAnAdapter'
    BY <1>1, <2>1 DEF IInv, WantsAnAdapter, Top
  <2> QED  BY <1>3, <2>3, <2>5, <2>6 DEF IInv
<1>7. CASE Unlock(t)
  <2>1. stage[t] = "run" /\ stage'[t] = "drop"
    BY <1>7 DEF Unlock, TypeOK
  <2>2. RepoHeld(t)' \subseteq RepoHeld(t) /\ GitHeld(t)' \subseteq GitHeld(t)
    BY <1>1, <2>1 DEF RepoHeld, GitHeld, Entries
  <2>3. RepoExclusive' /\ OneOperationPerAdapter'
    BY <1>1, <1>4, <2>2 DEF IInv, RepoExclusive, OneOperationPerAdapter
  <2>4. WantsAnAdapter'
    BY <1>1, <2>1 DEF IInv, WantsAnAdapter, Top
  <2> QED  BY <1>3, <2>3, <2>4 DEF IInv
<1> QED  BY <1>5, <1>6, <1>7

LEMMA DropStep ==
    ASSUME IInv, NEW t \in Thread, DropReference(t)
    PROVE  IInv'
<1> DEFINE n == Len(stack[t])  m == Top(t).mutex
<1> TypeOK
  BY DEF IInv
<1>1. /\ stack' \in [Thread -> Seq(Guard)]
      /\ \A u \in Thread \ {t} : stack'[u] = stack[u] /\ stage'[u] = stage[u]
      /\ stack'[t] = Pop(t)
      /\ n \in Nat \ {0} /\ DOMAIN stack[t] = 1..n
      /\ Len(stack'[t]) = n - 1 /\ DOMAIN stack'[t] = 1..(n - 1)
      /\ \A i \in 1..(n - 1) : stack'[t][i] = stack[t][i]
      /\ stage'[t] = "run"
  BY Popped
<1>2. stage[t] = "drop" /\ stage' \in [Thread -> Stage]
  BY DEF DropReference, TypeOK, Stage
<1>3. m \in Mutex /\ m # NoMutex /\ m = stack[t][n].mutex
  <2>1. stack[t] \in Seq(Guard) /\ n \in 1..n
    BY <1>1 DEF TypeOK
  <2>2. stack[t][n] \in Guard
    BY <2>1
  <2> QED  BY <2>2, LocksAssumption DEF Guard, Top
<1> DEFINE kept == \E u \in Thread : \E i \in DOMAIN stack'[u] : stack'[u][i].mutex = m
<1>4. slot' = IF kept THEN slot ELSE [k \in Key |-> IF slot[k] = m THEN NoMutex ELSE slot[k]]
  BY <1>1 DEF DropReference, References, Entries
<1> HIDE DEF n, m
<1>5. \A u \in Thread : \A i \in DOMAIN stack'[u] :
         i \in Entries(u) /\ stack'[u][i] = stack[u][i] /\ stack[u][i] \in Guard
  BY <1>1 DEF Entries, TypeOK
<1>6. TypeOK'
  <2>1. slot' \in [Key -> Mutex \cup {NoMutex}]
    BY <1>4 DEF TypeOK
  <2> QED  BY <1>1, <1>2, <2>1 DEF TypeOK
<1>7. Registered'
  <2> SUFFICES ASSUME NEW u \in Thread, NEW i \in DOMAIN stack'[u]
               PROVE  /\ slot'[stack'[u][i].key] = stack'[u][i].mutex
                      /\ \A q \in Key : slot'[q] = stack'[u][i].mutex
                                        => q = stack'[u][i].key
    BY DEF Registered, Entries
  <2>1. /\ i \in Entries(u) /\ stack'[u][i] = stack[u][i]
        /\ stack[u][i].key \in Key /\ stack[u][i].mutex # NoMutex
    BY <1>5, LocksAssumption DEF Guard
  <2>2. /\ slot[stack[u][i].key] = stack[u][i].mutex
        /\ \A q \in Key : slot[q] = stack[u][i].mutex => q = stack[u][i].key
    BY <2>1 DEF IInv, Registered
  <2>3. CASE kept
    BY <1>4, <2>1, <2>2, <2>3
  <2>4. CASE ~kept
    <3>1. stack[u][i].mutex # m
      BY <2>1, <2>4
    <3> QED  BY <1>4, <2>1, <2>2, <2>4, <3>1
  <2> QED  BY <2>3, <2>4
<1>8. Alive'
  <2> SUFFICES ASSUME NEW q \in Key, slot'[q] # NoMutex
               PROVE  \E u \in Thread : \E i \in DOMAIN stack'[u] :
                          stack'[u][i].mutex = slot'[q]
    BY DEF Alive, References, Entries
  <2>1. slot'[q] = slot[q] /\ (~kept => slot[q] # m)
    BY <1>4
  <2>2. CASE slot[q] = m
    BY <2>1, <2>2
  <2>3. CASE slot[q] # m
    <3>0. PICK u \in Thread : References(u, slot[q])
      BY <2>1 DEF IInv, Alive
    <3>1. PICK i \in Entries(u) : stack[u][i].mutex = slot[q]
      BY <3>0 DEF References
    <3>2. ~(u = t /\ i = n)
      BY <1>3, <2>3, <3>1
    <3>3. i \in DOMAIN stack'[u] /\ stack'[u][i] = stack[u][i]
      BY <1>1, <3>2 DEF Entries
    <3> QED  BY <2>1, <3>1, <3>3
  <2> QED  BY <2>2, <2>3
<1>9. \A u \in Thread : RepoHeld(u)' \subseteq RepoHeld(u) /\ GitHeld(u)' \subseteq GitHeld(u)
  BY <1>1, <1>2 DEF RepoHeld, GitHeld, Entries
<1>10. RepoExclusive' /\ OneOperationPerAdapter'
  <2>1. \A u \in Thread : \A i \in RepoHeld(u)' \cup GitHeld(u)' : stack'[u][i] = stack[u][i]
    BY <1>5 DEF RepoHeld, GitHeld, Entries
  <2> QED  BY <1>9, <2>1 DEF IInv, RepoExclusive, OneOperationPerAdapter
<1>11. Nested'
  <2> SUFFICES ASSUME NEW u \in Thread, NEW i \in DOMAIN stack'[u]
               PROVE  /\ stack'[u][i].key = stack'[u][1].key
                      /\ stack'[u][i].git \in {u, NoGit, stack'[u][1].git}
                      /\ stack'[u][i].git \in SharedGit \cup {u, NoGit}
    BY DEF Nested, Entries
  <2>1. 1 \in DOMAIN stack'[u]
    BY <1>1
  <2>2. stack'[u][1] = stack[u][1] /\ stack'[u][i] = stack[u][i] /\ i \in Entries(u)
    BY <1>5, <2>1
  <2> QED  BY <2>2 DEF IInv, Nested
<1>12. WantsAnAdapter'
  BY <1>1 DEF IInv, WantsAnAdapter, Top
<1> QED  BY <1>6, <1>7, <1>8, <1>10, <1>11, <1>12 DEF IInv

LEMMA InvInit == Init => IInv
<1> SUFFICES ASSUME Init PROVE IInv
  OBVIOUS
<1>1. \A t \in Thread : stack[t] = << >> /\ stage[t] = "run" /\ Entries(t) = {}
  BY DEF Init, Entries
<1>2. TypeOK
  BY DEF Init, TypeOK, Stage
<1> QED  BY <1>1, <1>2 DEF IInv, Init, Registered, Alive, RepoExclusive, Nested, WantsAnAdapter,
                           OneOperationPerAdapter, RepoHeld, GitHeld

LEMMA InvStep == IInv /\ [Next]_vars => IInv'
<1> SUFFICES ASSUME IInv, [Next]_vars PROVE IInv'
  OBVIOUS
<1>1. CASE UNCHANGED vars
  BY <1>1 DEF vars, IInv, TypeOK, Registered, Alive, RepoExclusive, Nested, WantsAnAdapter,
              OneOperationPerAdapter, RepoHeld, GitHeld, References, Entries, Top
<1>2. ASSUME NEW t \in Thread, NEW r \in Root, NEW g \in Git, NEW m \in Mutex,
             Lookup(t, r, g, m)
      PROVE  IInv'
  BY <1>2, LookupStep
<1>3. ASSUME NEW t \in Thread, LockRepo(t) \/ LockGit(t) \/ Unlock(t)
      PROVE  IInv'
  BY <1>3, StageStep
<1>4. ASSUME NEW t \in Thread, DropReference(t)
      PROVE  IInv'
  BY <1>4, DropStep
<1> QED  BY <1>1, <1>2, <1>3, <1>4 DEF Next

\* Every variable of the lock registry keeps its type.
THEOREM TypeCorrect == Spec => []TypeOK
<1>1. IInv => TypeOK
  BY DEF IInv
<1> QED  BY InvInit, InvStep, <1>1, PTL DEF Spec

-----------------------------------------------------------------------------
LEMMA KeyExclusive == IInv => OneOperationPerRepository
<1> SUFFICES ASSUME IInv, NEW t \in Thread, NEW u \in Thread, t # u,
                    NEW i \in GitHeld(t), NEW j \in GitHeld(u),
                    stack[t][i].key = stack[u][j].key
             PROVE  FALSE
  BY DEF OneOperationPerRepository, Inside
<1>1. i \in Entries(t) /\ j \in Entries(u)
  BY DEF GitHeld
<1>2. stack[t][i].mutex = stack[u][j].mutex
  BY <1>1 DEF IInv, Registered
<1>3. i \in RepoHeld(t) /\ j \in RepoHeld(u)
  BY DEF GitHeld, RepoHeld
<1> QED  BY <1>2, <1>3 DEF IInv, RepoExclusive

\* Two GitOperationGuards of different threads never cover one repository at the
\* same time, for any number of threads, root spellings and registry expirations.
THEOREM RepositoryExclusion == Spec => []OneOperationPerRepository
BY InvInit, InvStep, KeyExclusive, PTL DEF Spec

\* GitOps.h: an adapter that several stores share has one thread inside its lock at a
\* time, so the repository it has open is the one of that thread's operation.
THEOREM AdapterExclusion == Spec => []OneOperationPerAdapter
<1>1. IInv => OneOperationPerAdapter
  BY DEF IInv
<1> QED  BY InvInit, InvStep, <1>1, PTL DEF Spec

\* Only an outermost guard can wait for another thread.
LEMMA OutermostWaits ==
    ASSUME IInv, NEW t \in Thread, NEW u \in Thread \ {t}, WaitsFor(t, u)
    PROVE  /\ GitHeld(t) = {}
           /\ stage[t] = "wantRepo" => RepoHeld(t) = {} /\ RepoHeld(u) # {}
           /\ stage[t] = "wantGit" => GitHeld(u) # {}
<1> DEFINE n == Len(stack[t])
<1>1. stage[t] \in {"wantRepo", "wantGit"}
  BY DEF WaitsFor
<1>2. stack[t] \in Seq(Guard) /\ stack[t] # << >>
  BY <1>1 DEF IInv, TypeOK
<1>3. n \in Nat \ {0} /\ Entries(t) = 1..n
  BY <1>2 DEF Entries
<1>4. n = 1
  <2> SUFFICES ASSUME n # 1 PROVE FALSE
    OBVIOUS
  <2>1. 1 \in Entries(t) /\ n \in Entries(t) /\ 1 \in RepoHeld(t) /\ 1 \in GitHeld(t)
    BY <1>3 DEF RepoHeld, GitHeld
  <2>2. Top(t).key = stack[t][1].key /\ Top(t).mutex = stack[t][1].mutex
    BY <2>1 DEF IInv, Nested, Registered, Top
  <2>3. CASE stage[t] = "wantRepo"
    BY <2>1, <2>2, <2>3 DEF WaitsFor, HoldsRepo, IInv, RepoExclusive
  <2>4. CASE stage[t] = "wantGit"
    <3>1. PICK j \in GitHeld(u) : stack[u][j].git = Top(t).git
      BY <2>4 DEF WaitsFor, HoldsGit
    <3>2. Top(t).git \in {t, stack[t][1].git} /\ Top(t).git # NoGit
      BY <2>1, <2>4 DEF IInv, Nested, WantsAnAdapter, Top
    <3>3. Top(t).git # t
      BY <3>1, LocksAssumption DEF IInv, Nested, GitHeld
    <3> QED  BY <2>1, <3>1, <3>2, <3>3 DEF IInv, OneOperationPerAdapter
  <2> QED  BY <1>1, <2>3, <2>4
<1>5. GitHeld(t) = {} /\ (stage[t] = "wantRepo" => RepoHeld(t) = {})
  BY <1>1, <1>3, <1>4 DEF GitHeld, RepoHeld
<1> QED  BY <1>5 DEF WaitsFor, HoldsRepo, HoldsGit

LEMMA NoCycle == IInv => NoCircularWait
<1> SUFFICES ASSUME IInv, NEW W \in SUBSET Thread, W # {},
                    \A t \in W : \E u \in W \ {t} : WaitsFor(t, u)
             PROVE  FALSE
  BY DEF NoCircularWait
<1>1. \A t \in W : GitHeld(t) = {}
  BY OutermostWaits
<1>2. \A t \in W : stage[t] # "wantGit"
  BY <1>1, OutermostWaits
<1>3. \A t \in W : stage[t] = "wantRepo"
  BY <1>2 DEF WaitsFor
<1>4. \A t \in W : RepoHeld(t) = {}
  BY <1>3, OutermostWaits
<1> QED  BY <1>3, <1>4, OutermostWaits

\* RepoLocks.h: with the project lock taken before the adapter's, no set of
\* threads is ever waiting in a circle, whatever adapters are shared.
THEOREM DeadlockFreedom == Spec => []NoCircularWait
BY InvInit, InvStep, NoCycle, PTL DEF Spec
=============================================================================
