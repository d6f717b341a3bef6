------------------------------ MODULE RepoLocks ------------------------------
(***************************************************************************)
(* The per-repository operation lock.  A thread that works on a project    *)
(* builds a GitOperationGuard: it looks the project's recursive mutex up   *)
(* in a process-wide registry of weak pointers, locks it, then locks the   *)
(* GitOps adapter's own recursive mutex.  Guards nest on one thread: a     *)
(* pull holds one and CardStore, the Rebuilder and the privacy setup it    *)
(* calls build theirs for the same project.                                *)
(*                                                                         *)
(* A mutex is alive while a guard references it; when the last one drops   *)
(* it, the registry's weak pointer expires (NoMutex).  A recursive mutex   *)
(* is held by a thread if one of the thread's guards holds it, so no       *)
(* counter is needed.                                                      *)
(***************************************************************************)
EXTENDS Naturals, Sequences, FiniteSets

CONSTANTS
    Thread,
    Root,       \* the spellings of repository roots the program uses
    Key,        \* canonical repository keys
    KeyOf,      \* canonical_repo_key: spelling -> key
    Mutex,      \* identities a created mutex can have
    NoMutex,    \* an expired or empty registry slot
    SharedGit,  \* GitOps adapters that threads may share
    NoGit,      \* a guard without an adapter (the Rebuilder takes only the mutex)
    MaxDepth    \* bound on nested guards

ASSUME LocksAssumption ==
    /\ KeyOf \in [Root -> Key]
    /\ NoMutex \notin Mutex
    /\ NoGit \notin Thread \cup SharedGit
    /\ Thread \cap SharedGit = {}
    /\ MaxDepth \in Nat

\* A nested store object either is given the caller's adapter or owns a fresh
\* one; the fresh adapters of a thread are named by the thread.
Git == SharedGit \cup Thread \cup {NoGit}
Guard == [key : Key, mutex : Mutex, git : Git]

VARIABLES
    slot,   \* the registry: key -> mutex of the weak pointer
    stack,  \* thread -> its guards, innermost last
    stage   \* thread -> what it is doing with the innermost guard

vars == <<slot, stack, stage>>

Stage == {"run", "wantRepo", "wantGit", "drop"}

Entries(t) == DOMAIN stack[t]
Top(t) == stack[t][Len(stack[t])]

\* The guards of t that own their repository mutex, and their adapter's mutex
RepoHeld(t) == {i \in Entries(t) : i = Len(stack[t]) => stage[t] \in {"run", "wantGit"}}
GitHeld(t)  == {i \in Entries(t) : i = Len(stack[t]) => stage[t] = "run"}

HoldsRepo(t, m) == \E i \in RepoHeld(t) : stack[t][i].mutex = m
HoldsGit(t, g) == \E i \in GitHeld(t) : stack[t][i].git = g
References(t, m) == \E i \in Entries(t) : stack[t][i].mutex = m

Init ==
    /\ slot = [k \in Key |-> NoMutex]
    /\ stack = [t \in Thread |-> << >>]
    /\ stage = [t \in Thread |-> "run"]

\* Mutant: a nested store may be handed an adapter of somebody else.
AdaptersAny(t) == {t, NoGit} \cup SharedGit

\* The adapters a guard of t can be given: a nested one is never handed an
\* adapter that the enclosing guards do not hold already, unless it is t's own.
Adapters(t) ==
    {t, NoGit} \cup (IF stack[t] = << >> THEN SharedGit
                     ELSE {stack[t][i].git : i \in Entries(t)})

\* Mutant: every guard gets a new mutex.
LookupNew(t, r, g, m) ==
    LET k == KeyOf[r] IN
    /\ stage[t] = "run"
    /\ Len(stack[t]) < MaxDepth
    /\ stack[t] # << >> => k = Top(t).key
    /\ g \in Adapters(t)
    /\ \A u \in Thread : ~References(u, m)
    /\ slot' = [slot EXCEPT ![k] = m]
    /\ stack' = [stack EXCEPT ![t] = Append(@, [key |-> k, mutex |-> m, git |-> g])]
    /\ stage' = [stage EXCEPT ![t] = "wantRepo"]

\* repo_mutex_for, under the registry mutex: the live mutex of the key, or a new
\* one that no guard references.
Lookup(t, r, g, m) ==
    LET k == KeyOf[r] IN
    /\ stage[t] = "run"
    /\ Len(stack[t]) < MaxDepth
    /\ stack[t] # << >> => k = Top(t).key
    /\ g \in Adapters(t)
    /\ IF slot[k] # NoMutex THEN m = slot[k] ELSE \A u \in Thread : ~References(u, m)
    /\ slot' = [slot EXCEPT ![k] = m]
    /\ stack' = [stack EXCEPT ![t] = Append(@, [key |-> k, mutex |-> m, git |-> g])]
    /\ stage' = [stage EXCEPT ![t] = "wantRepo"]

LockRepo(t) ==
    /\ stage[t] = "wantRepo"
    /\ \A u \in Thread \ {t} : ~HoldsRepo(u, Top(t).mutex)
    /\ stage' = [stage EXCEPT ![t] = IF Top(t).git = NoGit THEN "run" ELSE "wantGit"]
    /\ UNCHANGED <<slot, stack>>

\* Mutant: the adapter's mutex is not waited for.
LockGitNoWait(t) ==
    /\ stage[t] = "wantGit"
    /\ stage' = [stage EXCEPT ![t] = "run"]
    /\ UNCHANGED <<slot, stack>>

LockGit(t) ==
    /\ stage[t] = "wantGit"
    /\ \A u \in Thread \ {t} : ~HoldsGit(u, Top(t).git)
    /\ stage' = [stage EXCEPT ![t] = "run"]
    /\ UNCHANGED <<slot, stack>>

\* The guard's destructor: both locks, then the reference to the mutex
Unlock(t) ==
    /\ stage[t] = "run" /\ stack[t] # << >>
    /\ stage' = [stage EXCEPT ![t] = "drop"]
    /\ UNCHANGED <<slot, stack>>

Pop(t) == SubSeq(stack[t], 1, Len(stack[t]) - 1)

DropReference(t) ==
    LET m == Top(t).mutex IN
    /\ stage[t] = "drop"
    /\ stack' = [stack EXCEPT ![t] = Pop(t)]
    /\ stage' = [stage EXCEPT ![t] = "run"]
    /\ slot' = IF \/ \E u \in Thread \ {t} : References(u, m)
                  \/ \E i \in DOMAIN Pop(t) : Pop(t)[i].mutex = m
               THEN slot
               ELSE [k \in Key |-> IF slot[k] = m THEN NoMutex ELSE slot[k]]

Next ==
    \E t \in Thread :
        \/ \E r \in Root, g \in Git, m \in Mutex : Lookup(t, r, g, m)
        \/ LockRepo(t) \/ LockGit(t) \/ Unlock(t) \/ DropReference(t)

Spec == Init /\ [][Next]_vars

-----------------------------------------------------------------------------
\* Every variable keeps its type, and a thread acts only on a guard it has.
TypeOK ==
    /\ slot \in [Key -> Mutex \cup {NoMutex}]
    /\ stack \in [Thread -> Seq(Guard)]
    /\ stage \in [Thread -> Stage]
    /\ \A t \in Thread : stage[t] # "run" => stack[t] # << >>

\* A thread is inside the operations whose guards it has completed.
Inside(t) == {stack[t][i].key : i \in GitHeld(t)}

\* No two threads are ever inside operations on one repository, whatever
\* spelling of its root they used and however often the registry's weak pointer
\* expired and a new mutex was made in between.
OneOperationPerRepository ==
    \A t, u \in Thread : t # u => Inside(t) \cap Inside(u) = {}

\* One adapter never serves two operations at a time.
OneOperationPerAdapter ==
    \A t, u \in Thread : t # u =>
        \A i \in GitHeld(t), j \in GitHeld(u) :
            stack[t][i].git = stack[u][j].git => stack[t][i].git = NoGit

\* RepoLocks.h: taking the project lock first, nesting through distinct adapters
\* cannot deadlock.  There is no set of threads each waiting for another of it.
WaitsFor(t, u) ==
    \/ stage[t] = "wantRepo" /\ HoldsRepo(u, Top(t).mutex)
    \/ stage[t] = "wantGit" /\ HoldsGit(u, Top(t).git)

NoCircularWait ==
    \A W \in SUBSET Thread :
        W # {} => \E t \in W : \A u \in W \ {t} : ~WaitsFor(t, u)
=============================================================================
