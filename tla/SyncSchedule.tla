---------------------------- MODULE SyncSchedule ----------------------------
(***************************************************************************)
(* When a project is pulled and pushed, and what the sync state row says   *)
(* of it: ProjectSyncPolicy, ProjectSyncRepo and the phases of             *)
(* run_project_sync, as the calls of the C API start them.  What a pull    *)
(* does to the cards is module ProjectSync.                                *)
(*                                                                         *)
(* Time is relative, so that it needs no bound: a time in the past is an   *)
(* age that stops at the interval it is compared with (so does "never"), a *)
(* time to wait for is the wait that is left.  A call takes its time when  *)
(* it begins and uses it to the end; "lag" is how old it is by now.        *)
(*                                                                         *)
(* The row is read and written as a whole, in two statements.  Another     *)
(* thread can come between them; the clock, which counts minutes, does not.*)
(***************************************************************************)
EXTENDS Naturals, Sequences

CONSTANTS
    Caller,     \* the threads that call
    Scheduler,  \* the one that calls holder_git_sync_if_due
    Nobody,
    Backoff,    \* kSchedule
    Every,      \* the interval of each phase
    MaxAhead,   \* bound on commits that are not pushed
    MaxOther,   \* bound on pushes of other devices
    Scenarios   \* sets of circumstances, one of which holds in a behaviour

Phase == {"pull", "push"}
Circumstance ==
    {"manual",  \* other threads pull, push and sync
     "overlap", \* and do so while a call is in progress
     "others",  \* other devices push to the remote
     "unset"}   \* the remote is taken away and set again

ASSUME ScheduleAssumption ==
    /\ Scheduler \in Caller /\ Nobody \notin Caller
    /\ Backoff \in Seq(Nat) /\ Backoff # <<>> /\ Every \in [Phase -> Nat \ {0}]
    /\ MaxAhead \in Nat /\ MaxOther \in Nat /\ Scenarios \subseteq SUBSET Circumstance

VARIABLES
    row,     \* the row of project_sync_state
    lock,    \* who holds the project's lock
    call,    \* call[c]: the call of thread c
    url,     \* a remote is configured
    reach,   \* and answers
    ahead,   \* commits the remote does not have
    behind,  \* the remote has commits the branch does not contain
    tracked, \* the remote-tracking reference exists
    last,    \* last[f]: how the last attempt of phase f ended
    others,  \* pushes of other devices
    allow

vars == <<row, lock, call, url, reach, ahead, behind, tracked, last, others, allow>>

Longest == Backoff[Len(Backoff)]
MaxLag == IF Longest > Every["push"] THEN Longest ELSE Every["push"]
Least(a, b) == IF a < b THEN a ELSE b
Left(a, b) == IF a > b THEN a - b ELSE 0

NoRow ==
    [pull |-> [age |-> Every["pull"], wait |-> 0, fails |-> 0],
     push |-> [age |-> Every["push"], wait |-> 0, fails |-> 0],
     unpushed |-> 0]

Called(pc, for, phases) ==
    [pc |-> pc, for |-> for, phases |-> phases,
     phase |-> IF "pull" \in phases THEN "pull" ELSE "push",
     ok |-> FALSE, lag |-> 0, copy |-> NoRow]
Idle == Called("idle", "none", {})

Init ==
    /\ row = NoRow /\ lock = Nobody
    /\ call = [c \in Caller |-> Idle]
    /\ url \in BOOLEAN /\ reach \in BOOLEAN
    /\ ahead = 1 /\ behind = FALSE /\ tracked = FALSE
    /\ last = [f \in Phase |-> "none"] /\ others = 0
    /\ allow \in Scenarios
    /\ "unset" \notin allow => url

-----------------------------------------------------------------------------
\* ProjectSyncPolicy

\* should_attempt_pull, should_attempt_push
Due(f) == row[f].wait = 0 /\ row[f].age >= Every[f]

\* ProjectSyncRepo

\* backoff_seconds_for_retry
BackoffFor(fails) == Backoff[Least(fails, Len(Backoff))]

\* record_pull_result, record_push_result
Recorded(r, f, ok, lag) ==
    IF ok
    THEN [r EXCEPT ![f] = [age |-> Least(lag, Every[f]), wait |-> 0, fails |-> 0]]
    ELSE [r EXCEPT ![f].wait = Left(BackoffFor(r[f].fails + 1), lag),
                   ![f].fails = Least(@ + 1, Len(Backoff))]

\* update_activity_counts, with what inspect_repo_sync_metrics counts: commits
\* are unpushed only as far as a remote-tracking reference tells
Counted(r) == [r EXCEPT !.unpushed = IF tracked THEN ahead ELSE 0]

-----------------------------------------------------------------------------
\* The calls

CanCall(c) ==
    /\ call[c] = Idle
    /\ c # Scheduler => "manual" \in allow
    /\ "overlap" \in allow \/ \A o \in Caller : call[o] = Idle

Begin(c, for, phases, pc) ==
    /\ call' = [call EXCEPT ![c] = Called(pc, for, phases)]
    /\ UNCHANGED <<row, lock, url, reach, ahead, behind, tracked, last, others, allow>>

\* Mutant: a call does one phase, and the pull comes first.
SyncIfDueOnePhase ==
    LET due == {f \in Phase : Due(f)} IN
    /\ CanCall(Scheduler) /\ url /\ due # {}
    /\ Begin(Scheduler, "scheduled", IF "pull" \in due THEN {"pull"} ELSE due, "lock")

\* holder_git_sync_if_due
SyncIfDue ==
    LET due == {f \in Phase : Due(f)} IN
    /\ CanCall(Scheduler) /\ url /\ due # {}
    /\ Begin(Scheduler, "scheduled", due, "lock")

\* holder_git_sync_now
SyncNow(c, push) ==
    /\ c # Scheduler /\ CanCall(c) /\ url
    /\ Begin(c, "now", IF push THEN {"pull", "push"} ELSE {"pull"}, "lock")

\* holder_git_pull
GitPull(c) ==
    /\ c # Scheduler /\ CanCall(c)
    /\ Begin(c, "now", {"pull"}, "lock")

\* holder_git_push: without a remote the failure is recorded at once, and
\* without the lock
GitPush(c) ==
    /\ c # Scheduler /\ CanCall(c)
    /\ Begin(c, "push", {"push"}, IF url THEN "lock" ELSE "read")

\* run_project_sync looks at the project again when it has the lock;
\* holder_git_push does not.
TakeLock(c) ==
    /\ call[c].pc = "lock" /\ lock = Nobody
    /\ lock' = c
    /\ call' = [call EXCEPT ![c].pc = IF url \/ call[c].for = "push" THEN call[c].phase
                                      ELSE "read"]
    /\ UNCHANGED <<row, url, reach, ahead, behind, tracked, last, others, allow>>

Goes(c, pc, phase, copy) ==
    call' = [call EXCEPT ![c].pc = pc, ![c].phase = phase, ![c].copy = copy]

Ended(c, ok) == call' = [call EXCEPT ![c].pc = "read", ![c].ok = ok]

\* A pull that succeeds leaves the branch at or after the remote's.
PullPhase(c) ==
    /\ call[c].pc = "pull"
    /\ IF reach THEN behind' = FALSE /\ tracked' = TRUE ELSE UNCHANGED <<behind, tracked>>
    /\ Ended(c, reach)
    /\ UNCHANGED <<row, lock, url, reach, ahead, last, others, allow>>

\* push_branch: refused when the remote has other commits.  It may or may not
\* leave a remote-tracking reference.
PushPhase(c) ==
    LET ok == reach /\ ~behind IN
    /\ call[c].pc = "push"
    /\ ahead' = IF ok THEN 0 ELSE ahead
    /\ tracked' \in IF ok THEN {tracked, TRUE} ELSE {tracked}
    /\ Ended(c, ok)
    /\ UNCHANGED <<row, lock, url, reach, behind, last, others, allow>>

ReadRow(c) ==
    /\ call[c].pc = "read"
    /\ Goes(c, "write", call[c].phase, row)
    /\ UNCHANGED <<row, lock, url, reach, ahead, behind, tracked, last, others, allow>>

Return(c) ==
    /\ call' = [call EXCEPT ![c] = Idle]
    /\ lock' = IF lock = c THEN Nobody ELSE lock

\* Mutant: the lock is given back before the result is recorded.
WriteResultUnlocked(c) ==
    LET k == call[c] IN
    /\ k.pc = "write"
    /\ row' = Recorded(k.copy, k.phase, k.ok, k.lag)
    /\ last' = [last EXCEPT ![k.phase] = IF k.ok THEN "succeeded" ELSE "failed"]
    /\ lock' = Nobody
    /\ Goes(c, "count", k.phase, NoRow)
    /\ UNCHANGED <<url, reach, ahead, behind, tracked, others, allow>>

\* Without a remote there is nothing to count.
WriteResult(c) ==
    LET k == call[c] IN
    /\ k.pc = "write"
    /\ row' = Recorded(k.copy, k.phase, k.ok, k.lag)
    /\ last' = [last EXCEPT ![k.phase] = IF k.ok THEN "succeeded" ELSE "failed"]
    /\ IF lock # c \/ (~url /\ k.for # "push")
       THEN Return(c)
       ELSE Goes(c, "count", k.phase, NoRow) /\ UNCHANGED lock
    /\ UNCHANGED <<url, reach, ahead, behind, tracked, others, allow>>

CountRead(c) ==
    /\ call[c].pc = "count"
    /\ Goes(c, "refresh", call[c].phase, Counted(row))
    /\ UNCHANGED <<row, lock, url, reach, ahead, behind, tracked, last, others, allow>>

\* A scheduled sync pushes after a failed pull, too.
CountWrite(c) ==
    LET k == call[c] IN
    /\ k.pc = "refresh"
    /\ row' = k.copy
    /\ IF k.phase = "pull" /\ "push" \in k.phases /\ (k.ok \/ k.for = "scheduled")
       THEN Goes(c, "push", "push", NoRow) /\ UNCHANGED lock
       ELSE Return(c)
    /\ UNCHANGED <<url, reach, ahead, behind, tracked, last, others, allow>>

-----------------------------------------------------------------------------
\* Around the calls

Older(e, every) == [e EXCEPT !.age = Least(@ + 1, every), !.wait = Left(@, 1)]
Aged(r) ==
    [r EXCEPT !.pull = Older(@, Every["pull"]), !.push = Older(@, Every["push"])]

Tick ==
    /\ \A c \in Caller : call[c].pc \in {"idle", "lock", "pull", "push"}
    /\ row' = Aged(row)
    /\ call' = [c \in Caller |->
                   IF call[c] = Idle THEN Idle ELSE [call[c] EXCEPT !.lag = Least(@ + 1, MaxLag)]]
    /\ UNCHANGED <<lock, url, reach, ahead, behind, tracked, last, others, allow>>

\* A card operation commits under the lock.
Commit ==
    /\ lock = Nobody /\ ahead < MaxAhead
    /\ ahead' = ahead + 1
    /\ UNCHANGED <<row, lock, call, url, reach, behind, tracked, last, others, allow>>

\* holder_project_update_git_remote: the row and, with a commit, the manifest
UpdateGitRemote ==
    /\ "unset" \in allow /\ lock = Nobody /\ ahead < MaxAhead
    /\ url' = ~url /\ ahead' = ahead + 1
    /\ UNCHANGED <<row, lock, call, reach, behind, tracked, last, others, allow>>

OtherPushes ==
    /\ "others" \in allow /\ others < MaxOther /\ others' = others + 1
    /\ behind' = TRUE
    /\ UNCHANGED <<row, lock, call, url, reach, ahead, tracked, last, allow>>

Network ==
    /\ reach' = ~reach
    /\ UNCHANGED <<row, lock, call, url, ahead, behind, tracked, last, others, allow>>

Steps(c) ==
    \/ TakeLock(c) \/ PullPhase(c) \/ PushPhase(c)
    \/ ReadRow(c) \/ WriteResult(c) \/ CountRead(c) \/ CountWrite(c)

Next ==
    \/ SyncIfDue
    \/ \E c \in Caller : \/ \E push \in BOOLEAN : SyncNow(c, push)
                         \/ GitPull(c) \/ GitPush(c) \/ Steps(c)
    \/ Tick \/ Commit \/ UpdateGitRemote \/ OtherPushes \/ Network

Spec == Init /\ [][Next]_vars

\* Time passes, calls go on, and the scheduler calls whenever it finds itself
\* idle and a sync due; if it waits for the lock it gets it in the end.
Fairness ==
    /\ SF_vars(Tick) /\ SF_vars(SyncIfDue) /\ SF_vars(Steps(Scheduler))
    /\ \A c \in Caller \ {Scheduler} : WF_vars(Steps(c))
FairSpec == Spec /\ Fairness

-----------------------------------------------------------------------------
\* The sync state that the user sees is that of the last attempt of each phase,
\* although every result rewrites the whole row with what was read before it:
\* run_project_sync and holder_git_push record under the project's lock.  Only
\* holder_git_push without a remote does not.
StatusHonest ==
    "unset" \notin allow =>
        \A f \in Phase : row[f].fails > 0 <=> last[f] = "failed"

\* Whatever failed before, once the remote answers for good every commit reaches
\* it: the waits of the phases end, and no pull starves the push.
CommitsReachRemote == <>[](reach /\ url) => [](ahead > 0 => <>(ahead = 0))
=============================================================================
