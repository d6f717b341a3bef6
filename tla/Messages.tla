------------------------------ MODULE Messages ------------------------------
(***************************************************************************)
(* The AI messages of one thread: a row and a full-text entry in SQLite, a *)
(* file in the work tree of the project, live or in the trash, and what of *)
(* it is in git's index and in its last commit.                            *)
(*                                                                         *)
(* AiMessageRepo keeps no journal as card changes do.  A call looks up its *)
(* message, takes the lock of the repository, and then performs one write  *)
(* after the other; an error ends it where it stands.  What a message says *)
(* beside its content, its links among them, is part of its content here.  *)
(***************************************************************************)
EXTENDS Naturals, Sequences, FiniteSets

CONSTANTS
    Message,
    Content,
    Caller,
    None,
    Torn,      \* the content of a file whose writing was cut short
    Scenarios  \* sets of circumstances, one of which holds in a behaviour

Circumstance ==
    {"overlap",     \* a call begins while another is in progress
     "update",      \* messages are edited and linked
     "trashed",     \* also those in the trash
     "remove",      \* messages in the trash are removed for good
     "removeLive",  \* and messages that are not in the trash
     "reuse",       \* the id of a message is appended again
     "rebuild",     \* the rows are rebuilt from the files
     "fail",        \* a write fails
     "crash"}       \* the process dies inside a call

VARIABLES
    rows,   \* rows[m]: content, and if trashed
    fts,    \* fts[m]: the content that a search finds m by
    work,   \* work[m]: what the live file and the trashed file of m hold
    staged, \* the same of git's index
    head,   \* and of the last commit
    thread, \* the row of the thread
    lock,
    call,   \* call[a]: what a has asked for and the steps it has left
    said,   \* said[m]: what the caller of the last change of m was told
    cut,    \* a call has ended after some of its writes
    allow

vars == <<rows, fts, work, staged, head, thread, lock, call, said, cut, allow>>
files == <<work, staged, head>>
git == <<staged, head>>

NoFiles == [live |-> None, trash |-> None]
Idle == [op |-> "none", of |-> None, what |-> None, todo |-> <<>>]

Init ==
    /\ rows = [m \in Message |-> None]
    /\ fts = [m \in Message |-> None]
    /\ work = [m \in Message |-> NoFiles]
    /\ staged = work
    /\ head = work
    /\ thread = TRUE
    /\ lock = None
    /\ call = [a \in Caller |-> Idle]
    /\ said = [m \in Message |-> None]
    /\ cut = FALSE
    /\ allow \in Scenarios

-----------------------------------------------------------------------------
(* What a caller may ask for.  The message is looked up before the lock is *)
(* taken: restore and update_links go on with the content read here.       *)

CanCall(a) ==
    /\ call[a].op = "none"
    /\ "overlap" \in allow \/ \A b \in Caller : call[b].op = "none"

Ask(a, op, m, c, todo) ==
    /\ CanCall(a)
    /\ call' = [call EXCEPT ![a] =
         [op |-> op, of |-> m, what |-> c, todo |-> <<"lock">> \o todo]]
    /\ UNCHANGED <<rows, fts, files, thread, lock, said, cut, allow>>

Found(m) == rows[m] # None /\ thread

AppendMessage(a, m, c) ==
    /\ thread
    /\ "reuse" \in allow \/ (rows[m] = None /\ \A b \in Caller : call[b].of # m)
    /\ Ask(a, "append", m, c, <<"write", "row", "index", "commit">>)

Update(a, m, c) ==
    /\ "update" \in allow
    /\ thread
    /\ rows[m] # None
    /\ rows[m].trash => "trashed" \in allow
    /\ Ask(a, "update", m, c, <<"row", "write", "commit">>)

Trash(a, m) ==
    /\ Found(m) /\ ~rows[m].trash
    /\ Ask(a, "trash", m, None, <<"move", "row", "index", "commit">>)

Restore(a, m) ==
    /\ Found(m) /\ rows[m].trash
    /\ Ask(a, "restore", m, rows[m].of, <<"move", "row", "index", "commit">>)

Remove(a, m) ==
    /\ Found(m)
    /\ (IF rows[m].trash THEN "remove" ELSE "removeLive") \in allow
    /\ Ask(a, "remove", m, None, <<"row", "unlink">>)

UpdateLinks(a, m) ==
    /\ "update" \in allow
    /\ Found(m)
    /\ Ask(a, "links", m, rows[m].of, <<"write", "commit">>)

-----------------------------------------------------------------------------
(* The steps of a call under the lock                                      *)

Doing(a, step) == call[a].todo # <<>> /\ Head(call[a].todo) = step

Goes(a) == call' = [call EXCEPT ![a].todo = Tail(@)]

(* The call ends: with an error it says nothing of the message, and if it  *)
(* has written something the message is left half changed.                 *)
Returns(a, answer, dirty) ==
    /\ call' = [call EXCEPT ![a] = Idle]
    /\ lock' = None
    /\ said' = IF answer = "ok"
               THEN [said EXCEPT ![call[a].of] = rows'[call[a].of]]
               ELSE said
    /\ cut' = (cut \/ dirty)
    /\ UNCHANGED allow

(* Under the lock, append looks for a live file of the id, trash and       *)
(* update_links for the live file, restore for the trashed one.            *)
MayGo(a) ==
    LET m == call[a].of IN
    CASE call[a].op = "append" -> work[m].live = None
      [] call[a].op \in {"trash", "links"} -> work[m].live # None
      [] call[a].op = "restore" -> work[m].trash # None
      [] call[a].op \in {"update", "remove"} -> TRUE

TakeLock(a) ==
    /\ Doing(a, "lock")
    /\ lock = None
    /\ IF MayGo(a)
       THEN lock' = a /\ Goes(a) /\ UNCHANGED <<said, cut, allow>>
       ELSE Returns(a, "error", FALSE)
    /\ UNCHANGED <<rows, fts, files, thread>>

WriteFile(a) ==
    /\ Doing(a, "write")
    /\ Goes(a)
    /\ work' = [work EXCEPT ![call[a].of].live = call[a].what]
    /\ UNCHANGED <<rows, fts, git, thread, lock, said, cut, allow>>

MoveFile(a) ==
    /\ Doing(a, "move")
    /\ Goes(a)
    /\ work' = [work EXCEPT ![call[a].of] =
         IF call[a].op = "trash" THEN [live |-> None, trash |-> @.live]
                                 ELSE [live |-> @.trash, trash |-> None]]
    /\ UNCHANGED <<rows, fts, git, thread, lock, said, cut, allow>>

\* Mutant: a row that is there already keeps the file that was just written.
InsertKeepsFile(a) ==
    /\ Doing(a, "row")
    /\ call[a].op = "append"
    /\ IF rows[call[a].of] = None /\ thread
       THEN /\ Goes(a)
            /\ rows' = [rows EXCEPT ![call[a].of] =
                          [of |-> call[a].what, trash |-> FALSE]]
            /\ UNCHANGED <<work, lock, said, cut, allow>>
       ELSE /\ Returns(a, "error", FALSE)
            /\ UNCHANGED <<rows, work>>
    /\ UNCHANGED <<fts, git, thread>>

(* The id may belong to a message in the trash, or the thread may be gone: *)
(* the insertion fails and append takes its file away again.               *)
InsertRow(a) ==
    /\ Doing(a, "row")
    /\ call[a].op = "append"
    /\ IF rows[call[a].of] = None /\ thread
       THEN /\ Goes(a)
            /\ rows' = [rows EXCEPT ![call[a].of] =
                          [of |-> call[a].what, trash |-> FALSE]]
            /\ UNCHANGED <<work, lock, said, cut, allow>>
       ELSE /\ Returns(a, "error", FALSE)
            /\ work' = [work EXCEPT ![call[a].of].live = None]
            /\ UNCHANGED rows
    /\ UNCHANGED <<fts, git, thread>>

(* An UPDATE or DELETE of a row that is not there changes nothing and is   *)
(* no error.                                                               *)
Changed(a, row) ==
    CASE row = None -> None
      [] row # None /\ call[a].op = "update" -> [row EXCEPT !.of = call[a].what]
      [] row # None /\ call[a].op = "trash" -> [row EXCEPT !.trash = TRUE]
      [] row # None /\ call[a].op = "restore" -> [row EXCEPT !.trash = FALSE]
      [] row # None /\ call[a].op = "remove" -> None

ChangeRow(a) ==
    /\ Doing(a, "row")
    /\ call[a].op # "append"
    /\ Goes(a)
    /\ rows' = [rows EXCEPT ![call[a].of] = Changed(a, @)]
    /\ said' = IF call[a].op = "remove" THEN [said EXCEPT ![call[a].of] = None]
               ELSE said
    /\ UNCHANGED <<fts, files, thread, lock, cut, allow>>

IndexMessage(a) ==
    /\ Doing(a, "index")
    /\ Goes(a)
    /\ fts' = [fts EXCEPT ![call[a].of] =
                 IF call[a].op = "trash" THEN None ELSE call[a].what]
    /\ UNCHANGED <<rows, files, thread, lock, said, cut, allow>>

(* The paths of the message are staged and the whole index is committed.   *)
Commit(a) ==
    /\ Doing(a, "commit")
    /\ LET m == call[a].of
           both == call[a].op \in {"trash", "restore"}
       IN staged' = [staged EXCEPT ![m] =
            IF both THEN work[m] ELSE [@ EXCEPT !.live = work[m].live]]
    /\ head' = staged'
    /\ UNCHANGED <<rows, fts, work, thread>>
    /\ Returns(a, "ok", FALSE)

(* remove commits only if there was a file in the trash.                   *)
Unlink(a) ==
    /\ Doing(a, "unlink")
    /\ work' = [work EXCEPT ![call[a].of] = NoFiles]
    /\ staged' = [staged EXCEPT ![call[a].of] =
         [live |-> IF work[call[a].of].live = None THEN @.live ELSE None,
          trash |-> IF work[call[a].of].trash = None THEN @.trash ELSE None]]
    /\ head' = IF work[call[a].of].trash # None THEN staged' ELSE head
    /\ UNCHANGED <<rows, fts, thread>>
    /\ Returns(a, "ok", FALSE)

-----------------------------------------------------------------------------
(* Faults.  write_file truncates the file and writes it in place.          *)

(* A step that fails ends the call; what was written before it stays.  A   *)
(* file that is being written may be left cut short.                       *)
Fail(a) ==
    /\ "fail" \in allow
    /\ lock = a
    /\ \/ UNCHANGED work
       \/ /\ Doing(a, "write")
          /\ work' = [work EXCEPT ![call[a].of].live = Torn]
    /\ Returns(a, "error", TRUE)
    /\ UNCHANGED <<rows, fts, git, thread>>

Crash ==
    /\ "crash" \in allow
    /\ \E a \in Caller : call[a].op # "none"
    /\ \/ UNCHANGED work
       \/ \E a \in Caller :
             /\ lock = a /\ Doing(a, "write")
             /\ work' = [work EXCEPT ![call[a].of].live = Torn]
    /\ call' = [a \in Caller |-> Idle]
    /\ lock' = None
    /\ cut' = (cut \/ lock # None)
    /\ UNCHANGED <<rows, fts, git, thread, said, allow>>

(* A rebuild reads every file; two files of one message are a duplicate    *)
(* id, which the table refuses, and the transaction is rolled back.  It    *)
(* restores a thread only if some message belongs to it.                   *)
Clash == \E m \in Message : work[m].live # None /\ work[m].trash # None

FromFiles(m) ==
    CASE work[m] = NoFiles -> None
      [] work[m].live # None -> [of |-> work[m].live, trash |-> FALSE]
      [] OTHER -> [of |-> work[m].trash, trash |-> TRUE]

Rebuild ==
    /\ "rebuild" \in allow
    /\ lock = None
    /\ ~Clash
    /\ rows' = [m \in Message |-> FromFiles(m)]
    /\ fts' = [m \in Message |-> work[m].live]
    /\ thread' = \E m \in Message : rows'[m] # None
    /\ UNCHANGED <<files, lock, call, said, cut, allow>>

CreateThread ==
    /\ ~thread
    /\ thread' = TRUE
    /\ UNCHANGED <<rows, fts, files, lock, call, said, cut, allow>>

Calls ==
    \E a \in Caller, m \in Message :
        \/ \E c \in Content : AppendMessage(a, m, c) \/ Update(a, m, c)
        \/ Trash(a, m) \/ Restore(a, m) \/ Remove(a, m) \/ UpdateLinks(a, m)

Steps ==
    \E a \in Caller :
        \/ TakeLock(a) \/ WriteFile(a) \/ MoveFile(a) \/ InsertRow(a)
        \/ ChangeRow(a) \/ IndexMessage(a) \/ Commit(a) \/ Unlink(a) \/ Fail(a)

Next == Calls \/ Steps \/ Crash \/ Rebuild \/ CreateThread

Spec == Init /\ [][Next]_vars

-----------------------------------------------------------------------------
(* While no call is in progress and none has been cut short, a rebuild     *)
(* would find every row as it is, what is committed is what the files say, *)
(* and a search finds the live messages by their content.  Calls may       *)
(* overlap, or messages may be edited and removed; the two together, edits *)
(* of trashed messages and removals of live ones are the exceptions of this*)
(* code, as is the full-text entry of an edited message.                   *)
MessagesMirror ==
    (/\ \A a \in Caller : call[a].op = "none"
     /\ ~cut
     /\ "overlap" \in allow => allow \cap {"update", "remove"} = {}
     /\ allow \cap {"trashed", "removeLive"} = {}) =>
        /\ ~Clash
        /\ rows = [m \in Message |-> FromFiles(m)]
        /\ head = work
        /\ "update" \notin allow =>
              \A m \in Message : rows[m] # None => fts[m] = work[m].live

(* A message whose caller was told that it is stored has a file with its   *)
(* content, live or trashed, until a removal deletes its row, whatever     *)
(* calls overlap, fail or die: only an edit of the message itself puts it  *)
(* at risk, and a failing append of the same id.                           *)
MessageKept ==
    (/\ "update" \notin allow
     /\ "reuse" \in allow => allow \cap {"fail", "crash"} = {}) =>
        \A m \in Message :
            said[m] # None => said[m].of \in {work[m].live, work[m].trash}
=============================================================================
