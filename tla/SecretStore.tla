---------------------------- MODULE SecretStore ----------------------------
(***************************************************************************)
(* The store of provider credentials: a backend that holds the secrets and *)
(* an index file that holds what may be shown of them.  The backend is the *)
(* keyring of the platform, or an encrypted file with a master key in a    *)
(* file of its own where there is no keyring.                              *)
(*                                                                         *)
(* Files are replaced by renaming a finished temporary (the index) or are  *)
(* truncated and written in place (the master key and the secrets), and    *)
(* the process may die at any step of a call.  A value stands for a secret *)
(* and for the preview of it in the index.                                 *)
(***************************************************************************)
EXTENDS Naturals, Sequences

CONSTANTS
    Account,
    Value,
    None,   \* no entry
    Torn,   \* a file that was truncated and not written
    Absent  \* a file that does not exist

VARIABLES
    backend, \* "keyring" or "file"
    index,   \* the entries of the index file
    secrets, \* the entries of the backend; for a file, Absent or Torn too
    key,     \* the master key: Absent, Torn or "whole"
    rows,    \* the credential rows of the database
    call,    \* the call in progress and the steps it has left
    kept,    \* kept[a]: what was last acknowledged for a; "any" after a
             \* call for a that did not end
    current, \* the rows were recovered, and nothing has changed since
    mayCrash

vars == <<backend, index, secrets, key, rows, call, kept, current, mayCrash>>

Nothing == [a \in Account |-> None]
Entries == [Account -> Value \cup {None}]

NoCall == [account |-> None, value |-> None, read |-> Nothing, todo |-> <<>>]
Step == Head(call.todo)
Go(with) == call' = [with EXCEPT !.todo = Tail(@)]
Idle == call = NoCall

Init ==
    /\ backend \in {"keyring", "file"}
    /\ index = Nothing
    /\ secrets = IF backend = "file" THEN Absent ELSE Nothing
    /\ key = Absent
    /\ rows = Nothing
    /\ call = NoCall
    /\ kept = Nothing
    /\ current = FALSE
    /\ mayCrash \in BOOLEAN

Throws == call' = NoCall /\ kept' = [kept EXCEPT ![call.account] = "any"]

-----------------------------------------------------------------------------

Plan == (IF backend = "file" THEN <<"load", "key", "truncate", "write">> ELSE <<"keyring">>)
        \o <<"read", "replace", "return">>

\* set(account, secret), and remove(account) with None for the secret.
Change(a, v) ==
    /\ Idle
    /\ call' = [NoCall EXCEPT !.account = a, !.value = v, !.todo = Plan]
    /\ kept' = [kept EXCEPT ![a] = "any"]
    /\ current' = FALSE
    /\ UNCHANGED <<backend, index, secrets, key, rows, mayCrash>>

StoreInKeyring ==
    /\ Step = "keyring"
    /\ secrets' = [secrets EXCEPT ![call.account] = call.value]
    /\ Go(call)
    /\ UNCHANGED <<backend, index, key, rows, kept, current, mayCrash>>

\* The file cannot be decrypted when it was truncated, or when the key was.
LoadMap ==
    /\ Step = "load"
    /\ IF secrets = Torn \/ (secrets # Absent /\ key = Torn)
         THEN Throws
         ELSE /\ Go([call EXCEPT !.read = IF secrets = Absent THEN Nothing ELSE secrets])
              /\ UNCHANGED kept
    /\ UNCHANGED <<backend, index, secrets, key, rows, current, mayCrash>>

\* A missing key is created: the file is truncated, then written.
LoadOrCreateMasterKey ==
    /\ Step = "key"
    /\ CASE key = Absent -> /\ key' = Torn
                            /\ call' = [call EXCEPT !.todo = <<"create">> \o Tail(@)]
                            /\ UNCHANGED kept
         [] key = Torn -> Throws /\ UNCHANGED key
         [] OTHER -> Go(call) /\ UNCHANGED <<key, kept>>
    /\ UNCHANGED <<backend, index, secrets, rows, current, mayCrash>>

WriteKey ==
    /\ Step = "create"
    /\ key' = "whole"
    /\ Go(call)
    /\ UNCHANGED <<backend, index, secrets, rows, kept, current, mayCrash>>

SaveMap ==
    /\ Step \in {"truncate", "write"}
    /\ secrets' = IF Step = "truncate" THEN Torn
                    ELSE [call.read EXCEPT ![call.account] = call.value]
    /\ Go(call)
    /\ UNCHANGED <<backend, index, key, rows, kept, current, mayCrash>>

\* An index that does not parse makes the call throw.
ReadIndex ==
    /\ Step = "read"
    /\ IF index = Torn THEN Throws ELSE Go([call EXCEPT !.read = index]) /\ UNCHANGED kept
    /\ UNCHANGED <<backend, index, secrets, key, rows, current, mayCrash>>

\* Mutant: the index file is truncated and written in place.
WriteJsonInPlace ==
    /\ Step = "replace"
    /\ index' = IF index = Torn THEN [call.read EXCEPT ![call.account] = call.value] ELSE Torn
    /\ IF index = Torn THEN Go(call) ELSE UNCHANGED call
    /\ UNCHANGED <<backend, secrets, key, rows, kept, current, mayCrash>>

\* A temporary of its own name is written and renamed over the index.
WriteJson ==
    /\ Step = "replace"
    /\ index' = [call.read EXCEPT ![call.account] = call.value]
    /\ Go(call)
    /\ UNCHANGED <<backend, secrets, key, rows, kept, current, mayCrash>>

Return ==
    /\ Step = "return"
    /\ kept' = [kept EXCEPT ![call.account] = call.value]
    /\ call' = NoCall
    /\ UNCHANGED <<backend, index, secrets, key, rows, current, mayCrash>>

Crash ==
    /\ mayCrash
    /\ ~Idle
    /\ call' = NoCall
    /\ UNCHANGED <<backend, index, secrets, key, rows, kept, current, mayCrash>>

\* The database is lost: its rows do not survive a rebuild.
LoseRows ==
    /\ Idle
    /\ rows' = Nothing
    /\ current' = FALSE
    /\ UNCHANGED <<backend, index, secrets, key, call, kept, mayCrash>>

\* Every listed credential gets its row; no row is removed.
RecoverCredentials ==
    /\ Idle
    /\ index # Torn
    /\ rows' = [a \in Account |-> IF index[a] # None THEN index[a] ELSE rows[a]]
    /\ current' = TRUE
    /\ UNCHANGED <<backend, index, secrets, key, call, kept, mayCrash>>

Calls == \E a \in Account, v \in Value \cup {None} : Change(a, v)
Steps == /\ call.todo # <<>>
         /\ StoreInKeyring \/ LoadMap \/ LoadOrCreateMasterKey \/ WriteKey \/ SaveMap
            \/ ReadIndex \/ WriteJson \/ Return

Next == Calls \/ Steps \/ Crash \/ LoseRows \/ RecoverCredentials

Spec == Init /\ [][Next]_vars

-----------------------------------------------------------------------------

\* get(account): the index is asked first.
Get(a) ==
    CASE index = Torn -> Torn
      [] index[a] = None -> None
      [] secrets = Absent -> None
      [] secrets = Torn \/ (backend = "file" /\ key # "whole") -> Torn
      [] OTHER -> secrets[a]

\* What was acknowledged for an account is what get returns, whatever call
\* for another account was cut short at whatever step; and recovery gives it
\* its credential row back.  With the file in place of the keyring this needs
\* that no call is cut short, and then holds between calls.
AcknowledgedKept ==
    ((backend = "keyring" \/ ~mayCrash) /\ (backend = "keyring" \/ Idle)) =>
        \A a \in Account : kept[a] # "any" =>
            /\ Get(a) = kept[a]
            /\ current /\ kept[a] # None => rows[a] = kept[a]
=============================================================================
