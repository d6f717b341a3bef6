---------------------------- MODULE CardMetadata ----------------------------
(***************************************************************************)
(* The links, tags and milestones of one card.  Each is kept twice: in the *)
(* card's file (links and milestones in its front matter, tags in its      *)
(* body) and in a table.  Links and milestones are changed in their table  *)
(* first, before the lock of the repository is taken, and copied into the  *)
(* file under it; tags are edited in the body under the lock and copied    *)
(* into their table.  Every caller has a connection of its own, and every  *)
(* SQL statement outside apply_card_changes is a transaction of its own.   *)
(***************************************************************************)
EXTENDS Naturals, Sequences, FiniteSets, SequencesExt

CONSTANTS
    Link,      \* the targets of links
    Tag,
    Milestone, \* their ids
    Body,      \* the bodies that an edit may give the card
    Caller,
    None,
    Scenarios  \* sets of circumstances, one of which holds in a behaviour

Circumstance ==
    {"links", "tags", "milestones",  \* what the callers change
     "overlap",  \* a call begins while another is in progress
     "rewrite",  \* the card is moved, trashed and restored, and tables are rebuilt
     "trashed",  \* metadata of a trashed card is changed
     "fault"}    \* steps fail, and the process dies inside a call

VARIABLES
    file,    \* the live file and the trashed file
    trashed, \* deleted_at of the row
    links, tags, miles,  \* the three tables
    lock,
    call,    \* call[a]: what a has asked for and the steps it has left
    kept,    \* what the card should have by the calls that succeeded
    clean,   \* no call has ended after some of its writes only
    allow

vars == <<file, trashed, links, tags, miles, lock, call, kept, clean, allow>>
tables == <<links, tags, miles>>

Dates == {1, 2}
Ids(ms) == {m.id : m \in ms}

Init ==
    /\ file = [live |-> [body |-> <<>>, links |-> {}, miles |-> {}], trash |-> None]
    /\ trashed = FALSE
    /\ links = {} /\ tags = {} /\ miles = {}
    /\ lock = None
    /\ call = [a \in Caller |-> None]
    /\ kept = {}
    /\ clean = TRUE
    /\ allow \in Scenarios

-----------------------------------------------------------------------------
(* The body is a sequence of lines, blank ones left out.  A line has the   *)
(* tags that stand in it; a pure line has nothing else.                    *)

extract_tags(body) == UNION {ToSet(body[i].tags) : i \in DOMAIN body}

tags_on_trailing_line(body) ==
    IF body # <<>> /\ Last(body).pure THEN Last(body).tags ELSE <<>>

TagLine(ts) == IF ts = <<>> THEN <<>> ELSE <<[pure |-> TRUE, tags |-> ts]>>

upsert_trailing_tag_line(body, t) ==
    LET on == tags_on_trailing_line(body) IN
    CASE on = <<>> -> body \o TagLine(<<t>>)
      [] t \in ToSet(on) -> body
      [] OTHER -> Front(body) \o TagLine(Append(on, t))

(* Only the first occurrence goes; with the last tag the line goes too.    *)
remove_from_trailing_tag_line(body, t) ==
    LET on == tags_on_trailing_line(body) IN
    IF t \in ToSet(on) THEN Front(body) \o TagLine(RemoveFirst(on, t)) ELSE body

-----------------------------------------------------------------------------
(* How a call begins: what it does before it asks for the lock             *)

Busy(a) == call[a] # None
Quiet == \A a \in Caller : ~Busy(a)

Redates == {"milestone", "unmilestone", "redate"}
Rewrites == {"move", "trash", "restore"}

Begin(a, op, of, list, todo) ==
    /\ ~Busy(a)
    /\ "overlap" \in allow \/ Quiet
    /\ call' = [call EXCEPT ![a] =
         [op |-> op, of |-> of, list |-> list, todo |-> todo,
          wrote |-> op \in {"link", "unlink"}]]
    /\ UNCHANGED <<file, trashed, tags, miles, lock, clean, allow>>

Editable(topic) == topic \in allow /\ (trashed => "trashed" \in allow)

LinkAdd(a, l) ==
    /\ Editable("links")
    /\ Begin(a, "link", l, {}, <<"lock", "links", "commit">>)
    /\ links' = links \cup {l}
    /\ kept' = kept \cup {l}

LinkRemove(a, l) ==
    /\ Editable("links")
    /\ Begin(a, "unlink", l, {}, <<"lock", "links", "commit">>)
    /\ links' = links \ {l}
    /\ kept' = kept \ {l}

(* The whole set of milestones is read, changed and replaced; the id of a  *)
(* new one is new.                                                         *)
MilestoneAdd(a, m) ==
    /\ Editable("milestones")
    /\ m \notin Ids(miles) \cup kept
    /\ \A b \in Caller : Busy(b) /\ call[b].op \in Redates => m \notin Ids(call[b].list)
    /\ \A side \in DOMAIN file : file[side] # None => m \notin Ids(file[side].miles)
    /\ Begin(a, "milestone", m, miles \cup {[id |-> m, date |-> 1]},
             <<"delete", "insert", "lock", "milestones", "commit">>)
    /\ kept' = kept \cup {m}
    /\ UNCHANGED links

MilestoneRemove(a, m) ==
    /\ Editable("milestones")
    /\ m \in Ids(miles)
    /\ Begin(a, "unmilestone", m, {n \in miles : n.id # m},
             <<"delete", "insert", "lock", "milestones", "commit">>)
    /\ kept' = kept \ {m}
    /\ UNCHANGED links

(* update_milestone refuses a trashed card, takes the lock first, and      *)
(* writes the list that it read before.                                    *)
UpdateMilestone(a, m, date) ==
    /\ "milestones" \in allow
    /\ ~trashed
    /\ m \in Ids(miles)
    /\ [id |-> m, date |-> date] \notin miles
    /\ Begin(a, "redate", m, {n \in miles : n.id # m} \cup {[id |-> m, date |-> date]},
             <<"lock", "list", "delete", "insert", "commit">>)
    /\ UNCHANGED <<links, kept>>

(* update_content, add_tag and remove_tag                                  *)
EditBody(a, op, of) ==
    /\ Editable("tags")
    /\ Begin(a, op, of, {}, <<"lock", "body", "untag", "tag", "commit">>)
    /\ UNCHANGED <<links, kept>>

(* move_to or a re-spacing, trash, restore                                 *)
Rewrite(a, op) ==
    /\ "rewrite" \in allow
    /\ trashed <=> op = "restore"
    /\ Begin(a, op, None, {}, <<"lock", "read", "apply">>)
    /\ UNCHANGED <<links, kept>>

-----------------------------------------------------------------------------
(* The steps of a call                                                     *)

Doing(a, step) == Busy(a) /\ Head(call[a].todo) = step

Goes(a, wrote) ==
    call' = [call EXCEPT ![a].todo = Tail(@), ![a].wrote = @ \/ wrote]

Returns(a) ==
    /\ call' = [call EXCEPT ![a] = None]
    /\ lock' = IF lock = a THEN None ELSE lock

Throws(a) ==
    /\ Returns(a)
    /\ kept' = kept \ {call[a].of}
    /\ clean' = (clean /\ ~call[a].wrote)

(* apply_card_changes re-reads the row and refuses an occupied path; the   *)
(* other calls look for the live file only, and an edit for none.          *)
MayGo(a) ==
    CASE call[a].op \in {"edit", "add", "remove"} -> TRUE
      [] call[a].op = "restore" -> trashed /\ file.trash # None /\ file.live = None
      [] call[a].op = "trash" -> ~trashed /\ file.live # None /\ file.trash = None
      [] call[a].op = "move" -> ~trashed /\ file.live # None
      [] OTHER -> file.live # None

TakeLock(a) ==
    /\ Doing(a, "lock")
    /\ lock = None
    /\ IF MayGo(a) THEN lock' = a /\ Goes(a, FALSE) /\ UNCHANGED <<kept, clean>>
                   ELSE Throws(a)
    /\ UNCHANGED <<file, trashed, tables, allow>>

\* Mutant: the links are read before the lock is taken.
UpdateLinksEarly(a) ==
    \/ /\ Doing(a, "lock")
       /\ call[a].op \in {"link", "unlink"} /\ call[a].list = {}
       /\ call' = [call EXCEPT ![a].list = links \cup {None}]
       /\ UNCHANGED <<file, trashed, tables, lock, kept, clean, allow>>
    \/ /\ Doing(a, "links")
       /\ file' = [file EXCEPT !.live.links =
                     IF call[a].list = {} THEN links ELSE call[a].list \ {None}]
       /\ Goes(a, TRUE)
       /\ UNCHANGED <<trashed, tables, lock, kept, clean, allow>>

UpdateLinks(a) ==
    /\ Doing(a, "links")
    /\ file' = [file EXCEPT !.live.links = links]
    /\ Goes(a, TRUE)
    /\ UNCHANGED <<trashed, tables, lock, kept, clean, allow>>

UpdateMilestones(a) ==
    /\ Doing(a, "milestones")
    /\ file' = [file EXCEPT !.live.miles = miles]
    /\ Goes(a, TRUE)
    /\ UNCHANGED <<trashed, tables, lock, kept, clean, allow>>

WriteList(a) ==
    /\ Doing(a, "list")
    /\ file' = [file EXCEPT !.live.miles = call[a].list]
    /\ Goes(a, TRUE)
    /\ UNCHANGED <<trashed, tables, lock, kept, clean, allow>>

(* replace_for_card: one statement deletes, one each inserts.              *)
DeleteMilestones(a) ==
    /\ Doing(a, "delete")
    /\ miles' = {}
    /\ Goes(a, TRUE)
    /\ UNCHANGED <<file, trashed, links, tags, lock, kept, clean, allow>>

InsertMilestone(a) ==
    /\ Doing(a, "insert")
    /\ IF call[a].list = {}
       THEN Goes(a, FALSE) /\ UNCHANGED <<miles, lock, kept, clean>>
       ELSE \E m \in call[a].list :
              IF m.id \in Ids(miles)
              THEN Throws(a) /\ UNCHANGED miles
              ELSE /\ miles' = miles \cup {m}
                   /\ call' = [call EXCEPT ![a].list = @ \ {m}]
                   /\ UNCHANGED <<lock, kept, clean>>
    /\ UNCHANGED <<file, trashed, links, tags, allow>>

(* What update_content is given: by its caller, or by add_tag and          *)
(* remove_tag from the body that they read under the lock.                 *)
card_content == IF file.live = None THEN <<>> ELSE file.live.body

NewBody(a) ==
    CASE call[a].op = "edit" -> call[a].of
      [] call[a].op = "add" /\ call[a].of \in extract_tags(card_content) -> card_content
      [] call[a].op = "add" -> upsert_trailing_tag_line(card_content, call[a].of)
      [] call[a].op = "remove" -> remove_from_trailing_tag_line(card_content, call[a].of)

Wanted(a) ==
    CASE call[a].op = "edit" -> (kept \ Tag) \cup extract_tags(call[a].of)
      [] call[a].op = "add" -> kept \cup {call[a].of}
      [] call[a].op = "remove" -> kept \ {call[a].of}

\* Mutant: the milestones in the file are not carried over.
WriteBodyForgets(a) ==
    LET body == NewBody(a) IN
    /\ Doing(a, "body")
    /\ kept' = Wanted(a)
    /\ file' = [file EXCEPT !.live = [body |-> body, links |-> links, miles |-> {}]]
    /\ Goes(a, TRUE)
    /\ UNCHANGED <<trashed, tables, lock, clean, allow>>

(* An edit of a card without a live file makes one; what add_tag and       *)
(* remove_tag find settled they leave.                                     *)
WriteBody(a) ==
    LET body == NewBody(a) IN
    /\ Doing(a, "body")
    /\ kept' = Wanted(a)
    /\ IF call[a].op # "edit" /\ body = card_content
       THEN Returns(a) /\ UNCHANGED file
       ELSE /\ file' = [file EXCEPT !.live =
                 IF body = card_content /\ @ # None THEN @
                 ELSE [body |-> body, links |-> links,
                       miles |-> IF @ = None THEN {} ELSE @.miles]]
            /\ Goes(a, TRUE)
            /\ UNCHANGED lock
    /\ UNCHANGED <<trashed, tables, clean, allow>>

(* set_tags_for_card, with the tags of the body just written               *)
SetTags(a) ==
    /\ \/ Doing(a, "untag") /\ tags' = {}
       \/ Doing(a, "tag") /\ tags' = extract_tags(file.live.body)
    /\ Goes(a, TRUE)
    /\ UNCHANGED <<file, trashed, links, miles, lock, kept, clean, allow>>

(* A change of the whole card writes the links that it read from the table *)
(* and the milestones and the body of the file, to the file and to the     *)
(* tables; CardMutation makes it one step.                                 *)
ReadLinks(a) ==
    /\ Doing(a, "read")
    /\ call' = [call EXCEPT ![a].list = links, ![a].todo = Tail(@)]
    /\ UNCHANGED <<file, trashed, tables, lock, kept, clean, allow>>

ApplyCardChanges(a) ==
    LET record == [(IF trashed THEN file.trash ELSE file.live)
                      EXCEPT !.links = call[a].list]
        into == IF call[a].op = "trash" THEN "trash" ELSE "live"
    IN  /\ Doing(a, "apply")
        /\ file' = [file EXCEPT
             ![IF trashed THEN "trash" ELSE "live"] = None, ![into] = record]
        /\ trashed' = (into = "trash")
        /\ links' = record.links
        /\ tags' = IF trashed' THEN {} ELSE extract_tags(record.body)
        /\ miles' = IF trashed' THEN {} ELSE record.miles
        /\ Returns(a)
        /\ UNCHANGED <<kept, clean, allow>>

Commit(a) ==
    /\ Doing(a, "commit")
    /\ Returns(a)
    /\ UNCHANGED <<file, trashed, tables, kept, clean, allow>>

-----------------------------------------------------------------------------
(* Faults and the rebuild                                                  *)

Fail(a) ==
    /\ "fault" \in allow
    /\ Busy(a)
    /\ Throws(a)
    /\ UNCHANGED <<file, trashed, tables, allow>>

Crash ==
    /\ "fault" \in allow
    /\ ~Quiet
    /\ call' = [a \in Caller |-> None]
    /\ lock' = None
    /\ kept' = kept \ {call[a].of : a \in {b \in Caller : Busy(b)}}
    /\ clean' = (clean /\ \A a \in Caller : Busy(a) => ~call[a].wrote)
    /\ UNCHANGED <<file, trashed, tables, allow>>

(* Two files of one card are a duplicate id, which the table refuses.      *)
Rebuild ==
    /\ "rewrite" \in allow
    /\ "overlap" \in allow \/ Quiet
    /\ lock = None
    /\ file.live = None \/ file.trash = None
    /\ trashed' = (file.live = None)
    /\ links' = IF trashed' THEN file.trash.links ELSE file.live.links
    /\ tags' = IF trashed' THEN {} ELSE extract_tags(file.live.body)
    /\ miles' = IF trashed' THEN {} ELSE file.live.miles
    /\ clean' = (clean \/ Quiet)
    /\ UNCHANGED <<file, lock, call, kept, allow>>

Calls ==
    \E a \in Caller :
        \/ \E l \in Link : LinkAdd(a, l) \/ LinkRemove(a, l)
        \/ \E m \in Milestone : MilestoneAdd(a, m) \/ MilestoneRemove(a, m)
        \/ \E m \in Milestone, date \in Dates : UpdateMilestone(a, m, date)
        \/ \E t \in Tag : EditBody(a, "add", t) \/ EditBody(a, "remove", t)
        \/ \E body \in Body : EditBody(a, "edit", body)
        \/ \E op \in Rewrites : Rewrite(a, op)

Steps ==
    \E a \in Caller :
        \/ TakeLock(a) \/ UpdateLinks(a) \/ UpdateMilestones(a) \/ WriteList(a)
        \/ DeleteMilestones(a) \/ InsertMilestone(a) \/ WriteBody(a) \/ SetTags(a)
        \/ ReadLinks(a) \/ ApplyCardChanges(a) \/ Commit(a) \/ Fail(a)

Next == Calls \/ Steps \/ Crash \/ Rebuild

Spec == Init /\ [][Next]_vars

-----------------------------------------------------------------------------
(* Two ways to a card with two files, or to tables and files without a     *)
(* link that was just added: to edit the body of a card in the trash, and  *)
(* to move, trash, restore or rebuild while another call is in progress.   *)
Regular ==
    \A hazard \in {{"trashed", "tags"}, {"overlap", "rewrite"}} : ~(hazard \subseteq allow)

(* Links and milestones are in their tables before the lock is taken, and  *)
(* milestones are replaced by several statements, but when all calls have  *)
(* returned and none has failed half-way, the tables say what the file     *)
(* says, in whatever order the calls overlapped: a card in the trash has   *)
(* its links in the table and neither tags nor milestones.                 *)
MetadataMirrors ==
    Regular /\ Quiet /\ clean =>
        IF trashed
        THEN /\ file.live = None
             /\ links = file.trash.links /\ tags = {} /\ miles = {}
        ELSE /\ file.trash = None
             /\ links = file.live.links
             /\ tags = extract_tags(file.live.body)
             /\ miles = file.live.miles

(* Whatever calls overlap, fail or die, a link or a tag that a call has    *)
(* reported as added stays in the file of the card until another call      *)
(* removes it or an edit replaces the body; so does a milestone as long as *)
(* calls neither overlap nor fail, since a change of one milestone writes  *)
(* all of them as it read them.                                            *)
MetadataKept ==
    LET f == IF trashed THEN file.trash ELSE file.live IN
    Regular =>
        \A x \in kept :
            \/ \E a \in Caller : Busy(a) /\ call[a].of = x
            \/ x \in Milestone /\ allow \cap {"overlap", "fault"} # {}
            \/ x \in f.links \cup extract_tags(f.body) \cup Ids(f.miles)
=============================================================================
