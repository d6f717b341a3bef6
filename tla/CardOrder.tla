----------------------------- MODULE CardOrder -----------------------------
(***************************************************************************)
(* The order of the cards under one parent.  A card has a sort key, and a  *)
(* listing sorts by it; ties go to the card changed last, then to its      *)
(* title and id.  A placement gives the card a key between those of its    *)
(* neighbours, and re-spaces as few of them as it must when there is none. *)
(*                                                                         *)
(* A key is a double.  Here it is one of finitely many evenly spaced       *)
(* numbers: 1.0 is Unit of them, so that a gap can be used up, and beyond  *)
(* MaxKey adding 1.0 has no effect, so that there is no room at an end.    *)
(* Cards are numbers, which stand for the titles and ids that break ties.  *)
(***************************************************************************)
EXTENDS CardHierarchy, Integers, Sequences, SequencesExt

CONSTANTS
    None,
    Unit, MaxKey,
    Given,     \* keys that a caller may ask for
    MaxTime,
    Holders,   \* the cards that get children
    Scenarios  \* sets of circumstances, one of which holds in a behaviour

Circumstance == {"given"}  \* create and move are called with a key

VARIABLES
    rows,  \* rows[c]: parent, if trashed, sort key and time of the last change
    now,
    shown, \* shown[p]: the order that the calls so far have asked for under p
    allow

vars == <<rows, now, shown, allow>>

Init ==
    /\ rows = [c \in {} |-> {}]
    /\ now = 0
    /\ shown = [p \in Parent |-> <<>>]
    /\ allow \in Scenarios

-----------------------------------------------------------------------------
card_tree_less(c, d, rs) ==
    \/ rs[c].key < rs[d].key
    \/ rs[c].key = rs[d].key /\ rs[c].at > rs[d].at
    \/ rs[c].key = rs[d].key /\ rs[c].at = rs[d].at /\ c < d

Siblings(p, rs) ==
    LET cards == Children(p, rs)
        before(c) == {d \in cards : card_tree_less(d, c, rs)}
    IN  [i \in 1..Cardinality(cards) |->
            CHOOSE c \in cards : Cardinality(before(c)) = i - 1]

LowerBound(list, c, rs) == Len(SelectSeq(list, LAMBDA d : card_tree_less(d, c, rs)))

Without1(list, c) == SelectSeq(list, LAMBDA d : d # c)

Inserted(list, at, block) ==
    SubSeq(list, 1, at) \o block \o SubSeq(list, at + 1, Len(list))

Rounded(x, d) == (2 * x + d) \div (2 * d)

\* Mutant: a key may repeat the one before it.
SpacedKeysLoose(left, right, n) ==
    LET from == IF left = None /\ right = None THEN 0 ELSE left
        low == IF from # None THEN from ELSE right - (n + 1) * Unit
        high == IF right # None THEN right ELSE low + (n + 1) * Unit
        keys == [i \in 0..n |-> Rounded(low * (n + 1 - i) + high * i, n + 1)]
    IN  IF \A i \in 1..n : keys[i] \in -MaxKey..MaxKey /\ keys[i - 1] <= keys[i]
        THEN [i \in 1..n |-> keys[i]] ELSE None

(* n keys strictly between two neighbours, either of which may be missing; *)
(* None when they do not fit.                                              *)
SpacedKeys(left, right, n) ==
    LET from == IF left = None /\ right = None THEN 0 ELSE left
        low == IF from # None THEN from ELSE right - (n + 1) * Unit
        high == IF right # None THEN right ELSE low + (n + 1) * Unit
        keys == [i \in 0..n |-> Rounded(low * (n + 1 - i) + high * i, n + 1)]
    IN  IF \A i \in 1..n : /\ keys[i] \in -MaxKey..MaxKey
                           /\ keys[i - 1] < keys[i] /\ keys[i] < high
        THEN [i \in 1..n |-> keys[i]] ELSE None

(* insert_block: the window around the block is widened until its keys fit *)
Radii == {0, 1, 2, 4}
InsertBlock(rs, list, at, block, p) ==
    LET all == Inserted(list, at, block)
        to(r) == IF at > r THEN at - r ELSE 0
        upto(r) == IF at + Len(block) + r < Len(all) THEN at + Len(block) + r ELSE Len(all)
        keys == [r \in Radii |->
            SpacedKeys(IF to(r) > 0 THEN rs[all[to(r)]].key ELSE None,
                       IF upto(r) < Len(all) THEN rs[all[upto(r) + 1]].key ELSE None,
                       upto(r) - to(r))]
        radius == CHOOSE r \in Radii :
            keys[r] # None /\ \A q \in Radii : keys[q] # None => r <= q
        key(c) == keys[radius][(CHOOSE i \in DOMAIN all : all[i] = c) - to(radius)]
        window == {all[i] : i \in (to(radius) + 1)..upto(radius)}
    IN  [c \in DOMAIN rs |->
            IF c \in ToSet(block)
            THEN [rs[c] EXCEPT !.parent = p, !.key = key(c), !.at = now]
            ELSE IF c \in window /\ rs[c].key # key(c)
                 THEN [rs[c] EXCEPT !.key = key(c), !.at = now]
                 ELSE rs[c]]

next_sort_key(p) ==
    IF Children(p, rows) = {} THEN 0
    ELSE Unit + (CHOOSE k \in {rows[c].key : c \in Children(p, rows)} :
                    \A c \in Children(p, rows) : rows[c].key <= k)

Orders(rs) == [p \in Parent |-> Siblings(p, rs)]

-----------------------------------------------------------------------------
Create(c, p, given) ==
    LET key == IF given = None THEN next_sort_key(p) ELSE given
        new == With(rows, At(c, [parent |-> p, trashed |-> FALSE, key |-> key, at |-> now]))
    IN
    /\ c \notin DOMAIN rows
    /\ given # None => "given" \in allow
    /\ p \in Holders \cup {Root} /\ ValidParent(c, p, rows)
    /\ key <= MaxKey
    /\ rows' = new
    /\ shown' = IF given = None THEN [shown EXCEPT ![p] = Append(@, c)] ELSE Orders(new)
    /\ UNCHANGED <<now, allow>>

(* CardStore::move, under another parent or with a given key               *)
Move(c, p, given) ==
    LET key == IF given = None THEN next_sort_key(p) ELSE given
        new == [rows EXCEPT ![c].parent = p, ![c].key = key, ![c].at = now]
    IN
    /\ c \in Live(rows)
    /\ p \in Holders \cup {Root}
    /\ IF given = None THEN p # rows[c].parent
       ELSE "given" \in allow /\ (p # rows[c].parent \/ given # rows[c].key)
    /\ ValidParent(c, p, rows)
    /\ key <= MaxKey
    /\ rows' = new
    /\ shown' = IF given # None THEN Orders(new)
                ELSE [shown EXCEPT ![rows[c].parent] = Without1(@, c), ![p] = Append(@, c)]
    /\ UNCHANGED <<now, allow>>

(* CardPlacementResolver::resolve: where the card goes, as a parent and a  *)
(* number of siblings before it; no place means that nothing moves, or     *)
(* that the call is refused.                                               *)
Others(c, p) == Without1(Siblings(p, rows), c)
Index(list, c) == CHOOSE i \in DOMAIN list : list[i] = c
Place(p, at) == [parent |-> p, at |-> at]

ByTarget(c, t, intent) ==
    LET p == rows[t].parent IN
    IF t \notin Live(rows) \ {c} THEN {}
    ELSE CASE intent = "Into" -> {Place(t, Len(Others(c, t)))}
           [] intent = "Before" -> {Place(p, Index(Others(c, p), t) - 1)}
           [] intent = "After" -> {Place(p, Index(Others(c, p), t))}

ByParent(c, p, intent) ==
    LET own == rows[c].parent
        here == Siblings(p, rows)
    IN  IF p \notin Live(rows) \cup {Root} THEN {}
        ELSE CASE intent = "ToStart" ->
                    IF Others(c, p) = <<>> /\ p = own THEN {} ELSE {Place(p, 0)}
               [] intent = "ToEnd" ->
                    IF Others(c, p) = <<>> /\ p = own THEN {}
                    ELSE {Place(p, Len(Others(c, p)))}
               [] intent = "Left" ->
                    IF p # own \/ Index(here, c) = 1 THEN {}
                    ELSE {Place(p, Index(here, c) - 2)}
               [] intent = "Right" ->
                    IF p # own \/ Index(here, c) = Len(here) THEN {}
                    ELSE {Place(p, Index(here, c))}

UpLevel(c) ==
    LET own == rows[c].parent IN
    IF own = Root THEN {}
    ELSE LET p == IF own \in Live(rows) THEN rows[own].parent ELSE Root
         IN  {Place(p, Len(Others(c, p)))}

Requests(c) ==
    UNION {ByTarget(c, t, i) : t \in DOMAIN rows, i \in {"Into", "Before", "After"}}
      \cup UNION {ByParent(c, p, i) : p \in Parent, i \in {"ToStart", "ToEnd", "Left", "Right"}}
      \cup UpLevel(c)

MoveTo(c) ==
    /\ c \in Live(rows)
    /\ \E place \in Requests(c) :
          LET p == place.parent IN
          /\ p \in Holders \cup {Root} /\ ValidParent(c, p, rows)
          /\ rows' = InsertBlock(rows, Others(c, p), place.at, <<c>>, p)
          /\ shown' = LET out == [shown EXCEPT ![rows[c].parent] = Without1(@, c)]
                      IN  [out EXCEPT ![p] = Inserted(@, place.at, <<c>>)]
    /\ UNCHANGED <<now, allow>>

(* trash promotes the children to where their parent was.                  *)
Trash(c) ==
    LET p == Reachable(c, rows)
        others == Without1(Siblings(p, rows), c)
        block == Siblings(c, rows)
        trashed == [rows EXCEPT ![c].trashed = TRUE, ![c].at = now]
    IN  /\ c \in Live(rows)
        /\ rows' = IF block = <<>> THEN trashed
                   ELSE InsertBlock(trashed, others, LowerBound(others, c, rows), block, p)
        /\ shown' = [shown EXCEPT ![c] = <<>>,
             ![p] = Inserted(Without1(@, c), Index(@, c) - 1, shown[c])]
        /\ UNCHANGED <<now, allow>>

(* restore keeps the key of the card unless another card has it now.       *)
Restore(c) ==
    LET p == Reachable(c, rows)
        back == [rows EXCEPT ![c].trashed = FALSE, ![c].parent = p, ![c].at = now]
        others == Siblings(p, rows)
        at == LowerBound(others, c, back)
    IN  /\ c \in Trashed(rows)
        /\ rows' = IF \E d \in ToSet(others) : rows[d].key = rows[c].key
                   THEN InsertBlock(back, others, at, <<c>>, p)
                   ELSE back
        /\ shown' = [shown EXCEPT ![p] = Inserted(@, at, <<c>>)]
        /\ UNCHANGED <<now, allow>>

(* An edit of the card changes updated_at and so, among ties, the order.   *)
Edit(c) ==
    LET new == [rows EXCEPT ![c].at = now] IN
    /\ c \in Live(rows)
    /\ rows' = new
    /\ shown' = Orders(new)
    /\ UNCHANGED <<now, allow>>

(* Time passes only where there may be ties.                               *)
Tick ==
    /\ "given" \in allow
    /\ now < MaxTime
    /\ now' = now + 1
    /\ UNCHANGED <<rows, shown, allow>>

Next ==
    \/ \E c \in Card, p \in Parent, given \in Given \cup {None} :
          Create(c, p, given) \/ Move(c, p, given)
    \/ \E c \in Card : MoveTo(c) \/ Trash(c) \/ Restore(c) \/ Edit(c)
    \/ Tick

Spec == Init /\ [][Next]_vars

-----------------------------------------------------------------------------
(* A card that is created, moved or restored is listed where the call put  *)
(* it, the children of a trashed card take its place in their order, and   *)
(* every other card stays where it was among its siblings, under every     *)
(* parent: also when keys are tied or a gap is used up, so that neighbours *)
(* are re-spaced.  Unless callers give keys of their own there are no      *)
(* ties, and so no edit of a card moves it.                                *)
OrderKept ==
    /\ \A p \in Live(rows) \cup {Root} : Siblings(p, rows) = shown[p]
    /\ "given" \notin allow =>
          \A c, d \in Live(rows) :
              c # d /\ rows[c].parent = rows[d].parent => rows[c].key # rows[d].key
=============================================================================
