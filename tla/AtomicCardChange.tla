--------------------------- MODULE AtomicCardChange ---------------------------
(***************************************************************************)
(* What a journalled card change promises its caller: a change that        *)
(* touches any number of cards is visible in the index as a whole or not   *)
(* at all, no other change starts before its fate is known, and what the   *)
(* user had staged in Git survives it.                                     *)
(***************************************************************************)
CONSTANT Projection  \* what the index can say about the cards of a project

VARIABLES
    cards,    \* what the index says
    pending,  \* what it will say if the running change succeeds; = cards if none
    staged    \* the user's unrelated staged work

vars == <<cards, pending, staged>>

Init == cards \in Projection /\ pending = cards

Begin  == pending = cards /\ pending' \in Projection /\ UNCHANGED <<cards, staged>>
Apply  == cards' = pending /\ UNCHANGED <<pending, staged>>
Cancel == pending' = cards /\ UNCHANGED <<cards, staged>>

Next == Begin \/ Apply \/ Cancel

Spec == Init /\ [][Next]_vars
=============================================================================
