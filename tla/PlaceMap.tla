------------------------------ MODULE PlaceMap ------------------------------
(***************************************************************************)
(* What the cognitive map promises to those who keep an id of it or a path *)
(* along it: a map of numbered places and links between them.  A place     *)
(* keeps its number and stays where it is, numbers are given in order, a   *)
(* link disappears only with an exclusion zone that one of its ends is in, *)
(* and nothing else of the map is lost, until a saved map replaces it.     *)
(***************************************************************************)
EXTENDS Integers

CONSTANT Place

VARIABLES
    place,       \* places under their numbers
    link,        \* pairs of numbers, in no order
    barred,      \* places in exclusion zones
    restored     \* a saved map has replaced this one

abstractVars == <<place, link, barred, restored>>

Numbers == DOMAIN place
LinksJoin(numbers) == \A l \in link' : \E v, u \in numbers : l = {v, u}

Init == /\ place = [n \in {} |-> n] /\ link = {} /\ barred = {} /\ restored = FALSE

\* The map grows: new numbers follow the old ones and links are added.
Grow ==
    /\ \A n \in Numbers : n \in DOMAIN place' /\ place'[n] = place[n]
    /\ DOMAIN place' \subseteq Nat
    /\ \A n \in DOMAIN place' : 0..n \subseteq DOMAIN place'
    /\ \A n \in DOMAIN place' : place'[n] \in Place
    /\ link \subseteq link' /\ LinksJoin(DOMAIN place')
    /\ UNCHANGED <<barred, restored>>

\* A zone is closed: links of places in zones may go, and no others.
Cut ==
    /\ barred \subseteq barred'
    /\ link' \subseteq link
    /\ \A l \in link \ link' : \E n \in l : place[n] \in barred'
    /\ UNCHANGED <<place, restored>>

\* The zones are opened again, and what was cut stays cut.
Open ==
    /\ barred' = {}
    /\ UNCHANGED <<place, link, restored>>

\* A saved map takes the place of this one.
Restore ==
    /\ \A n \in DOMAIN place' : n \in Nat /\ 0..n \subseteq DOMAIN place'
    /\ LinksJoin(DOMAIN place')
    /\ restored' = TRUE /\ UNCHANGED barred

Next == Grow \/ Cut \/ Open \/ Restore

Spec == Init /\ [][Next]_abstractVars
=============================================================================
