-------------------------------- MODULE Lists --------------------------------
(***************************************************************************)
(* Parts of a list: what a loop that appends some of its items builds.     *)
(***************************************************************************)
EXTENDS Naturals, Sequences, FiniteSets

\* The items of a list at some places, in the order of the list.
ItemsAt(list, places) ==
  LET place(j) == CHOOSE i \in places : Cardinality(places \cap 1 .. i) = j
  IN  [j \in 1 .. Cardinality(places) |-> list[place(j)]]

\* Of some places the first, as many as the limit allows.
firstPlacesOf(places, limit) == {i \in places : Cardinality(places \cap 1 .. i) <= limit}
=============================================================================
