----------------------------- MODULE MCActions -----------------------------
(***************************************************************************)
(* Actions for TLC: a space of two terminals, one elsewhere that may have  *)
(* started one of them, and two requests.                                  *)
(***************************************************************************)
EXTENDS Actions, TLC

CONSTANTS a, b, h

MCBegun == {Terminals, Terminals \ {b}}

MCHomeOrder == <<a, b>>

\* Nobody; a started h, which started b, and both die with it; a and b name each
\* other.
MCFamilies ==
    {[parent |-> [t \in Terminals |-> None], dies |-> {}],
     [parent |-> [t \in Terminals |-> CASE t = b -> h [] t = h -> a [] OTHER -> None], dies |-> {b}],
     [parent |-> [t \in Terminals |-> CASE t = b -> a [] t = a -> b [] OTHER -> None], dies |-> {b}]}

MCSymmetry == Permutations(Requests)

=============================================================================
