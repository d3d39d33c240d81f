------------------------------ MODULE MCBarFeed ------------------------------
(* Instances of BarFeed: who watches what. *)
EXTENDS BarFeed, TLC

CONSTANTS a, b, x, y

\* Two runners with a symbol each, and two with the same.
Apart  == (a :> {x}) @@ (b :> {y})
Shared == [r \in Runners |-> {x}]
=============================================================================
