------------------------------ MODULE MCNetIfs ------------------------------
(* NetIfs with at most three interfaces. *)
EXTENDS NetIfs

MCIfLists == UNION {[1 .. n -> BOOLEAN] : n \in 0 .. 3}
=============================================================================
