---------------------------- MODULE MCLifecycle -----------------------------
(* Lifecycle with at most two startup parameters and two interfaces. *)
EXTENDS Lifecycle

MCArgLists == UNION {[1 .. n -> Args] : n \in 0 .. 2}
MCTimeouts == {-1, 0, 15}
MCIfLists  == UNION {[1 .. n -> BOOLEAN] : n \in 0 .. 2}
=============================================================================
