------------------------------ MODULE UuidStore ------------------------------
(***************************************************************************)
(* What Central Node promises about the UUID of a machine: a UUID that is  *)
(* stored stays, whatever the program is asked to do; only the             *)
(* administrator removes it (cnode.c:263-269).  removals tells the two     *)
(* apart: it flips with each removal by the administrator.                 *)
(***************************************************************************)
EXTENDS Integers

CONSTANTS Uuids, None

VARIABLES uuid, removals   \* uuid is None when none is stored

vars == <<uuid, removals>>

Init == uuid = None /\ removals = 0

Generate == uuid = None /\ uuid' \in Uuids /\ UNCHANGED removals
Remove   == uuid' = None /\ removals' = 1 - removals

Next == Generate \/ Remove

Spec == Init /\ [][Next]_vars
=============================================================================
