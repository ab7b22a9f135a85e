----------------------------- MODULE MCUuidFile -----------------------------
(***************************************************************************)
(* UuidFile with two UUIDs more than instances, so that one held nowhere   *)
(* is always left.                                                         *)
(***************************************************************************)
EXTENDS UuidFile

CONSTANTS p1, p2, u1, u2, u3, u4

OneProc   == {p1}
TwoProcs  == {p1, p2}
FourUuids == {u1, u2, u3, u4}
=============================================================================
