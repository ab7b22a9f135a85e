------------------------------- MODULE MCMenu -------------------------------
(***************************************************************************)
(* Menu with an empty, a one-entry and a longer network list, and the sets *)
(* of calls that fail in the runs.                                         *)
(***************************************************************************)
EXTENDS Menu

MCNetCounts == {0, 1, 3}

AllCalls    == Calls
OnlyNewMenu == {"new_menu", "post_menu"}
=============================================================================
