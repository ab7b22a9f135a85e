---------------------------- MODULE MCNodeConfig ----------------------------
(***************************************************************************)
(* NodeConfig on small files: the default file with one or two lines       *)
(* damaged, misplaced, repeated, dropped or added.                         *)
(***************************************************************************)
EXTENDS NodeConfig, SequencesExt

(* Named by their length; MCStrLen gives it.  The first three are the      *)
(* defaults, s8 fills its multiple of 8, the longer ones pass the limits   *)
(* of one, two and all three options.                                      *)
MCStrings == {"tun0", "NULL", "centralnode.xyz", "ERROR",
              "", "s8", "s16", "s65", "s97"}
MCStrLen ==
  [s \in MCStrings |->
     CASE s \in {"tun0", "NULL"} -> 4 [] s = "centralnode.xyz" -> 15
       [] s = "ERROR" -> 5 [] s = "" -> 0 [] s = "s8" -> 8
       [] s = "s16" -> 16 [] s = "s65" -> 65 [] OTHER -> 97]

(* An unsigned long of 9 bits: 511 is ULONG_MAX, 256 is LONG_MAX + 1. *)
MCULongSize == 512
MCNumbers == {0, 1, 2, 4, 5, 15, 255, 256, 511}

Set1(k, ln) == [DefaultFile EXCEPT ![k] = ln]
Set2(k, ln, l, ml) == [DefaultFile EXCEPT ![k] = ln, ![l] = ml]
Bad(kind, e) == [kind |-> kind, id |-> e, num |-> 0, str |-> "NULL"]

OneNumber == {Set1(e + 1, NumLine(e, n)) : e \in NumIds, n \in MCNumbers}
OneString == {Set1(e + 1, StrLine(e, s)) : e \in StrIds, s \in MCStrings}
OneBad    == {Set1(e + 1, Bad(k, e)) : e \in {1, 6, 7, 8, 9, 10},
                k \in {"blank", "unknown", "badnumber", "onequote", "noquote"}}
TwoStrings == {Set2(9, StrLine(8, s), 11, StrLine(10, t)) :
                 s \in {"", "s8", "s16"}, t \in {"", "s8", "NULL"}}
Swapped   == {Set2(k, DefaultFile[l], l, DefaultFile[k]) :
                 k \in {1, 7, 9}, l \in {4, 8, 10, 11}}
Repeated  == {Set1(k, DefaultFile[l]) : k \in {1, 8, 10}, l \in {4, 7, 9, 11}}
           \cup {Set2(1, NumLine(6, 0), 2, NumLine(6, n)) : n \in {1, 2}}
           \cup {Set2(1, StrLine(9, "s8"), 2, StrLine(9, "s97"))}
BlankAdded == {InsertAt(DefaultFile, k, BlankLine) : k \in {1, 9, 12}}
WrongCount == {<<>>, <<BlankLine>>, <<DefaultFile[1]>>,
               RemoveAt(DefaultFile, 11), Append(DefaultFile, DefaultFile[8])}

MCFiles == UNION {OneNumber, OneString, OneBad, TwoStrings, Swapped,
                  Repeated, BlankAdded, WrongCount}
=============================================================================
