------------------------------ MODULE NetRepo -------------------------------
(***************************************************************************)
(* What the program promises about the networks of the repository: it      *)
(* knows all of them or none, by the names the repository gave them and    *)
(* numbered in its order.  Only when memory ran out are there fewer.       *)
(*                                                                         *)
(* A reply is [len, nl, clean, version]: its length, the positions of its  *)
(* newlines, and whether all other characters are allowed ones.  A name is *)
(* an interval of positions; a long line holds several names.              *)
(***************************************************************************)
EXTENDS Integers, Sequences, FiniteSets

CONSTANT NETWORK_NAME_MAX   \* room for a name and its terminator

VARIABLES
  page,      \* the reply of the repository
  phase,     \* "asking" or "known"
  online,    \* the repository is taken to be available
  networks,  \* sequence of [name, id]
  count,     \* the number of networks the program goes by
  lost       \* an allocation failed meanwhile

Null == [from |-> 0, to |-> 0]

(* A line is read NETWORK_NAME_MAX - 1 characters at a time, so a long one  *)
(* holds several names.  A single character with nothing behind it, not     *)
(* even a newline, is not taken for a name.                                 *)
InLineFrom(r, s, p) ==
  /\ s = 1 \/ s - 1 \in r.nl
  /\ \A i \in s .. p - 1 : i \notin r.nl

Starts(r) ==
  {p \in 1 .. r.len \ r.nl :
     /\ p < r.len
     /\ \E s \in 1 .. p, n \in 0 .. p :
          InLineFrom(r, s, p) /\ p = s + n * (NETWORK_NAME_MAX - 1)}

(* A name ends with its line, or where there is no room for more of it. *)
IsName(r, name) ==
  /\ name.from \in Starts(r)
  /\ name.to \in name.from .. r.len
  /\ \A p \in name.from .. name.to : p \notin r.nl
  /\ name.to - name.from <= NETWORK_NAME_MAX - 2
  /\ \/ name.to = r.len
     \/ name.to + 1 \in r.nl
     \/ name.to - name.from = NETWORK_NAME_MAX - 2

StartsBefore(r, p) == Cardinality({s \in Starts(r) : s < p})

IsNetwork(r, n) == IsName(r, n.name) /\ n.id = StartsBefore(r, n.name.from)

InOrder(s) == \A k, l \in DOMAIN s : k < l => s[k].id < s[l].id

-----------------------------------------------------------------------------
vars == <<page, phase, online, networks, count, lost>>

Init == /\ phase = "asking" /\ online = FALSE
        /\ networks = <<>> /\ count = 0 /\ lost = FALSE

Learn ==
  /\ phase = "asking" /\ phase' = "known"
  /\ UNCHANGED page

LearnAll ==
  /\ Learn /\ page.clean /\ online'
  /\ \A k \in DOMAIN networks' : IsNetwork(page, networks'[k])
  /\ \A p \in Starts(page) : \E k \in DOMAIN networks' : networks'[k].name.from = p
  /\ InOrder(networks') /\ count' = Len(networks')
  /\ UNCHANGED lost

(* There is no repository, its reply is no list, or there is no memory. *)
LearnNone ==
  /\ Learn /\ networks' = <<>> /\ count' = 0
  /\ online' => ~page.clean \/ lost'

(* Some entries are missing, some names are. *)
LearnPart ==
  /\ Learn /\ page.clean /\ online' /\ lost'
  /\ count' = Cardinality(Starts(page))
  /\ \A k \in DOMAIN networks' :
       /\ networks'[k].id \in 0 .. count' - 1
       /\ networks'[k].name = Null \/ IsNetwork(page, networks'[k])
  /\ InOrder(networks')

(* The program drops what it knows, from the front, when it ends. *)
Forget ==
  /\ phase = "known" /\ networks # <<>>
  /\ networks' = Tail(networks)
  /\ UNCHANGED <<page, phase, online, count, lost>>

Next == LearnAll \/ LearnNone \/ LearnPart \/ Forget

Spec == Init /\ [][Next]_vars
=============================================================================
