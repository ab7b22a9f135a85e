------------------------------ MODULE NetList -------------------------------
(***************************************************************************)
(* The networks of the repository, from the request to the last free():    *)
(* net_get_networks(), network_info_entry_add(), network_info_final() and  *)
(* net_checkupdate() of net/netops.c, menu_entries_load_networks() of      *)
(* gui/menu.c, and what cnode_init_instance() and menu_init_all_menus() do *)
(* with their results.  Requests are those of CurlRequest.                 *)
(*                                                                         *)
(* A reply is reduced to what the reader tells apart, see NetRepo: where   *)
(* it has newlines, whether all else are allowed characters, and, for the  *)
(* file that names the current version, that version (of more than five    *)
(* digits the first five, which the buffer has room for).  It ends at its  *)
(* first NUL and fits in the buffer of BUFSIZ characters.                  *)
(***************************************************************************)
EXTENDS Integers, Sequences, Data

CONSTANTS
  Replies,           \* what the repository may send
  Releases,          \* what the file with the current version may hold
  Timeouts,          \* values of the TIMEOUT option
  NETWORK_NAME_MAX,  \* room for a name and its terminator
  Faults             \* may an allocation fail?

Invalid == 0                 \* not 'X' and a number
CNODE_BUILD_VERSION == 7111
VersionSize == 6             \* 'X', four digits, and what follows them

Reply == [len : Nat, nl : SUBSET (Nat \ {0}), clean : BOOLEAN, version : Nat]

ASSUME RepliesAssumption ==
  /\ Replies \subseteq Reply /\ Releases \subseteq Reply
  /\ \A r \in Replies : r.nl \subseteq 1 .. r.len
ASSUME TimeoutsAssumption == Timeouts \subseteq Int
ASSUME NameMaxAssumption  == NETWORK_NAME_MAX \in Nat /\ NETWORK_NAME_MAX > 2
ASSUME FaultsAssumption   == Faults \in BOOLEAN

VARIABLES
  pc,         \* the place in the program
  page,       \* what the repository sends to this run
  status,     \* nodecfg.netrepo_status
  pos,        \* characters of curl_netlist read
  buffer_len, \* the text of curl_netlist
  num,        \* num_networks
  list,       \* nodecfg.network_info: sequence of [name, id]
  longest,    \* nodecfg.longest_net_entry
  n_networks, \* nodecfg.n_networks
  entries,    \* menu_networks.menu_entries, positions of list
  lost,       \* history: an allocation for the list failed
  msg,        \* what the menu says about updates
  rq, max, rep, size, response, got, timeout, err   \* see CurlRequest

Curl == INSTANCE CurlRequest

net   == <<status, list, longest, n_networks>>
local == <<pos, buffer_len, num, entries, lost, msg>>
curlv == <<rq, max, rep, size, response, got>>
vars  == <<pc, page, net, local, curlv, timeout, err>>

Null == [from |-> 0, to |-> 0]   \* the name strdup() could not copy

Init ==
  /\ pc = "start" /\ page \in Replies /\ timeout \in Timeouts /\ err = FALSE
  /\ status = FALSE /\ list = <<>> /\ longest = 0 /\ n_networks = 0
  /\ pos = 0 /\ buffer_len = 0 /\ num = 0 /\ entries = <<>>
  /\ lost = FALSE /\ msg = "none"
  /\ Curl!CurlInit(page)

-----------------------------------------------------------------------------
(* net_get_networks(). *)
AskNetworks ==
  /\ pc = "start" /\ pc' = "request"
  /\ Curl!Start(0, page) \/ Curl!StartFails(0, page)
  /\ UNCHANGED <<page, net, local, timeout>>

(* The request of either caller takes its course. *)
OnNetwork ==
  /\ pc \in {"request", "checking"} /\ Curl!FromNetwork
  /\ UNCHANGED <<pc, page, net, local, timeout>>

OnTimeout ==
  /\ pc \in {"request", "checking"} /\ Curl!TimedOut
  /\ UNCHANGED <<pc, page, net, local, timeout>>

Offline ==
  /\ pc = "request" /\ rq = "failed" /\ pc' = "fetched"
  /\ status' = FALSE /\ n_networks' = 0
  /\ UNCHANGED <<page, list, longest, local, curlv, timeout, err>>

Online == pc = "request" /\ rq = "ok" /\ status' = TRUE

EmptyReply ==
  /\ Online /\ got = 0 /\ pc' = "fetched"
  /\ n_networks' = 0 /\ err' = TRUE
  /\ UNCHANGED <<page, list, longest, local, curlv, timeout>>

OddCharacter ==
  /\ Online /\ got > 0 /\ ~page.clean /\ pc' = "fetched"
  /\ n_networks' = 0
  /\ UNCHANGED <<page, list, longest, local, curlv, timeout, err>>

OpenText ==
  /\ Online /\ got > 0 /\ page.clean /\ pc' = "read"
  /\ buffer_len' = got
  /\ UNCHANGED <<page, list, longest, n_networks, pos, num, entries, lost, msg>>
  /\ UNCHANGED <<curlv, timeout, err>>

OpenTextFails ==
  /\ Faults /\ Online /\ got > 0 /\ page.clean /\ pc' = "fetched"
  /\ n_networks' = 0 /\ err' = TRUE /\ lost' = TRUE
  /\ UNCHANGED <<page, list, longest, pos, buffer_len, num, entries, msg>>
  /\ UNCHANGED <<curlv, timeout>>

-----------------------------------------------------------------------------
(* fgets(): up to a newline, the end, or NETWORK_NAME_MAX - 1 characters. *)
IsPiece(p, q) ==
  /\ q \in page.nl \/ q = buffer_len \/ q - p = NETWORK_NAME_MAX - 2
  /\ \A k \in p .. q - 1 : k \notin page.nl

(* Mutant: the newline stays at the end of the name. *)
PieceWithNewline(q) == [from |-> pos + 1, to |-> q]

(* strcspn() cuts the newline off. *)
Piece(q) == [from |-> pos + 1, to |-> IF q \in page.nl THEN q - 1 ELSE q]

(* Mutant: the first name sets the width. *)
LongerOnce(slen) == IF longest = 0 THEN rtonm(slen, 8) ELSE longest

(* A piece of slen characters makes room for itself in the menu. *)
Longer(slen) == IF slen > longest THEN rtonm(longest + slen, 8) ELSE longest

Pieces == {q \in pos + 1 .. buffer_len :
             q <= pos + NETWORK_NAME_MAX - 1 /\ IsPiece(pos + 1, q)}

(* A newline, or the one character that was left. *)
SkipPiece ==
  /\ pc = "read"
  /\ \E q \in Pieces : q - pos <= 1 /\ pos' = q
  /\ UNCHANGED <<pc, page, net, buffer_len, num, entries, lost, msg>>
  /\ UNCHANGED <<curlv, timeout, err>>

(* network_info_entry_add() with what its allocations come to.  The number *)
(* is taken whether or not the entry was added.                            *)
Evaluate(q) ==
  /\ pc = "read" /\ q - pos > 1
  /\ pos' = q /\ num' = num + 1
  /\ longest' = Longer(q - pos)
  /\ UNCHANGED <<pc, page, status, n_networks, buffer_len, entries, msg>>
  /\ UNCHANGED <<curlv, timeout>>

Add ==
  /\ \E q \in Pieces :
       Evaluate(q) /\ list' = Append(list, [name |-> Piece(q), id |-> num])
  /\ UNCHANGED <<lost, err>>

AddUnnamed ==
  /\ Faults /\ \E q \in Pieces : Evaluate(q)
  /\ list' = Append(list, [name |-> Null, id |-> num])
  /\ lost' = TRUE /\ UNCHANGED err

AddFails ==
  /\ Faults /\ \E q \in Pieces : Evaluate(q)
  /\ lost' = TRUE /\ err' = TRUE /\ UNCHANGED list

Fetched ==
  /\ pc = "read" /\ pos = buffer_len /\ pc' = "fetched"
  /\ n_networks' = num
  /\ UNCHANGED <<page, status, list, longest, local, curlv, timeout, err>>

-----------------------------------------------------------------------------
(* The GUI and the other menus are set up, or the run ends before that. *)
SetUp ==
  /\ pc = "fetched" /\ pc' = "load"
  /\ UNCHANGED <<page, net, local, curlv, timeout, err>>

SetUpFails ==
  /\ pc = "fetched" /\ pc' = "final" /\ err' = TRUE
  /\ UNCHANGED <<page, net, local, curlv, timeout>>

(* menu_entries_load_networks(): an entry per turn, which shares the name. *)
Turn == pc = "load" /\ Len(entries) < Len(list)
At   == Len(entries) + 1

LoadEntry ==
  /\ Turn /\ list[At].name # Null
  /\ entries' = Append(entries, At)
  /\ UNCHANGED <<pc, page, net, pos, buffer_len, num, lost, msg>>
  /\ UNCHANGED <<curlv, timeout, err>>

(* continue, which does not advance the pointer. *)
LoadNull == Turn /\ list[At].name = Null /\ UNCHANGED vars

LoadFails ==
  /\ Faults /\ Turn /\ list[At].name # Null
  /\ pc' = "menus" /\ err' = TRUE
  /\ UNCHANGED <<page, net, local, curlv, timeout>>

Loaded ==
  /\ pc = "load" /\ ~Turn /\ pc' = "menus"
  /\ UNCHANGED <<page, net, local, curlv, timeout, err>>

-----------------------------------------------------------------------------
(* net_checkupdate() for the main menu. *)
AskVersion ==
  /\ pc = "menus" /\ pc' = "checking" /\ msg' = "none"
  /\ \E r \in Releases : Curl!Start(VersionSize, r) \/ Curl!StartFails(VersionSize, r)
  /\ UNCHANGED <<page, net, pos, buffer_len, num, entries, lost, timeout>>

(* Mutant: a failed request is not told from one that succeeded. *)
TellVersionAlways ==
  /\ pc = "checking" /\ rq \in {"ok", "failed"} /\ pc' = "menus"
  /\ msg' = IF rep.version > CNODE_BUILD_VERSION
              THEN "update available" ELSE "no updates available"
  /\ UNCHANGED <<page, net, pos, buffer_len, num, entries, lost>>
  /\ UNCHANGED <<curlv, timeout, err>>

TellVersion ==
  /\ pc = "checking" /\ rq \in {"ok", "failed"} /\ pc' = "menus"
  /\ msg' = IF rq = "ok" /\ rep.version > CNODE_BUILD_VERSION
              THEN "update available" ELSE "no updates available"
  /\ UNCHANGED <<page, net, pos, buffer_len, num, entries, lost>>
  /\ UNCHANGED <<curlv, timeout, err>>

Crash ==
  /\ pc = "checking" /\ rq = "crashed" /\ pc' = "crashed"
  /\ UNCHANGED <<page, net, local, curlv, timeout, err>>

(* Mutant: the menu is freed after the list. *)
LeaveMenusLate ==
  /\ pc = "menus" /\ pc' = "final"
  /\ UNCHANGED <<page, net, local, curlv, timeout, err>>

LeaveMenus ==
  /\ pc = "menus" /\ pc' = "final"
  /\ entries' = <<>>
  /\ UNCHANGED <<page, net, pos, buffer_len, num, lost, msg, curlv, timeout, err>>

(* network_info_final(): a turn of its loop. *)
FreeFirst ==
  /\ pc = "final" /\ list # <<>> /\ list' = Tail(list)
  /\ UNCHANGED <<pc, page, status, longest, n_networks, local, curlv, timeout, err>>

Freed ==
  /\ pc = "final" /\ list = <<>> /\ pc' = "done"
  /\ UNCHANGED <<page, net, local, curlv, timeout, err>>

Program == \/ AskNetworks \/ OnTimeout \/ Offline \/ EmptyReply \/ OddCharacter
           \/ OpenText \/ OpenTextFails
           \/ SkipPiece \/ Add \/ AddUnnamed \/ AddFails \/ Fetched
           \/ SetUp \/ SetUpFails
           \/ LoadEntry \/ LoadNull \/ LoadFails \/ Loaded
           \/ TellVersion \/ Crash \/ FreeFirst \/ Freed
Outside == OnNetwork \/ AskVersion \/ LeaveMenus

Next == Program \/ Outside

(* The program goes on; neither a server nor the user need answer. *)
Spec     == Init /\ [][Next]_vars
FairSpec == Spec /\ WF_vars(Program)

-----------------------------------------------------------------------------
Places == {"start", "request", "read", "fetched", "load", "menus", "checking",
           "final", "done", "crashed"}
Name   == [from : Nat, to : Nat]

TypeOK ==
  /\ pc \in Places /\ page \in Replies /\ rep \in Reply
  /\ status \in BOOLEAN /\ lost \in BOOLEAN
  /\ buffer_len \in 0 .. page.len /\ pos \in 0 .. buffer_len
  /\ num \in 0 .. pos /\ n_networks \in 0 .. num
  /\ longest \in Nat
  /\ list \in Seq([name : Name, id : Nat]) /\ Len(list) <= num
  /\ entries \in Seq(Nat)
  /\ msg \in {"none", "update available", "no updates available"}
  /\ Curl!CurlTypeOK

Named(net_info) == {k \in DOMAIN net_info : net_info[k].name # Null}

(* The names are parts of lines, in the order of the reply and without
   overlap, and each fits with its terminator into the buffer fgets() has
   (netops.c:160): no piece runs over a newline into the next network. *)
NamesAreLines ==
  /\ \A k \in Named(list) :
       LET name == list[k].name IN
       /\ 1 <= name.from /\ name.from <= name.to /\ name.to <= page.len
       /\ name.to - name.from + 1 < NETWORK_NAME_MAX
       /\ \A p \in name.from .. name.to : p \notin page.nl
  /\ \A k, l \in Named(list) : k < l => list[k].name.to < list[l].name.from

(* The window of the network menu is sized by longest_net_entry (menu.c:225):
   it covers each name, although it only grows when a longer one comes. *)
LongestNetCovers ==
  \A k \in Named(list) : list[k].name.to - list[k].name.from + 1 <= longest

(* The menu shares its names with the list (menu.c:181), which is freed after
   it: an entry always has a name that is allocated.  Without an error on
   record there are as many entries as networks were counted. *)
MenuMatchesList ==
  /\ \A k \in DOMAIN entries : entries[k] = k /\ k \in Named(list)
  /\ pc \in {"menus", "checking"} /\ ~err => Len(entries) = n_networks

(* An update is announced only on a complete reply that names a later version;
   a connection lost half way is not mistaken for one (netops.c:189), nor is a
   later version that arrived overlooked. *)
Newer == rq = "ok" /\ size = rep.len /\ rep.version > CNODE_BUILD_VERSION
UpdateTruthful ==
  /\ msg = "update available" => Newer
  /\ msg = "no updates available" => ~Newer

(* Pieces and turns hidden, the fetch is one step: all networks or none. *)
Asking == pc \in {"start", "request", "read"}
Repo == INSTANCE NetRepo WITH
  phase    <- IF Asking THEN "asking" ELSE "known",
  online   <- ~Asking /\ status,
  networks <- IF Asking THEN <<>> ELSE list,
  count    <- IF Asking THEN 0 ELSE n_networks,
  lost     <- ~Asking /\ lost

(* The program knows all networks of a complete reply, in order and counted,
   or none; a part of them only after an allocation failed (netops.h:30). *)
RepoImplemented == Repo!Spec

(* The start reaches the menus, or the run ends, and a check for updates comes
   back.  Only a silent server without a timeout holds it, and a network
   without a name, on which menu_entries_load_networks() never moves on. *)
Silent   == pc \in {"request", "checking"} /\ timeout <= 0
Nameless == Turn /\ list[At].name = Null
FetchEnds ==
  /\ pc = "start" ~> pc \in {"menus", "done", "crashed"} \/ Silent \/ Nameless
  /\ pc = "checking" ~> pc # "checking" \/ Silent
=============================================================================
