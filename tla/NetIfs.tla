------------------------------- MODULE NetIfs -------------------------------
(***************************************************************************)
(* if_get_ifnet_names() of net/ifs.c: the table of network interfaces that *)
(* the GUI shows.  The loop asks the kernel for the address and the mask   *)
(* of each interface through if_get_ifnet_ipaddr(), which opens a socket   *)
(* per question and closes it only when the ioctl() succeeded.             *)
(***************************************************************************)
EXTENDS Integers, Sequences, Functions

CONSTANTS
  IfLists,         \* what if_nameindex() may answer: for each interface,
                   \* does it have an IPv4 address?
  NET_IFNET_NMAX,  \* entries of struct sys_ifnets
  IfFaults         \* may a call fail for an interface with an address?

VARIABLES
  ret,     \* "start", "scan", or how the function ended
  sys,     \* the interfaces of the system
  i,       \* turns of the loop
  at,      \* intf, the entry of sys the loop looks at
  listed,  \* the entries of sys in the table, if_nifs of them
  fds,     \* sockets that stay open
  err      \* nodecfg.exit_status is EXIT_FAILURE

ifvars == <<ret, sys, i, at, listed, fds>>
vars   == <<ifvars, err>>

IfInit ==
  /\ ret = "start" /\ sys = <<>> /\ i = 0 /\ at = 1
  /\ listed = <<>> /\ fds = 0

Init == IfInit /\ err = FALSE

Enumerate ==
  /\ ret = "start" /\ ret' = "scan"
  /\ sys' \in IfLists
  /\ UNCHANGED <<i, at, listed, fds, err>>

EnumerateFails ==
  /\ ret = "start" /\ ret' = "failed" /\ err' = TRUE
  /\ UNCHANGED <<sys, i, at, listed, fds>>

(* What if_get_ifnet_ipaddr() comes to: the address, or NULL from a failing *)
(* ioctl(), which leaves the socket open, or from a failing socket().      *)
Answers == IF sys[at] THEN IF IfFaults THEN {"address", "ioctl", "socket"}
                                       ELSE {"address"}
                      ELSE {"ioctl", "socket"}
Leaked(answer) == IF answer = "ioctl" THEN 1 ELSE 0

Turn == ret = "scan" /\ i < NET_IFNET_NMAX /\ at \in DOMAIN sys

(* Mutants: intf is not advanced; four questions are asked before the      *)
(* answers are looked at.                                                  *)
ListAgain ==
  /\ Turn /\ "address" \in Answers
  /\ listed' = Append(listed, at)
  /\ i' = i + 1
  /\ UNCHANGED <<ret, sys, at, fds, err>>
SkipLate ==
  /\ Turn
  /\ \E addr, mask \in Answers :
       /\ {addr, mask} # {"address"}
       /\ fds' = fds + 2 * (Leaked(addr) + Leaked(mask))
  /\ i' = i + 1 /\ err' = TRUE
  /\ UNCHANGED <<ret, sys, at, listed>>

(* Both questions are answered, and once more when the table is filled. *)
List ==
  /\ Turn /\ "address" \in Answers
  /\ listed' = Append(listed, at) /\ at' = at + 1
  /\ i' = i + 1
  /\ UNCHANGED <<ret, sys, fds, err>>

(* One of them is not: continue, which does not advance intf. *)
Skip ==
  /\ Turn
  /\ \E addr, mask \in Answers :
       /\ {addr, mask} # {"address"}
       /\ fds' = fds + Leaked(addr) + Leaked(mask)
  /\ i' = i + 1 /\ err' = TRUE
  /\ UNCHANGED <<ret, sys, at, listed>>

(* The address is gone when it is asked for again: strncpy() from NULL. *)
Vanished ==
  /\ Turn /\ "address" \in Answers
  /\ \E again \in Answers \ {"address"} : fds' = fds + Leaked(again)
  /\ ret' = "crashed" /\ err' = TRUE
  /\ UNCHANGED <<sys, i, at, listed>>

Return ==
  /\ ret = "scan" /\ ~Turn /\ ret' = "listed"
  /\ UNCHANGED <<sys, i, at, listed, fds, err>>

Next == Enumerate \/ EnumerateFails \/ List \/ Skip \/ Vanished \/ Return

Spec == Init /\ [][Next]_vars

-----------------------------------------------------------------------------
IfTypeOK ==
  /\ ret \in {"start", "scan", "listed", "failed", "crashed"}
  /\ sys \in Seq(BOOLEAN) /\ i \in 0 .. NET_IFNET_NMAX
  /\ at \in 1 .. Len(sys) + 1 /\ listed \in Seq(DOMAIN sys)
  /\ fds \in Nat

(* The table names interfaces with an address, each at most once. *)
TableSound ==
  /\ \A k \in DOMAIN listed : sys[listed[k]]
  /\ \A k, l \in DOMAIN listed : listed[k] = listed[l] => k = l

(* What the scan leaves open stays far from the limit of descriptors, however
   many calls fail: two sockets for each turn. *)
DescriptorsBounded == fds <= 2 * NET_IFNET_NMAX

(* ifs.c:39, ifs.h:33: the function "Retrieves all available network
   interface names": an interface with an address is in the table, whatever
   stands before it. *)
AllListed == ret = "listed" => \A k \in DOMAIN sys : sys[k] => k \in Range(listed)
=============================================================================
