----------------------------- MODULE NetIfsProofs ---------------------------
(***************************************************************************)
(* What is in the table of interfaces after a scan, for every list of      *)
(* interfaces and every size of the table.                                 *)
(***************************************************************************)
EXTENDS NetIfs, TLAPS

Sizes == IfLists \subseteq Seq(BOOLEAN) /\ NET_IFNET_NMAX \in Nat

(* The interfaces up to the first one without an address, as far as the     *)
(* table goes.                                                              *)
Reachable == {k \in DOMAIN sys : k <= NET_IFNET_NMAX /\ \A j \in 1 .. k : sys[j]}

(* What lies before intf is listed and has an address.  Without failing     *)
(* calls a turn lists an entry, or never moves on again.                    *)
ScanInv ==
  /\ sys \in Seq(BOOLEAN) /\ at \in 1 .. Len(sys) + 1
  /\ i \in 0 .. NET_IFNET_NMAX /\ at <= i + 1
  /\ listed \in Seq(Nat) /\ Len(listed) = at - 1
  /\ \A k \in 1 .. at - 1 : listed[k] = k /\ sys[k]
  /\ IfFaults \/ i + 1 = at \/ (at \in DOMAIN sys /\ ~sys[at])
  /\ ret = "start" => sys = <<>> /\ i = 0
  /\ ret = "listed" => i = NET_IFNET_NMAX \/ at = Len(sys) + 1

LEMMA ScanInvInit == ASSUME Sizes, Init PROVE ScanInv
<1>1. sys = <<>> /\ at = 1 /\ i = 0 /\ listed = <<>> /\ ret = "start"
  BY DEF Init, IfInit
<1>2. sys \in Seq(BOOLEAN) /\ Len(sys) = 0 /\ listed \in Seq(Nat) /\ Len(listed) = 0
  BY <1>1
<1> QED
  BY <1>1, <1>2 DEF ScanInv, Sizes

LEMMA ScanInvStep ==
  ASSUME Sizes, ScanInv, [Next]_vars
  PROVE  ScanInv'
<1>0. /\ sys \in Seq(BOOLEAN) /\ Len(sys) \in Nat /\ DOMAIN sys = 1 .. Len(sys)
      /\ NET_IFNET_NMAX \in Nat /\ i \in Nat /\ at \in Nat
  BY DEF ScanInv, Sizes
<1>1. CASE Enumerate
  <2>1. /\ ret = "start" /\ ret' = "scan" /\ sys' \in Seq(BOOLEAN)
        /\ UNCHANGED <<i, at, listed>>
    BY <1>1 DEF Enumerate, Sizes
  <2>2. i = 0 /\ at = 1
    BY <1>0, <2>1 DEF ScanInv
  <2> QED
    BY <1>0, <2>1, <2>2 DEF ScanInv
<1>2. CASE EnumerateFails \/ Vanished
  <2>1. ret' \in {"failed", "crashed"} /\ UNCHANGED <<sys, i, at, listed>>
    BY <1>2 DEF EnumerateFails, Vanished
  <2> QED
    BY <2>1 DEF ScanInv
<1>3. CASE List
  <2>1. /\ ret' = "scan" /\ i < NET_IFNET_NMAX /\ at \in DOMAIN sys
        /\ listed' = Append(listed, at) /\ at' = at + 1 /\ i' = i + 1 /\ UNCHANGED sys
        /\ "address" \in Answers
    BY <1>3 DEF List, Turn
  <2>2. sys[at]
    BY <2>1 DEF Answers
  <2>3. /\ listed' \in Seq(Nat) /\ Len(listed') = at' - 1
        /\ \A k \in 1 .. at' - 1 : listed'[k] = k
    <3>1. /\ listed \in Seq(Nat) /\ Len(listed) = at - 1
          /\ \A k \in 1 .. at - 1 : listed[k] = k
      BY DEF ScanInv
    <3> QED
      BY <1>0, <2>1, <3>1
  <2>4. \A k \in 1 .. at' - 1 : sys'[k]
    <3>1. \A k \in 1 .. at' - 1 : k = at \/ k \in 1 .. at - 1
      BY <1>0, <2>1
    <3> QED
      BY <2>1, <2>2, <3>1 DEF ScanInv
  <2>5. IfFaults \/ i' + 1 = at'
    BY <1>0, <2>1, <2>2 DEF ScanInv
  <2> QED
    BY <1>0, <2>1, <2>3, <2>4, <2>5 DEF ScanInv
<1>4. CASE Skip
  <2>1. /\ ret' = "scan" /\ i < NET_IFNET_NMAX /\ at \in DOMAIN sys /\ i' = i + 1
        /\ UNCHANGED <<sys, at, listed>>
    BY <1>4 DEF Skip, Turn
  <2>2. IfFaults \/ ~sys[at]
    BY <1>4 DEF Skip, Answers
  <2> QED
    BY <1>0, <2>1, <2>2 DEF ScanInv
<1>5. CASE Return
  <2>1. ret = "scan" /\ ~Turn /\ ret' = "listed" /\ UNCHANGED <<sys, i, at, listed>>
    BY <1>5 DEF Return
  <2>2. i = NET_IFNET_NMAX \/ at = Len(sys) + 1
    BY <1>0, <2>1 DEF ScanInv, Turn
  <2> QED
    BY <2>1, <2>2 DEF ScanInv
<1>6. CASE UNCHANGED vars
  BY <1>6 DEF vars, ifvars, ScanInv
<1> QED
  BY <1>1, <1>2, <1>3, <1>4, <1>5, <1>6 DEF Next

LEMMA ScanInvAlways == ASSUME Sizes PROVE Spec => []ScanInv
<1>1. Init => ScanInv
  BY ScanInvInit
<1>2. ScanInv /\ [Next]_vars => ScanInv'
  BY ScanInvStep
<1> QED
  BY <1>1, <1>2, PTL DEF Spec

(* When no call fails that could succeed, the table holds the interfaces up *)
(* to the first one without an address, and no others: this is exactly what *)
(* the continue that does not advance intf costs.                           *)
TableReaches == ret = "listed" => Range(listed) = Reachable

(* However many calls fail, nothing behind an interface without an address  *)
(* is ever listed, nor more than the table holds.                           *)
THEOREM StopsAtGap == ASSUME Sizes PROVE Spec => [](Range(listed) \subseteq Reachable)
<1>1. ScanInv => Range(listed) \subseteq Reachable
  <2> SUFFICES ASSUME ScanInv, NEW k \in Range(listed) PROVE k \in Reachable
    OBVIOUS
  <2>1. k \in 1 .. at - 1 /\ \A j \in 1 .. at - 1 : sys[j]
    <3>1. DOMAIN listed = 1 .. at - 1
      BY DEF ScanInv
    <3> QED
      BY <3>1 DEF ScanInv, Range
  <2>2. /\ at \in 1 .. Len(sys) + 1 /\ Len(sys) \in Nat /\ DOMAIN sys = 1 .. Len(sys)
        /\ i \in 0 .. NET_IFNET_NMAX /\ at <= i + 1 /\ NET_IFNET_NMAX \in Nat
    BY DEF ScanInv, Sizes
  <2> QED
    BY <2>1, <2>2 DEF Reachable
<1> QED
  BY <1>1, ScanInvAlways, PTL

(* When no call fails, a scan that ends has listed exactly the interfaces   *)
(* up to the first without an address, as many as the table has room for.   *)
THEOREM ReachesGap == ASSUME Sizes, IfFaults = FALSE PROVE Spec => []TableReaches
<1>1. ScanInv => TableReaches
  <2> SUFFICES ASSUME ScanInv, ret = "listed" PROVE Range(listed) = Reachable
    BY DEF TableReaches
  <2>1. /\ at \in 1 .. Len(sys) + 1 /\ Len(sys) \in Nat /\ DOMAIN sys = 1 .. Len(sys)
        /\ i \in 0 .. NET_IFNET_NMAX /\ at <= i + 1 /\ NET_IFNET_NMAX \in Nat
    BY DEF ScanInv, Sizes
  <2>2. Range(listed) = 1 .. at - 1 /\ \A j \in 1 .. at - 1 : sys[j]
    <3>1. DOMAIN listed = 1 .. at - 1
      BY DEF ScanInv
    <3> QED
      BY <3>1 DEF ScanInv, Range
  <2>3. ASSUME NEW k \in 1 .. at - 1 PROVE k \in Reachable
    BY <2>1, <2>2 DEF Reachable
  <2>4. ASSUME NEW k \in Reachable PROVE k \in 1 .. at - 1
    <3>1. k \in 1 .. Len(sys) /\ k <= NET_IFNET_NMAX /\ \A j \in 1 .. k : sys[j]
      BY <2>1 DEF Reachable
    <3>2. CASE at = Len(sys) + 1
      BY <2>1, <3>1, <3>2
    <3>3. CASE i = NET_IFNET_NMAX /\ i + 1 = at
      BY <2>1, <3>1, <3>3
    <3>4. CASE ~sys[at]
      <4>1. at \notin 1 .. k
        BY <3>1, <3>4
      <4> QED
        BY <2>1, <3>1, <4>1
    <3> QED
      BY <3>2, <3>3, <3>4 DEF ScanInv
  <2> QED
    BY <2>2, <2>3, <2>4
<1> QED
  BY <1>1, ScanInvAlways, PTL

(* The documented promise, that all interfaces are listed, holds on every   *)
(* machine on which each interface has an address and the table is large    *)
(* enough.                                                                  *)
THEOREM AllListedWithAddresses ==
  ASSUME Sizes, IfFaults = FALSE,
         \A s \in IfLists : Len(s) <= NET_IFNET_NMAX /\ \A k \in DOMAIN s : s[k]
  PROVE  Spec => []AllListed
<1> DEFINE Known == sys = <<>> \/ sys \in IfLists
<1>1. Init => Known
  BY DEF Init, IfInit
<1>2. Known /\ [Next]_vars => Known'
  BY DEF Next, Enumerate, EnumerateFails, List, Skip, Vanished, Return, vars, ifvars
<1>3. Known /\ TableReaches => AllListed
  <2> SUFFICES ASSUME Known, TableReaches, ret = "listed", NEW k \in DOMAIN sys
               PROVE  k \in Range(listed)
    BY DEF AllListed
  <2>1. sys \in IfLists /\ sys \in Seq(BOOLEAN)
    BY DEF Sizes
  <2>2. k \in 1 .. Len(sys) /\ Len(sys) \in Nat /\ Len(sys) <= NET_IFNET_NMAX
        /\ \A j \in 1 .. Len(sys) : sys[j]
    BY <2>1
  <2>3. k \in Reachable
    BY <2>2 DEF Reachable, Sizes
  <2> QED
    BY <2>3 DEF TableReaches
<1> QED
  BY <1>1, <1>2, <1>3, ReachesGap, PTL DEF Spec
=============================================================================
