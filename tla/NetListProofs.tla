--------------------------- MODULE NetListProofs ---------------------------
(***************************************************************************)
(* Theorems of NetList for every set of replies, every room for a name and *)
(* every timeout.                                                          *)
(***************************************************************************)
EXTENDS NetList, TLAPS

(* The list starts empty, and what is counted before it is read is nothing. *)
NotRead ==
  pc \in {"start", "request"} =>
    rep = page /\ pos = 0 /\ buffer_len = 0 /\ num = 0 /\ n_networks = 0

CurlTypes == Curl!CurlTypeOK /\ rep \in Reply

LEMMA RepliesTyped == \A r \in Reply : r.len \in Nat
  BY DEF Reply

(* The steps of a request, whoever made it. *)
LEMMA CurlTypesNext ==
  ASSUME CurlTypes, Curl!FromNetwork \/ Curl!TimedOut, UNCHANGED timeout
  PROVE  CurlTypes' /\ UNCHANGED rep
<1> USE DEF CurlTypes, Curl!CurlTypeOK
<1>1. rep.len \in Nat /\ size \in 0 .. rep.len /\ size \in Nat
  BY RepliesTyped
<1>2. CASE Curl!Receive
  <2>1. size' \in 0 .. rep.len
    BY <1>1, <1>2 DEF Curl!Receive
  <2>2. response' = TRUE /\ UNCHANGED <<rq, max, rep, got, err>>
    BY <1>2 DEF Curl!Receive
  <2> QED
    BY <2>1, <2>2
<1>3. CASE Curl!Complete
  <2>1. /\ rq' = "ok" /\ response' = FALSE /\ got' = size
        /\ UNCHANGED <<max, rep, size, err>>
    BY <1>3 DEF Curl!Complete, Curl!EndWith
  <2> QED
    BY <1>1, <2>1
<1>4. CASE Curl!ReceiveFails \/ Curl!CopyPastEnd \/ Curl!Broken \/ Curl!TimedOut
  <2>1. /\ rq' \in {"failed", "crashed"} /\ response' = FALSE
        /\ UNCHANGED <<max, rep, size, got>>
    BY <1>4 DEF Curl!ReceiveFails, Curl!CopyPastEnd, Curl!Broken, Curl!TimedOut,
                Curl!EndWith
  <2>2. err' \in BOOLEAN
    BY <1>4 DEF Curl!ReceiveFails, Curl!CopyPastEnd, Curl!Broken, Curl!TimedOut
  <2> QED
    BY <2>1, <2>2
<1> QED
  BY <1>2, <1>3, <1>4 DEF Curl!FromNetwork

LEMMA CurlTypesStart ==
  ASSUME CurlTypes, NEW m \in Nat, NEW r \in Reply,
         Curl!Start(m, r) \/ Curl!StartFails(m, r), UNCHANGED timeout
  PROVE  CurlTypes' /\ rep' = r
<1> USE DEF CurlTypes, Curl!CurlTypeOK
<1>1. /\ rq' \in {"transfer", "failed"} /\ max' = m /\ rep' = r
      /\ size' = 0 /\ response' = FALSE /\ got' = 0
  BY DEF Curl!Start, Curl!StartFails
<1>2. err' \in BOOLEAN
  BY DEF Curl!Start, Curl!StartFails
<1>3. r.len \in Nat
  BY RepliesTyped
<1>4. size' \in 0 .. rep'.len /\ got' \in 0 .. rep'.len
  BY <1>1, <1>3
<1>5. timeout' \in Int /\ response' \in BOOLEAN
  BY <1>1
<1> QED
  BY ONLY <1>1, <1>2, <1>4, <1>5, m \in Nat, r \in Reply
     DEF CurlTypes, Curl!CurlTypeOK

LEMMA CurlTypesKept ==
  ASSUME CurlTypes, UNCHANGED <<curlv, timeout>>, err' \in BOOLEAN
  PROVE  CurlTypes'
<1> USE DEF CurlTypes, Curl!CurlTypeOK
<1>1. UNCHANGED <<rq, max, rep, size, response, got, timeout>>
  BY DEF curlv
<1> QED
  BY <1>1

-----------------------------------------------------------------------------
(* A piece that is evaluated: where it may end. *)
LEMMA PieceBounds ==
  ASSUME TypeOK, NEW q \in Pieces, q - pos > 1
  PROVE  /\ q \in Nat /\ q \in pos + 2 .. buffer_len /\ pos \in Nat
         /\ q - pos \in Nat /\ q - pos <= NETWORK_NAME_MAX - 1
         /\ Piece(q) \in Name /\ Piece(q) # Null
         /\ Piece(q).from = pos + 1 /\ pos + 1 <= Piece(q).to /\ Piece(q).to <= q
<1>1. /\ buffer_len \in Nat /\ pos \in Nat
      /\ q \in pos + 1 .. buffer_len /\ q <= pos + NETWORK_NAME_MAX - 1
  <2>1. buffer_len \in 0 .. page.len /\ pos \in 0 .. buffer_len
    BY DEF TypeOK
  <2> QED
    BY <2>1 DEF Pieces
<1>2. q \in Nat /\ q \in pos + 2 .. buffer_len /\ q - pos \in Nat
      /\ q - pos <= NETWORK_NAME_MAX - 1
  BY <1>1, NameMaxAssumption
<1>3. Piece(q).from = pos + 1 /\ Piece(q).to \in {q - 1, q}
  BY DEF Piece
<1>4. Piece(q) = [from |-> pos + 1, to |-> Piece(q).to]
  BY DEF Piece
<1>5. Piece(q).to \in Nat /\ pos + 1 <= Piece(q).to /\ Piece(q).to <= q
  BY <1>1, <1>2, <1>3
<1>6. Piece(q) \in Name
  BY <1>1, <1>4, <1>5 DEF Name
<1>7. Piece(q) # Null
  BY <1>1, <1>3 DEF Null
<1> QED
  BY <1>1, <1>2, <1>3, <1>5, <1>6, <1>7

(* longest_net_entry never shrinks and covers the piece just read. *)
LEMMA LongerCovers ==
  ASSUME longest \in Nat, NEW n \in Nat
  PROVE  Longer(n) \in Nat /\ longest <= Longer(n) /\ n <= Longer(n)
<1>1. longest + n \in Nat
  OBVIOUS
<1>2. rtonm(longest + n, 8) \in Nat /\ longest + n <= rtonm(longest + n, 8)
  BY <1>1 DEF rtonm
<1> QED
  BY <1>2 DEF Longer

LEMMA EvaluateTypes ==
  ASSUME TypeOK, NEW q \in Pieces, Evaluate(q)
  PROVE  /\ pos' \in 0 .. buffer_len /\ num' \in 0 .. pos' /\ longest' \in Nat
         /\ num \in Nat /\ num' = num + 1
<1>1. q - pos > 1 /\ pos' = q /\ num' = num + 1 /\ longest' = Longer(q - pos)
  BY DEF Evaluate
<1>2. num \in 0 .. pos /\ longest \in Nat
  BY DEF TypeOK
<1>3. q \in pos + 2 .. buffer_len /\ pos \in Nat /\ q - pos \in Nat
  BY <1>1, PieceBounds
<1> QED
  BY <1>1, <1>2, <1>3, LongerCovers

(* TypeOK by parts: the numbers and sequences, and the rest. *)
DataTypes ==
  /\ buffer_len \in 0 .. page.len /\ pos \in 0 .. buffer_len
  /\ num \in 0 .. pos /\ n_networks \in 0 .. num
  /\ longest \in Nat
  /\ list \in Seq([name : Name, id : Nat]) /\ Len(list) <= num
  /\ entries \in Seq(Nat)

OtherTypes ==
  /\ pc \in Places /\ page \in Replies
  /\ status \in BOOLEAN /\ lost \in BOOLEAN
  /\ msg \in {"none", "update available", "no updates available"}

LEMMA TypesByPart == TypeOK <=> DataTypes /\ OtherTypes /\ CurlTypes
  BY DEF TypeOK, DataTypes, OtherTypes, CurlTypes

LEMMA DataKept ==
  ASSUME DataTypes, UNCHANGED <<page, buffer_len, pos, num, longest, list>>,
         n_networks' \in {n_networks, 0, num},
         entries' \in {entries, <<>>}
  PROVE  DataTypes'
<1>1. num \in Nat
  BY DEF DataTypes
<1>2. n_networks' \in 0 .. num'
  BY <1>1 DEF DataTypes
<1>3. entries' \in Seq(Nat)
  <2>1. entries \in Seq(Nat) /\ <<>> \in Seq(Nat)
    BY DEF DataTypes
  <2>2. entries' = entries \/ entries' = <<>>
    OBVIOUS
  <2> QED
    BY ONLY <2>1, <2>2
<1>4. /\ buffer_len' \in 0 .. page'.len /\ pos' \in 0 .. buffer_len'
      /\ num' \in 0 .. pos' /\ longest' \in Nat
      /\ list' \in Seq([name : Name, id : Nat]) /\ Len(list') <= num'
  BY DEF DataTypes
<1> QED
  BY <1>2, <1>3, <1>4 DEF DataTypes

(* Every variable keeps its type, for replies of any length: no position    *)
(* runs past the text, and there are never more networks than pieces.       *)
TypeInv == TypeOK /\ NotRead

LEMMA TypeInvInit == Init => TypeInv
<1> SUFFICES ASSUME Init PROVE TypeInv
  OBVIOUS
<1>1. page \in Reply /\ page.len \in Nat
  BY RepliesAssumption, RepliesTyped DEF Init
<1>2. DataTypes
  BY <1>1 DEF Init, DataTypes
<1>3. OtherTypes
  BY DEF Init, OtherTypes, Places
<1>4. CurlTypes
  <2>1. /\ rq = "idle" /\ max = 0 /\ rep = page /\ size = 0 /\ got = 0
        /\ response = FALSE /\ err = FALSE
    BY DEF Init, Curl!CurlInit
  <2>2. timeout \in Int
    BY TimeoutsAssumption DEF Init
  <2>3. size \in 0 .. rep.len /\ got \in 0 .. rep.len
    BY <1>1, <2>1
  <2>4. response \in BOOLEAN /\ err \in BOOLEAN
    BY <2>1
  <2> QED
    BY ONLY <1>1, <2>1, <2>2, <2>3, <2>4 DEF CurlTypes, Curl!CurlTypeOK
<1>5. NotRead
  BY DEF Init, NotRead, Curl!CurlInit
<1> QED
  BY <1>2, <1>3, <1>4, <1>5, TypesByPart DEF TypeInv

LEMMA TypeInvAlways == Spec => []TypeInv
<1>1. TypeInv /\ [Next]_vars => TypeInv'
  <2> SUFFICES ASSUME TypeInv, [Next]_vars PROVE TypeInv'
    OBVIOUS
  <2>0. DataTypes /\ OtherTypes /\ CurlTypes /\ NotRead
    BY TypesByPart DEF TypeInv
  <2>e. err \in BOOLEAN /\ page \in Reply
    BY <2>0, RepliesAssumption DEF CurlTypes, Curl!CurlTypeOK, OtherTypes
  <2>q. SUFFICES DataTypes' /\ OtherTypes' /\ CurlTypes' /\ NotRead'
    BY DEF TypeInv, TypeOK, DataTypes, OtherTypes, CurlTypes
  <2>1. CASE AskNetworks
    <3>1. /\ UNCHANGED <<page, net, local, timeout>> /\ pc' = "request"
          /\ Curl!Start(0, page) \/ Curl!StartFails(0, page)
          /\ pc = "start"
      BY <2>1 DEF AskNetworks
    <3>2. CurlTypes' /\ rep' = page
      BY <2>0, <2>e, <3>1, CurlTypesStart
    <3>3. DataTypes'
      BY <2>0, <3>1, DataKept DEF net, local
    <3>4. OtherTypes'
      BY <2>0, <3>1 DEF OtherTypes, net, local, Places
    <3>5. NotRead'
      BY <2>0, <3>1, <3>2 DEF NotRead, net, local
    <3> QED
      BY <3>2, <3>3, <3>4, <3>5
  <2>2. CASE OnNetwork \/ OnTimeout
    <3>1. /\ UNCHANGED <<pc, page, net, local, timeout>>
          /\ Curl!FromNetwork \/ Curl!TimedOut
      BY <2>2 DEF OnNetwork, OnTimeout
    <3>2. CurlTypes' /\ UNCHANGED rep
      BY <2>0, <3>1, CurlTypesNext
    <3>3. DataTypes'
      BY <2>0, <3>1, DataKept DEF net, local
    <3>4. OtherTypes'
      BY <2>0, <3>1 DEF OtherTypes, net, local
    <3>5. NotRead'
      BY <2>0, <3>1, <3>2 DEF NotRead, net, local
    <3> QED
      BY <3>2, <3>3, <3>4, <3>5
  <2>3. CASE Offline \/ EmptyReply \/ OddCharacter \/ OpenTextFails
    <3>1. /\ pc' = "fetched" /\ n_networks' = 0
          /\ UNCHANGED <<page, list, longest, pos, buffer_len, num, entries, msg>>
          /\ UNCHANGED <<curlv, timeout>>
      BY <2>3 DEF Offline, EmptyReply, OddCharacter, OpenTextFails, local
    <3>2. status' \in BOOLEAN
      BY <2>3 DEF Offline, EmptyReply, OddCharacter, OpenTextFails, Online
    <3>3. lost' \in BOOLEAN
      BY <2>0, <2>3 DEF Offline, EmptyReply, OddCharacter, OpenTextFails, local,
                        OtherTypes
    <3>4. err' \in BOOLEAN
      BY <2>e, <2>3 DEF Offline, EmptyReply, OddCharacter, OpenTextFails
    <3>5. DataTypes'
      BY <2>0, <3>1, DataKept
    <3>6. OtherTypes'
      BY <2>0, <3>1, <3>2, <3>3 DEF OtherTypes, Places
    <3>7. CurlTypes'
      BY <2>0, <3>1, <3>4, CurlTypesKept
    <3> QED
      BY <3>1, <3>5, <3>6, <3>7 DEF NotRead
  <2>4. CASE OpenText
    <3>1. /\ pc' = "read" /\ buffer_len' = got /\ status' = TRUE
          /\ UNCHANGED <<page, list, longest, n_networks, pos, num, entries, lost, msg>>
          /\ UNCHANGED <<curlv, timeout, err>>
      BY <2>4 DEF OpenText, Online
    <3>2. got \in 0 .. page.len /\ pos = 0 /\ page.len \in Nat
      BY <2>0, <2>4, <2>e, RepliesTyped
         DEF OpenText, Online, CurlTypes, Curl!CurlTypeOK, NotRead
    <3>3. DataTypes'
      BY <2>0, <3>1, <3>2 DEF DataTypes
    <3>4. OtherTypes'
      BY <2>0, <3>1 DEF OtherTypes, Places
    <3>5. CurlTypes'
      BY <2>0, <2>e, <3>1, CurlTypesKept
    <3> QED
      BY <3>1, <3>3, <3>4, <3>5 DEF NotRead
  <2>5. CASE SkipPiece
    <3>1. /\ pc = "read" /\ (\E q \in Pieces : pos' = q)
          /\ UNCHANGED <<pc, page, net, buffer_len, num, entries, lost, msg>>
          /\ UNCHANGED <<curlv, timeout, err>>
      BY <2>5 DEF SkipPiece
    <3>2. pos' \in 0 .. buffer_len /\ pos' \in Nat /\ pos \in Nat /\ pos <= pos'
      BY <2>0, <3>1 DEF Pieces, DataTypes
    <3>3. DataTypes'
      BY <2>0, <3>1, <3>2 DEF DataTypes, net
    <3>4. OtherTypes'
      BY <2>0, <3>1 DEF OtherTypes, net
    <3>5. CurlTypes'
      BY <2>0, <2>e, <3>1, CurlTypesKept
    <3> QED
      BY <3>1, <3>3, <3>4, <3>5 DEF NotRead
  <2>6. CASE Add \/ AddUnnamed \/ AddFails
    <3>1. PICK q \in Pieces : Evaluate(q)
      BY <2>6 DEF Add, AddUnnamed, AddFails
    <3>2. /\ pos' \in 0 .. buffer_len /\ num' \in 0 .. pos' /\ longest' \in Nat
          /\ num \in Nat /\ num' = num + 1
      BY <3>1, EvaluateTypes DEF TypeInv
    <3>3. /\ UNCHANGED <<pc, page, status, n_networks, buffer_len, entries, msg>>
          /\ UNCHANGED <<curlv, timeout>> /\ pc = "read"
      BY <3>1 DEF Evaluate
    <3>4. list' = list \/ \E e \in [name : Name, id : Nat] : list' = Append(list, e)
      <4>1. CASE Add
        <5>1. PICK r \in Pieces :
                Evaluate(r) /\ list' = Append(list, [name |-> Piece(r), id |-> num])
          BY <4>1 DEF Add
        <5>2. Piece(r) \in Name
          BY <5>1, PieceBounds DEF Evaluate, TypeInv
        <5> QED
          BY <3>2, <5>1, <5>2
      <4>2. CASE AddUnnamed
        <5>1. Null \in Name
          BY DEF Null, Name
        <5> QED
          BY <3>2, <4>2, <5>1 DEF AddUnnamed
      <4>3. CASE AddFails
        BY <4>3 DEF AddFails
      <4> QED
        BY <2>6, <4>1, <4>2, <4>3
    <3>5. list' \in Seq([name : Name, id : Nat]) /\ Len(list') <= num'
      <4> DEFINE Entry == [name : Name, id : Nat]
      <4>1. list \in Seq(Entry) /\ Len(list) <= num
        BY <2>0 DEF DataTypes
      <4>2. list' = list \/ \E e \in Entry : list' = Append(list, e)
        BY <3>4
      <4> HIDE DEF Entry
      <4>3. list' \in Seq(Entry) /\ Len(list') <= Len(list) + 1
        BY <4>1, <4>2
      <4> QED
        BY <3>2, <4>1, <4>3 DEF Entry
    <3>6. DataTypes'
      BY <2>0, <3>2, <3>3, <3>5 DEF DataTypes
    <3>7. lost' \in BOOLEAN /\ err' \in BOOLEAN
      BY <2>0, <2>6, <2>e DEF Add, AddUnnamed, AddFails, OtherTypes
    <3>8. OtherTypes'
      BY <2>0, <3>3, <3>7 DEF OtherTypes
    <3>9. CurlTypes'
      BY <2>0, <3>3, <3>7, CurlTypesKept
    <3> QED
      BY <3>3, <3>6, <3>8, <3>9 DEF NotRead
  <2>7. CASE Fetched
    <3>1. /\ n_networks' = num /\ pc' = "fetched"
          /\ UNCHANGED <<page, status, list, longest, local, curlv, timeout, err>>
      BY <2>7 DEF Fetched
    <3>2. DataTypes'
      BY <2>0, <3>1, DataKept DEF local
    <3>3. OtherTypes'
      BY <2>0, <3>1 DEF OtherTypes, Places, local
    <3>4. CurlTypes'
      BY <2>0, <2>e, <3>1, CurlTypesKept
    <3> QED
      BY <3>1, <3>2, <3>3, <3>4 DEF NotRead
  <2>8. CASE SetUp \/ SetUpFails \/ LoadFails \/ Loaded \/ Crash \/ LeaveMenus \/ Freed
    <3>1. /\ pc' \in {"load", "final", "menus", "crashed", "done"}
          /\ UNCHANGED <<page, net, pos, buffer_len, num, lost, msg, curlv, timeout>>
          /\ entries' \in {entries, <<>>}
      BY <2>8 DEF SetUp, SetUpFails, LoadFails, Loaded, Crash, LeaveMenus, Freed,
                  local
    <3>2. err' \in BOOLEAN
      BY <2>8, <2>e DEF SetUp, SetUpFails, LoadFails, Loaded, Crash, LeaveMenus, Freed
    <3>3. DataTypes'
      BY <2>0, <3>1, DataKept DEF net
    <3>4. OtherTypes'
      BY <2>0, <3>1 DEF OtherTypes, Places, net
    <3>5. CurlTypes'
      BY <2>0, <3>1, <3>2, CurlTypesKept
    <3> QED
      BY <3>1, <3>3, <3>4, <3>5 DEF NotRead
  <2>9. CASE LoadEntry
    <3>1. /\ pc = "load" /\ entries' = Append(entries, At)
          /\ UNCHANGED <<pc, page, net, pos, buffer_len, num, lost, msg>>
          /\ UNCHANGED <<curlv, timeout, err>>
      BY <2>9 DEF LoadEntry, Turn
    <3>2. At \in Nat /\ entries' \in Seq(Nat)
      BY <2>0, <3>1 DEF At, DataTypes
    <3>3. DataTypes'
      BY <2>0, <3>1, <3>2 DEF DataTypes, net
    <3>4. OtherTypes'
      BY <2>0, <3>1 DEF OtherTypes, net
    <3>5. CurlTypes'
      BY <2>0, <2>e, <3>1, CurlTypesKept
    <3> QED
      BY <3>1, <3>3, <3>4, <3>5 DEF NotRead
  <2>10. CASE LoadNull \/ UNCHANGED vars
    <3>1. UNCHANGED <<pc, page, net, local, curlv, timeout, err>>
      BY <2>10 DEF LoadNull, vars
    <3>2. DataTypes'
      BY <2>0, <3>1, DataKept DEF net, local
    <3>3. OtherTypes'
      BY <2>0, <3>1 DEF OtherTypes, net, local
    <3>4. CurlTypes'
      BY <2>0, <2>e, <3>1, CurlTypesKept
    <3>5. NotRead'
      BY <2>0, <3>1 DEF NotRead, net, local, curlv
    <3> QED
      BY <3>2, <3>3, <3>4, <3>5
  <2>11. CASE AskVersion
    <3>1. PICK r \in Releases :
            Curl!Start(VersionSize, r) \/ Curl!StartFails(VersionSize, r)
      BY <2>11 DEF AskVersion
    <3>2. /\ pc' = "checking" /\ msg' = "none"
          /\ UNCHANGED <<page, net, pos, buffer_len, num, entries, lost, timeout>>
      BY <2>11 DEF AskVersion
    <3>3. CurlTypes'
      BY <2>0, <3>1, <3>2, CurlTypesStart, RepliesAssumption DEF VersionSize
    <3>4. DataTypes'
      BY <2>0, <3>2, DataKept DEF net
    <3>5. OtherTypes'
      BY <2>0, <3>2 DEF OtherTypes, Places, net
    <3> QED
      BY <3>2, <3>3, <3>4, <3>5 DEF NotRead
  <2>12. CASE TellVersion
    <3>1. /\ pc' = "menus" /\ msg' \in {"update available", "no updates available"}
          /\ UNCHANGED <<page, net, pos, buffer_len, num, entries, lost>>
          /\ UNCHANGED <<curlv, timeout, err>>
      BY <2>12 DEF TellVersion
    <3>2. DataTypes'
      BY <2>0, <3>1, DataKept DEF net
    <3>3. OtherTypes'
      BY <2>0, <3>1 DEF OtherTypes, Places, net
    <3>4. CurlTypes'
      BY <2>0, <2>e, <3>1, CurlTypesKept
    <3> QED
      BY <3>1, <3>2, <3>3, <3>4 DEF NotRead
  <2>13. CASE FreeFirst
    <3>1. /\ pc = "final" /\ list # <<>> /\ list' = Tail(list)
          /\ UNCHANGED <<pc, page, status, longest, n_networks, local, curlv, timeout, err>>
      BY <2>13 DEF FreeFirst
    <3>2. list' \in Seq([name : Name, id : Nat]) /\ Len(list') <= num
      BY <2>0, <3>1 DEF DataTypes
    <3>3. DataTypes'
      BY <2>0, <3>1, <3>2 DEF DataTypes, local
    <3>4. OtherTypes'
      BY <2>0, <3>1 DEF OtherTypes, local
    <3>5. CurlTypes'
      BY <2>0, <2>e, <3>1, CurlTypesKept
    <3> QED
      BY <3>1, <3>3, <3>4, <3>5 DEF NotRead
  <2> QED
    BY <2>1, <2>2, <2>3, <2>4, <2>5, <2>6, <2>7, <2>8, <2>9, <2>10, <2>11,
       <2>12, <2>13 DEF Next, Program, Outside
<1> QED
  BY <1>1, TypeInvInit, PTL DEF Spec

(* For replies of any length no position runs past the text of the reply,   *)
(* and there are never more networks than characters read.                  *)
THEOREM TypeCorrect == Spec => []TypeOK
<1>1. TypeInv => TypeOK
  BY DEF TypeInv
<1> QED
  BY <1>1, TypeInvAlways, PTL

-----------------------------------------------------------------------------
Networks == [name : Name, id : Nat]

(* Which networks have a name once one is added, or the first one freed. *)
LEMMA NamedAppend ==
  ASSUME NEW s \in Seq(Networks), NEW e \in Networks,
         NEW k \in Named(Append(s, e))
  PROVE  /\ k \in Nat
         /\ \/ k \in Named(s) /\ k <= Len(s) /\ Append(s, e)[k] = s[k]
            \/ k = Len(s) + 1 /\ Append(s, e)[k] = e /\ e.name # Null
<1>1. k \in 1 .. Len(s) + 1 /\ Append(s, e)[k].name # Null
  BY DEF Named
<1>2. CASE k = Len(s) + 1
  BY <1>1, <1>2
<1>3. CASE k \in 1 .. Len(s)
  <2>1. Append(s, e)[k] = s[k]
    BY <1>3
  <2> QED
    BY <1>1, <1>3, <2>1 DEF Named
<1> QED
  BY <1>1, <1>2, <1>3

LEMMA NamedTail ==
  ASSUME NEW s \in Seq(Networks), s # <<>>, NEW k \in Named(Tail(s))
  PROVE  k \in Nat /\ k + 1 \in Named(s) /\ Tail(s)[k] = s[k + 1]
<1>1. k \in 1 .. Len(s) - 1 /\ Len(s) \in Nat /\ Tail(s)[k].name # Null
  BY DEF Named
<1>2. Tail(s)[k] = s[k + 1] /\ k + 1 \in 1 .. Len(s)
  BY <1>1
<1> QED
  BY <1>1, <1>2 DEF Named

LEMMA Basics ==
  ASSUME TypeInv
  PROVE  /\ page.len \in Nat /\ buffer_len \in 0 .. page.len /\ pos \in Nat /\ num \in Nat
         /\ list \in Seq(Networks) /\ longest \in Nat
         /\ \A k \in Named(list) : k \in Nat /\ list[k].name \in Name
         /\ \A q \in Pieces : q \in Nat /\ pos <= q /\ q <= buffer_len
<1>1. page.len \in Nat
  BY RepliesAssumption, RepliesTyped DEF TypeInv, TypeOK
<1>2. /\ buffer_len \in 0 .. page.len /\ pos \in 0 .. buffer_len /\ num \in 0 .. pos
      /\ list \in Seq(Networks) /\ longest \in Nat
  BY DEF TypeInv, TypeOK, Networks
<1>3. buffer_len \in Nat /\ pos \in Nat /\ num \in Nat
  BY <1>1, <1>2
<1>4. \A k \in Named(list) : k \in Nat /\ list[k] \in Networks
  BY <1>2 DEF Named
<1>5. \A k \in Named(list) : list[k].name \in Name
  BY <1>4 DEF Networks
<1>6. \A q \in Pieces : q \in Nat /\ pos <= q /\ q <= buffer_len
  BY <1>3 DEF Pieces
<1> QED
  BY <1>1, <1>2, <1>3, <1>4, <1>5, <1>6

LEMMA NamedGrown ==
  ASSUME TypeInv, NEW name \in Name, list' = Append(list, [name |-> name, id |-> num]),
         NEW k \in Named(list')
  PROVE  /\ k \in Nat
         /\ \/ k \in Named(list) /\ k <= Len(list) /\ list'[k] = list[k]
            \/ k = Len(list) + 1 /\ list'[k].name = name /\ name # Null
<1>1. PICK e \in Networks : e.name = name /\ list' = Append(list, e)
  BY Basics DEF Networks
<1>2. k \in Named(Append(list, e))
  BY <1>1
<1>3. list \in Seq(Networks)
  BY Basics
<1>4. /\ k \in Nat
      /\ \/ k \in Named(list) /\ k <= Len(list) /\ Append(list, e)[k] = list[k]
         \/ k = Len(list) + 1 /\ Append(list, e)[k] = e /\ e.name # Null
  BY ONLY <1>2, <1>3, <1>1, NamedAppend
<1> QED
  BY ONLY <1>1, <1>4

(* What a step can do to the list: nothing, add one entry, or free one. *)
Untouched == UNCHANGED <<list, longest, page>> /\ pos' \in Nat /\ pos <= pos'

Grown(q) ==
  /\ q - pos > 1 /\ pos' = q /\ longest' = Longer(q - pos) /\ UNCHANGED page
  /\ \/ UNCHANGED list
     \/ list' = Append(list, [name |-> Null, id |-> num])
     \/ list' = Append(list, [name |-> Piece(q), id |-> num])

Shrunk == list # <<>> /\ list' = Tail(list) /\ UNCHANGED <<longest, page, pos>>

LEMMA ListSteps ==
  ASSUME TypeInv, [Next]_vars
  PROVE  Untouched \/ (\E q \in Pieces : Grown(q)) \/ Shrunk
<1>0. pos \in Nat /\ \A q \in Pieces : q \in Nat /\ pos <= q
  BY Basics
<1>1. CASE AskNetworks \/ OnNetwork \/ OnTimeout \/ Offline \/ EmptyReply
           \/ OddCharacter \/ Fetched
  <2>1. UNCHANGED <<list, longest, page, pos>>
    BY <1>1 DEF AskNetworks, OnNetwork, OnTimeout, Offline, EmptyReply, OddCharacter,
                Fetched, net, local
  <2> QED
    BY <1>0, <2>1 DEF Untouched
<1>2. CASE OpenText \/ OpenTextFails
  <2>1. UNCHANGED <<list, longest, page, pos>>
    BY <1>2 DEF OpenText, OpenTextFails
  <2> QED
    BY <1>0, <2>1 DEF Untouched
<1>3. CASE SetUp \/ SetUpFails \/ LoadEntry \/ LoadNull \/ LoadFails \/ Loaded
           \/ AskVersion \/ TellVersion \/ Crash \/ LeaveMenus \/ Freed
           \/ UNCHANGED vars
  <2>1. UNCHANGED <<list, longest, page, pos>>
    BY <1>3 DEF SetUp, SetUpFails, LoadEntry, LoadNull, LoadFails, Loaded, AskVersion,
                TellVersion, Crash, LeaveMenus, Freed, net, local, vars
  <2> QED
    BY <1>0, <2>1 DEF Untouched
<1>4. CASE SkipPiece
  <2>1. PICK q \in Pieces : pos' = q /\ UNCHANGED <<page, net>>
    BY <1>4 DEF SkipPiece
  <2> QED
    BY <1>0, <2>1 DEF Untouched, net
<1>5. CASE Add \/ AddUnnamed \/ AddFails
  <2>1. PICK q \in Pieces :
          /\ Evaluate(q)
          /\ \/ UNCHANGED list
             \/ list' = Append(list, [name |-> Null, id |-> num])
             \/ list' = Append(list, [name |-> Piece(q), id |-> num])
    BY <1>5 DEF Add, AddUnnamed, AddFails
  <2>2. Grown(q)
    BY <2>1 DEF Evaluate, Grown
  <2> QED
    BY <2>2
<1>6. CASE FreeFirst
  BY <1>6 DEF FreeFirst, Shrunk, local
<1> QED
  BY <1>1, <1>2, <1>3, <1>4, <1>5, <1>6 DEF Next, Program, Outside

-----------------------------------------------------------------------------
(* The width of the menu covers the names. *)
LEMMA LongestStep ==
  ASSUME TypeInv, [Next]_vars, LongestNetCovers
  PROVE  LongestNetCovers'
<1>0. /\ list \in Seq(Networks) /\ longest \in Nat /\ num \in Nat
      /\ \A k \in Named(list) : list[k].name \in Name
  BY Basics
<1>1. CASE Untouched
  BY <1>1 DEF Untouched, LongestNetCovers, Named
<1>2. CASE Shrunk
  <2> SUFFICES ASSUME NEW k \in Named(list')
               PROVE  list'[k].name.to - list'[k].name.from + 1 <= longest'
    BY DEF LongestNetCovers, Named
  <2>1. k + 1 \in Named(list) /\ list'[k] = list[k + 1]
    BY <1>0, <1>2, NamedTail DEF Shrunk
  <2> QED
    BY <1>2, <2>1 DEF Shrunk, LongestNetCovers
<1>3. ASSUME NEW q \in Pieces, Grown(q) PROVE LongestNetCovers'
  <2>1. /\ q - pos \in Nat /\ Piece(q) \in Name
        /\ Piece(q).from = pos + 1 /\ Piece(q).to <= q /\ pos \in Nat /\ q \in Nat
    BY <1>3, PieceBounds DEF Grown, TypeInv
  <2>2. longest' \in Nat /\ longest <= longest' /\ q - pos <= longest'
    BY <1>0, <1>3, <2>1, LongerCovers DEF Grown
  <2>3. \A k \in Named(list) : list[k].name.to - list[k].name.from + 1 <= longest'
    BY <1>0, <2>2 DEF LongestNetCovers, Name
  <2>4. CASE UNCHANGED list
    BY <2>3, <2>4 DEF LongestNetCovers, Named
  <2>5. ASSUME NEW name \in {Null, Piece(q)},
               list' = Append(list, [name |-> name, id |-> num])
        PROVE  LongestNetCovers'
    <3> SUFFICES ASSUME NEW k \in Named(list')
                 PROVE  list'[k].name.to - list'[k].name.from + 1 <= longest'
      BY DEF LongestNetCovers, Named
    <3>1. name \in Name
      BY <2>1 DEF Null, Name
    <3>2. CASE k \in Named(list) /\ list'[k] = list[k]
      BY <2>3, <3>2
    <3>3. CASE list'[k].name = name /\ name # Null
      <4>1. list'[k].name = Piece(q) /\ Piece(q).to \in Nat
        BY <2>1, <3>3 DEF Name
      <4> QED
        BY <2>1, <2>2, <4>1
    <3> QED
      BY <2>5, <3>1, <3>2, <3>3, NamedGrown
  <2> QED
    BY <1>3, <2>4, <2>5 DEF Grown
<1> QED
  BY <1>1, <1>2, <1>3, ListSteps

(* The window of the network menu is wide enough for every name of a reply  *)
(* of any length, whatever came before it.                                  *)
THEOREM MenuWideEnough == Spec => []LongestNetCovers
<1>1. Init => LongestNetCovers
  <2> SUFFICES ASSUME Init PROVE LongestNetCovers
    OBVIOUS
  <2>1. list = <<>>
    BY DEF Init
  <2> QED
    BY <2>1 DEF LongestNetCovers, Named
<1>2. LongestNetCovers /\ TypeInv /\ [Next]_vars => LongestNetCovers'
  BY LongestStep
<1> QED
  BY <1>1, <1>2, TypeInvAlways, PTL DEF Spec

-----------------------------------------------------------------------------
(* The names are lines: inductive once no name lies beyond what was read. *)
IsLine(name) ==
  /\ 1 <= name.from /\ name.from <= name.to /\ name.to <= page.len
  /\ name.to - name.from + 1 < NETWORK_NAME_MAX
  /\ \A p \in name.from .. name.to : p \notin page.nl

Ordered == \A k, l \in Named(list) : k < l => list[k].name.to < list[l].name.from

LinesInv ==
  /\ \A k \in Named(list) : IsLine(list[k].name) /\ list[k].name.to <= pos
  /\ Ordered

(* The piece fgets() read is a line without its newline. *)
LEMMA PieceIsLine ==
  ASSUME TypeInv, NEW q \in Pieces, q - pos > 1
  PROVE  IsLine(Piece(q))
<1>1. /\ q \in Nat /\ pos \in Nat /\ q <= buffer_len /\ q - pos <= NETWORK_NAME_MAX - 1
      /\ Piece(q) \in Name /\ Piece(q).from = pos + 1
      /\ pos + 1 <= Piece(q).to /\ Piece(q).to <= q
  BY PieceBounds, Basics DEF TypeInv
<1>2. Piece(q).to \in Nat /\ buffer_len <= page.len /\ page.len \in Nat /\ buffer_len \in Nat
  BY <1>1, Basics DEF Name
<1>3. /\ 1 <= Piece(q).from /\ Piece(q).from <= Piece(q).to /\ Piece(q).to <= page.len
      /\ Piece(q).to - Piece(q).from + 1 <= q - pos
  BY <1>1, <1>2
<1>4. Piece(q).to - Piece(q).from + 1 < NETWORK_NAME_MAX
  BY <1>1, <1>2, <1>3, NameMaxAssumption
<1>5. \A p \in Piece(q).from .. Piece(q).to : p \notin page.nl
  <2> SUFFICES ASSUME NEW p \in Piece(q).from .. Piece(q).to PROVE p \notin page.nl
    OBVIOUS
  <2>1. \A k \in pos + 1 .. q - 1 : k \notin page.nl
    BY <1>1 DEF Pieces, IsPiece
  <2>2. Piece(q).to = IF q \in page.nl THEN q - 1 ELSE q
    BY DEF Piece
  <2>3. p \in Nat /\ pos + 1 <= p /\ p <= Piece(q).to
    BY <1>1, <1>2
  <2>4. CASE q \in page.nl
    <3>1. p \in pos + 1 .. q - 1
      BY <1>1, <2>2, <2>3, <2>4
    <3> QED
      BY <2>1, <3>1
  <2>5. CASE q \notin page.nl
    <3>1. p = q \/ p \in pos + 1 .. q - 1
      BY <1>1, <2>2, <2>3, <2>5
    <3> QED
      BY <2>1, <2>5, <3>1
  <2> QED
    BY <2>4, <2>5
<1> QED
  BY <1>3, <1>4, <1>5 DEF IsLine

LEMMA LinesStep ==
  ASSUME TypeInv, LinesInv, [Next]_vars
  PROVE  LinesInv'
<1>0. /\ pos \in Nat /\ list \in Seq(Networks)
      /\ \A k \in Named(list) : k \in Nat /\ list[k].name.from \in Nat
                                /\ list[k].name.to \in Nat
  BY Basics DEF Name
<1>1. CASE Untouched
  <2>1. \A k \in Named(list) : list[k].name.to <= pos'
    BY <1>0, <1>1 DEF Untouched, LinesInv
  <2> QED
    BY <1>1, <2>1 DEF Untouched, LinesInv, IsLine, Ordered, Named
<1>2. CASE Shrunk
  <2>1. \A k \in Named(list') : k \in Nat /\ k + 1 \in Named(list) /\ list'[k] = list[k + 1]
    BY <1>0, <1>2, NamedTail DEF Shrunk
  <2>2. \A k \in Named(list') : IsLine(list'[k].name) /\ list'[k].name.to <= pos
    BY <2>1 DEF LinesInv
  <2>3. \A k, l \in Named(list') : k < l => list'[k].name.to < list'[l].name.from
    <3> SUFFICES ASSUME NEW k \in Named(list'), NEW l \in Named(list'), k < l
                 PROVE  list'[k].name.to < list'[l].name.from
      OBVIOUS
    <3>1. k + 1 < l + 1
      BY <2>1
    <3> QED
      BY <2>1, <3>1 DEF LinesInv, Ordered
  <2> QED
    BY <1>2, <2>2, <2>3 DEF Shrunk, LinesInv, IsLine, Ordered, Named
<1>3. ASSUME NEW q \in Pieces, Grown(q) PROVE LinesInv'
  <2>1. /\ Piece(q) \in Name /\ Piece(q).from = pos + 1 /\ Piece(q).to <= q
        /\ q \in Nat /\ pos <= q /\ IsLine(Piece(q))
    BY <1>3, PieceBounds, PieceIsLine, Basics DEF Grown, TypeInv
  <2>2. pos' = q /\ UNCHANGED page
    BY <1>3 DEF Grown
  <2>3. \A k \in Named(list) : list[k].name.to <= q
    BY <1>0, <2>1 DEF LinesInv
  <2>4. CASE UNCHANGED list
    BY <2>2, <2>3, <2>4 DEF LinesInv, IsLine, Ordered, Named
  <2>5. ASSUME NEW name \in {Null, Piece(q)},
               list' = Append(list, [name |-> name, id |-> num])
        PROVE  LinesInv'
    <3>1. name \in Name
      BY <2>1 DEF Null, Name
    <3>2. \A k \in Named(list') :
            /\ k \in Nat
            /\ \/ k \in Named(list) /\ k <= Len(list) /\ list'[k] = list[k]
               \/ k = Len(list) + 1 /\ list'[k].name = Piece(q)
      BY <2>5, <3>1, NamedGrown
    <3>3. \A k \in Named(list') : IsLine(list'[k].name) /\ list'[k].name.to <= q
      BY <2>1, <2>3, <3>2 DEF LinesInv
    <3>4. \A k, l \in Named(list') : k < l => list'[k].name.to < list'[l].name.from
      <4> SUFFICES ASSUME NEW k \in Named(list'), NEW l \in Named(list'), k < l
                   PROVE  list'[k].name.to < list'[l].name.from
        OBVIOUS
      <4>1. Len(list) \in Nat /\ k \in Nat /\ l \in Nat
        BY <1>0, <3>2
      <4>2. k \in Named(list) /\ list'[k] = list[k]
        <5>1. l <= Len(list) + 1
          BY <3>2, <4>1
        <5>2. k # Len(list) + 1
          BY <4>1, <5>1
        <5> QED
          BY <3>2, <5>2
      <4>3. CASE l \in Named(list) /\ list'[l] = list[l]
        BY <4>2, <4>3 DEF LinesInv, Ordered
      <4>4. CASE list'[l].name = Piece(q)
        BY <1>0, <2>1, <4>2, <4>4 DEF LinesInv
      <4> QED
        BY <3>2, <4>3, <4>4
    <3> QED
      BY <2>2, <3>3, <3>4 DEF LinesInv, IsLine, Ordered, Named
  <2> QED
    BY <1>3, <2>4, <2>5 DEF Grown
<1> QED
  BY <1>1, <1>2, <1>3, ListSteps

(* The names are parts of lines of the reply, in order, without overlap and *)
(* within the buffer of fgets(), for every reply and every size of buffer.  *)
THEOREM LinesBecomeNames == Spec => []NamesAreLines
<1>1. Init => LinesInv
  <2> SUFFICES ASSUME Init PROVE LinesInv
    OBVIOUS
  <2>1. list = <<>>
    BY DEF Init
  <2> QED
    BY <2>1 DEF LinesInv, Ordered, Named
<1>2. LinesInv /\ TypeInv /\ [Next]_vars => LinesInv'
  BY LinesStep
<1>3. LinesInv => NamesAreLines
  BY DEF LinesInv, Ordered, IsLine, NamesAreLines
<1> QED
  BY <1>1, <1>2, <1>3, TypeInvAlways, PTL DEF Spec

-----------------------------------------------------------------------------
(* The answer about updates: inductive with where it may be on the screen,  *)
(* and with what a request that succeeded has received.                     *)
ToldInv ==
  /\ msg # "none" => pc \in {"menus", "final", "done"}
  /\ rq = "ok" => size = rep.len
  /\ UpdateTruthful

LEMMA RequestComplete ==
  ASSUME rq = "ok" => size = rep.len,
         \/ Curl!FromNetwork \/ Curl!TimedOut
         \/ \E m, r : Curl!Start(m, r) \/ Curl!StartFails(m, r)
  PROVE  rq' = "ok" => size' = rep'.len
<1>1. CASE Curl!Complete
  BY <1>1 DEF Curl!Complete, Curl!EndWith
<1>2. CASE Curl!Receive
  <2>1. rq' = "transfer"
    BY <1>2 DEF Curl!Receive
  <2> QED
    BY <2>1
<1>3. CASE Curl!ReceiveFails \/ Curl!CopyPastEnd \/ Curl!Broken \/ Curl!TimedOut
  <2>1. rq' \in {"failed", "crashed"}
    BY <1>3 DEF Curl!ReceiveFails, Curl!CopyPastEnd, Curl!Broken, Curl!TimedOut,
                Curl!EndWith
  <2> QED
    BY <2>1
<1>4. CASE \E m, r : Curl!Start(m, r) \/ Curl!StartFails(m, r)
  <2>1. rq' \in {"transfer", "failed"}
    BY <1>4 DEF Curl!Start, Curl!StartFails
  <2> QED
    BY <2>1
<1> QED
  BY <1>1, <1>2, <1>3, <1>4 DEF Curl!FromNetwork

LEMMA ToldStep ==
  ASSUME ToldInv, [Next]_vars
  PROVE  ToldInv'
<1>1. CASE AskNetworks \/ OnNetwork \/ OnTimeout \/ AskVersion
  <2>1. rq' = "ok" => size' = rep'.len
    <3>1. \/ Curl!FromNetwork \/ Curl!TimedOut
          \/ \E m, r : Curl!Start(m, r) \/ Curl!StartFails(m, r)
      BY <1>1 DEF AskNetworks, OnNetwork, OnTimeout, AskVersion
    <3> QED
      BY <3>1, RequestComplete DEF ToldInv
  <2>2. msg' = "none"
    BY <1>1 DEF AskNetworks, OnNetwork, OnTimeout, AskVersion, local, ToldInv
  <2> QED
    BY <2>1, <2>2 DEF ToldInv, UpdateTruthful
<1>2. CASE TellVersion
  <2>1. /\ pc' = "menus" /\ UNCHANGED <<rq, size, rep>>
        /\ msg' = IF rq = "ok" /\ rep.version > CNODE_BUILD_VERSION
                    THEN "update available" ELSE "no updates available"
    BY <1>2 DEF TellVersion, curlv
  <2>2. Newer' <=> rq = "ok" /\ rep.version > CNODE_BUILD_VERSION
    BY <2>1 DEF Newer, ToldInv
  <2>3. UpdateTruthful'
    BY <2>1, <2>2 DEF UpdateTruthful
  <2> QED
    BY <2>1, <2>3 DEF ToldInv
<1>3. CASE Offline \/ EmptyReply \/ OddCharacter \/ OpenText \/ OpenTextFails
           \/ SkipPiece \/ Add \/ AddUnnamed \/ AddFails \/ Fetched
           \/ SetUp \/ SetUpFails \/ LoadEntry \/ LoadFails \/ Loaded \/ Crash
  <2>1. pc \in {"request", "read", "fetched", "load", "checking"}
    BY <1>3 DEF Offline, EmptyReply, OddCharacter, OpenText, OpenTextFails, Online,
                SkipPiece, Add, AddUnnamed, AddFails, Evaluate, Fetched,
                SetUp, SetUpFails, LoadEntry, LoadFails, Loaded, Turn, Crash
  <2>2. msg = "none" /\ UNCHANGED <<msg, rq, size, rep>>
    <3>1. UNCHANGED <<msg, rq, size, rep>>
      BY <1>3 DEF Offline, EmptyReply, OddCharacter, OpenText, OpenTextFails,
                  SkipPiece, Add, AddUnnamed, AddFails, Evaluate, Fetched,
                  SetUp, SetUpFails, LoadEntry, LoadFails, Loaded, Crash, local, curlv
    <3> QED
      BY <2>1, <3>1 DEF ToldInv
  <2> QED
    BY <2>2 DEF ToldInv, UpdateTruthful
<1>4. CASE LeaveMenus \/ FreeFirst \/ Freed
  <2>1. pc' \in {"final", "done"} /\ UNCHANGED <<msg, rq, size, rep>>
    BY <1>4 DEF LeaveMenus, FreeFirst, Freed, local, curlv
  <2> QED
    BY <2>1 DEF ToldInv, UpdateTruthful, Newer
<1>5. CASE LoadNull \/ UNCHANGED vars
  <2>1. UNCHANGED <<pc, msg, rq, size, rep>>
    BY <1>5 DEF LoadNull, vars, local, curlv
  <2> QED
    BY <2>1 DEF ToldInv, UpdateTruthful, Newer
<1> QED
  BY <1>1, <1>2, <1>3, <1>4, <1>5 DEF Next, Program, Outside

(* Whatever the repository names as the current version, and however the    *)
(* connection ends, an update is announced exactly when a complete reply    *)
(* named a later one.                                                       *)
THEOREM AnnouncedUpdatesReal == Spec => []UpdateTruthful
<1>1. Init => ToldInv
  <2> SUFFICES ASSUME Init PROVE ToldInv
    OBVIOUS
  <2>1. msg = "none" /\ rq = "idle"
    BY DEF Init, Curl!CurlInit
  <2> QED
    BY <2>1 DEF ToldInv, UpdateTruthful
<1>2. ToldInv /\ [Next]_vars => ToldInv'
  BY ToldStep
<1>3. ToldInv => UpdateTruthful
  BY DEF ToldInv
<1> QED
  BY <1>1, <1>2, <1>3, PTL DEF Spec

-----------------------------------------------------------------------------
(* The menu points into the list: inductive with the places at which it has *)
(* entries, none of which frees the list.                                   *)
EntriesInv ==
  /\ \A k \in DOMAIN entries : entries[k] = k /\ k \in Named(list)
  /\ entries # <<>> => pc \in {"load", "menus", "checking", "crashed"}

LEMMA EntriesStep ==
  ASSUME TypeInv, EntriesInv, [Next]_vars
  PROVE  EntriesInv'
<1>0. entries \in Seq(Nat) /\ list \in Seq(Networks)
  BY Basics DEF TypeInv, TypeOK
<1>1. CASE entries = <<>> /\ UNCHANGED entries
  <2>1. entries' = <<>> /\ DOMAIN entries' = {}
    BY <1>1
  <2> QED
    BY <2>1 DEF EntriesInv
<1>2. CASE LoadEntry
  <2>1. /\ pc = "load" /\ Len(entries) < Len(list) /\ list[At].name # Null
        /\ entries' = Append(entries, At) /\ UNCHANGED <<pc, list>>
    BY <1>2 DEF LoadEntry, Turn, net
  <2>2. At = Len(entries) + 1 /\ At \in Nat /\ At \in DOMAIN list
    BY <1>0, <2>1 DEF At
  <2>3. At \in Named(list)
    BY <2>1, <2>2 DEF Named
  <2>4. \A k \in DOMAIN entries' :
          \/ k = At
          \/ k \in DOMAIN entries /\ entries'[k] = entries[k]
    <3>1. DOMAIN entries' = 1 .. At /\ DOMAIN entries = 1 .. Len(entries) /\ Len(entries) \in Nat
      BY <1>0, <2>1, <2>2
    <3>2. \A k \in 1 .. Len(entries) : entries'[k] = entries[k]
      BY <1>0, <2>1, <2>2
    <3>3. \A k \in 1 .. At : k = At \/ k \in 1 .. Len(entries)
      BY <2>2, <3>1
    <3>4. \A k \in 1 .. At : \/ k = At
                             \/ k \in 1 .. Len(entries) /\ entries'[k] = entries[k]
      BY <3>2, <3>3
    <3> QED
      BY ONLY <3>1, <3>4
  <2>5. entries'[At] = At
    BY <1>0, <2>1, <2>2
  <2>6. \A k \in DOMAIN entries' : entries'[k] = k /\ k \in Named(list)
    BY <2>3, <2>4, <2>5 DEF EntriesInv
  <2> QED
    BY <2>1, <2>6 DEF EntriesInv, Named
<1>3. CASE LeaveMenus
  <2>1. entries' = <<>> /\ list' = list
    BY <1>3 DEF LeaveMenus, net
  <2>2. DOMAIN entries' = {}
    BY <2>1
  <2> QED
    BY <2>1, <2>2 DEF EntriesInv
<1>4. CASE /\ UNCHANGED <<entries, list>>
           /\ \/ UNCHANGED pc
              \/ pc' \in {"load", "menus", "checking", "crashed"}
  BY <1>4 DEF EntriesInv, Named
<1>5. CASE OnNetwork \/ OnTimeout \/ LoadNull \/ LoadFails \/ Loaded \/ AskVersion
           \/ TellVersion \/ Crash \/ SetUp \/ UNCHANGED vars
  BY <1>4, <1>5 DEF OnNetwork, OnTimeout, LoadNull, LoadFails, Loaded, AskVersion,
                    TellVersion, Crash, SetUp, net, local, vars
<1>6. CASE AskNetworks \/ Offline \/ EmptyReply \/ OddCharacter \/ OpenText
           \/ OpenTextFails \/ SkipPiece \/ Add \/ AddUnnamed \/ AddFails \/ Fetched
           \/ SetUpFails \/ FreeFirst \/ Freed
  <2>1. pc \notin {"load", "menus", "checking", "crashed"}
    BY <1>6 DEF AskNetworks, Offline, EmptyReply, OddCharacter, OpenText, OpenTextFails,
                Online, SkipPiece, Add, AddUnnamed, AddFails, Evaluate, Fetched,
                SetUpFails, FreeFirst, Freed
  <2>2. UNCHANGED entries
    BY <1>6 DEF AskNetworks, Offline, EmptyReply, OddCharacter, OpenText, OpenTextFails,
                SkipPiece, Add, AddUnnamed, AddFails, Evaluate, Fetched,
                SetUpFails, FreeFirst, Freed, local
  <2> QED
    BY <1>1, <2>1, <2>2 DEF EntriesInv
<1> QED
  BY <1>2, <1>3, <1>5, <1>6 DEF Next, Program, Outside

(* Without an error on record nothing was left out: the counts agree. *)
Counted ==
  /\ pc = "read" => Len(list) = num
  /\ pc \in {"fetched", "load", "menus", "checking"} => n_networks = Len(list)
  /\ pc \in {"menus", "checking"} => Len(entries) = Len(list)

CountInv == err \/ Counted

LEMMA CountStep ==
  ASSUME TypeInv, EntriesInv, CountInv, [Next]_vars
  PROVE  CountInv'
<1>0. /\ entries \in Seq(Nat) /\ list \in Seq(Networks) /\ num \in Nat
      /\ Len(list) \in Nat /\ Len(entries) \in Nat /\ Len(list) <= num
  <2>1. entries \in Seq(Nat) /\ list \in Seq(Networks) /\ num \in Nat /\ Len(list) <= num
    BY Basics DEF TypeInv, TypeOK
  <2> HIDE DEF Networks
  <2> QED
    BY <2>1
<1>1. CASE AskNetworks \/ Offline \/ OddCharacter
  <2>1. Len(list) = 0
    <3>1. pc \in {"start", "request"}
      BY <1>1 DEF AskNetworks, Offline, OddCharacter, Online
    <3>2. num = 0
      BY <3>1 DEF TypeInv, NotRead
    <3> QED
      BY <1>0, <3>2
  <2>2. UNCHANGED list
    BY <1>1 DEF AskNetworks, Offline, OddCharacter, net
  <2>3. \/ pc' = "request"
        \/ pc' = "fetched" /\ n_networks' = 0
    BY <1>1 DEF AskNetworks, Offline, OddCharacter
  <2> QED
    BY <2>1, <2>2, <2>3 DEF CountInv, Counted
<1>2. CASE EmptyReply \/ OpenTextFails \/ AddFails \/ SetUpFails \/ LoadFails
  <2>1. err' = TRUE
    BY <1>2 DEF EmptyReply, OpenTextFails, AddFails, SetUpFails, LoadFails
  <2> QED
    BY <2>1 DEF CountInv
<1>3. CASE OpenText
  <2>1. pc' = "read" /\ UNCHANGED <<list, num>> /\ pc = "request"
    BY <1>3 DEF OpenText, Online
  <2>2. num = 0
    BY <2>1 DEF TypeInv, NotRead
  <2>3. Len(list') = num'
    BY <1>0, <2>1, <2>2
  <2> QED
    BY <2>1, <2>3 DEF CountInv, Counted
<1>4. CASE Add \/ AddUnnamed
  <2>1. PICK q \in Pieces : Evaluate(q)
    BY <1>4 DEF Add, AddUnnamed
  <2>2. \E name \in Name : list' = Append(list, [name |-> name, id |-> num])
    <3>1. \A r \in Pieces : Evaluate(r) => Piece(r) \in Name
      BY PieceBounds DEF Evaluate, TypeInv
    <3>2. Null \in Name
      BY DEF Null, Name
    <3> QED
      BY <1>4, <3>1, <3>2 DEF Add, AddUnnamed
  <2>3. Len(list') = Len(list) + 1
    <3>1. PICK e \in Networks : list' = Append(list, e)
      BY <1>0, <2>2 DEF Networks
    <3> HIDE DEF Networks
    <3> QED
      BY <1>0, <3>1
  <2>4. pc = "read" /\ pc' = "read" /\ num' = num + 1
    BY <2>1 DEF Evaluate
  <2>5. UNCHANGED err
    BY <1>4 DEF Add, AddUnnamed
  <2>6. CASE err
    BY <2>5, <2>6 DEF CountInv
  <2>7. CASE Len(list) = num
    <3>1. Len(list') = num'
      BY <2>3, <2>4, <2>7
    <3> QED
      BY <2>4, <3>1 DEF CountInv, Counted
  <2> QED
    BY <2>4, <2>6, <2>7 DEF CountInv, Counted
<1>5. CASE Fetched
  <2>1. pc = "read" /\ pc' = "fetched" /\ n_networks' = num /\ UNCHANGED <<list, err>>
    BY <1>5 DEF Fetched
  <2> QED
    BY <2>1 DEF CountInv, Counted
<1>6. CASE Loaded
  <2>1. pc = "load" /\ pc' = "menus" /\ UNCHANGED <<list, n_networks, entries, err>>
    BY <1>6 DEF Loaded, net, local
  <2>2. Len(entries) = Len(list)
    <3>1. ~(Len(entries) < Len(list))
      BY <1>6, <2>1 DEF Loaded, Turn
    <3>2. Len(entries) <= Len(list)
      <4>1. CASE Len(entries) = 0
        BY <1>0, <4>1
      <4>2. CASE Len(entries) > 0
        <5>1. Len(entries) \in DOMAIN entries
          BY <1>0, <4>2
        <5>2. Len(entries) \in DOMAIN list
          BY <5>1 DEF EntriesInv, Named
        <5> QED
          BY <1>0, <5>2
      <4> QED
        BY <1>0, <4>1, <4>2
    <3> QED
      BY <1>0, <3>1, <3>2
  <2> QED
    BY <2>1, <2>2 DEF CountInv, Counted
<1>7. CASE SetUp \/ LoadEntry
  <2>1. pc \in {"fetched", "load"} /\ pc' = "load"
    BY <1>7 DEF SetUp, LoadEntry, Turn
  <2>2. UNCHANGED <<list, n_networks, err>>
    BY <1>7 DEF SetUp, LoadEntry, net
  <2> QED
    BY <2>1, <2>2 DEF CountInv, Counted
<1>8. CASE AskVersion \/ TellVersion
  <2>1. pc \in {"menus", "checking"} /\ UNCHANGED <<list, n_networks, entries>>
    BY <1>8 DEF AskVersion, TellVersion, net
  <2>2. err' = TRUE \/ UNCHANGED err
    BY <1>8 DEF AskVersion, TellVersion, Curl!Start, Curl!StartFails
  <2>3. CASE Counted
    <3>1. n_networks = Len(list) /\ Len(entries) = Len(list)
      BY <2>1, <2>3 DEF Counted
    <3>2. pc' # "read"
      BY <1>8 DEF AskVersion, TellVersion
    <3>3. Counted'
      BY <2>1, <3>1, <3>2 DEF Counted
    <3> QED
      BY <3>3 DEF CountInv
  <2> QED
    BY <2>2, <2>3 DEF CountInv
<1>9. CASE OnNetwork \/ OnTimeout
  <2>1. UNCHANGED <<pc, list, n_networks, entries, num>>
    BY <1>9 DEF OnNetwork, OnTimeout, net, local
  <2>2. err' = TRUE \/ UNCHANGED err
    BY <1>9 DEF OnNetwork, OnTimeout, Curl!FromNetwork, Curl!Receive, Curl!ReceiveFails,
                Curl!Complete, Curl!CopyPastEnd, Curl!Broken, Curl!TimedOut
  <2> QED
    BY <2>1, <2>2 DEF CountInv, Counted
<1>10. CASE Crash \/ LeaveMenus \/ FreeFirst \/ Freed
  <2>1. pc' \in {"crashed", "final", "done"}
    BY <1>10 DEF Crash, LeaveMenus, FreeFirst, Freed
  <2> QED
    BY <2>1 DEF CountInv, Counted
<1>11. CASE SkipPiece \/ LoadNull \/ UNCHANGED vars
  <2>1. UNCHANGED <<pc, list, n_networks, entries, num, err>>
    BY <1>11 DEF SkipPiece, LoadNull, vars, net, local
  <2> QED
    BY <2>1 DEF CountInv, Counted
<1> QED
  BY <1>1, <1>2, <1>3, <1>4, <1>5, <1>6, <1>7, <1>8, <1>9, <1>10, <1>11
     DEF Next, Program, Outside

(* An entry of the menu never shows a name that is freed or was never       *)
(* allocated, and without an error on record none is missing, for any       *)
(* number of networks.                                                      *)
THEOREM MenuFollowsList == Spec => []MenuMatchesList
<1>1. Init => EntriesInv /\ CountInv
  <2> SUFFICES ASSUME Init PROVE EntriesInv /\ CountInv
    OBVIOUS
  <2>1. entries = <<>> /\ list = <<>> /\ pc = "start"
    BY DEF Init
  <2> QED
    BY <2>1 DEF EntriesInv, CountInv, Counted
<1>2. EntriesInv /\ CountInv /\ TypeInv /\ [Next]_vars => EntriesInv' /\ CountInv'
  BY EntriesStep, CountStep
<1>3. EntriesInv /\ CountInv => MenuMatchesList
  BY DEF EntriesInv, CountInv, Counted, MenuMatchesList
<1> QED
  BY <1>1, <1>2, <1>3, TypeInvAlways, PTL DEF Spec
-----------------------------------------------------------------------------
(* How many steps the request under way takes, and how many the program is *)
(* from the menus, from its answer about updates, or from its end, at most. *)
RequestLeft ==
  IF rq = "transfer" THEN 2 * (rep.len - size) + (IF response THEN 1 ELSE 2) ELSE 0

StepsLeft ==
  CASE pc = "start"    -> 4 * page.len + 7
    [] pc = "request"  -> RequestLeft + 2 * page.len + 4
    [] pc = "read"     -> 2 * (buffer_len - pos) + Len(list) + 3
    [] pc = "fetched"  -> Len(list) + 2
    [] pc = "load"     -> Len(list) - Len(entries) + 1
    [] pc = "checking" -> RequestLeft + 1
    [] pc = "final"    -> Len(list) + 1
    [] OTHER           -> 0

MostSteps == IF pc = "checking" THEN 2 * rep.len + 3 ELSE 4 * page.len + 7

RequestBounded == rep.len \in Nat /\ RequestLeft \in 0 .. 2 * rep.len + 2

(* The list is no longer than what was read, the menu no longer than the    *)
(* list.                                                                    *)
Lengths ==
  /\ page.len \in Nat /\ buffer_len \in 0 .. page.len /\ pos \in 0 .. buffer_len
  /\ Len(list) \in 0 .. pos /\ Len(entries) \in 0 .. Len(list)

(* The arithmetic of the bounds, for the length l of a reply, the steps x   *)
(* and y a request takes, the places p and q in a text of length b, and the *)
(* lengths n and m of the list.                                             *)
LEMMA Bounds ==
  /\ \A x, l \in Nat : x <= 2 * l + 2 => x + 2 * l + 4 \in 0 .. 4 * l + 7
  /\ \A x, l \in Nat : x <= 2 * l + 2 => x + 1 \in 0 .. 2 * l + 3
  /\ \A l, b, p, n \in Nat :
       n <= p /\ p <= b /\ b <= l => 2 * (b - p) + n + 3 \in 0 .. 4 * l + 7
BY SMT

LEMMA Nearer ==
  /\ \A x, l \in Nat : x <= 2 * l + 2 => x + 2 * l + 4 < 4 * l + 7
  /\ \A x, y, l \in Nat : y < x => y + 2 * l + 4 < x + 2 * l + 4
  /\ \A x, y \in Nat : y < x => y + 1 < x + 1
  /\ \A x, l \in Nat : 0 + 2 < x + 2 * l + 4
  /\ \A x, l, b \in Nat : b <= l => 2 * (b - 0) + 0 + 3 < x + 2 * l + 4
  /\ \A b, p, q, n \in Nat : p < q => 2 * (b - q) + n + 3 < 2 * (b - p) + n + 3
  /\ \A b, p, q, n, m \in Nat :
       p + 1 < q /\ m <= n + 1 => 2 * (b - q) + m + 3 < 2 * (b - p) + n + 3
BY SMT

LEMMA RequestLeftBounded == TypeInv => RequestBounded
<1> SUFFICES ASSUME TypeInv PROVE RequestBounded
  OBVIOUS
<1>1. rep.len \in Nat /\ size \in 0 .. rep.len
  BY RepliesTyped, TypesByPart DEF TypeInv, CurlTypes, Curl!CurlTypeOK
<1> QED
  BY <1>1 DEF RequestLeft, RequestBounded

LEMMA ListLengths == TypeInv /\ MenuMatchesList => Lengths
<1> SUFFICES ASSUME TypeInv, MenuMatchesList PROVE Lengths
  OBVIOUS
<1>1. /\ page.len \in Nat /\ buffer_len \in 0 .. page.len
      /\ list \in Seq(Networks)
  BY Basics
<1>2. /\ pos \in 0 .. buffer_len /\ num \in 0 .. pos
      /\ Len(list) <= num /\ entries \in Seq(Nat)
  BY DEF TypeInv, TypeOK
<1>3. Len(list) \in 0 .. pos
  BY <1>1, <1>2
<1>4. Len(entries) \in 0 .. Len(list)
  <2>1. CASE Len(entries) = 0
    BY <1>3, <2>1
  <2>2. CASE Len(entries) > 0
    <3>1. Len(entries) \in DOMAIN entries
      BY <1>2, <2>2
    <3>2. Len(entries) \in DOMAIN list
      BY <3>1 DEF MenuMatchesList, Named
    <3> QED
      BY <1>1, <3>2
  <2> QED
    BY <1>2, <2>1, <2>2
<1> QED
  BY <1>1, <1>2, <1>3, <1>4 DEF Lengths

LEMMA StepsLeftBounded ==
  ASSUME TypeInv, Lengths, RequestBounded
  PROVE  StepsLeft \in 0 .. MostSteps
<1>1. rep.len \in Nat /\ RequestLeft \in 0 .. 2 * rep.len + 2
  BY DEF RequestBounded
<1>2. pc \in {"start", "request"} => rep = page
  BY DEF TypeInv, NotRead
<1>3. /\ page.len \in Nat /\ buffer_len \in 0 .. page.len /\ pos \in 0 .. buffer_len
      /\ Len(list) \in 0 .. pos /\ Len(entries) \in 0 .. Len(list)
  BY DEF Lengths
<1>4. CASE pc = "start"
  BY <1>3, <1>4 DEF StepsLeft, MostSteps
<1>5. CASE pc = "request"
  <2>1. RequestLeft \in Nat /\ RequestLeft <= 2 * page.len + 2
    BY <1>1, <1>2, <1>5
  <2>2. StepsLeft = RequestLeft + 2 * page.len + 4 /\ MostSteps = 4 * page.len + 7
    BY <1>5 DEF StepsLeft, MostSteps
  <2> QED
    BY ONLY <1>3, <2>1, <2>2, Bounds, Zenon
<1>6. CASE pc = "checking"
  <2>1. RequestLeft \in Nat /\ RequestLeft <= 2 * rep.len + 2
    BY ONLY <1>1
  <2>2. StepsLeft = RequestLeft + 1 /\ MostSteps = 2 * rep.len + 3
    BY <1>6 DEF StepsLeft, MostSteps
  <2> QED
    BY ONLY <1>1, <2>1, <2>2, Bounds, Zenon
<1>7. CASE pc = "read"
  <2>1. /\ StepsLeft = 2 * (buffer_len - pos) + Len(list) + 3
        /\ MostSteps = 4 * page.len + 7
    BY <1>7 DEF StepsLeft, MostSteps
  <2>2. /\ buffer_len \in Nat /\ pos \in Nat /\ pos <= buffer_len /\ buffer_len <= page.len
        /\ Len(list) \in Nat /\ Len(list) <= pos
    BY ONLY <1>3
  <2> QED
    BY ONLY <1>3, <2>1, <2>2, Bounds, Zenon
<1>8. CASE pc \in {"fetched", "load", "final"}
  BY <1>3, <1>8 DEF StepsLeft, MostSteps
<1>9. CASE pc \notin {"start", "request", "checking", "read", "fetched", "load", "final"}
  BY <1>3, <1>9 DEF StepsLeft, MostSteps
<1> QED
  BY <1>4, <1>5, <1>6, <1>7, <1>8, <1>9

(* The request comes nearer to its end with every call of the callback.     *)
LEMMA RequestNearer ==
  ASSUME TypeInv, Curl!FromNetwork \/ Curl!TimedOut,
         ~UNCHANGED <<rq, max, rep, size, response, got, err>>
  PROVE  RequestLeft' < RequestLeft
<1>0. rep.len \in Nat /\ size \in 0 .. rep.len /\ response \in BOOLEAN
  BY RepliesTyped, TypesByPart DEF TypeInv, CurlTypes, Curl!CurlTypeOK
<1>1. CASE Curl!Receive
  <2>1. rq = "transfer" /\ response' = TRUE /\ UNCHANGED <<rq, max, rep, got, err>>
    BY <1>1 DEF Curl!Receive
  <2>2. CASE \E n \in 1 .. rep.len - size : size' = size + n
    <3>1. PICK n \in 1 .. rep.len - size : size' = size + n
      BY <2>2
    <3>2. n \in Nat /\ n >= 1 /\ n <= rep.len - size
      BY <1>0, <3>1
    <3> QED
      BY <1>0, <2>1, <3>1, <3>2 DEF RequestLeft
  <2>3. CASE UNCHANGED size
    <3>1. ~response
      BY <1>0, <2>1, <2>3
    <3> QED
      BY <1>0, <2>1, <2>3, <3>1 DEF RequestLeft
  <2> QED
    BY <1>1, <2>2, <2>3 DEF Curl!Receive
<1>2. CASE \E how \in {"ok", "failed", "crashed"} : Curl!EndWith(how)
  <2>1. rq = "transfer" /\ rq' # "transfer"
    BY <1>2 DEF Curl!EndWith
  <2> QED
    BY <1>0, <2>1 DEF RequestLeft
<1> QED
  BY <1>1, <1>2 DEF Curl!FromNetwork, Curl!TimedOut, Curl!ReceiveFails, Curl!Complete,
                    Curl!CopyPastEnd, Curl!Broken

(* Whatever the server sends and however the connection ends, a step that   *)
(* changes anything brings the start nearer to the menus, the check for     *)
(* updates to its answer and the cleanup to its end.  There are at most     *)
(* seven steps and four for each character of the reply.  With FetchEnds:   *)
(* only a silent server holds the program, or a network without a name, at  *)
(* which the loop turns and changes nothing.                                *)
THEOREM FetchBounded ==
  Spec => [](StepsLeft \in 0 .. MostSteps) /\ [][StepsLeft > 0 => StepsLeft' < StepsLeft]_vars
<1>1. TypeInv /\ Lengths /\ RequestBounded => StepsLeft \in 0 .. MostSteps
  BY StepsLeftBounded
<1>2. TypeInv /\ Lengths /\ Lengths' /\ RequestBounded /\ RequestBounded' /\ [Next]_vars
        => [StepsLeft > 0 => StepsLeft' < StepsLeft]_vars
  <2> SUFFICES ASSUME TypeInv, Lengths, Lengths', RequestBounded, RequestBounded',
                      Next, ~UNCHANGED vars, StepsLeft > 0
               PROVE  StepsLeft' < StepsLeft
    OBVIOUS
  <2>0. /\ page.len \in Nat /\ buffer_len \in Nat /\ buffer_len <= page.len
        /\ pos \in Nat /\ pos <= buffer_len
        /\ Len(list) \in Nat /\ Len(list) <= pos
        /\ Len(entries) \in Nat /\ Len(entries) <= Len(list)
    BY DEF Lengths
  <2>a. /\ page'.len \in Nat /\ buffer_len' \in Nat /\ buffer_len' <= page'.len
        /\ pos' \in Nat /\ pos' <= buffer_len'
        /\ Len(list') \in Nat /\ Len(list') <= pos'
        /\ Len(entries') \in Nat
    BY DEF Lengths
  <2>b. RequestLeft \in Nat /\ RequestLeft' \in Nat
    BY DEF RequestBounded
  <2>1. CASE AskNetworks
    <3>1. pc = "start" /\ pc' = "request" /\ page' = page /\ rep' = page
      BY <2>1 DEF AskNetworks, Curl!Start, Curl!StartFails
    <3>2. RequestLeft' <= 2 * page.len + 2
      BY <3>1 DEF RequestBounded
    <3>3. StepsLeft = 4 * page.len + 7 /\ StepsLeft' = RequestLeft' + 2 * page.len + 4
      BY <3>1 DEF StepsLeft
    <3> QED
      BY ONLY <2>0, <2>b, <3>2, <3>3, Nearer, Zenon
  <2>2. CASE OnNetwork \/ OnTimeout
    <3>1. /\ pc \in {"request", "checking"}
          /\ UNCHANGED <<pc, page, net, local, timeout>>
          /\ Curl!FromNetwork \/ Curl!TimedOut
      BY <2>2 DEF OnNetwork, OnTimeout
    <3>2. RequestLeft' < RequestLeft
      <4>1. ~UNCHANGED <<rq, max, rep, size, response, got, err>>
        BY <3>1 DEF vars, curlv
      <4> QED
        BY <3>1, <4>1, RequestNearer
    <3>3. CASE pc = "request"
      <4>1. /\ StepsLeft = RequestLeft + 2 * page.len + 4
            /\ StepsLeft' = RequestLeft' + 2 * page.len + 4
        BY <3>1, <3>3 DEF StepsLeft
      <4> QED
        BY ONLY <2>0, <2>b, <3>2, <4>1, Nearer, Zenon
    <3>4. CASE pc = "checking"
      <4>1. StepsLeft = RequestLeft + 1 /\ StepsLeft' = RequestLeft' + 1
        BY <3>1, <3>4 DEF StepsLeft
      <4> QED
        BY ONLY <2>b, <3>2, <4>1, Nearer, Zenon
    <3> QED
      BY <3>1, <3>3, <3>4
  <2>3. CASE Offline \/ EmptyReply \/ OddCharacter \/ OpenTextFails
    <3>1. /\ pc = "request" /\ pc' = "fetched" /\ list' = list
      BY <2>3 DEF Offline, EmptyReply, OddCharacter, OpenTextFails, Online
    <3>2. pos = 0
      BY <3>1 DEF TypeInv, NotRead
    <3>3. StepsLeft = RequestLeft + 2 * page.len + 4 /\ StepsLeft' = Len(list) + 2
      BY <3>1 DEF StepsLeft
    <3>4. Len(list) = 0
      BY ONLY <2>0, <3>2
    <3>5. 0 + 2 < RequestLeft + 2 * page.len + 4
      BY ONLY <2>0, <2>b, Nearer, Zenon
    <3> QED
      BY ONLY <3>3, <3>4, <3>5, Zenon
  <2>4. CASE OpenText
    <3>1. pc = "request" /\ pc' = "read" /\ list' = list /\ pos' = pos /\ page' = page
      BY <2>4 DEF OpenText, Online
    <3>2. pos = 0
      BY <3>1 DEF TypeInv, NotRead
    <3>3. /\ StepsLeft = RequestLeft + 2 * page.len + 4
          /\ StepsLeft' = 2 * (buffer_len' - pos) + Len(list) + 3
      BY <3>1 DEF StepsLeft
    <3>4. Len(list) = 0 /\ buffer_len' <= page.len
      BY ONLY <2>0, <2>a, <3>1, <3>2
    <3>5. StepsLeft' = 2 * (buffer_len' - 0) + 0 + 3
      BY ONLY <3>2, <3>3, <3>4, Zenon
    <3>6. 2 * (buffer_len' - 0) + 0 + 3 < RequestLeft + 2 * page.len + 4
      BY ONLY <2>0, <2>a, <2>b, <3>4, Nearer, Zenon
    <3> QED
      BY ONLY <3>3, <3>5, <3>6, Zenon
  <2>5. CASE SkipPiece
    <3>1. PICK q \in Pieces : pos' = q
      BY <2>5 DEF SkipPiece
    <3>2. q > pos /\ q \in Nat
      BY <2>0, <3>1 DEF Pieces
    <3>3. pc = "read" /\ pc' = pc /\ list' = list /\ buffer_len' = buffer_len
      BY <2>5 DEF SkipPiece, net
    <3>4. /\ StepsLeft = 2 * (buffer_len - pos) + Len(list) + 3
          /\ StepsLeft' = 2 * (buffer_len - q) + Len(list) + 3
      BY <3>1, <3>3 DEF StepsLeft
    <3>5. pos < q
      BY ONLY <2>0, <3>2
    <3> QED
      BY ONLY <2>0, <3>2, <3>4, <3>5, Nearer, Zenon
  <2>6. CASE Add \/ AddUnnamed \/ AddFails
    <3>1. PICK q \in Pieces : Evaluate(q)
      BY <2>6 DEF Add, AddUnnamed, AddFails
    <3>2. q \in Nat /\ q - pos > 1 /\ pos' = q /\ pc = "read" /\ pc' = pc
          /\ buffer_len' = buffer_len
      BY <2>0, <3>1 DEF Evaluate, Pieces
    <3>3. Len(list') <= Len(list) + 1
      <4>1. list \in Seq(Networks)
        BY Basics
      <4>2. list' = list \/ \E n : list' = Append(list, n)
        BY <2>6 DEF Add, AddUnnamed, AddFails
      <4>3. ASSUME NEW n, list' = Append(list, n) PROVE Len(list') = Len(list) + 1
        BY <4>1, <4>3
      <4> QED
        BY <2>0, <4>2, <4>3
    <3>4. /\ StepsLeft = 2 * (buffer_len - pos) + Len(list) + 3
          /\ StepsLeft' = 2 * (buffer_len - q) + Len(list') + 3
      BY <3>2 DEF StepsLeft
    <3>5. pos + 1 < q
      BY ONLY <2>0, <3>2
    <3> QED
      BY ONLY <2>0, <2>a, <3>2, <3>3, <3>4, <3>5, Nearer, Zenon
  <2>7. CASE Fetched
    <3>1. pc = "read" /\ pos = buffer_len /\ pc' = "fetched" /\ list' = list
      BY <2>7 DEF Fetched
    <3>2. /\ StepsLeft = 2 * (buffer_len - pos) + Len(list) + 3
          /\ StepsLeft' = Len(list) + 2
      BY <3>1 DEF StepsLeft
    <3> QED
      BY ONLY <2>0, <3>2
  <2>8. CASE SetUp \/ SetUpFails
    <3>1. pc = "fetched" /\ pc' \in {"load", "final"} /\ list' = list
      BY <2>8 DEF SetUp, SetUpFails, net
    <3>2. /\ StepsLeft = Len(list) + 2
          /\ StepsLeft' \in {Len(list) - Len(entries') + 1, Len(list) + 1}
      BY <3>1 DEF StepsLeft
    <3> QED
      BY ONLY <2>0, <2>a, <3>2
  <2>9. CASE LoadEntry
    <3>1. /\ pc = "load" /\ pc' = pc /\ list' = list
          /\ entries' = Append(entries, At)
      BY <2>9 DEF LoadEntry, Turn, net
    <3>2. Len(entries') = Len(entries) + 1
      <4>1. entries \in Seq(Nat)
        BY DEF TypeInv, TypeOK
      <4> QED
        BY <3>1, <4>1
    <3>3. /\ StepsLeft = Len(list) - Len(entries) + 1
          /\ StepsLeft' = Len(list) - Len(entries') + 1
      BY <3>1 DEF StepsLeft
    <3> QED
      BY ONLY <2>0, <3>2, <3>3
  <2>10. CASE LoadFails \/ Loaded
    <3>1. pc = "load" /\ pc' = "menus"
      BY <2>10 DEF LoadFails, Loaded, Turn
    <3> QED
      BY <2>0, <3>1 DEF StepsLeft
  <2>11. CASE TellVersion \/ Crash
    <3>1. pc = "checking" /\ pc' \in {"menus", "crashed"}
      BY <2>11 DEF TellVersion, Crash
    <3> QED
      BY <2>b, <3>1 DEF StepsLeft
  <2>12. CASE FreeFirst
    <3>1. pc = "final" /\ pc' = pc /\ list # <<>> /\ list' = Tail(list)
      BY <2>12 DEF FreeFirst
    <3>2. Len(list') = Len(list) - 1
      <4>1. list \in Seq(Networks)
        BY Basics
      <4> QED
        BY <3>1, <4>1
    <3>3. StepsLeft = Len(list) + 1 /\ StepsLeft' = Len(list') + 1
      BY <3>1 DEF StepsLeft
    <3> QED
      BY ONLY <2>0, <3>2, <3>3
  <2>13. CASE Freed
    <3>1. pc = "final" /\ pc' = "done"
      BY <2>13 DEF Freed
    <3> QED
      BY <2>0, <3>1 DEF StepsLeft
  <2>14. CASE LoadNull
    BY <2>14 DEF LoadNull
  <2>15. CASE AskVersion \/ LeaveMenus
    BY <2>15 DEF AskVersion, LeaveMenus, StepsLeft
  <2> QED
    BY <2>1, <2>2, <2>3, <2>4, <2>5, <2>6, <2>7, <2>8, <2>9, <2>10, <2>11, <2>12,
       <2>13, <2>14, <2>15 DEF Next, Program, Outside
<1> QED
  BY <1>1, <1>2, TypeInvAlways, MenuFollowsList, ListLengths, RequestLeftBounded, PTL DEF Spec
=============================================================================
