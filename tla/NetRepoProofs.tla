---------------------------- MODULE NetRepoProofs ---------------------------
(***************************************************************************)
(* NetList implements NetRepo: with the characters, pieces and turns of a  *)
(* fetch hidden, the program learns all networks of a complete reply, or   *)
(* none, and a part of them only when memory ran out.  For replies of any  *)
(* length and every room for a name.                                       *)
(***************************************************************************)
EXTENDS NetListProofs, FiniteSetTheorems

(* Before the reply is read no allocation for the list failed, and what a   *)
(* request that succeeded hands over is all of the reply.                   *)
Asked ==
  /\ pc \in {"start", "request"} => ~lost
  /\ rq = "ok" => got = rep.len

(* The character at pos + 1 is where a piece of a line begins. *)
AtPiece ==
  \E s \in 1 .. pos + 1, n \in 0 .. pos :
    Repo!InLineFrom(page, s, pos + 1) /\ pos + 1 = s + n * (NETWORK_NAME_MAX - 1)

(* The names that end before pos have been counted, and each is in the list *)
(* with its number, unless an allocation failed for it.                     *)
Entry(n) == (lost /\ n.name = Null) \/ Repo!IsNetwork(page, n)

Listed(k) == list[k].id < num /\ Entry(list[k])

Complete ==
  /\ Len(list) = num
  /\ \A p \in Repo!Starts(page) :
       p <= pos => \E k \in DOMAIN list : list[k].name.from = p

Reading ==
  /\ buffer_len = page.len /\ page.clean /\ status
  /\ pos < page.len => AtPiece
  /\ num = Repo!StartsBefore(page, pos + 1)
  /\ Repo!InOrder(list)
  /\ \A k \in DOMAIN list : Listed(k)
  /\ lost \/ Complete

FetchInv == Asked /\ (pc = "read" => Reading)

-----------------------------------------------------------------------------
(* Where names start. *)
LEMMA Multiples ==
  ASSUME NEW K \in Nat, NEW s \in Int, NEW m \in Nat, NEW n \in Nat, NEW d \in 1 .. K - 1
  PROVE  s + m * K # s + n * K + d
<1>1. m * K \in Int /\ n * K \in Int /\ (m - n) * K = m * K - n * K
  OBVIOUS
<1>2. CASE m <= n
  <2>1. (n - m) * K >= 0
    <3>1. n - m \in Nat
      BY <1>2
    <3> QED
      BY <3>1
  <2>2. (n - m) * K = n * K - m * K
    OBVIOUS
  <2> QED
    BY <1>1, <2>1, <2>2
<1>3. CASE m > n
  <2>1. PICK i \in Nat : m - n = i + 1
    <3>1. m - n - 1 \in Nat
      BY <1>3
    <3> QED
      BY <3>1
  <2>2. (i + 1) * K = i * K + K /\ i * K >= 0 /\ i * K \in Int
    BY <2>1
  <2> QED
    BY <1>1, <2>1, <2>2
<1> QED
  BY <1>2, <1>3

LEMMA SameLine ==
  ASSUME NEW r, NEW p \in Nat, NEW s \in 1 .. p, NEW t \in 1 .. p,
         Repo!InLineFrom(r, s, p), Repo!InLineFrom(r, t, p)
  PROVE  s = t
<1>1. ~(s < t)
  <2> SUFFICES ASSUME s < t PROVE FALSE
    OBVIOUS
  <2>1. t - 1 \in s .. p - 1 /\ t # 1
    OBVIOUS
  <2> QED
    BY <2>1 DEF Repo!InLineFrom
<1>2. ~(t < s)
  <2> SUFFICES ASSUME t < s PROVE FALSE
    OBVIOUS
  <2>1. s - 1 \in t .. p - 1 /\ s # 1
    OBVIOUS
  <2> QED
    BY <2>1 DEF Repo!InLineFrom
<1> QED
  BY <1>1, <1>2

LEMMA SameCardinality == \A S : Repo!Cardinality(S) = Cardinality(S)
  BY Zenon DEF Repo!Cardinality, Cardinality

LEMMA StartsFinite ==
  ASSUME NEW r, r.len \in Nat
  PROVE  /\ Repo!Starts(r) \subseteq 1 .. r.len
         /\ \A p : IsFiniteSet({s \in Repo!Starts(r) : s < p})
<1>1. Repo!Starts(r) \subseteq 1 .. r.len
  BY DEF Repo!Starts
<1>2. 1 \in Int /\ r.len \in Int
  OBVIOUS
<1>3. IsFiniteSet(1 .. r.len)
  BY <1>2, FS_Interval, Zenon
<1>4. ASSUME NEW p PROVE IsFiniteSet({s \in Repo!Starts(r) : s < p})
  <2>1. {s \in Repo!Starts(r) : s < p} \in SUBSET (1 .. r.len)
    BY <1>1
  <2> QED
    BY <1>3, <2>1, FS_Subset, Zenon
<1> QED
  BY <1>1, <1>4

(* What is counted when a piece from p + 1 to q is read. *)
LEMMA CountPiece ==
  ASSUME NEW r, r.len \in Nat, NEW p \in Nat, NEW q \in Nat, p < q,
         \A x \in p + 2 .. q : x \notin Repo!Starts(r)
  PROVE  /\ Repo!StartsBefore(r, p + 1) \in Nat
         /\ Repo!StartsBefore(r, q + 1) =
              Repo!StartsBefore(r, p + 1) + (IF p + 1 \in Repo!Starts(r) THEN 1 ELSE 0)
<1> DEFINE Before == {s \in Repo!Starts(r) : s < p + 1}
           Up     == {s \in Repo!Starts(r) : s < q + 1}
<1>0. Repo!StartsBefore(r, p + 1) = Cardinality(Before)
      /\ Repo!StartsBefore(r, q + 1) = Cardinality(Up)
  BY SameCardinality, Zenon DEF Repo!StartsBefore
<1>1. /\ IsFiniteSet(Before) /\ p + 1 \notin Before
      /\ Repo!Starts(r) \subseteq 1 .. r.len
  <2>1. IsFiniteSet(Before) /\ Repo!Starts(r) \subseteq 1 .. r.len
    BY StartsFinite
  <2>2. p + 1 \notin Before
    OBVIOUS
  <2> QED
    BY <2>1, <2>2
<1>2. Cardinality(Before) \in Nat
  BY <1>1, FS_CardinalityType, Zenon
<1>3. \A s \in Repo!Starts(r) : s < q + 1 <=> s < p + 1 \/ s = p + 1
  <2> SUFFICES ASSUME NEW s \in Repo!Starts(r)
               PROVE  s < q + 1 <=> s < p + 1 \/ s = p + 1
    OBVIOUS
  <2>1. s \in Nat /\ s \notin p + 2 .. q
    BY <1>1
  <2> QED
    BY <2>1
<1>4. CASE p + 1 \in Repo!Starts(r)
  <2>1. Up = Before \cup {p + 1}
    BY <1>3, <1>4
  <2>2. Cardinality(Before \cup {p + 1}) = Cardinality(Before) + 1
    BY <1>1, FS_AddElement, Zenon
  <2> QED
    BY ONLY <1>0, <1>2, <1>4, <2>1, <2>2
<1>5. CASE p + 1 \notin Repo!Starts(r)
  <2>1. Up = Before
    BY <1>3, <1>5
  <2> QED
    BY ONLY <1>0, <1>2, <1>5, <2>1
<1> QED
  BY <1>4, <1>5
-----------------------------------------------------------------------------
(* A piece up to q: it has a name unless it is a single character, and the  *)
(* next character, if there is one, begins the next piece.                  *)
LEMMA PieceStarts ==
  ASSUME TypeInv, Reading, NEW q \in Pieces
  PROVE  /\ \A x \in pos + 2 .. q : x \notin Repo!Starts(page)
         /\ pos + 1 \in Repo!Starts(page) <=> q - pos > 1
         /\ q < page.len =>
              \E s \in 1 .. q + 1, n \in 0 .. q :
                Repo!InLineFrom(page, s, q + 1) /\ q + 1 = s + n * (NETWORK_NAME_MAX - 1)
<1> DEFINE K == NETWORK_NAME_MAX - 1
<1>1. /\ page.len \in Nat /\ buffer_len = page.len /\ pos \in Nat /\ K \in Nat /\ K > 1
      /\ q \in Nat /\ pos < q /\ q <= page.len /\ q - pos <= K
      /\ q \in page.nl \/ q = page.len \/ q - pos = K
      /\ \A k \in pos + 1 .. q - 1 : k \notin page.nl
  <2>1. page.len \in Nat /\ pos \in Nat /\ buffer_len = page.len
    BY Basics DEF Reading
  <2>2. q \in pos + 1 .. buffer_len /\ q <= pos + NETWORK_NAME_MAX - 1
    BY DEF Pieces
  <2>3. /\ q \in page.nl \/ q = buffer_len \/ q - (pos + 1) = NETWORK_NAME_MAX - 2
        /\ \A k \in pos + 1 .. q - 1 : k \notin page.nl
    BY DEF Pieces, IsPiece
  <2> QED
    BY <2>1, <2>2, <2>3, NameMaxAssumption
<1>2. PICK s \in 1 .. pos + 1, n \in 0 .. pos :
        Repo!InLineFrom(page, s, pos + 1) /\ pos + 1 = s + n * K
  BY <1>1 DEF Reading, AtPiece
<1>3. s \in Nat /\ n \in Nat /\ K \in Int /\ n * K \in Int
  BY <1>1, <1>2
<1>4. \A x \in pos + 1 .. q : Repo!InLineFrom(page, s, x)
  <2> SUFFICES ASSUME NEW x \in pos + 1 .. q PROVE Repo!InLineFrom(page, s, x)
    OBVIOUS
  <2>1. \A k \in s .. x - 1 : k \in s .. pos \/ k \in pos + 1 .. q - 1
    BY <1>1, <1>3
  <2>2. \A k \in s .. pos : k \notin page.nl
    BY <1>1, <1>2 DEF Repo!InLineFrom
  <2> QED
    BY <1>1, <1>2, <2>1, <2>2 DEF Repo!InLineFrom
<1>5. ASSUME NEW x \in pos + 2 .. q PROVE x \notin Repo!Starts(page)
  <2> SUFFICES ASSUME x \in Repo!Starts(page) PROVE FALSE
    OBVIOUS
  <2>1. PICK t \in 1 .. x, m \in 0 .. x :
          Repo!InLineFrom(page, t, x) /\ x = t + m * K
    BY DEF Repo!Starts
  <2>2. x \in Nat /\ s \in 1 .. x /\ Repo!InLineFrom(page, s, x) /\ m \in Nat
    BY <1>1, <1>3, <1>4, <2>1
  <2>3. t = s
    BY <2>1, <2>2, SameLine
  <2>4. CASE x - (pos + 1) \in 1 .. K - 1
    <3> DEFINE d == x - (pos + 1)
    <3>1. s + m * K # s + n * K + d
      BY <1>1, <1>3, <2>2, <2>4, Multiples
    <3>2. m * K \in Int
      BY <1>3, <2>2
    <3> QED
      BY <1>1, <1>2, <1>3, <2>1, <2>2, <2>3, <3>1, <3>2
  <2> QED
    BY <1>1, <2>2, <2>4
<1>6. pos + 1 \in Repo!Starts(page) <=> q - pos > 1
  <2>1. CASE q - pos > 1
    <3>1. pos + 1 \in 1 .. page.len /\ pos + 1 \notin page.nl /\ pos + 1 < page.len
      BY <1>1, <2>1
    <3>2. \E t \in 1 .. pos + 1, m \in 0 .. pos + 1 :
            Repo!InLineFrom(page, t, pos + 1) /\ pos + 1 = t + m * K
      <4>1. n \in 0 .. pos + 1
        BY <1>1, <1>2
      <4> QED
        BY <1>2, <4>1
    <3> QED
      BY <2>1, <3>1, <3>2 DEF Repo!Starts
  <2>2. CASE q = pos + 1
    <3>1. q \in page.nl \/ q = page.len
      BY <1>1, <2>2
    <3> QED
      BY <1>1, <2>2, <3>1 DEF Repo!Starts
  <2> QED
    BY <1>1, <2>1, <2>2
<1>7. ASSUME q < page.len
      PROVE  \E t \in 1 .. q + 1, m \in 0 .. q :
               Repo!InLineFrom(page, t, q + 1) /\ q + 1 = t + m * K
  <2>1. CASE q \in page.nl
    <3>1. Repo!InLineFrom(page, q + 1, q + 1)
      BY <1>1, <2>1 DEF Repo!InLineFrom
    <3>2. q + 1 \in 1 .. q + 1 /\ 0 \in 0 .. q /\ q + 1 = q + 1 + 0 * K
      BY <1>1
    <3> QED
      BY <3>1, <3>2
  <2>2. CASE q \notin page.nl /\ q - pos = K
    <3>1. Repo!InLineFrom(page, s, q + 1)
      <4>1. Repo!InLineFrom(page, s, q)
        BY <1>1, <1>4
      <4>2. \A k \in s .. q : k = q \/ k \in s .. q - 1
        BY <1>1, <1>3
      <4>3. /\ s = 1 \/ s - 1 \in page.nl
            /\ \A k \in s .. q - 1 : k \notin page.nl
        BY <4>1 DEF Repo!InLineFrom
      <4>4. \A k \in s .. q : k \notin page.nl
        BY <2>2, <4>2, <4>3
      <4> QED
        BY <1>1, <4>3, <4>4 DEF Repo!InLineFrom
    <3>2. q + 1 = s + (n + 1) * K
      <4>1. (n + 1) * K = n * K + K
        BY <1>3
      <4> QED
        BY <1>1, <1>2, <1>3, <2>2, <4>1
    <3>3. s \in 1 .. q + 1 /\ n + 1 \in 0 .. q
      BY <1>1, <1>2
    <3> QED
      BY <3>1, <3>2, <3>3
  <2> QED
    BY <1>1, <1>7, <2>1, <2>2
<1> QED
  BY <1>5, <1>6, <1>7

(* The name cut from a piece is a name of the reply. *)
LEMMA PieceIsName ==
  ASSUME TypeInv, Reading, NEW q \in Pieces, q - pos > 1
  PROVE  /\ Repo!IsName(page, Piece(q)) /\ Piece(q).from = pos + 1
         /\ Piece(q) \in Name
<1>1. /\ q \in Nat /\ pos \in Nat /\ q <= buffer_len /\ buffer_len = page.len
      /\ page.len \in Nat
      /\ q - pos <= NETWORK_NAME_MAX - 1 /\ Piece(q) \in Name
      /\ Piece(q).from = pos + 1 /\ pos + 1 <= Piece(q).to /\ Piece(q).to <= q
  BY PieceBounds, Basics DEF TypeInv, Reading
<1>2. IsLine(Piece(q))
  BY PieceIsLine
<1>3. Piece(q).to \in Nat /\ Piece(q).to \in Piece(q).from .. page.len
  BY <1>1, <1>2 DEF IsLine, Name
<1>4. Piece(q).from \in Repo!Starts(page)
  BY <1>1, PieceStarts
<1>5. Piece(q).to - Piece(q).from <= NETWORK_NAME_MAX - 2
  BY <1>1, <1>3, NameMaxAssumption
<1>6. \/ Piece(q).to = page.len
      \/ Piece(q).to + 1 \in page.nl
      \/ Piece(q).to - Piece(q).from = NETWORK_NAME_MAX - 2
  <2>1. q \in page.nl \/ q = page.len \/ q - (pos + 1) = NETWORK_NAME_MAX - 2
    BY <1>1 DEF Pieces, IsPiece
  <2>2. Piece(q).to = IF q \in page.nl THEN q - 1 ELSE q
    BY DEF Piece
  <2>3. CASE q \in page.nl
    BY <1>1, <2>2, <2>3
  <2>4. CASE q \notin page.nl
    BY <1>1, <2>1, <2>2, <2>4
  <2> QED
    BY <2>3, <2>4
<1> QED
  BY <1>1, <1>2, <1>3, <1>4, <1>5, <1>6 DEF Repo!IsName, IsLine
-----------------------------------------------------------------------------
(* Before the reading, and the first place of it. *)
LEMMA HandsOverAll ==
  ASSUME rq = "ok" => got = rep.len,
         \/ Curl!FromNetwork \/ Curl!TimedOut
         \/ \E m, r : Curl!Start(m, r) \/ Curl!StartFails(m, r)
  PROVE  rq' = "ok" => got' = rep'.len
<1>1. CASE Curl!Complete
  BY <1>1 DEF Curl!Complete, Curl!EndWith
<1>2. CASE Curl!Receive
  <2>1. rq' = "transfer"
    BY <1>2 DEF Curl!Receive
  <2> QED
    BY <2>1
<1>3. CASE Curl!ReceiveFails \/ Curl!CopyPastEnd \/ Curl!Broken \/ Curl!TimedOut
  <2>1. rq' \in {"failed", "crashed"}
    BY <1>3 DEF Curl!ReceiveFails, Curl!CopyPastEnd, Curl!Broken, Curl!TimedOut,
                Curl!EndWith
  <2> QED
    BY <2>1
<1>4. CASE \E m, r : Curl!Start(m, r) \/ Curl!StartFails(m, r)
  <2>1. rq' \in {"transfer", "failed"}
    BY <1>4 DEF Curl!Start, Curl!StartFails
  <2> QED
    BY <2>1
<1> QED
  BY <1>1, <1>2, <1>3, <1>4 DEF Curl!FromNetwork

LEMMA AskedStep ==
  ASSUME Asked, [Next]_vars
  PROVE  Asked'
<1>1. CASE AskNetworks \/ OnNetwork \/ OnTimeout \/ AskVersion
  <2>1. rq' = "ok" => got' = rep'.len
    <3>1. \/ Curl!FromNetwork \/ Curl!TimedOut
          \/ \E m, r : Curl!Start(m, r) \/ Curl!StartFails(m, r)
      BY <1>1 DEF AskNetworks, OnNetwork, OnTimeout, AskVersion
    <3> QED
      BY <3>1, HandsOverAll DEF Asked
  <2>2. pc' \in {"start", "request"} => ~lost'
    <3>1. \/ pc' = "checking"
          \/ UNCHANGED lost /\ (pc = "start" \/ UNCHANGED pc)
      BY <1>1 DEF AskNetworks, OnNetwork, OnTimeout, AskVersion, local
    <3> QED
      BY <3>1 DEF Asked
  <2> QED
    BY <2>1, <2>2 DEF Asked
<1>2. CASE Offline \/ EmptyReply \/ OddCharacter \/ OpenText \/ OpenTextFails
           \/ SkipPiece \/ Add \/ AddUnnamed \/ AddFails \/ Fetched
           \/ SetUp \/ SetUpFails \/ LoadEntry \/ LoadFails \/ Loaded
           \/ TellVersion \/ Crash \/ LeaveMenus \/ FreeFirst \/ Freed
  <2>1. pc' \notin {"start", "request"}
    BY <1>2 DEF Offline, EmptyReply, OddCharacter, OpenText, OpenTextFails, SkipPiece,
                Add, AddUnnamed, AddFails, Evaluate, Fetched, SetUp, SetUpFails, LoadEntry,
                LoadFails, Loaded, Turn, TellVersion, Crash, LeaveMenus, FreeFirst, Freed
  <2>2. UNCHANGED curlv
    BY <1>2 DEF Offline, EmptyReply, OddCharacter, OpenText, OpenTextFails, SkipPiece,
                Add, AddUnnamed, AddFails, Evaluate, Fetched, SetUp, SetUpFails, LoadEntry,
                LoadFails, Loaded, TellVersion, Crash, LeaveMenus, FreeFirst, Freed
  <2> QED
    BY <2>1, <2>2 DEF Asked, curlv
<1>3. CASE LoadNull \/ UNCHANGED vars
  <2>1. UNCHANGED <<pc, lost, rq, got, rep>>
    BY <1>3 DEF LoadNull, vars, local, curlv
  <2> QED
    BY <2>1 DEF Asked
<1> QED
  BY <1>1, <1>2, <1>3 DEF Next, Program, Outside

LEMMA NothingListed ==
  ASSUME TypeInv, pc \in {"start", "request"}
  PROVE  list = <<>> /\ num = 0 /\ pos = 0 /\ rep = page
<1>1. num = 0 /\ pos = 0 /\ rep = page
  BY DEF TypeInv, NotRead
<1>2. list \in Seq(Networks) /\ Len(list) <= 0
  BY <1>1, Basics DEF TypeInv, TypeOK
<1> HIDE DEF Networks
<1> QED
  BY <1>1, <1>2

LEMMA OpenTextStep ==
  ASSUME TypeInv, Asked, OpenText
  PROVE  Reading'
<1>1. /\ list' = <<>> /\ num' = 0 /\ pos' = 0 /\ page' = page /\ status'
      /\ buffer_len' = page.len /\ page.clean /\ page.len \in Nat
  <2>1. /\ pc = "request" /\ rq = "ok" /\ status' = TRUE /\ page.clean
        /\ buffer_len' = got /\ UNCHANGED <<page, list, pos, num>>
    BY DEF OpenText, Online
  <2> QED
    BY <2>1, NothingListed, Basics DEF Asked
<1>2. Repo!InLineFrom(page, 1, 0 + 1)
  BY DEF Repo!InLineFrom
<1>3. AtPiece'
  <2>1. 1 \in 1 .. 0 + 1 /\ 0 \in 0 .. 0 /\ 0 + 1 = 1 + 0 * (NETWORK_NAME_MAX - 1)
    BY NameMaxAssumption
  <2>2. \E s \in 1 .. 0 + 1, n \in 0 .. 0 :
          Repo!InLineFrom(page, s, 0 + 1) /\ 0 + 1 = s + n * (NETWORK_NAME_MAX - 1)
    BY <1>2, <2>1
  <2> QED
    BY <1>1, <2>2 DEF AtPiece
<1>4. Repo!StartsBefore(page, 0 + 1) = 0
  <2>1. {s \in Repo!Starts(page) : s < 0 + 1} = {}
    BY <1>1, StartsFinite
  <2>2. Cardinality({}) = 0
    BY FS_EmptySet, Zenon
  <2> QED
    BY <2>1, <2>2, SameCardinality, Zenon DEF Repo!StartsBefore
<1>5. \A p \in Repo!Starts(page) : ~(p <= 0)
  BY <1>1, StartsFinite
<1>6. DOMAIN list' = {} /\ Len(list') = 0
  BY <1>1
<1>7. num' = Repo!StartsBefore(page, pos + 1)'
  BY <1>1, <1>4
<1>8. Repo!InOrder(list)'
  BY <1>6 DEF Repo!InOrder
<1>9. Complete'
  BY <1>1, <1>5, <1>6 DEF Complete
<1> QED
  BY <1>1, <1>3, <1>6, <1>7, <1>8, <1>9 DEF Reading

(* A piece, whatever becomes of its entry. *)
Advance(q) ==
  /\ UNCHANGED <<page, status, buffer_len>> /\ pos' = q
  /\ num' = num + (IF q - pos > 1 THEN 1 ELSE 0)
  /\ lost => lost'

LEMMA AdvanceStep ==
  ASSUME TypeInv, Reading, NEW q \in Pieces, Advance(q)
  PROVE  /\ buffer_len' = page'.len /\ page'.clean /\ status'
         /\ (pos < page.len => AtPiece)'
         /\ num' = Repo!StartsBefore(page, pos + 1)'
         /\ \A k \in DOMAIN list :
              list[k].id < num' /\ ((lost' /\ list[k].name = Null)
                                    \/ Repo!IsNetwork(page, list[k]))
         /\ num \in Nat /\ q \in Nat /\ pos \in Nat /\ pos < q
         /\ list \in Seq(Networks) /\ Len(list) \in Nat
<1> HIDE DEF Networks
<1>1. /\ page.len \in Nat /\ num \in Nat /\ q \in Nat /\ pos \in Nat /\ pos < q
      /\ list \in Seq(Networks) /\ Len(list) \in Nat
  <2>1. page.len \in Nat /\ num \in Nat /\ pos \in Nat /\ list \in Seq(Networks)
    BY Basics
  <2>2. buffer_len \in Nat /\ q \in pos + 1 .. buffer_len
    BY <2>1 DEF Reading, Pieces
  <2> QED
    BY <2>1, <2>2
<1>2. buffer_len' = page'.len /\ page'.clean /\ status'
  BY DEF Advance, Reading
<1>3. (pos < page.len => AtPiece)'
  <2>1. q < page.len =>
          \E s \in 1 .. q + 1, n \in 0 .. q :
            Repo!InLineFrom(page, s, q + 1) /\ q + 1 = s + n * (NETWORK_NAME_MAX - 1)
    BY PieceStarts
  <2>2. page' = page /\ pos' = q
    BY DEF Advance
  <2> QED
    BY <2>1, <2>2 DEF AtPiece
<1>4. num' = Repo!StartsBefore(page, q + 1)
  <2>1. /\ Repo!StartsBefore(page, q + 1) =
             Repo!StartsBefore(page, pos + 1)
               + (IF pos + 1 \in Repo!Starts(page) THEN 1 ELSE 0)
        /\ pos + 1 \in Repo!Starts(page) <=> q - pos > 1
    BY <1>1, CountPiece, PieceStarts
  <2>2. num = Repo!StartsBefore(page, pos + 1)
    BY DEF Reading
  <2> QED
    BY <2>1, <2>2 DEF Advance
<1>5. num' = Repo!StartsBefore(page, pos + 1)'
  <2>1. page' = page /\ pos' = q
    BY DEF Advance
  <2> QED
    BY <1>4, <2>1
<1>6. ASSUME NEW k \in DOMAIN list
      PROVE  /\ list[k].id < num'
             /\ (lost' /\ list[k].name = Null) \/ Repo!IsNetwork(page, list[k])
  <2>1. list[k].id < num /\ Entry(list[k])
    BY DEF Reading, Listed
  <2>2. list[k] \in Networks /\ list[k].id \in Nat
    <3>1. list[k] \in Networks
      BY <1>1
    <3> QED
      BY <3>1 DEF Networks
  <2>3. num <= num' /\ num' \in Int
    BY <1>1 DEF Advance
  <2>4. list[k].id < num'
    BY <1>1, <2>1, <2>2, <2>3
  <2>5. (lost' /\ list[k].name = Null) \/ Repo!IsNetwork(page, list[k])
    BY <2>1 DEF Advance, Entry
  <2> QED
    BY <2>4, <2>5
<1> QED
  BY <1>1, <1>2, <1>3, <1>5, <1>6

(* The list keeps what Reading says when nothing is added to it: a piece    *)
(* without a name, or one for which an allocation failed.                   *)
LEMMA SkippedStep ==
  ASSUME TypeInv, Reading, NEW q \in Pieces, Advance(q), UNCHANGED list,
         (q - pos <= 1 /\ UNCHANGED lost) \/ lost'
  PROVE  Reading'
<1>1. Repo!InOrder(list)'
  BY DEF Repo!InOrder, Reading
<1>2. \A k \in DOMAIN list' : Listed(k)'
  BY AdvanceStep DEF Listed, Entry, Advance
<1>3. lost' \/ Complete'
  <2> SUFFICES ASSUME ~lost' PROVE Complete'
    OBVIOUS
  <2>1. /\ q - pos <= 1 /\ Complete /\ page' = page /\ pos' = q /\ num' = num
        /\ q \in Nat /\ pos \in Nat /\ pos < q
    BY AdvanceStep DEF Reading, Advance
  <2>2. \A p \in Repo!Starts(page) : p <= q => p <= pos
    <3>1. q = pos + 1 /\ pos + 1 \notin Repo!Starts(page)
      BY <2>1, PieceStarts
    <3>2. \A p \in Repo!Starts(page) : p \in Nat
      BY Basics, StartsFinite
    <3> QED
      BY <2>1, <3>1, <3>2
  <2> QED
    BY <2>1, <2>2 DEF Complete
<1> QED
  BY <1>1, <1>2, <1>3, AdvanceStep DEF Reading

LEMMA AddedStep ==
  ASSUME TypeInv, Reading, NEW q \in Pieces, Advance(q), q - pos > 1,
         NEW name \in Name, list' = Append(list, [name |-> name, id |-> num]),
         (name = Piece(q) /\ UNCHANGED lost) \/ (name = Null /\ lost')
  PROVE  Reading'
<1> DEFINE e == [name |-> name, id |-> num]
<1>0. /\ num \in Nat /\ q \in Nat /\ pos \in Nat /\ pos < q
      /\ list \in Seq(Networks) /\ Len(list) \in Nat /\ page.len \in Nat
      /\ page' = page /\ pos' = q /\ num' = num + 1
  BY AdvanceStep, Basics DEF Advance
<1>1. e \in Networks /\ e.name = name /\ e.id = num
  BY <1>0 DEF Networks
<1>2. /\ Len(list') = Len(list) + 1 /\ DOMAIN list' = 1 .. Len(list) + 1
      /\ DOMAIN list = 1 .. Len(list)
      /\ \A k \in 1 .. Len(list) : list'[k] = list[k]
      /\ list'[Len(list) + 1] = e
  <2> HIDE DEF Networks, e
  <2>1. list' = Append(list, e)
    BY DEF e
  <2> QED
    BY <1>0, <1>1, <2>1
<1>3. \A k \in DOMAIN list' : k = Len(list) + 1 \/ k \in DOMAIN list
  BY <1>0, <1>2
<1>4. (lost' /\ name = Null) \/ (name = Piece(q) /\ Repo!IsNetwork(page, e))
  <2>1. CASE name = Piece(q)
    <3>1. Repo!IsName(page, name) /\ name.from = pos + 1
      BY <2>1, PieceIsName
    <3>2. num = Repo!StartsBefore(page, name.from)
      BY <3>1 DEF Reading
    <3>3. Repo!IsNetwork(page, e)
      BY <1>1, <3>1, <3>2 DEF Repo!IsNetwork
    <3> QED
      BY <2>1, <3>3
  <2> QED
    BY <2>1
<1>5. \A k \in DOMAIN list' : Listed(k)'
  <2> SUFFICES ASSUME NEW k \in DOMAIN list' PROVE Listed(k)'
    OBVIOUS
  <2>1. CASE k = Len(list) + 1
    <3>1. list'[k] = e /\ list'[k].id < num'
      BY <1>0, <1>1, <1>2, <2>1
    <3>2. (lost' /\ list'[k].name = Null) \/ Repo!IsNetwork(page', list'[k])
      BY <1>0, <1>1, <1>4, <3>1
    <3> QED
      BY <3>1, <3>2 DEF Listed, Entry
  <2>2. CASE k \in DOMAIN list
    <3>1. list'[k] = list[k]
      BY <1>2, <2>2
    <3>2. list[k].id < num' /\ ((lost' /\ list[k].name = Null)
                                 \/ Repo!IsNetwork(page, list[k]))
      BY <2>2, AdvanceStep
    <3> QED
      BY <1>0, <3>1, <3>2 DEF Listed, Entry
  <2> QED
    BY <1>3, <2>1, <2>2
<1>6. Repo!InOrder(list)'
  <2> SUFFICES ASSUME NEW k \in DOMAIN list', NEW l \in DOMAIN list', k < l
               PROVE  list'[k].id < list'[l].id
    BY DEF Repo!InOrder
  <2>1. k \in DOMAIN list /\ list'[k] = list[k]
    BY <1>0, <1>2
  <2>2. CASE l = Len(list) + 1
    <3>1. list[k].id < num
      BY <2>1 DEF Reading, Listed
    <3> QED
      BY <1>1, <1>2, <2>1, <2>2, <3>1
  <2>3. CASE l \in DOMAIN list
    BY <1>2, <2>1, <2>3 DEF Reading, Repo!InOrder
  <2> QED
    BY <1>3, <2>2, <2>3
<1>7. lost' \/ Complete'
  <2> SUFFICES ASSUME ~lost' PROVE Complete'
    OBVIOUS
  <2>1. name = Piece(q) /\ ~lost /\ Complete
    BY DEF Reading
  <2>2. Len(list') = num'
    BY <1>0, <1>2, <2>1 DEF Complete
  <2>3. ASSUME NEW p \in Repo!Starts(page), p <= q
        PROVE  \E k \in DOMAIN list' : list'[k].name.from = p
    <3>1. p \in Nat
      BY <1>0, StartsFinite
    <3>2. CASE p <= pos
      <4>1. PICK k \in DOMAIN list : list[k].name.from = p
        BY <2>1, <3>2 DEF Complete
      <4>2. k \in DOMAIN list' /\ list'[k] = list[k]
        BY <1>0, <1>2, <4>1
      <4> QED
        BY <4>1, <4>2
    <3>3. CASE p = pos + 1
      <4>1. Len(list) + 1 \in DOMAIN list' /\ list'[Len(list) + 1].name.from = pos + 1
        BY <1>0, <1>1, <1>2, <2>1, PieceIsName
      <4> QED
        BY <3>3, <4>1
    <3>4. p \notin pos + 2 .. q
      BY PieceStarts
    <3> QED
      BY <1>0, <2>3, <3>1, <3>2, <3>3, <3>4
  <2> QED
    BY <1>0, <2>2, <2>3 DEF Complete
<1> QED
  BY <1>5, <1>6, <1>7, AdvanceStep DEF Reading

LEMMA ReadingStep ==
  ASSUME TypeInv, FetchInv, [Next]_vars, pc' = "read"
  PROVE  Reading'
<1>1. CASE OpenText
  BY <1>1, OpenTextStep DEF FetchInv
<1>2. CASE SkipPiece
  <2>1. PICK q \in Pieces : q - pos <= 1 /\ pos' = q
    BY <1>2 DEF SkipPiece
  <2>2. pc = "read" /\ UNCHANGED <<page, status, buffer_len, num, lost, list>>
    BY <1>2 DEF SkipPiece, net
  <2>3. Advance(q)
    <3>1. num \in Nat /\ q \in Nat /\ pos \in Nat
      BY Basics
    <3> QED
      BY <2>1, <2>2, <3>1 DEF Advance
  <2> QED
    BY <2>1, <2>2, <2>3, SkippedStep DEF FetchInv
<1>3. CASE Add \/ AddUnnamed \/ AddFails
  <2>1. PICK q \in Pieces :
          /\ Evaluate(q)
          /\ \/ list' = Append(list, [name |-> Piece(q), id |-> num]) /\ UNCHANGED lost
             \/ list' = Append(list, [name |-> Null, id |-> num]) /\ lost'
             \/ UNCHANGED list /\ lost'
    BY <1>3 DEF Add, AddUnnamed, AddFails
  <2>2. pc = "read" /\ q - pos > 1 /\ Advance(q)
    BY <2>1 DEF Evaluate, Advance
  <2>3. Reading
    BY <2>2 DEF FetchInv
  <2>4. Piece(q) \in Name /\ Null \in Name
    BY <2>2, PieceBounds DEF TypeInv, Null, Name
  <2>5. CASE list' = Append(list, [name |-> Piece(q), id |-> num]) /\ UNCHANGED lost
    BY <2>2, <2>3, <2>4, <2>5, AddedStep
  <2>6. CASE list' = Append(list, [name |-> Null, id |-> num]) /\ lost'
    BY <2>2, <2>3, <2>4, <2>6, AddedStep
  <2>7. CASE UNCHANGED list /\ lost'
    BY <2>2, <2>3, <2>7, SkippedStep
  <2> QED
    BY <2>1, <2>5, <2>6, <2>7
<1>4. CASE OnNetwork \/ OnTimeout \/ LoadEntry \/ LoadNull \/ UNCHANGED vars
  <2>1. pc = "read"
    BY <1>4 DEF OnNetwork, OnTimeout, LoadEntry, LoadNull, vars
  <2>2. UNCHANGED <<page, status, buffer_len, pos, num, list, lost>>
    <3>1. pc # "load" /\ pc \notin {"request", "checking"}
      BY <2>1
    <3> QED
      BY <1>4, <3>1 DEF OnNetwork, OnTimeout, LoadEntry, LoadNull, Turn, vars, net, local
  <2>3. Reading
    BY <2>1 DEF FetchInv
  <2> QED
    BY <2>2, <2>3 DEF Reading, AtPiece, Listed, Entry, Complete
<1>5. CASE AskNetworks \/ Offline \/ EmptyReply \/ OddCharacter \/ OpenTextFails
           \/ Fetched \/ SetUp \/ SetUpFails \/ LoadFails \/ Loaded \/ AskVersion
           \/ TellVersion \/ Crash \/ LeaveMenus \/ FreeFirst \/ Freed
  BY <1>5 DEF AskNetworks, Offline, EmptyReply, OddCharacter, OpenTextFails, Fetched,
              SetUp, SetUpFails, LoadFails, Loaded, AskVersion, TellVersion, Crash,
              LeaveMenus, FreeFirst, Freed
<1> QED
  BY <1>1, <1>2, <1>3, <1>4, <1>5 DEF Next, Program, Outside

LEMMA FetchInvAlways == Spec => [](TypeInv /\ FetchInv)
<1>1. Init => FetchInv
  <2> SUFFICES ASSUME Init PROVE FetchInv
    OBVIOUS
  <2>1. pc = "start" /\ lost = FALSE /\ rq = "idle"
    BY DEF Init, Curl!CurlInit
  <2> QED
    BY <2>1 DEF FetchInv, Asked
<1>2. TypeInv /\ FetchInv /\ [Next]_vars => FetchInv'
  <2> SUFFICES ASSUME TypeInv, FetchInv, [Next]_vars PROVE FetchInv'
    OBVIOUS
  <2>1. Asked'
    BY AskedStep DEF FetchInv
  <2>2. pc' = "read" => Reading'
    BY ReadingStep
  <2> QED
    BY <2>1, <2>2 DEF FetchInv
<1> QED
  BY <1>1, <1>2, TypeInvAlways, PTL DEF Spec

-----------------------------------------------------------------------------
(* The steps of the program are steps of NetRepo, or hidden from it. *)
LEMMA StillAsking ==
  ASSUME Asking, Asking', UNCHANGED page
  PROVE  UNCHANGED Repo!vars
<1>1. (IF Asking THEN "asking" ELSE "known")' = (IF Asking THEN "asking" ELSE "known")
      /\ (IF Asking THEN <<>> ELSE list)' = (IF Asking THEN <<>> ELSE list)
      /\ (IF Asking THEN 0 ELSE n_networks)' = (IF Asking THEN 0 ELSE n_networks)
  OBVIOUS
<1>2. (~Asking /\ status)' = (~Asking /\ status) /\ (~Asking /\ lost)' = (~Asking /\ lost)
  BY Zenon
<1> QED
  BY ONLY <1>1, <1>2, UNCHANGED page DEF Repo!vars

LEMMA StillKnown ==
  ASSUME ~Asking, ~Asking', UNCHANGED <<page, status, list, n_networks, lost>>
  PROVE  UNCHANGED Repo!vars
<1>1. (IF Asking THEN "asking" ELSE "known")' = (IF Asking THEN "asking" ELSE "known")
      /\ (IF Asking THEN <<>> ELSE list)' = (IF Asking THEN <<>> ELSE list)
      /\ (IF Asking THEN 0 ELSE n_networks)' = (IF Asking THEN 0 ELSE n_networks)
  OBVIOUS
<1>2. (~Asking /\ status)' = (~Asking /\ status) /\ (~Asking /\ lost)' = (~Asking /\ lost)
  BY Zenon
<1> QED
  BY ONLY <1>1, <1>2, UNCHANGED page DEF Repo!vars

(* Nothing was learnt: no repository, no list, no memory. *)
LEMMA NothingLearnt ==
  ASSUME TypeInv, FetchInv, Offline \/ OddCharacter \/ OpenTextFails
  PROVE  Repo!LearnNone
<1>1. /\ pc = "request" /\ pc' = "fetched" /\ n_networks' = 0 /\ UNCHANGED <<page, list>>
  BY DEF Offline, OddCharacter, OpenTextFails, Online
<1>2. list = <<>> /\ Asking /\ ~Asking'
  BY <1>1, NothingListed DEF Asking
<1>3. status' => ~page.clean \/ lost'
  BY DEF Offline, OddCharacter, OpenTextFails
<1> QED
  BY <1>1, <1>2, <1>3 DEF Repo!LearnNone, Repo!Learn

LEMMA EmptyLearnt ==
  ASSUME TypeInv, FetchInv, EmptyReply
  PROVE  Repo!LearnAll \/ Repo!LearnNone
<1>1. /\ pc = "request" /\ pc' = "fetched" /\ n_networks' = 0 /\ UNCHANGED <<page, list, lost>>
      /\ status' = TRUE /\ got = 0 /\ rq = "ok"
  BY DEF EmptyReply, Online, local
<1>2. list = <<>> /\ rep = page /\ Asking /\ ~Asking' /\ ~lost
  BY <1>1, NothingListed DEF Asking, FetchInv, Asked
<1>3. page.len = 0
  BY <1>1, <1>2 DEF FetchInv, Asked
<1>4. Repo!Starts(page) = {}
  BY <1>3, StartsFinite
<1>5. list' = <<>> /\ DOMAIN list' = {} /\ Len(list') = 0
  BY <1>1, <1>2
<1>6. CASE ~page.clean
  BY <1>1, <1>2, <1>6 DEF Repo!LearnNone, Repo!Learn
<1>7. CASE page.clean
  <2>1. (~Asking /\ lost)' = FALSE /\ (~Asking /\ lost) = FALSE
    BY <1>1, <1>2
  <2> QED
    BY <1>1, <1>2, <1>4, <1>5, <1>7, <2>1 DEF Repo!LearnAll, Repo!Learn, Repo!InOrder
<1> QED
  BY <1>6, <1>7

(* All of the text has been read. *)
LEMMA FetchedLearnt ==
  ASSUME TypeInv, FetchInv, Fetched
  PROVE  Repo!LearnAll \/ Repo!LearnPart
<1>1. /\ pc = "read" /\ pc' = "fetched" /\ pos = buffer_len /\ n_networks' = num
      /\ UNCHANGED <<page, status, list, lost>>
  BY DEF Fetched, local
<1>2. Reading /\ Asking /\ ~Asking'
  BY <1>1 DEF Asking, FetchInv
<1>3. page.len \in Nat /\ pos = page.len /\ page.clean /\ status /\ num \in Nat
  BY <1>1, <1>2, Basics DEF Reading
<1>4. \A p \in Repo!Starts(page) : p \in Nat /\ p <= pos /\ p < pos + 1
  BY <1>3, StartsFinite
<1>5. num = Repo!Cardinality(Repo!Starts(page))
  <2>1. {s \in Repo!Starts(page) : s < pos + 1} = Repo!Starts(page)
    BY <1>4
  <2>2. num = Repo!StartsBefore(page, pos + 1)
    BY <1>2 DEF Reading
  <2> QED
    BY <2>1, <2>2, Zenon DEF Repo!StartsBefore
<1>6. \A k \in DOMAIN list : list[k].id \in 0 .. num - 1 /\ Entry(list[k])
  <2> SUFFICES ASSUME NEW k \in DOMAIN list
               PROVE  list[k].id \in 0 .. num - 1 /\ Entry(list[k])
    OBVIOUS
  <2>1. list[k] \in Networks
    <3> HIDE DEF Networks
    <3> QED
      BY Basics
  <2>2. list[k].id \in Nat
    BY <2>1 DEF Networks
  <2>3. list[k].id < num /\ Entry(list[k])
    BY <1>2 DEF Reading, Listed
  <2> QED
    BY <1>3, <2>2, <2>3
<1>7. Repo!InOrder(list)
  BY <1>2 DEF Reading
<1>8. Repo!Learn
  BY <1>1, <1>2 DEF Repo!Learn
<1>9. CASE lost
  <2>1. (~Asking /\ lost)' /\ (~Asking /\ status)'
    BY <1>1, <1>2, <1>3, <1>9
  <2>2. (IF Asking THEN <<>> ELSE list)' = list /\ (IF Asking THEN 0 ELSE n_networks)' = num
    BY <1>1, <1>2
  <2>3. \A k \in DOMAIN list : list[k].name = Repo!Null \/ Repo!IsNetwork(page, list[k])
    BY <1>6 DEF Entry, Null, Repo!Null
  <2> QED
    BY <1>3, <1>5, <1>6, <1>7, <1>8, <2>1, <2>2, <2>3 DEF Repo!LearnPart
<1>10. CASE ~lost
  <2>1. (~Asking /\ lost)' = FALSE /\ (~Asking /\ lost) = FALSE /\ (~Asking /\ status)'
    BY <1>1, <1>2, <1>3, <1>10
  <2>2. (IF Asking THEN <<>> ELSE list)' = list /\ (IF Asking THEN 0 ELSE n_networks)' = num
    BY <1>1, <1>2
  <2>3. \A k \in DOMAIN list : Repo!IsNetwork(page, list[k])
    BY <1>6, <1>10 DEF Entry
  <2>4. Len(list) = num
        /\ \A p \in Repo!Starts(page) : \E k \in DOMAIN list : list[k].name.from = p
    BY <1>2, <1>4, <1>10 DEF Reading, Complete
  <2> QED
    BY <1>3, <1>7, <1>8, <2>1, <2>2, <2>3, <2>4 DEF Repo!LearnAll
<1> QED
  BY <1>9, <1>10

LEMMA FetchRefines ==
  ASSUME TypeInv, FetchInv, [Next]_vars
  PROVE  [Repo!Next]_Repo!vars
<1>1. CASE AskNetworks \/ OpenText \/ SkipPiece \/ Add \/ AddUnnamed \/ AddFails
  <2>1. Asking /\ Asking' /\ UNCHANGED page
    BY <1>1 DEF AskNetworks, OpenText, Online, SkipPiece, Add, AddUnnamed, AddFails,
                Evaluate, Asking
  <2> QED
    BY <2>1, StillAsking
<1>2. CASE Offline \/ OddCharacter \/ OpenTextFails
  BY <1>2, NothingLearnt DEF Repo!Next
<1>3. CASE EmptyReply
  BY <1>3, EmptyLearnt DEF Repo!Next
<1>4. CASE Fetched
  BY <1>4, FetchedLearnt DEF Repo!Next
<1>5. CASE OnNetwork \/ OnTimeout \/ LoadNull \/ UNCHANGED vars
  <2>1. UNCHANGED <<pc, page, status, list, n_networks, lost>>
    BY <1>5 DEF OnNetwork, OnTimeout, LoadNull, vars, net, local
  <2>2. Asking' <=> Asking
    BY <2>1 DEF Asking
  <2> QED
    BY <2>1, <2>2, StillAsking, StillKnown
<1>6. CASE SetUp \/ SetUpFails \/ LoadEntry \/ LoadFails \/ Loaded \/ AskVersion
           \/ TellVersion \/ Crash \/ LeaveMenus \/ Freed
  <2>1. /\ UNCHANGED <<page, status, list, n_networks, lost>>
        /\ pc \in {"fetched", "load", "menus", "checking", "final"}
        /\ pc' \in {"load", "menus", "checking", "crashed", "final", "done"}
    BY <1>6 DEF SetUp, SetUpFails, LoadEntry, LoadFails, Loaded, Turn, AskVersion,
                TellVersion, Crash, LeaveMenus, Freed, net, local
  <2>2. ~Asking /\ ~Asking'
    BY <2>1 DEF Asking
  <2> QED
    BY <2>1, <2>2, StillKnown
<1>7. CASE FreeFirst
  <2>1. /\ UNCHANGED <<pc, page, status, n_networks, lost>> /\ pc = "final"
        /\ list # <<>> /\ list' = Tail(list)
    BY <1>7 DEF FreeFirst, local
  <2>2. ~Asking /\ ~Asking'
    BY <2>1 DEF Asking
  <2>3. (~Asking /\ status)' = (~Asking /\ status) /\ (~Asking /\ lost)' = (~Asking /\ lost)
    BY <2>1, <2>2, Zenon
  <2>4. Repo!Forget
    BY <2>1, <2>2, <2>3 DEF Repo!Forget
  <2> QED
    BY <2>4 DEF Repo!Next
<1> QED
  BY <1>1, <1>2, <1>3, <1>4, <1>5, <1>6, <1>7 DEF Next, Program, Outside

(* For replies of any length and every room for a name, the program knows   *)
(* all networks of a complete reply, each by its own characters, numbered   *)
(* in order and counted, or none; a part of them only after an allocation   *)
(* failed.                                                                  *)
THEOREM AllNetworksOrNone == Spec => RepoImplemented
<1>1. Init => Repo!Init
  <2> SUFFICES ASSUME Init PROVE Repo!Init
    OBVIOUS
  <2>1. Asking
    BY DEF Init, Asking
  <2> QED
    BY <2>1 DEF Repo!Init
<1>2. TypeInv /\ FetchInv /\ [Next]_vars => [Repo!Next]_Repo!vars
  BY FetchRefines
<1> QED
  BY <1>1, <1>2, FetchInvAlways, PTL DEF Spec, RepoImplemented, Repo!Spec
=============================================================================
