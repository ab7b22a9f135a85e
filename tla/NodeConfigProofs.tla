-------------------------- MODULE NodeConfigProofs --------------------------
(***************************************************************************)
(* Theorems of NodeConfig for every set of strings, numbers and files.     *)
(***************************************************************************)
EXTENDS NodeConfig, FiniteSetTheorems, TLAPS

(* rtonm() to a multiple of 8 rounds up, by less than 8 unless it is asked *)
(* to round 0.                                                             *)
LEMMA RtonmBounds ==
  ASSUME NEW n \in Nat
  PROVE  /\ rtonm(n, 8) \in Nat /\ rtonm(n, 8) % 8 = 0
         /\ n <= rtonm(n, 8) /\ rtonm(n, 8) <= n + 8
BY DEF rtonm

(* longest_cfg_entry never shrinks and covers the string just stored. *)
LEMMA GrownCovers ==
  ASSUME NEW l \in Nat, NEW n \in Nat
  PROVE  Grown(l, n) \in Nat /\ l <= Grown(l, n) /\ n <= Grown(l, n)
<1>1. n + l \in Nat
  OBVIOUS
<1>2. rtonm(n + l, 8) \in Nat /\ n + l <= rtonm(n + l, 8)
  BY <1>1, RtonmBounds
<1> QED
  BY <1>2 DEF Grown

LEMMA NumbersTyped ==
  ASSUME NEW n \in Numbers
  PROVE  n \in Nat /\ ToLong(n) \in Int
<1>1. n \in 0 .. ULongSize - 1 /\ ULongSize \in Nat
  BY NumbersAssumption
<1>2. n \in Nat
  BY <1>1
<1> QED
  BY <1>1, <1>2 DEF ToLong

LEMMA LinesTyped ==
  /\ \A e \in NumIds, n \in Numbers : NumLine(e, n) \in Line
  /\ \A e \in StrIds, s \in Strings : StrLine(e, s) \in Line
  /\ BlankLine \in Line
<1> USE DEF Line, Kinds, Ids, CFG_NENTRIES
<1>1. \A e \in NumIds, n \in Numbers : NumLine(e, n) \in Line
  BY StringsAssumption DEF NumLine, NumIds, CFG_AUTOFIX, CFG_TIMEOUT
<1>2. \A e \in StrIds, s \in Strings : StrLine(e, s) \in Line
  BY NumbersAssumption DEF StrLine, StrIds, CFG_TUNDEV, CFG_NETREPO
<1>3. BlankLine \in Line
  BY StringsAssumption, NumbersAssumption DEF BlankLine
<1> QED
  BY <1>1, <1>2, <1>3

LEMMA DefaultsTyped ==
  /\ DefaultFile \in [1 .. CFG_NENTRIES -> Line]
  /\ \A k \in 1 .. CFG_NENTRIES :
       DefaultFile[k].kind = "entry" /\ DefaultFile[k].id = k - 1
<1> USE DEF CFG_NENTRIES
<1>1. DefaultNum \in [NumIds -> Numbers]
  BY NumbersAssumption DEF DefaultNum
<1>2. DefaultStr \in [StrIds -> Strings]
  BY StringsAssumption DEF DefaultStr
<1>3. \A k \in 1 .. 11 : k - 1 \in NumIds \/ k - 1 \in StrIds
  BY DEF NumIds, StrIds, CFG_AUTOFIX, CFG_TIMEOUT, CFG_TUNDEV, CFG_NETREPO
<1>4. ASSUME NEW k \in 1 .. 11
      PROVE  /\ DefaultFile[k] \in Line
             /\ DefaultFile[k].kind = "entry" /\ DefaultFile[k].id = k - 1
  <2>1. CASE k - 1 \in NumIds
    BY <1>1, <2>1, LinesTyped DEF DefaultFile, NumLine
  <2>2. CASE k - 1 \notin NumIds
    BY <1>2, <1>3, <2>2, LinesTyped DEF DefaultFile, StrLine
  <2> QED
    BY <2>1, <2>2
<1>5. DefaultFile = [k \in 1 .. 11 |-> DefaultFile[k]]
  BY DEF DefaultFile
<1> QED
  BY <1>4, <1>5

(* A file whose write was lost holds default lines, as far as it goes, and  *)
(* at its end perhaps the beginning of one.                                 *)
LEMMA CutTyped ==
  ASSUME NEW f \in CutFiles
  PROVE  /\ \E n \in 0 .. CFG_NENTRIES : DOMAIN f = 1 .. n
         /\ \A k \in DOMAIN f :
              \/ f[k] = DefaultFile[k]
              \/ f[k].kind \in {"unknown", "noquote"}
              \/ f[k].kind = "onequote" /\ f[k].id = k - 1
         /\ \A k \in DOMAIN f : f[k] \in Line
<1> USE DEF CFG_NENTRIES
<1>1. ASSUME NEW n \in 0 .. 10, f = [k \in 1 .. n |-> DefaultFile[k]]
      PROVE  /\ DOMAIN f = 1 .. n
             /\ \A k \in DOMAIN f : f[k] = DefaultFile[k] /\ f[k] \in Line
  BY <1>1, DefaultsTyped
<1>2. ASSUME NEW n \in 1 .. 11, NEW c \in {"unknown", "noquote", "onequote"},
             f = [k \in 1 .. n |-> IF k < n THEN DefaultFile[k]
                                  ELSE [kind |-> c, id |-> n - 1, num |-> 0, str |-> "NULL"]]
      PROVE  /\ DOMAIN f = 1 .. n
             /\ \A k \in DOMAIN f :
                  \/ f[k] = DefaultFile[k]
                  \/ f[k].kind \in {"unknown", "noquote"}
                  \/ f[k].kind = "onequote" /\ f[k].id = k - 1
             /\ \A k \in DOMAIN f : f[k] \in Line
  <2> DEFINE cut == [kind |-> c, id |-> n - 1, num |-> 0, str |-> "NULL"]
  <2>1. cut.kind = c /\ cut.id = n - 1
    OBVIOUS
  <2>2. cut \in Line
    BY NumbersAssumption, StringsAssumption DEF Line, Kinds, Ids
  <2>3. \A k \in 1 .. n : f[k] = IF k < n THEN DefaultFile[k] ELSE cut
    BY <1>2
  <2> HIDE DEF cut
  <2>4. DOMAIN f = 1 .. n
    BY <1>2
  <2>5. \A k \in 1 .. n : (k < n /\ f[k] = DefaultFile[k]) \/ (k = n /\ f[k] = cut)
    BY <2>3
  <2>6. \A k \in 1 .. n : f[k] \in Line
    BY <2>2, <2>5, DefaultsTyped
  <2> QED
    BY <2>1, <2>4, <2>5, <2>6
<1>3. \/ \E n \in 0 .. 10 : f = [k \in 1 .. n |-> DefaultFile[k]]
      \/ \E n \in 1 .. 11, c \in {"unknown", "noquote", "onequote"} :
           f = [k \in 1 .. n |-> IF k < n THEN DefaultFile[k]
                                ELSE [kind |-> c, id |-> n - 1, num |-> 0, str |-> "NULL"]]
  BY DEF CutFiles
<1> QED
  BY <1>1, <1>2, <1>3

LEMMA FileTyped ==
  ASSUME TypeOK
  PROVE  \A k \in DOMAIN file : file[k] \in Line
<1>1. CASE file \in Files
  <2>1. file \in Seq(Line)
    BY <1>1, FilesAssumption
  <2> QED
    BY <2>1
<1>2. CASE file = <<>>
  BY <1>2
<1>3. CASE file = DefaultFile
  BY <1>3, DefaultsTyped
<1>4. CASE file \in CutFiles
  BY <1>4, CutTyped
<1> QED
  BY <1>1, <1>2, <1>3, <1>4 DEF TypeOK

(* Its lines are numbered from 1, without a gap. *)
LEMMA FileDomain ==
  ASSUME TypeOK
  PROVE  \E n \in Nat : DOMAIN file = 1 .. n
<1>1. CASE file \in Files
  <2>1. file \in Seq(Line)
    BY <1>1, FilesAssumption
  <2> QED
    BY <2>1
<1>2. CASE file = <<>>
  <2>1. DOMAIN file = 1 .. 0
    BY <1>2
  <2> QED
    BY <2>1
<1>3. CASE file = DefaultFile
  BY <1>3 DEF DefaultFile, CFG_NENTRIES
<1>4. CASE file \in CutFiles
  <2>1. PICK n \in 0 .. CFG_NENTRIES : DOMAIN file = 1 .. n
    BY <1>4, CutTyped
  <2> QED
    BY <2>1 DEF CFG_NENTRIES
<1> QED
  BY <1>1, <1>2, <1>3, <1>4 DEF TypeOK

(* Hence it has finitely many entries. *)
LEMMA EntriesFinite ==
  ASSUME TypeOK
  PROVE  IsFiniteSet(Entries(file))
<1>1. PICK n \in Nat : DOMAIN file = 1 .. n
  BY FileDomain
<1>2. IsFiniteSet(1 .. n)
  <2>1. 1 \in Int /\ n \in Int
    OBVIOUS
  <2> QED
    BY <2>1, FS_Interval, Zenon
<1>3. Entries(file) \subseteq 1 .. n
  BY <1>1 DEF Entries
<1> QED
  BY <1>2, <1>3, FS_Subset

LEMMA BufferTyped ==
  ASSUME TypeOK, NEW k \in Nat
  PROVE  LineAt(k) \in Line
BY FileTyped, LinesTyped DEF LineAt

LEMMA LoggedTyped ==
  ASSUME TypeOK
  PROVE  {file[k] : k \in Entries(file)} \subseteq Line
BY FileTyped DEF Entries

-----------------------------------------------------------------------------
(* Type correctness, for every set of strings, numbers and files. *)
THEOREM TypeCorrect == Spec => []TypeOK
<1> USE DEF NumIds, StrIds, Blocks, Ended, Running, CFG_NENTRIES, CFG_AUTOFIX,
            CFG_TIMEOUT, CFG_TUNDEV, CFG_NETREPO
<1>1. Init => TypeOK
  <2> SUFFICES ASSUME Init PROVE TypeOK
    OBVIOUS
  <2>1. /\ num \in [NumIds -> Int] /\ ptr \in [StrIds -> 0 .. CFG_NENTRIES]
        /\ mem \in [Blocks -> Strings \cup {Free}]
    BY DEF Init, ZeroNum, ZeroPtr, ZeroMem
  <2>2. /\ present \in BOOLEAN /\ cfgdir \in BOOLEAN /\ forced \in BOOLEAN
        /\ firstTime \in BOOLEAN /\ err \in BOOLEAN
    BY DEF Init
  <2> QED
    BY <2>1, <2>2 DEF Init, TypeOK
<1>2. TypeOK /\ [Next]_vars => TypeOK'
  <2> SUFFICES ASSUME TypeOK, [Next]_vars PROVE TypeOK'
    OBVIOUS
  <2> USE DEF TypeOK, disk, options, flags, logs
  <2>1. CASE Edit
    BY <2>1 DEF Edit
  <2>2. CASE Start
    BY <2>2 DEF Start, LaunchNum, LOG_DEBUG, LOG_NOTIF
  <2>3. CASE Gone
    <3>1. /\ num' \in [NumIds -> Int] /\ ptr' \in [StrIds -> 0 .. CFG_NENTRIES]
          /\ mem' \in [Blocks -> Strings \cup {Free}]
      BY <2>3 DEF Gone, ZeroNum, ZeroPtr, ZeroMem
    <3>2. forced' \in BOOLEAN /\ firstTime' \in BOOLEAN /\ err' \in BOOLEAN
      BY <2>3 DEF Gone
    <3> QED
      BY <2>3, <3>1, <3>2 DEF Gone
  <2>4. CASE Count \/ CountFails
    BY <2>4 DEF Count, CountFails, Decide
  <2>5. CASE Backup \/ BackupFails \/ LogFails
    BY <2>5, LoggedTyped DEF Backup, BackupFails, LogFails
  <2>6. CASE Create
    BY <2>6 DEF Create, MakeFolder, Truncate, WriteDefaults, WriteFails
  <2>7. CASE Open \/ CallFails \/ Finish \/ Crash
    BY <2>7 DEF Open, CallFails, Finish, Crash
  <2>8. CASE ReadLine
    <3> DEFINE ln == ReadBuffer
    <3>0. ln \in Line
      BY BufferTyped DEF ReadBuffer
    <3> HIDE DEF ln
    <3>1. CASE SkipLine
      BY <3>1 DEF SkipLine, Reading, NextLine
    <3>2. CASE KeepForcedLevel
      BY <3>2 DEF KeepForcedLevel, Reading, NextLine
    <3>3. CASE RejectNumber
      BY <3>3 DEF RejectNumber, Reading, NextLine
    <3>4. CASE NullAbort \/ MallocFails \/ NoQuoteFaults
      BY <3>4 DEF NullAbort, MallocFails, NoQuoteFaults
    <3>5. CASE SetNumber
      <4>1. /\ i' = i + 1 /\ i < CFG_NENTRIES
            /\ ln.id \in NumIds
            /\ num' = [num EXCEPT ![ln.id] =
                         IF ln.id = 7 THEN ToLong(ln.num) ELSE ln.num]
            /\ UNCHANGED <<disk, pc, ptr, mem, longest, flags, logs>>
        BY <3>5 DEF SetNumber, Reading, NextLine, IsNumber, ln
      <4>2. ln.num \in Int /\ ToLong(ln.num) \in Int
        <5>1. ln.num \in Numbers
          BY <3>0 DEF Line
        <5> QED
          BY <5>1, NumbersTyped
      <4>3. num' \in [NumIds -> Int]
        BY <4>1, <4>2
      <4>4. i' \in 0 .. CFG_NENTRIES
        BY <4>1
      <4>5. UNCHANGED <<present, file, cfgdir, pc, ptr, mem, longest, forced,
                        firstTime, err, logged, unnoticed>>
        BY <4>1
      <4> HIDE DEF TypeOK
      <4>6. TypeOK
        OBVIOUS
      <4> QED
        BY ONLY <4>3, <4>4, <4>5, <4>6 DEF TypeOK
    <3>6. CASE SetString
      <4>1. /\ i' = i + 1 /\ i < CFG_NENTRIES
            /\ ln.id \in StrIds
            /\ ptr' = [ptr EXCEPT ![ln.id] = i + 1]
            /\ UNCHANGED <<disk, pc, num, forced, firstTime, logs>>
        BY <3>6 DEF SetString, Reading, NextLine, IsString, ln
      <4>2. PICK s \in Strings :
              /\ mem' = [mem EXCEPT ![i + 1] =
                           IF StrLen[s] > MaxLen[ln.id] THEN "ERROR" ELSE s]
              /\ err' = (err \/ StrLen[s] > MaxLen[ln.id])
              /\ longest' = Grown(longest, StrLen[s])
        <5>1. ln.str \in Strings
          BY <3>0 DEF Line
        <5> QED
          BY <3>6, <5>1 DEF SetString, ln
      <4>3. longest' \in Nat
        BY <4>2, GrownCovers, StringsAssumption
      <4>4. mem' \in [Blocks -> Strings \cup {Free}]
        BY <4>2, StringsAssumption
      <4>5. err' \in BOOLEAN
        BY <4>2
      <4>6. i' \in 0 .. CFG_NENTRIES /\ ptr' \in [StrIds -> 0 .. CFG_NENTRIES]
        <5>1. i + 1 \in 0 .. CFG_NENTRIES
          BY <4>1
        <5> QED
          BY <4>1, <5>1
      <4> QED
        BY <4>1, <4>3, <4>4, <4>5, <4>6
    <3> QED
      BY <2>8, <3>1, <3>2, <3>3, <3>4, <3>5, <3>6 DEF ReadLine
  <2>9. CASE Cleanup
    BY <2>9 DEF Cleanup
  <2>10. CASE UNCHANGED vars
    BY <2>10 DEF vars
  <2> QED
    BY <2>1, <2>2, <2>3, <2>4, <2>5, <2>6, <2>7, <2>8, <2>9, <2>10
       DEF Next, Startup
<1> QED
  BY <1>1, <1>2, PTL DEF Spec

-----------------------------------------------------------------------------
(* What the safety theorems rest on besides the types: a process that has  *)
(* not started owns nothing, nothing is read before the file is open, and  *)
(* a string option points at the block of a line already read.  The last   *)
(* is why no block is ever shared.                                         *)
FreshStart ==
  /\ pc = "off" => /\ ptr = ZeroPtr /\ forced = FALSE /\ longest = 0 /\ i = 0
  /\ pc \in {"count", "backup", "folder", "create", "flush", "open"} => i = 0
BlocksRead == pc \in Running => \A e \in StrIds : ptr[e] <= i

MemInv == FreshStart /\ BlocksRead /\ PointersOK /\ LongestCovers /\ ForcedLevelWins

(* A step that leaves nodecfg alone. *)
LEMMA OptionsKept ==
  ASSUME MemInv, UNCHANGED <<i, num, ptr, mem, longest, forced>>,
         pc' \in Running => pc \in Running,
         pc' = "off" => pc = "off",
         pc' \in {"count", "backup", "folder", "create", "flush", "open"} =>
           pc \in {"count", "backup", "folder", "create", "flush", "open"}
  PROVE  MemInv'
BY DEF MemInv, FreshStart, BlocksRead, PointersOK, LongestCovers, ForcedLevelWins

LEMMA MemInvInit == Init => MemInv
<1> SUFFICES ASSUME Init PROVE MemInv
  OBVIOUS
<1>1. pc \notin Running /\ forced = FALSE
  BY DEF Init, Running
<1> QED
  BY <1>1 DEF Init, MemInv, FreshStart, BlocksRead, PointersOK, LongestCovers,
              ForcedLevelWins

LEMMA MemInvString ==
  ASSUME TypeOK, MemInv, SetString
  PROVE  MemInv'
<1> DEFINE ln == ReadBuffer
<1>0. ln \in Line
  BY BufferTyped DEF ReadBuffer, TypeOK
<1>1. /\ i' = i + 1 /\ i < CFG_NENTRIES
      /\ ln.id \in StrIds
      /\ ptr' = [ptr EXCEPT ![ln.id] = i + 1]
      /\ pc = "read" /\ UNCHANGED <<pc, num, forced>>
  BY DEF SetString, Reading, NextLine, IsString
<1>2. PICK s \in Strings :
        /\ mem' = [mem EXCEPT ![i + 1] =
                     IF StrLen[s] > MaxLen[ln.id] THEN "ERROR" ELSE s]
        /\ longest' = Grown(longest, StrLen[s])
  <2>1. ln.str \in Strings
    BY <1>0 DEF Line
  <2> QED
    BY <2>1 DEF SetString
<1> HIDE DEF ln
<1>3. /\ i \in Nat /\ i + 1 \in Blocks
      /\ ptr \in [StrIds -> Nat] /\ mem \in [Blocks -> Strings \cup {Free}]
      /\ \A e \in StrIds : ptr[e] <= i /\ (ptr[e] # 0 => ptr[e] \in Blocks)
  <2>1. i \in 0 .. 11 /\ i < 11
    BY <1>1 DEF TypeOK, CFG_NENTRIES
  <2>2. ptr \in [StrIds -> 0 .. 11] /\ \A e \in StrIds : ptr[e] <= i
    BY <1>1 DEF TypeOK, CFG_NENTRIES, MemInv, BlocksRead, Running
  <2>3. mem \in [Blocks -> Strings \cup {Free}]
    BY DEF TypeOK
  <2> QED
    BY <2>1, <2>2, <2>3 DEF Blocks, CFG_NENTRIES
<1>4. /\ longest' \in Nat /\ longest <= longest' /\ StrLen[s] <= longest'
      /\ longest \in Nat /\ StrLen[s] \in Nat
  BY <1>2, GrownCovers, StringsAssumption DEF TypeOK
<1>5. mem'[i + 1] \in Strings /\ StrLen[mem'[i + 1]] <= longest'
  <2>1. MaxLen[ln.id] \in Nat /\ MaxLen[ln.id] >= 15
    BY <1>1 DEF MaxLen
  <2>2. CASE StrLen[s] > MaxLen[ln.id]
    BY <1>2, <1>3, <1>4, <2>1, <2>2, StringsAssumption
  <2>3. CASE ~(StrLen[s] > MaxLen[ln.id])
    BY <1>2, <1>3, <1>4, <2>3
  <2> QED
    BY <2>2, <2>3
<1>6. \A e \in StrIds :
        ptr'[e] # 0 =>
          \/ e = ln.id /\ ptr'[e] = i + 1
          \/ /\ e # ln.id /\ ptr'[e] = ptr[e] /\ ptr[e] # i + 1
             /\ mem'[ptr[e]] = mem[ptr[e]]
  BY <1>1, <1>2, <1>3
<1>7. PointersOK'
  <2>1. \A e \in StrIds : ptr'[e] # 0 => mem'[ptr'[e]] # Free
    BY <1>1, <1>3, <1>5, <1>6, StringsAssumption DEF MemInv, PointersOK, Running
  <2>2. \A e, f \in StrIds : e # f /\ ptr'[e] = ptr'[f] => ptr'[e] = 0
    BY <1>1, <1>3, <1>6 DEF MemInv, PointersOK, Running
  <2> QED
    BY <2>1, <2>2 DEF PointersOK
<1>8. LongestCovers'
  <2>1. ASSUME NEW e \in StrIds, ptr'[e] # 0
        PROVE  StrLen[mem'[ptr'[e]]] <= longest'
    <3>1. CASE ptr'[e] = i + 1
      BY <1>5, <3>1
    <3>2. CASE ptr'[e] = ptr[e] /\ mem'[ptr[e]] = mem[ptr[e]]
      <4>1. /\ StrLen[mem[ptr[e]]] <= longest /\ mem[ptr[e]] \in Strings
        BY <1>1, <1>3, <2>1, <3>2 DEF MemInv, LongestCovers, PointersOK, Running
      <4> QED
        BY <1>4, <3>2, <4>1, StringsAssumption
    <3> QED
      BY <1>6, <2>1, <3>1, <3>2
  <2> QED
    BY <2>1 DEF LongestCovers
<1>9. BlocksRead' /\ FreshStart'
  BY <1>1, <1>3 DEF BlocksRead, FreshStart
<1> QED
  BY <1>1, <1>7, <1>8, <1>9 DEF MemInv, ForcedLevelWins

LEMMA MemInvNumber ==
  ASSUME TypeOK, MemInv, SetNumber
  PROVE  MemInv'
<1>1. /\ i' = i + 1 /\ i \in Nat /\ pc = "read"
      /\ UNCHANGED <<pc, ptr, mem, longest, forced>>
  BY DEF SetNumber, Reading, NextLine, flags, TypeOK
<1>2. forced => num'[CFG_NLOGLVL] = num[CFG_NLOGLVL]
  BY DEF SetNumber, TypeOK
<1>3. PointersOK' /\ LongestCovers'
  BY <1>1 DEF MemInv, PointersOK, LongestCovers
<1>4. BlocksRead'
  <2>1. ptr \in [StrIds -> 0 .. CFG_NENTRIES]
    BY DEF TypeOK
  <2> QED
    BY <1>1, <2>1 DEF MemInv, BlocksRead, Running, CFG_NENTRIES
<1> QED
  BY <1>1, <1>2, <1>3, <1>4 DEF MemInv, FreshStart, ForcedLevelWins

LEMMA MemInvSkip ==
  ASSUME TypeOK, MemInv, SkipLine \/ KeepForcedLevel \/ RejectNumber
  PROVE  MemInv'
<1>1. /\ i' = i + 1 /\ i \in Nat /\ pc = "read"
      /\ UNCHANGED <<pc, num, ptr, mem, longest, forced>>
  BY DEF SkipLine, KeepForcedLevel, RejectNumber, Reading, NextLine, flags,
         options, TypeOK
<1>2. BlocksRead'
  <2>1. ptr \in [StrIds -> 0 .. CFG_NENTRIES]
    BY DEF TypeOK
  <2> QED
    BY <1>1, <2>1 DEF MemInv, BlocksRead, Running, CFG_NENTRIES
<1> QED
  BY <1>1, <1>2 DEF MemInv, FreshStart, ForcedLevelWins, PointersOK, LongestCovers

LEMMA MemInvAlways == Spec => []MemInv
<1>1. TypeOK /\ MemInv /\ [Next]_vars => MemInv'
  <2> SUFFICES ASSUME TypeOK, MemInv, [Next]_vars PROVE MemInv'
    OBVIOUS
  <2>1. CASE Start
    <3>1. /\ pc' = "count" /\ ptr' = ZeroPtr /\ i' = 0 /\ longest' = 0
          /\ num' = LaunchNum(forced')
      BY <2>1 DEF Start, MemInv, FreshStart
    <3>2. \A e \in StrIds : ptr'[e] = 0
      BY <3>1 DEF ZeroPtr
    <3>3. forced' => num'[CFG_NLOGLVL] = LOG_DEBUG
      BY <3>1 DEF LaunchNum, NumIds, CFG_AUTOFIX, CFG_TIMEOUT, CFG_NLOGLVL, CFG_NETLOGO
    <3> QED
      BY <3>1, <3>2, <3>3 DEF MemInv, FreshStart, BlocksRead, PointersOK,
                              LongestCovers, ForcedLevelWins
  <2>2. CASE Gone \/ Cleanup
    <3>1. pc' \in {"off", "exited"}
      BY <2>2 DEF Gone, Cleanup
    <3>2. ForcedLevelWins' /\ FreshStart'
      BY <2>2, <3>1 DEF Gone, Cleanup, flags, MemInv, ForcedLevelWins, FreshStart
    <3> QED
      BY <3>1, <3>2 DEF MemInv, BlocksRead, PointersOK, LongestCovers, Running
  <2>3. CASE SetString
    BY <2>3, MemInvString
  <2>4. CASE SetNumber
    BY <2>4, MemInvNumber
  <2>5. CASE SkipLine \/ KeepForcedLevel \/ RejectNumber
    BY <2>5, MemInvSkip
  <2>6. CASE Edit \/ Count \/ CountFails \/ Backup \/ BackupFails \/ LogFails
    BY <2>6, OptionsKept
       DEF Edit, Count, CountFails, Decide, Backup, BackupFails, LogFails, options, flags, Running
  <2>7. CASE Create \/ Open \/ CallFails \/ Finish \/ Crash
    BY <2>7, OptionsKept
       DEF Create, MakeFolder, Truncate, WriteDefaults, WriteFails, Open, CallFails, Finish,
           Crash, options, flags, Running
  <2>8. CASE NullAbort \/ MallocFails \/ NoQuoteFaults
    BY <2>8, OptionsKept
       DEF NullAbort, MallocFails, NoQuoteFaults, Reading, options, flags, Running
  <2>9. CASE UNCHANGED vars
    BY <2>9, OptionsKept DEF vars, options, flags
  <2> QED
    BY <2>1, <2>2, <2>3, <2>4, <2>5, <2>6, <2>7, <2>8, <2>9
       DEF Next, Startup, ReadLine
<1> QED
  BY <1>1, MemInvInit, TypeCorrect, PTL DEF Spec

(* Two string options never share a block of the heap and none points at    *)
(* freed memory, so that cnode_cleanup() frees each block at most once.     *)
THEOREM MemorySafe == Spec => []PointersOK
<1>1. MemInv => PointersOK
  BY DEF MemInv
<1> QED
  BY <1>1, MemInvAlways, PTL

(* longest_cfg_entry, by which the buffers of the menu are sized, covers    *)
(* every string option that is set.                                         *)
THEOREM LongestIsBound == Spec => []LongestCovers
<1>1. MemInv => LongestCovers
  BY DEF MemInv
<1> QED
  BY <1>1, MemInvAlways, PTL

(* A log level forced by --debug stays, whatever the file says. *)
THEOREM ForcedLevelStays == Spec => []ForcedLevelWins
<1>1. MemInv => ForcedLevelWins
  BY DEF MemInv
<1> QED
  BY <1>1, MemInvAlways, PTL

-----------------------------------------------------------------------------
(* How a turn of the loop extends the lines an option is taken from. *)
LEMMA TakenGrows ==
  ASSUME i \in Nat, i' = i + 1, UNCHANGED <<file, forced>>
  PROVE  /\ \A e : TakenNum(e)' = TakenNum(e) \cup
                      (IF TakesNum(LineAt(i + 1), e) THEN {i + 1} ELSE {})
         /\ \A e : TakenStr(e)' = TakenStr(e) \cup
                      (IF TakesStr(LineAt(i + 1), e) THEN {i + 1} ELSE {})
         /\ \A e : TakenNum(e) \subseteq 1 .. i /\ TakenStr(e) \subseteq 1 .. i
         /\ \A k : LineAt(k)' = LineAt(k)
<1>1. \A k : LineAt(k)' = LineAt(k)
  BY DEF LineAt
<1>2. \A k, e : (TakesNum(LineAt(k), e))' <=> TakesNum(LineAt(k), e)
  BY <1>1 DEF TakesNum
<1>3. \A k, e : (TakesStr(LineAt(k), e))' <=> TakesStr(LineAt(k), e)
  BY <1>1 DEF TakesStr
<1>4. 1 .. (i + 1) = (1 .. i) \cup {i + 1}
  OBVIOUS
<1> QED
  BY <1>1, <1>2, <1>3, <1>4 DEF TakenNum, TakenStr

(* Nothing an option's value is made of changes. *)
LEMMA FaithKept ==
  ASSUME ReadIsFaithful, UNCHANGED <<file, i, num, ptr, mem, forced>>,
         pc' \in Running => pc \in Running
  PROVE  ReadIsFaithful'
BY DEF ReadIsFaithful, NumberFaithful, StringFaithful, TakenNum, TakenStr,
       TakesNum, TakesStr, LineAt, IsLast

(* Before the first line the options are those of the launch, whatever is  *)
(* in the file.                                                            *)
LEMMA FaithAtZero ==
  ASSUME i = 0, \A e \in NumIds : num[e] = LaunchNum(forced)[e],
         \A e \in StrIds : ptr[e] = 0
  PROVE  ReadIsFaithful
BY DEF ReadIsFaithful, NumberFaithful, StringFaithful, TakenNum, TakenStr

LEMMA ZeroIsLaunch ==
  ASSUME ReadIsFaithful, i = 0, pc \in Running
  PROVE  /\ \A e \in NumIds : num[e] = LaunchNum(forced)[e]
         /\ \A e \in StrIds : ptr[e] = 0
BY DEF ReadIsFaithful, NumberFaithful, StringFaithful, TakenNum, TakenStr, IsLast

(* A line that is not taken for an option leaves it as faithful as it was. *)
LEMMA FaithOfOthers ==
  ASSUME TypeOK, ReadIsFaithful, BlocksRead, Reading, NextLine,
         UNCHANGED <<file, pc, forced>>
  PROVE  /\ \A e \in NumIds :
              ~TakesNum(ReadBuffer, e) /\ num'[e] = num[e] => NumberFaithful(e)'
         /\ \A e \in StrIds :
              /\ ~TakesStr(ReadBuffer, e)
              /\ ptr'[e] = ptr[e]
              /\ ptr[e] \in 1 .. i => mem'[ptr[e]] = mem[ptr[e]]
              => StringFaithful(e)'
<1>1. i \in Nat /\ i' = i + 1 /\ pc \in Running
  BY DEF TypeOK, Reading, NextLine, Running
<1>2. ASSUME NEW e \in NumIds, ~TakesNum(ReadBuffer, e), num'[e] = num[e]
      PROVE  NumberFaithful(e)'
  <2>1. TakenNum(e)' = TakenNum(e) /\ \A k : LineAt(k)' = LineAt(k)
    BY <1>1, <1>2, TakenGrows DEF ReadBuffer
  <2>2. NumberFaithful(e)
    BY <1>1 DEF ReadIsFaithful
  <2> QED
    BY <1>2, <2>1, <2>2 DEF NumberFaithful, IsLast
<1>3. ASSUME NEW e \in StrIds, ~TakesStr(ReadBuffer, e), ptr'[e] = ptr[e],
             ptr[e] \in 1 .. i => mem'[ptr[e]] = mem[ptr[e]]
      PROVE  StringFaithful(e)'
  <2>1. TakenStr(e)' = TakenStr(e) /\ \A k : LineAt(k)' = LineAt(k)
    BY <1>1, <1>3, TakenGrows DEF ReadBuffer
  <2>2. StringFaithful(e)
    BY <1>1 DEF ReadIsFaithful
  <2>3. ptr[e] \in TakenStr(e) => ptr[e] \in 1 .. i
    BY DEF TakenStr
  <2> QED
    BY <1>3, <2>1, <2>2, <2>3 DEF StringFaithful, IsLast
<1> QED
  BY <1>2, <1>3

LEMMA FaithNumber ==
  ASSUME TypeOK, MemInv, ReadIsFaithful, SetNumber
  PROVE  ReadIsFaithful'
<1> DEFINE ln == ReadBuffer
<1>1. /\ Reading /\ NextLine /\ i \in Nat /\ i' = i + 1
      /\ UNCHANGED <<file, pc, ptr, mem, forced>>
  BY DEF SetNumber, Reading, NextLine, disk, flags, TypeOK
<1>2. /\ IsNumber(ln) /\ ~OutOfRange(ln) /\ ~(ln.id = CFG_NLOGLVL /\ forced)
      /\ num' = [num EXCEPT ![ln.id] =
                   IF ln.id = CFG_TIMEOUT THEN ToLong(ln.num) ELSE ln.num]
  BY DEF SetNumber
<1>3. ASSUME NEW e \in NumIds, e # ln.id PROVE NumberFaithful(e)'
  <2>1. ~TakesNum(ReadBuffer, e) /\ num'[e] = num[e]
    BY <1>2, <1>3 DEF TakesNum, TypeOK
  <2> QED
    BY <1>1, <2>1, FaithOfOthers DEF MemInv
<1>4. ASSUME NEW e \in NumIds, e = ln.id PROVE NumberFaithful(e)'
  <2>1. TakesNum(LineAt(i + 1), e)
    BY <1>2, <1>4 DEF TakesNum, ReadBuffer
  <2>2. /\ TakenNum(e)' = TakenNum(e) \cup {i + 1} /\ TakenNum(e) \subseteq 1 .. i
        /\ \A k : LineAt(k)' = LineAt(k)
    BY <1>1, <2>1, TakenGrows
  <2>3. PICK k \in Nat : k = i + 1
    BY <1>1
  <2>4. k \in TakenNum(e)' /\ \A l \in TakenNum(e)' : l <= k
    BY <1>1, <2>2, <2>3
  <2>5. num'[e] = (IF ln.id = CFG_TIMEOUT THEN ToLong(ln.num) ELSE ln.num)
    BY <1>2, <1>4 DEF TypeOK
  <2>6. LineAt(k)' = ln
    BY <2>2, <2>3 DEF ReadBuffer
  <2>7. num'[e] = (IF e = CFG_TIMEOUT THEN ToLong(LineAt(k)'.num)
                                      ELSE LineAt(k)'.num)
    BY <1>4, <2>5, <2>6
  <2> QED
    BY <2>4, <2>7 DEF NumberFaithful, IsLast, ToLong
<1>5. ASSUME NEW e \in StrIds PROVE StringFaithful(e)'
  <2>1. ~TakesStr(ReadBuffer, e)
    BY <1>2 DEF TakesStr, IsString, IsNumber, NumIds, StrIds, CFG_AUTOFIX,
                CFG_TIMEOUT, CFG_TUNDEV, CFG_NETREPO
  <2> QED
    BY <1>1, <2>1, FaithOfOthers DEF MemInv
<1> QED
  BY <1>3, <1>4, <1>5 DEF ReadIsFaithful

LEMMA FaithString ==
  ASSUME TypeOK, MemInv, ReadIsFaithful, SetString
  PROVE  ReadIsFaithful'
<1> DEFINE ln == ReadBuffer
<1>1. /\ Reading /\ NextLine /\ i \in Nat /\ i' = i + 1 /\ i + 1 \in Blocks
      /\ UNCHANGED <<file, pc, num, forced>>
  BY DEF SetString, Reading, NextLine, disk, TypeOK, CFG_NENTRIES, Blocks
<1>2. /\ IsString(ln) /\ ln.id \in StrIds
      /\ ptr' = [ptr EXCEPT ![ln.id] = i + 1]
  BY DEF SetString, IsString
<1>3. PICK s \in IF ln.kind = "onequote" THEN Strings ELSE {ln.str} :
        mem' = [mem EXCEPT ![i + 1] =
                  IF StrLen[s] > MaxLen[ln.id] THEN "ERROR" ELSE s]
  BY DEF SetString
<1>4. ASSUME NEW e \in StrIds, e # ln.id PROVE StringFaithful(e)'
  <2>1. ~TakesStr(ReadBuffer, e) /\ ptr'[e] = ptr[e]
    BY <1>2, <1>4 DEF TakesStr, TypeOK
  <2>2. ptr[e] \in 1 .. i => ptr[e] # i + 1
    BY <1>1
  <2>3. ptr[e] \in 1 .. i => ptr[e] \in Blocks
    BY <1>1 DEF Blocks, CFG_NENTRIES
  <2>4. ptr[e] \in 1 .. i => mem'[ptr[e]] = mem[ptr[e]]
    BY <1>3, <2>2, <2>3 DEF TypeOK
  <2> QED
    BY <1>1, <2>1, <2>4, FaithOfOthers DEF MemInv
<1>5. ASSUME NEW e \in StrIds, e = ln.id PROVE StringFaithful(e)'
  <2>1. TakesStr(LineAt(i + 1), e)
    BY <1>2, <1>5 DEF TakesStr, ReadBuffer
  <2>2. /\ TakenStr(e)' = TakenStr(e) \cup {i + 1} /\ TakenStr(e) \subseteq 1 .. i
        /\ \A k : LineAt(k)' = LineAt(k)
    BY <1>1, <2>1, TakenGrows
  <2>3. PICK k \in Nat : k = i + 1
    BY <1>1
  <2>4. k \in TakenStr(e)' /\ \A l \in TakenStr(e)' : l <= k
    BY <1>1, <2>2, <2>3
  <2>5. ptr'[e] = k
    BY <1>2, <1>5, <2>3 DEF TypeOK
  <2>6. LineAt(k)' = ln
    BY <2>2, <2>3 DEF ReadBuffer
  <2>7. mem'[k] = (IF StrLen[s] > MaxLen[e] THEN "ERROR" ELSE s)
    BY <1>1, <1>3, <1>5, <2>3 DEF TypeOK
  <2>8. LineAt(k)'.kind # "onequote" =>
          mem'[k] = (IF StrLen[LineAt(k)'.str] > MaxLen[e]
                     THEN "ERROR" ELSE LineAt(k)'.str)
    BY <1>3, <2>6, <2>7
  <2> QED
    BY <2>4, <2>5, <2>8 DEF StringFaithful, IsLast
<1>6. ASSUME NEW e \in NumIds PROVE NumberFaithful(e)'
  <2>1. ~TakesNum(ReadBuffer, e)
    BY <1>2 DEF TakesNum, IsString, IsNumber, NumIds, StrIds, CFG_AUTOFIX,
                CFG_TIMEOUT, CFG_TUNDEV, CFG_NETREPO
  <2> QED
    BY <1>1, <2>1, FaithOfOthers DEF MemInv
<1> QED
  BY <1>4, <1>5, <1>6 DEF ReadIsFaithful

(* A line that stores nothing is taken for no option. *)
LEMMA FaithSkip ==
  ASSUME TypeOK, MemInv, ReadIsFaithful, SkipLine \/ KeepForcedLevel \/ RejectNumber
  PROVE  ReadIsFaithful'
<1> DEFINE ln == ReadBuffer
<1>1. /\ Reading /\ NextLine
      /\ UNCHANGED <<file, pc, num, ptr, mem, forced>>
  BY DEF SkipLine, KeepForcedLevel, RejectNumber, disk, options, flags
<1>2. /\ \A e \in NumIds : ~TakesNum(ln, e)
      /\ \A e \in StrIds : ~TakesStr(ln, e)
  <2>1. \A e \in StrIds : e \notin NumIds
    BY DEF NumIds, StrIds, CFG_AUTOFIX, CFG_TIMEOUT, CFG_TUNDEV, CFG_NETREPO
  <2>2. CASE SkipLine
    BY <2>1, <2>2 DEF SkipLine, IsIgnored, TakesNum, TakesStr, IsNumber, IsString
  <2>3. CASE KeepForcedLevel
    BY <2>1, <2>3 DEF KeepForcedLevel, TakesNum, TakesStr, IsNumber, IsString
  <2>4. CASE RejectNumber
    BY <2>1, <2>4 DEF RejectNumber, TakesNum, TakesStr, IsNumber, IsString
  <2> QED
    BY <2>2, <2>3, <2>4
<1> QED
  BY <1>1, <1>2, FaithOfOthers DEF ReadIsFaithful, MemInv

(* While a launch reads the file every option has the value of the last    *)
(* acceptable line for it so far, wherever in the file that line is, and   *)
(* its start value when there is none.                                     *)
THEOREM ReadFaithful == Spec => []ReadIsFaithful
<1>1. Init => ReadIsFaithful
  BY DEF Init, ReadIsFaithful, Running
<1>2. TypeOK /\ MemInv /\ ReadIsFaithful /\ [Next]_vars => ReadIsFaithful'
  <2> SUFFICES ASSUME TypeOK, MemInv, ReadIsFaithful, [Next]_vars
               PROVE  ReadIsFaithful'
    OBVIOUS
  <2>1. CASE Start
    <3>1. /\ i' = 0 /\ num' = LaunchNum(forced)' /\ ptr' = ZeroPtr
      BY <2>1 DEF Start, MemInv, FreshStart, LaunchNum
    <3> QED
      BY <3>1 DEF ReadIsFaithful, NumberFaithful, StringFaithful, TakenNum,
                  TakenStr, ZeroPtr
  <2>2. CASE Gone \/ Cleanup \/ NoQuoteFaults \/ Edit \/ Crash
    BY <2>2 DEF Gone, Cleanup, NoQuoteFaults, Edit, Crash, ReadIsFaithful, Running
  <2>3. CASE Truncate \/ WriteDefaults \/ WriteFails
    <3>1. i = 0 /\ pc \in Running
      BY <2>3 DEF Truncate, WriteDefaults, WriteFails, MemInv, FreshStart, Running
    <3>2. UNCHANGED <<i, num, ptr, forced>>
      BY <2>3 DEF Truncate, WriteDefaults, WriteFails, options, flags
    <3> QED
      BY <3>1, <3>2, ZeroIsLaunch DEF ReadIsFaithful, NumberFaithful,
         StringFaithful, TakenNum, TakenStr, LaunchNum
  <2>4. CASE SetNumber
    BY <2>4, FaithNumber
  <2>5. CASE SetString
    BY <2>5, FaithString
  <2>6. CASE SkipLine \/ KeepForcedLevel \/ RejectNumber
    BY <2>6, FaithSkip
  <2>7. CASE Count \/ CountFails \/ Backup \/ BackupFails \/ LogFails \/ MakeFolder
    BY <2>7, FaithKept
       DEF Count, CountFails, Decide, Backup, BackupFails, LogFails, MakeFolder, disk,
           options, flags, Running
  <2>8. CASE Open \/ CallFails \/ Finish \/ NullAbort \/ MallocFails
    BY <2>8, FaithKept
       DEF Open, CallFails, Finish, NullAbort, MallocFails, Reading, disk,
           options, flags, Running
  <2>9. CASE UNCHANGED vars
    BY <2>9, FaithKept DEF vars, disk, options, flags
  <2> QED
    BY <2>1, <2>2, <2>3, <2>4, <2>5, <2>6, <2>7, <2>8, <2>9
       DEF Next, Startup, Create, ReadLine
<1> QED
  BY <1>1, <1>2, TypeCorrect, MemInvAlways, PTL DEF Spec

-----------------------------------------------------------------------------
(* The default file has the number of entries that makes a file complete. *)
LEMMA DefaultIsComplete == EntryCount(DefaultFile) = CFG_NENTRIES
<1>1. Entries(DefaultFile) = 1 .. CFG_NENTRIES
  <2>1. DOMAIN DefaultFile = 1 .. CFG_NENTRIES
    BY DEF DefaultFile
  <2> QED
    BY <2>1, DefaultsTyped DEF Entries
<1>2. Cardinality(1 .. 11) = 11
  <2>1. 1 \in Int /\ 11 \in Int
    OBVIOUS
  <2>2. Cardinality(1 .. 11) = IF 1 > 11 THEN 0 ELSE 11 - 1 + 1
    BY <2>1, FS_Interval, Zenon
  <2> QED
    BY <2>2
<1> QED
  BY <1>1, <1>2 DEF EntryCount, CFG_NENTRIES

(* A file is only opened to be read when it is complete, or was just made. *)
SettledInv ==
  /\ pc \in {"open", "read", "done"} =>
       present /\ (EntryCount(file) = CFG_NENTRIES \/ "write" \in unnoticed)
  /\ pc = "flush" => present

(* A launch that gets as far as reading reads a complete file, whatever an  *)
(* edit, a killed launch or one that could not write had left there; the    *)
(* exception is the launch whose own write is lost.                         *)
THEOREM FileSettled == Spec => []ConfigSettled
<1>1. Init => SettledInv
  BY DEF Init, SettledInv
<1>2. SettledInv /\ [Next]_vars => SettledInv'
  <2> SUFFICES ASSUME SettledInv, [Next]_vars PROVE SettledInv'
    OBVIOUS
  <2> USE DEF SettledInv
  <2>1. CASE Count \/ CountFails
    <3>1. /\ file' = file /\ present' = present
          /\ pc' \in {"open", "backup", "folder"}
          /\ pc' = "open" => present /\ EntryCount(file) = CFG_NENTRIES
      BY <2>1 DEF Count, CountFails, Decide, disk, CFG_NENTRIES
    <3> QED
      BY <3>1 DEF EntryCount, Entries
  <2>2. CASE WriteDefaults
    BY <2>2, DefaultIsComplete DEF WriteDefaults, EntryCount, Entries
  <2>9. CASE WriteFails
    BY <2>9 DEF WriteFails
  <2>3. CASE Edit \/ Start \/ Gone \/ Cleanup \/ Crash
    BY <2>3 DEF Edit, Start, Gone, Cleanup, Crash
  <2>4. CASE Backup \/ BackupFails \/ LogFails \/ MakeFolder \/ Truncate \/ CallFails
    BY <2>4 DEF Backup, BackupFails, LogFails, MakeFolder, Truncate, CallFails
  <2>5. CASE Open \/ Finish
    BY <2>5 DEF Open, Finish, disk, logs, EntryCount, Entries
  <2>6. CASE SkipLine \/ SetNumber \/ KeepForcedLevel \/ RejectNumber \/ SetString
    BY <2>6 DEF SkipLine, SetNumber, KeepForcedLevel, RejectNumber, SetString,
                Reading, disk, logs, EntryCount, Entries
  <2>7. CASE NullAbort \/ MallocFails \/ NoQuoteFaults
    BY <2>7 DEF NullAbort, MallocFails, NoQuoteFaults
  <2>8. CASE UNCHANGED vars
    BY <2>8 DEF vars, disk, logs, EntryCount, Entries
  <2> QED
    BY <2>1, <2>2, <2>3, <2>4, <2>5, <2>6, <2>7, <2>8, <2>9
       DEF Next, Startup, Create, ReadLine
<1>3. SettledInv => ConfigSettled
  BY DEF SettledInv, ConfigSettled
<1> QED
  BY <1>1, <1>2, <1>3, PTL DEF Spec

-----------------------------------------------------------------------------
(* A step that changes neither the file nor the strings, and takes no error *)
(* back.                                                                    *)
LEMMA ReportKept ==
  ASSUME FailureReported, UNCHANGED <<file, ptr>>, err => err',
         pc' \in Running => pc \in Running, pc' = "failed" => err' \/ pc = "failed"
  PROVE  FailureReported'
BY DEF FailureReported, LineAt

(* A launch that fails, and one that replaced a string that was too long,   *)
(* leaves an error behind for cnode_cleanup() to report.                    *)
THEOREM FailuresReported == Spec => []FailureReported
<1>1. Init => FailureReported
  BY DEF Init, FailureReported, Running
<1>2. TypeOK /\ MemInv /\ ReadIsFaithful /\ FailureReported /\ [Next]_vars
        => FailureReported'
  <2> SUFFICES ASSUME TypeOK, MemInv, ReadIsFaithful, FailureReported, [Next]_vars
               PROVE  FailureReported'
    OBVIOUS
  <2>1. CASE Start
    BY <2>1 DEF Start, FailureReported, MemInv, FreshStart, ZeroPtr
  <2>2. CASE Gone \/ Cleanup \/ NoQuoteFaults \/ Edit \/ Crash
    BY <2>2 DEF Gone, Cleanup, NoQuoteFaults, Edit, Crash, FailureReported, Running
  <2>3. CASE Truncate \/ WriteDefaults \/ WriteFails
    <3>1. i = 0 /\ pc \in Running /\ pc' # "failed" /\ ptr' = ptr
      BY <2>3 DEF Truncate, WriteDefaults, WriteFails, MemInv, FreshStart, Running, options
    <3> QED
      BY <3>1, ZeroIsLaunch DEF FailureReported
  <2>4. CASE SetString
    <3>1. /\ pc' = pc /\ pc = "read" /\ err \in BOOLEAN /\ err' \in BOOLEAN
          /\ file' = file
          /\ ptr' = [ptr EXCEPT ![ReadBuffer.id] = i + 1]
          /\ ptr \in [StrIds -> 0 .. CFG_NENTRIES]
      BY <2>4 DEF SetString, Reading, disk, TypeOK
    <3>2. err => err'
      BY <2>4 DEF SetString
    <3>3. ReadBuffer.kind = "entry" /\ StrLen[ReadBuffer.str] > MaxLen[ReadBuffer.id]
            => err'
      BY <2>4 DEF SetString
    <3>4. ASSUME NEW e \in StrIds, ptr'[e] # 0, LineAt(ptr[e])'.kind = "entry",
                 StrLen[LineAt(ptr[e])'.str] > MaxLen[e]
          PROVE  err'
      <4>1. CASE e = ReadBuffer.id
        <5>1. ptr'[e] = i + 1
          BY <3>1, <4>1
        <5>2. LineAt(ptr[e])' = ReadBuffer
          BY <3>1, <5>1 DEF ReadBuffer, LineAt
        <5> QED
          BY <3>3, <3>4, <4>1, <5>2
      <4>2. CASE e # ReadBuffer.id
        <5>1. ptr'[e] = ptr[e]
          BY <3>1, <4>2
        <5>2. LineAt(ptr[e])' = LineAt(ptr[e])
          BY <3>1, <5>1 DEF LineAt
        <5> QED
          BY <3>1, <3>2, <3>4, <5>1, <5>2 DEF FailureReported, Running
      <4> QED
        BY <4>1, <4>2
    <3>5. pc' # "failed"
      BY <3>1
    <3> QED
      BY <3>4, <3>5 DEF FailureReported
  <2>5. CASE SkipLine \/ SetNumber \/ KeepForcedLevel
    BY <2>5, ReportKept
       DEF SkipLine, SetNumber, KeepForcedLevel, Reading, disk, options, flags
  <2>6. CASE RejectNumber \/ NullAbort \/ MallocFails
    BY <2>6, ReportKept
       DEF RejectNumber, NullAbort, MallocFails, Reading, disk, options, Running
  <2>7. CASE Count \/ CountFails \/ Backup \/ BackupFails \/ LogFails \/ MakeFolder
    BY <2>7, ReportKept
       DEF Count, CountFails, Decide, Backup, BackupFails, LogFails, MakeFolder, disk,
           options, flags, Running
  <2>8. CASE Open \/ CallFails \/ Finish
    BY <2>8, ReportKept
       DEF Open, CallFails, Finish, disk, options, flags, Running
  <2>9. CASE UNCHANGED vars
    BY <2>9, ReportKept DEF vars, disk, options, flags
  <2> QED
    BY <2>1, <2>2, <2>3, <2>4, <2>5, <2>6, <2>7, <2>8, <2>9
       DEF Next, Startup, Create, ReadLine
<1> QED
  BY <1>1, <1>2, TypeCorrect, MemInvAlways, ReadFaithful, PTL DEF Spec

-----------------------------------------------------------------------------
(* A launch that did not find its file reads the one it made, to the end. *)
FirstInv ==
  /\ firstTime /\ pc \in {"open", "read", "done"} /\ "write" \notin unnoticed
       => file = DefaultFile
  /\ "write" \in unnoticed =>
       /\ file \in CutFiles
       /\ pc \in {"open", "read", "done", "failed", "exited", "crashed"}
  /\ pc \in {"off", "count"} => ~firstTime
  /\ pc = "done" => i = CFG_NENTRIES

LEMMA FirstInvAlways == Spec => []FirstInv
<1>1. Init => FirstInv
  BY DEF Init, FirstInv
<1>2. TypeOK /\ FirstInv /\ [Next]_vars => FirstInv'
  <2> SUFFICES ASSUME TypeOK, FirstInv, [Next]_vars PROVE FirstInv'
    OBVIOUS
  <2> USE DEF FirstInv
  <2>1. CASE Count \/ CountFails
    BY <2>1 DEF Count, CountFails, Decide, disk, logs
  <2>2. CASE WriteDefaults \/ WriteFails
    BY <2>2 DEF WriteDefaults, WriteFails, logs
  <2>3. CASE Edit \/ Start \/ Gone \/ Cleanup \/ Crash
    BY <2>3 DEF Edit, Start, Gone, Cleanup, Crash, disk, flags, logs, Running
  <2>4. CASE Backup \/ BackupFails \/ LogFails \/ MakeFolder \/ Truncate \/ CallFails
    BY <2>4 DEF Backup, BackupFails, LogFails, MakeFolder, Truncate, CallFails,
                disk, logs
  <2>5. CASE Open \/ Finish
    BY <2>5 DEF Open, Finish, disk, flags, logs
  <2>6. CASE SkipLine \/ SetNumber \/ KeepForcedLevel \/ RejectNumber \/ SetString
    BY <2>6 DEF SkipLine, SetNumber, KeepForcedLevel, RejectNumber, SetString,
                Reading, disk, flags, logs
  <2>7. CASE NullAbort \/ MallocFails \/ NoQuoteFaults
    BY <2>7 DEF NullAbort, MallocFails, NoQuoteFaults, Reading, disk, logs
  <2>8. CASE UNCHANGED vars
    BY <2>8 DEF vars, disk, flags, logs
  <2> QED
    BY <2>1, <2>2, <2>3, <2>4, <2>5, <2>6, <2>7, <2>8
       DEF Next, Startup, Create, ReadLine
<1> QED
  BY <1>1, <1>2, TypeCorrect, PTL DEF Spec

(* The file a launch made holds the default line of each option in its      *)
(* place, or no line for it: one that ends after its first quote at most.   *)
DefaultOr(k) ==
  \/ LineAt(k) = DefaultFile[k] /\ k \in 1 .. CFG_NENTRIES
  \/ LineAt(k).kind \in {"blank", "unknown", "noquote"}
  \/ LineAt(k).kind = "onequote" /\ LineAt(k).id = k - 1

LEMMA MadeFile ==
  ASSUME NEW k \in 1 .. CFG_NENTRIES
  PROVE  /\ file = DefaultFile => LineAt(k) = DefaultFile[k]
         /\ file \in CutFiles => DefaultOr(k)
<1>1. ASSUME file = DefaultFile PROVE LineAt(k) = DefaultFile[k]
  <2>1. DOMAIN DefaultFile = 1 .. CFG_NENTRIES
    BY DEF DefaultFile
  <2> QED
    BY <1>1, <2>1 DEF LineAt
<1>2. ASSUME file \in CutFiles PROVE DefaultOr(k)
  <2>1. CASE k \in DOMAIN file
    BY <1>2, <2>1, CutTyped DEF LineAt, DefaultOr
  <2>2. CASE k \notin DOMAIN file
    BY <2>2 DEF LineAt, DefaultOr, BlankLine
  <2> QED
    BY <2>1, <2>2
<1> QED
  BY <1>1, <1>2

LEMMA DefaultLine ==
  ASSUME NEW e \in Ids
  PROVE  /\ DefaultFile[e + 1].kind = "entry" /\ DefaultFile[e + 1].id = e
         /\ e \in NumIds => /\ DefaultFile[e + 1].num = DefaultNum[e]
                           /\ ~OutOfRange(DefaultFile[e + 1])
         /\ e \in StrIds => DefaultFile[e + 1].str = DefaultStr[e]
<1> USE DEF CFG_NENTRIES, NumIds, StrIds, Ids, CFG_AUTOFIX, CFG_TIMEOUT, CFG_TUNDEV,
            CFG_NETREPO
<1>1. e + 1 \in 1 .. 11 /\ (e + 1) - 1 = e
  OBVIOUS
<1>2. DefaultFile[e + 1].kind = "entry" /\ DefaultFile[e + 1].id = e
  BY <1>1, DefaultsTyped
<1>3. ASSUME e \in NumIds
      PROVE  DefaultFile[e + 1].num = DefaultNum[e] /\ ~OutOfRange(DefaultFile[e + 1])
  <2>1. DefaultFile[e + 1].num = DefaultNum[e]
    BY <1>1, <1>3 DEF DefaultFile, NumLine
  <2>2. e < 7 => DefaultNum[e] \in {0, 1}
    BY <1>3 DEF DefaultNum, CFG_NETLOGO, CFG_NLOGLVL
  <2> QED
    BY <1>2, <1>3, <2>1, <2>2 DEF OutOfRange
<1>4. ASSUME e \in StrIds PROVE DefaultFile[e + 1].str = DefaultStr[e]
  BY <1>1, <1>4 DEF DefaultFile, StrLine
<1> QED
  BY <1>2, <1>3, <1>4

(* What a launch takes from the file it made: for each option the line in   *)
(* its place or none.                                                       *)
LEMMA MadeTaken ==
  ASSUME i = CFG_NENTRIES, \A k \in 1 .. CFG_NENTRIES : DefaultOr(k), NEW e \in Ids
  PROVE  /\ e \in NumIds /\ (e # CFG_NLOGLVL \/ ~forced) =>
              IF LineAt(e + 1) = DefaultFile[e + 1]
              THEN TakenNum(e) = {e + 1} ELSE TakenNum(e) = {}
         /\ e \in StrIds =>
              IF LineAt(e + 1) = DefaultFile[e + 1]
              THEN TakenStr(e) = {e + 1}
              ELSE \/ TakenStr(e) = {}
                   \/ TakenStr(e) = {e + 1} /\ LineAt(e + 1).kind = "onequote"
<1>0. e \in 0 .. 10 /\ e + 1 \in 1 .. 11 /\ (e + 1) - 1 = e
  BY DEF Ids, CFG_NENTRIES
<1>1. \A k \in 1 .. 11 : LineAt(k).kind = "entry" =>
        LineAt(k) = DefaultFile[k] /\ LineAt(k).id = k - 1
  BY DefaultsTyped DEF DefaultOr, CFG_NENTRIES
<1>2. \A k \in 1 .. 11 : LineAt(k).kind = "onequote" => LineAt(k).id = k - 1
  BY DefaultsTyped DEF DefaultOr, CFG_NENTRIES
<1>3. \A k \in 1 .. 11 : LineAt(k).kind # "badnumber"
  BY DefaultsTyped DEF DefaultOr, CFG_NENTRIES
<1>4. ASSUME e \in NumIds, e # CFG_NLOGLVL \/ ~forced
      PROVE  IF LineAt(e + 1) = DefaultFile[e + 1]
             THEN TakenNum(e) = {e + 1} ELSE TakenNum(e) = {}
  <2>1. \A k \in 1 .. 11 : TakesNum(LineAt(k), e) =>
          k = e + 1 /\ LineAt(e + 1) = DefaultFile[e + 1]
    BY <1>0, <1>1 DEF TakesNum, IsNumber
  <2>2. LineAt(e + 1) = DefaultFile[e + 1] => TakesNum(LineAt(e + 1), e)
    BY <1>4, DefaultLine DEF TakesNum, IsNumber
  <2> QED
    BY <1>0, <2>1, <2>2 DEF TakenNum, CFG_NENTRIES
<1>5. ASSUME e \in StrIds
      PROVE  IF LineAt(e + 1) = DefaultFile[e + 1]
             THEN TakenStr(e) = {e + 1}
             ELSE \/ TakenStr(e) = {}
                  \/ TakenStr(e) = {e + 1} /\ LineAt(e + 1).kind = "onequote"
  <2>1. \A k \in 1 .. 11 : TakesStr(LineAt(k), e) =>
          /\ k = e + 1
          /\ LineAt(e + 1) = DefaultFile[e + 1] \/ LineAt(e + 1).kind = "onequote"
    BY <1>0, <1>1, <1>2, <1>3 DEF TakesStr, IsString
  <2>2. LineAt(e + 1) = DefaultFile[e + 1] => TakesStr(LineAt(e + 1), e)
    BY <1>5, DefaultLine DEF TakesStr, IsString
  <2> QED
    BY <1>0, <2>1, <2>2 DEF TakenStr, CFG_NENTRIES
<1> QED
  BY <1>4, <1>5

(* A launch that found no usable file and got through reading runs with     *)
(* exactly the default options, also after a launch that died while it      *)
(* wrote the file; when its own write was lost, some options may be unset.  *)
THEOREM DefaultsOnFirstLaunch == Spec => []FirstLaunchDefaults
<1>1. TypeOK /\ ReadIsFaithful /\ FirstInv => FirstLaunchDefaults
  <2> SUFFICES ASSUME TypeOK, ReadIsFaithful, FirstInv, pc = "done", firstTime,
                      NEW e \in Ids, e # CFG_NLOGLVL \/ ~forced
               PROVE  IsDefault(e) \/ ("write" \in unnoticed /\ IsUnset(e))
    BY DEF FirstLaunchDefaults
  <2>1. i = CFG_NENTRIES /\ (file = DefaultFile \/ file \in CutFiles)
    BY DEF FirstInv
  <2>2. \A k \in 1 .. CFG_NENTRIES : DefaultOr(k)
    BY <2>1, MadeFile DEF DefaultOr
  <2>3. LineAt(e + 1) # DefaultFile[e + 1] => "write" \in unnoticed
    <3>1. e + 1 \in 1 .. CFG_NENTRIES
      BY DEF Ids, CFG_NENTRIES
    <3> QED
      BY <3>1, MadeFile DEF FirstInv
  <2>4. CASE e \in NumIds
    <3>1. NumberFaithful(e)
      BY <2>4 DEF ReadIsFaithful, Running
    <3>2. CASE LineAt(e + 1) = DefaultFile[e + 1]
      <4>1. TakenNum(e) = {e + 1} /\ LineAt(e + 1).num = DefaultNum[e]
        BY <2>1, <2>2, <2>4, <3>2, MadeTaken, DefaultLine
      <4>2. num[e] = IF e = CFG_TIMEOUT THEN ToLong(DefaultNum[e]) ELSE DefaultNum[e]
        BY <3>1, <4>1 DEF NumberFaithful
      <4>3. ToLong(15) = 15 /\ DefaultNum[CFG_TIMEOUT] = 15
        BY NumbersAssumption
           DEF ToLong, CFG_NULL, DefaultNum, CFG_TIMEOUT, CFG_NETLOGO, CFG_NLOGLVL,
               NumIds, CFG_AUTOFIX
      <4> QED
        BY <2>4, <4>2, <4>3 DEF IsDefault
    <3>3. CASE LineAt(e + 1) # DefaultFile[e + 1]
      <4>1. TakenNum(e) = {}
        BY <2>1, <2>2, <2>4, <3>3, MadeTaken
      <4>2. num[e] = LaunchNum(forced)[e]
        BY <3>1, <4>1 DEF NumberFaithful
      <4> QED
        BY <2>3, <2>4, <3>3, <4>2 DEF IsUnset
    <3> QED
      BY <3>2, <3>3
  <2>5. CASE e \notin NumIds
    <3>0. e \in StrIds /\ e + 1 # 0
      BY <2>5 DEF Ids, NumIds, StrIds, CFG_AUTOFIX, CFG_TIMEOUT, CFG_TUNDEV,
                  CFG_NETREPO, CFG_NENTRIES
    <3>1. StringFaithful(e)
      BY <3>0 DEF ReadIsFaithful, Running
    <3>2. CASE LineAt(e + 1) = DefaultFile[e + 1]
      <4>1. /\ TakenStr(e) = {e + 1} /\ LineAt(e + 1).str = DefaultStr[e]
            /\ LineAt(e + 1).kind = "entry"
        BY <2>1, <2>2, <3>0, <3>2, MadeTaken, DefaultLine
      <4>2. ptr[e] = e + 1
        BY <3>1, <4>1 DEF StringFaithful, IsLast
      <4>3. ~(StrLen[DefaultStr[e]] > MaxLen[e])
        BY <3>0, StringsAssumption
           DEF DefaultStr, MaxLen, StrIds, CFG_TUNDEV, CFG_PROXY, CFG_NETREPO
      <4>4. mem[ptr[e]] = DefaultStr[e]
        BY <3>1, <4>1, <4>2, <4>3 DEF StringFaithful
      <4> QED
        BY <2>5, <3>0, <4>2, <4>4 DEF IsDefault
    <3>3. CASE LineAt(e + 1) # DefaultFile[e + 1]
      <4>1. \/ TakenStr(e) = {}
            \/ TakenStr(e) = {e + 1} /\ LineAt(e + 1).kind = "onequote"
        BY <2>1, <2>2, <3>0, <3>3, MadeTaken
      <4>2. ptr[e] = 0 \/ LineAt(ptr[e]).kind = "onequote"
        BY <3>1, <4>1 DEF StringFaithful, IsLast
      <4> QED
        BY <2>3, <2>5, <3>3, <4>2 DEF IsUnset
    <3> QED
      BY <3>2, <3>3
  <2> QED
    BY <2>4, <2>5
<1> QED
  BY <1>1, TypeCorrect, ReadFaithful, FirstInvAlways, PTL

-----------------------------------------------------------------------------
LEMMA EmptyHasNone == Entries(<<>>) = {} /\ EntryCount(<<>>) = 0
<1>1. Entries(<<>>) = {}
  BY DEF Entries
<1> QED
  BY <1>1, FS_EmptySet DEF EntryCount

(* A file without entries has no lines to lose. *)
LEMMA NoEntries ==
  ASSUME TypeOK, EntryCount(file) = 0
  PROVE  Entries(file) = {}
BY EntriesFinite, FS_EmptySet DEF EntryCount

(* On the way to a new file: a complete one gets there only by an error,    *)
(* and with --debug its entries are in the log by then, if that opened.     *)
RenewInv ==
  /\ ~present => file = <<>>
  /\ pc \in {"backup", "folder", "create"} /\ ~err =>
       ~(present /\ EntryCount(file) = CFG_NENTRIES)
  /\ pc = "flush" => present /\ file = <<>>
  /\ pc \in {"folder", "create"} /\ forced /\ ~err /\ "log" \notin unnoticed =>
       {file[k] : k \in Entries(file)} \subseteq logged

LEMMA RenewInvAlways == Spec => []RenewInv
<1>1. Init => RenewInv
  BY DEF Init, RenewInv
<1>2. TypeOK /\ ForcedLevelWins /\ RenewInv /\ [Next]_vars => RenewInv'
  <2> SUFFICES ASSUME TypeOK, ForcedLevelWins, RenewInv, [Next]_vars
               PROVE  RenewInv'
    OBVIOUS
  <2> USE DEF RenewInv
  <2>1. CASE Count
    <3> DEFINE n == IF present THEN EntryCount(file) ELSE 0
    <3>1. /\ UNCHANGED <<file, present, forced, err, logged, unnoticed>>
          /\ pc' \in {"open", "backup", "folder"}
          /\ pc' # "open" => ~(present /\ n = CFG_NENTRIES)
          /\ pc' = "folder" => n = 0
      BY <2>1 DEF Count, Decide, disk, logs
    <3>2. n = 0 => Entries(file) = {}
      BY NoEntries, EmptyHasNone
    <3>3. pc' \in {"backup", "folder"} =>
            ~(present' /\ EntryCount(file)' = CFG_NENTRIES)
      BY <3>1 DEF EntryCount, Entries
    <3>4. pc' = "folder" => {file[k] : k \in Entries(file)}' = {}
      BY <3>1, <3>2 DEF Entries
    <3> QED
      BY <3>1, <3>3, <3>4
  <2>2. CASE CountFails
    BY <2>2 DEF CountFails, Decide, disk, CFG_NENTRIES
  <2>3. CASE Backup
    BY <2>3 DEF Backup, ForcedLevelWins, disk, flags, Entries, EntryCount
  <2>4. CASE BackupFails
    BY <2>4 DEF BackupFails, disk
  <2>12. CASE LogFails
    <3>1. /\ pc = "backup" /\ pc' = "folder" /\ "log" \in unnoticed'
          /\ UNCHANGED <<file, present, forced, err>>
      BY <2>12 DEF LogFails, disk, flags
    <3> QED
      BY <3>1 DEF Entries, EntryCount
  <2>5. CASE MakeFolder
    BY <2>5 DEF MakeFolder, flags, logs, Entries, EntryCount
  <2>6. CASE Truncate \/ WriteDefaults \/ WriteFails
    BY <2>6 DEF Truncate, WriteDefaults, WriteFails
  <2>7. CASE CallFails \/ Open \/ Finish
    BY <2>7 DEF CallFails, Open, Finish, disk
  <2>8. CASE Edit \/ Start \/ Gone \/ Cleanup \/ Crash
    BY <2>8 DEF Edit, Start, Gone, Cleanup, Crash, disk
  <2>9. CASE SkipLine \/ SetNumber \/ KeepForcedLevel \/ RejectNumber \/ SetString
    BY <2>9 DEF SkipLine, SetNumber, KeepForcedLevel, RejectNumber, SetString,
                Reading, disk
  <2>10. CASE NullAbort \/ MallocFails \/ NoQuoteFaults
    BY <2>10 DEF NullAbort, MallocFails, NoQuoteFaults, disk
  <2>11. CASE UNCHANGED vars
    BY <2>11 DEF vars, disk, flags, logs, EntryCount, Entries
  <2> QED
    BY <2>1, <2>2, <2>3, <2>4, <2>5, <2>6, <2>7, <2>8, <2>9, <2>10, <2>11,
       <2>12 DEF Next, Startup, Create, ReadLine
<1> QED
  BY <1>1, <1>2, TypeCorrect, ForcedLevelStays, PTL DEF Spec

(* Only four actions write the file. *)
LEMMA FileWriters ==
  ASSUME [Next]_vars
  PROVE  file' = file \/ Edit \/ Truncate \/ WriteDefaults \/ WriteFails
<1>1. CASE Start \/ Gone \/ Cleanup \/ Crash \/ Finish
  BY <1>1 DEF Start, Gone, Cleanup, Crash, Finish, disk
<1>2. CASE Count \/ CountFails \/ Backup \/ BackupFails \/ LogFails \/ MakeFolder \/ Open \/ CallFails
  BY <1>2 DEF Count, CountFails, Backup, BackupFails, LogFails, MakeFolder, Open, CallFails, disk
<1>3. CASE SkipLine \/ SetNumber \/ KeepForcedLevel \/ RejectNumber
  BY <1>3 DEF SkipLine, SetNumber, KeepForcedLevel, RejectNumber, disk
<1>4. CASE NullAbort \/ SetString \/ MallocFails \/ NoQuoteFaults
  BY <1>4 DEF NullAbort, SetString, MallocFails, NoQuoteFaults, disk
<1>5. CASE UNCHANGED vars
  BY <1>5 DEF vars, disk
<1> QED
  BY <1>1, <1>2, <1>3, <1>4, <1>5 DEF Next, Startup, Create, ReadLine

(* A launch in which every call succeeded so far neither empties nor        *)
(* rewrites a file that has the eleven entries.                             *)
THEOREM CompleteFileKept == Spec => ValidConfigKept
<1>1. RenewInv /\ [Next]_vars =>
        [present /\ EntryCount(file) = CFG_NENTRIES /\ pc \in Running /\ ~err
           => UNCHANGED file]_vars
  <2> SUFFICES ASSUME RenewInv, [Next]_vars, present, EntryCount(file) = CFG_NENTRIES,
                      pc \in Running, ~err
               PROVE  file' = file
    OBVIOUS
  <2>1. pc \notin {"create", "flush", "off"}
    BY EmptyHasNone DEF RenewInv, Running, CFG_NENTRIES
  <2> QED
    BY <2>1, FileWriters DEF Edit, Truncate, WriteDefaults, WriteFails
<1> QED
  BY <1>1, RenewInvAlways, PTL DEF Spec, ValidConfigKept

(* Under --debug every entry is in the log before the file is emptied,      *)
(* unless an error kept it from being read or the log could not be opened.  *)
THEOREM EntriesBackedUp == Spec => DebugBackup
<1>1. RenewInv /\ [Next]_vars =>
        [forced /\ pc \in Running /\ file' = <<>> /\ ~err /\ "log" \notin unnoticed
           => {file[k] : k \in Entries(file)} \subseteq logged]_vars
  <2> SUFFICES ASSUME RenewInv, [Next]_vars, forced, pc \in Running, file' = <<>>,
                      ~err, "log" \notin unnoticed
               PROVE  {file[k] : k \in Entries(file)} \subseteq logged
    OBVIOUS
  <2>1. CASE file' = file
    BY <2>1, EmptyHasNone
  <2>2. CASE Edit
    BY <2>2 DEF Edit, Running
  <2>3. CASE Truncate
    BY <2>3 DEF Truncate, RenewInv
  <2>4. CASE WriteDefaults \/ WriteFails
    BY <2>4, EmptyHasNone DEF WriteDefaults, WriteFails, RenewInv
  <2> QED
    BY <2>1, <2>2, <2>3, <2>4, FileWriters
<1> QED
  BY <1>1, RenewInvAlways, PTL DEF Spec, DebugBackup
-----------------------------------------------------------------------------
(* No blank line has an entry behind it. *)
BlanksLast ==
  \A k, l \in DOMAIN file :
    file[k].kind = "blank" /\ file[l].kind # "blank" => l < k

(* In such a file as many entries as there are options lie within the lines *)
(* the loop reads.                                                          *)
LEMMA EntriesWithinLoop ==
  ASSUME TypeOK, BlanksLast, EntryCount(file) = CFG_NENTRIES, NEW l \in Entries(file)
  PROVE  l \in 1 .. CFG_NENTRIES
<1>1. PICK n \in Nat : DOMAIN file = 1 .. n
  BY FileDomain
<1>2. l \in 1 .. n /\ l \in DOMAIN file /\ file[l].kind # "blank"
  BY <1>1 DEF Entries
<1>3. 1 .. l \subseteq Entries(file)
  <2> SUFFICES ASSUME NEW k \in 1 .. l PROVE k \in Entries(file)
    OBVIOUS
  <2>1. k \in DOMAIN file
    BY <1>1, <1>2
  <2>2. file[k].kind # "blank"
    BY <1>2, <2>1 DEF BlanksLast
  <2> QED
    BY <2>1, <2>2 DEF Entries
<1>4. IsFiniteSet(Entries(file))
  BY EntriesFinite
<1>5. Cardinality(1 .. l) = l
  <2>1. 1 \in Int /\ l \in Int /\ l >= 1
    BY <1>2
  <2>2. Cardinality(1 .. l) = IF 1 > l THEN 0 ELSE l - 1 + 1
    BY <2>1, FS_Interval, Zenon
  <2> QED
    BY <2>1, <2>2
<1>6. Cardinality(1 .. l) <= Cardinality(Entries(file))
  BY <1>3, <1>4, FS_Subset
<1> QED
  BY <1>2, <1>5, <1>6 DEF EntryCount, CFG_NENTRIES

(* A launch evaluates all entries of a file in which no blank line comes    *)
(* before an entry: blank lines, which are read but not counted, are the    *)
(* one reason for which an entry can be missed.                             *)
THEOREM AllReadWithoutBlanks == Spec => [](BlanksLast => AllEntriesRead)
<1>1. TypeOK /\ ConfigSettled /\ FirstInv /\ ReadIsFaithful
        => (BlanksLast => AllEntriesRead)
  <2> SUFFICES ASSUME TypeOK, ConfigSettled, FirstInv, ReadIsFaithful, BlanksLast,
                      pc = "done",
                      NEW k \in DOMAIN file, IsString(file[k])
               PROVE  ptr[file[k].id] # 0
    BY DEF AllEntriesRead
  <2> DEFINE e == file[k].id
  <2>1. k \in Entries(file) /\ e \in StrIds
    BY DEF IsString, Entries
  <2>2. k \in 1 .. i
    <3>1. CASE EntryCount(file) = CFG_NENTRIES
      BY <2>1, <3>1, EntriesWithinLoop DEF FirstInv
    <3>2. CASE "write" \in unnoticed
      <4>1. PICK n \in 0 .. CFG_NENTRIES : DOMAIN file = 1 .. n
        BY <3>2, CutTyped DEF FirstInv
      <4> QED
        BY <4>1 DEF FirstInv, CFG_NENTRIES
    <3> QED
      BY <3>1, <3>2 DEF ConfigSettled
  <2>3. k \in TakenStr(e)
    BY <2>1, <2>2 DEF TakenStr, TakesStr, LineAt
  <2>4. StringFaithful(e)
    BY <2>1 DEF ReadIsFaithful, Running
  <2> QED
    BY <2>3, <2>4 DEF StringFaithful, IsLast, TakenStr
<1> QED
  BY <1>1, TypeCorrect, FileSettled, FirstInvAlways, ReadFaithful, PTL
-----------------------------------------------------------------------------
(* How many steps a launch is from the end of its reading, at most. *)
StepsLeft ==
  CASE pc = "count"  -> 18
    [] pc = "backup" -> 17
    [] pc = "folder" -> 16
    [] pc = "create" -> 15
    [] pc = "flush"  -> 14
    [] pc = "open"   -> 13
    [] pc = "read"   -> 12 - i
    [] OTHER         -> 0

(* A launch is through with the configuration, or dead, after eighteen      *)
(* steps whatever the file holds and whatever fails: each step brings it    *)
(* nearer, because every turn of the loop that goes on counts its line.     *)
(* StartupEnds follows from this when a launch that can go on does.         *)
THEOREM StartupBounded ==
  Spec => [](StepsLeft \in 0 .. 18) /\ [][StepsLeft > 0 => StepsLeft' < StepsLeft]_vars
<1>1. TypeOK => StepsLeft \in 0 .. 18
  BY DEF TypeOK, StepsLeft, CFG_NENTRIES
<1>2. TypeOK /\ MemInv /\ [Next]_vars => [StepsLeft > 0 => StepsLeft' < StepsLeft]_vars
  <2> SUFFICES ASSUME TypeOK, MemInv, Next, StepsLeft > 0
               PROVE  StepsLeft' < StepsLeft
    OBVIOUS
  <2>0. /\ i \in 0 .. 11
        /\ pc \in {"count", "backup", "folder", "create", "flush", "open"} => i = 0
    BY DEF TypeOK, MemInv, FreshStart, CFG_NENTRIES
  <2>1. CASE Count \/ CountFails
    BY <2>1 DEF Count, CountFails, Decide, StepsLeft
  <2>2. CASE Backup \/ BackupFails \/ LogFails
    BY <2>2 DEF Backup, BackupFails, LogFails, StepsLeft
  <2>3. CASE MakeFolder \/ Truncate \/ WriteDefaults \/ WriteFails
    BY <2>3 DEF MakeFolder, Truncate, WriteDefaults, WriteFails, StepsLeft
  <2>4. CASE Open
    BY <2>0, <2>4 DEF Open, StepsLeft
  <2>5. CASE SkipLine \/ SetNumber \/ KeepForcedLevel \/ RejectNumber \/ SetString
    <3>1. pc = "read" /\ i' = i + 1 /\ pc' = pc
      BY <2>5 DEF SkipLine, SetNumber, KeepForcedLevel, RejectNumber, SetString,
                  Reading, NextLine
    <3> QED
      BY <2>0, <3>1 DEF StepsLeft
  <2>6. CASE CallFails \/ NullAbort \/ MallocFails \/ NoQuoteFaults \/ Finish \/ Crash
    <3>1. pc' \in {"failed", "crashed", "done"}
      BY <2>6 DEF CallFails, NullAbort, MallocFails, NoQuoteFaults, Finish, Crash
    <3> QED
      BY <3>1 DEF StepsLeft
  <2>7. CASE Edit \/ Start \/ Gone \/ Cleanup
    BY <2>7 DEF Edit, Start, Gone, Cleanup, StepsLeft
  <2> QED
    BY <2>1, <2>2, <2>3, <2>4, <2>5, <2>6, <2>7 DEF Next, Startup, Create, ReadLine
<1> QED
  BY <1>1, <1>2, TypeCorrect, MemInvAlways, PTL DEF Spec
-----------------------------------------------------------------------------
(* The two lowest levels are what the file can set. *)
LowLevelsSettable ==
  pc = "done" /\ ~forced =>
    \A k \in DOMAIN file :
      /\ k <= CFG_NENTRIES
      /\ IsNumber(file[k]) /\ file[k].id = CFG_NLOGLVL
      /\ file[k].num <= LOG_NOTIF
      /\ \A l \in DOMAIN file : file[l].id = CFG_NLOGLVL => l = k
      => num[CFG_NLOGLVL] = file[k].num

(* While a launch reads its file, and when it is through, the log level is  *)
(* LOG_DEBUG or LOG_NOTIF and the file can set either: the other three      *)
(* levels of logging.h are out of reach, whatever the file holds.           *)
THEOREM TwoLevelsOnly ==
  Spec => [](/\ pc \in Running => num[CFG_NLOGLVL] \in {LOG_DEBUG, LOG_NOTIF}
             /\ LowLevelsSettable)
<1>1. TypeOK /\ ReadIsFaithful
        => (pc \in Running => num[CFG_NLOGLVL] \in {LOG_DEBUG, LOG_NOTIF})
  <2> SUFFICES ASSUME TypeOK, ReadIsFaithful, pc \in Running
               PROVE  num[CFG_NLOGLVL] \in {LOG_DEBUG, LOG_NOTIF}
    OBVIOUS
  <2>1. CFG_NLOGLVL \in NumIds /\ NumberFaithful(CFG_NLOGLVL)
    BY DEF ReadIsFaithful, NumIds, CFG_AUTOFIX, CFG_NLOGLVL, CFG_TIMEOUT
  <2>2. CASE num[CFG_NLOGLVL] = LaunchNum(forced)[CFG_NLOGLVL]
    BY <2>1, <2>2 DEF LaunchNum, CFG_NETLOGO, CFG_NLOGLVL
  <2>3. ASSUME NEW k \in TakenNum(CFG_NLOGLVL), num[CFG_NLOGLVL] = LineAt(k).num
        PROVE  LineAt(k).num \in {0, 1}
    <3>1. k \in Nat /\ TakesNum(LineAt(k), CFG_NLOGLVL)
      BY DEF TakenNum, TypeOK, CFG_NENTRIES
    <3>2. LineAt(k).num \in Nat
      BY <3>1, BufferTyped, NumbersTyped DEF Line
    <3>3. ~(LineAt(k).num > 1)
      BY <3>1 DEF TakesNum, OutOfRange, CFG_NLOGLVL, CFG_TIMEOUT
    <3> QED
      BY <3>2, <3>3
  <2> QED
    BY <2>1, <2>2, <2>3 DEF NumberFaithful, CFG_NLOGLVL, CFG_TIMEOUT, LOG_DEBUG, LOG_NOTIF
<1>2. TypeOK /\ FirstInv /\ ReadIsFaithful => LowLevelsSettable
  <2> SUFFICES ASSUME TypeOK, FirstInv, ReadIsFaithful, pc = "done", ~forced,
                      NEW k \in DOMAIN file, k <= CFG_NENTRIES,
                      IsNumber(file[k]), file[k].id = CFG_NLOGLVL,
                      file[k].num <= LOG_NOTIF,
                      \A l \in DOMAIN file : file[l].id = CFG_NLOGLVL => l = k
               PROVE  num[CFG_NLOGLVL] = file[k].num
    BY DEF LowLevelsSettable
  <2>1. CFG_NLOGLVL \in NumIds /\ NumberFaithful(CFG_NLOGLVL)
    BY DEF ReadIsFaithful, Running, NumIds, CFG_AUTOFIX, CFG_NLOGLVL, CFG_TIMEOUT
  <2>2. k \in 1 .. i
    <3>1. PICK n \in Nat : DOMAIN file = 1 .. n
      BY FileDomain
    <3> QED
      BY <3>1 DEF FirstInv, CFG_NENTRIES
  <2>3. ~OutOfRange(file[k])
    <3>1. file[k].num \in Nat
      BY FileTyped, NumbersTyped DEF Line
    <3> QED
      BY <3>1 DEF OutOfRange, LOG_NOTIF
  <2>4. TakenNum(CFG_NLOGLVL) = {k}
    <3>1. k \in TakenNum(CFG_NLOGLVL)
      BY <2>2, <2>3 DEF TakenNum, TakesNum, LineAt
    <3>2. ASSUME NEW l \in TakenNum(CFG_NLOGLVL) PROVE l = k
      <4>1. IsNumber(LineAt(l)) /\ LineAt(l).id = CFG_NLOGLVL
        BY DEF TakenNum, TakesNum
      <4>2. l \in DOMAIN file
        BY <4>1 DEF LineAt, BlankLine, IsNumber
      <4> QED
        BY <4>1, <4>2 DEF LineAt
    <3> QED
      BY <3>1, <3>2
  <2> QED
    BY <2>1, <2>4 DEF NumberFaithful, LineAt, CFG_NLOGLVL, CFG_TIMEOUT
<1> QED
  BY <1>1, <1>2, TypeCorrect, FirstInvAlways, ReadFaithful, PTL
=============================================================================
