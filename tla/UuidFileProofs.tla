--------------------------- MODULE UuidFileProofs ---------------------------
(***************************************************************************)
(* Theorems of UuidFile for every set of processes and of UUIDs.           *)
(***************************************************************************)
EXTENDS UuidFile, TLAPS

(* What type correctness rests on: a process about to write holds a UUID,  *)
(* and only calls of config_read_uuid() count rounds, below 2 each time.   *)
WriterHoldsUuid == \A p \in Procs : pc[p] = "close" => buf[p] \in Uuids
RoundsBounded   == \A p \in Procs :
  (\/ pc[p] \in {"open", "gets"}
   \/ (pc[p] \in {"create", "gen", "close"} /\ nested[p]))
  => tries[p] < 2

TypeInv == TypeOK /\ WriterHoldsUuid /\ RoundsBounded

LEMMA TypeInvStep ==
  ASSUME TypeInv, [Next]_vars
  PROVE  TypeInv'
<1> USE DEF TypeInv, TypeOK, WriterHoldsUuid, RoundsBounded, Resting,
            Outcomes, Working, Goto, calls
<1>1. ASSUME NEW p \in Procs, Call(p) PROVE TypeInv'
  BY <1>1 DEF Call
<1>2. ASSUME NEW p \in Procs, OpenRead(p) PROVE TypeInv'
  BY <1>2 DEF OpenRead
<1>3. ASSUME NEW p \in Procs, OpenReadFails(p) PROVE TypeInv'
  BY <1>3 DEF OpenReadFails
<1>4. ASSUME NEW p \in Procs, Gets(p) PROVE TypeInv'
  BY <1>4 DEF Gets
<1>5. ASSUME NEW p \in Procs, GetsNothing(p) PROVE TypeInv'
  BY <1>5 DEF GetsNothing, ReadFails
<1>6. ASSUME NEW p \in Procs, OpenWrite(p) PROVE TypeInv'
  BY <1>6 DEF OpenWrite
<1>7. ASSUME NEW p \in Procs, OpenWriteFails(p) PROVE TypeInv'
  BY <1>7 DEF OpenWriteFails, ReadFails
<1>8. ASSUME NEW p \in Procs, Generate(p) PROVE TypeInv'
  BY <1>8 DEF Generate
<1>9. ASSUME NEW p \in Procs, Close(p) \/ CloseFails(p) PROVE TypeInv'
  <2>1. /\ pc[p] = "close" /\ buf[p] \in Uuids
        /\ store' \in {store, buf[p]} /\ torn' \in BOOLEAN
        /\ UNCHANGED <<folder, op, had, removals>>
    BY <1>9 DEF Close, CloseFails, Closed
  <2>2. CASE ~nested[p]
    BY <1>9, <2>1, <2>2 DEF Close, CloseFails, Closed
  <2>3. CASE nested[p]
    <3>1. /\ tries[p] \in {0, 1}
          /\ tries' = [tries EXCEPT ![p] = tries[p] + 1]
      BY <1>9, <2>1, <2>3 DEF Close, CloseFails, Closed
    <3>2. tries' \in [Procs -> 0 .. 2]
      BY <3>1
    <3>3. CASE tries[p] = 1
      <4>1. /\ nested' = [nested EXCEPT ![p] = FALSE]
            /\ buf' = [buf EXCEPT ![p] = None]
            /\ pc' = [pc EXCEPT ![p] = IF op[p] = "genuuid" THEN "create" ELSE "failed"]
        BY <1>9, <2>3, <3>3 DEF Close, CloseFails, Closed, ReadFails
      <4>2. TypeOK' /\ WriterHoldsUuid'
        BY <2>1, <3>2, <4>1
      <4>3. RoundsBounded'
        BY <3>1, <4>1
      <4> QED
        BY <4>2, <4>3
    <3>4. CASE tries[p] = 0
      <4>1. /\ UNCHANGED <<nested, buf>>
            /\ pc' = [pc EXCEPT ![p] = "open"]
        BY <1>9, <2>3, <3>4 DEF Close, CloseFails, Closed
      <4>2. TypeOK' /\ WriterHoldsUuid'
        BY <2>1, <3>2, <4>1
      <4>3. RoundsBounded'
        BY <3>1, <3>4, <4>1
      <4> QED
        BY <4>2, <4>3
    <3> QED
      BY <3>1, <3>3, <3>4
  <2> QED
    BY <2>2, <2>3
<1>10. ASSUME NEW p \in Procs, Kill(p) PROVE TypeInv'
  BY <1>10 DEF Kill
<1>11. CASE MakeFolder
  BY <1>11 DEF MakeFolder
<1>12. CASE Remove
  BY <1>12 DEF Remove
<1>13. CASE UNCHANGED vars
  BY <1>13 DEF vars
<1> QED
  BY <1>1, <1>2, <1>3, <1>4, <1>5, <1>6, <1>7, <1>8, <1>9, <1>10, <1>11,
     <1>12, <1>13 DEF Next, Step

LEMMA TypeInvAlways == Spec => []TypeInv
<1>1. Init => TypeInv
  <2> SUFFICES ASSUME Init PROVE TypeInv
    OBVIOUS
  <2>1. \A p \in Procs : pc[p] = "idle" /\ tries[p] = 0
    BY DEF Init
  <2>2. TypeOK
    <3>1. folder \in BOOLEAN /\ torn \in BOOLEAN /\ removals \in {0, 1}
      BY DEF Init
    <3>2. /\ store \in Uuids \cup {Absent, Empty}
          /\ pc \in [Procs -> Resting \cup Working]
          /\ op \in [Procs -> {"genuuid", "show"}]
      BY DEF Init, Resting, Working, Outcomes
    <3>3. nested \in [Procs -> BOOLEAN] /\ had \in [Procs -> BOOLEAN]
      BY DEF Init
    <3>4. tries \in [Procs -> 0 .. 2] /\ buf \in [Procs -> Uuids \cup {None}]
      BY DEF Init
    <3> QED
      BY <3>1, <3>2, <3>3, <3>4 DEF TypeOK
  <2>3. WriterHoldsUuid /\ RoundsBounded
    BY <2>1 DEF WriterHoldsUuid, RoundsBounded
  <2> QED
    BY <2>2, <2>3 DEF TypeInv
<1>2. TypeInv /\ [Next]_vars => TypeInv'
  BY TypeInvStep
<1> QED
  BY <1>1, <1>2, PTL DEF Spec

(* Every variable keeps its type; that tries does is the bound which        *)
(* anti_deadlock sets on the rounds of config_read_uuid().                  *)
THEOREM TypeCorrect == Spec => []TypeOK
<1>1. TypeInv => TypeOK
  BY DEF TypeInv
<1> QED
  BY <1>1, TypeInvAlways, PTL

-----------------------------------------------------------------------------
(* With any number of instances, also when fopen() and the write fail at
   will: an empty UUID file is being written, or its writer was killed or
   could not write. *)
THEOREM EmptyIsExplained == Spec => []EmptyExplained
<1>1. Init => EmptyExplained
  BY DEF Init, EmptyExplained, Absent, Empty
<1>2. TypeInv /\ EmptyExplained /\ [Next]_vars => EmptyExplained'
  <2> SUFFICES ASSUME TypeInv, EmptyExplained, [Next]_vars, store' = Empty
               PROVE  torn' \/ \E p \in Procs : pc'[p] \in {"gen", "close"}
    BY DEF EmptyExplained
  <2> DEFINE Writing(q) == pc[q] \in {"gen", "close"}
  <2>0. pc \in [Procs -> Resting \cup Working]
    BY DEF TypeInv, TypeOK
  <2>1. ASSUME NEW p \in Procs, OpenWrite(p)
        PROVE  \E q \in Procs : pc'[q] \in {"gen", "close"}
    BY <2>0, <2>1 DEF OpenWrite, Goto
  <2>2. ASSUME NEW p \in Procs, Close(p) PROVE FALSE
    BY <2>2, UuidsAssumption DEF Close, TypeInv, WriterHoldsUuid
  <2>10. ASSUME NEW p \in Procs, CloseFails(p) PROVE torn'
    BY <2>10 DEF CloseFails
  <2>3. ASSUME NEW p \in Procs, Kill(p)
        PROVE  torn' \/ \E q \in Procs : pc'[q] \in {"gen", "close"}
    <3>1. torn \/ \E q \in Procs : Writing(q)
      BY <2>3 DEF Kill, EmptyExplained
    <3>2. CASE torn \/ Writing(p)
      BY <2>3, <3>2 DEF Kill
    <3>3. CASE \E q \in Procs : q # p /\ Writing(q)
      BY <2>0, <2>3, <3>3 DEF Kill, Goto
    <3> QED
      BY <3>1, <3>2, <3>3
  <2>4. ASSUME NEW p \in Procs, Generate(p)
        PROVE  \E q \in Procs : pc'[q] \in {"gen", "close"}
    BY <2>0, <2>4 DEF Generate, Goto
  <2>5. ASSUME NEW p \in Procs, pc[p] \notin {"gen", "close"},
               UNCHANGED <<store, torn>>, NEW l, pc' = [pc EXCEPT ![p] = l]
        PROVE  torn' \/ \E q \in Procs : pc'[q] \in {"gen", "close"}
    <3>1. torn \/ \E q \in Procs : q # p /\ Writing(q)
      BY <2>5 DEF EmptyExplained
    <3> QED
      BY <2>0, <2>5, <3>1
  <2>6. ASSUME NEW p \in Procs,
               Call(p) \/ OpenRead(p) \/ OpenReadFails(p) \/ Gets(p)
                       \/ GetsNothing(p) \/ OpenWriteFails(p)
        PROVE  torn' \/ \E q \in Procs : pc'[q] \in {"gen", "close"}
    <3>1. pc[p] \notin {"gen", "close"} /\ UNCHANGED <<store, torn>>
      BY <2>6 DEF Call, OpenRead, OpenReadFails, Gets, GetsNothing,
                  OpenWriteFails, Resting, Outcomes
    <3>2. \E l : pc' = [pc EXCEPT ![p] = l]
      BY <2>6 DEF Call, OpenRead, OpenReadFails, Gets, GetsNothing,
                  OpenWriteFails, ReadFails, Goto
    <3> QED
      BY <2>5, <3>1, <3>2
  <2>7. CASE MakeFolder
    BY <2>7 DEF MakeFolder, EmptyExplained
  <2>8. CASE Remove
    BY <2>8 DEF Remove, Absent, Empty
  <2>9. CASE UNCHANGED vars
    BY <2>9 DEF vars, EmptyExplained
  <2> QED
    BY <2>1, <2>2, <2>3, <2>4, <2>6, <2>7, <2>8, <2>9, <2>10 DEF Next, Step
<1> QED
  BY <1>1, <1>2, TypeInvAlways, PTL DEF Spec

-----------------------------------------------------------------------------
(* The critical section the code has no lock for: from the failed open of   *)
(* config_read_uuid() to the fclose() of config_create_uuid().              *)
Making    == {"create", "gen", "close"}
Exclusive == \A p, q \in Procs : pc[p] \in Making /\ pc[q] \in Making => p = q

(* Why a program that observes it never writes over a UUID, when fopen()    *)
(* fails only for want of a file or a folder: it makes a file only when     *)
(* none is stored, and after its first round, which left a file there, it   *)
(* opens that one.                                                          *)
WritesOnlyWithout ==
  \A p \in Procs : pc[p] \in Making => store \notin Uuids
SecondRoundReads ==
  \A p \in Procs :
    /\ pc[p] \in Working /\ tries[p] # 0 =>
         store # Absent /\ (pc[p] \in {"open", "gets"} \/ ~nested[p])
    /\ pc[p] \in {"gen", "close"} => store # Absent

KeepInv == TypeInv /\ WritesOnlyWithout /\ SecondRoundReads

LEMMA KeepInitially == Init => WritesOnlyWithout /\ SecondRoundReads
  BY DEF Init, WritesOnlyWithout, SecondRoundReads, Working, Making

LEMMA KeepStep ==
  ASSUME Faults = FALSE, Exclusive, KeepInv, [Next]_vars
  PROVE  (WritesOnlyWithout /\ SecondRoundReads)'
<1> USE DEF WritesOnlyWithout, SecondRoundReads, Working, Making, Goto, calls
<1>0. /\ pc \in [Procs -> Resting \cup Working]
      /\ nested \in [Procs -> BOOLEAN] /\ tries \in [Procs -> 0 .. 2]
      /\ buf \in [Procs -> Uuids \cup {None}]
  BY DEF KeepInv, TypeInv, TypeOK
<1>1. WritesOnlyWithout /\ SecondRoundReads
  BY DEF KeepInv
<1>2. ASSUME NEW p \in Procs, Call(p) \/ Kill(p)
      PROVE  (WritesOnlyWithout /\ SecondRoundReads)'
  BY <1>0, <1>1, <1>2 DEF Call, Kill
<1>3. ASSUME NEW p \in Procs, OpenRead(p) \/ Gets(p) \/ Generate(p)
      PROVE  (WritesOnlyWithout /\ SecondRoundReads)'
  BY <1>0, <1>1, <1>3 DEF OpenRead, Gets, Generate
<1>4. ASSUME NEW p \in Procs, OpenReadFails(p)
      PROVE  (WritesOnlyWithout /\ SecondRoundReads)'
  <2>1. store = Absent /\ store \notin Uuids
    BY <1>4, UuidsAssumption DEF OpenReadFails
  <2>2. tries[p] = 0
    BY <1>1, <1>4, <2>1 DEF OpenReadFails
  <2> QED
    BY <1>0, <1>1, <1>4, <2>1, <2>2 DEF OpenReadFails
<1>5. ASSUME NEW p \in Procs, GetsNothing(p) \/ OpenWriteFails(p)
      PROVE  (WritesOnlyWithout /\ SecondRoundReads)'
  BY <1>0, <1>1, <1>5 DEF GetsNothing, OpenWriteFails, ReadFails
<1>6. ASSUME NEW p \in Procs, OpenWrite(p)
      PROVE  (WritesOnlyWithout /\ SecondRoundReads)'
  <2>1. /\ pc[p] = "create" /\ pc' = [pc EXCEPT ![p] = "gen"]
        /\ store' = Empty /\ UNCHANGED <<nested, tries>>
    BY <1>6 DEF OpenWrite
  <2>2. Empty \notin Uuids /\ Empty # Absent
    BY UuidsAssumption DEF Empty, Absent
  <2>3. WritesOnlyWithout'
    BY <2>1, <2>2
  <2>4. SecondRoundReads'
    BY <1>0, <1>1, <2>1, <2>2
  <2> QED
    BY <2>3, <2>4
<1>7. ASSUME NEW p \in Procs, Close(p) \/ CloseFails(p)
      PROVE  (WritesOnlyWithout /\ SecondRoundReads)'
  <2>1. /\ pc[p] = "close" /\ (nested[p] => tries[p] = 0)
        /\ store' # Absent
    BY <1>1, <1>7, UuidsAssumption
       DEF Close, CloseFails, KeepInv, TypeInv, WriterHoldsUuid
  <2>2. /\ pc' = [pc EXCEPT ![p] = IF nested[p] THEN "open" ELSE "printed"]
        /\ nested' = nested
    BY <1>7, <2>1 DEF Close, CloseFails, Closed
  <2>3. \A q \in Procs : pc'[q] \notin Making
    BY <1>0, <2>1, <2>2 DEF Exclusive
  <2>4. \A q \in Procs : pc'[q] \in Working => pc'[q] \in {"open", "gets"}
    BY <2>3
  <2> QED
    BY <2>1, <2>3, <2>4
<1>8. CASE MakeFolder \/ UNCHANGED vars
  BY <1>1, <1>8 DEF MakeFolder, vars
<1>9. CASE Remove
  BY <1>0, <1>1, <1>9, UuidsAssumption DEF Remove, Resting, Outcomes
<1> QED
  BY <1>2, <1>3, <1>4, <1>5, <1>6, <1>7, <1>8, <1>9 DEF Next, Step

(* The refinement: any number of instances that are not between the failed  *)
(* open and fclose() at the same time implement the abstract store, so that *)
(* a stored UUID is never lost, whatever writes fail.  UuidFileRace shows   *)
(* that they are not kept from being there.                                 *)
THEOREM LockWouldDo == ASSUME Faults = FALSE
                       PROVE  Spec /\ []Exclusive => NeverOverwritten
<1>1. Init => Store!Init
  BY UuidsAssumption DEF Init, Store!Init, Stored
<1>2. KeepInv /\ [Next]_vars => [Store!Next]_(Store!vars)
  <2> SUFFICES ASSUME KeepInv, [Next]_vars
               PROVE  Store!Next \/ UNCHANGED Store!vars
    OBVIOUS
  <2>1. ASSUME NEW p \in Procs,
               Call(p) \/ OpenRead(p) \/ OpenReadFails(p) \/ Gets(p) \/ GetsNothing(p)
                 \/ OpenWriteFails(p) \/ Generate(p) \/ CloseFails(p) \/ Kill(p)
        PROVE  UNCHANGED Store!vars
    BY <2>1 DEF Call, OpenRead, OpenReadFails, Gets, GetsNothing, OpenWriteFails,
                Generate, CloseFails, Closed, Kill, calls, Store!vars, Stored
  <2>2. ASSUME NEW p \in Procs, OpenWrite(p) PROVE UNCHANGED Store!vars
    BY <2>2, UuidsAssumption DEF OpenWrite, KeepInv, WritesOnlyWithout, Making,
                                 Store!vars, Stored
  <2>3. ASSUME NEW p \in Procs, Close(p) PROVE Store!Generate
    BY <2>3 DEF Close, Closed, Store!Generate, KeepInv, WritesOnlyWithout, Making,
                TypeInv, WriterHoldsUuid, Stored
  <2>4. CASE MakeFolder \/ UNCHANGED vars
    BY <2>4 DEF MakeFolder, vars, Store!vars, Stored
  <2>5. CASE Remove
    BY <2>5, UuidsAssumption DEF Remove, Store!Next, Store!Remove, Stored
  <2> QED
    BY <2>1, <2>2, <2>3, <2>4, <2>5 DEF Next, Step, Store!Next
<1>3. Exclusive /\ KeepInv /\ [Next]_vars => (WritesOnlyWithout /\ SecondRoundReads)'
  BY KeepStep
<1> QED
  BY <1>1, <1>2, <1>3, KeepInitially, TypeInvAlways, PTL
     DEF Spec, NeverOverwritten, Store!Spec, KeepInv

(* One instance at a time on a machine where fopen() fails only for want of *)
(* a file or a folder: it excludes itself.                                  *)
Alone == Faults = FALSE /\ \A p, q \in Procs : p = q

(* Alone, every step of the program is a step of the abstract store or      *)
(* leaves it as it is, so that a stored UUID is never lost.                 *)
THEOREM StoreImplemented == ASSUME Alone PROVE Spec => NeverOverwritten
<1>1. Exclusive
  BY DEF Alone, Exclusive
<1>2. Spec /\ []Exclusive => NeverOverwritten
  BY LockWouldDo DEF Alone
<1> QED
  BY <1>1, <1>2, PTL

-----------------------------------------------------------------------------
(* --genuuid starts to make a file with an empty buffer, so that it prints  *)
(* no UUID when it could not open one.                                      *)
BufferEmpty == \A p \in Procs : pc[p] = "create" /\ ~nested[p] => buf[p] = None

LEMMA BufferEmptyStep ==
  ASSUME TypeInv, BufferEmpty, [Next]_vars
  PROVE  BufferEmpty'
<1> USE DEF BufferEmpty, Goto, calls
<1>0. /\ pc \in [Procs -> Resting \cup Working]
      /\ nested \in [Procs -> BOOLEAN]
      /\ buf \in [Procs -> Uuids \cup {None}]
  BY DEF TypeInv, TypeOK
<1>1. ASSUME NEW p \in Procs, Call(p) \/ OpenRead(p) \/ Kill(p)
      PROVE  BufferEmpty'
  BY <1>0, <1>1 DEF Call, OpenRead, Kill
<1>2. ASSUME NEW p \in Procs, OpenReadFails(p) \/ Gets(p) \/ Generate(p)
      PROVE  BufferEmpty'
  BY <1>0, <1>2 DEF OpenReadFails, Gets, Generate
<1>3. ASSUME NEW p \in Procs, OpenWrite(p) \/ OpenWriteFails(p) \/ GetsNothing(p)
      PROVE  BufferEmpty'
  BY <1>0, <1>3 DEF OpenWrite, OpenWriteFails, GetsNothing, ReadFails
<1>4. ASSUME NEW p \in Procs, Close(p) \/ CloseFails(p)
      PROVE  BufferEmpty'
  BY <1>0, <1>4 DEF Close, CloseFails, Closed, ReadFails
<1>5. CASE MakeFolder \/ Remove \/ UNCHANGED vars
  BY <1>5 DEF MakeFolder, Remove, vars
<1> QED
  BY <1>1, <1>2, <1>3, <1>4, <1>5 DEF Next, Step

Announced(p) == pc[p] \in {"printed", "shown"} /\ buf[p] # None
Announces    ==
  \A p \in Procs :
    ~Announced(p) /\ Announced(p)' =>
      store' = buf'[p] \/ (CloseFails(p) /\ ~nested[p])

(* Any number of instances, and fopen() failing at will: a UUID is on disk  *)
(* when it is printed or shown, except when --genuuid prints the one whose  *)
(* write just failed.  That it stays there takes a lock (LockWouldDo).      *)
THEOREM AnnouncedWhenStored == Spec => [][Announces]_vars
<1>1. Init => BufferEmpty
  BY DEF Init, BufferEmpty
<1>2. TypeInv /\ BufferEmpty /\ [Next]_vars => BufferEmpty'
  BY BufferEmptyStep
<1>3. TypeInv /\ BufferEmpty /\ [Next]_vars => [Announces]_vars
  <2> SUFFICES ASSUME TypeInv, BufferEmpty, Next, NEW p \in Procs,
                      ~Announced(p), Announced(p)'
               PROVE  store' = buf'[p] \/ (CloseFails(p) /\ ~nested[p])
    BY DEF Announces
  <2> USE DEF Goto, calls, Announced
  <2>0. /\ pc \in [Procs -> Resting \cup Working]
        /\ nested \in [Procs -> BOOLEAN]
        /\ buf \in [Procs -> Uuids \cup {None}]
    BY DEF TypeInv, TypeOK
  <2>1. CASE Gets(p)
    BY <2>0, <2>1 DEF Gets
  <2>2. CASE Close(p)
    BY <2>0, <2>2 DEF Close, Closed, ReadFails
  <2>8. CASE CloseFails(p)
    BY <2>0, <2>8 DEF CloseFails, Closed, ReadFails
  <2>3. CASE Call(p) \/ OpenRead(p) \/ OpenReadFails(p) \/ GetsNothing(p)
             \/ OpenWrite(p) \/ Generate(p) \/ Kill(p)
    BY <2>0, <2>3 DEF Call, OpenRead, OpenReadFails, GetsNothing, ReadFails,
                      OpenWrite, Generate, Kill
  <2>4. CASE OpenWriteFails(p)
    BY <2>0, <2>4 DEF OpenWriteFails, ReadFails, BufferEmpty
  <2>5. CASE pc'[p] = pc[p] /\ buf'[p] = buf[p]
    BY <2>5
  <2>6. ASSUME NEW q \in Procs, q # p, Call(q) \/ Step(q) \/ Kill(q)
        PROVE  pc'[p] = pc[p] /\ buf'[p] = buf[p]
    <3>1. CASE Call(q) \/ Kill(q)
      BY <2>0, <2>6, <3>1 DEF Call, Kill
    <3>2. CASE OpenRead(q) \/ OpenReadFails(q) \/ Gets(q) \/ GetsNothing(q)
      BY <2>0, <2>6, <3>2 DEF OpenRead, OpenReadFails, Gets, GetsNothing, ReadFails
    <3>3. CASE OpenWrite(q) \/ OpenWriteFails(q) \/ Generate(q) \/ Close(q) \/ CloseFails(q)
      BY <2>0, <2>6, <3>3 DEF OpenWrite, OpenWriteFails, Generate, Close,
                                   CloseFails, Closed, ReadFails
    <3> QED
      BY <2>6, <3>1, <3>2, <3>3 DEF Step
  <2>7. CASE MakeFolder \/ Remove
    BY <2>5, <2>7 DEF MakeFolder, Remove
  <2> QED
    BY <2>1, <2>2, <2>3, <2>4, <2>5, <2>6, <2>7, <2>8 DEF Next, Step
<1> QED
  BY <1>1, <1>2, <1>3, TypeInvAlways, PTL DEF Spec

(* Alone, a process that is about to write has the file it emptied.         *)
WritesToEmpty == \A p \in Procs : pc[p] \in {"gen", "close"} => store = Empty
AloneInv      == BufferEmpty /\ WritesToEmpty /\ AnnouncedIsStored

(* Alone, a UUID that was printed or shown is the one on disk, until the    *)
(* administrator removes it, or its write failed and the file is empty.     *)
THEOREM AnnouncedStays == ASSUME Alone PROVE Spec => []AnnouncedIsStored
<1>1. Init => AloneInv
  BY DEF Init, AloneInv, BufferEmpty, WritesToEmpty, AnnouncedIsStored
<1>2. TypeInv /\ AloneInv /\ [Next]_vars => AloneInv'
  <2> SUFFICES ASSUME TypeInv, AloneInv, [Next]_vars
               PROVE  (WritesToEmpty /\ AnnouncedIsStored)'
    BY BufferEmptyStep DEF AloneInv
  <2> USE DEF AloneInv, BufferEmpty, WritesToEmpty, AnnouncedIsStored, Goto, calls
  <2>0. /\ pc \in [Procs -> Resting \cup Working]
        /\ nested \in [Procs -> BOOLEAN]
        /\ buf \in [Procs -> Uuids \cup {None}]
    BY DEF TypeInv, TypeOK
  <2>1. ASSUME NEW p \in Procs, Call(p) \/ OpenRead(p) \/ Kill(p)
        PROVE  (WritesToEmpty /\ AnnouncedIsStored)'
    BY <2>0, <2>1 DEF Call, OpenRead, Kill, Alone
  <2>2. ASSUME NEW p \in Procs, OpenReadFails(p) \/ Gets(p) \/ Generate(p)
        PROVE  (WritesToEmpty /\ AnnouncedIsStored)'
    BY <2>0, <2>2 DEF OpenReadFails, Gets, Generate, Alone
  <2>3. ASSUME NEW p \in Procs, OpenWrite(p) \/ OpenWriteFails(p) \/ GetsNothing(p)
        PROVE  (WritesToEmpty /\ AnnouncedIsStored)'
    BY <2>0, <2>3 DEF OpenWrite, OpenWriteFails, GetsNothing, ReadFails, Alone
  <2>4. ASSUME NEW p \in Procs, Close(p)
        PROVE  (WritesToEmpty /\ AnnouncedIsStored)'
    BY <2>0, <2>4 DEF Close, Closed, ReadFails, Alone
  <2>7. ASSUME NEW p \in Procs, CloseFails(p)
        PROVE  (WritesToEmpty /\ AnnouncedIsStored)'
    <3>1. /\ pc[p] = "close" /\ store' = Empty /\ torn'
          /\ \A q \in Procs : q = p
      BY <2>7 DEF CloseFails, Alone
    <3>2. CASE nested[p]
      <4>1. pc'[p] \in {"open", "create", "failed"}
        BY <2>0, <2>7, <3>2 DEF CloseFails, Closed, ReadFails
      <4> QED
        BY <3>1, <4>1
    <3>3. CASE ~nested[p]
      <4>1. pc'[p] = "printed"
        BY <2>0, <2>7, <3>3 DEF CloseFails, Closed
      <4> QED
        BY <3>1, <4>1
    <3> QED
      BY <3>2, <3>3
  <2>5. CASE MakeFolder \/ UNCHANGED vars
    BY <2>5 DEF MakeFolder, vars
  <2>6. CASE Remove
    BY <2>6 DEF Remove, Resting, Outcomes
  <2> QED
    BY <2>1, <2>2, <2>3, <2>4, <2>5, <2>6, <2>7 DEF Next, Step
<1> QED
  BY <1>1, <1>2, TypeInvAlways, PTL DEF Spec, AloneInv

-----------------------------------------------------------------------------
(* What a call may still take: two rounds of config_read_uuid(), and a file *)
(* that --genuuid makes after them.                                         *)
AfterMaking(p) == IF nested[p] THEN 7 - 4 * tries[p] ELSE 0

StepsLeft(p) ==
  CASE pc[p] = "open"   -> 11 - 4 * tries[p]
    [] pc[p] = "gets"   -> 4
    [] pc[p] = "create" -> 3 + AfterMaking(p)
    [] pc[p] = "gen"    -> 2 + AfterMaking(p)
    [] pc[p] = "close"  -> 1 + AfterMaking(p)
    [] OTHER            -> 0

NearerTheEnd ==
  \A p \in Procs :
    pc[p] \in Working =>
      /\ Step(p) => StepsLeft(p)' < StepsLeft(p)
      /\ ~Step(p) => StepsLeft(p)' <= StepsLeft(p)

LEMMA StepsLeftBounded ==
  ASSUME TypeInv, NEW p \in Procs
  PROVE  StepsLeft(p) \in 0 .. 11
<1>1. tries[p] \in 0 .. 2 /\ nested[p] \in BOOLEAN
  BY DEF TypeInv, TypeOK
<1>2. CASE pc[p] \in {"open", "gets"}
  <2>1. tries[p] \in {0, 1}
    BY <1>1, <1>2 DEF TypeInv, RoundsBounded
  <2> QED
    BY <1>2, <2>1 DEF StepsLeft
<1>3. CASE pc[p] \in {"create", "gen", "close"}
  <2>1. AfterMaking(p) \in 0 .. 7
    <3>1. CASE nested[p]
      <4>1. tries[p] \in {0, 1}
        BY <1>1, <1>3, <3>1 DEF TypeInv, RoundsBounded
      <4> QED
        BY <3>1, <4>1 DEF AfterMaking
    <3>2. CASE ~nested[p]
      BY <3>2 DEF AfterMaking
    <3> QED
      BY <3>1, <3>2
  <2> QED
    BY <1>3, <2>1 DEF StepsLeft
<1>4. CASE pc[p] \notin {"open", "gets", "create", "gen", "close"}
  BY <1>4 DEF StepsLeft
<1> QED
  BY <1>2, <1>3, <1>4

(* The step of one process, by where it leads. *)
LEMMA OwnStep ==
  ASSUME TypeInv, NEW p \in Procs, Step(p)
  PROVE  StepsLeft(p)' < StepsLeft(p)
<1> USE DEF Goto, calls
<1>0. /\ pc \in [Procs -> Resting \cup Working]
      /\ nested \in [Procs -> BOOLEAN] /\ tries \in [Procs -> 0 .. 2]
      /\ buf \in [Procs -> Uuids \cup {None}]
      /\ op \in [Procs -> {"genuuid", "show"}]
  BY DEF TypeInv, TypeOK
<1>1. pc[p] \in {"open", "gets"} => tries[p] \in {0, 1}
  BY <1>0 DEF TypeInv, RoundsBounded
<1>2. pc[p] \in {"create", "gen", "close"} /\ nested[p] => tries[p] \in {0, 1}
  BY <1>0 DEF TypeInv, RoundsBounded
<1>3. CASE OpenRead(p)
  <2>1. pc[p] = "open" /\ pc'[p] = "gets"
    BY <1>0, <1>3 DEF OpenRead
  <2> QED
    BY <1>1, <2>1 DEF StepsLeft
<1>4. CASE OpenReadFails(p)
  <2>1. pc[p] = "open" /\ pc'[p] = "create" /\ nested'[p] /\ tries'[p] = tries[p]
    BY <1>0, <1>4 DEF OpenReadFails
  <2> QED
    BY <1>1, <2>1 DEF StepsLeft, AfterMaking
<1>5. CASE Gets(p)
  <2>1. pc[p] = "gets" /\ pc'[p] \in {"refused", "shown"}
    BY <1>0, <1>5 DEF Gets
  <2> QED
    BY <2>1 DEF StepsLeft
<1>6. CASE ReadFails(p) /\ pc[p] \in {"gets", "create", "close"}
           /\ (pc[p] # "gets" => nested[p])
  <2>1. ~nested'[p] /\ pc'[p] \in {"create", "failed"}
    BY <1>0, <1>6 DEF ReadFails
  <2>2. StepsLeft(p)' \in {0, 3}
    BY <2>1 DEF StepsLeft, AfterMaking
  <2>3. StepsLeft(p) \in {4, 6, 8, 10}
    BY <1>2, <1>6 DEF StepsLeft, AfterMaking
  <2> QED
    BY <2>2, <2>3
<1>7. CASE GetsNothing(p)
  BY <1>6, <1>7 DEF GetsNothing
<1>8. CASE OpenWrite(p)
  <2>1. /\ pc[p] = "create" /\ pc'[p] = "gen"
        /\ nested'[p] = nested[p] /\ tries'[p] = tries[p]
    BY <1>0, <1>8 DEF OpenWrite
  <2> QED
    BY <1>2, <2>1 DEF StepsLeft, AfterMaking
<1>9. CASE OpenWriteFails(p)
  <2>1. CASE nested[p]
    BY <1>6, <1>9, <2>1 DEF OpenWriteFails
  <2>2. CASE ~nested[p]
    <3>1. pc[p] = "create" /\ pc'[p] = "printed"
      BY <1>0, <1>9, <2>2 DEF OpenWriteFails
    <3> QED
      BY <2>2, <3>1 DEF StepsLeft, AfterMaking
  <2> QED
    BY <2>1, <2>2
<1>10. CASE Generate(p)
  <2>1. /\ pc[p] = "gen" /\ pc'[p] = "close"
        /\ nested'[p] = nested[p] /\ tries'[p] = tries[p]
    BY <1>0, <1>10 DEF Generate
  <2> QED
    BY <1>2, <2>1 DEF StepsLeft, AfterMaking
<1>11. CASE Close(p) \/ CloseFails(p)
  <2>1. pc[p] = "close"
    BY <1>11 DEF Close, CloseFails
  <2>2. CASE ~nested[p]
    <3>1. pc'[p] = "printed"
      BY <1>0, <1>11, <2>2 DEF Close, CloseFails, Closed
    <3> QED
      BY <2>1, <2>2, <3>1 DEF StepsLeft, AfterMaking
  <2>3. CASE nested[p] /\ tries[p] = 0
    <3>1. pc'[p] = "open" /\ tries'[p] = 1
      BY <1>0, <1>11, <2>3 DEF Close, CloseFails, Closed
    <3> QED
      BY <2>1, <2>3, <3>1 DEF StepsLeft, AfterMaking
  <2>4. CASE nested[p] /\ tries[p] = 1
    BY <1>6, <1>11, <2>1, <2>4 DEF Close, CloseFails, Closed
  <2> QED
    BY <1>2, <2>1, <2>2, <2>3, <2>4
<1> QED
  BY <1>3, <1>4, <1>5, <1>7, <1>8, <1>9, <1>10, <1>11 DEF Step

(* Whatever other instances do to the file meanwhile and however often      *)
(* fopen() fails, a call ends within eleven of its own steps: each brings   *)
(* it nearer to its end, and no step of another sets it back.  It is        *)
(* anti_deadlock that bounds the rounds.  CallEnds follows from this when   *)
(* a process that can go on does.                                           *)
THEOREM CallsBounded ==
  Spec => [](\A p \in Procs : StepsLeft(p) \in 0 .. 11) /\ [][NearerTheEnd]_vars
<1>1. TypeInv => \A p \in Procs : StepsLeft(p) \in 0 .. 11
  BY StepsLeftBounded
<1>2. TypeInv /\ [Next]_vars => [NearerTheEnd]_vars
  <2> SUFFICES ASSUME TypeInv, Next, NEW p \in Procs, pc[p] \in Working
               PROVE  /\ Step(p) => StepsLeft(p)' < StepsLeft(p)
                      /\ ~Step(p) => StepsLeft(p)' <= StepsLeft(p)
    BY DEF NearerTheEnd
  <2> USE DEF Goto, calls
  <2>0. StepsLeft(p) \in 0 .. 11
    BY StepsLeftBounded
  <2>1. /\ pc \in [Procs -> Resting \cup Working]
        /\ nested \in [Procs -> BOOLEAN] /\ tries \in [Procs -> 0 .. 2]
        /\ buf \in [Procs -> Uuids \cup {None}]
    BY DEF TypeInv, TypeOK
  <2>2. CASE Step(p)
    BY <2>2, OwnStep
  <2>3. CASE ~Step(p)
    <3>1. CASE Kill(p)
      <4>1. pc'[p] = "killed"
        BY <2>1, <3>1 DEF Kill
      <4> QED
        BY <2>0, <2>3, <4>1 DEF StepsLeft
    <3>2. CASE pc'[p] = pc[p] /\ tries'[p] = tries[p] /\ nested'[p] = nested[p]
      <4>1. StepsLeft(p)' = StepsLeft(p)
        BY <3>2 DEF StepsLeft, AfterMaking
      <4> QED
        BY <2>0, <2>3, <4>1
    <3>3. ASSUME NEW q \in Procs, q # p, Call(q) \/ Step(q) \/ Kill(q)
          PROVE  pc'[p] = pc[p] /\ tries'[p] = tries[p] /\ nested'[p] = nested[p]
      <4>1. CASE Call(q) \/ Kill(q)
        BY <2>1, <3>3, <4>1 DEF Call, Kill
      <4>2. CASE OpenRead(q) \/ OpenReadFails(q) \/ Gets(q) \/ GetsNothing(q)
        BY <2>1, <3>3, <4>2 DEF OpenRead, OpenReadFails, Gets, GetsNothing, ReadFails
      <4>3. CASE OpenWrite(q) \/ OpenWriteFails(q) \/ Generate(q) \/ Close(q) \/ CloseFails(q)
        BY <2>1, <3>3, <4>3 DEF OpenWrite, OpenWriteFails, Generate, Close,
                                   CloseFails, Closed, ReadFails
      <4> QED
        BY <3>3, <4>1, <4>2, <4>3 DEF Step
    <3>4. ~Call(p)
      BY DEF Call, Working, Resting, Outcomes
    <3>5. CASE MakeFolder \/ Remove
      BY <3>2, <3>5 DEF MakeFolder, Remove
    <3> QED
      BY <2>3, <3>1, <3>2, <3>3, <3>4, <3>5 DEF Next
  <2> QED
    BY <2>2, <2>3
<1> QED
  BY <1>1, <1>2, TypeInvAlways, PTL DEF Spec
=============================================================================
