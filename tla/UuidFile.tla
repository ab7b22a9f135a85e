------------------------------ MODULE UuidFile ------------------------------
(***************************************************************************)
(* The UUID file (/etc/cnode/.uuidauth): config_create_uuid() and          *)
(* config_read_uuid() of sys/config.c, as called by the startup parameter  *)
(* --genuuid (base/cnode.c) and by "Display UUID" in the tinc menu         *)
(* (gui/menu.c).                                                           *)
(*                                                                         *)
(* Nothing keeps two instances of the program from running at once, so     *)
(* each process of Procs takes one system call per step.  The new UUID is  *)
(* in the stdio buffer until fclose(); a process that is killed before     *)
(* leaves the file it opened for writing empty.  So does one whose write   *)
(* fails, without noticing.  The 36 characters of a UUID are written as a  *)
(* whole or not at all, and a file that was opened can be read.            *)
(***************************************************************************)
EXTENDS Integers

CONSTANTS
  Procs,   \* instances of Central Node
  Uuids,   \* what crypto_gen_safe_uuid() may return
  None,    \* no UUID in a buffer, none in the store
  Faults,  \* may fopen() fail although the file and the folder are there?
  FullDisk \* may the write at fclose() fail?

(* Contents of the file that are not a UUID. *)
Absent == "absent"
Empty  == "empty"

ASSUME UuidsAssumption ==
  /\ None \notin Uuids /\ Absent \notin Uuids /\ Empty \notin Uuids
  /\ Faults \in BOOLEAN /\ FullDisk \in BOOLEAN

VARIABLES
  folder,   \* /etc/cnode exists
  store,    \* content of the UUID file
  pc,       \* where each process is in its call
  op,       \* what it was asked for: "genuuid" or "show"
  nested,   \* config_create_uuid() was called by config_read_uuid()
  tries,    \* anti_deadlock of config_read_uuid()
  buf,      \* the UUID a process holds
  had,      \* history: a UUID was stored when the call began
  torn,     \* history: a process was killed while it had the file open to
            \* write, or its write failed, and no UUID was written since
  removals  \* history: parity of the administrator's removals

calls == <<op, nested, tries, buf, had>>
vars  == <<folder, store, pc, calls, torn, removals>>

Outcomes == {"refused", "printed", "shown", "failed"}
Resting  == Outcomes \cup {"idle", "killed"}
Working  == {"open", "gets", "create", "gen", "close"}

Init ==
  /\ folder \in BOOLEAN
  /\ store = Absent
  /\ pc = [p \in Procs |-> "idle"]
  /\ op = [p \in Procs |-> "show"]
  /\ nested = [p \in Procs |-> FALSE]
  /\ tries = [p \in Procs |-> 0]
  /\ buf = [p \in Procs |-> None]
  /\ had = [p \in Procs |-> FALSE]
  /\ torn = FALSE
  /\ removals = 0

Goto(p, l) == pc' = [pc EXCEPT ![p] = l]

(* Both operations begin with config_read_uuid(). *)
Call(p) ==
  /\ pc[p] \in Resting
  /\ Goto(p, "open")
  /\ \E o \in {"genuuid", "show"} : op' = [op EXCEPT ![p] = o]
  /\ tries' = [tries EXCEPT ![p] = 0]
  /\ buf' = [buf EXCEPT ![p] = None]
  /\ had' = [had EXCEPT ![p] = store \in Uuids]
  /\ UNCHANGED <<folder, store, nested, torn, removals>>

(* config_read_uuid() returns EXIT_FAILURE: --genuuid takes it to mean     *)
(* that there is no UUID and generates one.  What was read or made so far  *)
(* was in buffers of config_read_uuid().                                   *)
ReadFails(p) ==
  /\ buf' = [buf EXCEPT ![p] = None]
  /\ nested' = [nested EXCEPT ![p] = FALSE]
  /\ Goto(p, IF op[p] = "genuuid" THEN "create" ELSE "failed")

OpenRead(p) ==
  /\ pc[p] = "open" /\ store # Absent
  /\ Goto(p, "gets")
  /\ UNCHANGED <<folder, store, calls, torn, removals>>

(* fopen(.., "rb") fails, for whatever reason: a new file is made. *)
OpenReadFails(p) ==
  /\ pc[p] = "open" /\ (store = Absent \/ Faults)
  /\ Goto(p, "create")
  /\ nested' = [nested EXCEPT ![p] = TRUE]
  /\ UNCHANGED <<folder, store, op, tries, buf, had, torn, removals>>

(* Mutant: --genuuid generates in spite of the UUID that was found. *)
GetsAndGoesOn(p) ==
  /\ pc[p] = "gets" /\ store \in Uuids
  /\ buf' = [buf EXCEPT ![p] = store]
  /\ Goto(p, IF op[p] = "genuuid" THEN "create" ELSE "shown")
  /\ UNCHANGED <<folder, store, op, nested, tries, had, torn, removals>>

(* fgets() finds a UUID: --genuuid refuses, the menu shows it. *)
Gets(p) ==
  /\ pc[p] = "gets" /\ store \in Uuids
  /\ buf' = [buf EXCEPT ![p] = store]
  /\ Goto(p, IF op[p] = "genuuid" THEN "refused" ELSE "shown")
  /\ UNCHANGED <<folder, store, op, nested, tries, had, torn, removals>>

(* ... or the end of an empty file. *)
GetsNothing(p) ==
  /\ pc[p] = "gets" /\ store \notin Uuids
  /\ ReadFails(p)
  /\ UNCHANGED <<folder, store, op, tries, had, torn, removals>>

(* config_create_uuid(): fopen(.., "wb") empties the file. *)
OpenWrite(p) ==
  /\ pc[p] = "create" /\ folder
  /\ store' = Empty
  /\ Goto(p, "gen")
  /\ UNCHANGED <<folder, calls, torn, removals>>

(* Mutant: gives up only after the file was emptied. *)
EmptiesAndFails(p) ==
  /\ pc[p] = "create" /\ (~folder \/ Faults)
  /\ store' = Empty
  /\ IF nested[p] THEN ReadFails(p)
                  ELSE Goto(p, "printed") /\ UNCHANGED <<nested, buf>>
  /\ UNCHANGED <<folder, op, tries, had, torn, removals>>

(* It fails without the folder.  cnode_parse_sargs() ignores the return    *)
(* value and prints its (empty) buffer.                                    *)
OpenWriteFails(p) ==
  /\ pc[p] = "create" /\ (~folder \/ Faults)
  /\ IF nested[p] THEN ReadFails(p)
                  ELSE Goto(p, "printed") /\ UNCHANGED <<nested, buf>>
  /\ UNCHANGED <<folder, store, op, tries, had, torn, removals>>

(* Mutant: the new UUID does not reach the caller's buffer. *)
GenerateNothing(p) ==
  /\ pc[p] = "gen"
  /\ Goto(p, "close")
  /\ UNCHANGED <<folder, store, calls, torn, removals>>

(* crypto_gen_safe_uuid(), then fprintf() into the buffer of stdio.  A     *)
(* UUID held nowhere is as good as a new one.                              *)
Generate(p) ==
  /\ pc[p] = "gen"
  /\ \E u \in Uuids \ ({store} \cup {buf[q] : q \in Procs}) :
       buf' = [buf EXCEPT ![p] = u]
  /\ Goto(p, "close")
  /\ UNCHANGED <<folder, store, op, nested, tries, had, torn, removals>>

(* Mutants: the buffer of stdio is never written; no bound on the rounds. *)
CloseUnwritten(p) ==
  /\ pc[p] = "close"
  /\ Goto(p, IF nested[p] THEN "open" ELSE "printed")
  /\ UNCHANGED <<folder, store, calls, torn, removals>>
CloseForEver(p) ==
  /\ pc[p] = "close"
  /\ store' = buf[p] /\ torn' = FALSE
  /\ Goto(p, IF nested[p] THEN "open" ELSE "printed")
  /\ UNCHANGED <<folder, calls, removals>>

(* fclose() has returned.  config_read_uuid() then tries to open the file  *)
(* again, but gives up after a second round.                               *)
Closed(p) ==
  /\ IF nested[p]
     THEN /\ tries' = [tries EXCEPT ![p] = @ + 1]
          /\ IF tries[p] + 1 >= 2
             THEN ReadFails(p)
             ELSE Goto(p, "open") /\ UNCHANGED <<nested, buf>>
     ELSE Goto(p, "printed") /\ UNCHANGED <<nested, tries, buf>>
  /\ UNCHANGED <<folder, op, had, removals>>

(* fclose() writes the UUID out, ...                                       *)
Close(p) ==
  /\ pc[p] = "close"
  /\ store' = buf[p] /\ torn' = FALSE
  /\ Closed(p)

(* ... or cannot write it, which nobody looks at.                          *)
CloseFails(p) ==
  /\ FullDisk
  /\ pc[p] = "close"
  /\ torn' = TRUE /\ UNCHANGED store
  /\ Closed(p)

(* The process is killed; what its stdio buffer held is lost. *)
Kill(p) ==
  /\ pc[p] \in Working
  /\ Goto(p, "killed")
  /\ torn' = (torn \/ pc[p] \in {"gen", "close"})
  /\ UNCHANGED <<folder, store, calls, removals>>

(* Another launch makes the folder (config_createcfg()). *)
MakeFolder ==
  /\ ~folder /\ folder' = TRUE
  /\ UNCHANGED <<store, pc, calls, torn, removals>>

(* The administrator deletes the file, as the refusal says, while no       *)
(* instance uses it.                                                       *)
Remove ==
  /\ \A p \in Procs : pc[p] \in Resting
  /\ store # Absent /\ store' = Absent
  /\ removals' = 1 - removals
  /\ UNCHANGED <<folder, pc, calls, torn>>

Step(p) == \/ OpenRead(p) \/ OpenReadFails(p) \/ Gets(p) \/ GetsNothing(p)
           \/ OpenWrite(p) \/ OpenWriteFails(p) \/ Generate(p)
           \/ Close(p) \/ CloseFails(p)

Next == (\E p \in Procs : Call(p) \/ Step(p) \/ Kill(p)) \/ MakeFolder \/ Remove

Spec     == Init /\ [][Next]_vars
FairSpec == Spec /\ \A p \in Procs : WF_vars(Step(p))

-----------------------------------------------------------------------------
TypeOK ==
  /\ folder \in BOOLEAN
  /\ store \in Uuids \cup {Absent, Empty}
  /\ pc \in [Procs -> Resting \cup Working]
  /\ op \in [Procs -> {"genuuid", "show"}]
  /\ nested \in [Procs -> BOOLEAN]
  /\ tries \in [Procs -> 0 .. 2]
  /\ buf \in [Procs -> Uuids \cup {None}]
  /\ had \in [Procs -> BOOLEAN]
  /\ torn \in BOOLEAN
  /\ removals \in {0, 1}

(* The promise of UuidStore, with an empty file counting as no UUID. *)
Stored == IF store \in Uuids THEN store ELSE None
Store  == INSTANCE UuidStore WITH uuid <- Stored

(* No run of the program replaces or loses a stored UUID ("Central Node will
   NOT allow this", cnode.c:265): every step is one of the abstract store. *)
NeverOverwritten == Store!Spec

(* The file is empty only while somebody writes it or because a writer was
   killed or could not write: also after two instances wrote it at the same
   time it holds a UUID once both are through. *)
EmptyExplained ==
  store = Empty => torn \/ \E p \in Procs : pc[p] \in {"gen", "close"}

(* A UUID that the program has printed or shown is the one on disk, until the
   administrator removes it: the machine never authenticates with another.
   Only --genuuid whose write failed has printed one that is nowhere, and the
   file is empty then: what is shown was read. *)
AnnouncedIsStored ==
  \A p \in Procs :
    pc[p] \in {"printed", "shown"} /\ buf[p] # None =>
      \/ store \in {buf[p], Absent}
      \/ pc[p] = "printed" /\ torn /\ store = Empty

(* Every call comes to an end, even if fopen() keeps failing: anti_deadlock
   bounds the rounds of config_read_uuid(). *)
CallEnds ==
  \A p \in Procs : pc[p] = "open" ~> pc[p] \in Resting

(* cnode.c:263: "An existing UUID file was found!" is said only when there was
   one; help.c:42: --genuuid generates a new UUID. *)
RefusedOnlyIfHad == \A p \in Procs : pc[p] = "refused" => had[p]
=============================================================================
