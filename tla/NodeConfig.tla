----------------------------- MODULE NodeConfig -----------------------------
(***************************************************************************)
(* The configuration file of Central Node (/etc/cnode/node.cfg) and what   *)
(* a launch of the program does with it: config_readcfg() of sys/config.c  *)
(* with config_count_entries(), config_createcfg() and config_evalentry(), *)
(* from the defaults of cnode_init_instance() to the frees of              *)
(* cnode_cleanup().                                                        *)
(*                                                                         *)
(* The file survives the process: launches follow one another, the         *)
(* administrator edits the file between them, and a launch may be killed   *)
(* at any step.  Text is abstracted to what the code tells apart: a line   *)
(* has a kind, the option its label names, and a value.  Lines are at most *)
(* 126 characters long and values hold no printf conversion.  A file that  *)
(* was opened can be read to its end.                                      *)
(***************************************************************************)
EXTENDS Data, Sequences, FiniteSets

CONSTANTS
  Strings,    \* values of string options that occur in files
  StrLen,     \* their strlen()
  Numbers,    \* what strtoul() may return for a number in a file
  ULongSize,  \* 2^w for the w bits of an unsigned long
  Files,      \* contents an administrator may leave in the file
  Faults      \* may fopen(), mkdir(), malloc() and a write fail?

(* The options, numbered as in config.h. *)
CFG_AUTOFIX == 0
CFG_GODMODE == 1
CFG_NWDMODE == 2
CFG_NETLOGO == 3
CFG_ALLOWSU == 4
CFG_NOHTTPS == 5
CFG_NLOGLVL == 6
CFG_TIMEOUT == 7
CFG_TUNDEV  == 8
CFG_PROXY   == 9
CFG_NETREPO == 10
CFG_NULL    == 255
CFG_NENTRIES == 11

Ids    == 0 .. CFG_NENTRIES - 1
NumIds == CFG_AUTOFIX .. CFG_TIMEOUT
StrIds == CFG_TUNDEV .. CFG_NETREPO

LOG_DEBUG    == 0
LOG_NOTIF    == 1
LOG_CRITICAL == 4

(* IF_DEV_MAXLEN, PROXY_MAXLEN and NETREPO_NAME_MAX. *)
MaxLen == [e \in StrIds |->
             CASE e = CFG_TUNDEV -> 15 [] e = CFG_PROXY -> 96 [] OTHER -> 64]

(***************************************************************************)
(* A line of the file.  "entry" is LABEL="value" with a known label; the   *)
(* value is num for a numeric option and str for a string option.  The     *)
(* other kinds are what the reader treats differently: an empty line, an   *)
(* unknown label, a known label whose numeric value has stray characters,  *)
(* one with a single quote character, and one with no quote at all.        *)
(***************************************************************************)
Kinds == {"entry", "blank", "unknown", "badnumber", "onequote", "noquote"}
Line  == [kind : Kinds, id : Ids, num : Numbers, str : Strings]

Free == "(free)"   \* what a block holds that malloc() has not handed out

ASSUME StringsAssumption ==
  /\ Free \notin Strings
  /\ {"tun0", "NULL", "centralnode.xyz", "ERROR"} \subseteq Strings
  /\ StrLen \in [Strings -> Nat]
  /\ StrLen["tun0"] = 4 /\ StrLen["NULL"] = 4
  /\ StrLen["centralnode.xyz"] = 15 /\ StrLen["ERROR"] = 5

ASSUME NumbersAssumption ==
  /\ ULongSize \in Nat /\ ULongSize > 2 * CFG_NULL
  /\ Numbers \subseteq 0 .. ULongSize - 1
  /\ {0, 1, 15} \subseteq Numbers

ASSUME FilesAssumption == Files \subseteq Seq(Line)

ASSUME FaultsAssumption == Faults \in BOOLEAN

NumLine(e, n) == [kind |-> "entry", id |-> e, num |-> n, str |-> "NULL"]
StrLine(e, s) == [kind |-> "entry", id |-> e, num |-> 0, str |-> s]
BlankLine     == [kind |-> "blank", id |-> 0, num |-> 0, str |-> "NULL"]

(* config_entries[] of config_createcfg(): one line per option, in order. *)
DefaultNum == [e \in NumIds |->
                 CASE e \in {CFG_NETLOGO, CFG_NLOGLVL} -> 1
                   [] e = CFG_TIMEOUT -> 15
                   [] OTHER -> 0]
DefaultStr == [e \in StrIds |->
                 CASE e = CFG_TUNDEV -> "tun0"
                   [] e = CFG_PROXY -> "NULL"
                   [] OTHER -> "centralnode.xyz"]
DefaultFile == [k \in 1 .. CFG_NENTRIES |->
                  IF k - 1 \in NumIds THEN NumLine(k - 1, DefaultNum[k - 1])
                                      ELSE StrLine(k - 1, DefaultStr[k - 1])]

(* What is left of it when its write stops early: whole lines, perhaps     *)
(* followed by the beginning of the next, which ends within the label,     *)
(* before the first quote or before the second.                            *)
CutFiles ==
  {[k \in 1 .. n |-> DefaultFile[k]] : n \in 0 .. CFG_NENTRIES - 1}
  \cup {[k \in 1 .. n |-> IF k < n THEN DefaultFile[k]
                          ELSE [kind |-> c, id |-> n - 1, num |-> 0, str |-> "NULL"]] :
          n \in 1 .. CFG_NENTRIES, c \in {"unknown", "noquote", "onequote"}}

-----------------------------------------------------------------------------
VARIABLES
  present,   \* node.cfg exists
  file,      \* its lines (<<>> while it does not exist)
  cfgdir,    \* /etc/cnode exists
  pc,        \* where the process is
  i,         \* the loop counter of config_readcfg(): lines read so far
  num,       \* the numeric options in nodecfg; num[CFG_NLOGLVL] is log_level
  ptr,       \* the string options in nodecfg: a block of mem, or 0 for NULL
  mem,       \* the block malloc()ed for the value on each line read
  longest,   \* nodecfg.longest_cfg_entry
  forced,    \* nodecfg.log_level_force_set
  firstTime, \* nodecfg.first_time_launch
  err,       \* nodecfg.exit_status is EXIT_FAILURE
  logged,    \* the old entries this launch wrote to the log file
  unnoticed  \* history: "write" and "log", the calls of this launch that
             \* failed without an error in nodecfg

disk    == <<present, file, cfgdir>>
options == <<num, ptr, mem, longest>>
flags   == <<forced, firstTime, err>>
logs    == <<logged, unnoticed>>
vars    == <<disk, pc, i, options, flags, logs>>

Ended   == {"off", "exited", "crashed"}
Running == {"count", "backup", "folder", "create", "flush", "open",
            "read", "done", "failed"}

Blocks == 1 .. CFG_NENTRIES

(* The lines config_count_entries() counts: all but those that begin with *)
(* a newline.                                                              *)
Entries(f)    == {k \in DOMAIN f : f[k].kind # "blank"}
EntryCount(f) == Cardinality(Entries(f))

(* What fgets() leaves in read_buffer on the k-th turn of the loop; past   *)
(* the end of the file the buffer stays zeroed, which matches no label     *)
(* either.                                                                 *)
LineAt(k) == IF k \in DOMAIN file THEN file[k] ELSE BlankLine
ReadBuffer == LineAt(i + 1)

(* nodecfg.net_timeout is a long that is assigned an unsigned long. *)
ToLong(n) == IF 2 * n >= ULongSize THEN n - ULongSize ELSE n

(* The range check at the top of config_evalentry(). *)
OutOfRange(ln) == ln.num > 1 /\ ln.id < CFG_TIMEOUT

(* How longest_cfg_entry grows when a string of n characters is stored. *)
Grown(l, n) ==
  LET next_mul == rtonm(n + l, 8)
  IN  IF n > l /\ next_mul > l THEN next_mul ELSE l

-----------------------------------------------------------------------------
(* nodecfg and the heap of a process that has not started: all zero. *)
ZeroNum == [e \in NumIds |-> 0]
ZeroPtr == [e \in StrIds |-> 0]
ZeroMem == [b \in Blocks |-> Free]

Init ==
  /\ present = FALSE /\ file = <<>> /\ cfgdir = FALSE
  /\ pc = "off" /\ i = 0
  /\ num = ZeroNum /\ ptr = ZeroPtr /\ mem = ZeroMem /\ longest = 0
  /\ forced = FALSE /\ firstTime = FALSE /\ err = FALSE
  /\ logged = {} /\ unnoticed = {}

(* Between two launches the administrator rewrites the file by hand. *)
Edit ==
  /\ pc = "off"
  /\ file' \in Files
  /\ present' = TRUE /\ cfgdir' = TRUE
  /\ UNCHANGED <<pc, i, options, flags, logs>>

(* The defaults cnode_init_instance() sets; --debug forces the log level. *)
LaunchNum(debug) ==
  [e \in NumIds |-> CASE e = CFG_NETLOGO -> 1
                      [] e = CFG_NLOGLVL -> IF debug THEN LOG_DEBUG ELSE LOG_NOTIF
                      [] OTHER -> 0]

(* cnode_init_instance() up to the call of config_readcfg().               *)
Start ==
  /\ pc = "off" /\ pc' = "count"
  /\ forced' \in BOOLEAN
  /\ num' = LaunchNum(forced')
  /\ UNCHANGED <<disk, i, ptr, mem, longest, firstTime, err, logs>>

(* The system takes the memory of a process that ended back. *)
Gone ==
  /\ pc \in {"exited", "crashed"} /\ pc' = "off"
  /\ i' = 0
  /\ num' = ZeroNum /\ ptr' = ZeroPtr /\ mem' = ZeroMem /\ longest' = 0
  /\ forced' = FALSE /\ firstTime' = FALSE /\ err' = FALSE
  /\ logged' = {} /\ unnoticed' = {}
  /\ UNCHANGED disk

(* Mutants: a file with too many entries will do; the right number is      *)
(* taken for an outdated one; the old entries are not backed up.           *)
DecideAtLeast(n) ==
  IF present /\ n >= CFG_NENTRIES
  THEN pc' = "open" /\ UNCHANGED firstTime
  ELSE firstTime' = TRUE /\ pc' = IF n # 0 THEN "backup" ELSE "folder"
DecideMore(n) ==
  IF present /\ n > CFG_NENTRIES
  THEN pc' = "open" /\ UNCHANGED firstTime
  ELSE firstTime' = TRUE /\ pc' = IF n # 0 THEN "backup" ELSE "folder"
DecideNoBackup(n) ==
  IF present /\ n = CFG_NENTRIES
  THEN pc' = "open" /\ UNCHANGED firstTime
  ELSE firstTime' = TRUE /\ pc' = "folder"

(* What config_readcfg() does once config_count_entries(false) answered n. *)
Decide(n) ==
  IF present /\ n = CFG_NENTRIES
  THEN pc' = "open" /\ UNCHANGED firstTime
  ELSE /\ firstTime' = TRUE
       /\ pc' = IF n # 0 THEN "backup" ELSE "folder"

(* config_count_entries(false): an absent file has no entries. *)
Count ==
  /\ pc = "count"
  /\ Decide(IF present THEN EntryCount(file) ELSE 0)
  /\ UNCHANGED <<disk, i, options, forced, err, logs>>

(* ... and neither has a file that fopen() cannot open. *)
CountFails ==
  /\ Faults /\ pc = "count" /\ present
  /\ Decide(0)
  /\ err' = TRUE
  /\ UNCHANGED <<disk, i, options, forced, logs>>

(* config_count_entries(true): each entry goes to the log as a LOG_DEBUG   *)
(* message, which log_write() drops above that level.                      *)
Backup ==
  /\ pc = "backup" /\ pc' = "folder"
  /\ logged' = IF num[CFG_NLOGLVL] = LOG_DEBUG
               THEN {file[k] : k \in Entries(file)} ELSE {}
  /\ UNCHANGED <<disk, i, options, flags, unnoticed>>

(* The log cannot be opened any more: log_write() drops what is left, and  *)
(* nobody looks at what it returns.                                        *)
LogFails ==
  /\ Faults
  /\ pc = "backup" /\ pc' = "folder"
  /\ \E n \in Entries(file) :
       logged' = IF num[CFG_NLOGLVL] = LOG_DEBUG
                 THEN {file[k] : k \in {l \in Entries(file) : l < n}} ELSE {}
  /\ unnoticed' = unnoticed \cup {"log"}
  /\ UNCHANGED <<disk, i, options, flags>>

BackupFails ==
  /\ Faults
  /\ pc = "backup" /\ pc' = "folder"
  /\ err' = TRUE
  /\ UNCHANGED <<disk, i, options, forced, firstTime, logs>>

(* config_createcfg(): the folder first, ... *)
MakeFolder ==
  /\ pc = "folder" /\ pc' = "create"
  /\ cfgdir' = TRUE
  /\ UNCHANGED <<present, file, i, options, flags, logs>>

(* ... then fopen(.., "wb"), which empties an existing file, ... *)
Truncate ==
  /\ pc = "create" /\ pc' = "flush"
  /\ present' = TRUE /\ file' = <<>>
  /\ UNCHANGED <<cfgdir, i, options, flags, logs>>

(* Mutant: the loop over config_entries[] stops one short. *)
WriteAllButOne ==
  /\ pc = "flush" /\ pc' = "open"
  /\ file' = [k \in 1 .. CFG_NENTRIES - 1 |-> DefaultFile[k]]
  /\ UNCHANGED <<present, cfgdir, i, options, flags, logs>>

(* ... and the default entries, which stdio writes out at fclose(). *)
WriteDefaults ==
  /\ pc = "flush" /\ pc' = "open"
  /\ file' = DefaultFile
  /\ UNCHANGED <<present, cfgdir, i, options, flags, logs>>

(* The disk is full: fprintf() and fclose() say so, and nobody looks.      *)
WriteFails ==
  /\ Faults
  /\ pc = "flush" /\ pc' = "open"
  /\ file' \in CutFiles
  /\ unnoticed' = unnoticed \cup {"write"}
  /\ UNCHANGED <<present, cfgdir, i, options, flags, logged>>

Open ==
  /\ pc = "open" /\ pc' = "read"
  /\ UNCHANGED <<disk, i, options, flags, logs>>

(* mkdir(), fopen(.., "wb") or fopen(.., "rb") fails: readcfg gives up. *)
CallFails ==
  /\ Faults
  /\ \/ pc = "folder" /\ ~cfgdir
     \/ pc \in {"create", "open"}
  /\ pc' = "failed" /\ err' = TRUE
  /\ UNCHANGED <<disk, i, options, forced, firstTime, logs>>

-----------------------------------------------------------------------------
(* Mutant: <= for < in the head of the loop. *)
ReadingOneMore == pc = "read" /\ i <= CFG_NENTRIES

(* One turn of the loop of config_readcfg(). *)
Reading == pc = "read" /\ i < CFG_NENTRIES
NextLine == i' = i + 1

IsNumber(ln) == ln.kind = "entry" /\ ln.id \in NumIds
IsString(ln) == ln.kind \in {"entry", "onequote", "badnumber"} /\ ln.id \in StrIds
IsIgnored(ln) ==
  \/ ln.kind \in {"blank", "unknown"}
  \/ ln.kind \in {"badnumber", "onequote"} /\ ln.id \in NumIds

(* Mutant: the line is skipped, the counter is not advanced. *)
SkipAndStay ==
  /\ Reading
  /\ IsIgnored(ReadBuffer)
  /\ UNCHANGED vars

(* No known label, or a numeric value that does not end at the last quote. *)
SkipLine ==
  /\ Reading /\ NextLine
  /\ IsIgnored(ReadBuffer)
  /\ UNCHANGED <<disk, pc, options, flags, logs>>

(* Mutants: a misplaced entry is credited to the option of its line; a     *)
(* forced log level is not looked at.                                      *)
SetNumberOfLine ==
  /\ Reading /\ NextLine
  /\ LET ln == ReadBuffer
         id == IF i \in NumIds THEN i ELSE ln.id
     IN  /\ IsNumber(ln) /\ ln.num # CFG_NULL /\ ~OutOfRange(ln)
         /\ ~(id = CFG_NLOGLVL /\ forced)
         /\ num' = [num EXCEPT ![id] =
                      IF id = CFG_TIMEOUT THEN ToLong(ln.num) ELSE ln.num]
  /\ UNCHANGED <<disk, pc, ptr, mem, longest, flags, logs>>
SetForcedNumber ==
  /\ Reading /\ NextLine
  /\ LET ln == ReadBuffer
     IN  /\ IsNumber(ln) /\ ln.num # CFG_NULL /\ ~OutOfRange(ln)
         /\ num' = [num EXCEPT ![ln.id] =
                      IF ln.id = CFG_TIMEOUT THEN ToLong(ln.num) ELSE ln.num]
  /\ UNCHANGED <<disk, pc, ptr, mem, longest, flags, logs>>

(* config_evalentry() stores a numeric option. *)
SetNumber ==
  /\ Reading /\ NextLine
  /\ LET ln == ReadBuffer
     IN  /\ IsNumber(ln) /\ ln.num # CFG_NULL /\ ~OutOfRange(ln)
         /\ ~(ln.id = CFG_NLOGLVL /\ forced)
         /\ num' = [num EXCEPT ![ln.id] =
                      IF ln.id = CFG_TIMEOUT THEN ToLong(ln.num) ELSE ln.num]
  /\ UNCHANGED <<disk, pc, ptr, mem, longest, flags, logs>>

(* cnode_setloglvl() refuses: the level was locked by --debug. *)
KeepForcedLevel ==
  /\ Reading /\ NextLine
  /\ LET ln == ReadBuffer
     IN  IsNumber(ln) /\ ~OutOfRange(ln) /\ ln.id = CFG_NLOGLVL /\ forced
  /\ UNCHANGED <<disk, pc, options, flags, logs>>

RejectNumber ==
  /\ Reading /\ NextLine
  /\ IsNumber(ReadBuffer) /\ ReadBuffer.num # CFG_NULL /\ OutOfRange(ReadBuffer)
  /\ err' = TRUE
  /\ UNCHANGED <<disk, pc, options, forced, firstTime, logs>>

(* The value is CFG_NULL, the marker of "no value": the launch ends. *)
NullAbort ==
  /\ Reading
  /\ IsNumber(ReadBuffer) /\ ReadBuffer.num = CFG_NULL
  /\ pc' = "failed" /\ err' = TRUE
  /\ UNCHANGED <<disk, i, options, forced, firstTime, logs>>

(* Mutants: one block for all string options; a value that is too long is  *)
(* replaced without an error.                                              *)
SetSharedString ==
  /\ Reading /\ NextLine
  /\ LET ln == ReadBuffer
     IN  /\ IsString(ln)
         /\ mem' = [mem EXCEPT ![1] = ln.str]
         /\ ptr' = [ptr EXCEPT ![ln.id] = 1]
         /\ longest' = Grown(longest, StrLen[ln.str])
  /\ UNCHANGED <<disk, pc, num, flags, logs>>
SetStringQuietly ==
  /\ Reading /\ NextLine
  /\ LET ln == ReadBuffer
     IN  /\ IsString(ln)
         /\ \E s \in IF ln.kind = "onequote" THEN Strings ELSE {ln.str} :
              LET tooLong == StrLen[s] > MaxLen[ln.id]
              IN  /\ mem' = [mem EXCEPT ![i + 1] = IF tooLong THEN "ERROR" ELSE s]
                  /\ longest' = Grown(longest, StrLen[s])
         /\ ptr' = [ptr EXCEPT ![ln.id] = i + 1]
  /\ UNCHANGED <<disk, pc, num, flags, logs>>

(* A string option gets a block of its own.  With one quote snprintf() is  *)
(* given size 0 and the block keeps whatever malloc() returned.            *)
SetString ==
  /\ Reading /\ NextLine
  /\ LET ln == ReadBuffer
     IN  /\ IsString(ln)
         /\ \E s \in IF ln.kind = "onequote" THEN Strings ELSE {ln.str} :
              LET tooLong == StrLen[s] > MaxLen[ln.id]
              IN  /\ mem' = [mem EXCEPT ![i + 1] = IF tooLong THEN "ERROR" ELSE s]
                  /\ err' = (err \/ tooLong)
                  /\ longest' = Grown(longest, StrLen[s])
         /\ ptr' = [ptr EXCEPT ![ln.id] = i + 1]
  /\ UNCHANGED <<disk, pc, num, forced, firstTime, logs>>

MallocFails ==
  /\ Faults
  /\ Reading /\ IsString(ReadBuffer)
  /\ pc' = "failed" /\ err' = TRUE
  /\ UNCHANGED <<disk, i, options, forced, firstTime, logs>>

(* strchr() returned NULL and fdq + 1 is read all the same. *)
NoQuoteFaults ==
  /\ Reading /\ ReadBuffer.kind = "noquote"
  /\ pc' = "crashed"
  /\ UNCHANGED <<disk, i, options, flags, logs>>

Finish ==
  /\ pc = "read" /\ i = CFG_NENTRIES
  /\ pc' = "done"
  /\ UNCHANGED <<disk, i, options, flags, logs>>

(* cnode_cleanup() frees the blocks of two of the three string options. *)
Cleanup ==
  /\ pc \in {"done", "failed"}
  /\ pc' = "exited"
  /\ mem' = [b \in Blocks |->
               IF b \in {ptr[CFG_TUNDEV], ptr[CFG_NETREPO]} THEN Free ELSE mem[b]]
  /\ UNCHANGED <<disk, i, num, ptr, longest, flags, logs>>

(* The process is killed, or the machine goes down. *)
Crash ==
  /\ pc \in Running
  /\ pc' = "crashed"
  /\ UNCHANGED <<disk, i, options, flags, logs>>

Create   == MakeFolder \/ Truncate \/ WriteDefaults \/ WriteFails
ReadLine == \/ SkipLine \/ SetNumber \/ KeepForcedLevel \/ RejectNumber
            \/ NullAbort \/ SetString \/ MallocFails \/ NoQuoteFaults
Startup  == \/ Count \/ CountFails \/ Backup \/ BackupFails \/ LogFails
            \/ Create \/ Open \/ CallFails \/ ReadLine \/ Finish

Next == Edit \/ Start \/ Startup \/ Cleanup \/ Crash \/ Gone

Spec     == Init /\ [][Next]_vars
FairSpec == Spec /\ WF_vars(Startup)

-----------------------------------------------------------------------------
(* Every variable keeps its type; the options are the values, not the text,
   and a string option is NULL or one of the eleven blocks of the loop. *)
TypeOK ==
  /\ present \in BOOLEAN /\ cfgdir \in BOOLEAN
  /\ file \in Files \cup CutFiles \cup {<<>>, DefaultFile}
  /\ pc \in Ended \cup Running
  /\ i \in 0 .. CFG_NENTRIES
  /\ num \in [NumIds -> Int]
  /\ ptr \in [StrIds -> 0 .. CFG_NENTRIES]
  /\ mem \in [Blocks -> Strings \cup {Free}]
  /\ longest \in Nat
  /\ forced \in BOOLEAN /\ firstTime \in BOOLEAN /\ err \in BOOLEAN
  /\ logged \subseteq Line /\ unnoticed \subseteq {"write", "log"}

(* The lines among the first i that the reader takes a numeric (string)
   option e from. *)
TakesNum(ln, e) == /\ IsNumber(ln) /\ ln.id = e /\ ~OutOfRange(ln)
                   /\ ~(e = CFG_NLOGLVL /\ forced)
TakesStr(ln, e) == IsString(ln) /\ ln.id = e
TakenNum(e) == {k \in 1 .. i : TakesNum(LineAt(k), e)}
TakenStr(e) == {k \in 1 .. i : TakesStr(LineAt(k), e)}

IsLast(k, S) == k \in S /\ \A l \in S : l <= k

(* While the file is read each option has the value of the last acceptable
   line for it so far, wherever in the file the line is, and its start value
   when there is none: no line is credited to its neighbour (the index i and
   reserve_id of config_readcfg()) and a rejected one leaves no trace. *)
NumberFaithful(e) ==
  \/ TakenNum(e) = {} /\ num[e] = LaunchNum(forced)[e]
  \/ \E k \in TakenNum(e) :
       /\ IsLast(k, TakenNum(e))
       /\ num[e] = IF e = CFG_TIMEOUT THEN ToLong(LineAt(k).num)
                                      ELSE LineAt(k).num
StringFaithful(e) ==
  \/ TakenStr(e) = {} /\ ptr[e] = 0
  \/ /\ IsLast(ptr[e], TakenStr(e))
     /\ LET ln == LineAt(ptr[e])
        IN  ln.kind # "onequote" =>
              mem[ptr[e]] = IF StrLen[ln.str] > MaxLen[e] THEN "ERROR" ELSE ln.str
ReadIsFaithful ==
  pc \in Running =>
    /\ \A e \in NumIds : NumberFaithful(e)
    /\ \A e \in StrIds : StringFaithful(e)

(* Two string options never share a block and none points at freed or
   never-allocated memory while the process runs, so that cnode_cleanup()
   frees each block at most once; duplicated and misplaced lines included. *)
PointersOK ==
  pc \in Running =>
    /\ \A e \in StrIds : ptr[e] # 0 => mem[ptr[e]] # Free
    /\ \A e, f \in StrIds : e # f /\ ptr[e] = ptr[f] => ptr[e] = 0

(* --debug wins over the file: a forced log level is never changed by an
   NLOGLVL line (help.c:40). *)
ForcedLevelWins == forced => num[CFG_NLOGLVL] = LOG_DEBUG

(* A launch that gets as far as reading reads a file with the eleven entries
   the next launch insists on, whatever the administrator, a killed launch (an
   emptied file) or one that could not write (config.c:127) had left there.
   Only the launch whose own write is lost goes on with what was written. *)
ConfigSettled ==
  pc \in {"read", "done"} =>
    present /\ (EntryCount(file) = CFG_NENTRIES \/ "write" \in unnoticed)

(* A launch that found no usable file and got through reading runs with
   exactly the default options, also when an earlier launch died between
   emptying the file and writing it.  When the write was lost, an option may
   be unset instead: the code reads its own file back without a check. *)
IsDefault(e) == IF e \in NumIds THEN num[e] = DefaultNum[e]
                ELSE ptr[e] # 0 /\ mem[ptr[e]] = DefaultStr[e]
IsUnset(e) == IF e \in NumIds THEN num[e] = LaunchNum(forced)[e]
              ELSE ptr[e] = 0 \/ LineAt(ptr[e]).kind = "onequote"
FirstLaunchDefaults ==
  pc = "done" /\ firstTime =>
    \A e \in Ids : \/ IsDefault(e)
                   \/ "write" \in unnoticed /\ IsUnset(e)
                   \/ e = CFG_NLOGLVL /\ forced

(* A launch that fails, and one that replaced a string by "ERROR", leaves an
   error behind in nodecfg for cnode_cleanup() to report. *)
FailureReported ==
  /\ pc = "failed" => err
  /\ pc \in Running => \A e \in StrIds :
       /\ ptr[e] # 0
       /\ LineAt(ptr[e]).kind = "entry"
       /\ StrLen[LineAt(ptr[e]).str] > MaxLen[e]
       => err

(* longest_cfg_entry bounds every string option that is set: the buffers of
   menu_config_formatentries() are sized with it (menu.c:126). *)
LongestCovers ==
  pc \in Running =>
    \A e \in StrIds : ptr[e] # 0 => StrLen[mem[ptr[e]]] <= longest

(* No launch in which every call succeeded so far empties or rewrites a file
   that has the eleven entries. *)
ValidConfigKept ==
  [][present /\ EntryCount(file) = CFG_NENTRIES /\ pc \in Running /\ ~err
       => UNCHANGED file]_vars

(* Under --debug every entry is in the log file before the file is emptied,
   unless the file could not be opened to be read (config.c:450), which is an
   error, or the log could not be opened (logging.c:104), which is not. *)
DebugBackup ==
  [][forced /\ pc \in Running /\ file' = <<>> /\ ~err /\ "log" \notin unnoticed
       => {file[k] : k \in Entries(file)} \subseteq logged]_vars

(* The startup of the configuration comes to an end: it succeeds, fails or
   the process dies; the loop neither stops short nor runs on. *)
StartupEnds == pc = "count" ~> pc \in {"done", "failed", "crashed"}

-----------------------------------------------------------------------------
(* What comments of the code say and the code does not do. *)

(* config.c:293: only a LogLevel above LOG_CRITICAL is invalid, so each of the
   five levels of logging.h:9-13 can be set from the file. *)
LevelsAreSettable ==
  pc = "done" /\ ~forced =>
    \A k \in DOMAIN file :
      /\ k <= CFG_NENTRIES
      /\ IsNumber(file[k]) /\ file[k].id = CFG_NLOGLVL
      /\ file[k].num <= LOG_CRITICAL
      /\ \A l \in DOMAIN file : file[l].id = CFG_NLOGLVL => l = k
      => num[CFG_NLOGLVL] = file[k].num

(* config.h:67: config_readcfg() "reads all config entries and evaluates
   them". *)
AllEntriesRead ==
  pc = "done" =>
    \A k \in DOMAIN file : IsString(file[k]) => ptr[file[k].id] # 0
=============================================================================
