# Central Node in TLA+

A verification project for Central Node 7.1 (`src/`): TLA+ modules of the parts
of the program that keep state, model-checking configurations for TLC, and
theorems checked by TLAPS. `PROJECT.json` lists the runs, the source lines each
definition stands for, the findings, the hazards and the theorems.

## 1. The system

Central Node is one process with one thread: a text user interface (ncurses)
started by root. Several instances may run at once; nothing prevents it. All
modules of the program share the global record `nodecfg`. What outlives a
process is on disk: `/etc/cnode/node.cfg`, `/etc/cnode/.uuidauth` and the log.

    main -> cnode_init_instance -> cnode_parse_sargs -> config_read/create_uuid
                                -> config_readcfg    -> config_evalentry
                                -> curl_node_init, net_get_networks, is_wsl
         -> ncurses_init_gui -> if_get_ifnet_names
         -> menu_init_all_menus -> menu_semaphore -> menu_loadmenu
                                                  -> menu_execoption
         -> cnode_cleanup

| Component | State | Operations | What is hard | What makes it correct |
|---|---|---|---|---|
| Configuration file (`sys/config.c`) | `node.cfg`; options, `longest_cfg_entry`, `first_time_launch` in `nodecfg`; heap blocks | count, back up, recreate, read 11 lines, evaluate | crashes between truncating and writing, writes that are lost unseen, each call failing, misplaced and repeated lines, boundary numbers | an option has the value of its own last acceptable line; no block is shared; a complete file is left alone; a failed launch leaves something the next can use |
| UUID file (`sys/config.c`) | `.uuidauth` | read (creates when missing), create | two instances, crashes before `fclose()`, lost writes, retries, failing `fopen()` | a stored UUID is never replaced; what is shown is what is stored; calls end |
| Menus (`gui/menu.c`) | current and next menu, highlighted item, ncurses menu and items | load, key loop, execute, tear down, switch | twelve calls that may fail half way; leaving from anywhere; an empty menu | terminal and memory restored on each way out; guarded menus unreachable; loading and leaving end |
| Terminal control (`gui/cursesctl.c`) | palette, echo, cursor, curses mode | initialise, swap and restore a colour, end | partial initialisation | colours and modes given back |
| Start and cleanup (`main.c`, `base/`) | `nodecfg` | defaults, parameters, cleanup | early returns at each stage | everything acquired is released once |
| Network list (`net/netops.c`, `menu_entries_load_networks()`) | linked list, `n_networks`, `longest_net_entry`, the menu's entries | fetch, split, add, load, free, check for updates | long lines and a last one without newline, failing allocations, names shared with the menu | all networks of a reply or none; the menu never outlives the names; an update is announced only when there is one |
| HTTP (`net/curlcomm.c`) | reply buffer | init, request, final | callbacks in pieces or none, timeouts, lost connections | the caller gets a complete reply or an error |
| Interfaces (`net/ifs.c`) | `sys_ifnets` | enumerate | failing `ioctl()` | no descriptor lost |
| Logging (`sys/logging.c`) | log path, log file | set, write, reset | write before a path is set | filtered by level |
| System checks (`sys/sysctl.c`) | none | root, WSL, files, drop privileges | order of the set*id calls (no caller) | - |
| nodeWD, tinc control, MD5, assembly | none | stubs and functions without a caller | - | - |

## 2. The modules

| Module | Models |
|---|---|
| `Data` | `rtonm()` of `data/data.c` |
| `NodeConfig` | the life of `node.cfg` through a series of launches |
| `UuidStore` | abstract: what the program promises about the UUID |
| `UuidFile` | the two UUID functions, one system call per step, any number of instances; implements `UuidStore` |
| `Menu` | menus, terminal modes and colours, up to `cnode_cleanup()` |
| `NetIfs` | `if_get_ifnet_names()`: the table of network interfaces |
| `Lifecycle` | one run from `main()` to its end; composes `NetIfs` |
| `CurlRequest` | one request of `curl_sendrequest()` with its callback |
| `NetRepo` | abstract: what the program promises about the networks |
| `NetList` | the networks from the request to the last `free()`, and the check for updates; composes `CurlRequest`, implements `NetRepo` |
| `MCNodeConfig`, `MCUuidFile`, `MCMenu`, `MCNetIfs`, `MCLifecycle`, `MCNetList` | the values the runs give to the constants |
| `NodeConfigProofs`, `UuidFileProofs`, `MenuProofs`, `NetIfsProofs`, `LifecycleProofs`, `NetListProofs`, `NetRepoProofs` | theorems; `NetRepoProofs` those on the refinement of `NetRepo`, the others those on their component |

Operators introduced by a comment that begins with "Mutant" are altered forms
of the definition below them, a bug somebody might write. No specification uses
them; putting one in the place of the original makes TLC report the property
that `PROJECT.json` names with it, which shows that the property can fail.

### NodeConfig

`pc` is the place in `config_readcfg()`: `count` and `backup`
(`config_count_entries()` without and with output), `folder`, `create` and
`flush` (`config_createcfg()`: `mkdir()`, the truncating `fopen()`, the
`fclose()` that writes the buffer), `open`, then `read` with the loop counter
`i`. A step is a system call or one turn of the loop. `num`, `ptr`, `mem` and
`longest` are the options in `nodecfg`; `mem` has a block for each turn of the
loop, because a turn calls `malloc()` at most once. `forced`, `firstTime` and
`err` are `log_level_force_set`, `first_time_launch` and `exit_status`.

The text of a line is reduced to what the reader tells apart: an entry with a
known label and a value; an empty line; an unknown label; a number with stray
characters; one quote; no quote. A string is a name with a length. Numbers are
those `strtoul()` may return, with ULONG_MAX of a 9-bit `unsigned long` in the
runs; the conversion to the signed timeout wraps. With one quote character
`snprintf()` is called with size 0 and the block keeps what `malloc()`
returned, so the value is any string. Without a quote the code reads through a
NULL pointer: the process ends.

Two kinds of failure leave no error in `nodecfg`, because the code does not
look at the result; `unnoticed` is a history variable that records them.
`WriteFails` is the default file on a full disk (config.c:124-130): the file
then is one of `CutFiles`, the default cut at any line or within one, and the
launch goes on to read it. `LogFails` is a log that does not open while the old
entries are backed up (logging.c:104): from some entry on they are dropped.

`Edit` is the administrator between two launches, `Crash` a kill at any step,
`Gone` and `Start` the next launch.

### UuidFile

Each process makes one call, `--genuuid` or "Display UUID", and takes one
system call per step, so that two instances interleave. The file is absent,
empty (opened for writing) or holds a UUID; `close` is the `fclose()` that
writes, or, in `CloseFails`, does not: neither `fprintf()` nor `fclose()` is
checked (config.c:33, 40), and the call goes on as after a success (`Closed`).
`FullDisk` says whether that may happen in a run. `nested` says that
`config_create_uuid()` runs inside `config_read_uuid()`, `tries` is
`anti_deadlock`. `had`, `torn` and `removals` are history variables that no guard of the program's steps reads; `removals`
distinguishes the administrator's removal for the abstract store. The
administrator is taken to remove the file only while no instance uses it.

### Menu

`pc` follows `menu_loadmenu()`: `load` to the swap of the first colour,
`black` to the second, `setup` to `post_menu()`, `keys` the key loop,
`outside` the wait of "Check daemon status", `end` END_ROUTINE, `switch`
`menu_semaphore()`. `Failing` is the set of calls that may fail in a run.
`shown` is the number of items that ncurses connected: nobody looks for a NULL
among the results of `new_item()` (menu.c:567), and `new_menu()` stops at the
first. `ItemError` is `item_index()` returning ERR: the error is set, and yet
the key that was pressed decides what is next (menu.c:674).
`color[c]` says who defined a colour and `saved` is the backup; `skewed` is a
history variable: redefining a colour back failed, or was not tried. Of the
ncurses library the module has only what the code relies on: highlighting
stops at the ends of a menu, a menu is freed before its items, a refresh after
`endwin()` returns to curses mode. The `refresh()` that ends `gui_killgui()` has
no effect, because `stdscr` is the window deleted two lines above.

### NetIfs

A step is one turn of the loop over the list that `if_nameindex()` returned:
`sys[k]` says whether interface k has an IPv4 address, `at` is `intf`, `i` the
loop counter, `listed` the rows of the table. Each question to the kernel is a
socket and an `ioctl()`; `Answers` has the three ways it may end, and `fds`
counts the sockets that an `ioctl()` failure leaves open. `List` asks four
times, `Skip` gives up after two, and `Vanished` is the crash when an interface
goes away between the check and the copy.

### Lifecycle

`pc` is the stage of the run: `init` and `args` (`cnode_init_instance()` up to
`cnode_parse_sargs()`), `config`, `curl`, `nets` and `wait` (before and during
the request), `gui`, `colors` and `test` (`ncurses_init_gui()` with its colour
test), `ifs` (the steps of `NetIfs`), `items` and `menu`
(`menu_init_all_menus()`), `cleanup`, and `exited`, `crashed` or `hung`. `own` gives
each thing a run acquires its fate: `none` (a NULL pointer), `held`, `freed`,
or `twice`, the double free; `Cleanup` releases what `cnode_cleanup()` names.
`code` is what `main()` returns, `err` is `exit_status`.

Every early return has an action, so that each of them meets the one
cleanup. Of `config_readcfg()` `Lifecycle` has what it leaves behind:
`TakeLines` the options taken from the lines, of a new file up to where its
write stopped, of an old one any, also twice; `repeated` are the blocks that
only an overwritten pointer knew (config.c:334), `config_fp` the file that an
early return from the loop does not close. `NoQuoteFaults` is the crash of
`NodeConfig`. A configuration file counts as complete without the line of an option
(see `NodeConfigBlank`), so a run on an old file has any subset of the string
options; the two crashes this leads to are actions (`NoProxyOption`,
`NoNetrepoOption`). The configuration, the reply of the repository and the stay
in the menus are one step each, with all the results their own modules allow;
`LeaveMenus` may leave the terminal inside or outside curses mode, a superset
of what `Menu` allows. `LoadHangs` is the run that never gets to the menus: a
network without a name, on which the loop of `menu_entries_load_networks()`
does not move on (`NetList` shows how the name gets lost). The interruption by
SIGINT is left out.

### CurlRequest

One request at a time: `Start` is `curl_sendrequest()` up to
`curl_easy_perform()`, `Receive` one call of `curl_writefunc()` with any number
of characters, and the request ends by `Complete`, `Broken` (refused, an HTTP
error, a connection lost half way), `TimedOut` (only with a positive timeout),
`ReceiveFails` (`realloc()`) or `CopyPastEnd`, the crash when a caller that
asks for a fixed number of characters gets a shorter reply: `memcpy()` then
reads past the response, which may fault or not, so `Complete` is possible
too. `size` and `response` are the callback's buffer, `got` is what the caller
is told.

### NetList and NetRepo

A reply is reduced to its length, the positions of its newlines, whether every
other character is one that `net_get_networks()` accepts, and, for the file
with the current version, that version. A name is an interval of positions, so
that two names can overlap, swallow a newline or be cut, all of which the
properties speak of.

`pc` follows the program: `start`, `request` (the steps of `CurlRequest`),
`read` (one `fgets()` per step: `SkipPiece`, or a `network_info_entry_add()`
with what its three allocations come to, `Add`, `AddUnnamed`, `AddFails`),
`fetched`, `load` (a turn of `menu_entries_load_networks()` per step), `menus`,
`checking` (`net_checkupdate()`, a second request), `final` (a turn of
`network_info_final()` per step), and `done` or `crashed`. `lost` is a history
variable: an allocation for the list failed.

`NetRepo` says when the program knows the networks of a reply: all of them,
named and numbered in their order (`LearnAll`), none (`LearnNone`), or, only
after an allocation failed, a part (`LearnPart`). It has no reading loop: it
says of a position whether a name starts there (`Starts`), of an interval
whether it is a name (`IsName`), and numbers a name by the starts before it.
The refinement hides the pieces and the turns: while `NetList` asks or reads,
the abstract list is empty.

## 3. The runs

Runs that expect a violation check one sentence of the code's own comments or
documents; see section 4.

| Run | Shows | Bounds |
|---|---|---|
| `NodeConfig` | reading is faithful, blocks are owned once, startup recovers and ends, a complete file is left alone, --debug backs up what is replaced | 120 files: the default with one or two lines damaged, misplaced, repeated, dropped, added; 9 numbers, 9 strings; `fopen()`, `mkdir()`, `malloc()`, the write of the file and the log may fail, a kill at every step |
| `UuidFileOne` | one instance implements `UuidStore`, with crashes and restarts | 1 process, 4 UUIDs; the write at `fclose()` may fail |
| `UuidFileTwo` | an empty file is explained, calls end | 2 processes, 4 UUIDs; `fopen()` and the write may fail |
| `Menu` | guards, restoration, walks between menus, loads and exits end | 0, 1 or 3 networks; each of the twelve calls named in `Calls` may fail |
| `Lifecycle` | one cleanup for all early returns, requests to exit honoured, the result explained, the start ends | at most 2 parameters and 2 interfaces, a table of 3, timeouts -1, 0, 15, at most 1 network; each early return may be taken |
| `NetList` | the fetch implements `NetRepo`; names are lines; the menu follows the list and is wide enough; updates are announced truthfully; waits end | names of at most 10 characters; replies: all of up to 4 characters, two and three lines around lengths 1 and 8 to 11, one of 22, with and without the last newline; versions of three, four and five digits, a file without one and an empty one; timeouts 0 and 15; every allocation may fail |
| `NodeConfigLevels`, `NodeConfigBlank`, `UuidFileRace`, `UuidFileFresh`, `MenuSetupError`, `NetIfsAll` | the findings | as above; `NetIfsAll`: at most 3 interfaces, no failing call |

Why the bounds are enough. A launch reads exactly 11 lines in one pass and its
state depends on a line only through its kind, its option and its value, so
faults of one line and of two lines that concern the same or neighbouring
options are what can go wrong; the theorems remove the bound on files
altogether. In `UuidFile` a UUID that no process and no file holds is as good
as a fresh one, so with two processes four UUIDs suffice (one stored, two held,
one new). The number of networks matters as none, one and several. In
`Lifecycle` two parameters give each request with another one before and after
it; a timeout matters as refused by curl, none and set; a table of three with
two interfaces has a turn to spare, so the scan ends for each of its reasons.
In `NetList` a piece differs from another in whether it is one character, ends
with a newline, fills the buffer or is the last one; lines of 8 to 11
characters with room for 10 are just below, at and above a full piece and the
step of the rounding of `longest_net_entry`, 22 is a line of three pieces. The
room for a name is 64 in the code; nothing else depends on it. The theorems
remove the bounds on `Lifecycle` and `NetList` too.

What a property does not claim.

- `ConfigSettled` and `FirstLaunchDefaults` allow a launch whose write of the
  default file was lost, and that launch only, to read what was written and to
  run with options that are unset: zero, NULL or, in a line cut after its first
  quote, uninitialised. `DebugBackup` leaves out launches whose log did not
  open. `ValidConfigKept` and `DebugBackup` speak of a launch in which no call
  has failed with an error: after a failing `fopen()` a complete file is replaced.
- `AnnouncedIsStored` allows `--genuuid` to print a UUID whose write was lost;
  the file is empty then. `NeverOverwritten` is about one instance whose
  `fopen()` does not fail: where it fails a stored UUID is replaced. It says that
  a stored UUID stays, not that an empty file will ever be filled.
- `ColorsRestored` leaves out walks that are `skewed`, and `MenuComesUp`
  accepts an error on record: while `new_menu()`, `post_menu()` or `wgetch()`
  fail, for instance on a closed terminal, the same menu is loaded again.
- `NothingKept` excepts what `config_readcfg()` has lost before the cleanup:
  the proxy string, the first block of a string option that an old file sets
  twice (never of a file made by this launch), and the open file of a launch
  that failed while reading (only with EXIT_FAILURE). README.md:71 of the
  program knows no exceptions.
- `FetchEnds` excepts a silent server when no timeout is set and a network
  without a name. `UpdateTruthful` speaks of replies that the copy of a fixed
  length survived.

In each case the code does not do more; sections 4 and 6 list it.

Fairness. `NodeConfig!FairSpec` asks weak fairness of the startup's own steps:
a process that is neither killed nor stopped goes on; nothing is asked of
crashes or of the administrator. `UuidFile!FairSpec` asks the same of each
process, not that `fopen()` succeeds. `Menu!FairSpec` asks it of the program's
work between keys, never of the keys: the user may go away. In `Lifecycle` the
program's own steps are fair, the timeout of curl among them, but neither the
repository's answer nor the user's keys: `StartEnds` therefore says that a
silent repository holds the start only if no timeout is set. `NetList` asks the
same.

`CHECK_DEADLOCK FALSE` stands in the runs of `Menu`, `Lifecycle`, `NetList` and `NetIfs`,
where the program, or the function, ends.

## 4. Findings

| Run | The code | What it says |
|---|---|---|
| `NodeConfigLevels` | log levels 2 to 4 are rejected (config.c:239) | config.c:293 and logging.h:9 allow them |
| `NodeConfigBlank` | blank lines are read but not counted: the last entry is not read (config.c:468) | config.h:67 "Reads all config entries" |
| `UuidFileRace` | two instances: the second replaces the UUID of the first (config.c:48) | cnode.c:265 |
| `UuidFileFresh` | `--genuuid` refuses on a fresh machine (cnode.c:261) | cnode.c:263 |
| `MenuSetupError` | `new_menu()`, `post_menu()` failing is no MENU_ERROR (menu.c:576) | menu.c:480 |
| `NetIfsAll` | an interface without an IPv4 address hides all after it (ifs.c:74) | ifs.c:39 "Retrieves all available network interface names" |

Seen while reading and modelling, without a run of their own:

- `TIMEOUT="255"` ends the launch with an error (config.c:577); the comment at
  config.c:576 calls the case impossible. `TIMEOUT="0"` means no timeout.
- At the default log level the entries of a replaced file are not backed up
  (config.c:431), and a failing `fopen()` counts as no entries (config.c:421).
- A failing `fopen()` for reading replaces a stored UUID (config.c:50).
- The proxy string is never freed (cnode.c:134), against README.md:71; neither
  is the first block of a repeated string line (config.c:334), and an early
  return from the loop leaves `node.cfg` open (config.c:546, 580).
- Nobody looks at what `fprintf()` and `fclose()` return (config.c:33, 40,
  124-130). On a full disk a first launch runs with unset options and no error,
  and `--genuuid` prints a UUID that is stored nowhere. A default file that was
  cut within its last line still counts eleven entries, so that later launches
  accept it: such a line crashes them without a quote, and sets NETREPO to
  uninitialised memory with one.
- A log that does not open loses the backup of a replaced file without an error
  (logging.c:104).
- A menu entry whose label has seven characters loses its closing quote
  (menu.c:142, config.h:25).
- When the second colour cannot be swapped the first stays redefined
  (menu.c:541).
- `--testcolor` on a first launch goes on to the menus (cursesctl.c:380),
  though cnode.h:71 says the program does not start then.
- A line longer than 63 characters becomes several networks (netops.c:161), and
  a last line of one character without a newline none (netops.c:164).
- `n_networks` counts a network that could not be added, against netops.h:30;
  one whose name could not be copied makes the loading of the network menu
  loop for ever (menu.c:169).
- `memcpy()` copies six characters of a reply about the current version
  whatever came: from a NULL buffer of an empty reply, past the end of a short
  one (curlcomm.c:104). A version of five digits or more fills the buffer of
  `net_checkupdate()` without a terminator.
- `new_item()` returns NULL for a network without characters in its name or
  without memory; the menu then ends before that item, without an error
  (menu.c:567).
- When `calloc()` fails the array of items that is NULL is walked
  (menu.c:765); a closed terminal loads the same menu again (menu.c:732).
- `main()` returns success after a menu ended with MENU_ERROR, and the status
  0xbeef of an early exit is 239 to the shell.

## 5. What is proved

Every safety property of the passing runs is a theorem, both refinements among
them; `NeverOverwritten` and `AnnouncedIsStored` are theorems about one
instance, as in the run that checks them, and below is what holds for more.
For four of the findings there is a theorem that says when the documented
sentence does hold (`TwoLevelsOnly`, `LockWouldDo`, `AllReadWithoutBlanks`,
`AllListedWithAddresses`). The theorems hold for every value of the
constants that meets the named assumptions: the defaults are among the strings
and numbers, a string has a length, a file is a sequence of lines, an
`unsigned long` holds more than 510 values, UUIDs differ from the marks for an
absent and an empty file, the newlines of a reply lie within it, a name has
room for two characters.

`NodeConfigProofs`

- `TypeCorrect`: `TypeOK` is inductive.
- `MemorySafe`, `LongestIsBound`, `ForcedLevelStays`: `PointersOK` alone is not
  inductive: the block a turn of the loop allocates must not be one that an
  option already has. `MemInv` adds that an option points at the block of a
  line already read (`BlocksRead`) and that nothing is read before the file is
  open (`FreshStart`). For `LongestCovers` the lemmas `RtonmBounds` and
  `GrownCovers` say what the rounding does.
- `ReadFaithful`: a turn of the loop adds at most its own line to the lines an
  option is taken from (`TakenGrows`); the option of the line gets its value
  (`FaithNumber`, `FaithString`), each other option keeps its last line
  (`FaithOfOthers`), and a rejected line is taken for none (`FaithSkip`). While
  the file changes nothing has been read.
- `FileSettled`: `SettledInv`, a file is only opened when it is complete or was
  just written, by a write that succeeded or is in the history;
  `DefaultIsComplete` counts the eleven entries of the default.
- `DefaultsOnFirstLaunch`: `FirstInv`, a first launch reads the file it made,
  to the end; then `ReadFaithful` says what that makes of the options, and
  `MadeTaken` that each option has exactly one acceptable line there, or, when
  the write was lost (`CutTyped`), that one or none. The
  width assumption is needed: with a narrower number a default is rejected.
- `FailuresReported`: an error on record is never taken back (`ReportKept`).
- `AllReadWithoutBlanks`: `Spec => [](BlanksLast => AllEntriesRead)`, the
  complement of the finding of `NodeConfigBlank`. Unless a blank line comes before
  an entry, the eleven entries that were counted are within the eleven lines
  the loop reads (`EntriesWithinLoop`).
- `TwoLevelsOnly`: of the five log levels a file sets two, LOG_DEBUG and
  LOG_NOTIF, and no file brings the level above them, the complement of the
  finding of `NodeConfigLevels`.
- `StartupBounded`: `StepsLeft`, at most 18, falls with every step of a launch.
- `CompleteFileKept`, `EntriesBackedUp`: `RenewInv`, a complete file gets on
  the way to a new one only by an error, and under --debug its entries are in
  the log by then, if that opened. `FileWriters`: four actions write the file.

`UuidFileProofs`

- `TypeCorrect`, `EmptyIsExplained`, for any number of instances, whatever
  opens and writes fail: an empty file is being written, or a writer was killed
  or lost its write.
- `LockWouldDo`: `Spec /\ []Exclusive => Store!Spec` for any number of
  instances, if no `fopen()` fails. `Exclusive` says that no two instances are
  at once on the way from the failed open to `fclose()`; the inductive
  invariant (`KeepInv`) that while one is, no UUID is stored that it could
  lose. The program does not ensure `Exclusive` (`UuidFileRace` is the
  counterexample); the theorem says that a lock around that part is all it
  lacks. The other hypothesis is needed too: a failing `fopen()` has the UUID
  replaced.
- `StoreImplemented`: with one instance (`Alone`) `Exclusive` holds, hence
  `Spec => Store!Spec`.
- `AnnouncedWhenStored`: `Spec => [][Announces]_vars`, for any number of
  instances and whatever `fopen()` does: in the step that announces a UUID the
  file holds it, with one exception, `--genuuid` in the step in which its write
  is lost. What is shown was always read. `BufferEmpty` says that a `--genuuid`
  that has made no UUID has none to announce. `AnnouncedStays`, that it is still
  stored later, needs `Alone`; with the write lost the file is empty
  (`WritesToEmpty`).
- `CallsBounded`: `StepsLeft(p)`, at most 11, falls with every step of process
  p and never rises by one of another, whatever they do to the file and however
  often `fopen()` fails. `RoundsBounded` is what `anti_deadlock` is there for.

`MenuProofs`

- `TypeCorrect`, and `NavInv` for `ItemsSelected`, `GuardsHold` and
  `SwitchesByMain`: whatever leads to a menu has looked at its condition, a
  menu that is up is its own next one until it is left, one of two is the main
  menu, and a menu that was set up has items. `ItemInMenu` holds whichever items
  ncurses could not make.
- `ModesRestored`: `ModesInv`, the modes are the terminal's own up to the step
  that ends the set-up, and again after END_ROUTINE.
- `ColorsGivenBack`: `ColorInv`, a backup is only taken of a colour that is the
  terminal's own, unless the history (`skewed`) says otherwise.

`NetListProofs` holds for replies of any length and any room for a name. Of the
program that is true up to BUFSIZ, the size of its own buffer (section 6).

- `TypeCorrect`: `TypeInv` adds that nothing is counted before the text is read
  (`NotRead`); the lemmas on `CurlRequest` are shared by both of its callers.
- `LinesBecomeNames`: `LinesInv` adds that no name lies beyond what was read;
  `PieceIsLine` is what `fgets()` and `strcspn()` make of the text, `NamedGrown`
  and `NamedTail` what adding and freeing do to the list.
- `MenuWideEnough`: `LongestNetCovers` is inductive; `LongerCovers`.
- `MenuFollowsList`: `EntriesInv` adds the places at which the menu has
  entries, none of which frees the list; `CountInv` follows the count from the
  pieces to the list and the menu while no error is on record.
- `AnnouncedUpdatesReal`: `ToldInv` adds where the message may be on the screen,
  and that a request that succeeded has received everything.
- `FetchBounded`: `StepsLeft`, at most seven and four times the length of the
  reply (`MostSteps`), falls with every step that changes something, up to the
  menus, during a check for updates and during the cleanup.

`NetRepoProofs`

- `AllNetworksOrNone`: `Spec => RepoImplemented`, for replies and names of any
  length. `FetchInv` says what is known half way (`Reading`): the program is at
  the start of a piece of a line, the names that end before that place are
  counted by `num`, and each is in the list with its number unless an allocation
  failed. `PieceStarts`, `PieceIsName` and `CountPiece` relate a turn of the
  loop to the positions of the abstract names, `HandsOverAll` says that the text
  read is the whole reply. `FetchedLearnt` then makes the last turn a step of
  the abstract specification; the others stutter.

`NetIfsProofs` holds for every list of interfaces and every size of the table.

- `StopsAtGap`, `ReachesGap`: the table is part of the interfaces before the
  first one without an address, and exactly these, as far as it has room, when
  no call fails. `ScanInv`: every turn so far has listed its interface.
- `AllListedWithAddresses`: hence the promise of ifs.c:39 holds where every
  interface has an address, no call fails and the table is large enough, the
  complement of the finding of `NetIfsAll`.

`LifecycleProofs` holds for command lines of any length, every list of
interfaces and every size of the table.

- `FreedOnce`, `CleanupComplete`, `TerminalReturned`. The properties speak of
  the end of a run; `ResInv` says what holds on the way: nothing is freed before
  the cleanup but the memory of the menus (`FreedLate`), that memory is held
  only while the menus run (`MenuHeapInMenu`), and curses mode implies a window
  (`WindowInCurses`). `LeftByConfig` follows what nothing frees from
  `config_readcfg()` to the end: `LinesTaken` says that a block is lost by a
  repeated line of an old file only, and the open file goes with an error.
- `RootRequired`, `RequestsHonoured`. A run
  without root never passes `init`, one that was asked to exit never passes
  `args`.
- `ResultExplained`: `Spec => []ExitExplained`, with the reason attached to the
  step that goes to the cleanup instead of to its end.
- `TableCorrect`: `Spec => []InterfacesSound`. A row of the table is an entry
  the scan has passed, so no later turn can list it again; at most two sockets
  are lost per turn.
- `TypeCorrect`: the table and the rest of the run separately.

Only model-checked: liveness (out of the prover's reach, like ENABLED), that
is `StartupEnds`, `CallEnds`, `MenuComesUp`, `ExitLeaves`, `StartEnds` and
`FetchEnds`. For three of them the theorems `StartupBounded`, `CallsBounded` and
`FetchBounded` have what does not need fairness: a count that falls with every
step, for all values of the constants. What is left to TLC there is that a
process that is not waiting can take a step.

## 6. What is left out

- Lines longer than 126 characters (`fgets()` splits them) and values with
  printf conversions (a value is used as a format string).
- Edits of `node.cfg` while a launch reads it.
- Windows of ncurses and their memory; painting and messages.
- SIGINT, which ends the program from within a menu without END_ROUTINE.
- Replies of BUFSIZ characters or more: `curl_sendrequest()` copies all it
  received into an array of BUFSIZ characters on the stack of
  `net_get_networks()` (netops.c:107-114, curlcomm.c:103) and does not look at
  its size. At BUFSIZ the terminator is missing, beyond it the copy writes past
  the array. Every statement about replies of any length is one about replies
  shorter than that.
- Characters after a NUL in a reply, and what follows the fifth digit of a
  version, for which the buffer has no room. In `Lifecycle` the list is only
  there or not, with its count.
- Reads that fail after a file was opened. A UUID is written as a whole or not
  at all: of its 36 characters a full disk keeps none. A log that stops opening
  while entries are backed up does not open again for a later entry of the same
  backup.
- Functions without a caller: `config_writevalue` (it overwrites a value in place: a
  shorter one leaves a remnant, a longer one damages the next line),
  `config_get_value`,
  `drop_superuser` (whose check at sysctl.c:83 is inverted), MD5, nodeWD and
  kernel module loading, `x_ctoi`, `x_numdigits`, `tinc_check_installation`.

## 7. Plan

Done: `Data`, `NodeConfig`, `UuidFile` over `UuidStore`, `Menu`, `NetIfs`,
`Lifecycle`, `NetList` over `NetRepo` with `CurlRequest`, and the proofs above.
Left, in this order:

1. `Menu` in `Lifecycle`: the stay in the menus by the steps of `Menu` instead
   of one step, with SIGINT and a closed terminal.
2. `ConfigLoad`: an abstract load of the configuration that `NodeConfig`
   implements in the absence of damaged lines.
3. `ConfigWrite`: `config_writevalue()` on the lines of a file (no caller yet).
4. `Logging`, `Privileges`.
