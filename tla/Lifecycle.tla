----------------------------- MODULE Lifecycle ------------------------------
(***************************************************************************)
(* One run of Central Node from main() to its end: cnode_init_instance()   *)
(* and cnode_parse_sargs() (base/cnode.c), ncurses_init_gui()              *)
(* (gui/cursesctl.c), if_get_ifnet_names() (module NetIfs),                *)
(* menu_init_all_menus() (gui/menu.c) and cnode_cleanup().                 *)
(*                                                                         *)
(* Each stage acquires something; any stage may end the run, and all ends  *)
(* pass through the one cleanup.  What the configuration, the UUID file    *)
(* and the menus do inside is the subject of NodeConfig, UuidFile and      *)
(* Menu; here they are one step with all their results.                    *)
(***************************************************************************)
EXTENDS Integers, Sequences, Functions

CONSTANTS
  ArgLists,  \* startup parameters: sequences over Args
  Timeouts,  \* values of the TIMEOUT option
  NetMax,    \* a bound on the networks of the repository
  IfLists, NET_IFNET_NMAX, IfFaults  \* see NetIfs

Args == {"--help", "--cleanup", "--testcolor", "--genuuid", "other"}

ASSUME ArgListsAssumption == ArgLists \subseteq Seq(Args)
ASSUME TimeoutsAssumption == Timeouts \subseteq Int /\ 15 \in Timeouts
ASSUME NetMaxAssumption   == NetMax \in Nat
ASSUME IfListsAssumption  == IfLists \subseteq Seq(BOOLEAN)
ASSUME IfNMaxAssumption   == NET_IFNET_NMAX \in Nat
ASSUME IfFaultsAssumption == IfFaults \in BOOLEAN

EXIT_SUCCESS == 0
EXIT_FAILURE == 1
CNODE_EXECUTION_EXIT == 48879   \* 0xbeef

(* "repeated" are the blocks that nothing points to any more after another *)
(* line for the same string option, config_fp the FILE of config_readcfg().*)
Options   == {"tincifnet", "proxyaddr", "netrepo"}
Resources == Options \cup {"repeated", "config_fp", "log_path", "curl",
                           "network_info", "mainwin", "menu_config_items",
                           "menu_entries"}

VARIABLES
  pc,         \* the stage the run is at
  args,       \* argv, without the name of the program
  root,       \* the user is root
  own,        \* what became of each resource
  test,       \* nodecfg.nc_color_test
  firstTime,  \* nodecfg.first_time_launch
  timeout,    \* nodecfg.net_timeout
  online,     \* nodecfg.netrepo_status
  n_networks, \* nodecfg.n_networks
  curses,     \* the terminal is in curses mode
  code,       \* what main() returns
  err,        \* nodecfg.exit_status is EXIT_FAILURE
  ret, sys, i, at, listed, fds   \* see NetIfs

Ifs == INSTANCE NetIfs

given  == <<args, root>>
net    == <<online, n_networks>>
config == <<firstTime, timeout>>
table  == <<ret, sys, i, at, listed, fds>>
vars   == <<pc, given, own, test, config, net, curses, code, err, table>>

(* free(NULL) has no effect; a second free() of a resource is an error. *)
Acquire(R) == own' = [r \in Resources |-> IF r \in R THEN "held" ELSE own[r]]
Release(R) == own' = [r \in Resources |->
                        IF r \notin R \/ own[r] = "none" THEN own[r]
                        ELSE IF own[r] = "held" THEN "freed" ELSE "twice"]

Init ==
  /\ pc = "init" /\ args \in ArgLists /\ root \in BOOLEAN
  /\ own = [r \in Resources |-> "none"]
  /\ test = FALSE /\ firstTime = FALSE /\ timeout = 0
  /\ online = FALSE /\ n_networks = 0
  /\ curses = FALSE /\ code = EXIT_SUCCESS /\ err = FALSE
  /\ Ifs!IfInit

GoTo(stage) == pc' = stage /\ UNCHANGED code
Stop(c)     == pc' = "cleanup" /\ code' = c

(* A call fails: NODE_SETLASTERR() and EXIT_FAILURE. *)
Fail == Stop(EXIT_FAILURE) /\ err' = TRUE
FailAt(stage) ==
  /\ pc = stage /\ Fail
  /\ UNCHANGED <<given, own, test, config, net, curses, table>>

-----------------------------------------------------------------------------
(* cnode_init_instance(). *)
AsksHelp == args # <<>> /\ args[1] = "--help"

Help ==
  /\ pc = "init" /\ AsksHelp
  /\ Stop(CNODE_EXECUTION_EXIT)
  /\ UNCHANGED <<given, own, test, config, net, curses, err, table>>

NotRoot == pc = "init" /\ ~AsksHelp /\ ~root /\ FailAt("init")

(* Mutant: the log path is set before the check for root. *)
SetLogPathUnchecked ==
  /\ pc = "init" /\ ~AsksHelp
  /\ Acquire({"log_path"}) /\ GoTo("args")
  /\ UNCHANGED <<given, test, config, net, curses, err, table>>

SetLogPath ==
  /\ pc = "init" /\ ~AsksHelp /\ root
  /\ Acquire({"log_path"}) /\ GoTo("args")
  /\ UNCHANGED <<given, test, config, net, curses, err, table>>

SetLogPathFails == pc = "init" /\ ~AsksHelp /\ root /\ FailAt("init")

(* Mutant: a later parameter takes the request to exit back. *)
ParseLastWins ==
  /\ pc = "args"
  /\ test' = ("--testcolor" \in Range(args))
  /\ IF args # <<>> /\ args[Len(args)] \in {"--cleanup", "--genuuid"}
       THEN Stop(CNODE_EXECUTION_EXIT) ELSE GoTo("config")
  /\ err' \in IF "--genuuid" \in Range(args) THEN {err, TRUE} ELSE {err}
  /\ UNCHANGED <<given, own, config, net, curses, table>>

(* cnode_parse_sargs() evaluates every parameter. *)
ParseArgs ==
  /\ pc = "args"
  /\ test' = ("--testcolor" \in Range(args))
  /\ IF {"--cleanup", "--genuuid"} \cap Range(args) # {}
       THEN Stop(CNODE_EXECUTION_EXIT) ELSE GoTo("config")
  /\ err' \in IF "--genuuid" \in Range(args) THEN {err, TRUE} ELSE {err}
  /\ UNCHANGED <<given, own, config, net, curses, table>>

(* What config_readcfg() takes from the lines it read, R being what else   *)
(* it holds then: of a new file those up to the end or to where the write  *)
(* of the file stopped, of an old one any, also twice.  TIMEOUT is before  *)
(* the string options.                                                     *)
TakeLines(R) ==
  /\ firstTime' \in BOOLEAN
  /\ \E O \in SUBSET Options :
       IF firstTime'
       THEN /\ "netrepo" \in O => "proxyaddr" \in O
            /\ "proxyaddr" \in O => "tincifnet" \in O
            /\ timeout' \in IF O = {} THEN {0, 15} ELSE {15}
            /\ Acquire(O \cup R)
       ELSE /\ timeout' \in Timeouts \cup {0}
            /\ \/ Acquire(O \cup R)
               \/ O # {} /\ Acquire(O \cup R \cup {"repeated"})

(* Mutant: the file is not closed. *)
ReadConfigLeftOpen ==
  /\ pc = "config"
  /\ TakeLines({"config_fp"}) /\ err' \in {err, TRUE}
  /\ GoTo("curl")
  /\ UNCHANGED <<given, test, net, curses, table>>

(* config_readcfg(); what a rejected line leaves is an error.              *)
ReadConfig ==
  /\ pc = "config"
  /\ TakeLines({}) /\ err' \in {err, TRUE}
  /\ GoTo("curl")
  /\ UNCHANGED <<given, test, net, curses, table>>

(* Before the loop over the lines, ...                                     *)
ReadConfigFails ==
  /\ pc = "config"
  /\ firstTime' \in BOOLEAN
  /\ Fail
  /\ UNCHANGED <<given, own, test, timeout, net, curses, table>>

(* ... or in it, with the file open.                                       *)
ReadLineFails ==
  /\ pc = "config"
  /\ TakeLines({"config_fp"})
  /\ Fail
  /\ UNCHANGED <<given, test, net, curses, table>>

(* A known label without a quote. *)
NoQuoteFaults ==
  /\ pc = "config"
  /\ TakeLines({"config_fp"}) /\ err' \in {err, TRUE}
  /\ GoTo("crashed")
  /\ UNCHANGED <<given, test, net, curses, table>>

InitCurl ==
  /\ pc = "curl"
  /\ Acquire({"curl"}) /\ GoTo("nets")
  /\ UNCHANGED <<given, test, config, net, curses, err, table>>

InitCurlFails == FailAt("curl")

(* net_get_networks(): curl_sendrequest() reads the proxy option without a *)
(* check, then waits for the reply.                                        *)
NoRequest ==
  /\ pc = "nets" /\ GoTo("gui") /\ err' = TRUE
  /\ UNCHANGED <<given, own, test, config, net, curses, table>>

NoProxyOption ==
  /\ pc = "nets" /\ own["proxyaddr"] = "none"
  /\ GoTo("crashed")
  /\ UNCHANGED <<given, own, test, config, net, curses, err, table>>

Request ==
  /\ pc = "nets" /\ own["proxyaddr"] = "held"
  /\ GoTo("wait")
  /\ UNCHANGED <<given, own, test, config, net, curses, err, table>>

(* An empty reply is noted as an error, one with odd characters is not; an *)
(* entry that cannot be allocated is counted all the same.                 *)
Answered ==
  /\ pc = "wait" /\ GoTo("gui")
  /\ online' = TRUE /\ n_networks' \in 0 .. NetMax
  /\ err' \in {err, TRUE}
  /\ \/ n_networks' > 0 /\ Acquire({"network_info"})
     \/ (n_networks' = 0 \/ err') /\ UNCHANGED own
  /\ UNCHANGED <<given, test, config, curses, table>>

(* Mutant: a failed request is counted as -1. *)
OfflineMinusOne ==
  /\ pc = "wait" /\ GoTo("gui")
  /\ online' = FALSE /\ n_networks' = -1
  /\ UNCHANGED <<given, own, test, config, curses, err, table>>

(* A reply that does not fit in memory and a failing is_wsl() are noted. *)
Offline == /\ pc = "wait" /\ GoTo("gui")
           /\ online' = FALSE /\ n_networks' = 0 /\ err' \in {err, TRUE}
           /\ UNCHANGED <<given, own, test, config, curses, table>>

Refused == Offline

(* Mutant: the seconds are taken for milliseconds. *)
TimedOutMs == timeout \div 1000 > 0 /\ Offline

(* CURLOPT_TIMEOUT: 0 is none, a negative number is not accepted. *)
TimedOut == timeout > 0 /\ Offline

-----------------------------------------------------------------------------
(* ncurses_init_gui(). *)
InitScreen ==
  /\ pc = "gui"
  /\ Acquire({"mainwin"}) /\ curses' = TRUE /\ GoTo("colors")
  /\ UNCHANGED <<given, test, config, net, err, table>>

InitScreenFails == FailAt("gui")

(* has_colors(), start_color(), can_change_color(), ncurses_init_colors(); *)
(* the size of the window.                                                 *)
InitColors ==
  /\ pc = "colors"
  /\ GoTo(IF test \/ firstTime THEN "test" ELSE "ifs")
  /\ UNCHANGED <<given, own, test, config, net, curses, err, table>>

(* Mutant: no error is set. *)
InitColorsFailsQuietly ==
  /\ pc = "colors" /\ Stop(EXIT_FAILURE)
  /\ UNCHANGED <<given, own, test, config, net, curses, err, table>>

InitColorsFails == FailAt("colors")

(* Any key leaves the colour test. *)
TestKey ==
  /\ pc = "test"
  /\ IF firstTime THEN GoTo("ifs") ELSE Stop(CNODE_EXECUTION_EXIT)
  /\ UNCHANGED <<given, own, test, config, net, curses, err, table>>

GetInterfaces ==
  /\ pc = "ifs" /\ Ifs!Next
  /\ \/ ret' \in {"start", "scan"} /\ GoTo("ifs")
     \/ ret' = "listed"  /\ GoTo("items")
     \/ ret' = "failed"  /\ Stop(EXIT_FAILURE)
     \/ ret' = "crashed" /\ GoTo("crashed")
  /\ UNCHANGED <<given, own, test, config, net, curses>>

-----------------------------------------------------------------------------
(* menu_init_all_menus(): the items of the configuration menu; then the    *)
(* names of the list, which the network menu shares with it.  An entry     *)
(* that reallocarray() cannot add is left out.                             *)
FormatFails ==
  /\ pc = "items" /\ Fail
  /\ own' = [own EXCEPT !["menu_config_items"] = "freed"]
  /\ UNCHANGED <<given, test, config, net, curses, table>>

NoNetrepoOption ==
  /\ pc = "items" /\ own["netrepo"] = "none"
  /\ Acquire({"menu_config_items"}) /\ GoTo("crashed")
  /\ UNCHANGED <<given, test, config, net, curses, err, table>>

InitMenus ==
  /\ pc = "items" /\ own["netrepo"] = "held"
  /\ err' \in IF own["network_info"] = "held" THEN {err, TRUE} ELSE {err}
  /\ \/ own["network_info"] = "held" /\ Acquire({"menu_config_items", "menu_entries"})
     \/ (own["network_info"] = "none" \/ err') /\ Acquire({"menu_config_items"})
  /\ GoTo("menu")
  /\ UNCHANGED <<given, test, config, net, curses, table>>

(* A network whose name strdup() could not copy, see NetList: the loop over *)
(* the list does not move on.                                              *)
LoadHangs ==
  /\ pc = "items" /\ own["netrepo"] = "held" /\ own["network_info"] = "held"
  /\ \E E \in SUBSET {"menu_entries"} : Acquire({"menu_config_items"} \cup E)
  /\ GoTo("hung")
  /\ UNCHANGED <<given, test, config, net, curses, err, table>>

(* Mutant: the names, which belong to the list, are freed as well. *)
LeaveMenusWithNames ==
  /\ pc = "menu"
  /\ Release({"menu_config_items", "menu_entries", "network_info"})
  /\ curses' \in BOOLEAN /\ err' \in {err, TRUE}
  /\ Stop(EXIT_SUCCESS)
  /\ UNCHANGED <<given, test, config, net, table>>

(* The result of menu_semaphore() is not used. *)
LeaveMenus ==
  /\ pc = "menu"
  /\ Release({"menu_config_items", "menu_entries"})
  /\ curses' \in BOOLEAN /\ err' \in {err, TRUE}
  /\ Stop(EXIT_SUCCESS)
  /\ UNCHANGED <<given, test, config, net, table>>

-----------------------------------------------------------------------------
(* Mutants: the window is only ended when a menu was up; the list is kept. *)
CleanupAfterMenu ==
  /\ pc = "cleanup" /\ GoTo("exited")
  /\ Release({"mainwin", "tincifnet", "netrepo", "network_info", "curl", "log_path"})
  /\ curses' = (curses /\ code # EXIT_SUCCESS)
  /\ UNCHANGED <<given, test, config, net, err, table>>
CleanupWithoutList ==
  /\ pc = "cleanup" /\ GoTo("exited")
  /\ Release({"mainwin", "tincifnet", "netrepo", "curl", "log_path"})
  /\ curses' = (curses /\ own["mainwin"] = "none")
  /\ UNCHANGED <<given, test, config, net, err, table>>

(* cnode_cleanup(): gui_killgui() when there is a window, and the frees; *)
(* the proxy string is not among them.                                     *)
Cleanup ==
  /\ pc = "cleanup" /\ GoTo("exited")
  /\ Release({"mainwin", "tincifnet", "netrepo", "network_info", "curl", "log_path"})
  /\ curses' = (curses /\ own["mainwin"] = "none")
  /\ UNCHANGED <<given, test, config, net, err, table>>

Program == \/ Help \/ NotRoot \/ SetLogPath \/ SetLogPathFails \/ ParseArgs
           \/ ReadConfig \/ ReadConfigFails \/ ReadLineFails \/ NoQuoteFaults
           \/ InitCurl \/ InitCurlFails
           \/ NoProxyOption \/ NoRequest \/ Request \/ TimedOut
           \/ InitScreen \/ InitScreenFails \/ InitColors \/ InitColorsFails
           \/ GetInterfaces
           \/ FormatFails \/ NoNetrepoOption \/ InitMenus \/ LoadHangs
           \/ Cleanup
Outside == Answered \/ Refused \/ TestKey \/ LeaveMenus

Next == Program \/ Outside

(* The program goes on; neither the repository nor the user need answer. *)
Spec     == Init /\ [][Next]_vars
FairSpec == Spec /\ WF_vars(Program)

-----------------------------------------------------------------------------
Stages == {"init", "args", "config", "curl", "nets", "wait", "gui", "colors",
           "test", "ifs", "items", "menu", "hung", "cleanup", "exited", "crashed"}

TypeOK ==
  /\ pc \in Stages /\ args \in Seq(Args) /\ root \in BOOLEAN
  /\ own \in [Resources -> {"none", "held", "freed", "twice"}]
  /\ test \in BOOLEAN /\ firstTime \in BOOLEAN /\ timeout \in Int
  /\ online \in BOOLEAN /\ n_networks \in 0 .. NetMax
  /\ curses \in BOOLEAN
  /\ code \in {EXIT_SUCCESS, EXIT_FAILURE, CNODE_EXECUTION_EXIT}
  /\ err \in BOOLEAN
  /\ Ifs!IfTypeOK

(* Nothing is freed twice on any path: what menu_init_all_menus() frees
   itself and what cnode_cleanup() frees do not meet, although the network
   menu and the network list share their names. *)
ReleasedOnce == \A r \in Resources : own[r] # "twice"

(* Whatever stage ended the run, the cleanup that all paths share has released
   what was acquired until then (README.md:71).  The exceptions come from
   config_readcfg(): the proxy string, the blocks of an old file's repeated
   lines, and the file itself when it could not be read to its end. *)
Released == Resources \ {"proxyaddr", "repeated", "config_fp"}
NothingKept ==
  pc = "exited" =>
    /\ \A r \in Released : own[r] # "held"
    /\ own["repeated"] = "held" => ~firstTime
    /\ own["config_fp"] = "held" => code = EXIT_FAILURE

(* The terminal is out of curses mode when main() returns, also when the set-up
   of the GUI stopped half way or the menus had left curses mode before. *)
TerminalGivenBack == pc = "exited" => ~curses

(* main() returns EXIT_FAILURE only with an error for cnode_cleanup() to
   report, and CNODE_EXECUTION_EXIT only to a user who asked for something
   that ends there. *)
ExitExplained ==
  pc = "exited" =>
    /\ code = EXIT_FAILURE => err
    /\ code = CNODE_EXECUTION_EXIT => Range(args) \ {"other"} # {}

(* "The only function that doesn't require root access is printing the help
   dialog" (cnode.c:322): for another user nothing is acquired or changed. *)
OnlyHelpWithoutRoot ==
  ~root => ~curses /\ \A r \in Resources : own[r] = "none"

(* A run that was asked to clean up or to create a UUID, in whichever place of
   the command line, touches neither configuration nor network nor screen. *)
AskedToExit ==
  {"--cleanup", "--genuuid"} \cap Range(args) # {} =>
    ~curses /\ \A r \in Resources \ {"log_path"} : own[r] = "none"

(* The table of interfaces is sound and its scan leaks a bounded number of
   descriptors, whichever calls fail (ifs.c). *)
InterfacesSound == Ifs!TableSound /\ Ifs!DescriptorsBounded

(* The start comes to the user or to its end, whatever the interfaces are; a
   repository that never answers holds it only without a timeout, and the list
   of networks only when one has no name. *)
StartEnds ==
  pc = "init" ~> \/ pc \in {"test", "menu", "exited", "crashed", "hung"}
                 \/ pc = "wait" /\ timeout <= 0

=============================================================================
