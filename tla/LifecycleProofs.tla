-------------------------- MODULE LifecycleProofs ---------------------------
(***************************************************************************)
(* Theorems of Lifecycle for every command line, timeout, number of        *)
(* networks and table of interfaces.                                       *)
(***************************************************************************)
EXTENDS Lifecycle, TLAPS

(* What menu_init_all_menus() frees itself. *)
MenuHeap == {"menu_config_items", "menu_entries"}

Fates == {"none", "held", "freed", "twice"}

(* Before the cleanup nothing but the menus' own memory has been freed, and *)
(* that only once the menus are left.                                      *)
FreedLate ==
  \A r \in Resources :
    /\ own[r] # "twice"
    /\ own[r] = "freed" => pc = "exited" \/ (pc = "cleanup" /\ r \in MenuHeap)

(* The menus' memory is there only while they are up. *)
MenuHeapInMenu ==
  \A r \in MenuHeap : own[r] = "held" => pc \in {"menu", "crashed", "hung"}

(* Curses mode comes with a window that cnode_cleanup() can find. *)
WindowInCurses ==
  /\ pc \in {"colors", "test", "ifs", "items", "menu"} => own["mainwin"] = "held"
  /\ curses => own["mainwin"] = "held" /\ pc # "exited"

(* What config_readcfg() leaves for nobody to free. *)
LeftByConfig ==
  /\ pc \in {"init", "args", "config"} =>
       own["repeated"] = "none" /\ own["config_fp"] = "none"
  /\ own["repeated"] = "held" => ~firstTime
  /\ own["config_fp"] = "held" =>
       pc = "crashed" \/ (pc \in {"cleanup", "exited"} /\ code = EXIT_FAILURE)

(* Neither invariant of the end is inductive alone: a stage that stops has to
   know that what the cleanup frees is not freed yet, and that what the cleanup
   does not free is not held any more. *)
ResInv ==
  /\ own \in [Resources -> Fates]
  /\ FreedLate /\ MenuHeapInMenu /\ WindowInCurses
  /\ pc = "exited" => \A r \in Released : own[r] # "held"

LEMMA ResInvInit == Init => ResInv /\ LeftByConfig
  BY DEF Init, ResInv, Fates, FreedLate, MenuHeapInMenu, WindowInCurses,
         Released, Resources, Options, MenuHeap, LeftByConfig

(* A stage of config_readcfg() acquires what only cnode_cleanup() frees, or *)
(* nobody.                                                                  *)
LEMMA LinesTaken ==
  ASSUME NEW R \in SUBSET {"config_fp"}, TakeLines(R)
  PROVE  \E S \in SUBSET (Options \cup {"repeated"}) :
           /\ Acquire(S \cup R)
           /\ "repeated" \in S => ~firstTime'
<1>1. PICK O \in SUBSET Options :
        IF firstTime' THEN Acquire(O \cup R)
        ELSE Acquire(O \cup R) \/ Acquire(O \cup R \cup {"repeated"})
  BY DEF TakeLines
<1>2. "repeated" \notin O
  BY DEF Options
<1>3. CASE Acquire(O \cup R)
  BY <1>2, <1>3
<1>4. CASE ~firstTime' /\ Acquire(O \cup R \cup {"repeated"})
  <2>1. O \cup R \cup {"repeated"} = (O \cup {"repeated"}) \cup R
    OBVIOUS
  <2>2. Acquire((O \cup {"repeated"}) \cup R)
    BY ONLY <1>4, <2>1
  <2> QED
    BY <1>4, <2>2
<1> QED
  BY <1>1, <1>3, <1>4

LEMMA ResInvNext == ResInv /\ [Next]_vars => ResInv'
<1> SUFFICES ASSUME ResInv, [Next]_vars PROVE ResInv'
  OBVIOUS
<1> USE DEF ResInv, Fates, FreedLate, MenuHeapInMenu, WindowInCurses,
            Released, Resources, Options, MenuHeap, GoTo, Stop
<1>1. CASE Help
  BY <1>1 DEF Help
<1>2. CASE NotRoot
  BY <1>2 DEF NotRoot, FailAt, Fail
<1>3. CASE SetLogPath
  BY <1>3 DEF SetLogPath, Acquire
<1>4. CASE SetLogPathFails
  BY <1>4 DEF SetLogPathFails, FailAt, Fail
<1>5. CASE ParseArgs
  BY <1>5 DEF ParseArgs
<1>6. CASE ReadConfig \/ ReadLineFails \/ NoQuoteFaults
  <2>1. /\ pc = "config" /\ pc' \in {"curl", "cleanup", "crashed"}
        /\ curses' = curses
    BY <1>6 DEF ReadConfig, ReadLineFails, NoQuoteFaults, Fail
  <2>2. PICK R \in SUBSET {"config_fp"} : TakeLines(R)
    BY <1>6, Zenon DEF ReadConfig, ReadLineFails, NoQuoteFaults
  <2>3. PICK S \in SUBSET (Options \cup {"repeated"}) : Acquire(S \cup R)
    BY <2>2, LinesTaken
  <2> QED
    BY <2>1, <2>3 DEF Acquire
<1>7. CASE ReadConfigFails
  BY <1>7 DEF ReadConfigFails, Fail
<1>8. CASE InitCurl
  BY <1>8 DEF InitCurl, Acquire
<1>9. CASE InitCurlFails
  BY <1>9 DEF InitCurlFails, FailAt, Fail
<1>10. CASE NoProxyOption
  BY <1>10 DEF NoProxyOption
<1>11. CASE NoRequest \/ Request
  BY <1>11 DEF NoRequest, Request
<1>12. CASE TimedOut \/ Refused
  <2>1. Offline
    BY <1>12, Zenon DEF TimedOut, Refused
  <2>2. pc = "wait" /\ pc' = "gui" /\ own' = own /\ curses' = curses
    BY ONLY <2>1, Zenon DEF Offline, GoTo
  <2> QED
    BY <2>2
<1>13. CASE InitScreen
  BY <1>13 DEF InitScreen, Acquire
<1>14. CASE InitScreenFails
  BY <1>14 DEF InitScreenFails, FailAt, Fail
<1>15. CASE InitColors
  BY <1>15 DEF InitColors
<1>16. CASE InitColorsFails
  BY <1>16 DEF InitColorsFails, FailAt, Fail
<1>17. CASE GetInterfaces
  BY <1>17 DEF GetInterfaces
<1>18. CASE FormatFails
  BY <1>18 DEF FormatFails, Fail
<1>19. CASE NoNetrepoOption
  BY <1>19 DEF NoNetrepoOption, Acquire
<1>20. CASE InitMenus
  BY <1>20 DEF InitMenus, Acquire
<1>21. CASE Cleanup
  BY <1>21 DEF Cleanup, Release
<1>22. CASE Answered
  BY <1>22 DEF Answered, Acquire
<1>23. CASE TestKey
  BY <1>23 DEF TestKey
<1>24. CASE LeaveMenus
  BY <1>24 DEF LeaveMenus, Release
<1>25. CASE LoadHangs
  <2>1. pc = "items" /\ pc' = "hung" /\ curses' = curses
    BY <1>25 DEF LoadHangs
  <2>2. PICK E \in SUBSET {"menu_entries"} : Acquire({"menu_config_items"} \cup E)
    BY <1>25 DEF LoadHangs
  <2> QED
    BY <2>1, <2>2 DEF Acquire
<1>26. CASE UNCHANGED vars
  BY <1>26 DEF vars
<1> QED
  BY <1>1, <1>2, <1>3, <1>4, <1>5, <1>6, <1>7, <1>8, <1>9, <1>10, <1>11,
     <1>12, <1>13, <1>14, <1>15, <1>16, <1>17, <1>18, <1>19, <1>20, <1>21,
     <1>22, <1>23, <1>24, <1>25, <1>26 DEF Next, Program, Outside

LEMMA ResInvAlways == Spec => []ResInv
  BY ResInvInit, ResInvNext, PTL DEF Spec

(* Only config_readcfg() acquires what it leaves behind, and nothing frees  *)
(* that again.                                                              *)
LEMMA LeftStep ==
  ASSUME ResInv, LeftByConfig, [Next]_vars
  PROVE  LeftByConfig'
<1> USE DEF LeftByConfig, GoTo, Stop, config, Resources, Options
<1>0. own \in [Resources -> Fates]
  BY DEF ResInv
<1>1. CASE Help \/ NotRoot \/ SetLogPathFails \/ ParseArgs
  BY <1>1 DEF Help, NotRoot, SetLogPathFails, ParseArgs, FailAt, Fail
<1>2. CASE SetLogPath \/ InitCurl \/ InitScreen
  BY <1>0, <1>2 DEF SetLogPath, InitCurl, InitScreen, Acquire
<1>3. CASE ReadConfigFails
  BY <1>3 DEF ReadConfigFails, Fail
<1>4. CASE ReadConfig
  <2>1. pc = "config" /\ pc' = "curl" /\ TakeLines({})
    BY <1>4 DEF ReadConfig
  <2>2. PICK S \in SUBSET (Options \cup {"repeated"}) :
          Acquire(S \cup {}) /\ ("repeated" \in S => ~firstTime')
    BY <2>1, LinesTaken
  <2> QED
    BY <1>0, <2>1, <2>2 DEF Acquire
<1>5. CASE ReadLineFails \/ NoQuoteFaults
  <2>1. /\ pc = "config" /\ TakeLines({"config_fp"})
        /\ pc' = "crashed" \/ (pc' = "cleanup" /\ code' = EXIT_FAILURE)
    BY <1>5 DEF ReadLineFails, NoQuoteFaults, Fail
  <2>2. PICK S \in SUBSET (Options \cup {"repeated"}) :
          Acquire(S \cup {"config_fp"}) /\ ("repeated" \in S => ~firstTime')
    BY <2>1, LinesTaken
  <2> QED
    BY <1>0, <2>1, <2>2 DEF Acquire
<1>6. CASE InitCurlFails \/ InitScreenFails \/ InitColorsFails
  BY <1>6 DEF InitCurlFails, InitScreenFails, InitColorsFails, FailAt, Fail
<1>7. CASE NoProxyOption \/ NoRequest \/ Request
  BY <1>7 DEF NoProxyOption, NoRequest, Request
<1>8. CASE TimedOut \/ Refused
  <2>1. pc = "wait" /\ pc' = "gui" /\ UNCHANGED <<own, firstTime>>
    BY ONLY <1>8 DEF TimedOut, Refused, Offline, GoTo, config
  <2> QED
    BY <2>1
<1>9. CASE Answered
  <2>1. pc = "wait" /\ pc' = "gui" /\ firstTime' = firstTime
    BY ONLY <1>9 DEF Answered, GoTo, config
  <2>2. own' = own \/ Acquire({"network_info"})
    BY ONLY <1>9 DEF Answered
  <2> QED
    BY <1>0, <2>1, <2>2 DEF Acquire
<1>10. CASE InitColors \/ TestKey
  BY <1>10 DEF InitColors, TestKey
<1>11. CASE GetInterfaces
  BY <1>11 DEF GetInterfaces
<1>12. CASE FormatFails \/ NoNetrepoOption \/ InitMenus
  <2>1. /\ pc = "items" /\ pc' \in {"cleanup", "crashed", "menu"}
        /\ firstTime' = firstTime
    BY <1>12 DEF FormatFails, NoNetrepoOption, InitMenus, Fail
  <2>2. own'["repeated"] = own["repeated"] /\ own'["config_fp"] = own["config_fp"]
    <3>1. CASE FormatFails
      BY ONLY <1>0, <3>1 DEF FormatFails, Resources, Options
    <3>2. CASE NoNetrepoOption \/ InitMenus
      BY ONLY <1>0, <3>2 DEF NoNetrepoOption, InitMenus, Acquire, Resources, Options
    <3> QED
      BY ONLY <1>12, <3>1, <3>2
  <2> QED
    BY <2>1, <2>2
<1>13. CASE LoadHangs
  <2>1. pc = "items" /\ pc' = "hung" /\ firstTime' = firstTime
    BY <1>13 DEF LoadHangs
  <2>2. PICK E \in SUBSET {"menu_entries"} : Acquire({"menu_config_items"} \cup E)
    BY <1>13 DEF LoadHangs
  <2> QED
    BY <1>0, <2>1, <2>2 DEF Acquire
<1>14. CASE LeaveMenus
  BY <1>0, <1>14 DEF LeaveMenus, Release
<1>15. CASE Cleanup
  BY <1>0, <1>15 DEF Cleanup, Release
<1>16. CASE UNCHANGED vars
  BY <1>16 DEF vars
<1> QED
  BY <1>1, <1>2, <1>3, <1>4, <1>5, <1>6, <1>7, <1>8, <1>9, <1>10, <1>11,
     <1>12, <1>13, <1>14, <1>15, <1>16 DEF Next, Program, Outside

(* Whichever stage ends a run, nothing is freed twice: the frees of the menus
   and those of cnode_cleanup() do not meet. *)
THEOREM FreedOnce == Spec => []ReleasedOnce
<1>1. ResInv => ReleasedOnce
  BY DEF ResInv, FreedLate, ReleasedOnce
<1> QED
  BY <1>1, ResInvAlways, PTL

(* Whichever stage ends a run, cnode_cleanup() leaves nothing held but the
   proxy string, the first of two blocks for one option of an old file, and,
   in a run that failed for it, the configuration file. *)
THEOREM CleanupComplete == Spec => []NothingKept
<1>1. ResInv /\ LeftByConfig => NothingKept
  BY DEF ResInv, LeftByConfig, NothingKept
<1> QED
  BY <1>1, ResInvAlways, ResInvInit, LeftStep, PTL DEF Spec

(* Whichever stage ends a run, the terminal is out of curses mode. *)
THEOREM TerminalReturned == Spec => []TerminalGivenBack
<1>1. ResInv => TerminalGivenBack
  BY DEF ResInv, WindowInCurses, TerminalGivenBack
<1> QED
  BY <1>1, ResInvAlways, PTL

-----------------------------------------------------------------------------
(* Without root, and with a request to exit, the run is over before the
   stages that acquire something. *)
Early(stages) ==
  pc \in stages \cup {"init", "cleanup", "exited"} /\ ~curses

RootInv ==
  ~root => Early({}) /\ \A r \in Resources : own[r] = "none"

ExitAsked == {"--cleanup", "--genuuid"} \cap Range(args) # {}

AskInv ==
  ExitAsked => Early({"args"}) /\ \A r \in Resources \ {"log_path"} : own[r] = "none"

LEMMA RootInvNext == RootInv /\ [Next]_vars => RootInv'
<1> SUFFICES ASSUME RootInv, [Next]_vars, ~root' PROVE RootInv'
  BY DEF RootInv
<1>1. root' = root
  BY DEF Next, Program, Outside, Help, NotRoot, SetLogPath, SetLogPathFails,
         ParseArgs, ReadConfig, ReadConfigFails, ReadLineFails,
         NoQuoteFaults, InitCurl, InitCurlFails,
         NoProxyOption, NoRequest, Request, TimedOut, Refused, Offline,
         InitScreen, InitScreenFails, InitColors, InitColorsFails,
         GetInterfaces, FormatFails, NoNetrepoOption, InitMenus, LoadHangs, Cleanup,
         Answered, TestKey, LeaveMenus, FailAt, given, vars
<1>2. /\ pc \in {"init", "cleanup", "exited"} /\ ~curses
      /\ \A r \in Resources : own[r] = "none"
  BY <1>1 DEF RootInv, Early
<1>3. CASE pc = "init"
  <2>1. Help \/ NotRoot \/ UNCHANGED vars
    BY <1>1, <1>3 DEF Next, Program, Outside, SetLogPath, SetLogPathFails,
         ParseArgs, ReadConfig, ReadConfigFails, ReadLineFails,
         NoQuoteFaults, InitCurl, InitCurlFails,
         NoProxyOption, NoRequest, Request, TimedOut, Refused, Offline,
         InitScreen, InitScreenFails, InitColors, InitColorsFails,
         GetInterfaces, FormatFails, NoNetrepoOption, InitMenus, LoadHangs, Cleanup,
         Answered, TestKey, LeaveMenus, FailAt
  <2>2. UNCHANGED <<own, curses>> /\ pc' \in {"init", "cleanup"}
    BY <1>3, <2>1 DEF Help, NotRoot, FailAt, Fail, Stop, vars
  <2> QED
    BY <1>2, <2>2 DEF RootInv, Early
<1>4. CASE pc \in {"cleanup", "exited"}
  <2>1. Cleanup \/ UNCHANGED vars
    BY <1>4 DEF Next, Program, Outside, Help, NotRoot, SetLogPath,
         SetLogPathFails, ParseArgs, ReadConfig, ReadConfigFails, ReadLineFails,
         NoQuoteFaults, InitCurl,
         InitCurlFails, NoProxyOption, NoRequest, Request, TimedOut, Refused,
         Offline, InitScreen, InitScreenFails, InitColors, InitColorsFails,
         GetInterfaces, FormatFails, NoNetrepoOption, InitMenus, LoadHangs, Answered,
         TestKey, LeaveMenus, FailAt
  <2>2. CASE Cleanup
    BY <1>2, <2>2 DEF Cleanup, Release, GoTo, RootInv, Early
  <2>3. CASE UNCHANGED vars
    BY <1>2, <2>3 DEF vars, RootInv, Early
  <2> QED
    BY <2>1, <2>2, <2>3
<1> QED
  BY <1>2, <1>3, <1>4

LEMMA AskInvNext == AskInv /\ [Next]_vars => AskInv'
<1> SUFFICES ASSUME AskInv, [Next]_vars, ExitAsked' PROVE AskInv'
  BY DEF AskInv
<1>1. args' = args
  BY DEF Next, Program, Outside, Help, NotRoot, SetLogPath, SetLogPathFails,
         ParseArgs, ReadConfig, ReadConfigFails, ReadLineFails,
         NoQuoteFaults, InitCurl, InitCurlFails,
         NoProxyOption, NoRequest, Request, TimedOut, Refused, Offline,
         InitScreen, InitScreenFails, InitColors, InitColorsFails,
         GetInterfaces, FormatFails, NoNetrepoOption, InitMenus, LoadHangs, Cleanup,
         Answered, TestKey, LeaveMenus, FailAt, given, vars
<1>2. ExitAsked
  BY <1>1 DEF ExitAsked
<1>3. /\ pc \in {"init", "args", "cleanup", "exited"} /\ ~curses
      /\ \A r \in Resources \ {"log_path"} : own[r] = "none"
  BY <1>2 DEF AskInv, Early
<1>4. Help \/ NotRoot \/ SetLogPath \/ SetLogPathFails \/ ParseArgs \/ Cleanup
      \/ UNCHANGED vars
  BY <1>3 DEF Next, Program, Outside, ReadConfig, ReadConfigFails, ReadLineFails,
         NoQuoteFaults, InitCurl,
         InitCurlFails, NoProxyOption, NoRequest, Request, TimedOut, Refused,
         Offline, InitScreen, InitScreenFails, InitColors, InitColorsFails,
         GetInterfaces, FormatFails, NoNetrepoOption, InitMenus, LoadHangs, Answered,
         TestKey, LeaveMenus, FailAt
<1>5. CASE Help \/ NotRoot \/ SetLogPathFails
  BY <1>3, <1>5 DEF Help, NotRoot, SetLogPathFails, FailAt, Fail, Stop, AskInv, Early
<1>6. CASE SetLogPath
  BY <1>3, <1>6 DEF SetLogPath, Acquire, GoTo, AskInv, Early
<1>7. CASE ParseArgs
  <2>1. pc' = "cleanup" /\ UNCHANGED <<own, curses>>
    BY <1>2, <1>7 DEF ParseArgs, Stop, ExitAsked
  <2> QED
    BY <1>3, <2>1 DEF AskInv, Early
<1>8. CASE Cleanup
  BY <1>3, <1>8 DEF Cleanup, Release, GoTo, AskInv, Early
<1>9. CASE UNCHANGED vars
  BY <1>3, <1>9 DEF vars, AskInv, Early
<1> QED
  BY <1>4, <1>5, <1>6, <1>7, <1>8, <1>9

(* A user without root gets the help and nothing else, in every run
   (cnode_init_instance()). *)
THEOREM RootRequired == Spec => []OnlyHelpWithoutRoot
<1>1. Init => RootInv
  BY DEF Init, RootInv, Early
<1>2. RootInv => OnlyHelpWithoutRoot
  BY DEF RootInv, Early, OnlyHelpWithoutRoot
<1> QED
  BY <1>1, <1>2, RootInvNext, PTL DEF Spec

(* A user who asked for something that ends there gets no further than the
   log path, with command lines of any length (cnode_parse_sargs()). *)
THEOREM RequestsHonoured == Spec => []AskedToExit
<1>1. Init => AskInv
  BY DEF Init, AskInv, Early
<1>2. AskInv => AskedToExit
  BY DEF AskInv, Early, ExitAsked, AskedToExit
<1> QED
  BY <1>1, <1>2, AskInvNext, PTL DEF Spec

-----------------------------------------------------------------------------
(* The colour test is up only for a user who asked for it or on a first
   launch, and whoever stops says why. *)
ReasonInv ==
  /\ args \in ArgLists
  /\ test => "--testcolor" \in Range(args)
  /\ pc = "test" => test \/ firstTime
  /\ pc \in {"cleanup", "exited"} =>
       /\ code = EXIT_FAILURE => err
       /\ code = CNODE_EXECUTION_EXIT => Range(args) \ {"other"} # {}

LEMMA HelpIsAnArgument ==
  ASSUME args \in ArgLists, AsksHelp PROVE "--help" \in Range(args)
<1>1. args \in Seq(Args) /\ args # <<>>
  BY ArgListsAssumption DEF AsksHelp
<1>2. 1 \in DOMAIN args
  BY <1>1
<1> QED
  BY <1>2 DEF AsksHelp, Range

LEMMA ReasonInvNext == ReasonInv /\ [Next]_vars => ReasonInv'
<1> SUFFICES ASSUME ReasonInv, [Next]_vars PROVE ReasonInv'
  OBVIOUS
<1> USE DEF ReasonInv, GoTo, Stop, given, config,
            EXIT_SUCCESS, EXIT_FAILURE, CNODE_EXECUTION_EXIT
<1>1. CASE Help
  BY <1>1, HelpIsAnArgument DEF Help
<1>2. CASE NotRoot \/ SetLogPathFails
  BY <1>2 DEF NotRoot, SetLogPathFails, FailAt, Fail
<1>3. CASE SetLogPath \/ InitCurl \/ NoProxyOption \/ NoRequest \/ Request
  BY <1>3 DEF SetLogPath, InitCurl, NoProxyOption, NoRequest, Request
<1>4. CASE ParseArgs
  <2>1. args' = args
    BY <1>4 DEF ParseArgs
  <2>2. test' = ("--testcolor" \in Range(args))
    BY ONLY <1>4 DEF ParseArgs
  <2>3. \/ pc' = "config"
        \/ /\ pc' = "cleanup" /\ code' = CNODE_EXECUTION_EXIT
           /\ {"--cleanup", "--genuuid"} \cap Range(args) # {}
    BY <1>4 DEF ParseArgs
  <2>4. pc' = "cleanup" => /\ code' = CNODE_EXECUTION_EXIT
                           /\ Range(args) \ {"other"} # {}
    BY <2>3
  <2>5. pc' \notin {"test", "exited"}
    BY <2>3
  <2>6. test' => "--testcolor" \in Range(args)'
    BY ONLY <2>1, <2>2, Zenon
  <2> QED
    BY <2>1, <2>4, <2>5, <2>6
<1>5. CASE ReadConfig \/ NoQuoteFaults
  <2>1. pc' \in {"curl", "crashed"} /\ UNCHANGED <<args, test>>
    BY ONLY <1>5 DEF ReadConfig, NoQuoteFaults, GoTo, given
  <2> QED
    BY <2>1
<1>6. CASE ReadConfigFails \/ ReadLineFails
  <2>1. pc' = "cleanup" /\ code' = EXIT_FAILURE /\ err' /\ UNCHANGED <<args, test>>
    BY ONLY <1>6 DEF ReadConfigFails, ReadLineFails, Fail, Stop, given
  <2> QED
    BY <2>1
<1>7. CASE InitCurlFails \/ InitScreenFails \/ InitColorsFails
  BY <1>7 DEF InitCurlFails, InitScreenFails, InitColorsFails, FailAt, Fail
<1>8. CASE TimedOut \/ Refused \/ Answered
  <2>1. pc' = "gui"
    BY ONLY <1>8 DEF TimedOut, Refused, Offline, Answered
  <2>2. UNCHANGED <<args, test>>
    BY ONLY <1>8 DEF TimedOut, Refused, Offline, Answered, given
  <2> QED
    BY <2>1, <2>2
<1>9. CASE InitScreen \/ NoNetrepoOption \/ InitMenus \/ LoadHangs
  <2>1. pc' \in {"colors", "crashed", "menu", "hung"}
    BY ONLY <1>9 DEF InitScreen, NoNetrepoOption, InitMenus, LoadHangs
  <2>2. UNCHANGED <<args, test>>
    BY ONLY <1>9 DEF InitScreen, NoNetrepoOption, InitMenus, LoadHangs, given
  <2> QED
    BY <2>1, <2>2
<1>10. CASE InitColors
  BY <1>10 DEF InitColors
<1>11. CASE TestKey
  BY <1>11 DEF TestKey
<1>12. CASE GetInterfaces
  <2>1. ret' = "failed" => err'
    BY <1>12 DEF GetInterfaces, Ifs!Next, Ifs!Enumerate, Ifs!EnumerateFails,
                 Ifs!List, Ifs!Skip, Ifs!Vanished, Ifs!Return, Ifs!Turn
  <2> QED
    BY <1>12, <2>1 DEF GetInterfaces
<1>13. CASE FormatFails
  BY <1>13 DEF FormatFails, Fail
<1>14. CASE LeaveMenus
  BY <1>14 DEF LeaveMenus
<1>15. CASE Cleanup
  BY <1>15 DEF Cleanup
<1>16. CASE UNCHANGED vars
  BY <1>16 DEF vars
<1> QED
  BY <1>1, <1>2, <1>3, <1>4, <1>5, <1>6, <1>7, <1>8, <1>9, <1>10, <1>11,
     <1>12, <1>13, <1>14, <1>15, <1>16 DEF Next, Program, Outside

(* The result of main() is explained in every run: a failure by an error that
   was set, wherever it happened, an early exit by a parameter. *)
THEOREM ResultExplained == Spec => []ExitExplained
<1>1. Init => ReasonInv
  BY DEF Init, ReasonInv
<1>2. ReasonInv => ExitExplained
  BY DEF ReasonInv, ExitExplained
<1> QED
  BY <1>1, <1>2, ReasonInvNext, PTL DEF Spec

-----------------------------------------------------------------------------
(* In the table each entry is an interface the scan has passed; a turn leaves
   at most two sockets open, and there are not more turns than entries. *)
TableInv ==
  /\ sys \in Seq(BOOLEAN) /\ i \in 0 .. NET_IFNET_NMAX
  /\ at \in Nat /\ at > 0 /\ fds \in Nat
  /\ listed \in Seq(Nat)
  /\ \A k \in DOMAIN listed : listed[k] < at /\ sys[listed[k]]
  /\ \A k, l \in DOMAIN listed : listed[k] = listed[l] => k = l
  /\ ret = "start" => listed = <<>>
  /\ fds <= 2 * i \/ (ret = "crashed" /\ fds <= 2 * i + 1 /\ i < NET_IFNET_NMAX)

(* Only one stage touches the table. *)
LEMMA ScanOrNot == [Next]_vars => Ifs!Next \/ UNCHANGED table
  BY DEF Next, Program, Outside, Help, NotRoot, SetLogPath, SetLogPathFails,
         ParseArgs, ReadConfig, ReadConfigFails, ReadLineFails,
         NoQuoteFaults, InitCurl, InitCurlFails,
         NoProxyOption, NoRequest, Request, TimedOut, Refused, Offline,
         InitScreen, InitScreenFails, InitColors, InitColorsFails,
         GetInterfaces, FormatFails, NoNetrepoOption, InitMenus, LoadHangs, Cleanup,
         Answered, TestKey, LeaveMenus, FailAt, vars

LEMMA TableInvNext == TableInv /\ [Next]_vars => TableInv'
<1> SUFFICES ASSUME TableInv, [Next]_vars PROVE TableInv'
  OBVIOUS
<1>1. Ifs!Next \/ UNCHANGED table
  BY ScanOrNot
<1>2. CASE Ifs!Enumerate
  <2>1. sys' \in Seq(BOOLEAN)
    BY <1>2, IfListsAssumption DEF Ifs!Enumerate
  <2>2. ret = "start" /\ ret' = "scan" /\ UNCHANGED <<i, at, listed, fds>>
    BY <1>2 DEF Ifs!Enumerate
  <2>3. DOMAIN listed = {}
    BY <2>2 DEF TableInv
  <2> QED
    BY <2>1, <2>2, <2>3 DEF TableInv
<1>3. CASE Ifs!EnumerateFails
  <2>1. UNCHANGED <<sys, i, at, listed, fds>> /\ ret = "start" /\ ret' = "failed"
    BY <1>3 DEF Ifs!EnumerateFails
  <2> QED
    BY <2>1 DEF TableInv
<1>4. CASE Ifs!List
  <2>1. /\ ret = "scan" /\ i < NET_IFNET_NMAX /\ "address" \in Ifs!Answers
        /\ listed' = Append(listed, at) /\ at' = at + 1 /\ i' = i + 1
        /\ UNCHANGED <<ret, sys, fds>>
    BY <1>4 DEF Ifs!List, Ifs!Turn
  <2>2. sys[at]
    BY <2>1 DEF Ifs!Answers
  <2>3. /\ listed \in Seq(Nat) /\ at \in Nat /\ i \in 0 .. NET_IFNET_NMAX
        /\ fds \in Nat
    BY DEF TableInv
  <2>4. /\ DOMAIN listed' = 1 .. Len(listed) + 1
        /\ DOMAIN listed = 1 .. Len(listed) /\ Len(listed) \in Nat
        /\ listed'[Len(listed) + 1] = at
        /\ \A k \in 1 .. Len(listed) : listed'[k] = listed[k]
        /\ listed' \in Seq(Nat)
    BY <2>1, <2>3
  <2>5. \A k \in DOMAIN listed' : listed'[k] < at'
    BY <2>1, <2>3, <2>4 DEF TableInv
  <2>6. \A k \in DOMAIN listed' : sys'[listed'[k]]
    <3> SUFFICES ASSUME NEW k \in DOMAIN listed' PROVE sys'[listed'[k]]
      OBVIOUS
    <3>1. CASE k \in DOMAIN listed
      <4>1. listed'[k] = listed[k]
        BY <2>4, <3>1
      <4>2. sys[listed[k]]
        BY <3>1 DEF TableInv
      <4> QED
        BY <2>1, <4>1, <4>2
    <3>2. CASE k = Len(listed) + 1
      BY <2>1, <2>2, <2>4, <3>2
    <3> QED
      BY <2>4, <3>1, <3>2
  <2>7. \A k, l \in DOMAIN listed' : listed'[k] = listed'[l] => k = l
    <3>1. \A k \in 1 .. Len(listed) : listed'[k] < at
      BY <2>4 DEF TableInv
    <3>2. \A k \in 1 .. Len(listed) : listed'[k] \in Nat
      BY <2>3, <2>4
    <3> QED
      BY <2>3, <2>4, <3>1, <3>2 DEF TableInv
  <2> QED
    BY <2>1, <2>3, <2>4, <2>5, <2>6, <2>7, IfNMaxAssumption DEF TableInv
<1>5. CASE Ifs!Skip
  <2>1. PICK addr, mask \in Ifs!Answers :
          fds' = fds + Ifs!Leaked(addr) + Ifs!Leaked(mask)
    BY <1>5 DEF Ifs!Skip
  <2>2. Ifs!Leaked(addr) \in {0, 1} /\ Ifs!Leaked(mask) \in {0, 1}
    BY DEF Ifs!Leaked
  <2>3. /\ ret = "scan" /\ i < NET_IFNET_NMAX /\ i' = i + 1
        /\ UNCHANGED <<ret, sys, at, listed>>
    BY <1>5 DEF Ifs!Skip, Ifs!Turn
  <2>4. i \in 0 .. NET_IFNET_NMAX /\ fds \in Nat /\ fds <= 2 * i
    BY <2>3 DEF TableInv
  <2>5. i' \in 0 .. NET_IFNET_NMAX /\ fds' \in Nat /\ fds' <= 2 * i'
    BY <2>1, <2>2, <2>3, <2>4, IfNMaxAssumption
  <2> QED
    BY <2>3, <2>5 DEF TableInv
<1>6. CASE Ifs!Vanished
  <2>1. PICK again \in Ifs!Answers : fds' = fds + Ifs!Leaked(again)
    BY <1>6 DEF Ifs!Vanished
  <2>2. Ifs!Leaked(again) \in {0, 1}
    BY DEF Ifs!Leaked
  <2>3. /\ ret = "scan" /\ ret' = "crashed" /\ i < NET_IFNET_NMAX
        /\ UNCHANGED <<sys, i, at, listed>>
    BY <1>6 DEF Ifs!Vanished, Ifs!Turn
  <2>4. i \in 0 .. NET_IFNET_NMAX /\ fds \in Nat /\ fds <= 2 * i
    BY <2>3 DEF TableInv
  <2>5. fds' \in Nat /\ fds' <= 2 * i' + 1
    BY <2>1, <2>2, <2>3, <2>4, IfNMaxAssumption
  <2> QED
    BY <2>3, <2>5 DEF TableInv
<1>7. CASE Ifs!Return
  <2>1. UNCHANGED <<sys, i, at, listed, fds>> /\ ret = "scan" /\ ret' = "listed"
    BY <1>7 DEF Ifs!Return
  <2> QED
    BY <2>1 DEF TableInv
<1>8. CASE UNCHANGED table
  BY <1>8 DEF table, TableInv
<1> QED
  BY <1>1, <1>2, <1>3, <1>4, <1>5, <1>6, <1>7, <1>8 DEF Ifs!Next

(* The table of interfaces is sound for every list of interfaces and every size
   of the table, and the descriptors lost are bounded by twice that size. *)
THEOREM TableCorrect == Spec => []InterfacesSound
<1>1. Init => TableInv
  <2> SUFFICES ASSUME Init PROVE TableInv
    OBVIOUS
  <2>1. ret = "start" /\ sys = <<>> /\ i = 0 /\ at = 1 /\ listed = <<>> /\ fds = 0
    BY DEF Init, Ifs!IfInit
  <2>2. sys \in Seq(BOOLEAN) /\ listed \in Seq(Nat) /\ DOMAIN listed = {}
    BY <2>1
  <2> QED
    BY <2>1, <2>2, IfNMaxAssumption DEF TableInv
<1>2. TableInv => InterfacesSound
  <2> SUFFICES ASSUME TableInv PROVE InterfacesSound
    OBVIOUS
  <2>1. Ifs!TableSound
    BY DEF TableInv, Ifs!TableSound
  <2>2. Ifs!DescriptorsBounded
    BY IfNMaxAssumption DEF TableInv, Ifs!DescriptorsBounded
  <2> QED
    BY <2>1, <2>2 DEF InterfacesSound
<1> QED
  BY <1>1, <1>2, TableInvNext, PTL DEF Spec

-----------------------------------------------------------------------------
(* The types: those of the run, and those of the scan, which needs that the
   list of interfaces is looked up before the scan begins. *)
RunTypes ==
  /\ pc \in Stages /\ args \in Seq(Args) /\ root \in BOOLEAN
  /\ own \in [Resources -> Fates]
  /\ test \in BOOLEAN /\ firstTime \in BOOLEAN /\ timeout \in Int
  /\ online \in BOOLEAN /\ n_networks \in 0 .. NetMax
  /\ curses \in BOOLEAN
  /\ code \in {EXIT_SUCCESS, EXIT_FAILURE, CNODE_EXECUTION_EXIT}
  /\ err \in BOOLEAN

ScanTypes ==
  /\ Ifs!IfTypeOK
  /\ ret = "start" => listed = <<>> /\ at = 1

LEMMA AcquireType ==
  ASSUME own \in [Resources -> Fates], NEW R, Acquire(R)
  PROVE  own' \in [Resources -> Fates]
  BY DEF Acquire, Fates

LEMMA ReleaseType ==
  ASSUME own \in [Resources -> Fates], NEW R, Release(R)
  PROVE  own' \in [Resources -> Fates]
  BY DEF Release, Fates

LEMMA RunTypesNext == RunTypes /\ [Next]_vars => RunTypes'
<1> SUFFICES ASSUME RunTypes, [Next]_vars PROVE RunTypes'
  OBVIOUS
<1> USE DEF RunTypes, Stages, GoTo, Stop, Fail, FailAt, given, config, net
<1>1. CASE Help
  BY <1>1 DEF Help
<1>2. CASE NotRoot \/ SetLogPathFails \/ InitCurlFails \/ InitScreenFails
           \/ InitColorsFails
  BY <1>2 DEF NotRoot, SetLogPathFails, InitCurlFails, InitScreenFails,
              InitColorsFails
<1>3. CASE SetLogPath
  BY <1>3, AcquireType DEF SetLogPath
<1>4. CASE ParseArgs
  <2>1. test' \in BOOLEAN
    <3>1. test' = ("--testcolor" \in Range(args))
      BY ONLY <1>4 DEF ParseArgs
    <3>2. CASE "--testcolor" \in Range(args)
      BY ONLY <3>1, <3>2
    <3>3. CASE "--testcolor" \notin Range(args)
      BY ONLY <3>1, <3>3
    <3> QED
      BY ONLY <3>2, <3>3
  <2>2. pc' \in {"cleanup", "config"} /\ code' \in {code, CNODE_EXECUTION_EXIT}
    BY ONLY <1>4 DEF ParseArgs, GoTo, Stop
  <2>3. err' \in {err, TRUE}
    BY ONLY <1>4 DEF ParseArgs
  <2>4. UNCHANGED <<args, root, own, firstTime, timeout, online, n_networks, curses>>
    BY ONLY <1>4 DEF ParseArgs, given, config, net
  <2> QED
    BY <2>1, <2>2, <2>3, <2>4
<1>5. CASE ReadConfig \/ ReadLineFails \/ NoQuoteFaults
  <2>1. PICK R \in SUBSET {"config_fp"} : TakeLines(R)
    BY <1>5, Zenon DEF ReadConfig, ReadLineFails, NoQuoteFaults
  <2>2. own' \in [Resources -> Fates]
    <3>1. PICK S \in SUBSET (Options \cup {"repeated"}) : Acquire(S \cup R)
      BY <2>1, LinesTaken
    <3> QED
      BY <3>1, AcquireType
  <2>3. timeout' \in Int /\ firstTime' \in BOOLEAN
    <3>1. firstTime' \in BOOLEAN
      BY ONLY <2>1 DEF TakeLines
    <3>2. timeout' \in {0, 15} \/ timeout' \in Timeouts \cup {0}
      BY ONLY <2>1, Zenon DEF TakeLines
    <3>3. timeout' \in Int
      <4>1. CASE timeout' \in {0, 15}
        BY ONLY <4>1
      <4>2. CASE timeout' \in Timeouts
        BY ONLY <4>2, TimeoutsAssumption
      <4> QED
        BY <3>2, <4>1, <4>2
    <3> QED
      BY ONLY <3>1, <3>3, Zenon
  <2>4. /\ pc' \in {"curl", "cleanup", "crashed"} /\ code' \in {code, EXIT_FAILURE}
        /\ err' \in {err, TRUE}
        /\ UNCHANGED <<args, root, test, online, n_networks, curses>>
    BY ONLY <1>5 DEF ReadConfig, ReadLineFails, NoQuoteFaults, Fail, GoTo, Stop,
                     given, net
  <2> QED
    BY <2>2, <2>3, <2>4
<1>6. CASE ReadConfigFails
  BY <1>6 DEF ReadConfigFails
<1>7. CASE InitCurl
  BY <1>7, AcquireType DEF InitCurl
<1>8. CASE NoProxyOption \/ NoRequest \/ Request
  BY <1>8 DEF NoProxyOption, NoRequest, Request
<1>9. CASE TimedOut \/ Refused
  <2>1. Offline
    BY <1>9, Zenon DEF TimedOut, Refused
  <2>2. pc' = "gui" /\ n_networks' = 0 /\ online' \in BOOLEAN
    BY ONLY <2>1 DEF Offline, GoTo
  <2>3. err' \in BOOLEAN
    BY <2>1 DEF Offline
  <2>4. UNCHANGED <<args, root, own, test, firstTime, timeout, curses, code>>
    BY ONLY <2>1 DEF Offline, GoTo, given, config
  <2> QED
    BY <2>2, <2>3, <2>4, NetMaxAssumption
<1>10. CASE Answered
  <2>1. own' \in [Resources -> Fates]
    BY <1>10, AcquireType DEF Answered
  <2> QED
    BY <1>10, <2>1 DEF Answered
<1>11. CASE InitScreen
  BY <1>11, AcquireType DEF InitScreen
<1>12. CASE InitColors
  BY <1>12 DEF InitColors
<1>13. CASE TestKey
  BY <1>13 DEF TestKey
<1>14. CASE GetInterfaces
  <2>1. err' \in {err, TRUE}
    BY <1>14 DEF GetInterfaces, Ifs!Next, Ifs!Enumerate, Ifs!EnumerateFails,
                 Ifs!List, Ifs!Skip, Ifs!Vanished, Ifs!Return
  <2> QED
    BY <1>14, <2>1 DEF GetInterfaces
<1>15. CASE FormatFails
  BY <1>15 DEF FormatFails, Fates
<1>16. CASE NoNetrepoOption
  BY <1>16, AcquireType DEF NoNetrepoOption
<1>17. CASE InitMenus
  <2>1. own' \in [Resources -> Fates]
    BY <1>17, AcquireType DEF InitMenus
  <2> QED
    BY <1>17, <2>1 DEF InitMenus
<1>18. CASE LoadHangs
  <2>1. own' \in [Resources -> Fates]
    BY <1>18, AcquireType DEF LoadHangs
  <2> QED
    BY <1>18, <2>1 DEF LoadHangs
<1>19. CASE LeaveMenus
  BY <1>19, ReleaseType DEF LeaveMenus
<1>20. CASE Cleanup
  <2>1. own' \in [Resources -> Fates]
    BY <1>20, ReleaseType DEF Cleanup
  <2>2. curses' \in BOOLEAN
    <3>1. curses' = (curses /\ own["mainwin"] = "none")
      BY ONLY <1>20 DEF Cleanup
    <3> QED
      BY ONLY <3>1, Zenon
  <2>3. pc' = "exited"
    BY ONLY <1>20 DEF Cleanup, GoTo
  <2>4. UNCHANGED <<args, root, test, firstTime, timeout, online, n_networks, code, err>>
    BY ONLY <1>20 DEF Cleanup, GoTo, given, config, net
  <2> QED
    BY <2>1, <2>2, <2>3, <2>4
<1>21. CASE UNCHANGED vars
  BY <1>21 DEF vars
<1> QED
  BY <1>1, <1>2, <1>3, <1>4, <1>5, <1>6, <1>7, <1>8, <1>9, <1>10, <1>11,
     <1>12, <1>13, <1>14, <1>15, <1>16, <1>17, <1>18, <1>19, <1>20, <1>21
  DEF Next, Program, Outside

LEMMA ScanTypesNext == ScanTypes /\ [Next]_vars => ScanTypes'
<1> SUFFICES ASSUME ScanTypes, [Next]_vars PROVE ScanTypes'
  OBVIOUS
<1>1. Ifs!Next \/ UNCHANGED table
  BY ScanOrNot
<1> USE DEF ScanTypes, Ifs!IfTypeOK
<1>2. CASE Ifs!Enumerate
  <2>1. sys' \in Seq(BOOLEAN)
    BY <1>2, IfListsAssumption DEF Ifs!Enumerate
  <2>2. ret = "start" /\ ret' = "scan" /\ UNCHANGED <<i, at, listed, fds>>
    BY <1>2 DEF Ifs!Enumerate
  <2> QED
    BY <2>1, <2>2
<1>3. CASE Ifs!EnumerateFails
  BY <1>3 DEF Ifs!EnumerateFails
<1>4. CASE Ifs!List
  BY <1>4, IfNMaxAssumption DEF Ifs!List, Ifs!Turn
<1>5. CASE Ifs!Skip
  <2>1. PICK addr, mask \in Ifs!Answers :
          fds' = fds + Ifs!Leaked(addr) + Ifs!Leaked(mask)
    BY <1>5 DEF Ifs!Skip
  <2>2. Ifs!Leaked(addr) \in {0, 1} /\ Ifs!Leaked(mask) \in {0, 1}
    BY DEF Ifs!Leaked
  <2> QED
    BY <1>5, <2>1, <2>2, IfNMaxAssumption DEF Ifs!Skip, Ifs!Turn
<1>6. CASE Ifs!Vanished
  <2>1. PICK again \in Ifs!Answers : fds' = fds + Ifs!Leaked(again)
    BY <1>6 DEF Ifs!Vanished
  <2>2. Ifs!Leaked(again) \in {0, 1}
    BY DEF Ifs!Leaked
  <2> QED
    BY <1>6, <2>1, <2>2 DEF Ifs!Vanished, Ifs!Turn
<1>7. CASE Ifs!Return
  BY <1>7 DEF Ifs!Return
<1>8. CASE UNCHANGED table
  BY <1>8 DEF table
<1> QED
  BY <1>1, <1>2, <1>3, <1>4, <1>5, <1>6, <1>7, <1>8 DEF Ifs!Next

(* The variables of a run keep their types, for all parameters, options,
   networks and interfaces. *)
THEOREM TypeCorrect == Spec => []TypeOK
<1>1. Init => RunTypes /\ ScanTypes
  <2> SUFFICES ASSUME Init PROVE RunTypes /\ ScanTypes
    OBVIOUS
  <2>1. RunTypes
    <3>1. own \in [Resources -> Fates]
      BY DEF Init, Fates
    <3>2. /\ pc = "init" /\ args \in Seq(Args) /\ root \in BOOLEAN
          /\ timeout = 0 /\ n_networks = 0 /\ code = EXIT_SUCCESS
      BY ArgListsAssumption DEF Init
    <3>3. {test, firstTime, online, curses, err} \subseteq BOOLEAN
      BY DEF Init
    <3> QED
      BY <3>1, <3>2, <3>3, NetMaxAssumption DEF RunTypes, Stages
  <2>2. ret = "start" /\ sys = <<>> /\ i = 0 /\ at = 1 /\ listed = <<>> /\ fds = 0
    BY DEF Init, Ifs!IfInit
  <2>3. ScanTypes
    BY <2>2, IfNMaxAssumption DEF ScanTypes, Ifs!IfTypeOK
  <2> QED
    BY <2>1, <2>3
<1>2. RunTypes /\ ScanTypes => TypeOK
  BY DEF RunTypes, ScanTypes, TypeOK, Fates
<1> QED
  BY <1>1, <1>2, RunTypesNext, ScanTypesNext, PTL DEF Spec
=============================================================================
