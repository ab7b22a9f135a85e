-------------------------------- MODULE Menu --------------------------------
(***************************************************************************)
(* The menus of Central Node (gui/menu.c): menu_semaphore() loads one menu *)
(* after another, menu_loadmenu() sets one up, runs its key loop and tears *)
(* it down, menu_execoption() does what the highlighted item says; then    *)
(* cnode_cleanup() ends the session.                                       *)
(*                                                                         *)
(* A menu changes the terminal while it is up: two colours are redefined   *)
(* (gui/cursesctl.c), echo and the cursor are off, items and an ncurses    *)
(* menu are allocated.  Any of the calls in Failing may fail.  Of ncurses  *)
(* the module has what menu.c relies on: an item that belongs to a menu    *)
(* and a posted menu cannot be freed, and a refresh after endwin() returns *)
(* to curses mode.                                                         *)
(***************************************************************************)
EXTENDS Integers

CONSTANTS
  NetCounts,  \* how many networks the repository may list
  Failing     \* the calls that may fail, a subset of Calls

Calls == {"color_content", "swap_white", "swap_black", "calloc", "new_menu",
          "newwin", "set_menu", "post_menu", "restore", "wgetch",
          "new_item", "item_index"}

ASSUME NetCountsAssumption == NetCounts \subseteq Nat
ASSUME FailingAssumption   == Failing \subseteq Calls

(* Menu ids, in the order of menu.h, and where a menu may lead. *)
MAIN == 0
NETWORKS == 1
NODEWDCTL == 2
CONFIGCTL == 3
TINCDCTL == 4
MENU_EXIT == 256
MENU_ERROR == 257

Menus == MAIN .. TINCDCTL
prev_mid == MAIN      \* of every menu

Colors == {"WHITE", "BLACK"}

VARIABLES
  status,    \* nodecfg.netrepo_status
  nnet,      \* entries of the network menu
  wsl,       \* nodecfg.is_sys_wsl
  pc,        \* where the program is
  cur,       \* the menu menu_loadmenu() was called for
  next_menu, \* its semaphore.next_menu
  item,      \* the highlighted item
  color,     \* "terminal" or "menu": who defined the colour
  saved,     \* the backups of menu_loadmenu()
  skewed,    \* history: redefining a colour back failed, or was not tried
  echo, cursor, curses,  \* terminal modes
  items,     \* the items of a menu are allocated
  shown,     \* how many of them new_menu() connected
  menu,      \* "none", "made" or "posted"
  err        \* nodecfg.exit_status is EXIT_FAILURE

env      == <<status, nnet, wsl>>
palette  == <<color, saved, skewed>>
modes    == <<echo, cursor>>
alloc    == <<items, shown, menu>>
terminal == <<palette, modes, curses, alloc>>
vars     == <<env, pc, cur, next_menu, item, terminal, err>>

nentries(m) == CASE m = MAIN -> 8 [] m = NETWORKS -> nnet
                 [] m = NODEWDCTL -> 6 [] m = CONFIGCTL -> 11 [] OTHER -> 4

Init ==
  /\ status \in BOOLEAN /\ wsl \in BOOLEAN
  /\ nnet \in IF status THEN NetCounts ELSE {0}
  /\ pc = "load" /\ cur = MAIN /\ next_menu = MAIN /\ item = 0
  /\ color = [c \in Colors |-> "terminal"]
  /\ saved = color /\ skewed = FALSE
  /\ echo = TRUE /\ cursor = TRUE /\ curses = TRUE
  /\ items = FALSE /\ shown = 0 /\ menu = "none"
  /\ err = FALSE

-----------------------------------------------------------------------------
(* Mutant: next_menu is not set. *)
LoadEmptyAgain ==
  /\ pc = "load" /\ nentries(cur) = 0
  /\ pc' = "switch"
  /\ UNCHANGED <<env, cur, next_menu, item, terminal, err>>

(* menu_loadmenu(): a menu without items is left at once. *)
LoadEmpty ==
  /\ pc = "load" /\ nentries(cur) = 0
  /\ next_menu' = prev_mid /\ pc' = "switch"
  /\ UNCHANGED <<env, cur, item, terminal, err>>

(* An early return, before anything of the menu is set up. *)
GiveUp == /\ next_menu' = MENU_ERROR /\ err' = TRUE
          /\ pc' = "switch"
          /\ UNCHANGED <<env, cur, item, terminal>>

(* ncurses_swap_color(): back up a colour, then redefine it. *)
Swap(c) == /\ saved' = [saved EXCEPT ![c] = color[c]]
           /\ color' = [color EXCEPT ![c] = "menu"]
           /\ UNCHANGED skewed

SwapWhite ==
  /\ pc = "load" /\ nentries(cur) > 0
  /\ Swap("WHITE") /\ pc' = "black"
  /\ UNCHANGED <<env, cur, next_menu, item, modes, curses, alloc, err>>

SwapWhiteFails ==
  /\ pc = "load" /\ nentries(cur) > 0
  /\ Failing \cap {"color_content", "swap_white"} # {}
  /\ GiveUp

SwapBlack ==
  /\ pc = "black"
  /\ Swap("BLACK") /\ pc' = "setup"
  /\ UNCHANGED <<env, cur, next_menu, item, modes, curses, alloc, err>>

SwapBlackFails ==
  /\ pc = "black" /\ "swap_black" \in Failing
  /\ next_menu' = MENU_ERROR /\ err' = TRUE /\ pc' = "switch"
  /\ skewed' = TRUE
  /\ UNCHANGED <<env, cur, item, color, saved, modes, curses, alloc>>

(* Mutant: the highlighted item is the one of the menu before. *)
SetupKeepsItem ==
  /\ pc = "setup" /\ pc' = "keys"
  /\ echo' = FALSE /\ cursor' = FALSE
  /\ items' = TRUE /\ menu' = "posted"
  /\ shown' \in IF "new_item" \in Failing THEN 1 .. nentries(cur) ELSE {nentries(cur)}
  /\ UNCHANGED <<env, cur, next_menu, item, palette, curses, err>>

(* From cbreak() to post_menu().  A new_item() that fails is not looked at: *)
(* new_menu() connects the items before it.                                *)
Setup ==
  /\ pc = "setup" /\ pc' = "keys"
  /\ echo' = FALSE /\ cursor' = FALSE
  /\ items' = TRUE /\ menu' = "posted" /\ item' = 0
  /\ shown' \in IF "new_item" \in Failing THEN 1 .. nentries(cur) ELSE {nentries(cur)}
  /\ UNCHANGED <<env, cur, next_menu, palette, curses, err>>

(* Mutant: the second colour is forgotten. *)
RestoreWhite(failed) ==
  /\ color' = [color EXCEPT !["WHITE"] = saved["WHITE"]]
  /\ err' = failed /\ UNCHANGED skewed

(* ncurses_restore_color() of both colours; some of the calls may fail. *)
RestoreColors(failed) ==
  \E R \in SUBSET Colors :
    /\ R # Colors => "restore" \in Failing
    /\ color' = [c \in Colors |-> IF c \in R THEN saved[c] ELSE color[c]]
    /\ err' = (failed \/ R # Colors)
    /\ skewed' = (skewed \/ R # Colors)

(* calloc() fails: END_ROUTINE restores the colours, then walks the item   *)
(* array that is not there.                                                *)
CallocFails ==
  /\ pc = "setup" /\ "calloc" \in Failing
  /\ pc' = "crashed"
  /\ next_menu' = MENU_ERROR
  /\ RestoreColors(TRUE)
  /\ echo' = FALSE /\ cursor' = FALSE
  /\ UNCHANGED <<env, cur, item, saved, curses, alloc>>

(* The set-up stops at a call: newwin() and the set_menu_*() calls set     *)
(* MENU_ERROR, new_menu() and post_menu() leave next_menu alone.  Without a *)
(* single item post_menu() fails.                                          *)
SetupFails(call) ==
  /\ pc = "setup"
  /\ call \in Failing \/ (call = "post_menu" /\ "new_item" \in Failing)
  /\ pc' = "end" /\ err' = TRUE
  /\ echo' = FALSE /\ cursor' = FALSE
  /\ items' = TRUE /\ shown' = 0
  /\ menu' = IF call = "new_menu" THEN "none" ELSE "made"
  /\ next_menu' = IF call \in {"newwin", "set_menu"} THEN MENU_ERROR ELSE next_menu
  /\ UNCHANGED <<env, cur, item, palette, curses>>

-----------------------------------------------------------------------------
(* The key loop leaves when a key set next_menu to another menu. *)
Lead(m) ==
  /\ next_menu' = m
  /\ pc' = IF m # cur THEN "end" ELSE "keys"
  /\ UNCHANGED <<env, cur, item, terminal, err>>

Down ==
  /\ pc = "keys" /\ item < shown - 1
  /\ item' = item + 1
  /\ UNCHANGED <<env, pc, cur, next_menu, terminal, err>>

Up ==
  /\ pc = "keys" /\ item > 0
  /\ item' = item - 1
  /\ UNCHANGED <<env, pc, cur, next_menu, terminal, err>>

Left == pc = "keys" /\ Lead(prev_mid)
End  == pc = "keys" /\ Lead(MENU_EXIT)

(* KEY_ENTER or KEY_RIGHT: menu_execoption() on the main menu ... *)
LastItem == item = nentries(cur) - 1

(* Mutants: menu ids are off by one; nodeWD is not closed to WSL. *)
ExecNextButOne ==
  /\ pc = "keys" /\ cur = MAIN
  /\ \/ LastItem /\ Lead(MENU_EXIT)
     \/ item < TINCDCTL /\ Lead(item + 2)
ExecUnguarded ==
  /\ pc = "keys" /\ cur = MAIN
  /\ \/ LastItem /\ Lead(MENU_EXIT)
     \/ item = NETWORKS - 1 /\ Lead(IF status THEN NETWORKS ELSE cur)
     \/ item \in NODEWDCTL - 1 .. TINCDCTL - 1 /\ Lead(item + 1)

ExecMain ==
  /\ pc = "keys" /\ cur = MAIN
  /\ \/ LastItem /\ Lead(MENU_EXIT)
     \/ item = NETWORKS - 1 /\ Lead(IF status THEN NETWORKS ELSE cur)
     \/ item = NODEWDCTL - 1 /\ Lead(IF wsl THEN cur ELSE NODEWDCTL)
     \/ item = CONFIGCTL - 1 /\ Lead(CONFIGCTL)
     \/ item = TINCDCTL - 1 /\ Lead(TINCDCTL)

(* Mutant: back to the menu with the id before. *)
ExecReturnOneUp ==
  /\ pc = "keys" /\ cur \in {NODEWDCTL, TINCDCTL} /\ LastItem
  /\ Lead(cur - 1)

(* ... "Return" of the nodeWD and tinc menus.  The items of the network    *)
(* and configuration menus do nothing, the others only write a message.    *)
ExecReturn ==
  /\ pc = "keys" /\ cur \in {NODEWDCTL, TINCDCTL} /\ LastItem
  /\ Lead(prev_mid)

(* "Check daemon status" waits for a key outside curses mode. *)
ExecStatus ==
  /\ pc = "keys" /\ cur = TINCDCTL /\ item = 0
  /\ pc' = "outside" /\ curses' = FALSE
  /\ UNCHANGED <<env, cur, next_menu, item, palette, modes, alloc, err>>

Resume ==
  /\ pc = "outside"
  /\ pc' = "keys" /\ curses' = TRUE
  /\ UNCHANGED <<env, cur, next_menu, item, palette, modes, alloc, err>>

(* item_index() returns ERR: MENU_ERROR is next, unless the key that was    *)
(* pressed says otherwise; of the main menu KEY_LEFT says "stay".          *)
ItemError ==
  /\ pc = "keys" /\ "item_index" \in Failing
  /\ next_menu' \in {MENU_ERROR, prev_mid, MENU_EXIT}
  /\ pc' = IF next_menu' # cur THEN "end" ELSE "keys"
  /\ err' = TRUE
  /\ UNCHANGED <<env, cur, item, terminal>>

(* wgetch() returns ERR: the loop ends, next_menu is still this menu. *)
KeyError ==
  /\ pc = "keys" /\ "wgetch" \in Failing
  /\ pc' = "end" /\ err' = TRUE
  /\ UNCHANGED <<env, cur, next_menu, item, terminal>>

-----------------------------------------------------------------------------
(* Mutant: the cursor stays hidden. *)
EndWithoutCursor ==
  /\ pc = "end" /\ pc' = "switch"
  /\ RestoreColors(err)
  /\ menu' = "none" /\ items' = FALSE /\ shown' = 0
  /\ echo' = TRUE /\ curses' = FALSE
  /\ UNCHANGED <<env, cur, next_menu, item, saved, cursor>>

(* END_ROUTINE: the colours, then the menu is unposted and freed before its *)
(* items, and endwin().                                                    *)
EndRoutine ==
  /\ pc = "end" /\ pc' = "switch"
  /\ RestoreColors(err)
  /\ menu' = "none" /\ items' = FALSE /\ shown' = 0
  /\ echo' = TRUE /\ cursor' = TRUE /\ curses' = FALSE
  /\ UNCHANGED <<env, cur, next_menu, item, saved>>

(* menu_semaphore(): repaint and load the next menu, ... *)
Switch ==
  /\ pc = "switch" /\ next_menu \notin {MENU_EXIT, MENU_ERROR}
  /\ pc' = "load" /\ cur' = next_menu
  /\ curses' = TRUE
  /\ UNCHANGED <<env, next_menu, item, palette, modes, alloc, err>>

(* Mutant: MENU_EXIT is not handled. *)
LeaveOnError ==
  /\ pc = "switch" /\ next_menu = MENU_ERROR
  /\ pc' = "exited"
  /\ echo' = TRUE /\ cursor' = TRUE /\ curses' = FALSE
  /\ UNCHANGED <<env, cur, next_menu, item, palette, alloc, err>>

(* ... or return, to the cnode_cleanup() of main(). *)
Leave ==
  /\ pc = "switch" /\ next_menu \in {MENU_EXIT, MENU_ERROR}
  /\ pc' = "exited"
  /\ echo' = TRUE /\ cursor' = TRUE /\ curses' = FALSE
  /\ UNCHANGED <<env, cur, next_menu, item, palette, alloc, err>>

Key == Down \/ Up \/ Left \/ End \/ ExecMain \/ ExecReturn \/ ExecStatus \/ Resume
Work == \/ LoadEmpty \/ SwapWhite \/ SwapWhiteFails \/ SwapBlack \/ SwapBlackFails
        \/ Setup \/ CallocFails
        \/ (\E call \in {"new_menu", "newwin", "set_menu", "post_menu"} : SetupFails(call))
        \/ EndRoutine \/ Switch \/ Leave

Next == Key \/ KeyError \/ ItemError \/ Work

Spec     == Init /\ [][Next]_vars
FairSpec == Spec /\ WF_vars(Work)

-----------------------------------------------------------------------------
TypeOK ==
  /\ status \in BOOLEAN /\ wsl \in BOOLEAN /\ nnet \in NetCounts \cup {0}
  /\ pc \in {"load", "black", "setup", "keys", "outside", "end", "switch",
             "exited", "crashed"}
  /\ cur \in Menus /\ next_menu \in Menus \cup {MENU_EXIT, MENU_ERROR}
  /\ item \in Nat
  /\ color \in [Colors -> {"terminal", "menu"}]
  /\ saved \in [Colors -> {"terminal", "menu"}]
  /\ skewed \in BOOLEAN
  /\ echo \in BOOLEAN /\ cursor \in BOOLEAN /\ curses \in BOOLEAN
  /\ items \in BOOLEAN /\ shown \in Nat /\ menu \in {"none", "made", "posted"}
  /\ err \in BOOLEAN

(* The key that selects an item always finds one: the highlighted item is one
   of those ncurses shows and has its text in menu_entries, whichever items
   could not be made; an empty menu is never shown. *)
ItemInMenu ==
  pc \in {"keys", "outside"} => item < shown /\ shown <= nentries(cur)

(* A menu that depends on the system is up only where it may be used: the
   networks when the repository answered with some, nodeWD never on WSL. *)
MenusGuarded ==
  pc \in {"keys", "outside"} =>
    /\ cur = NETWORKS => status /\ nnet > 0
    /\ cur = NODEWDCTL => ~wsl

(* Between two menus and after the last one the terminal has its modes back
   and nothing of a menu is allocated, whichever call of the set-up failed. *)
TerminalRestored ==
  pc \in {"switch", "load", "exited"} =>
    /\ echo /\ cursor
    /\ ~items /\ menu = "none"
    /\ pc = "exited" => ~curses

(* The two colours a menu redefines are the terminal's own again whenever no
   menu is up (menu.c:512-514), however many menus were loaded in between and
   whichever call failed: a backup is never taken of a colour that a menu had
   redefined.  Two failures are beyond this: a failing restoration, and one of
   the second swap, after which menu_loadmenu() does not restore the first
   colour (menu.c:541). *)
ColorsRestored ==
  ~skewed /\ pc \in {"switch", "load", "exited"} =>
    \A c \in Colors : color[c] = "terminal"

(* Every switch of menus passes through the main menu. *)
ThroughMain == [][cur' # cur => MAIN \in {cur, cur'}]_vars

(* A load ends: a menu comes up or the program ends, and an empty network menu
   does not send it round for ever.  (An error on record is no guarantee: while
   new_menu(), post_menu() or wgetch() fail the same menu is loaded again.) *)
MenuComesUp == pc = "load" ~> pc \in {"keys", "exited", "crashed"} \/ err

(* When the user asked to leave, or a menu could not be set up, the program
   leaves. *)
ExitLeaves ==
  next_menu \in {MENU_EXIT, MENU_ERROR} ~> pc \in {"exited", "crashed"}

-----------------------------------------------------------------------------
(* menu.c:480: MENU_ERROR is returned when "the menu couldn't be set up": a
   menu whose set-up stopped is not the next one. *)
SetupFailureIsError ==
  [][pc = "setup" /\ pc' = "end" => next_menu' = MENU_ERROR]_vars
=============================================================================
