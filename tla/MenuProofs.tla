----------------------------- MODULE MenuProofs -----------------------------
(***************************************************************************)
(* Theorems of Menu for every number of networks and every set of failing  *)
(* calls.                                                                  *)
(***************************************************************************)
EXTENDS Menu, TLAPS

LEMMA EntriesCounted ==
  ASSUME TypeOK
  PROVE  /\ nentries(cur) \in Nat
         /\ nentries(cur) > 0 /\ cur = NETWORKS => nnet > 0
BY NetCountsAssumption DEF TypeOK, nentries, MAIN, NETWORKS, NODEWDCTL, CONFIGCTL

(* Every step in the menus or out of them leaves the types as they are: ids *)
(* of menus, colours by who defined them, and the modes of the terminal.    *)
THEOREM TypeCorrect == Spec => []TypeOK
<1> USE DEF Menus, MAIN, NETWORKS, NODEWDCTL, CONFIGCTL, TINCDCTL, MENU_EXIT,
            MENU_ERROR, prev_mid
<1>1. Init => TypeOK
  <2> SUFFICES ASSUME Init PROVE TypeOK
    OBVIOUS
  <2>1. color \in [Colors -> {"terminal", "menu"}] /\ saved = color
    BY DEF Init
  <2>2. /\ status \in BOOLEAN /\ wsl \in BOOLEAN /\ nnet \in NetCounts \cup {0}
        /\ skewed \in BOOLEAN /\ echo \in BOOLEAN /\ cursor \in BOOLEAN
        /\ curses \in BOOLEAN /\ items \in BOOLEAN /\ err \in BOOLEAN
    BY DEF Init
  <2> QED
    BY <2>1, <2>2 DEF Init, TypeOK
<1>2. TypeOK /\ [Next]_vars => TypeOK'
  <2> SUFFICES ASSUME TypeOK, [Next]_vars PROVE TypeOK'
    OBVIOUS
  <2> USE DEF TypeOK, env, palette, modes, alloc, terminal
  <2>1. ASSUME NEW failed \in BOOLEAN, RestoreColors(failed)
        PROVE  /\ color' \in [Colors -> {"terminal", "menu"}]
               /\ err' \in BOOLEAN /\ skewed' \in BOOLEAN
    <3>1. PICK R \in SUBSET Colors :
            /\ color' = [c \in Colors |-> IF c \in R THEN saved[c] ELSE color[c]]
            /\ err' = (failed \/ R # Colors)
            /\ skewed' = (skewed \/ R # Colors)
      BY <2>1 DEF RestoreColors
    <3>2. color' \in [Colors -> {"terminal", "menu"}]
      BY <3>1
    <3>3. err' \in BOOLEAN
      BY <3>1
    <3>4. skewed' \in BOOLEAN
      BY <3>1
    <3> QED
      BY <3>2, <3>3, <3>4
  <2>2. CASE LoadEmpty \/ SwapWhiteFails \/ SwapBlackFails
    <3>1. CASE LoadEmpty
      BY <3>1 DEF LoadEmpty
    <3>2. CASE SwapWhiteFails
      BY <3>2 DEF SwapWhiteFails, GiveUp
    <3>3. CASE SwapBlackFails
      BY <3>3 DEF SwapBlackFails
    <3> QED
      BY <2>2, <3>1, <3>2, <3>3
  <2>3. CASE SwapWhite \/ SwapBlack
    BY <2>3 DEF SwapWhite, SwapBlack, Swap
  <2>4. CASE Setup
    <3>1. shown' \in Nat /\ item' \in Nat
      BY <2>4, EntriesCounted DEF Setup
    <3> QED
      BY <2>4, <3>1 DEF Setup
  <2>5. CASE CallocFails
    BY <2>1, <2>5 DEF CallocFails
  <2>6. ASSUME NEW call, SetupFails(call) PROVE TypeOK'
    BY <2>6 DEF SetupFails
  <2>7. CASE Down \/ Up \/ KeyError \/ ItemError \/ ExecStatus \/ Resume
    <3>1. CASE Down \/ Up
      <4>1. item' \in Nat
        BY <3>1 DEF Down, Up
      <4>2. UNCHANGED <<pc, cur, next_menu, env, terminal, err>>
        BY <3>1 DEF Down, Up
      <4> QED
        BY <4>1, <4>2
    <3>2. CASE KeyError
      BY <3>2 DEF KeyError
    <3>4. CASE ItemError
      <4>1. pc' \in {"end", "keys"} /\ err' \in BOOLEAN
        BY <3>4 DEF ItemError
      <4>2. next_menu' \in Menus \cup {MENU_EXIT, MENU_ERROR}
        BY <3>4 DEF ItemError
      <4>3. UNCHANGED <<cur, item, env, terminal>>
        BY <3>4 DEF ItemError
      <4> QED
        BY <4>1, <4>2, <4>3
    <3>3. CASE ExecStatus \/ Resume
      <4>1. pc' \in {"outside", "keys"} /\ curses' \in BOOLEAN
        BY <3>3 DEF ExecStatus, Resume
      <4>2. UNCHANGED <<cur, next_menu, item, env, palette, modes, alloc, err>>
        BY <3>3 DEF ExecStatus, Resume
      <4> QED
        BY <4>1, <4>2
    <3> QED
      BY <2>7, <3>1, <3>2, <3>3, <3>4
  <2>8. CASE Left \/ End \/ ExecMain \/ ExecReturn
    <3>1. \E m \in Menus \cup {MENU_EXIT} : Lead(m)
      BY <2>8 DEF Left, End, ExecMain, ExecReturn
    <3> QED
      BY <3>1 DEF Lead
  <2>9. CASE EndRoutine
    BY <2>1, <2>9 DEF EndRoutine
  <2>10. CASE Switch \/ Leave
    <3>1. CASE Switch
      <4>1. cur' \in Menus
        BY <3>1 DEF Switch
      <4>2. UNCHANGED <<next_menu, item, env, palette, modes, alloc, err>>
        BY <3>1 DEF Switch
      <4>3. pc' = "load" /\ curses' = TRUE
        BY <3>1 DEF Switch
      <4> QED
        BY <4>1, <4>2, <4>3
    <3>2. CASE Leave
      <4>1. pc' = "exited" /\ echo' = TRUE /\ cursor' = TRUE /\ curses' = FALSE
        BY <3>2 DEF Leave
      <4>2. UNCHANGED <<cur, next_menu, item, env, palette, alloc, err>>
        BY <3>2 DEF Leave
      <4> QED
        BY <4>1, <4>2
    <3> QED
      BY <2>10, <3>1, <3>2
  <2>11. CASE UNCHANGED vars
    BY <2>11 DEF vars
  <2> QED
    BY <2>2, <2>3, <2>4, <2>5, <2>6, <2>7, <2>8, <2>9, <2>10, <2>11
       DEF Next, Key, Work
<1> QED
  BY <1>1, <1>2, PTL DEF Spec

-----------------------------------------------------------------------------
(* Why only allowed menus come up: whatever leads to a menu has looked at   *)
(* its condition, until a menu is left it is its own next one, and a menu   *)
(* that was set up at all has items.                                        *)
Allowed(m) == /\ m = NETWORKS => status
              /\ m = NODEWDCTL => ~wsl
MenusAllowed == Allowed(cur) /\ Allowed(next_menu)
StaysUntilLed ==
  pc \in {"load", "black", "setup", "keys", "outside"} => next_menu = cur
HasItems == pc \in {"black", "setup", "keys", "outside"} => nentries(cur) > 0
ByMain   == next_menu \in Menus => next_menu = cur \/ MAIN \in {cur, next_menu}

NavInv == MenusAllowed /\ StaysUntilLed /\ HasItems /\ ByMain /\ ItemInMenu

LEMMA NavInvAlways == Spec => []NavInv
<1> USE DEF Menus, MAIN, NETWORKS, NODEWDCTL, CONFIGCTL, TINCDCTL, MENU_EXIT,
            MENU_ERROR, prev_mid
<1>1. Init => NavInv
  BY DEF Init, NavInv, MenusAllowed, Allowed, StaysUntilLed, HasItems, ByMain,
         ItemInMenu
<1>2. TypeOK /\ NavInv /\ [Next]_vars => NavInv'
  <2> SUFFICES ASSUME TypeOK, NavInv, [Next]_vars PROVE NavInv'
    OBVIOUS
  <2> USE DEF NavInv, MenusAllowed, Allowed, StaysUntilLed, HasItems, ByMain,
              ItemInMenu, env
  <2>0. nentries(cur) \in Nat /\ item \in Nat /\ shown \in Nat
    BY EntriesCounted DEF TypeOK
  <2>1. ASSUME UNCHANGED <<nnet, cur>> PROVE nentries(cur)' = nentries(cur)
    BY <2>1 DEF nentries
  <2>2. CASE LoadEmpty \/ SwapWhiteFails \/ SwapBlackFails
    BY <2>2 DEF LoadEmpty, SwapWhiteFails, SwapBlackFails, GiveUp
  <2>3. CASE SwapWhite \/ SwapBlack
    BY <2>1, <2>3 DEF SwapWhite, SwapBlack
  <2>4. CASE Setup
    <3>1. shown' \in 1 .. nentries(cur) /\ item' = 0
      BY <2>0, <2>4 DEF Setup
    <3> QED
      BY <2>0, <2>1, <2>4, <3>1 DEF Setup
  <2>5. CASE CallocFails
    BY <2>5 DEF CallocFails
  <2>6. ASSUME NEW call, SetupFails(call) PROVE NavInv'
    BY <2>6 DEF SetupFails
  <2>7. CASE Down \/ Up
    BY <2>0, <2>1, <2>7 DEF Down, Up, terminal, alloc
  <2>8. CASE KeyError \/ ExecStatus \/ Resume
    BY <2>1, <2>8 DEF KeyError, ExecStatus, Resume, terminal, alloc
  <2>15. CASE ItemError
    BY <2>1, <2>15 DEF ItemError, terminal, alloc
  <2>9. ASSUME NEW m \in Menus \cup {MENU_EXIT}, pc = "keys", Lead(m), Allowed(m),
               m = MENU_EXIT \/ m = cur \/ MAIN \in {cur, m}
        PROVE  NavInv'
    BY <2>1, <2>9 DEF Lead, terminal, alloc
  <2>10. CASE Left \/ End \/ ExecReturn
    BY <2>9, <2>10 DEF Left, End, ExecReturn
  <2>11. CASE ExecMain
    <3>1. \E m \in Menus \cup {MENU_EXIT} : Lead(m) /\ Allowed(m)
      BY <2>11 DEF ExecMain
    <3> QED
      BY <2>9, <2>11, <3>1 DEF ExecMain
  <2>12. CASE EndRoutine
    BY <2>12 DEF EndRoutine
  <2>13. CASE Switch \/ Leave
    BY <2>13 DEF Switch, Leave
  <2>14. CASE UNCHANGED vars
    BY <2>1, <2>14 DEF vars, terminal, alloc
  <2> QED
    BY <2>2, <2>3, <2>4, <2>5, <2>6, <2>7, <2>8, <2>10, <2>11, <2>12, <2>13,
       <2>14, <2>15 DEF Next, Key, Work
<1> QED
  BY <1>1, <1>2, TypeCorrect, PTL DEF Spec

(* The highlighted item is one of the menu that is up. *)
THEOREM ItemsSelected == Spec => []ItemInMenu
<1>1. NavInv => ItemInMenu
  BY DEF NavInv
<1> QED
  BY <1>1, NavInvAlways, PTL

(* The networks are shown only when the repository answered with some, and  *)
(* nodeWD never on WSL, by whatever keys a menu was reached.                *)
THEOREM GuardsHold == Spec => []MenusGuarded
<1>1. TypeOK /\ NavInv => MenusGuarded
  BY EntriesCounted
     DEF NavInv, MenusAllowed, Allowed, HasItems, MenusGuarded
<1> QED
  BY <1>1, TypeCorrect, NavInvAlways, PTL

(* Every switch of menus passes through the main menu. *)
THEOREM SwitchesByMain == Spec => ThroughMain
<1>1. TypeOK /\ NavInv /\ [Next]_vars => [cur' # cur => MAIN \in {cur, cur'}]_vars
  <2> SUFFICES ASSUME TypeOK, NavInv, [Next]_vars, cur' # cur
               PROVE  MAIN \in {cur, cur'}
    OBVIOUS
  <2>1. CASE Switch
    BY <2>1 DEF Switch, NavInv, ByMain, TypeOK
  <2>2. CASE Key \/ KeyError \/ ItemError
    BY <2>2 DEF Key, Down, Up, Left, End, ExecMain, ExecReturn, ExecStatus,
                Resume, KeyError, ItemError, Lead
  <2>3. CASE Work /\ ~Switch
    BY <2>3 DEF Work, LoadEmpty, SwapWhite, SwapWhiteFails, GiveUp, SwapBlack,
                SwapBlackFails, Setup, CallocFails, SetupFails, EndRoutine, Leave
  <2>4. CASE UNCHANGED vars
    BY <2>4 DEF vars
  <2> QED
    BY <2>1, <2>2, <2>3, <2>4 DEF Next
<1> QED
  BY <1>1, TypeCorrect, NavInvAlways, PTL DEF Spec, ThroughMain

-----------------------------------------------------------------------------
(* The modes are the terminal's own up to the moment the set-up of a menu   *)
(* changes them, and again after END_ROUTINE.                               *)
ModesInv ==
  /\ pc \in {"load", "black", "setup", "switch", "exited"} =>
       echo /\ cursor /\ ~items /\ menu = "none"
  /\ pc = "exited" => ~curses

(* Between two menus and after the last one the terminal has its modes back *)
(* and nothing of a menu is allocated, whichever call failed.               *)
THEOREM ModesRestored == Spec => []TerminalRestored
<1>1. Init => ModesInv
  BY DEF Init, ModesInv
<1>2. ModesInv /\ [Next]_vars => ModesInv'
  <2> SUFFICES ASSUME ModesInv, [Next]_vars PROVE ModesInv'
    OBVIOUS
  <2> USE DEF ModesInv, terminal, modes, alloc
  <2>1. CASE LoadEmpty \/ SwapWhite \/ SwapWhiteFails \/ SwapBlack \/ SwapBlackFails
    BY <2>1 DEF LoadEmpty, SwapWhite, SwapWhiteFails, GiveUp, SwapBlack,
                SwapBlackFails
  <2>2. CASE Setup \/ CallocFails
    BY <2>2 DEF Setup, CallocFails
  <2>3. ASSUME NEW call, SetupFails(call) PROVE ModesInv'
    BY <2>3 DEF SetupFails
  <2>4. CASE Key \/ KeyError \/ ItemError
    BY <2>4 DEF Key, Down, Up, Left, End, ExecMain, ExecReturn, ExecStatus,
                Resume, KeyError, ItemError, Lead
  <2>5. CASE EndRoutine \/ Switch \/ Leave
    BY <2>5 DEF EndRoutine, Switch, Leave
  <2>6. CASE UNCHANGED vars
    BY <2>6 DEF vars
  <2> QED
    BY <2>1, <2>2, <2>3, <2>4, <2>5, <2>6 DEF Next, Work
<1>3. ModesInv => TerminalRestored
  BY DEF ModesInv, TerminalRestored
<1> QED
  BY <1>1, <1>2, <1>3, PTL DEF Spec

-----------------------------------------------------------------------------
(* Unless the history says otherwise, a backup holds the terminal's own     *)
(* colour, because it is only taken while the colour still is that one.     *)
Own(c)    == color[c] = "terminal"
Backup(c) == saved[c] = "terminal"

ColorInv ==
  ~skewed =>
    /\ pc \in {"load", "switch", "exited"} => Own("WHITE") /\ Own("BLACK")
    /\ pc = "black" => Backup("WHITE") /\ Own("BLACK")
    /\ pc \in {"setup", "keys", "outside", "end"} =>
         Backup("WHITE") /\ Backup("BLACK")

(* Both colours are the terminal's own again whenever no menu is up, unless *)
(* redefining one failed or was not tried.                                  *)
THEOREM ColorsGivenBack == Spec => []ColorsRestored
<1>1. Init => ColorInv
  BY DEF Init, ColorInv, Own, Backup, Colors
<1>2. TypeOK /\ ColorInv /\ [Next]_vars => ColorInv'
  <2> SUFFICES ASSUME TypeOK, ColorInv, [Next]_vars PROVE ColorInv'
    OBVIOUS
  <2> USE DEF ColorInv, Own, Backup, Colors, terminal, palette
  <2>0. /\ color \in [{"WHITE", "BLACK"} -> {"terminal", "menu"}]
        /\ saved \in [{"WHITE", "BLACK"} -> {"terminal", "menu"}]
    BY DEF TypeOK
  <2>1. CASE LoadEmpty \/ SwapWhiteFails \/ SwapBlackFails
    BY <2>1 DEF LoadEmpty, SwapWhiteFails, SwapBlackFails, GiveUp
  <2>2. CASE SwapWhite \/ SwapBlack
    BY <2>0, <2>2 DEF SwapWhite, SwapBlack, Swap
  <2>3. CASE Setup \/ CallocFails
    BY <2>3 DEF Setup, CallocFails
  <2>4. ASSUME NEW call, SetupFails(call) PROVE ColorInv'
    BY <2>4 DEF SetupFails
  <2>5. CASE Key \/ KeyError \/ ItemError
    BY <2>5 DEF Key, Down, Up, Left, End, ExecMain, ExecReturn, ExecStatus,
                Resume, KeyError, ItemError, Lead
  <2>6. CASE EndRoutine
    <3>1. PICK R \in SUBSET Colors :
            /\ color' = [c \in Colors |-> IF c \in R THEN saved[c] ELSE color[c]]
            /\ skewed' = (skewed \/ R # Colors)
      BY <2>6 DEF EndRoutine, RestoreColors
    <3>2. ~skewed' => ~skewed /\ R = Colors
      BY <3>1
    <3>3. ~skewed' => Own("WHITE")' /\ Own("BLACK")'
      BY <2>6, <3>1, <3>2 DEF EndRoutine
    <3> QED
      BY <2>6, <3>3 DEF EndRoutine
  <2>7. CASE Switch \/ Leave
    BY <2>7 DEF Switch, Leave
  <2>8. CASE UNCHANGED vars
    BY <2>8 DEF vars
  <2> QED
    BY <2>1, <2>2, <2>3, <2>4, <2>5, <2>6, <2>7, <2>8 DEF Next, Work
<1>3. ColorInv => ColorsRestored
  BY DEF ColorInv, Own, ColorsRestored, Colors
<1> QED
  BY <1>1, <1>2, <1>3, TypeCorrect, PTL DEF Spec
=============================================================================
