------------------------------ MODULE UiMenus -------------------------------
(***************************************************************************)
(* The pages of the touch display: the catalogue of UiMenu.h, the keys     *)
(* that TouchButtons.h makes of the seven touch zones on each page, and    *)
(* where handleSoftKey of main.cpp goes from there.  Operators only; the   *)
(* state is in the modules that extend this one.                           *)
(*                                                                         *)
(* A page that has no cards, editor, action or second view differs from    *)
(* its siblings in nothing that is modelled: of those each domain shows    *)
(* the first, and the card positions of the others hold none.              *)
(***************************************************************************)
EXTENDS Integers, Sequences

PageSize == 3                                   \* DOMAIN_PAGE_SIZE

Roots == {"ESC_ROOT", "PERCEPTION_ROOT", "NAVIGATION_ROOT", "SYSTEM_ROOT"}
EscPages == {"ESC_ROOT", "ESC_OVERVIEW", "ESC_MODE", "ESC_STEERING", "ESC_DRIVE",
             "ESC_MANUAL_TEST", "ESC_STEERING_TEST_ANGLE", "ESC_MANUAL_SPEED",
             "ESC_ERPM_PER_MPS"}
PerceptionPages == {"PERCEPTION_ROOT", "PERCEPTION_OVERVIEW", "PERCEPTION_CAMERA",
                    "PERCEPTION_TEST", "PERCEPTION_INFERENCE"}
NavigationPages == {"NAVIGATION_ROOT", "NAVIGATION_OVERVIEW", "NAV_MISSION", "NAV_TEST",
                    "NAV_MISSION_GO", "NAV_MISSION_SAVE", "NAV_MISSION_STOP"}
SystemPages == {"SYSTEM_ROOT", "SYSTEM_OVERVIEW", "SYSTEM_TFT_TEST"}
Pages == {"HOME", "MAIN_MENU"} \cup EscPages \cup PerceptionPages \cup NavigationPages
         \cup SystemPages

\* menuDomain.
Domain(page) ==
  CASE page \in EscPages -> "ESC"
    [] page \in PerceptionPages -> "PERCEPTION"
    [] page \in NavigationPages -> "NAVIGATION"
    [] page \in SystemPages -> "SYSTEM"
    [] OTHER -> "NONE"

\* menuParent.
Parent(page) ==
  CASE page \in Roots \ {"SYSTEM_ROOT"} -> "MAIN_MENU"
    [] page \in {"MAIN_MENU", "SYSTEM_ROOT", "HOME"} -> "HOME"
    [] page = "ESC_STEERING_TEST_ANGLE" -> "ESC_STEERING"
    [] page \in {"ESC_MANUAL_SPEED", "ESC_ERPM_PER_MPS"} -> "ESC_DRIVE"
    [] page = "PERCEPTION_INFERENCE" -> "PERCEPTION_CAMERA"
    [] page \in {"NAV_MISSION_GO", "NAV_MISSION_SAVE", "NAV_MISSION_STOP"} -> "NAV_MISSION"
    [] page \in {"ESC_OVERVIEW", "ESC_MODE", "ESC_STEERING", "ESC_DRIVE", "ESC_MANUAL_TEST"} ->
         "ESC_ROOT"
    [] page \in {"PERCEPTION_OVERVIEW", "PERCEPTION_CAMERA", "PERCEPTION_TEST"} -> "PERCEPTION_ROOT"
    [] page \in {"NAVIGATION_OVERVIEW", "NAV_MISSION", "NAV_TEST"} -> "NAVIGATION_ROOT"
    [] OTHER -> "SYSTEM_ROOT"

\* menuChildren: the cards of a page by their number, from 0.
Children(page) ==
  CASE page = "MAIN_MENU" -> [i \in 0..2 |-> <<"ESC_ROOT", "PERCEPTION_ROOT", "NAVIGATION_ROOT">>[i + 1]]
    [] page = "ESC_ROOT" ->
         [i \in {0, 1, 2, 3, 11} |-> IF i = 11 THEN "ESC_MANUAL_TEST"
              ELSE <<"ESC_OVERVIEW", "ESC_MODE", "ESC_STEERING", "ESC_DRIVE">>[i + 1]]
    [] page = "PERCEPTION_ROOT" ->
         [i \in {0, 1, 8} |-> IF i = 8 THEN "PERCEPTION_TEST"
              ELSE <<"PERCEPTION_OVERVIEW", "PERCEPTION_CAMERA">>[i + 1]]
    [] page = "NAVIGATION_ROOT" ->
         [i \in {0, 6, 11} |-> CASE i = 0 -> "NAVIGATION_OVERVIEW" [] i = 6 -> "NAV_MISSION"
                                 [] OTHER -> "NAV_TEST"]
    [] page = "SYSTEM_ROOT" ->
         [i \in {0, 9} |-> IF i = 0 THEN "SYSTEM_OVERVIEW" ELSE "SYSTEM_TFT_TEST"]

HasChildren(page) == page \in Roots \cup {"MAIN_MENU"}

\* menuPageCount of menuChildren's counts 3, 12, 9, 12 and 10.
CardPages(page) ==
  CASE page \in {"ESC_ROOT", "NAVIGATION_ROOT", "SYSTEM_ROOT"} -> 4
    [] page = "PERCEPTION_ROOT" -> 3
    [] OTHER -> 1

\* menuCardAt, for a slot that holds a card of the model.
CardAt(page, index, slot) == Children(page)[index * PageSize + slot]
IsCard(page, index, slot) ==
  HasChildren(page) /\ index * PageSize + slot \in DOMAIN Children(page)

\* menuViewCount.
Views(page) ==
  IF page \in {"ESC_OVERVIEW", "ESC_STEERING", "ESC_DRIVE", "PERCEPTION_OVERVIEW",
               "PERCEPTION_CAMERA", "NAVIGATION_OVERVIEW", "NAV_MISSION"} THEN 3 ELSE 1

\* menuEditKey, and menuDetailActionTarget for the views that have one.
Editors == {"ESC_MODE", "ESC_MANUAL_SPEED", "ESC_STEERING_TEST_ANGLE", "ESC_ERPM_PER_MPS",
            "PERCEPTION_INFERENCE"}

Target(page, view) ==
  CASE page = "ESC_STEERING" /\ view = 2 -> {"ESC_STEERING_TEST_ANGLE"}
    [] page = "ESC_DRIVE" /\ view = 1 -> {"ESC_ERPM_PER_MPS"}
    [] page = "ESC_DRIVE" /\ view = 2 -> {"ESC_MANUAL_SPEED"}
    [] page = "PERCEPTION_CAMERA" /\ view = 0 -> {"PERCEPTION_INFERENCE"}
    [] OTHER -> {}

-----------------------------------------------------------------------------
(* Touch zones and keys.                                                   *)

Middle == <<"mid0", "mid1", "mid2">>
Bottom == <<"bottom0", "bottom1", "bottom2">>
Zones == {"corner", "outside", "mid0", "mid1", "mid2", "bottom0", "bottom1", "bottom2"}

Slot(zone) == CHOOSE i \in 0..2 : zone \in {Middle[i + 1], Bottom[i + 1]}
CardKeys == <<"CARD_0", "CARD_1", "CARD_2">>
FooterKey(zone) == <<"LEFT", "OK", "RIGHT">>[Slot(zone) + 1]
InMiddle(zone) == zone \in {"mid0", "mid1", "mid2"}
InBottom(zone) == zone \in {"bottom0", "bottom1", "bottom2"}

MotionKeys == {"TEST_FORWARD", "TEST_REVERSE", "TEST_LEFT", "TEST_RIGHT"}
NoKey == "NONE"

\* uiUsesEditFooter and uiUsesPagerFooter.
EditFooter(page) ==
  page \in Editors \cup {"SYSTEM_TFT_TEST", "NAV_MISSION_GO", "NAV_MISSION_SAVE", "NAV_MISSION_STOP"}
PagerFooter(page) ==
  /\ page \notin {"MAIN_MENU", "HOME", "ESC_MANUAL_TEST"} /\ ~EditFooter(page)
  /\ IF HasChildren(page) THEN CardPages(page) > 1 ELSE Views(page) > 1

TestKey(zone) ==
  CASE zone = "mid0" -> "TEST_LEFT"
    [] zone = "mid2" -> "TEST_RIGHT"
    [] zone = "bottom0" -> "TEST_REVERSE"
    [] zone = "bottom2" -> "TEST_FORWARD"
    [] zone \in {"mid1", "bottom1"} -> "TEST_STOP"
    [] OTHER -> NoKey

\* touchKeyAt.
TouchKeyAt(ui, zone) ==
  LET page == ui.menu
  IN CASE zone = "corner" -> IF page = "HOME" THEN NoKey ELSE "TOP_LEFT"
       [] zone = "outside" -> NoKey
       [] page = "HOME" /\ zone # "corner" -> IF zone = "bottom1" THEN "MENU" ELSE NoKey
       [] page = "MAIN_MENU" /\ InMiddle(zone) -> CardKeys[Slot(zone) + 1]
       [] page = "ESC_MANUAL_TEST" /\ (InMiddle(zone) \/ InBottom(zone)) -> TestKey(zone)
       [] page \in Roots /\ InMiddle(zone) ->
            IF IsCard(page, ui.page, Slot(zone)) THEN CardKeys[Slot(zone) + 1] ELSE NoKey
       [] InBottom(zone) /\ EditFooter(page) -> FooterKey(zone)
       [] InBottom(zone) /\ PagerFooter(page) ->
            IF zone # "bottom1" \/ page = "NAV_MISSION" \/ Target(page, ui.view) # {}
            THEN FooterKey(zone) ELSE NoKey
       [] OTHER -> NoKey

-----------------------------------------------------------------------------
(* Going from page to page.                                                *)

FirstPage == [menu |-> "HOME", page |-> 0, view |-> 0]

\* Mutant: the cards always begin at the first page.
SetMenuAtFirstPage(ui, next) == [menu |-> next, page |-> 0, view |-> 0]

\* setMenu: the page of cards is kept inside a domain.
SetMenu(ui, next) ==
  [menu |-> next, view |-> 0,
   page |-> IF Domain(ui.menu) = Domain(next) /\ Domain(next) # "NONE" THEN ui.page ELSE 0]

\* selectRelative.
SelectRelative(ui, direction) ==
  IF HasChildren(ui.menu)
  THEN [ui EXCEPT !.page = (@ + direction) % CardPages(ui.menu)]
  ELSE [ui EXCEPT !.view = (@ + direction) % Views(ui.menu)]

\* The TOP_LEFT key.
Back(ui) == IF ui.menu = "HOME" THEN ui ELSE SetMenu(ui, Parent(ui.menu))

\* chooseVisibleCard.
ChooseCard(ui, slot) ==
  IF IsCard(ui.menu, ui.page, slot) THEN SetMenu(ui, CardAt(ui.menu, ui.page, slot)) ELSE ui

CardSlot(key) == CHOOSE i \in 0..2 : CardKeys[i + 1] = key
Direction(key) == CASE key = "LEFT" -> -1 [] key = "RIGHT" -> 1 [] OTHER -> 0

\* The page handleSoftKey leads to.
Destination(ui, key) ==
  CASE key = "MENU" -> SetMenu(ui, "MAIN_MENU")
    [] key = "TOP_LEFT" -> Back(ui)
    [] key \in {"CARD_0", "CARD_1", "CARD_2"} -> ChooseCard(ui, CardSlot(key))
    [] key \in {"LEFT", "RIGHT"} /\ ~EditFooter(ui.menu) /\ ui.menu # "ESC_MANUAL_TEST" ->
         SelectRelative(ui, Direction(key))
    [] key = "OK" /\ Target(ui.menu, ui.view) # {} ->
         SetMenu(ui, CHOOSE page \in Target(ui.menu, ui.view) : TRUE)
    [] OTHER -> ui
=============================================================================
