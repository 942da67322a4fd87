------------------------------ MODULE TouchHmi ------------------------------
(***************************************************************************)
(* The touch panel and what it makes the gateway do: pollTouch's machine   *)
(* of presses, holds, repeats and releases (TouchButtons.h), handleTouch   *)
(* and the keys in main.cpp, the manual tests a finger runs, the service   *)
(* page, and the recovery of the display, which takes the panel with it.   *)
(*                                                                         *)
(* A tick is one pass of the main loop that polls the panel, and stands    *)
(* for a TOUCH_REPEAT_MS.  A finger rests at least one poll where it is.   *)
(* touchPressGeneration never differs from touchGeneration, because        *)
(* invalidateTouchGeneration also forgets the press: it is left out.       *)
(***************************************************************************)
EXTENDS UiMenus, FiniteSets

CONSTANTS
  TapTicks, RepeatTicks, HoldTicks, ServiceTicks,  \* TOUCH_TAP_MIN_MS .. SERVICE_HOLD_MS
  DriveTicks,        \* DRIVE_TEST_MAX_MS
  CooldownTicks,     \* the 2 s between two recoveries of the display
  IdleTicks,         \* DIAGNOSTIC_AUTO_RETURN_MS
  MaxDisplayFaults,  \* bound: display faults and failed initialisations
  MaxOrders          \* bound: GOTO and TFT commands of the host

ASSUME TouchAssumption ==
  /\ {TapTicks, RepeatTicks, HoldTicks, ServiceTicks, DriveTicks, CooldownTicks, IdleTicks}
       \subseteq Nat \ {0}
  /\ TapTicks <= RepeatTicks /\ RepeatTicks <= HoldTicks /\ HoldTicks <= ServiceTicks
  /\ {MaxDisplayFaults, MaxOrders} \subseteq Nat

VARIABLES
  ui,        \* gUi: menu, pageIndex and detailViewIndex
  touch,     \* the touch machine
  finger,    \* where the finger is: a zone, or "up"
  polled,    \* a pass has seen it there
  drive,     \* the key of the running drive test, or NoKey
  driveAge,  \* ticks since it started
  steer,     \* the key of the running steering test, or NoKey
  display,   \* the display: usable or not, its initialisation, and the cooldown
  idle,      \* ticks since lastUiInteractionMs, in the service pages
  displayFaults, orders,
  heldFor,   \* history: ticks the finger has rested in one zone of one page
  off        \* history: ticks a test has run with no finger on its key

touchVars == <<ui, touch, finger, polled, drive, driveAge, steer, display, idle,
               displayFaults, orders, heldFor, off>>

UpTo(n, bound) == IF n < bound THEN n + 1 ELSE bound

-----------------------------------------------------------------------------
(* The touch machine.                                                      *)

\* resetTouchState, of invalidateTouchGeneration too.
NoTouch == [down |-> FALSE, key |-> NoKey, age |-> 0, canceled |-> FALSE,
            holdSent |-> FALSE, repeated |-> FALSE, block |-> FALSE]
Reset(t) == [NoTouch EXCEPT !.block = t.block]

Event(type, key, t) == [type |-> type, key |-> key, touch |-> t]
NoEvent(t) == Event("NONE", NoKey, t)

\* The finger is up: the end of a press, which may be a tap.
Lifted(t) ==
  LET tap == ~t.canceled /\ ~t.repeated /\ t.age >= TapTicks
      key == CASE t.key \in MotionKeys /\ t.holdSent -> t.key
               [] t.key = "MENU" /\ t.holdSent -> NoKey
               [] tap /\ ~(t.holdSent /\ t.key \in MotionKeys \cup {"MENU"}) -> t.key
               [] OTHER -> NoKey
  IN IF t.down THEN Event("RELEASE", key, Reset(t)) ELSE NoEvent(t)

\* The finger is down on a key for the first time.
Pressed(t, key) ==
  Event("PRESS", key, [t EXCEPT !.down = TRUE, !.key = key, !.age = 0, !.canceled = key = NoKey])

\* The finger has left the key it pressed.
SlidOff(t) ==
  LET gone == [t EXCEPT !.canceled = TRUE]
  IN IF ~t.canceled /\ t.holdSent /\ t.key \in MotionKeys
     THEN Event("RELEASE", t.key, gone) ELSE NoEvent(gone)

HoldDue(t) ==
  \/ t.key = "MENU" /\ t.age >= ServiceTicks
  \/ t.key \in MotionKeys /\ t.age >= HoldTicks

Held(t) ==
  CASE ~t.holdSent /\ HoldDue(t) -> Event("HOLD", t.key, [t EXCEPT !.holdSent = TRUE])
    [] t.key \in {"LEFT", "RIGHT"} /\ t.age >= RepeatTicks ->
         Event("REPEAT", t.key, [t EXCEPT !.repeated = TRUE])
    [] OTHER -> NoEvent(t)

\* Mutant: a finger that comes back to its key goes on holding it.
TouchDownForgiving(t, key) ==
  CASE ~t.down -> Pressed(t, key)
    [] t.down /\ key # t.key -> SlidOff(t)
    [] OTHER -> Held(t)

TouchDown(t, key) ==
  CASE ~t.down -> Pressed(t, key)
    [] t.down /\ key # t.key -> SlidOff(t)
    [] t.down /\ key = t.key /\ t.canceled -> NoEvent(t)
    [] OTHER -> Held(t)

\* pollTouch.  Every pass makes a press that is still on one tick older.
PollTouch(t0, u, where) ==
  LET t == [t0 EXCEPT !.age = IF t0.down THEN UpTo(@, ServiceTicks) ELSE 0]
  IN CASE t.block -> NoEvent(IF where = "up" THEN NoTouch ELSE t)
       [] ~t.block /\ where = "up" -> Lifted(t)
       [] OTHER -> TouchDown(t, TouchKeyAt(u, where))

-----------------------------------------------------------------------------
(* What a pass works on, and the operations the keys and the host call.    *)

Panel == [ui |-> ui, touch |-> touch, drive |-> drive, steer |-> steer, age |-> driveAge,
          idle |-> idle, display |-> display]

Running(p) == p.drive # NoKey \/ p.steer # NoKey

StopDriveTest(p) == [p EXCEPT !.drive = NoKey, !.age = 0]
StopAllManualTest(p) == [StopDriveTest(p) EXCEPT !.steer = NoKey]

InvalidateTouch(p) == [p EXCEPT !.touch = Reset(@)]

\* setMenu, to a page reached from the one shown.
GoTo(p, next) ==
  LET q == IF next.menu # p.ui.menu /\ (Running(p) \/ p.ui.menu = "ESC_MANUAL_TEST")
           THEN StopAllManualTest(p) ELSE p
  IN [InvalidateTouch(q) EXCEPT !.ui = next, !.idle = 0]

\* runDriveTest and runSteeringTest, when their conditions hold.
RunDriveTest(p, key, allowed) ==
  IF p.drive # NoKey THEN StopDriveTest(p)
  ELSE IF allowed THEN [p EXCEPT !.drive = key, !.age = 0] ELSE p

RunSteeringTest(p, key, allowed) == IF allowed THEN [p EXCEPT !.steer = key] ELSE p

ManualKey(p, key, allowed) ==
  CASE key = "TEST_STOP" -> StopAllManualTest(p)
    [] key \in {"TEST_FORWARD", "TEST_REVERSE"} -> RunDriveTest(p, key, allowed)
    [] key \in {"TEST_LEFT", "TEST_RIGHT"} -> RunSteeringTest(p, key, allowed)
    [] OTHER -> p

\* handleSoftKey.  Editors and missions change nothing of the panel.
HandleSoftKey(p, key, allowed) ==
  LET next == Destination(p.ui, key)
  IN IF p.ui.menu = "ESC_MANUAL_TEST" /\ key # "TOP_LEFT" THEN ManualKey(p, key, allowed)
     ELSE CASE next # p.ui /\ next.menu = p.ui.menu -> [InvalidateTouch(p) EXCEPT !.ui = next]
            [] next # p.ui /\ next.menu # p.ui.menu -> GoTo(p, next)
            [] OTHER -> p

\* enterServiceMode, and suppressTouchUntilRelease.
EnterServiceMode(p, allowed) ==
  IF ~allowed \/ Running(p) THEN p
  ELSE [GoTo(p, SetMenu(p.ui, "SYSTEM_ROOT")) EXCEPT !.touch.block = TRUE]

\* handleTouch.
HandleEvent(p, e, allowed) ==
  CASE e.type = "PRESS" -> IF e.key = "TEST_STOP" THEN StopAllManualTest(p) ELSE p
    [] e.type = "HOLD" -> IF e.key = "MENU" THEN EnterServiceMode(p, allowed)
                          ELSE HandleSoftKey(p, e.key, allowed)
    [] e.type = "RELEASE" /\ e.key \in MotionKeys -> StopAllManualTest(p)
    [] e.type = "REPEAT" \/ (e.type = "RELEASE" /\ e.key \notin MotionKeys) ->
         HandleSoftKey(p, e.key, allowed)

HandleTouch(p, e, allowed) ==
  IF p.display.init # "IDLE" \/ ~p.display.usable THEN p
  ELSE IF e.key = NoKey THEN [p EXCEPT !.touch = e.touch]
  ELSE HandleEvent([p EXCEPT !.touch = e.touch, !.idle = 0], e, allowed)

-----------------------------------------------------------------------------
(* The rest of the main loop that has to do with the panel.                *)

\* The end of an initialisation: serviceDisplayInitialization.
InitEnds(p, works) ==
  CASE works -> [InvalidateTouch(p) EXCEPT !.display.init = "IDLE", !.display.usable = TRUE]
    [] ~works /\ p.display.attempt < 2 -> [p EXCEPT !.display.attempt = 2]
    [] OTHER -> [p EXCEPT !.display.init = "IDLE"]

\* Mutant: the recovery leaves a running test to its deadline.
BeginRecoveryRunning(p) ==
  [InvalidateTouch(p) EXCEPT !.display = [usable |-> FALSE, init |-> "RUNNING", attempt |-> 1, since |-> 0]]

BeginRecovery(p) ==
  LET q == IF Running(p) \/ p.ui.menu = "ESC_MANUAL_TEST" THEN StopAllManualTest(p) ELSE p
  IN [InvalidateTouch(q) EXCEPT
        !.display = [usable |-> FALSE, init |-> "RUNNING", attempt |-> 1, since |-> 0]]

\* serviceDisplayRecovery.
ServiceDisplayRecovery(p, works) ==
  CASE p.display.init = "RUNNING" -> InitEnds(p, works)
    [] p.display.init = "IDLE" /\ ~p.display.usable /\ p.display.since >= CooldownTicks ->
         BeginRecovery(p)
    [] OTHER -> p

\* main: a service page nobody touches goes home.
AutoReturn(p) ==
  IF p.ui.menu \in SystemPages /\ ~p.touch.down /\ p.idle >= IdleTicks
  THEN GoTo(p, SetMenu(p.ui, "HOME")) ELSE p

DriveDeadline(p) == IF p.drive # NoKey /\ p.age >= DriveTicks THEN StopDriveTest(p) ELSE p

TouchAged(p) ==
  [p EXCEPT !.age = IF p.drive # NoKey THEN UpTo(@, DriveTicks) ELSE 0,
            !.idle = IF p.ui.menu \in SystemPages THEN UpTo(@, IdleTicks) ELSE 0,
            !.display.since = UpTo(@, CooldownTicks)]

\* A pass, in the order of the loop: p is where it leaves the panel.
PassResults(works, allowed) ==
  UNION {UNION {UNION {{HandleTouch(c, e, allowed) : e \in {PollTouch(c.touch, c.ui, finger)}}
    : c \in {DriveDeadline(AutoReturn(b))}}
    : b \in {ServiceDisplayRecovery(a, works)}}
    : a \in {TouchAged(Panel)}}

KeyUnder(u) == IF finger = "up" THEN NoKey ELSE TouchKeyAt(u, finger)

\* Where a pass or an order leaves the panel.
Becomes(p) ==
  /\ ui' = p.ui /\ touch' = p.touch /\ drive' = p.drive /\ steer' = p.steer
  /\ driveAge' = p.age /\ display' = p.display
  /\ idle' = IF p.ui.menu \in SystemPages THEN p.idle ELSE 0

-----------------------------------------------------------------------------
(* Behaviours.                                                             *)

TouchInit ==
  /\ ui = FirstPage /\ touch = NoTouch /\ finger = "up" /\ polled = TRUE
  /\ drive = NoKey /\ driveAge = 0 /\ steer = NoKey
  /\ display = [usable |-> TRUE, init |-> "IDLE", attempt |-> 1, since |-> CooldownTicks]
  /\ idle = 0 /\ displayFaults = 0 /\ orders = 0 /\ heldFor = 0 /\ off = 0

Pass(works, allowed) ==
  /\ display.init = "IDLE" => works          \* works is the outcome of an initialisation
  /\ ~works => displayFaults < MaxDisplayFaults
  /\ displayFaults' = IF works THEN displayFaults ELSE displayFaults + 1
  /\ \E p \in PassResults(works, allowed) :
       /\ Becomes(p)
       /\ heldFor' = IF polled /\ finger # "up" /\ p.ui = ui
                    THEN UpTo(heldFor, HoldTicks - 1) ELSE 0
       /\ off' = IF Running(p) /\ KeyUnder(p.ui) \notin {p.drive, p.steer} \ {NoKey}
                 THEN UpTo(off, CooldownTicks + 1) ELSE 0
  /\ polled' = TRUE
  /\ UNCHANGED <<finger, orders>>

FingerMoves(where) ==
  /\ polled /\ where # finger
  /\ finger' = where /\ polled' = FALSE
  /\ UNCHANGED <<ui, touch, drive, driveAge, steer, display, idle, displayFaults, orders, heldFor, off>>

DisplayFails ==
  /\ display.usable /\ displayFaults < MaxDisplayFaults
  /\ display' = [display EXCEPT !.usable = FALSE]
  /\ displayFaults' = displayFaults + 1
  /\ UNCHANGED <<ui, touch, finger, polled, drive, driveAge, steer, idle, orders, heldFor, off>>

\* enforceManualMotionGate, forceRosOffline and an emergency stop, whoever calls them.
GateCloses ==
  /\ drive # NoKey \/ steer # NoKey
  /\ Becomes(StopAllManualTest(Panel)) /\ off' = 0
  /\ UNCHANGED <<finger, polled, displayFaults, orders, heldFor>>

Order(p) ==
  /\ orders < MaxOrders /\ orders' = orders + 1
  /\ Becomes(p) /\ heldFor' = IF p.ui = ui THEN heldFor ELSE 0
  /\ off' = IF Running(p) THEN off ELSE 0
  /\ UNCHANGED <<finger, polled, displayFaults>>

\* setExternalMenu: GOTO.
ExternalPages == {"HOME", "MAIN_MENU"} \cup Roots
SetExternalMenu(page) == Order(GoTo(Panel, SetMenu(ui, page)))

\* TFT:VERIFY and TFT:TEST, which want no test running.
TestDisplay ==
  /\ ~Running(Panel) /\ display.usable
  /\ Order(InvalidateTouch(Panel))

TouchNext ==
  \/ \E works, allowed \in BOOLEAN : Pass(works, allowed)
  \/ \E where \in Zones \cup {"up"} : FingerMoves(where)
  \/ DisplayFails \/ GateCloses \/ TestDisplay
  \/ \E page \in ExternalPages : SetExternalMenu(page)

TouchFairness == WF_touchVars(\E works, allowed \in BOOLEAN : Pass(works, allowed))

TouchSpec == TouchInit /\ [][TouchNext]_touchVars
FairTouchSpec == TouchSpec /\ TouchFairness

-----------------------------------------------------------------------------
(* Properties.                                                             *)

TouchTypeOK ==
  /\ ui.menu \in Pages /\ ui.page \in 0..3 /\ ui.view \in 0..2
  /\ drive \in {NoKey, "TEST_FORWARD", "TEST_REVERSE"}
  /\ steer \in {NoKey, "TEST_LEFT", "TEST_RIGHT"}
  /\ finger \in Zones \cup {"up"} /\ touch.age \in 0..ServiceTicks

\* UiShell.h prints "RELEASE = STOP" on the test page.  A test does not go on
\* without a finger on its key, not even one of the steering, which has no
\* deadline of its own (runSteeringTest), for longer than the display, when it
\* has failed under the finger, waits for its recovery (serviceDisplayRecovery).
DeadMan == off <= CooldownTicks

\* A test starts only under a finger that has rested on the key, on the page that
\* shows it, for TOUCH_HOLD_ACTION_MS, whatever page it was pressed on and
\* wherever it has slid (pollTouch, setMenu).
StartsByHold ==
  [][(drive = NoKey /\ drive' # NoKey) \/ (steer = NoKey /\ steer' # NoKey) =>
       heldFor >= HoldTicks - 1 /\ ui'.menu = "ESC_MANUAL_TEST"]_touchVars

\* A page that a card or an action opens is left, by the corner key, for the page
\* that opened it, at the cards it showed then (setMenu, menuParent, menuCardAt).
BackReturns ==
  [][ui'.menu \notin {ui.menu, Parent(ui.menu)} \cup ExternalPages =>
       Back(ui').menu = ui.menu /\ Back(ui').page = ui.page]_touchVars
=============================================================================
