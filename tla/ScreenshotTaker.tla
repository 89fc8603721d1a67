--------------------------- MODULE ScreenshotTaker ---------------------------
(***************************************************************************)
(* ScreenshotTaker of tooling/screenshot.cpp.  It watches the events of    *)
(* all widgets, notes their windows, and takes a picture of each window    *)
(* that was painted: when every noted window is painted, or when its       *)
(* patience is over.  A taker is made by the hook takeScreenshots when the *)
(* application starts, or by takeScreenshot for one window.                *)
(*                                                                         *)
(* A widget that is constructed without a parent is a window of its own    *)
(* until a layout adopts it.  A window that is put into a graphics scene   *)
(* is painted there and has no picture of its own.  Windows may be deleted *)
(* at any time, and the program may forbid all screenshots.                *)
(***************************************************************************)
EXTENDS Integers, FiniteSets

CONSTANTS
    Widgets,        \* those that start as windows of their own
    CollectTime,    \* Times::collect(), in any unit
    MinCollect,     \* Times::minCollect()
    Delay           \* Times::screenshotDelay()

Off == -1           \* of the timer: not active; of the clock: never started

VARIABLES
    widget,         \* what has become of each widget
    spunUp,         \* tooling::hasEventLoopSpunUp()
    disabled,       \* the application's property no_screenshots
    taker,          \* its life
    forWindow,      \* the window it was made for, {} if by the hook
    phase,
    watching,       \* it is an event filter of the application
    countdown,      \* of the timer: time until timerEvent
    clock,          \* time.elapsed()
    topLevels,      \* the state of each noted window
    leftToPaint,
    painted,        \* history: windows painted while it watched and had noted them
    shots           \* history: pictures taken of each

ownVars == <<taker, forWindow, phase, watching, countdown, clock, topLevels, leftToPaint, painted, shots>>
appVars == <<widget, spunUp, disabled>>
screenVars == <<appVars, ownVars>>

TakerInit == /\ widget = [w \in Widgets |-> "unborn"]
             /\ spunUp = FALSE /\ disabled = FALSE
             /\ taker = "none" /\ forWindow = {}
             /\ phase = "Collecting"
             /\ watching = FALSE
             /\ countdown = Off /\ clock = Off
             /\ topLevels = [w \in {} |-> "Initial"]
             /\ leftToPaint = 0
             /\ painted = {}
             /\ shots = [w \in Widgets |-> 0]

Noted == DOMAIN topLevels
IsWindow(w) == widget[w] \in {"window", "proxied"}

(* In a scene that a view shows.                                           *)
IsProxied(w) == widget[w] = "proxied"

-----------------------------------------------------------------------------
(* The program: widgets come, are adopted by others, and go. *)
Turns(w, from, to) == /\ widget[w] = from
                      /\ widget' = [widget EXCEPT ![w] = to]
                      /\ UNCHANGED <<spunUp, disabled>>

Construct(w) == Turns(w, "unborn", "window") /\ UNCHANGED ownVars
Adopt(w) == Turns(w, "window", "child") /\ UNCHANGED ownVars
Embed(w) == Turns(w, "window", "proxied") /\ UNCHANGED ownVars

(* A taker that was made for the window is its child and goes with it. *)
Destroy(w) ==
    /\ \E from \in {"window", "proxied", "child"} : Turns(w, from, "gone")
    /\ IF w \in forWindow
       THEN /\ taker' = "gone" /\ watching' = FALSE /\ countdown' = Off
            /\ UNCHANGED <<forWindow, phase, clock, topLevels, leftToPaint, painted, shots>>
       ELSE UNCHANGED ownVars

SpinUp == ~spunUp /\ spunUp' = TRUE /\ UNCHANGED <<widget, disabled, ownVars>>
Disable == ~disabled /\ disabled' = TRUE /\ UNCHANGED <<widget, spunUp, ownVars>>

-----------------------------------------------------------------------------
(* The hook, on the first event of the application. *)
Startup == /\ taker = "none" /\ ~disabled
           /\ taker' = "live"
           /\ clock' = 0 /\ countdown' = CollectTime
           /\ watching' = TRUE
           /\ UNCHANGED <<appVars, forWindow, phase, topLevels, leftToPaint, painted, shots>>

(* takeScreenshot for one visible window: neither clock nor timer runs. *)
takeScreenshot(w) ==
    /\ taker = "none" /\ IsWindow(w) /\ ~IsProxied(w)
    /\ taker' = "live" /\ forWindow' = {w}
    /\ phase' = "Collected"
    /\ topLevels' = [v \in {w} |-> "Painted"]
    /\ painted' = {w}
    /\ watching' = TRUE
    /\ UNCHANGED <<appVars, countdown, clock, leftToPaint, shots>>

(* A scheduling that goes on watching. *)
scheduleWatching == phase' = "Screenshot" /\ countdown' = Delay /\ UNCHANGED watching

scheduleScreenshots == phase' = "Screenshot" /\ countdown' = Delay /\ watching' = FALSE

(* What elapsed() gives of a clock that was never started is undefined. *)
MinCollected == IF clock = Off THEN BOOLEAN ELSE {clock > MinCollect}

(* The state of a noted window after an event in it. *)
Updated(s, visible) == IF spunUp /\ visible /\ s = "Initial" THEN "Updated" ELSE s

(* A window counts as painted only if it was not updated before. *)
AfterInitial(s, paint) == IF paint /\ s = "Initial" THEN "Painted" ELSE s

AfterEvent(s, paint) == IF paint THEN "Painted" ELSE s

(* leftToPaint-- for every paint event. *)
NowPaintedEach(s, paint) == IF paint THEN 1 ELSE 0

NowPainted(s, paint) == IF paint /\ s # "Painted" THEN 1 ELSE 0

(* eventFilter: the first event in a window notes it, and does no more. *)
Note(w) == /\ watching /\ IsWindow(w)
           /\ phase = "Collecting" /\ w \notin Noted
           /\ topLevels' = [v \in Noted \cup {w} |-> IF v = w THEN "Initial" ELSE topLevels[v]]
           /\ leftToPaint' = leftToPaint + 1
           /\ UNCHANGED <<appVars, taker, forWindow, phase, watching, countdown, clock, painted, shots>>

(* eventFilter: an event in a noted window, or in one of its children. *)
Event(w, paint) ==
    /\ watching /\ IsWindow(w) /\ w \in Noted
    /\ \E visible \in BOOLEAN :
          /\ paint => visible
          /\ LET s == Updated(topLevels[w], visible)
             IN  /\ topLevels' = [topLevels EXCEPT ![w] = AfterEvent(s, paint)]
                 /\ leftToPaint' = leftToPaint - NowPainted(s, paint)
    /\ painted' = IF paint THEN painted \cup {w} ELSE painted
    /\ \E late \in MinCollected : IF leftToPaint' = 0 /\ late
                                  THEN scheduleScreenshots
                                  ELSE UNCHANGED <<phase, countdown, watching>>
    /\ UNCHANGED <<appVars, taker, forWindow, clock, shots>>

(* timerEvent. *)
Expired == taker # "gone" /\ countdown = 0

PatienceOver == /\ Expired /\ phase # "Screenshot"
                /\ scheduleScreenshots
                /\ UNCHANGED <<appVars, taker, forWindow, clock, topLevels, leftToPaint, painted, shots>>

(* Of the noted windows, those that still are windows, and painted.  The   *)
(* list that isProxied looks at is made anew at every turn of the event    *)
(* loop; here it is that of the moment.                                    *)
Shootable(w) == IsWindow(w) /\ ~IsProxied(w) /\ topLevels[w] = "Painted"

(* The timer goes on, but the taker is deleted before it expires again. *)
takeScreenshots ==
    /\ Expired /\ phase = "Screenshot"
    /\ shots' = [w \in Widgets |-> IF ~disabled /\ w \in Noted /\ Shootable(w)
                                   THEN shots[w] + 1 ELSE shots[w]]
    /\ taker' = "deleting"
    /\ countdown' = Delay
    /\ UNCHANGED <<appVars, forWindow, phase, watching, clock, topLevels, leftToPaint, painted>>

Delete == /\ taker = "deleting"
          /\ taker' = "gone" /\ watching' = FALSE /\ countdown' = Off
          /\ UNCHANGED <<appVars, forWindow, phase, clock, topLevels, leftToPaint, painted, shots>>

(* The clock need not be followed past minCollect(). *)
TimePasses ==
    /\ taker = "live" /\ countdown > 0
    /\ countdown' = countdown - 1
    /\ clock' = IF clock \in 0..MinCollect THEN clock + 1 ELSE clock
    /\ UNCHANGED <<appVars, taker, forWindow, phase, watching, topLevels, leftToPaint, painted, shots>>

-----------------------------------------------------------------------------
Program == \/ SpinUp \/ Disable \/ Startup
           \/ \E w \in Widgets : \/ Construct(w) \/ Adopt(w) \/ Embed(w) \/ Destroy(w)
                                 \/ takeScreenshot(w) \/ Note(w)
                                 \/ \E paint \in BOOLEAN : Event(w, paint)
Loop == PatienceOver \/ takeScreenshots \/ Delete \/ TimePasses
TakerNext == Program \/ Loop
TakerSpec == TakerInit /\ [][TakerNext]_screenVars

TypeOK ==
    /\ widget \in [Widgets -> {"unborn", "window", "proxied", "child", "gone"}]
    /\ spunUp \in BOOLEAN /\ disabled \in BOOLEAN /\ watching \in BOOLEAN
    /\ taker \in {"none", "live", "deleting", "gone"}
    /\ forWindow \in SUBSET Widgets
    /\ phase \in {"Collecting", "Collected", "Screenshot"}
    /\ countdown \in Int /\ clock \in Int /\ leftToPaint \in Int
    /\ Noted \subseteq Widgets
    /\ topLevels \in [Noted -> {"Initial", "Updated", "Painted"}]
    /\ painted \in SUBSET Widgets
    /\ shots \in [Widgets -> Nat]

(* leftToPaint, on which the early screenshots depend, stays the number of *)
(* noted windows that were never painted, those that were deleted or       *)
(* adopted included, so that a late event cannot bring it to 0 twice.      *)
LeftToPaintExact ==
    leftToPaint = Cardinality({w \in Noted : topLevels[w] # "Painted"})

(* When the pictures have been taken, every window that was painted while  *)
(* the taker watched, and that is still a window and in no scene, has its  *)
(* picture, and only one; no window has one that was not painted before.   *)
(* Only a program that has set no_screenshots by then may miss some.       *)
PaintedWindowsAreShot ==
    /\ \A w \in Widgets : shots[w] <= 1 /\ (shots[w] = 1 => w \in painted)
    /\ taker = "deleting" /\ ~disabled =>
          \A w \in painted : IsWindow(w) /\ ~IsProxied(w) => shots[w] = 1

(* The taker made at startup takes its screenshots and goes away, even if  *)
(* windows it counts on were deleted or adopted, and events keep coming.   *)
TakerGoesAway == (taker = "live" /\ forWindow = {}) ~> (taker = "gone")
=============================================================================
