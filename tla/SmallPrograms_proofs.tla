------------------------ MODULE SmallPrograms_proofs -------------------------
(***************************************************************************)
(* What the run small_programs shows of four of its programs, for all      *)
(* values of their constants: one part for each of them.                   *)
(***************************************************************************)
EXTENDS ScreenshotTaker, MonitoringApp, ModeFeedback, ThreadExit,
        SequenceTheorems, FiniteSetTheorems, TLAPS

-----------------------------------------------------------------------------
(***************************************************************************)
(* For every finite set of widgets and all times, leftToPaint is the       *)
(* number of noted windows that were never painted.  An event moves the    *)
(* counter by one only if it moves its window between the two kinds, and   *)
(* no other operation touches either, once it is known that a taker that   *)
(* is yet to be made has counted nothing.                                  *)
(***************************************************************************)

Unpainted == {w \in Noted : topLevels[w] # "Painted"}

Unmade == taker = "none" => ~watching /\ countdown = Off /\ leftToPaint = 0

TakerIInv == TypeOK /\ LeftToPaintExact /\ Unmade

(* The windows that are left are finitely many. *)
LEMMA FewLeft ==
    ASSUME IsFiniteSet(Widgets), TypeOK
    PROVE  IsFiniteSet(Unpainted) /\ Cardinality(Unpainted) \in Nat
<1>1. Unpainted \in SUBSET Widgets
    BY DEF Unpainted, TypeOK
<1>2. IsFiniteSet(Unpainted)
    BY <1>1, FS_Subset
<1>. QED
    BY <1>2, FS_CardinalityType

LEMMA TakerInitInv == ASSUME CollectTime \in Nat, Delay \in Nat, TakerInit PROVE TakerIInv
<1>1. Noted = {} /\ Unpainted = {}
    BY DEF TakerInit, Noted, Unpainted
<1>2. TypeOK
  <2>1. spunUp \in BOOLEAN /\ disabled \in BOOLEAN /\ watching \in BOOLEAN
      BY Zenon DEF TakerInit
  <2>2. topLevels \in [Noted -> {"Initial", "Updated", "Painted"}] /\ Noted \subseteq Widgets
      BY <1>1 DEF TakerInit, Noted
  <2>3. /\ widget \in [Widgets -> {"unborn", "window", "proxied", "child", "gone"}]
        /\ taker = "none" /\ forWindow = {} /\ phase = "Collecting" /\ painted = {}
        /\ shots \in [Widgets -> Nat]
      BY DEF TakerInit
  <2>4. countdown \in Int /\ clock \in Int /\ leftToPaint \in Int
      BY DEF TakerInit, Off
  <2>. QED
      BY <2>1, <2>2, <2>3, <2>4 DEF TypeOK
<1>3. LeftToPaintExact
    BY <1>1, FS_EmptySet DEF TakerInit, LeftToPaintExact, Unpainted
<1>. QED
    BY <1>2, <1>3 DEF TakerInit, TakerIInv, Unmade

(* Nothing that leaves the noted windows and the counter alone matters. *)
LEMMA LeavesTheCount ==
    ASSUME TakerIInv, TypeOK',
           taker' = "none" => taker = "none" /\ watching' = watching /\ countdown' = countdown,
           topLevels' = topLevels, leftToPaint' = leftToPaint
    PROVE  TakerIInv'
    BY DEF TakerIInv, LeftToPaintExact, Unmade, Noted

LEMMA ProgramKeeps ==
    ASSUME TakerIInv, NEW w \in Widgets, Construct(w) \/ Adopt(w) \/ Embed(w) \/ Destroy(w)
    PROVE  TakerIInv'
<1>1. topLevels' = topLevels /\ leftToPaint' = leftToPaint
    BY DEF Construct, Adopt, Embed, Destroy, ownVars
<1>2. TypeOK'
  <2>1. /\ widget' \in [Widgets -> {"unborn", "window", "proxied", "child", "gone"}]
        /\ spunUp' \in BOOLEAN /\ disabled' \in BOOLEAN
      BY DEF TakerIInv, TypeOK, Construct, Adopt, Embed, Destroy, Turns
  <2>2. watching' = watching \/ watching' = FALSE
      BY DEF Construct, Adopt, Embed, Destroy, ownVars
  <2>3. watching' \in BOOLEAN
      BY <2>2, Zenon DEF TakerIInv, TypeOK
  <2>4. taker' \in {"none", "live", "deleting", "gone"} /\ countdown' \in Int
      BY DEF TakerIInv, TypeOK, Construct, Adopt, Embed, Destroy, ownVars, Off
  <2>5. /\ forWindow' = forWindow /\ phase' = phase
        /\ clock' = clock /\ painted' = painted /\ shots' = shots
      BY DEF Construct, Adopt, Embed, Destroy, ownVars
  <2>. QED
      BY <1>1, <2>1, <2>3, <2>4, <2>5 DEF TakerIInv, TypeOK, Noted
<1>3. taker' = "none" => taker = "none" /\ watching' = watching /\ countdown' = countdown
    BY DEF Construct, Adopt, Embed, Destroy, ownVars
<1>. QED
    BY <1>1, <1>2, <1>3, LeavesTheCount

(* A taker for one window starts with that one, painted. *)
LEMMA TakeKeeps ==
    ASSUME TakerIInv, NEW w \in Widgets, takeScreenshot(w)
    PROVE  TakerIInv'
<1>1. topLevels' = [v \in {w} |-> "Painted"] /\ Noted' = {w}
    BY DEF takeScreenshot, Noted
<1>2. Unpainted' = {}
    BY <1>1 DEF Unpainted
<1>3. leftToPaint' = 0
    BY DEF takeScreenshot, TakerIInv, Unmade
<1>4. TypeOK'
    BY <1>1 DEF takeScreenshot, appVars, TakerIInv, TypeOK
<1>5. LeftToPaintExact'
    BY <1>2, <1>3, FS_EmptySet DEF LeftToPaintExact, Unpainted
<1>. QED
    BY <1>4, <1>5 DEF TakerIInv, Unmade, takeScreenshot

LEMMA NoteKeeps ==
    ASSUME IsFiniteSet(Widgets), TakerIInv, NEW w \in Widgets, Note(w)
    PROVE  TakerIInv'
<1>1. Noted' = Noted \cup {w} /\ w \notin Noted
    BY DEF Note, Noted
<1>2. /\ topLevels'[w] = "Initial"
      /\ \A v \in Noted : topLevels'[v] = topLevels[v]
    BY DEF Note
<1>3. Unpainted' = Unpainted \cup {w} /\ w \notin Unpainted
    BY <1>1, <1>2 DEF Unpainted
<1>4. Cardinality(Unpainted') = Cardinality(Unpainted) + 1
    BY <1>3, FewLeft, FS_AddElement DEF TakerIInv
<1>5. leftToPaint' = leftToPaint + 1 /\ leftToPaint \in Int
    BY DEF Note, TakerIInv, TypeOK
<1>6. LeftToPaintExact'
    BY <1>4, <1>5 DEF TakerIInv, LeftToPaintExact, Unpainted
<1>7. topLevels' \in [Noted' -> {"Initial", "Updated", "Painted"}]
    BY <1>1 DEF Note, TakerIInv, TypeOK
<1>8. TypeOK'
    BY <1>1, <1>5, <1>7 DEF Note, appVars, TakerIInv, TypeOK
<1>. QED
    BY <1>6, <1>8 DEF Note, TakerIInv, Unmade

(* The counter goes down when a window that was never painted is. *)
LEMMA EventKeeps ==
    ASSUME IsFiniteSet(Widgets), Delay \in Nat, TakerIInv,
           NEW w \in Widgets, NEW paint \in BOOLEAN, Event(w, paint)
    PROVE  TakerIInv'
<1>. PICK visible \in BOOLEAN :
        /\ topLevels' = [topLevels EXCEPT ![w] = AfterEvent(Updated(topLevels[w], visible), paint)]
        /\ leftToPaint' = leftToPaint - NowPainted(Updated(topLevels[w], visible), paint)
    BY DEF Event
<1>. DEFINE s == Updated(topLevels[w], visible)
<1>1. w \in Noted /\ topLevels[w] \in {"Initial", "Updated", "Painted"}
    BY DEF Event, TakerIInv, TypeOK
<1>2. s \in {"Initial", "Updated", "Painted"} /\ (s = "Painted" <=> topLevels[w] = "Painted")
    BY <1>1 DEF Updated
<1>3. Noted' = Noted
    BY DEF Noted
<1>4. topLevels' \in [Noted -> {"Initial", "Updated", "Painted"}]
    BY <1>1, <1>2 DEF AfterEvent, TakerIInv, TypeOK
<1>5. /\ topLevels'[w] = AfterEvent(s, paint)
      /\ \A v \in Noted : v # w => topLevels'[v] = topLevels[v]
    BY <1>1 DEF TakerIInv, TypeOK
<1>6. leftToPaint' \in Int /\ LeftToPaintExact'
  <2>1. leftToPaint \in Int /\ leftToPaint = Cardinality(Unpainted)
      BY DEF TakerIInv, TypeOK, LeftToPaintExact, Unpainted
  <2>2. CASE paint /\ s # "Painted"
    <3>1. Unpainted' = Unpainted \ {w} /\ w \in Unpainted
        BY <1>1, <1>2, <1>3, <1>5, <2>2 DEF Unpainted, AfterEvent
    <3>2. Cardinality(Unpainted') = Cardinality(Unpainted) - 1
        BY <3>1, FewLeft, FS_RemoveElement DEF TakerIInv
    <3>3. leftToPaint' = leftToPaint - 1
        BY <2>2 DEF NowPainted
    <3>4. leftToPaint' = Cardinality(Unpainted')
        BY <2>1, <3>2, <3>3
    <3>5. LeftToPaintExact'
        BY <3>4, Zenon DEF LeftToPaintExact, Unpainted
    <3>. QED
        BY <2>1, <3>3, <3>5
  <2>3. CASE ~(paint /\ s # "Painted")
    <3>1. AfterEvent(s, paint) = "Painted" <=> topLevels[w] = "Painted"
        BY <1>2, <2>3 DEF AfterEvent
    <3>2. Unpainted' = Unpainted
        BY <1>1, <1>3, <1>5, <3>1 DEF Unpainted
    <3>3. leftToPaint' = leftToPaint
        BY <2>1, <2>3 DEF NowPainted
    <3>4. LeftToPaintExact'
        BY <2>1, <3>2, <3>3, Zenon DEF LeftToPaintExact, Unpainted
    <3>. QED
        BY <2>1, <3>3, <3>4
  <2>. QED
      BY <2>2, <2>3
<1>7. /\ phase' \in {"Collecting", "Collected", "Screenshot"}
      /\ countdown' \in Int /\ watching' \in BOOLEAN
  <2>1. scheduleScreenshots \/ UNCHANGED <<phase, countdown, watching>>
      BY DEF Event
  <2>2. watching' \in BOOLEAN
      BY <2>1, Zenon DEF scheduleScreenshots, TakerIInv, TypeOK
  <2>3. phase' \in {"Collecting", "Collected", "Screenshot"} /\ countdown' \in Int
      BY <2>1 DEF scheduleScreenshots, TakerIInv, TypeOK
  <2>. QED
      BY <2>2, <2>3
<1>8. /\ painted' \in SUBSET Widgets
      /\ appVars' = appVars /\ taker' = taker
      /\ forWindow' = forWindow /\ clock' = clock /\ shots' = shots
    BY DEF Event, appVars, TakerIInv, TypeOK
<1>9. TypeOK'
    BY <1>3, <1>4, <1>6, <1>7, <1>8 DEF appVars, TakerIInv, TypeOK
<1>10. taker # "none"
    BY DEF Event, TakerIInv, Unmade
<1>. QED
    BY <1>6, <1>8, <1>9, <1>10 DEF TakerIInv, Unmade

(* The timer and the clock. *)
LEMMA LoopKeeps ==
    ASSUME Delay \in Nat, TakerIInv, Loop
    PROVE  TakerIInv'
<1>1. topLevels' = topLevels /\ leftToPaint' = leftToPaint
    BY DEF Loop, PatienceOver, takeScreenshots, Delete, TimePasses
<1>2. TypeOK'
  <2>1. CASE PatienceOver
    <3>1. watching' \in BOOLEAN
        BY <2>1, Zenon DEF PatienceOver, scheduleScreenshots
    <3>2. /\ phase' = "Screenshot" /\ countdown' \in Int
          /\ appVars' = appVars /\ taker' = taker /\ forWindow' = forWindow
          /\ clock' = clock /\ painted' = painted /\ shots' = shots
        BY <2>1 DEF PatienceOver, scheduleScreenshots
    <3>. QED
        BY <1>1, <3>1, <3>2 DEF appVars, TakerIInv, TypeOK, Noted
  <2>2. CASE takeScreenshots
    <3>1. shots' \in [Widgets -> Nat]
        BY <2>2 DEF takeScreenshots, TakerIInv, TypeOK
    <3>. QED
        BY <2>2, <1>1, <3>1 DEF takeScreenshots, appVars, TakerIInv, TypeOK, Noted
  <2>3. CASE Delete
    <3>1. watching' \in BOOLEAN /\ taker' = "gone" /\ countdown' = Off
        BY <2>3 DEF Delete
    <3>2. /\ appVars' = appVars /\ forWindow' = forWindow /\ phase' = phase
          /\ clock' = clock /\ painted' = painted /\ shots' = shots
        BY <2>3 DEF Delete
    <3>3. Off \in Int
        BY DEF Off
    <3>. QED
        BY <1>1, <3>1, <3>2, <3>3 DEF appVars, TakerIInv, TypeOK, Noted
  <2>4. CASE TimePasses
      BY <2>4, <1>1 DEF TimePasses, appVars, TakerIInv, TypeOK, Noted
  <2>. QED
      BY <2>1, <2>2, <2>3, <2>4 DEF Loop
<1>3. taker' # "none"
  <2>1. taker = "none" => countdown = -1
      BY DEF TakerIInv, Unmade, Off
  <2>. QED
      BY <2>1 DEF Loop, Expired, PatienceOver, takeScreenshots, Delete, TimePasses
<1>. QED
    BY <1>1, <1>2, <1>3, LeavesTheCount

LEMMA TakerStepInv ==
    ASSUME IsFiniteSet(Widgets), CollectTime \in Nat, Delay \in Nat, TakerIInv, [TakerNext]_screenVars
    PROVE  TakerIInv'
<1>1. CASE SpinUp \/ Disable
    BY <1>1, LeavesTheCount DEF SpinUp, Disable, ownVars, TakerIInv, TypeOK, Noted
<1>2. CASE Startup
    BY <1>2, LeavesTheCount DEF Startup, appVars, TakerIInv, TypeOK, Noted
<1>3. CASE UNCHANGED screenVars
    BY <1>3, LeavesTheCount DEF screenVars, appVars, ownVars, TakerIInv, TypeOK, Noted
<1>4. ASSUME NEW w \in Widgets, Construct(w) \/ Adopt(w) \/ Embed(w) \/ Destroy(w) PROVE TakerIInv'
    BY <1>4, ProgramKeeps
<1>5. ASSUME NEW w \in Widgets, takeScreenshot(w) \/ Note(w) PROVE TakerIInv'
    BY <1>5, TakeKeeps, NoteKeeps
<1>6. ASSUME NEW w \in Widgets, NEW paint \in BOOLEAN, Event(w, paint) PROVE TakerIInv'
    BY <1>6, EventKeeps
<1>7. CASE Loop
    BY <1>7, LoopKeeps
<1>. QED
    BY <1>1, <1>2, <1>3, <1>4, <1>5, <1>6, <1>7 DEF TakerNext, Program

(* leftToPaint, on which the early screenshots depend, is the number of    *)
(* noted windows that were never painted, those that were deleted or       *)
(* adopted included, for any finite number of windows that come, go and    *)
(* are painted again in any order (ScreenshotTaker::eventFilter).          *)
THEOREM CounterIsExact ==
    ASSUME IsFiniteSet(Widgets), CollectTime \in Nat, Delay \in Nat
    PROVE  TakerSpec => []LeftToPaintExact
<1>1. TakerInit => TakerIInv
    BY TakerInitInv
<1>2. TakerIInv /\ [TakerNext]_screenVars => TakerIInv'
    BY TakerStepInv
<1>3. TakerIInv => LeftToPaintExact
    BY DEF TakerIInv
<1>. QED
    BY <1>1, <1>2, <1>3, PTL DEF TakerSpec

-----------------------------------------------------------------------------
(* What the pictures rest on: the noted windows that were painted are the  *)
(* ones to be shot, nothing is painted any more once the screenshots are   *)
(* scheduled, the timer cannot expire again before the taker is gone, and  *)
(* no window leaves its scene nor is no_screenshots taken back.            *)
ShotsInv ==
    /\ painted = {w \in Noted : topLevels[w] = "Painted"}
    /\ \A w \in painted : widget[w] # "unborn"
    /\ phase = "Screenshot" => ~watching
    /\ taker = "none" => phase = "Collecting"
    /\ taker \in {"none", "live"} => \A w \in Widgets : shots[w] = 0
    /\ taker = "deleting" =>
          /\ phase = "Screenshot" /\ countdown # 0
          /\ ~disabled => \A w \in painted : IsWindow(w) /\ ~IsProxied(w) => shots[w] = 1
    /\ \A w \in Widgets : shots[w] = 0 \/ (shots[w] = 1 /\ w \in painted)

LEMMA ShotsInit == TakerInit => ShotsInv
<1>. SUFFICES ASSUME TakerInit PROVE ShotsInv
    OBVIOUS
<1>1. Noted = {} /\ painted = {} /\ taker = "none" /\ phase = "Collecting"
    BY DEF TakerInit, Noted
<1>2. \A w \in Widgets : shots[w] = 0
    BY DEF TakerInit
<1>. QED
    BY <1>1, <1>2 DEF ShotsInv

(* Widgets come and go, but none is born again. *)
LEMMA ProgramKeepsShots ==
    ASSUME TakerIInv, ShotsInv, NEW w \in Widgets, Construct(w) \/ Adopt(w) \/ Embed(w) \/ Destroy(w)
    PROVE  ShotsInv'
<1>1. /\ phase' = phase /\ topLevels' = topLevels /\ painted' = painted /\ shots' = shots
      /\ Noted' = Noted /\ disabled' = disabled
    BY DEF Construct, Adopt, Embed, Destroy, Turns, ownVars, Noted
<1>2. \/ taker' = taker /\ watching' = watching /\ countdown' = countdown
      \/ taker' = "gone" /\ watching' = FALSE
    BY DEF Construct, Adopt, Embed, Destroy, ownVars
<1>3. \A v \in Widgets : widget[v] # "unborn" =>
            widget'[v] # "unborn" /\ (widget'[v] = "window" => widget[v] = "window")
    BY DEF Construct, Adopt, Embed, Destroy, Turns, TakerIInv, TypeOK
<1>4. painted \subseteq Widgets
    BY DEF TakerIInv, TypeOK
<1>5. CASE taker' = taker /\ watching' = watching /\ countdown' = countdown
  <2>1. phase' = "Screenshot" => ~watching'
      BY <1>1, <1>5, Zenon DEF ShotsInv
  <2>2. taker' = taker /\ countdown' = countdown
      BY <1>5
  <2>. QED
      BY <1>1, <1>3, <1>4, <2>1, <2>2 DEF ShotsInv, IsWindow, IsProxied
<1>6. CASE taker' = "gone" /\ watching' = FALSE
  <2>1. taker' = "gone" /\ ~watching'
      BY <1>6
  <2>. QED
      BY <1>1, <1>3, <1>4, <2>1 DEF ShotsInv
<1>. QED
    BY <1>2, <1>5, <1>6

LEMMA TakeKeepsShots ==
    ASSUME TakerIInv, ShotsInv, NEW w \in Widgets, takeScreenshot(w)
    PROVE  ShotsInv'
<1>1. /\ topLevels' = [v \in {w} |-> "Painted"] /\ Noted' = {w} /\ painted' = {w}
      /\ widget' = widget /\ widget[w] # "unborn" /\ shots' = shots
      /\ taker = "none" /\ taker' = "live" /\ phase' = "Collected"
    BY DEF takeScreenshot, appVars, IsWindow, Noted
<1>2. painted' = {v \in Noted' : topLevels'[v] = "Painted"}
    BY <1>1
<1>3. \A v \in Widgets : shots'[v] = 0
    BY <1>1 DEF ShotsInv
<1>. QED
    BY <1>1, <1>2, <1>3 DEF ShotsInv

LEMMA NoteKeepsShots ==
    ASSUME TakerIInv, ShotsInv, NEW w \in Widgets, Note(w)
    PROVE  ShotsInv'
<1>1. /\ Noted' = Noted \cup {w} /\ w \notin Noted /\ topLevels'[w] = "Initial"
      /\ \A v \in Noted : topLevels'[v] = topLevels[v]
    BY DEF Note, Noted
<1>2. /\ widget' = widget /\ disabled' = disabled /\ taker' = taker /\ phase' = phase
      /\ watching' = watching /\ countdown' = countdown /\ painted' = painted /\ shots' = shots
    BY DEF Note, appVars
<1>3. painted' = {v \in Noted' : topLevels'[v] = "Painted"}
    BY <1>1, <1>2 DEF ShotsInv
<1>. QED
    BY <1>2, <1>3 DEF ShotsInv, IsWindow, IsProxied

(* A taker that is being deleted sees no events, as it stopped watching    *)
(* when it scheduled the screenshots.                                      *)
LEMMA EventKeepsShots ==
    ASSUME TakerIInv, ShotsInv, NEW w \in Widgets, NEW paint \in BOOLEAN, Event(w, paint)
    PROVE  ShotsInv'
<1>. PICK visible \in BOOLEAN :
        topLevels' = [topLevels EXCEPT ![w] = AfterEvent(Updated(topLevels[w], visible), paint)]
    BY DEF Event
<1>1. Noted' = Noted /\ w \in Noted /\ topLevels \in [Noted -> {"Initial", "Updated", "Painted"}]
    BY DEF Event, Noted, TakerIInv, TypeOK
<1>2. /\ topLevels'[w] = "Painted" <=> paint \/ topLevels[w] = "Painted"
      /\ \A v \in Noted : v # w => topLevels'[v] = topLevels[v]
    BY <1>1 DEF AfterEvent, Updated
<1>3. /\ painted' = IF paint THEN painted \cup {w} ELSE painted
      /\ widget' = widget /\ widget[w] # "unborn" /\ taker' = taker /\ shots' = shots
      /\ watching
    BY DEF Event, appVars, IsWindow
<1>4. painted' = {v \in Noted' : topLevels'[v] = "Painted"}
    BY <1>1, <1>2, <1>3 DEF ShotsInv
<1>5. taker # "deleting" /\ taker # "none"
    BY <1>3 DEF ShotsInv, TakerIInv, Unmade
<1>6. phase' = "Screenshot" => ~watching'
  <2>1. scheduleScreenshots \/ (phase' = phase /\ watching' = watching)
      BY DEF Event
  <2>. QED
      BY <2>1 DEF scheduleScreenshots, ShotsInv
<1>7. painted \subseteq painted'
    BY <1>3
<1>. QED
    BY <1>3, <1>4, <1>5, <1>6, <1>7 DEF ShotsInv

LEMMA LoopKeepsShots ==
    ASSUME Delay \in Nat \ {0}, TakerIInv, ShotsInv, Loop
    PROVE  ShotsInv'
<1>1. /\ Noted' = Noted /\ topLevels' = topLevels /\ painted' = painted /\ widget' = widget
      /\ disabled' = disabled /\ painted \subseteq Widgets
    BY DEF Loop, appVars, PatienceOver, takeScreenshots, Delete, TimePasses, Noted, TakerIInv, TypeOK
<1>2. taker = "none" => countdown = -1
    BY DEF TakerIInv, Unmade, Off
<1>3. CASE PatienceOver
  <2>1. taker' = taker /\ shots' = shots /\ taker # "none" /\ taker # "deleting"
      BY <1>2, <1>3 DEF PatienceOver, Expired, ShotsInv
  <2>2. ~watching'
      BY <1>3, Zenon DEF PatienceOver, scheduleScreenshots
  <2>. QED
      BY <1>1, <2>1, <2>2 DEF ShotsInv
<1>4. CASE takeScreenshots
  <2>1. taker = "live"
      BY <1>2, <1>4 DEF takeScreenshots, Expired, ShotsInv, TakerIInv, TypeOK
  <2>2. \A w \in Widgets : shots[w] = 0
      BY <2>1 DEF ShotsInv
  <2>3. \A w \in Widgets : shots'[w] =
            IF ~disabled /\ w \in painted /\ IsWindow(w) /\ ~IsProxied(w) THEN 1 ELSE 0
      BY <2>2, <1>4 DEF takeScreenshots, Shootable, ShotsInv
  <2>4. /\ taker' = "deleting" /\ phase' = "Screenshot" /\ phase = "Screenshot"
        /\ watching' = watching /\ countdown' # 0
      BY <1>4 DEF takeScreenshots
  <2>. QED
      BY <1>1, <2>3, <2>4 DEF ShotsInv, IsWindow, IsProxied
<1>5. CASE Delete
    BY <1>1, <1>5 DEF Delete, ShotsInv
<1>6. CASE TimePasses
    BY <1>1, <1>6 DEF TimePasses, ShotsInv
<1>. QED
    BY <1>3, <1>4, <1>5, <1>6 DEF Loop

LEMMA ShotsStep ==
    ASSUME Delay \in Nat \ {0}, TakerIInv, ShotsInv, [TakerNext]_screenVars
    PROVE  ShotsInv'
<1>1. CASE SpinUp \/ Disable
    BY <1>1 DEF SpinUp, Disable, ownVars, ShotsInv, Noted, IsWindow, IsProxied
<1>2. CASE Startup
    BY <1>2 DEF Startup, appVars, ShotsInv, Noted
<1>3. CASE UNCHANGED screenVars
    BY <1>3 DEF screenVars, appVars, ownVars, ShotsInv, Noted, IsWindow, IsProxied
<1>4. ASSUME NEW w \in Widgets, Construct(w) \/ Adopt(w) \/ Embed(w) \/ Destroy(w) PROVE ShotsInv'
    BY <1>4, ProgramKeepsShots
<1>5. ASSUME NEW w \in Widgets, takeScreenshot(w) \/ Note(w) PROVE ShotsInv'
    BY <1>5, TakeKeepsShots, NoteKeepsShots
<1>6. ASSUME NEW w \in Widgets, NEW paint \in BOOLEAN, Event(w, paint) PROVE ShotsInv'
    BY <1>6, EventKeepsShots
<1>7. CASE Loop
    BY <1>7, LoopKeepsShots
<1>. QED
    BY <1>1, <1>2, <1>3, <1>4, <1>5, <1>6, <1>7 DEF TakerNext, Program

(* When the pictures have been taken, each window that was painted while   *)
(* the taker watched, and that is still one and in no scene, has one       *)
(* picture unless no_screenshots was set; no window has two, or one that   *)
(* was not painted.  The timer needs a positive delay: with none, it could *)
(* expire again before deleteLater() has been served                       *)
(* (ScreenshotTaker::timerEvent).                                          *)
THEOREM PicturesAreRight ==
    ASSUME IsFiniteSet(Widgets), CollectTime \in Nat, Delay \in Nat \ {0}
    PROVE  TakerSpec => []PaintedWindowsAreShot
<1>. Delay \in Nat
    OBVIOUS
<1>1. TakerInit => TakerIInv /\ ShotsInv
    BY TakerInitInv, ShotsInit
<1>2. TakerIInv /\ ShotsInv /\ [TakerNext]_screenVars => (TakerIInv /\ ShotsInv)'
    BY TakerStepInv, ShotsStep
<1>3. ShotsInv => PaintedWindowsAreShot
    BY DEF ShotsInv, PaintedWindowsAreShot
<1>. QED
    BY <1>1, <1>2, <1>3, PTL DEF TakerSpec

-----------------------------------------------------------------------------
(***************************************************************************)
(* For every set of threads, every timeout and every bound, no row is red  *)
(* unless a handler of its thread ran longer than the timeout.             *)
(*                                                                         *)
(* What has to be excluded is a ping that is left over: of a handler that  *)
(* has returned, or of an entry that the main thread has erased while a    *)
(* handler was running.  The invariant ties a ping to the innermost call   *)
(* of notify: where there is one, the reference of that call is good, and  *)
(* hence the return from it clears the ping.  Reports stay true on their   *)
(* way to the view because lateness is never taken back.                   *)
(***************************************************************************)

MonitorEntries == [ping : Int, stuck : BOOLEAN, exists : BOOLEAN]

MonitorTypes == /\ m_threads \in [Threads -> MonitorEntries]
                /\ frames \in [Threads -> Seq(BOOLEAN)]
                /\ connections \in [Threads -> Nat]
                /\ late \in SUBSET Threads
                /\ rows \in [Threads -> {"none", "plain", "red", "finished"}]

(* Events that tell no lie when the threads of L have been late. *)
News(L) == ({"event", "finished", "newThread"} \X Threads)
             \cup ({"state"} \X Threads \X {FALSE})
             \cup ({"state"} \X L \X {TRUE})

Pinging == \A t \in Threads :
              m_threads[t].ping # Zero => frames[t] # <<>> /\ Head(frames[t]) = TRUE
Overdue == \A t \in Threads : m_threads[t].ping > Timeout => t \in late
Truthful == queue \in Seq(News(late)) /\ m_toEmit \in SUBSET News(late)

MonitorIInv == MonitorTypes /\ Pinging /\ Overdue /\ Truthful /\ NoFalseAlarm

-----------------------------------------------------------------------------
(* Sequences. *)
LEMMA Copies ==
    ASSUME NEW S, NEW e \in S, NEW n \in Nat
    PROVE  [i \in 1..n |-> e] \in Seq(S)
<1>1. [i \in 1..n |-> e] \in [1..n -> S]
    OBVIOUS
<1>. QED
    BY <1>1, SeqDef

LEMMA WiderSeq ==
    ASSUME NEW S, NEW T, S \subseteq T, NEW seq \in Seq(S)
    PROVE  seq \in Seq(T)
<1>1. Len(seq) \in Nat /\ seq \in [1..Len(seq) -> S]
    OBVIOUS
<1>2. seq \in [1..Len(seq) -> T]
    BY <1>1
<1>. QED
    BY <1>1, <1>2, SeqDef

LEMMA Ends ==
    ASSUME NEW S, NEW seq \in Seq(S)
    PROVE  /\ \A e \in S : Append(seq, e) \in Seq(S)
           /\ seq # <<>> => Head(seq) \in S /\ Tail(seq) \in Seq(S)
    OBVIOUS

LEMMA Stacked ==
    ASSUME NEW S, NEW e \in S, NEW seq \in Seq(S)
    PROVE  /\ <<e>> \o seq \in Seq(S) /\ <<e>> \o seq # <<>>
           /\ Head(<<e>> \o seq) = e
<1>1. <<e>> \in Seq(S) /\ Len(<<e>>) = 1 /\ <<e>>[1] = e
    OBVIOUS
<1>2. /\ <<e>> \o seq \in Seq(S) /\ Len(<<e>> \o seq) = 1 + Len(seq)
      /\ \A i \in 1..(1 + Len(seq)) :
            (<<e>> \o seq)[i] = IF i <= 1 THEN <<e>>[i] ELSE seq[i - 1]
    BY <1>1, ConcatProperties
<1>3. Len(seq) \in Nat /\ 1 \in 1..(1 + Len(seq))
    OBVIOUS
<1>4. (<<e>> \o seq)[1] = e /\ <<e>> \o seq # <<>>
    BY <1>1, <1>2, <1>3, EmptySeq
<1>. QED
    BY <1>2, <1>4

(* The changes of an entry. *)
LEMMA Changed ==
    ASSUME NEW e \in MonitorEntries
    PROVE  /\ e.ping \in Int
           /\ \A n \in Int : /\ [e EXCEPT !.ping = n] \in MonitorEntries
                           /\ [e EXCEPT !.ping = n].ping = n
           /\ \A n \in Int : /\ [e EXCEPT !.ping = n, !.exists = TRUE] \in MonitorEntries
                           /\ [e EXCEPT !.ping = n, !.exists = TRUE].ping = n
           /\ \A b \in BOOLEAN : /\ [e EXCEPT !.stuck = b] \in MonitorEntries
                               /\ [e EXCEPT !.stuck = b].ping = e.ping
<1>1. e.ping \in Int /\ e.stuck \in BOOLEAN /\ e.exists \in BOOLEAN
    BY DEF MonitorEntries
<1>3. ASSUME NEW n \in Int
      PROVE  /\ [e EXCEPT !.ping = n] \in MonitorEntries
             /\ [e EXCEPT !.ping = n].ping = n
    BY DEF MonitorEntries
<1>4. ASSUME NEW n \in Int
      PROVE  /\ [e EXCEPT !.ping = n, !.exists = TRUE] \in MonitorEntries
             /\ [e EXCEPT !.ping = n, !.exists = TRUE].ping = n
    BY DEF MonitorEntries
<1>5. ASSUME NEW b \in BOOLEAN
      PROVE  /\ [e EXCEPT !.stuck = b] \in MonitorEntries
             /\ [e EXCEPT !.stuck = b].ping = e.ping
    BY DEF MonitorEntries
<1>. QED
    BY <1>1, <1>3, <1>4, <1>5

(* The threads that were late stay so. *)
LEMMA MoreNews == ASSUME NEW L, NEW K, L \subseteq K PROVE News(L) \subseteq News(K)
    BY DEF News

(* The kinds of news. *)
LEMMA NewsHas ==
    ASSUME NEW L \in SUBSET Threads, NEW t \in Threads
    PROVE  /\ \A kind \in {"event", "finished", "newThread"} : <<kind, t>> \in News(L)
           /\ <<"state", t, FALSE>> \in News(L)
           /\ t \in L => <<"state", t, TRUE>> \in News(L)
    BY DEF News

LEMMA NewsTells ==
    ASSUME NEW L \in SUBSET Threads, NEW e \in News(L)
    PROVE  /\ e[2] \in Threads
           /\ e[1] = "state" => e[3] \in BOOLEAN /\ (e[3] = TRUE => e[2] \in L)
<1>1. CASE e \in {"event", "finished", "newThread"} \X Threads
    BY <1>1
<1>2. CASE e \in {"state"} \X Threads \X {FALSE}
    BY <1>2
<1>3. CASE e \in {"state"} \X L \X {TRUE}
    BY <1>3
<1>. QED
    BY <1>1, <1>2, <1>3 DEF News

-----------------------------------------------------------------------------
LEMMA MonitorInitInv == ASSUME Timeout \in Nat, MonitorInit PROVE MonitorIInv
<1>1. NoEntry \in MonitorEntries /\ NoEntry.ping = Zero /\ Zero = -1
    BY DEF NoEntry, MonitorEntries, Zero
<1>2. <<>> \in Seq(BOOLEAN) /\ <<>> \in Seq(News(late))
    OBVIOUS
<1>3. MonitorTypes
    BY <1>1, <1>2 DEF MonitorInit, MonitorTypes
<1>4. \A t \in Threads : m_threads[t].ping = Zero
    BY <1>1 DEF MonitorInit
<1>5. Pinging
    BY <1>4, Zenon DEF Pinging
<1>6. \A t \in Threads : m_threads[t].ping = -1
    BY <1>1, <1>4
<1>7. Overdue
    BY <1>6 DEF Overdue
<1>. QED
    BY <1>2, <1>3, <1>5, <1>7 DEF MonitorInit, MonitorIInv, Truthful, NoFalseAlarm

LEMMA EnterKeeps ==
    ASSUME Timeout \in Nat, MonitorIInv, NEW t \in Threads, Enter(t)
    PROVE  MonitorIInv'
<1>. DEFINE entry == [m_threads[t] EXCEPT !.ping = 0, !.exists = TRUE]
<1>1. entry \in MonitorEntries /\ entry.ping = 0
  <2>1. m_threads[t] \in MonitorEntries /\ 0 \in Int
      BY DEF MonitorIInv, MonitorTypes
  <2>. QED
      BY <2>1, Changed, Zenon
<1>2. m_threads' = [m_threads EXCEPT ![t] = entry]
    BY DEF Enter, Set
<1>3. frames' = [frames EXCEPT ![t] = <<TRUE>> \o @]
    BY DEF Enter
<1>4. <<TRUE>> \o frames[t] \in Seq(BOOLEAN) /\ <<TRUE>> \o frames[t] # <<>>
      /\ Head(<<TRUE>> \o frames[t]) = TRUE
    BY Stacked DEF MonitorIInv, MonitorTypes
<1>5. m_threads' \in [Threads -> MonitorEntries] /\ frames' \in [Threads -> Seq(BOOLEAN)]
    BY <1>1, <1>2, <1>3, <1>4 DEF MonitorIInv, MonitorTypes
<1>6. /\ connections' \in [Threads -> Nat]
      /\ queue' = queue \/ queue' = Append(queue, <<"event", t>>)
    BY DEF Enter, Post, MonitorIInv, MonitorTypes
<1>7. late' = late /\ rows' = rows /\ m_toEmit' = m_toEmit
    BY DEF Enter
<1>8. queue' \in Seq(News(late))
    BY <1>6, Ends, NewsHas DEF MonitorIInv, MonitorTypes, Truthful
<1>9. MonitorTypes' /\ Truthful' /\ NoFalseAlarm'
    BY <1>5, <1>6, <1>7, <1>8 DEF MonitorIInv, MonitorTypes, Truthful, NoFalseAlarm
<1>10. Pinging'
    BY <1>1, <1>2, <1>3, <1>4 DEF MonitorIInv, MonitorTypes, Pinging
<1>11. Overdue'
    BY <1>1, <1>2, <1>7 DEF MonitorIInv, MonitorTypes, Overdue
<1>. QED
    BY <1>9, <1>10, <1>11 DEF MonitorIInv

(* A return through a bad reference finds no ping to be cleared. *)
LEMMA LeaveKeeps ==
    ASSUME Timeout \in Nat, MonitorIInv, NEW t \in Threads, Leave(t)
    PROVE  MonitorIInv'
<1>1. Pinged(m_threads[t]) \in MonitorEntries /\ Pinged(m_threads[t]).ping = Zero /\ Zero = -1
  <2>1. Zero \in Int /\ Zero = -1
      BY DEF Zero
  <2>. QED
      BY <2>1, Changed DEF Pinged, MonitorIInv, MonitorTypes
<1>2. frames' = [frames EXCEPT ![t] = Tail(@)] /\ Tail(frames[t]) \in Seq(BOOLEAN)
  <2>1. frames[t] \in Seq(BOOLEAN)
      BY DEF MonitorIInv, MonitorTypes
  <2>2. frames[t] # <<>> /\ frames' = [frames EXCEPT ![t] = Tail(@)]
      BY Zenon DEF Leave
  <2>. QED
      BY <2>1, <2>2, Ends
<1>3. /\ late' = late /\ rows' = rows /\ m_toEmit' = m_toEmit
      /\ queue' = queue /\ connections' = connections
    BY DEF Leave
<1>4. CASE Set(t, Pinged(m_threads[t]))
  <2>1. m_threads' = [m_threads EXCEPT ![t] = Pinged(m_threads[t])]
      BY <1>4 DEF Set
  <2>2. m_threads' \in [Threads -> MonitorEntries]
      BY <1>1, <2>1 DEF MonitorIInv, MonitorTypes
  <2>3. MonitorTypes' /\ Truthful' /\ NoFalseAlarm'
      BY <1>2, <1>3, <2>2 DEF MonitorIInv, MonitorTypes, Truthful, NoFalseAlarm
  <2>4. /\ m_threads'[t].ping = Zero
        /\ \A u \in Threads \ {t} : m_threads'[u] = m_threads[u] /\ frames'[u] = frames[u]
      BY <1>1, <1>2, <2>1 DEF MonitorIInv, MonitorTypes
  <2>5. Pinging'
      BY <2>4, Zenon DEF MonitorIInv, Pinging
  <2>6. Overdue'
      BY <1>1, <1>3, <2>4 DEF MonitorIInv, Overdue
  <2>. QED
      BY <2>3, <2>5, <2>6 DEF MonitorIInv
<1>5. CASE ~Head(frames[t]) /\ UNCHANGED m_threads
  <2>1. m_threads[t].ping = Zero /\ m_threads' = m_threads
      BY <1>5 DEF MonitorIInv, Pinging
  <2>2. MonitorTypes' /\ Truthful' /\ NoFalseAlarm'
      BY <1>2, <1>3, <2>1 DEF MonitorIInv, MonitorTypes, Truthful, NoFalseAlarm
  <2>3. Pinging' /\ Overdue'
      BY <1>2, <1>3, <2>1 DEF MonitorIInv, MonitorTypes, Pinging, Overdue
  <2>. QED
      BY <2>2, <2>3 DEF MonitorIInv
<1>. QED
    BY <1>4, <1>5 DEF Leave

LEMMA FinishKeeps ==
    ASSUME Timeout \in Nat, MonitorIInv, NEW t \in Threads, Finish(t)
    PROVE  MonitorIInv'
<1>1. [i \in 1..connections[t] |-> <<"finished", t>>] \in Seq(News(late))
    BY Copies, NewsHas DEF MonitorIInv, MonitorTypes
<1>2. queue' \in Seq(News(late))
    BY <1>1, ConcatProperties, Zenon DEF Finish, MonitorIInv, Truthful
<1>. QED
    BY <1>2 DEF Finish, MonitorIInv, MonitorTypes, Pinging, Overdue, Truthful, NoFalseAlarm

LEMMA StartKeeps ==
    ASSUME MonitorIInv, NEW t \in Threads, Start(t)
    PROVE  MonitorIInv'
    BY DEF Start, MonitorIInv, MonitorTypes, Pinging, Overdue, Truthful, NoFalseAlarm

(* The notifier reports what it has seen. *)
LEMMA SampleKeeps ==
    ASSUME Timeout \in Nat, MonitorIInv, Sample
    PROVE  MonitorIInv'
<1>1. \A t \in Threads : IsStuck(t) \in BOOLEAN /\ (IsStuck(t) => t \in late)
  <2>1. \A t \in Threads : IsStuck(t) \in BOOLEAN
      BY DEF IsStuck
  <2>2. \A t \in Threads : IsStuck(t) => t \in late
      BY Zenon DEF IsStuck, MonitorIInv, Overdue
  <2>. QED
      BY <2>1, <2>2, Zenon
<1>2. \A t \in Threads : <<"state", t, IsStuck(t)>> \in News(late)
  <2>. SUFFICES ASSUME NEW t \in Threads PROVE <<"state", t, IsStuck(t)>> \in News(late)
      OBVIOUS
  <2>1. CASE IsStuck(t) = TRUE
      BY <1>1, <2>1, NewsHas DEF MonitorIInv, MonitorTypes
  <2>2. CASE IsStuck(t) = FALSE
      BY <2>2, NewsHas DEF MonitorIInv, MonitorTypes
  <2>. QED
      BY <1>1, <2>1, <2>2
<1>3. m_toEmit' \in SUBSET News(late)
    BY <1>2 DEF Sample, Sampled
<1>4. /\ m_threads' \in [Threads -> MonitorEntries]
      /\ \A t \in Threads : m_threads'[t].ping = m_threads[t].ping
  <2>1. \A t \in Threads : /\ [m_threads[t] EXCEPT !.stuck = IsStuck(t)] \in MonitorEntries
                           /\ [m_threads[t] EXCEPT !.stuck = IsStuck(t)].ping = m_threads[t].ping
      BY <1>1, Changed DEF MonitorIInv, MonitorTypes
  <2>. QED
      BY <2>1 DEF Sample, MonitorIInv, MonitorTypes
<1>5. /\ late' = late /\ rows' = rows /\ queue' = queue
      /\ connections' = connections /\ frames' = frames
    BY DEF Sample
<1>6. MonitorTypes' /\ Truthful' /\ NoFalseAlarm'
    BY <1>3, <1>4, <1>5 DEF MonitorIInv, MonitorTypes, Truthful, NoFalseAlarm
<1>7. Pinging' /\ Overdue'
    BY <1>4, <1>5 DEF MonitorIInv, Pinging, Overdue
<1>. QED
    BY <1>6, <1>7 DEF MonitorIInv

LEMMA EmitKeeps == ASSUME MonitorIInv, Emit PROVE MonitorIInv'
<1>1. PICK e \in m_toEmit : queue' = Append(queue, e) /\ m_toEmit' = m_toEmit \ {e}
    BY DEF Emit, Post
<1>2. e \in News(late)
    BY DEF MonitorIInv, Truthful
<1>3. queue' \in Seq(News(late)) /\ m_toEmit' \in SUBSET News(late)
    BY <1>1, <1>2, Ends DEF MonitorIInv, Truthful
<1>. QED
    BY <1>3 DEF Emit, MonitorIInv, MonitorTypes, Pinging, Overdue, Truthful, NoFalseAlarm

(* A new row is red only if the event at the head of the queue says so. *)
LEMMA DispatchKeeps == ASSUME Timeout \in Nat, MonitorIInv, Dispatch PROVE MonitorIInv'
<1>. DEFINE e == Head(queue)
            t == e[2]
<1>1. queue # <<>>
    BY DEF Dispatch, threadFinishedSlot, EventDestroyed, newThread, loopStateChanged, Delivered
<1>2. e \in News(late) /\ Tail(queue) \in Seq(News(late))
    BY <1>1, Ends DEF MonitorIInv, Truthful
<1>3. t \in Threads /\ (e[1] = "state" => e[3] \in BOOLEAN /\ (e[3] = TRUE => t \in late))
    BY <1>2, NewsTells DEF MonitorIInv, MonitorTypes
<1>4. CASE threadFinishedSlot
  <2>1. /\ queue' = Tail(queue) /\ late' = late /\ m_toEmit' = m_toEmit
        /\ connections' = connections
      BY <1>4 DEF threadFinishedSlot
  <2>2. CASE m_threads[t].exists
    <3>1. /\ m_threads' = [m_threads EXCEPT ![t] = NoEntry]
          /\ frames' = [frames EXCEPT ![t] = [i \in 1..Len(@) |-> FALSE]]
          /\ rows' = [rows EXCEPT ![t] = "finished"]
        BY <1>4, <2>2 DEF threadFinishedSlot, Erased, Set, Becomes
    <3>2. [i \in 1..Len(frames[t]) |-> FALSE] \in Seq(BOOLEAN)
        BY <1>3, Copies DEF MonitorIInv, MonitorTypes
    <3>3. NoEntry \in MonitorEntries /\ NoEntry.ping = Zero /\ Zero = -1
        BY DEF NoEntry, MonitorEntries, Zero
    <3>4. MonitorTypes' /\ Truthful' /\ NoFalseAlarm'
        BY <1>2, <1>3, <2>1, <3>1, <3>2, <3>3 DEF MonitorIInv, MonitorTypes, Truthful, NoFalseAlarm
    <3>5. /\ m_threads'[t].ping = Zero
          /\ \A u \in Threads \ {t} : m_threads'[u] = m_threads[u] /\ frames'[u] = frames[u]
        BY <1>3, <3>1, <3>3 DEF MonitorIInv, MonitorTypes
    <3>6. Pinging'
        BY <3>5, Zenon DEF MonitorIInv, Pinging
    <3>7. Overdue'
        BY <2>1, <3>3, <3>5 DEF MonitorIInv, Overdue
    <3>. QED
        BY <3>4, <3>6, <3>7 DEF MonitorIInv
  <2>3. CASE ~m_threads[t].exists
    <3>1. m_threads' = m_threads /\ frames' = frames /\ rows' = rows
        BY <1>4, <2>3 DEF threadFinishedSlot
    <3>. QED
        BY <1>2, <2>1, <3>1 DEF MonitorIInv, MonitorTypes, Pinging, Overdue, Truthful, NoFalseAlarm
  <2>. QED
      BY <2>2, <2>3
<1>5. CASE EventDestroyed
  <2>1. queue' = Append(Tail(queue), <<"newThread", t>>)
      BY <1>5 DEF EventDestroyed
  <2>2. queue' \in Seq(News(late))
      BY <1>2, <1>3, <2>1, NewsHas, Ends DEF MonitorIInv, MonitorTypes
  <2>. QED
      BY <1>5, <2>2 DEF EventDestroyed, MonitorIInv, MonitorTypes, Pinging, Overdue, Truthful, NoFalseAlarm
<1>6. CASE newThread
  <2>1. /\ queue' = Tail(queue)
        /\ rows' = [rows EXCEPT ![t] = IF Row(t) = "none" THEN "plain" ELSE rows[t]]
      BY <1>6 DEF newThread, Becomes
  <2>2. rows' \in [Threads -> {"none", "plain", "red", "finished"}] /\ NoFalseAlarm'
      BY <1>3, <1>6, <2>1 DEF newThread, MonitorIInv, MonitorTypes, NoFalseAlarm
  <2>. QED
      BY <1>2, <1>6, <2>1, <2>2 DEF newThread, MonitorIInv, MonitorTypes, Pinging, Overdue, Truthful
<1>7. CASE loopStateChanged
  <2>1. /\ queue' = Tail(queue) /\ e[1] = "state"
        /\ rows' = [rows EXCEPT ![t] = IF e[3] THEN "red" ELSE "plain"]
      BY <1>7 DEF loopStateChanged, Becomes, Delivered
  <2>2. rows' \in [Threads -> {"none", "plain", "red", "finished"}] /\ NoFalseAlarm'
      BY <1>3, <1>7, <2>1 DEF loopStateChanged, MonitorIInv, MonitorTypes, NoFalseAlarm
  <2>. QED
      BY <1>2, <1>7, <2>1, <2>2 DEF loopStateChanged, MonitorIInv, MonitorTypes, Pinging, Overdue, Truthful
<1>. QED
    BY <1>4, <1>5, <1>6, <1>7 DEF Dispatch

(* A ping that gets too old is that of a handler that is still running. *)
LEMMA TickKeeps == ASSUME Timeout \in Nat, MonitorIInv, Tick PROVE MonitorIInv'
<1>1. \A t \in Threads : /\ [m_threads[t] EXCEPT !.ping = @ + 1] \in MonitorEntries
                         /\ [m_threads[t] EXCEPT !.ping = @ + 1].ping = m_threads[t].ping + 1
  <2>. SUFFICES ASSUME NEW t \in Threads
       PROVE  /\ [m_threads[t] EXCEPT !.ping = @ + 1] \in MonitorEntries
              /\ [m_threads[t] EXCEPT !.ping = @ + 1].ping = m_threads[t].ping + 1
      OBVIOUS
  <2>1. m_threads[t] \in MonitorEntries
      BY DEF MonitorIInv, MonitorTypes
  <2>2. m_threads[t].ping \in Int
      BY <2>1, Changed, Zenon
  <2>3. m_threads[t].ping + 1 \in Int
      BY <2>2
  <2>. QED
      BY <2>1, <2>3, Changed, Zenon
<1>2. /\ m_threads' \in [Threads -> MonitorEntries]
      /\ \A t \in Threads : m_threads'[t].ping =
            IF m_threads[t].ping \in 0..Timeout THEN m_threads[t].ping + 1 ELSE m_threads[t].ping
    BY <1>1 DEF Tick, MonitorIInv, MonitorTypes
<1>3. \A t \in Threads : m_threads[t].ping \in Int /\ Zero = -1
    BY DEF MonitorIInv, MonitorTypes, MonitorEntries, Zero
<1>4. /\ frames' = frames /\ connections' = connections /\ rows' = rows
      /\ queue' = queue /\ m_toEmit' = m_toEmit
    BY DEF Tick
<1>5. Pinging'
  <2>1. \A t \in Threads : m_threads'[t].ping # Zero => m_threads[t].ping # Zero
      BY <1>2, <1>3
  <2>. QED
      BY <1>4, <2>1, Zenon DEF MonitorIInv, Pinging
<1>6. late' = late \cup {t \in Threads : m_threads'[t].ping > Timeout /\ frames[t] # <<>>}
    BY DEF Tick
<1>7. late \subseteq late' /\ late' \in SUBSET Threads
    BY <1>6 DEF MonitorIInv, MonitorTypes
<1>8. Overdue'
    BY <1>2, <1>3, <1>4, <1>5, <1>6 DEF MonitorIInv, Pinging, Overdue
<1>9. queue' \in Seq(News(late')) /\ m_toEmit' \in SUBSET News(late')
    BY <1>4, <1>7, MoreNews, WiderSeq DEF MonitorIInv, Truthful
<1>10. MonitorTypes' /\ Truthful' /\ NoFalseAlarm'
    BY <1>2, <1>4, <1>7, <1>9 DEF MonitorIInv, MonitorTypes, Truthful, NoFalseAlarm
<1>. QED
    BY <1>5, <1>8, <1>10 DEF MonitorIInv

LEMMA MonitorStepInv == ASSUME Timeout \in Nat, MonitorIInv, [MonitorNext]_monitorVars PROVE MonitorIInv'
<1>1. CASE Notifier
    BY <1>1, SampleKeeps, EmitKeeps DEF Notifier
<1>2. CASE Dispatch
    BY <1>2, DispatchKeeps
<1>3. CASE Tick
    BY <1>3, TickKeeps
<1>4. ASSUME NEW t \in Threads, Thread(t) PROVE MonitorIInv'
    BY <1>4, StartKeeps, EnterKeeps, LeaveKeeps, FinishKeeps DEF Thread
<1>5. CASE UNCHANGED monitorVars
    BY <1>5 DEF monitorVars, MonitorIInv, MonitorTypes, Pinging, Overdue, Truthful, NoFalseAlarm
<1>. QED
    BY <1>1, <1>2, <1>3, <1>4, <1>5 DEF MonitorNext

(* No thread is shown as stuck unless one of its handlers ran for longer   *)
(* than the timeout: neither nested handlers nor entries erased under a    *)
(* running notify cause a false alarm (MonitorApplication::notify,         *)
(* timerEvent, threadFinishedSlot, loopStateChanged).                      *)
THEOREM AlarmsAreTrue == ASSUME Timeout \in Nat PROVE MonitorSpec => []NoFalseAlarm
<1>1. MonitorInit => MonitorIInv
    BY MonitorInitInv
<1>2. MonitorIInv /\ [MonitorNext]_monitorVars => MonitorIInv'
    BY MonitorStepInv
<1>3. MonitorIInv => NoFalseAlarm
    BY DEF MonitorIInv
<1>. QED
    BY <1>1, <1>2, <1>3, PTL DEF MonitorSpec

-----------------------------------------------------------------------------
(***************************************************************************)
(* However many calls of setActive are on their way, finished() is emitted *)
(* at most once.  The argument: the only functor that activates is the one *)
(* of the constructor, the first; once it is done the worker is active     *)
(* until its first finished(), and never again after.  main() destroys the *)
(* worker, which makes it inactive too, when no functor is under way.      *)
(***************************************************************************)

ExitTypes == /\ calls \in Seq(BOOLEAN)
             /\ m_active \in BOOLEAN /\ inFunctor \in BOOLEAN
             /\ closes \in Nat /\ finishes \in Nat

AsksOnly(seq) == \A i \in 1..Len(seq) : ~seq[i]

ExitIInv == /\ ExitTypes
            /\ \A i \in 2..Len(calls) : ~calls[i]
            /\ m_active => AsksOnly(calls)
            /\ inFunctor => m_active /\ finishes = 1
            /\ finishes # 0 => finishes = 1 /\ AsksOnly(calls) /\ (inFunctor \/ ~m_active)
            /\ main \in {"joined", "done"} => ~inFunctor

(* What is left when the first functor is taken is of the kind it was. *)
LEMMA TailAsks ==
    ASSUME NEW seq \in Seq(BOOLEAN), seq # <<>>
    PROVE  /\ Tail(seq) \in Seq(BOOLEAN)
           /\ (\A i \in 2..Len(seq) : ~seq[i]) => AsksOnly(Tail(seq))
           /\ AsksOnly(seq) => AsksOnly(Tail(seq)) /\ ~Head(seq)
<1>1. /\ Tail(seq) \in Seq(BOOLEAN) /\ Len(Tail(seq)) = Len(seq) - 1
      /\ \A i \in 1..Len(Tail(seq)) : Tail(seq)[i] = seq[i + 1]
      /\ Len(seq) \in Nat /\ Len(seq) > 0 /\ Head(seq) = seq[1]
    OBVIOUS
<1>2. ASSUME \A i \in 2..Len(seq) : ~seq[i] PROVE AsksOnly(Tail(seq))
    BY <1>1, <1>2 DEF AsksOnly
<1>3. ASSUME AsksOnly(seq) PROVE ~Head(seq) /\ AsksOnly(Tail(seq))
  <2>1. \A i \in 2..Len(seq) : ~seq[i]
      BY <1>3 DEF AsksOnly
  <2>2. 1 \in 1..Len(seq)
      BY <1>1
  <2>3. ~seq[1]
      BY <1>3, <2>2 DEF AsksOnly
  <2>. QED
      BY <1>1, <1>2, <2>1, <2>3
<1>. QED
    BY <1>1, <1>2, <1>3

(* Asking once more adds a functor that deactivates. *)
LEMMA OneMoreAsk ==
    ASSUME NEW seq \in Seq(BOOLEAN)
    PROVE  /\ Append(seq, FALSE) \in Seq(BOOLEAN)
           /\ AsksOnly(seq) => AsksOnly(Append(seq, FALSE))
           /\ (\A i \in 2..Len(seq) : ~seq[i])
                => \A i \in 2..Len(Append(seq, FALSE)) : ~Append(seq, FALSE)[i]
    BY DEF AsksOnly

(* The first functor activates, whatever follows asks it to stop. *)
LEMMA ExitInitInv == ExitInit => ExitIInv
<1>. SUFFICES ASSUME ExitInit PROVE ExitIInv
    OBVIOUS
<1>1. Len(calls) = 1 /\ calls \in Seq(BOOLEAN)
    BY DEF ExitInit
<1>2. \A i \in 2..Len(calls) : ~calls[i]
    BY <1>1
<1>3. ExitTypes /\ ~m_active /\ ~inFunctor /\ finishes = 0
    BY <1>1 DEF ExitInit, ExitTypes
<1>. QED
    BY <1>2, <1>3 DEF ExitIInv

LEMMA CloseKeeps == ASSUME ExitIInv, closes' \in Nat, closeEvent PROVE ExitIInv'
<1>1. CASE m_active
  <2>1. calls' = Append(calls, FALSE)
      BY <1>1 DEF closeEvent, AskWorker
  <2>. QED
      BY <2>1, OneMoreAsk DEF closeEvent, ExitIInv, ExitTypes, AsksOnly
<1>2. CASE ~m_active
    BY <1>2 DEF closeEvent, ExitIInv, ExitTypes, AsksOnly
<1>. QED
    BY <1>1, <1>2 DEF ExitIInv, ExitTypes

LEMMA ExitStepInv == ExitIInv /\ [ExitNext]_exitVars => ExitIInv'
<1>. SUFFICES ASSUME ExitIInv, [ExitNext]_exitVars PROVE ExitIInv'
    OBVIOUS
<1>1. CASE Activate
  <2>1. Head(calls) /\ calls # <<>> /\ calls' = Tail(calls)
      BY <1>1 DEF Activate
  <2>2. AsksOnly(calls') /\ calls' \in Seq(BOOLEAN)
      BY <2>1, TailAsks DEF ExitIInv, ExitTypes
  <2>3. finishes = 0
      BY <2>1, TailAsks DEF ExitIInv, ExitTypes
  <2>4. \A i \in 2..Len(calls') : ~calls'[i]
      BY <2>2 DEF AsksOnly
  <2>5. ExitTypes' /\ finishes' = 0 /\ ~inFunctor'
      BY <1>1, <2>2, <2>3 DEF Activate, ExitIInv, ExitTypes
  <2>. QED
      BY <2>2, <2>4, <2>5 DEF ExitIInv, AsksOnly
<1>2. CASE Deactivate
  <2>1. m_active /\ ~inFunctor /\ calls # <<>> /\ calls' = Tail(calls)
      BY <1>2 DEF Deactivate, AlreadySo, ExitIInv, ExitTypes
  <2>2. AsksOnly(calls') /\ calls' \in Seq(BOOLEAN)
      BY <2>1, TailAsks DEF ExitIInv, ExitTypes
  <2>3. finishes = 0
      BY <2>1 DEF ExitIInv
  <2>4. \A i \in 2..Len(calls') : ~calls'[i]
      BY <2>2 DEF AsksOnly
  <2>5. inFunctor' /\ inFunctor' \in BOOLEAN /\ m_active' = m_active
      BY <1>2, Zenon DEF Deactivate
  <2>6. finishes' = finishes + 1 /\ closes' = closes + 1
      BY <1>2, Zenon DEF Deactivate
  <2>7. finishes' = 1 /\ finishes' \in Nat /\ closes' \in Nat
      BY <2>3, <2>6 DEF ExitIInv, ExitTypes
  <2>8. m_active' /\ m_active' \in BOOLEAN
      BY <2>1, <2>5, Zenon DEF ExitIInv, ExitTypes
  <2>9. main' \notin {"joined", "done"}
      BY <1>2 DEF Deactivate, Runs
  <2>. QED
      BY <2>2, <2>4, <2>5, <2>7, <2>8, <2>9 DEF ExitIInv, ExitTypes, AsksOnly
<1>3. CASE EndFunctor
    BY <1>3 DEF EndFunctor, ExitIInv, ExitTypes, AsksOnly
<1>4. CASE Pass
  <2>1. calls # <<>> /\ calls' = Tail(calls)
      BY <1>4 DEF Pass
  <2>2. /\ AsksOnly(calls') /\ calls' \in Seq(BOOLEAN)
      BY <2>1, TailAsks DEF ExitIInv, ExitTypes
  <2>. QED
      BY <1>4, <2>2 DEF Pass, ExitIInv, ExitTypes, AsksOnly
<1>5. CASE Finished
    BY <1>5, CloseKeeps DEF Finished, ExitIInv, ExitTypes
<1>6. CASE UserCloses
    BY <1>6, CloseKeeps DEF UserCloses, ExitIInv, ExitTypes
<1>7. CASE Quit \/ WaitReturns
    BY <1>7 DEF Quit, WaitReturns, ExitIInv, ExitTypes, AsksOnly
<1>8. CASE DestroyWorker
  <2>1. calls' = <<>> /\ calls' \in Seq(BOOLEAN) /\ AsksOnly(calls')
      BY <1>8 DEF DestroyWorker, AsksOnly
  <2>2. \A i \in 2..Len(calls') : ~calls'[i]
      BY <2>1
  <2>3. ~m_active' /\ m_active' \in BOOLEAN
      BY <1>8, Zenon DEF DestroyWorker
  <2>4. ~inFunctor' /\ inFunctor' \in BOOLEAN /\ closes' = closes /\ finishes' = finishes
      BY <1>8 DEF DestroyWorker, ExitIInv, ExitTypes
  <2>. QED
      BY <2>1, <2>2, <2>3, <2>4 DEF ExitIInv, ExitTypes, AsksOnly
<1>9. CASE UNCHANGED exitVars
    BY <1>9 DEF exitVars, ExitIInv, ExitTypes, AsksOnly
<1>. QED
    BY <1>1, <1>2, <1>3, <1>4, <1>5, <1>6, <1>7, <1>8, <1>9 DEF ExitNext, Worker, Ending

(* finished() is emitted once, however often the user asks before the      *)
(* worker answers (WorkerBase::setActive, MainWindow::closeEvent).         *)
THEOREM FinishedIsSaidOnce == ExitSpec => []FinishesOnce
<1>1. ExitIInv => FinishesOnce
    BY DEF ExitIInv, FinishesOnce
<1>. QED
    BY ExitInitInv, ExitStepInv, <1>1, PTL DEF ExitSpec

-----------------------------------------------------------------------------
(***************************************************************************)
(* For every set of modes and every number of choices, the calls under way *)
(* between the computer and the combo box are no more than the choices     *)
(* made.  The bound is inductive when the call that a timer event still    *)
(* owes counts: setMode turns a call into one owed, timerEvent turns that  *)
(* into a call, and newMode answers one call by one at most.               *)
(***************************************************************************)

ModeTypes == /\ toComputer \in Seq(Modes) /\ toUi \in Seq(Modes)
             /\ m_mode \in Modes /\ combo \in Modes
             /\ m_timer \in BOOLEAN
             /\ picks \in Nat

OwedCalls == IF Owed THEN 1 ELSE 0
ModeIInv == ModeTypes /\ Len(toComputer) + Len(toUi) + OwedCalls <= picks

(* Sending a call adds one, taking one off removes one. *)
LEMMA Lengths ==
    ASSUME NEW seq \in Seq(Modes)
    PROVE  /\ Len(seq) \in Nat
           /\ \A mode \in Modes : Append(seq, mode) \in Seq(Modes) /\ Len(Append(seq, mode)) = Len(seq) + 1
           /\ seq # <<>> => Head(seq) \in Modes /\ Tail(seq) \in Seq(Modes) /\ Len(Tail(seq)) = Len(seq) - 1
    OBVIOUS

LEMMA ModeInitInv == ModeInit => ModeIInv
<1>. SUFFICES ASSUME ModeInit PROVE ModeIInv
    OBVIOUS
<1>1. Len(toComputer) = 0 /\ Len(toUi) = 0 /\ ~Owed
    BY DEF ModeInit, Owed
<1>2. Stop \in Modes /\ <<>> \in Seq(Modes)
    BY DEF Modes
<1>3. ModeTypes
    BY <1>2 DEF ModeInit, ModeTypes
<1>. QED
    BY <1>1, <1>3 DEF ModeInit, ModeIInv, OwedCalls

LEMMA PickKeeps == ASSUME ModeIInv, NEW mode \in Modes, Pick(mode) PROVE ModeIInv'
<1>1. Owed' = Owed
    BY DEF Pick, Owed
<1>2. toComputer' = Append(toComputer, mode) /\ combo' = mode
    BY DEF Pick, SetCurrentIndex
<1>3. toComputer' \in Seq(Modes) /\ Len(toComputer') = Len(toComputer) + 1
    BY <1>2, Lengths DEF ModeIInv, ModeTypes
<1>4. ModeTypes'
    BY <1>2, <1>3 DEF ModeIInv, ModeTypes, Pick
<1>. QED
    BY <1>1, <1>3, <1>4, Lengths DEF ModeIInv, ModeTypes, Pick, OwedCalls

LEMMA NewModeKeeps == ASSUME ModeIInv, newMode PROVE ModeIInv'
<1>1. Owed' = Owed
    BY DEF newMode, Owed
<1>2. Head(toUi) \in Modes /\ toUi' \in Seq(Modes) /\ Len(toUi') = Len(toUi) - 1
    BY Lengths DEF newMode, ModeIInv, ModeTypes
<1>3. toComputer' \in Seq(Modes) /\ Len(toComputer') <= Len(toComputer) + 1 /\ Len(toComputer') \in Nat
  <2>1. CASE Head(toUi) = combo
      BY <2>1, Lengths DEF newMode, SetCurrentIndex, ModeIInv, ModeTypes
  <2>2. CASE Head(toUi) # combo
      BY <2>2, <1>2, Lengths DEF newMode, SetCurrentIndex, ModeIInv, ModeTypes
  <2>. QED
      BY <2>1, <2>2
<1>4. ModeTypes'
    BY <1>2, <1>3 DEF newMode, SetCurrentIndex, ModeIInv, ModeTypes
<1>. QED
    BY <1>1, <1>2, <1>3, <1>4, Lengths DEF ModeIInv, ModeTypes, newMode, OwedCalls

LEMMA SetModeKeeps == ASSUME ModeIInv, setMode PROVE ModeIInv'
<1>1. Head(toComputer) \in Modes /\ toComputer' \in Seq(Modes) /\ Len(toComputer') = Len(toComputer) - 1
    BY Lengths DEF setMode, ModeIInv, ModeTypes
<1>2. ModeTypes'
    BY <1>1 DEF setMode, ModeIInv, ModeTypes
<1>3. OwedCalls' <= OwedCalls + 1
    BY DEF OwedCalls
<1>. QED
    BY <1>1, <1>2, <1>3, Lengths DEF ModeIInv, ModeTypes, setMode, OwedCalls

LEMMA TimerKeeps == ASSUME ModeIInv, timerEvent PROVE ModeIInv'
<1>1. m_mode' \in Modes
    BY DEF timerEvent, ModeAfter, ModeIInv, ModeTypes, Modes
<1>2. ~Owed'
    BY DEF timerEvent, Owed, ModeAfter, PrevMode
<1>3. CASE toUi' = toUi
    BY <1>1, <1>2, <1>3, Lengths DEF timerEvent, ModeIInv, ModeTypes, OwedCalls
<1>4. CASE toUi' # toUi
  <2>1. toUi' = Append(toUi, m_mode') /\ Owed
      BY <1>4 DEF timerEvent, Owed, ModeAfter
  <2>2. toUi' \in Seq(Modes) /\ Len(toUi') = Len(toUi) + 1
      BY <1>1, <2>1, Lengths DEF ModeIInv, ModeTypes
  <2>3. ModeTypes'
      BY <1>1, <2>2 DEF timerEvent, ModeIInv, ModeTypes
  <2>. QED
      BY <1>2, <2>1, <2>2, <2>3, Lengths DEF timerEvent, ModeIInv, ModeTypes, OwedCalls
<1>. QED
    BY <1>3, <1>4

LEMMA ModeStepInv == ModeIInv /\ [ModeNext]_modeVars => ModeIInv'
<1>. SUFFICES ASSUME ModeIInv, [ModeNext]_modeVars PROVE ModeIInv'
    OBVIOUS
<1>1. CASE UNCHANGED modeVars
    BY <1>1 DEF modeVars, ModeIInv, ModeTypes, OwedCalls, Owed
<1>. QED
    BY <1>1, PickKeeps, NewModeKeeps, SetModeKeeps, TimerKeeps DEF ModeNext, Deliver

(* The calls under way, and the one that is owed, are never more than the  *)
(* choices made (AbstractComputer::timerEvent, UI::newMode).               *)
THEOREM EchoesAreBounded == ModeSpec => []EchoesDoNotMultiply
<1>1. ModeIInv => EchoesDoNotMultiply
    BY DEF ModeIInv, EchoesDoNotMultiply, OwedCalls
<1>. QED
    BY ModeInitInv, ModeStepInv, <1>1, PTL DEF ModeSpec
=============================================================================
