# A verification model of stackoverflown

The repository is a collection of small C++/Qt programs, most of them answers to
questions, on top of a little library (`src/tooling`) that nearly all of them
link. There is no single program to model. What the repository does have, and what
this directory is about, are the dozen parts in which several actors (two threads, a
thread pool and an event loop, two state machines that talk over a pipe, hooks that
call each other) have to agree on something, or in which a data structure or a code
has to survive every order of operations and every failure of one of them, and which
a test cannot be expected to exercise in every order.

Every definition is written from the source; `PROJECT.json` maps each one to the
lines it stands for. Questions below are named by the number in their directory
under `src/questions`, e.g. *38362044* for `countdown-latch-38362044`.

## 1. Inventory

### tooling: the hooks (`src/tooling/tooling.cpp`, `tooling.h`)

* **State.** `CallbackProcessor` is a static: the vector `hooks` of functions with
  the types (occasions) they still wait for, the set `fired` of the occasions that
  have come, `loopEvent` (a custom event that is posted to the `QApplication` and
  shows, when it is delivered, that the event loop spins), and the registration of
  the callback with `QInternal`.
* **Operations.** `registerHook` adds a hook or adds types to one it recognises (only
  function pointers can be recognised). `eventHook` is called by Qt for *every* event
  of the process, works out which occasions the event is, and calls `callHooks`. That
  walks the vector, erases entries that have nothing left to wait for, calls their
  functions, and unregisters the callback when nothing is left to do.
* **Interaction.** A hook is foreign code. It may deliver events, which puts a second
  `callHooks` on the stack over the same vector, and it may register hooks.
* **Hard.** Walking a container that changes under the iterator; reentrancy;
  registration before, between and after the two occasions (which come in two events:
  the first one posts the event that is the second).
* **Correct if** each hook is called once for each occasion it was in time for, and
  delivery of an event ends.

### countdown latch (*38362044*)

* **State.** A `QSemaphore` that starts with `INT_MAX` units, and `Locker` values,
  each of which holds a unit as long as it points to the latch.
* **Operations.** Locker: construction, copy, move, destruction. Latch: its
  destructor, which acquires all units. `MyClass` locks, starts a job in the thread
  pool with a copy of the lock, and is destroyed by `main()`.
* **Interaction.** Main thread and pool share the semaphore only; the functor, and
  with it its locker, is copied and moved by `QtConcurrent::run` and deleted by a pool
  thread.
* **Hard.** A job can sit in the pool's queue long after the constructor returned.
* **Correct if** the object outlives every job that uses it, and its destructor
  returns nevertheless.

### file copier and its Ui (*19136936*)

* **State.** `Copier`: `m_stop`, `m_pause`, a mutex and a condition variable, and the
  pool thread that runs `CopyFile2` with `copyProgress2` as its callback. `Ui`: a
  state machine with `s_stopped` and `s_copying`, the copiers it created, and the
  main thread's event queue.
* **Operations.** `copy`, `pause`, `resume`, `stop` from any thread; the callback;
  `finished()` and `deleteLater()` over the event queue; the two buttons of the Ui.
* **Hard.** The lock-free look at `m_pause` before the wait; cancelled copies that
  wind down while the next is started; deletion by a posted event.
* **Correct if** `stop()` ends a copy, at most one copy goes on, Ui is told when it
  ends, and a copier is deleted only after its thread is done with it.

### button loop: controller and Arduino (*43695121*)

* **State.** Controller: the command of the button that is held, the queue of
  commands in flight. Arduino: line editor, current handler. Between them an
  `AppPipe` for each direction, whose ends live in different threads.
* **Operations.** press, release, one write, one `readyRead()`; the Arduino's
  `loop()`: read, edit, obey, answer.
* **Hard.** `m_buf` of one pipe end is used by both threads with no lock; text and
  line end travel separately; some commands are never answered.
* **Correct if** the queue counts what is really in flight, no reply is left in a
  buffer, and a held button keeps the Arduino moving.

### device and programmer (*32486198*)

* **State.** Two `QStateMachine`s with their states, the delay of `s_booting`, the
  timeouts of the Programmer, and the two buffers of the pipe.
* **Operations.** `send`, `expect` (guarded transition, optional timeout), `delay`; the
  user starts and stops the Device and starts the Programmer.
* **Hard.** A machine looks at the pipe only when notified in a state that expects
  data; an answer can come while the asking machine is still entering the state that
  waits for it; `stop()` leaves timers and buffers as they are.
* **Correct if** success is real, the two never get stuck half way, and nothing left
  over from one session spoils the next.

### tooling: screenshots (`src/tooling/screenshot.cpp`)

* **State.** `ScreenshotTaker`: the windows it has noted, each with its state
  (Initial, Updated, Painted), the count `leftToPaint`, a clock, a timer, and the phase
  (Collecting, Collected, Screenshot). It is made by a hook when the application
  starts, or by `takeScreenshot` for one window.
* **Operations.** `eventFilter` for every event of every widget; `timerEvent`, which
  first schedules and then takes the pictures; `deleteLater()`.
* **Interaction.** It sees the program's windows only through their events: windows
  are constructed, adopted by a layout, put into a graphics scene, painted and deleted
  without its being told. The program may set the property `no_screenshots`, which is read
  when a taker would be made by the hook and when the pictures are taken. A window in a scene
  (`isProxied`) has no picture of its own.
* **Hard.** A count that is kept by differences over windows that vanish; two ways into
  the same scheduling; a timer that goes on after the last picture.
* **Correct if** the count is exact, every window painted while it watched (and not in a
  scene) is shot once, and the taker goes away.

### event loop monitor (*25038829*)

* **State.** The map `m_threads` with, for each thread, its ping (since when an event
  handler runs, or zero) and whether it was found stuck; the signals the notifier has
  still to emit; the queue of the main thread; the rows of the view.
* **Operations.** `notify` in every thread, around each delivery, nested or not; the
  notifier's timer; `threadFinishedSlot`; the slots of the view.
* **Interaction.** Monitored threads, the notifier's thread and the main thread. `notify`
  keeps a reference into the map over the delivery; the main thread erases entries.
* **Hard.** Reports, ends and starts of a thread overtake each other; a reference to an
  entry that is gone; a nested handler that clears the ping of the outer one.
* **Correct if** a red row always means a handler that ran too long, a thread that hangs
  gets one, and the entry of a thread that ended is forgotten.

### worker with a zero timer (*31972037*)

* **State.** `m_active` and the worker's timer, the functors on their way to the
  worker's thread, the `finished()` signals on their way to the window.
* **Operations.** `setActive` from any thread; `closeEvent` in the main thread; after the
  last window, `~Thread` (`quit()` and `wait()`) and `~WorkerBase`.
* **Hard.** `finished()` goes out before `m_active` is cleared, so that `closeEvent` may
  find the worker still active and ask once more. A window that is closed before the
  worker's first functor has run leaves a worker that may start while `main()` waits.
* **Correct if** the worker finishes once, and a user who insists gets the window closed and
  the program to its end.

### shared state by mode (*32178559*)

* **State.** The computer's mode, the mode before and its timer; the combo box; the
  queued calls in both directions.
* **Operations.** a choice of the user; `setMode`, `timerEvent`; `newMode`.
* **Hard.** Each side tells the other of every change, one it was told of included.
* **Correct if** the echo dies out and the two sides end up at what the user chose.

### packet framing (*43228728*)

* **State.** `Decoder`: the bytes that make no packet yet, the high digit of half a
  byte; the pipe it reads from.
* **Operations.** one write of any length by the sender, which arrives as one `readyRead()`.
* **Hard.** A write may end anywhere, and one `readyRead()` takes one packet at most.
* **Correct if** the messages are the packets, and none is late without a reason.

### prefix tree (*252512*)

* **State.** Nodes with a bit for each child and an array that grows in steps, two stock
  nodes that stand for all nodes without children, and the program's own counts of nodes
  and bytes.
* **Operations.** `insertWord` with all it allocates, `destroyNode`, `findNode`.
* **Hard.** Any allocation may fail, half-way through a word; the counts are kept by
  differences, and destruction computes capacities anew.
* **Correct if** exactly the words inserted are found, nodes have room for their
  children, and destruction counts down to zero.

### beacon codec (*65095267*)

* **State.** None but the values `main()` computes: the packed number, its text, the
  number received, the fields.
* **Operations.** pack, encode, decode, unpack: arithmetic on numbers of seven bytes.
* **Hard.** Mixed radices; a range may map to one digit more than its field has; zeroes
  are removed at the end of the text.
* **Correct if** the packed number comes back, and each field to within a step.

### Not modelled

| Part | Why |
|---|---|
| tooling: backport, paths, file shell | no state of their own; wrappers of Qt and of the desktop |
| work queue (*38000605*) | `main()`'s slot runs in all pool threads and counts `workUnits` down with no lock. What follows is the data race's, and neither a comment nor a test says what should: there is nothing to hold the outcomes against |
| linked list allocator (*58100610*) | `allocate()` obtains a number of bytes and builds its list in as many *elements*: the first allocation already writes past its memory, so no behaviour is left to state properties of |
| serial transmit queue (*32331713*) | what can go wrong is in `QSerialPort` and its driver |
| local pipe (*32317081*) | the `AppPipe` that `ButtonLoop` and `DeviceProgrammer` model, with a test of it |
| process pipelines (*24937668*, *16749583*), network servers and clients (*19280903*, *39469180*, *50975613*) | the behaviour is that of `QProcess`, `QTcpServer`, libcurl and the host |
| posted functors (*21646467*) | seven variants of one idea, of which the preprocessor takes the first; its `main()` is empty |
| copyable objects (*25890802*), camera header (*39968889*) | copies the private data of `QObject`, so that what it does depends on Qt's internals; declarations of a vendor's library |
| some five hundred other answers | widget layouts, painting, item models: single-threaded, with no state that outlives an event |

Most of the repository's lines are in the last row, so the modelled share of them
is small and will stay so.

Left out *within* the modelled parts: progress messages, labels, the comms log and
the status line (they display and steer nothing); `callHooks` entered from two
threads (undefined behaviour of `QVector` from the first step, nothing is promised);
the interactive mode of `LineEditor` (nothing turns it on); the end of the
application while a copy is at work; the pixels and files of a screenshot,
`screenshot_delay` (it makes the delay longer), the age of the list that `isProxied` keeps
(it is made anew at every turn of the event loop; the model has no older one) and the guard
`recursed` of `eventFilter` (of what the filter calls only `raise()`, on a Mac with Qt 4,
could deliver another event to it); a window that leaves its scene again; the
monitor's histograms; simulated time in *32178559*; `autoComplete`'s output in the
prefix tree.

## 2. Modules

| Module | Models | State and code | EXTENDS / INSTANCE |
|---|---|---|---|
| `CallbackProcessor` | the hooks | one variable per member; `stack` holds the calls of `callHooks` under way, each with its own iterator `it` | |
| `PinnedObject` | abstract: what a latch promises | `pinned`, `alive` | |
| `CountDownLatch` | latch, lockers, `MyClass`, pool | `avail` is the semaphore; `sem[l]` the pointer of locker *l*; `owner[l]` the frame or functor it lives in; `main`, `job` the threads | INSTANCE `PinnedObject` |
| `Copier` | class `Copier` | `stop`, `pause`, the place `job` of the pool thread in its code, the callers' places `caller` | |
| `CopyUi` | class `Ui` with its copiers | `ui`, `object` (lifetime), `events` (queue of the main thread) | `Copier` |
| `AppPipe` | one end of the in-process pipe | operators on a sequence of pieces | |
| `ArduinoLoop` | the Arduino's thread | `serialBuf`, `serialIn` are the two buffers of its pipe end, `reading` is the window of the data race, `line`, `handler` | `AppPipe` |
| `ButtonLoop` | Controller, composed with the Arduino | `m_command`, `m_commands`, `writing` (what `sendCommand` has still to write), `ctlBuf` | `ArduinoLoop` |
| `DeviceProgrammer` | Device and Programmer | `dev`, `prog` are the states of the machines, `devBuf`, `portBuf` the pipe, `notified` those that are to react to `readyRead()`, `bootLeft`, `waitLeft` the timers | |
| `ScreenshotTaker` | the taker and the program's windows | `widget` (what became of each), `disabled` the property `no_screenshots`, `topLevels` the noted ones with their states, `countdown` the timer, `clock` | |
| `MonitoringApp` | monitored threads, notifier, main thread with view | `frames` holds the calls of `notify` under way, each with whether its reference is still good; `queue`, `m_toEmit`, `rows` | |
| `ThreadExit` | window, worker and the end of `main()` | `calls` the functors queued to the worker, `inFunctor` the gap between `finished()` and the clearing of `m_active`, `closes`, `main` how far the end of the program is | |
| `ModeFeedback` | computer and combo box | `toComputer`, `toUi` the queued calls; the rest are the members | |
| `PacketDecoder` | sender, pipe end and `Decoder` | `written` how much of the `Text` has been written; the members; `messages` | |
| `PrefixTree` | the tree and its allocations | `heap` by address (the letters on the way to a node), `memory` the allocations that will succeed | |
| `BeaconCodec` | `main()` with pack, encode, decode, unpack | the values `main()` computes | |
| `SmallPrograms_proofs` | theorems of the screenshot taker, the monitor, the shared mode and the worker | | those modules, `TLAPS` |
| `Recursion` | induction over numbers, functions defined by recursion | | `WellFoundedInduction`, `TLAPS` |
| `DataPrograms_proofs` | theorems of the beacon, the decoder and the prefix tree | | those modules, `Recursion`, `TLAPS` |
| other `*_proofs` | theorems of the module before the underscore | | that module, `TLAPS` |
| `MCSmallPrograms` | the seven programs above | `program` names the one that runs in a behaviour; the others rest | all seven |
| other `MC*` | constants and, for `MCCopier`, the callers | | the module they check |

How finely a component is cut into steps follows what can get in between. Code that
runs in one event of one thread is one action, with everything it calls: `ClickCancel`
includes the `stop()` of every live copier, `registerHook` the whole search and update,
`Receive` both calls of `readLine()` and the refill of the window. Where another
thread can get in between, each shared read and write is an action: `TestPause` and
`Wait`; `resumeBy`, `ClearPause` and `SetStop`; each `Write` to the pipe; `ReadStart`
and `ReadEnd` around the Arduino's read of `m_buf`. Where foreign code can get in, the
call is split at the call of it: `Call`, then whatever the hook does, then
`HookReturns`. `notify` is split there too, into `Enter` and `Leave`; the notifier
looks at all pings in one step, under its mutex (`Sample`), and emits its signals one by one
(`Emit`). An `insertWord` is one action, in which memory may run out at any letter; how
much there is of it is chosen in the initial state.

Qt, the thread pool, `QSemaphore` and `CopyFile2` are modelled from how the code uses
them: `Acquire`/`Release`, a pool that runs every queued job, a `notify_one` that is
lost when nobody waits, queued connections in the order of emission, a
`deleteLater()` that posts one more event. Two outcomes are left open because the
code leaves them open: what `QVector::push_back` does to iterators of calls under
way (`moved`), whether a piece that is appended during the racing read of `m_buf` is
kept or lost (`lost`), what a write through a reference to an erased entry of
`m_threads` reaches (`Leave`), and what `elapsed()` gives of a clock that was never started
(`MinCollected`).

Some variables are history: `asked` and `calls` (how often a hook should have been,
and was, called), `stop` in a frame (a hook of this call returned true), `lost`,
`ignored`, `refused`, `painted`, `shots`, `late`, `inserted`, `surplus`, `choice`, `hasty`,
`finishes`. They appear in no guard; only bounds (`starts`, `picks`) do.

## 3. What is checked

`small_programs` takes about a minute, the other runs seconds. A *pass* run checks every property it names; a
*violation* run is a finding (section 5).

| Run | Module | Shows |
|---|---|---|
| `latch` | `MCCountDownLatch` | `NoJobOutlivesObject`, `Counted`, `DestructorReturns`, refinement `PinsKeepAlive` |
| `hooks` | `MCCallbackProcessor` | `CalledOnce`, `DeliveryEnds` |
| `copy_ui` | `MCCopyUi` | `OneCopyGoesOn`, `CopyingMeansNewsToCome`, `DeletedAfterUse`, `StoppedCopiersGo` |
| `button_loop` | `MCButtonLoop` | `WindowIsExact`, `NoReplyLeftUnread`, `HeldButtonMoves` |
| `device_programmer` | `MCDeviceProgrammer` | `NoStaleReply`, `HandshakeRunsThrough`, `OkMeansLoaded`, `ProgrammerEnds`, `ReadyDeviceIsProgrammed` |
| `hook_stop` | `MCCallbackProcessor` | `StopIsHonoured` fails |
| `hook_reentrancy` | `MCCallbackProcessor` | `IteratorsUsable` fails |
| `hook_every_event` | `MCCallbackProcessor` | `FurtherHooksProcessed` fails |
| `small_programs` | `MCSmallPrograms` | screens: `LeftToPaintExact`, `PaintedWindowsAreShot`, `TakerGoesAway`; monitor: `NoFalseAlarm`, `HangIsShown`, `FinishedIsForgotten`; tree: `HoldsTheWords`, `RoomIsExact`, `NothingLeft`; decoder: `MessagesAreThePackets`, `LateOnlyAfterBursts`; beacon: `ReceivedWithinAStep`; simulation: `EchoesDoNotMultiply`, `SettlesOnChoice`; exit: `FinishesOnce`, `ClosesInTheEnd` |
| `copier_stop` | `MCCopier` | `StopTakesEffect` fails |
| `monitor_unstuck` | `MCSmallPrograms` | `UnstuckIsShown` fails |
| `beacon_roundtrip` | `MCSmallPrograms` | `RoundTrip` fails |

The seven programs of `MCSmallPrograms` share nothing. They are checked in one run, one in
each behaviour (`program`), so that the run's states are the sum of theirs and not
the product; `Programs` chooses among them, and the two violation runs choose one.

Each property of a passing run has a mutant: a plausible slip in the code (a move
that does not clear its source, a `finished()` that is emitted too early, a window
that is one too wide, a boot delay longer than the timeout, a timeout with its two
targets swapped, ...) with which TLC finds that very property violated.

### Bounds, and why they are enough

* `latch`: two jobs and five lockers. The code starts one job; two let one be queued
  while the other is at work or done. Five lockers are the lock of the constructor,
  one per job and two temporaries, so that copies of copies and moves of moves occur.
  The guard on the number of unborn lockers in `Pass` leaves one for every job.
  `N` = 6 stands for `INT_MAX`: it only has to exceed the number of lockers. The
  theorems hold for all three.
* `hooks`: three hooks, two recognised and one not, one that returns true and one that
  delivers events while it runs; three calls of `registerHook`
  (`MaxRegistrations`), two calls of `callHooks` on the stack (`MaxDepth`). Three entries
  are what it takes to erase one in front of, at and behind the iterator. Every order
  of registrations and events is covered, because both may happen at any time.
  `Requests` are all sets of single-shot types; the type that repeats has a run of its
  own, since it never lets a call end. The nesting hook delivers every event
  but the loop event (`NestedKinds`), which is the subject of `hook_reentrancy`. No
  hook of the repository registers another one, so `Registering` is empty in the runs.
* `copy_ui`: three copiers, that is one that runs and two that wind down. A fourth
  would only add another one that winds down; the theorems hold for any number.
* `button_loop`: one command each that is obeyed, silently ignored, and refused. The
  window of two is the code's own and bounds every buffer, so that the state space is
  finite with no further bound.
* `device_programmer`: time in units of 125 ms, so the boot delay is 4 and the timeouts
  8, in the ratio of the code. `MaxLines` bounds what repeated attempts leave in the
  buffer of a Device that is off: `hasLine` asks only whether a line is there, and with
  three lines left over every combination of old lines and new ones has come up.
* `copier_stop`: one copier and one caller are enough for the violation.
* screens: three windows, so that one may vanish, one be painted and one be still to
  come; times of 3, 1 and 1 units keep the order of the code's (collecting is longer than
  its minimum, and the delay is not zero), and the clock is not followed past its
  minimum. The theorems hold for any windows and times.
* monitor: one thread, with handlers nested twice (`MaxDepth`), started twice
  (`MaxStarts`), so that news of the first start meets the second. Threads share
  nothing but the main thread's queue, in which their news does not interact. `MaxQueued`
  holds the notifier back while two events wait: the main thread takes them faster than
  the notifier looks, every 100 ms, and two are enough for the news to overtake. A ping is
  followed to one unit past `Timeout`.
* tree: nine words over five letters, with nodes of one to five children, so that two
  capacities are outgrown; words that end at a stock node, at an allocated one, and at the
  prefix of another. `MemoryLimits` lets memory run out in the first words, a little later,
  or never. The theorems hold for all words over the 26 letters (`WordsAssumption`) and any
  limits (`LimitsAssumption`).
* decoder: packets with no, one and two bytes of payload, and one whose bytes are on
  both sides of 128 (`PacketsToSend`); junk after digits of either kind (`TextToSend`);
  every cut of the text. Lengths from 128 on, which the code takes for negative, are not
  sent. The theorems hold for any packets below that length and any text that spells them.
* beacon: any two neighbouring fields of the twelve depart from a typical beacon over their
  whole ranges (`BeaconsToSend`), the floats in thirds (`Parts`) of them. A field only acts
  on the ones packed before it, by what it carries. The theorem holds for all beacons.
* simulation: five choices, in both modes that run on and the one that does not, at any
  moment. The theorem holds for any number of them.
* exit: up to three functors on their way. The theorem holds for any number.

Symmetry is not used: the instances are small, and liveness is checked with them.

### Fairness, and why the code justifies it

* Threads run on: weak fairness of the pool's steps for each job or copier, of the
  main thread's own steps (`Main`, `Dispatch`), and of the Arduino's loop, which a zero
  timer repeats for ever.
* A machine of `DeviceProgrammer` that is notified reacts within the same event; the
  start of a machine and the expiry of timers come from the event loop, which is
  served. Time passes when there is nothing else to do.
* `CallbackProcessor`: nothing in a call of `callHooks` waits, hence weak fairness of
  `Walk`. `HookReturns` has strong fairness: a hook that delivers events does so a finite
  number of times, and each nested delivery disables `HookReturns` of the outer
  hook until it is over.
* `ScreenshotTaker`: the timer expires and a `deleteLater()` is served (`Loop`). The
  monitor: the notifier's timer, the main thread's event loop, and time (`Notifier`,
  `Dispatch`, `Tick`), but not the handlers, which may hang. `ModeFeedback`: both event
  loops and the timer. `ThreadExit`: the worker's event loop (`Worker`), the main
  thread's (`Finished`), and its way to the end of `main()` (`Ending`): `quit()` needs no
  one, `wait()` returns once the worker's event loop is between two events.
* The user is never fair: buttons need not be pressed, events need not arrive.

`ClosesInTheEnd` takes a user who keeps closing the window until it is closed as its hypothesis, and
`SettlesOnChoice` leaves out a user who chooses again before the last choice has settled:
two choices in a hurry may end at the first of them or chase each other between the
threads. `TakerGoesAway` is about the taker made at startup: one made for a single window
has neither clock nor timer, and acts only if `elapsed()` of a clock that was never
started happens to be large.

`HeldButtonMoves` is conditional on nothing having been lost, ignored or refused,
because the code has no timeout that would recover from those; the Arduino really
stops then, and `WindowIsExact` says by how much the window is reduced.

Deadlock is checked for `latch`, `button_loop` and `device_programmer`. It is not checked
where the program may really stop: the hooks after all occasions have come,
copies once every copier of the bound has been used, and programs that end.

## 4. What is proved

TLAPS checks these for every value of the constants, the bounds of the runs included.

**`CountDownLatch_proofs`**, from `N` positive, a finite set of lockers, and jobs that are not
named like the other owners. `Counted` is not inductive alone with
`NoJobOutlivesObject`: that no job is left when the destructor gets all units needs
the fact that a queued or working job *owns a locker that still points to the latch*
(`JobHoldsLocker`), which in turn needs that only temporaries are moved from. The
inductive invariant `IInv` adds those. `Cardinality(Held)` is then followed through
every construction, move and destruction with the library's theorems on finite sets.
  * `TypeCorrect`, `SemaphoreCounts`, `JobsAreOutlived`: the three invariants.
  * `LatchRefines`: every behaviour of the latch is one of `PinnedObject`. `Drain` is
    `GiveUp`, and takes `avail = N` only with no locker held, by `Counted`; a
    `Move` is `Handover`; all others pin, unpin or stutter.

**`CallbackProcessor_proofs`**, for any hooks, requests, events and depths of nesting.
  * `TypeCorrect`: also when iterators have been invalidated.
  * `EachIsCalledOnce` and `IteratorsStayUsable` need `Orderly`: requests name single-shot
    occasions only, no hook registers one, and a hook that is called does not spin the
    event loop before the application does. The one registration in the repository
    is such a hook (`screenshot.cpp:232`, which makes a `ScreenshotTaker`). Nested events of
    other kinds are allowed, at any depth. What happens without `Orderly` are findings 2 and 3.
    The invariant `OnceInv` keeps an account for each hook and occasion (`Accounts`): the
    calls made and the entries that still wait for it (`Pending`, a cardinality) add up to the
    requests made in time, in every moment of a walk; once the occasion has passed and no walk
    is under way for it, nothing waits. For that it follows what an erasure, an
    insertion and a write to an entry do to the set of waiting positions (`WaitingRemove`,
    `WaitingAppend`, `WaitingWrite`), and what lies before the iterators of the walks: only the
    outermost walk can have a single-shot occasion, hence only it erases (`FramesOK`).

**`CopyUi_proofs`**, for any set of copiers. The invariant ties the three places that know
about a copier together: where its thread is, whether its object lives, and
which of its events are queued (`Lives`).
  * `OneCopyAtATime`: needs that a copier is at work only while its object lives, or
    `stopCopy()` would not reach it.
  * `DeletionIsLate`: the queue holds a `deleteLater` or `delete` of a copier only after its
    thread has emitted `finished()`.
  * `NewsComesWhileCopying`: an un-stopped copier that ends hands over to its own
    `copyFinished()` in the queue, which only its own delivery takes out; that delivery, also
    when it is the news of an older copier, leaves `s_copying`.

**`DeviceProgrammer_proofs`**, from `BootTime` positive and less than `Timeout`, which is the one
relation between the two constants of the code that everything rests on. The
inductive invariant says where the timers stand when the Device boots on behalf of a
waiting Programmer (`Booting`: the boot delay is over strictly before the timeout) and what
is in the buffers while a reaction is under way (`Reacting`).
  * `NothingLeftOver`, `RunsThrough`: the two invariants at rest.
  * `SuccessIsReal`: the action property, from the same invariant.

**`ButtonLoop_proofs`**, from `CommandsAssumption` (the three kinds of commands are disjoint,
and none of them is the empty text or a line end). What is in flight is counted by the line
ends in six sequences, so the proof begins with what `Append`, `Tail`, `println`,
`sendCommand` and `readLine` do to the number of line ends (`LinesAppend`, `LinesTail`,
`LinesPrinted`, `Sent`, ...), by bijections between the sets of positions. The
invariant adds that the Arduino reads its buffer only with nothing left of what it read
ahead; the three conjuncts need each other, for `dequeue()` is safe by the count, and the
count by the reply that is read at once.
  * `TypeCorrect`, `WindowCounts`, `RepliesAreRead`.

**`SmallPrograms_proofs`**, the screenshot taker, from a finite set of widgets and natural times.
  * `CounterIsExact`: the count is the cardinality of the noted windows that were never
    painted, deleted and adopted ones included; such a window stays noted, and is never noted
    again.
  * `PicturesAreRight`, from a delay that is *positive*: with none, the timer could expire
    a second time before the `deleteLater()` is served, and shoot twice. `ShotsInv` ties
    the history to the phases: a taker that has scheduled its pictures does not watch, so
    what was painted does not change after. It is about the windows that are in no scene when
    the pictures are taken, in a program that has not set `no_screenshots` by then; that no
    window has two pictures, or one without having been painted, holds for all.

**`SmallPrograms_proofs`**, the monitor, from a natural `Timeout`. `AlarmsAreTrue`: a ping that is not zero
belongs to the innermost call of `notify`, whose reference is then good (`Pinging`), so that
its return clears it; an erased entry has no ping. Reports stay true on their way
because lateness is never taken back (`Truthful`).

**`SmallPrograms_proofs`**, the worker. `FinishedIsSaidOnce`: only the first functor activates the worker,
and once it has done so all functors on their way ask it to stop. `~WorkerBase`, which clears
`m_active` too, comes when no functor is under way and no thread to run one.

**`SmallPrograms_proofs`**, the shared mode. `EchoesAreBounded`: the calls under way, with the one that the
timer owes, never outnumber the choices; each delivery passes one on at most, and `setMode`
turns one into one that is owed at most.

**`Recursion`** is what the three below rest on. The prover has no induction over data, but a set
of natural numbers has a least one (`NatMin`, from the library's well-founded relations).
With the *set* of the numbers that have a property in place of the property itself,
`UpThrough` and `DownThrough` are induction over an interval; `Climbing` and
`Descending` say that a function defined by recursion on its argument exists, and
`ClimbingTyped`, `DescendingTyped` what its values are among. The functions of
`BeaconCodec`, `PacketDecoder` and `PrefixTree` are written as such recursions.

**`DataPrograms_proofs`**, the beacon, from `BeaconsAssumption` (the values are natural).
  * `BeaconIsReceived`. Packed numbers are followed by their value, as the sum of the bytes' (`Value`):
    `P_MAC` multiplies and adds as long as the result fits seven bytes (`Multiplied`), `P_DIV`
    divides (`Divided`). The room that the radices of `My_Beacon_Fields` leave (`Room`) shows
    that a beacon whose fields fit their digits never outgrows the seven bytes (`Packed`), and that ten
    characters hold it (`NothingLeftOver`). So `decode` recovers the number (`ReadBack`) and
    `unpack` the digits (`Unpacked`). The inductive invariant `Progress` says which of the
    four results `main()` has so far.
  * `OnlyTrimmingBreaksRoundTrip`: the other direction of finding 6. A number whose zeroes were
    removed is read as a larger one (`MoreIsRead`: the terminator counts for 36, and seven bytes
    have room for that too), so that the assertion of `main()` holds exactly when no letter was
    removed. For beacons whose fields fit there is no second cause.

**`DataPrograms_proofs`**, the decoder, from `PacketsAssumption` (each packet has the length its header says,
below 128) and `TextAssumption` (the digits of the text are those of the packets).
  * `PacketsComeInOrder`, `PacketsAreNotLate`. The inductive invariant `InStep` relates the
    decoder to the text: what it keeps is exactly what the digits written so far spell, from the
    end of the last message on, with half a byte in `m_first` (`Holds`); packets that are
    complete and not yet taken are not more than `surplus`. That one `Write` preserves it is an induction
    over its characters (`HoldsTheWrite`).

**`DataPrograms_proofs`**, the prefix tree, for any words over the letters and any place where memory
runs out.
  * `TreeHoldsTheWords`, `RoomStaysExact`, `NothingIsLeft`. The inductive invariant `TreeInv` holds
    between two calls: a tree that is kept in order (`Kept`), and the words that are the way to
    an end of a word in it (`Held`) are the ones inserted. Order (`IsTree`) has four parts: a node
    has its children in as many places as it has bits (`Typed`, `Sized`), each place holds a
    stock node or the node with the address that the place stands for (`Linked`), and every
    address but the root's is in such a place (`Rooted`). `Linked` is what makes the
    lookup by `findNode` an account of addresses: it ends at what is in the last slot of the word (`Place`).
    The counts are the cardinalities of what there is: slots, nodes and bytes of nodes.
    `destroyNode` adds up the same over the nodes that it reaches from the root (`Reached`), which
    are all of them (`AllReached`: every node is in a place of its parent's, up to the root), so
    that it ends at zero and leaves nothing allocated.
    `Kept` is shown for each step that a letter may take (`createNode` for the root or in place of
    a stock node, growth, a new stock child among the others) with the effect of that step on
    `Held` and the counts; the number of lower bits (`Below`) orders the places, so a
    child that is put in moves the later ones by one. A whole word is an induction over its letters with
    `Climbing`, since a failed allocation leaves the tree in order at each of them.
    The crash at the last letter is a state that the theorems cover: tree and words are as before.

**Model-checked only.** Liveness (out of the prover's reach): `DestructorReturns`,
`DeliveryEnds`, `StoppedCopiersGo`, `HeldButtonMoves`, `ProgrammerEnds`,
`ReadyDeviceIsProgrammed`, `TakerGoesAway`, `HangIsShown`, `FinishedIsForgotten`,
`SettlesOnChoice`, `ClosesInTheEnd`. `Copier` with callers, where the
interesting property fails.

## 5. Findings

1. `hook_stop`. `tooling.h:52` says a "hook returns true if no further hooks should be
   processed". `callHooks` drops the result (`tooling.cpp:150`, `152`); the next hook is
   called all the same.
2. `hook_reentrancy`. `tooling.cpp:163` intends to "allow reentrancy". An iterator of
   `callHooks` survives the call of a hook (`tooling.cpp:149`); if the hook spins the event
   loop, the nested call erases entries and leaves the outer iterator past the end,
   where the comparison with `hooks.end()` never succeeds.
3. `hook_every_event`. A hook registered for `EventHook`, the type that repeats, stays in
   the vector, and the iterator stays on it: the call never gets past it
   (`tooling.cpp:146`), although it returned false. No program of the repository
   registers such a hook.
4. `copier_stop`. `stop()` and `resume()` are documented as thread-safe
   (`main.cpp:60`, `69`). A `stop()` between the callback's look at `m_pause` and its
   wait notifies nobody and clears `m_pause`, so that no later call notifies either: the
   pool thread waits for ever.

5. `monitor_unstuck`. The comments on `loopStateChanged` say that it tells of a loop that
   "has gotten stuck, or unstuck" (`main.cpp:194`, `195`). The notifier skips threads whose
   ping is zero (`main.cpp:121`), so a thread that has come back from a long handler and
   is idle is never reported unstuck: its row stays red.
6. `beacon_roundtrip`. `main()` asserts that the packed beacon received is the one sent
   (`main.c:321`). `encode()` removes the zeroes at the end of the text (`main.c:276`), and
   `decode()` finds the terminator in their place at the end of the alphabet, as 36. The
   assertion fails as soon as a beacon has such a zero; the program's example has none.

Seen on the way, where nothing in the repository says otherwise and hence no run claims
a fault: a nested `notify` that returns clears the ping of the outer handler, whose
hang then goes unseen; a float near the end of its range becomes a digit more than its field
has and carries into the field before it; `insertWord` dereferences NULL when
memory is gone at the last letter of a word; a packet of 128 bytes or more has a negative
length; the second packet of one write waits for the next write; a stale `finished()` of a
cancelled copier stops the copy that runs; once both single-shot occasions have passed and the
hooks are gone, a hook registered for `EventHook` is never called; a worker whose first functor
runs after the window has closed starts working, and is destroyed active. Each is in the model, and where a property would
fail because of it, the property says so. Not in a model: the `CurlLineParser` of *50975613*
keeps a partial line (`main.cpp:236`) by reference to libcurl's buffer, and without the
part it kept before.

## 6. Plan

Done, in this order, the parts with the most actors first: latch with its abstract
specification and proofs; hooks with proofs; copier and Ui with proofs; the two pipes programs,
Device and Programmer and then the button loop, with proofs; the screenshot taker, the
monitor, the worker and the shared mode with proofs; the decoder, the beacon and the
prefix tree with proofs.

What could still be added:

1. `ScreenshotTaker` is made by a hook. Its composition with `CallbackProcessor` would
   show that it is made exactly once, whatever else is hooked; it would add no other
   interaction, since the taker looks at events through a filter of its own.
2. The pacing of simulated time in *32178559*, with the clock that goes on over a stop.
3. `CopyFile2`'s own outcomes (failure, end of the file before a stop arrives) told apart in
   the Ui, should it ever show them.

## 7. Running

In this directory: `tlc -workers 2 -config MCCopyUi.cfg MCCopyUi`, and likewise for the other
configurations (the ones named `MCHook...cfg` belong to `MCCallbackProcessor`,
`MCMonitorUnstuck.cfg` and `MCBeaconRoundTrip.cfg` to `MCSmallPrograms`);
`tlapm CopyUi_proofs.tla` for the proofs.
