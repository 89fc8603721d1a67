----------------------------- MODULE ThreadExit -----------------------------
(***************************************************************************)
(* thread-exit-31972037/main.cpp: a window with a worker in a thread.  To  *)
(* close the window the user asks, the window asks the worker to stop, the *)
(* worker says that it has finished, and that closes the window if the     *)
(* worker is known to be inactive by then.  When the window is closed,     *)
(* main() ends its thread and destroys the worker.                         *)
(***************************************************************************)
EXTENDS Integers, Sequences

CONSTANT MaxAsks    \* bound: calls of setActive on their way

VARIABLES
    m_active,       \* WorkerBase, written by the worker's thread, read by both
    m_runTimer,     \* it is active
    calls,          \* setActive functors on their way to the worker
    inFunctor,      \* one is between its emission of finished() and the end
    closes,         \* finished() signals on their way to QWidget::close
    finishes,       \* history: finished() signals so far
    window,         \* "open" or "closed"
    main            \* the main thread: in a.exec(), in ~Thread, past it, past ~WorkerBase

exitVars == <<m_active, m_runTimer, calls, inFunctor, closes, finishes, window, main>>

(* The constructor activates the worker, and only then is it moved to the  *)
(* thread, along with the event.                                           *)
ExitInit == /\ m_active = FALSE /\ m_runTimer = FALSE
            /\ calls = <<TRUE>>
            /\ inFunctor = FALSE
            /\ closes = 0 /\ finishes = 0
            /\ window = "open" /\ main = "exec"

(* A functor that is carried out whatever the worker is. *)
NeverSo(active) == FALSE

(* A functor has nothing to do for a worker that is that way already. *)
AlreadySo(active) == m_active = active

-----------------------------------------------------------------------------
(* The worker's thread, which may go on for a while after quit(). *)
Runs == main \in {"exec", "quit"}

Activate ==
    /\ Runs
    /\ ~inFunctor /\ calls # <<>> /\ Head(calls) /\ ~AlreadySo(TRUE)
    /\ calls' = Tail(calls)
    /\ m_runTimer' = TRUE /\ m_active' = TRUE
    /\ UNCHANGED <<inFunctor, closes, finishes, window, main>>

(* finished() goes out before m_active is cleared. *)
Deactivate ==
    /\ Runs
    /\ ~inFunctor /\ calls # <<>> /\ ~Head(calls) /\ ~AlreadySo(FALSE)
    /\ calls' = Tail(calls)
    /\ m_runTimer' = FALSE
    /\ closes' = closes + 1 /\ finishes' = finishes + 1
    /\ inFunctor' = TRUE
    /\ UNCHANGED <<m_active, window, main>>

EndFunctor ==
    /\ inFunctor
    /\ inFunctor' = FALSE /\ m_active' = FALSE
    /\ UNCHANGED <<m_runTimer, calls, closes, finishes, window, main>>

Pass ==
    /\ Runs
    /\ ~inFunctor /\ calls # <<>> /\ AlreadySo(Head(calls))
    /\ calls' = Tail(calls)
    /\ UNCHANGED <<m_active, m_runTimer, inFunctor, closes, finishes, window, main>>

Worker == Activate \/ Deactivate \/ EndFunctor \/ Pass

-----------------------------------------------------------------------------
(* The main thread.  A close that hands the wrong flag on, and the one     *)
(* that asks the worker to stop, by a functor queued to its thread.        *)
AskToStart == calls' = Append(calls, TRUE)
AskWorker == calls' = Append(calls, FALSE)

closeEvent ==
    /\ main = "exec"
    /\ IF m_active THEN AskWorker /\ UNCHANGED window
                   ELSE window' = "closed" /\ UNCHANGED calls
    /\ UNCHANGED <<m_active, m_runTimer, inFunctor, finishes, main>>

Finished == closes > 0 /\ closes' = closes - 1 /\ closeEvent
UserCloses == window = "open" /\ Len(calls) < MaxAsks /\ UNCHANGED closes /\ closeEvent

(* exec() returns once the window is closed, and ~Thread calls quit() and  *)
(* wait().  The event loop ends between two events.                        *)
Quit == /\ main = "exec" /\ window = "closed"
        /\ main' = "quit"
        /\ UNCHANGED <<m_active, m_runTimer, calls, inFunctor, closes, finishes, window>>

WaitReturns == /\ main = "quit" /\ ~inFunctor
               /\ main' = "joined"
               /\ UNCHANGED <<m_active, m_runTimer, calls, inFunctor, closes, finishes, window>>

(* There is no thread any more, so the functor of ~WorkerBase is called at *)
(* once, with workEnded() that of WorkerBase; the timer was the thread's.  *)
DestroyWorker == /\ main = "joined"
                 /\ main' = "done"
                 /\ m_active' = FALSE /\ calls' = <<>>
                 /\ UNCHANGED <<m_runTimer, inFunctor, closes, finishes, window>>

Ending == Quit \/ WaitReturns \/ DestroyWorker
ExitNext == Worker \/ Finished \/ UserCloses \/ Ending
ExitSpec == ExitInit /\ [][ExitNext]_exitVars

-----------------------------------------------------------------------------
(* finished() is emitted once, however often the user asks before the      *)
(* worker answers.                                                         *)
FinishesOnce == finishes <= 1

(* finished() may come while m_active is still set and leave the window    *)
(* open.  A user who keeps closing it until it is closed gets it closed    *)
(* all the same, and the program to its end: whatever is on its way to the *)
(* worker by then, main() does not wait for its thread for ever.           *)
ClosesInTheEnd ==
    ([]<><<UserCloses>>_exitVars \/ <>[](window = "closed")) => <>(main = "done")
=============================================================================
