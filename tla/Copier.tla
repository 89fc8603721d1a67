------------------------------- MODULE Copier -------------------------------
(***************************************************************************)
(* class Copier of questions/copyfileex-19136936: a file is copied by      *)
(* CopyFile2 in a pool thread, which calls copyProgress2 back as it goes;  *)
(* any thread may pause, resume or stop the copy meanwhile.  Every read    *)
(* and write of m_pause and m_stop that another thread can get in between  *)
(* is a step of its own.                                                   *)
(*                                                                         *)
(* The progress messages (newStatus, m_lastPart, m_lastWhole) are shown to *)
(* the user and steer nothing; they are left out.                          *)
(***************************************************************************)
EXTENDS Naturals

CONSTANTS
    Copiers,    \* the Copier objects
    Callers     \* the threads that call pause, resume and stop

VARIABLES
    stop,       \* m_stop
    pause,      \* m_pause
    job,        \* where the pool thread of a copier is
    verdict,    \* what the callback under way will return to CopyFile2
    caller      \* what a caller has still to do: [op, on]

copierVars == <<stop, pause, job, verdict, caller>>

JobStates == {"none", "queued", "copying", "callback", "locking", "waiting", "returning",
              "ended", "finished"}

CopierTypeOK == /\ stop \in [Copiers -> BOOLEAN]
                /\ pause \in [Copiers -> BOOLEAN]
                /\ job \in [Copiers -> JobStates]
                /\ verdict \in [Copiers -> {"continue", "cancel"}]
                /\ caller \in [Callers -> [op : {"idle", "clear", "clear to stop", "stop"},
                                           on : Copiers]]

(* m_stop is not initialised before copy(), and nobody reads it until then.*)
CopierInit == /\ stop = [c \in Copiers |-> FALSE]
              /\ pause = [c \in Copiers |-> FALSE]
              /\ job = [c \in Copiers |-> "none"]
              /\ verdict = [c \in Copiers |-> "continue"]
              /\ caller \in [Callers -> [op : {"idle"}, on : Copiers]]

Goto(c, place) == job' = [job EXCEPT ![c] = place]

-----------------------------------------------------------------------------
(* copy() resets the flags and hands the lambda to the thread pool. *)
copy(c) == /\ job[c] = "none"
           /\ stop' = [stop EXCEPT ![c] = FALSE]
           /\ pause' = [pause EXCEPT ![c] = FALSE]
           /\ Goto(c, "queued")
           /\ UNCHANGED <<verdict, caller>>

pauseBy(u, c) == /\ caller[u].op = "idle"
                 /\ pause' = [pause EXCEPT ![c] = TRUE]
                 /\ UNCHANGED <<stop, job, verdict, caller>>

(* What notify_one does: it wakes a thread that is in wait(), and is lost  *)
(* when there is none.                                                     *)
Woken(c) == IF pause[c] /\ job[c] = "waiting" THEN "returning" ELSE job[c]

(* resume(), and stop(), which calls it first: if m_pause, notify_one. *)
resumeBy(u, c, next) ==
    /\ caller[u].op = "idle"
    /\ caller' = [caller EXCEPT ![u] = [op |-> next, on |-> c]]
    /\ Goto(c, Woken(c))
    /\ UNCHANGED <<stop, pause, verdict>>

(* m_pause = false; *)
ClearPause(u) ==
    /\ caller[u].op \in {"clear", "clear to stop"}
    /\ pause' = [pause EXCEPT ![caller[u].on] = FALSE]
    /\ caller' = [caller EXCEPT ![u].op = IF @ = "clear" THEN "idle" ELSE "stop"]
    /\ UNCHANGED <<stop, job, verdict>>

(* m_stop = TRUE; *)
SetStop(u) ==
    /\ caller[u].op = "stop"
    /\ stop' = [stop EXCEPT ![caller[u].on] = TRUE]
    /\ caller' = [caller EXCEPT ![u].op = "idle"]
    /\ UNCHANGED <<pause, job, verdict>>

-----------------------------------------------------------------------------
(* The pool thread.  CopyFile2, modelled from its use, looks at m_stop     *)
(* between two messages; it ends when m_stop is set, when the file is      *)
(* copied, or when the copy fails.                                         *)
Start(c) == /\ job[c] = "queued"
            /\ Goto(c, "copying")
            /\ UNCHANGED <<stop, pause, verdict, caller>>

(* A message is progress, or an error, for which the callback will cancel. *)
Message(c) == /\ job[c] = "copying"
              /\ ~stop[c]
              /\ Goto(c, "callback")
              /\ \E v \in {"continue", "cancel"} : verdict' = [verdict EXCEPT ![c] = v]
              /\ UNCHANGED <<stop, pause, caller>>

CopyEnds(c) == /\ job[c] = "copying"
               /\ Goto(c, "ended")
               /\ UNCHANGED <<stop, pause, verdict, caller>>

(* Where CopyFile2 goes on when the callback returns. *)
AfterCallback(c) == IF verdict[c] = "cancel" THEN "ended" ELSE "copying"

(* copyProgress2 looks at m_pause with no lock held ... *)
TestPause(c) == /\ job[c] = "callback"
                /\ Goto(c, IF pause[c] THEN "locking" ELSE AfterCallback(c))
                /\ UNCHANGED <<stop, pause, verdict, caller>>

(* ... then locks m_pauseMutex and waits, whatever m_pause is by now. *)
Wait(c) == /\ job[c] = "locking"
           /\ Goto(c, "waiting")
           /\ UNCHANGED <<stop, pause, verdict, caller>>

Return(c) == /\ job[c] = "returning"
             /\ Goto(c, AfterCallback(c))
             /\ UNCHANGED <<stop, pause, verdict, caller>>

Work(c) == Start(c) \/ Message(c) \/ CopyEnds(c) \/ TestPause(c) \/ Wait(c) \/ Return(c)

(* A finished() that is emitted while CopyFile2 still works. *)
EmitFinishedEarly(c) == job[c] = "copying" /\ UNCHANGED copierVars

(* emit finished(): what it calls is up to those who connected to it. *)
EmitFinished(c) == /\ job[c] = "ended"
                   /\ Goto(c, "finished")
                   /\ UNCHANGED <<stop, pause, verdict, caller>>
=============================================================================
