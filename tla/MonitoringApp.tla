---------------------------- MODULE MonitoringApp ----------------------------
(***************************************************************************)
(* eventloop-hang-25038829: an application that notes, for every thread,   *)
(* since when an event handler runs (its ping), a notifier in a thread of  *)
(* its own that looks at the pings and reports the threads that are stuck, *)
(* and a view in the main thread with a row for each.  The threads here    *)
(* are those other than the main thread, whose events are Dispatch.        *)
(*                                                                         *)
(* notify keeps a reference into the map m_threads while the handler runs; *)
(* handlers nest, and the main thread may erase the entry meanwhile.       *)
(***************************************************************************)
EXTENDS Integers, Sequences

CONSTANTS
    Threads,
    Timeout,        \* m_timeout, in units of time
    MaxDepth,       \* bound: handlers of a thread within each other
    MaxStarts,      \* bound: starts of a thread
    MaxQueued       \* bound: events in the main thread's queue when the notifier adds one

Zero == -1          \* a ping of zero; otherwise a ping is the time since it was set
NoEntry == [ping |-> Zero, stuck |-> FALSE, exists |-> FALSE]

VARIABLES
    running,        \* the threads that run
    starts,         \* history: how often each was started
    m_threads,
    frames,         \* calls of notify in each thread, innermost first: is its reference good
    connections,    \* how often threadFinishedSlot is connected to finished()
    m_toEmit,       \* what the notifier has still to emit, in the order of a QMap of pointers
    queue,          \* events of the main thread
    rows,           \* the view's row of each thread
    late            \* history: threads a handler of which ran longer than the timeout

monitorVars == <<running, starts, m_threads, frames, connections, m_toEmit, queue, rows, late>>

MonitorInit == /\ running = {}
               /\ starts = [t \in Threads |-> 0]
               /\ m_threads = [t \in Threads |-> NoEntry]
               /\ frames = [t \in Threads |-> <<>>]
               /\ connections = [t \in Threads |-> 0]
               /\ m_toEmit = {}
               /\ queue = <<>>
               /\ rows = [t \in Threads |-> "none"]
               /\ late = {}

Set(t, entry) == m_threads' = [m_threads EXCEPT ![t] = entry]
Post(e) == queue' = Append(queue, e)

-----------------------------------------------------------------------------
Start(t) == /\ t \notin running
            /\ starts[t] < MaxStarts
            /\ starts' = [starts EXCEPT ![t] = @ + 1]
            /\ running' = running \cup {t}
            /\ UNCHANGED <<m_threads, frames, connections, m_toEmit, queue, rows, late>>

(* notify, up to the delivery; the first event of a new entry connects     *)
(* finished() and posts an event to the QThread, which is an object of the *)
(* main thread; the end of that event has newThread sent.                  *)
Enter(t) ==
    /\ t \in running /\ Len(frames[t]) < MaxDepth
    /\ Set(t, [m_threads[t] EXCEPT !.ping = 0, !.exists = TRUE])
    /\ frames' = [frames EXCEPT ![t] = <<TRUE>> \o @]
    /\ IF m_threads[t].exists
       THEN UNCHANGED <<connections, queue>>
       ELSE /\ connections' = [connections EXCEPT ![t] = @ + 1]
            /\ Post(<<"event", t>>)
    /\ UNCHANGED <<running, starts, m_toEmit, rows, late>>

(* A ping that stays when the handler returns. *)
Unpinged(entry) == entry

Pinged(entry) == [entry EXCEPT !.ping = Zero]

(* notify, after the delivery.  Through a reference to an erased entry it  *)
(* writes to freed memory, which may by now be that of the new entry.      *)
Leave(t) ==
    /\ frames[t] # <<>>
    /\ \/ Set(t, Pinged(m_threads[t]))
       \/ ~Head(frames[t]) /\ UNCHANGED m_threads
    /\ frames' = [frames EXCEPT ![t] = Tail(@)]
    /\ UNCHANGED <<running, starts, connections, m_toEmit, queue, rows, late>>

(* The event loop ends: finished() is queued for each connection. *)
Finish(t) ==
    /\ t \in running /\ frames[t] = <<>>
    /\ running' = running \ {t}
    /\ queue' = queue \o [i \in 1..connections[t] |-> <<"finished", t>>]
    /\ UNCHANGED <<starts, m_threads, frames, connections, m_toEmit, rows, late>>

-----------------------------------------------------------------------------
(* The notifier's timerEvent: it looks at all pings in one go, under the   *)
(* mutex, and then emits its signals one by one.                           *)
Sampled == {t \in Threads : m_threads[t].ping # Zero}

(* A thread that is known to be stuck is not reported again. *)
IsStuckAnew(t) == m_threads[t].ping > Timeout /\ ~m_threads[t].stuck

IsStuck(t) == m_threads[t].ping > Timeout

Sample == /\ m_toEmit = {} /\ Sampled # {}
          /\ m_threads' = [t \in Threads |-> IF t \in Sampled
                                             THEN [m_threads[t] EXCEPT !.stuck = IsStuck(t)]
                                             ELSE m_threads[t]]
          /\ m_toEmit' = {<<"state", t, IsStuck(t)>> : t \in Sampled}
          /\ UNCHANGED <<running, starts, frames, connections, queue, rows, late>>

Emit == /\ Len(queue) < MaxQueued
        /\ \E e \in m_toEmit : Post(e) /\ m_toEmit' = m_toEmit \ {e}
        /\ UNCHANGED <<running, starts, m_threads, frames, connections, rows, late>>

-----------------------------------------------------------------------------
(* The view: a row that is missing, or finished, is made anew by any news. *)
Row(t) == IF rows[t] = "finished" THEN "none" ELSE rows[t]

(* threadFinishedSlot erases nothing. *)
Kept(t) == UNCHANGED <<m_threads, frames>>

Erased(t) == /\ Set(t, NoEntry)
             /\ frames' = [frames EXCEPT ![t] = [i \in 1..Len(@) |-> FALSE]]

(* The main thread's events. *)
Delivered(kind) == queue # <<>> /\ Head(queue)[1] = kind
Becomes(t, row) == rows' = [rows EXCEPT ![t] = row]

(* threadFinishedSlot tells the view at once; when the entry was known to  *)
(* be stuck, it first tells it that it is not, which the end covers.       *)
threadFinishedSlot ==
    /\ Delivered("finished")
    /\ LET t == Head(queue)[2] IN
       IF m_threads[t].exists THEN Erased(t) /\ Becomes(t, "finished")
                              ELSE UNCHANGED <<m_threads, frames, rows>>
    /\ queue' = Tail(queue)
    /\ UNCHANGED <<running, starts, connections, m_toEmit, late>>

(* The event to the QThread is done; its destructor emits newThreadSignal. *)
EventDestroyed ==
    /\ Delivered("event")
    /\ queue' = Append(Tail(queue), <<"newThread", Head(queue)[2]>>)
    /\ UNCHANGED <<running, starts, m_threads, frames, connections, m_toEmit, rows, late>>

(* The view's slots. *)
newThread ==
    /\ Delivered("newThread")
    /\ LET t == Head(queue)[2] IN Becomes(t, IF Row(t) = "none" THEN "plain" ELSE rows[t])
    /\ queue' = Tail(queue)
    /\ UNCHANGED <<running, starts, m_threads, frames, connections, m_toEmit, late>>

loopStateChanged ==
    /\ Delivered("state")
    /\ Becomes(Head(queue)[2], IF Head(queue)[3] THEN "red" ELSE "plain")
    /\ queue' = Tail(queue)
    /\ UNCHANGED <<running, starts, m_threads, frames, connections, m_toEmit, late>>

Dispatch == threadFinishedSlot \/ EventDestroyed \/ newThread \/ loopStateChanged

(* Time passes; a ping older than the timeout need not be told apart. *)
Tick == /\ \E t \in Threads : m_threads[t].ping \in 0..Timeout
        /\ m_threads' = [t \in Threads |-> IF m_threads[t].ping \in 0..Timeout
                                           THEN [m_threads[t] EXCEPT !.ping = @ + 1]
                                           ELSE m_threads[t]]
        /\ late' = late \cup {t \in Threads : m_threads'[t].ping > Timeout /\ frames[t] # <<>>}
        /\ UNCHANGED <<running, starts, frames, connections, m_toEmit, queue, rows>>

-----------------------------------------------------------------------------
Notifier == Sample \/ Emit
Thread(t) == Start(t) \/ Enter(t) \/ Leave(t) \/ Finish(t)
MonitorNext == Notifier \/ Dispatch \/ Tick \/ \E t \in Threads : Thread(t)
MonitorSpec == MonitorInit /\ [][MonitorNext]_monitorVars

(* No thread is called stuck unless one of its handlers ran for longer     *)
(* than the timeout.                                                       *)
NoFalseAlarm == \A t \in Threads : rows[t] = "red" => t \in late

(* A thread that never returns from the notify it entered last ends up as  *)
(* a red row, whatever reports of earlier handlers, starts and ends of the *)
(* thread are under way.  (It need not when a nested notify has returned:  *)
(* that one clears the ping of the outer one.)                             *)
HangIsShown == \A t \in Threads : <>[](m_threads[t].ping # Zero) => <>[](rows[t] = "red")

(* The entry of a thread that has finished goes away, unless the thread    *)
(* runs again: the notifier does not look at threads that are gone.        *)
FinishedIsForgotten == \A t \in Threads : (t \notin running) ~> (t \in running \/ ~m_threads[t].exists)

(* loopStateChanged tells that a thread has gotten stuck, "or unstuck":    *)
(* a row does not stay red when no handler runs any more.                  *)
UnstuckIsShown == \A t \in Threads : (rows[t] = "red") ~> (rows[t] # "red" \/ frames[t] # <<>>)
=============================================================================
