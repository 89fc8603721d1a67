-------------------------- MODULE CallbackProcessor --------------------------
(***************************************************************************)
(* CallbackProcessor of tooling/tooling.cpp: Qt calls it for every event   *)
(* it delivers, and it calls the hooks the programs have registered: on    *)
(* every event (EventHook), on the first event a QApplication gets         *)
(* (HasQApplicationHook), and when the event loop spins for the first time *)
(* (EventLoopSpinupHook).                                                  *)
(*                                                                         *)
(* callHooks walks a vector that it changes as it goes, and the hooks it   *)
(* calls may deliver further events or register further hooks: each call   *)
(* under way is a frame of the stack, with its own iterator.               *)
(***************************************************************************)
EXTENDS Integers, Sequences, SequencesExt

CONSTANTS
    Hooks,              \* the functions that can be registered
    Plain,              \* those that are function pointers; the others are functors, which never compare equal
    Stopping,           \* those that return true
    Nesting,            \* those that deliver events while they run
    Registering,        \* those that call registerHook while they run
    NestedKinds,        \* the events a nesting hook delivers
    Requests,           \* the sets of types the program registers hooks for
    MaxRegistrations,   \* bound: calls of registerHook
    MaxDepth            \* bound: calls of callHooks under way at once

SingleShot == {"HasQApplicationHook", "EventLoopSpinupHook"}
Types == {"EventHook"} \cup SingleShot
Kinds == {"other", "app", "loop"}   \* any event, one for the QApplication, and loopEvent
None == "none"

ASSUME HooksAssumption ==
    /\ Plain \subseteq Hooks /\ Stopping \subseteq Hooks
    /\ Nesting \subseteq Hooks /\ Registering \subseteq Hooks
    /\ None \notin Hooks
    /\ NestedKinds \subseteq Kinds
    /\ Requests \subseteq (SUBSET Types) \ {{}}
    /\ MaxRegistrations \in Nat /\ MaxDepth \in Nat

VARIABLES
    hooks,      \* QVector<Hook>: records [fun, types]
    fired,      \* the types that have been seen
    loopEvent,  \* loopEvent is posted and not delivered yet
    installed,  \* the callback is registered with QInternal
    stack,      \* calls of callHooks: [types, filter, it, valid, running, stop]
    asked,      \* history: how often a hook was registered for a type that had not fired
    calls,      \* history: how often a hook was called for a type
    registered  \* calls of registerHook so far

vars == <<hooks, fired, loopEvent, installed, stack, asked, calls, registered>>

Init == /\ hooks = <<>>
        /\ fired = {}
        /\ loopEvent = FALSE
        /\ installed = TRUE
        /\ stack = <<>>
        /\ asked = [h \in Hooks |-> [t \in Types |-> 0]]
        /\ calls = [h \in Hooks |-> [t \in Types |-> 0]]
        /\ registered = 0

Top == stack[Len(stack)]
SetTop(f) == stack' = [stack EXCEPT ![Len(stack)] = f]

(* The code that runs now: main() or the event loop, or a hook of hs. *)
Running(hs) == stack # <<>> => Top.running \in hs

-----------------------------------------------------------------------------
(* A hook that is never recognised. *)
HasNever(entry, h) == FALSE

(* Hook::has: only function pointers can be recognised. *)
Has(entry, h) == h \in Plain /\ entry.fun = h

(* A new entry may move the vector; what the iterators of the calls under  *)
(* way point to after that is undefined.                                   *)
PushBack(h, ts) ==
    /\ hooks' = Append(hooks, [fun |-> h, types |-> ts])
    /\ \E moved \in BOOLEAN :
          stack' = [i \in 1..Len(stack) |-> [stack[i] EXCEPT !.valid = @ /\ ~moved]]

registerHook(h, ts) ==
    /\ Running(Registering)
    /\ registered < MaxRegistrations
    /\ registered' = registered + 1
    /\ asked' = [asked EXCEPT ![h] = [t \in Types |-> IF t \in ts \ fired
                                                      THEN IF h \in Plain THEN 1 ELSE @[t] + 1
                                                      ELSE @[t]]]
    /\ \/ /\ \A i \in 1..Len(hooks) : ~Has(hooks[i], h)
          /\ PushBack(h, ts)
       \/ \E i \in 1..Len(hooks) :
             /\ Has(hooks[i], h)
             /\ hooks' = [hooks EXCEPT ![i].types = @ \cup ts]
             /\ UNCHANGED stack
    /\ UNCHANGED <<fired, loopEvent, installed, calls>>

-----------------------------------------------------------------------------
(* The occasions an event is: the single-shot ones only the first time. *)
Now(kind) == {"EventHook"}
             \cup (IF kind \in {"app", "loop"} THEN {"HasQApplicationHook"} \ fired ELSE {})
             \cup (IF kind = "loop" THEN {"EventLoopSpinupHook"} \ fired ELSE {})

(* A call that starts in front of the first entry. *)
FrameBefore(now) == [types |-> now, filter |-> "EventLoopSpinupHook" \in now, it |-> 0, valid |-> TRUE,
                     running |-> None, stop |-> FALSE]

(* A call of callHooks that is about to look at the first entry. *)
Frame(now) == [types |-> now, filter |-> "EventLoopSpinupHook" \in now, it |-> 1, valid |-> TRUE,
               running |-> None, stop |-> FALSE]

(* eventHook and the head of callHooks: an event is about to be delivered. *)
Deliver(kind) ==
    /\ installed
    /\ Len(stack) < MaxDepth
    /\ Running(Nesting)
    /\ stack # <<>> => kind \in NestedKinds
    /\ kind = "loop" => loopEvent
    /\ LET now == Now(kind) IN
       /\ fired' = fired \cup now
       /\ loopEvent' = /\ loopEvent \/ "HasQApplicationHook" \in now
                       /\ "EventLoopSpinupHook" \notin now
       /\ stack' = Append(stack, Frame(now))
    /\ UNCHANGED <<hooks, installed, asked, calls, registered>>

(* The loop over hooks: an entry with none of the types is passed over. *)
Walking == stack # <<>> /\ Top.running = None /\ Top.valid
AtEntry == Walking /\ Top.it <= Len(hooks)

PassOver == /\ AtEntry
            /\ hooks[Top.it].types \cap Top.types = {}
            /\ SetTop([Top EXCEPT !.it = @ + 1])
            /\ UNCHANGED <<hooks, fired, loopEvent, installed, asked, calls, registered>>

(* A mask that takes nothing away. *)
LeftAll(types, now) == types

(* it->types &= ~d.types | EventHook *)
Left(types, now) == (types \ now) \cup (types \cap {"EventHook"})

(* The history of calls need not count further than what is wrong already. *)
Counted(n) == IF n > MaxRegistrations THEN n ELSE n + 1

(* An entry with one of the types is called; it is erased first if nothing *)
(* is left for it to wait for.  The iterator stays where it is.            *)
Call == /\ AtEntry
        /\ LET entry == hooks[Top.it]
               left  == Left(entry.types, Top.types)
           IN  /\ entry.types \cap Top.types # {}
               /\ hooks' = IF left = {} THEN RemoveAt(hooks, Top.it)
                                        ELSE [hooks EXCEPT ![Top.it].types = left]
               /\ SetTop([Top EXCEPT !.running = entry.fun])
               /\ calls' = [calls EXCEPT ![entry.fun] =
                              [t \in Types |-> IF t \in SingleShot \cap entry.types \cap Top.types
                                               THEN Counted(@[t]) ELSE @[t]]]
        /\ UNCHANGED <<fired, loopEvent, installed, asked, registered>>

(* The hook returns.  Nobody looks at what it returns: stop is history. *)
HookReturns == /\ stack # <<>>
               /\ Top.running # None
               /\ SetTop([Top EXCEPT !.running = None, !.stop = @ \/ Top.running \in Stopping])
               /\ UNCHANGED <<hooks, fired, loopEvent, installed, asked, calls, registered>>

(* The tail of callHooks: with nothing left to wait for, stop listening. *)
Finish == /\ Walking
          /\ Top.it = Len(hooks) + 1
          /\ installed' = (installed /\ ~(hooks = <<>> /\ SingleShot \subseteq fired))
          /\ stack' = Front(stack)
          /\ UNCHANGED <<hooks, fired, loopEvent, asked, calls, registered>>

Register == \E h \in Hooks, ts \in Requests : registerHook(h, ts)
Event == \E kind \in Kinds : Deliver(kind)
Walk == PassOver \/ Call \/ HookReturns \/ Finish

Next == Register \/ Event \/ Walk

Spec == Init /\ [][Next]_vars

(* A call of callHooks runs on: nothing in it waits.  A hook that delivers  *)
(* events does so a finite number of times.  Events need not come.         *)
FairSpec == Spec /\ WF_vars(Walk) /\ SF_vars(HookReturns)

-----------------------------------------------------------------------------
TypeOK ==
    /\ hooks \in Seq([fun : Hooks, types : SUBSET Types])
    /\ fired \subseteq Types
    /\ loopEvent \in BOOLEAN /\ installed \in BOOLEAN
    /\ stack \in Seq([types : SUBSET Types, filter : BOOLEAN, it : Nat \ {0}, valid : BOOLEAN,
                      running : Hooks \cup {None}, stop : BOOLEAN])
    /\ Len(stack) <= MaxDepth
    /\ registered \in 0..MaxRegistrations

(* A hook registered in time for a single-shot occasion is called for it   *)
(* exactly once (a functor: once per registration) when the occasion       *)
(* comes, and one that is registered too late is not called at all: no     *)
(* entry is skipped when another one is erased under the iterator.         *)
CalledOnce ==
    stack = <<>> =>
        \A h \in Hooks, t \in SingleShot :
            calls[h][t] = IF t \in fired THEN asked[h][t] ELSE 0

(* Delivering an event does not hang in the hooks. *)
DeliveryEnds == (stack # <<>>) ~> (stack = <<>>)

(* tooling.h:52, "hook returns true if no further hooks should be          *)
(* processed": once a hook of a call has returned true, the call calls no  *)
(* other hook.                                                             *)
StopIsHonoured == \A i \in 1..Len(stack) : stack[i].stop => stack[i].running = None

(* tooling.h:52 again: a hook that returns false lets the further hooks be *)
(* processed, so a call none of whose hooks stops it gets through them all.*)
FurtherHooksProcessed == (Walking /\ ~Top.stop) ~> (stack # <<>> => Top.it > Len(hooks))

(* tooling.cpp:163, "allow reentrancy": whatever the hooks do, the         *)
(* iterator of a call under way stays within the vector it walks.          *)
IteratorsUsable == \A i \in 1..Len(stack) : stack[i].valid /\ stack[i].it <= Len(hooks) + 1
=============================================================================
