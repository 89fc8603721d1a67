---------------------------- MODULE PinnedObject ----------------------------
(***************************************************************************)
(* What a count-down latch promises to the object it guards: the object    *)
(* is kept alive by a set of pins, and it goes away at most once, at a     *)
(* moment when nothing pins it.  A pin may be handed over without the      *)
(* object ever being unpinned in between.  CountDownLatch implements this. *)
(***************************************************************************)
CONSTANT Pins

VARIABLES
    pinned,     \* the pins that hold the object now
    alive       \* the object has not been given up yet

vars == <<pinned, alive>>

Init == pinned = {} /\ alive = TRUE

Pin(p) == /\ alive
          /\ p \notin pinned
          /\ pinned' = pinned \cup {p}
          /\ UNCHANGED alive

Handover(p, q) == /\ p \in pinned
                  /\ q \notin pinned
                  /\ pinned' = (pinned \ {p}) \cup {q}
                  /\ UNCHANGED alive

Unpin(p) == /\ p \in pinned
            /\ pinned' = pinned \ {p}
            /\ UNCHANGED alive

GiveUp == /\ alive
          /\ pinned = {}
          /\ alive' = FALSE
          /\ UNCHANGED pinned

Next == \/ \E p \in Pins : Pin(p) \/ Unpin(p)
        \/ \E p, q \in Pins : Handover(p, q)
        \/ GiveUp

Spec == Init /\ [][Next]_vars
=============================================================================
