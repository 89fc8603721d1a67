--------------------------- MODULE DeviceProgrammer ---------------------------
(***************************************************************************)
(* questions/comm-commands-32486198: a Programmer that boots a Device and  *)
(* loads an image into it over a pipe, each a QStateMachine in the main    *)
(* thread.  A machine reacts to data only in a state that expects some:    *)
(* readyRead() in any other state passes unheard, and the lines stay in    *)
(* the buffer.  The user may start and stop the Device and start the       *)
(* Programmer at any time; nothing empties the pipes in between.           *)
(*                                                                         *)
(* Writes are direct calls, so one event (a click, a timer) runs through   *)
(* all the reactions it sets off before the next: notified holds the       *)
(* machines that have still to react to readyRead().  A machine that is    *)
(* told twice before it reacts finds nothing the second time, so a set of  *)
(* machines is enough.                                                     *)
(***************************************************************************)
EXTENDS Naturals, Sequences, SequencesExt

CONSTANTS
    BootTime,   \* the delay of s_booting, 500 ms in the code
    Timeout,    \* the timeouts of Programmer, 1000 ms in the code
    MaxLines    \* bound: lines the Device is left with unread

ASSUME TimesAssumption ==
    /\ BootTime \in Nat \ {0} /\ Timeout \in Nat /\ MaxLines \in Nat
    /\ BootTime < Timeout

VARIABLES
    dev,        \* the Device: "off", "starting", or its state; final: "s_loaded"
    prog,       \* the Programmer: "off", "starting", or its state; final: "s_ok", "s_failed"
    devBuf,     \* lines the Device has not read
    portBuf,    \* lines the Programmer has not read
    notified,   \* the machines that are to react to readyRead()
    bootLeft,   \* time left of the timer of s_booting, 0 when it does not run
    waitLeft    \* time left of the timer of s_boot or s_send, 0 when it does not run

vars == <<dev, prog, devBuf, portBuf, notified, bootLeft, waitLeft>>

Init == /\ dev = "off" /\ prog = "off"
        /\ devBuf = <<>> /\ portBuf = <<>> /\ notified = {}
        /\ bootLeft = 0 /\ waitLeft = 0

(* The main thread is back in its event loop. *)
AtRest == notified = {}

-----------------------------------------------------------------------------
(* send, and what readyRead() at the other end sets off: the machine there *)
(* reacts if the state it is in has a transition on the signal.            *)
ExpectingOnce(machine) == IF machine = "dev" THEN dev \in {"s_init", "s_firmware"}
                                             ELSE prog = "s_boot"
Expecting(machine) == IF machine = "dev" THEN dev \in {"s_init", "s_firmware"}
                                         ELSE prog \in {"s_boot", "s_send"}

DevSends(line) == /\ portBuf' = Append(portBuf, line)
                  /\ notified' = {m \in {"prog"} : Expecting(m)}

ProgSends(lines) == /\ devBuf' = devBuf \o lines
                    /\ notified' = {m \in {"dev"} : Expecting(m)}

(* hasLine reads every line there is and tells whether one has the needle. *)
(* The only line that contains more than its needle, "boot successful",    *)
(* goes to the Programmer, which looks for all of it.                      *)
hasLine(buf, needle) == Contains(buf, needle)

(* The delay of s_booting, and one that outlasts the Programmer's patience. *)
LongBootDelay == Timeout
BootDelay == BootTime

(* What s_send writes, and the same without its last record. *)
ImageWithoutEnd == <<":HULLOTHERE">>
Image == <<":HULLOTHERE", ":00000001FF">>

-----------------------------------------------------------------------------
(* The Device. *)
ClickDevStart == /\ AtRest
                 /\ dev \in {"off", "s_loaded"}
                 /\ dev' = "starting"
                 /\ UNCHANGED <<prog, devBuf, portBuf, notified, bootLeft, waitLeft>>

(* QStateMachine starts from the event loop. *)
DevStarts == /\ AtRest
             /\ dev = "starting"
             /\ dev' = "s_init"
             /\ UNCHANGED <<prog, devBuf, portBuf, notified, bootLeft, waitLeft>>

(* stop() leaves no state, so a timer of s_booting runs on, unheard.       *)
ClickDevStop == /\ AtRest
                /\ dev \in {"s_init", "s_booting", "s_firmware"}
                /\ dev' = "off"
                /\ UNCHANGED <<prog, devBuf, portBuf, notified, bootLeft, waitLeft>>

(* readyRead() in s_init: a boot command starts the boot delay. *)
DevInit == /\ "dev" \in notified
           /\ dev = "s_init"
           /\ devBuf' = <<>>
           /\ notified' = notified \ {"dev"}
           /\ IF hasLine(devBuf, "boot") THEN dev' = "s_booting" /\ bootLeft' = BootDelay
                                         ELSE UNCHANGED <<dev, bootLeft>>
           /\ UNCHANGED <<prog, portBuf, waitLeft>>

(* The boot delay is over; only s_booting has a transition on its timer.   *)
BootDone == /\ AtRest
            /\ bootLeft = 1
            /\ bootLeft' = 0
            /\ IF dev = "s_booting" THEN dev' = "s_firmware" /\ DevSends("boot successful")
                                    ELSE UNCHANGED <<dev, portBuf, notified>>
            /\ UNCHANGED <<prog, devBuf, waitLeft>>

(* readyRead() in s_firmware: the last record of the image ends the load. *)
DevFirmware == /\ "dev" \in notified
               /\ dev = "s_firmware"
               /\ devBuf' = <<>>
               /\ IF hasLine(devBuf, ":00000001FF")
                  THEN dev' = "s_loaded" /\ DevSends("load successful")
                  ELSE notified' = notified \ {"dev"} /\ UNCHANGED <<dev, portBuf>>
               /\ UNCHANGED <<prog, bootLeft, waitLeft>>

-----------------------------------------------------------------------------
(* The Programmer. *)
ClickProgStart == /\ AtRest
                  /\ prog \in {"off", "s_ok", "s_failed"}
                  /\ Len(devBuf) < MaxLines
                  /\ prog' = "starting"
                  /\ UNCHANGED <<dev, devBuf, portBuf, notified, bootLeft, waitLeft>>

(* Entering s_boot; a Programmer without the timeout waits for ever. *)
ProgStartsUntimed == /\ AtRest
                     /\ prog = "starting"
                     /\ prog' = "s_boot"
                     /\ ProgSends(<<"boot">>)
                     /\ UNCHANGED <<dev, portBuf, bootLeft, waitLeft>>
ProgStarts == /\ AtRest
              /\ prog = "starting"
              /\ prog' = "s_boot"
              /\ ProgSends(<<"boot">>)
              /\ waitLeft' = Timeout
              /\ UNCHANGED <<dev, portBuf, bootLeft>>

(* readyRead() in s_boot: the Device has booted, and is sent the image. *)
ProgBoot == /\ "prog" \in notified
            /\ prog = "s_boot"
            /\ portBuf' = <<>>
            /\ IF hasLine(portBuf, "boot successful")
               THEN prog' = "s_send" /\ waitLeft' = Timeout /\ ProgSends(Image)
               ELSE notified' = notified \ {"prog"} /\ UNCHANGED <<prog, waitLeft, devBuf>>
            /\ UNCHANGED <<dev, bootLeft>>

(* readyRead() in s_send: the Device has the image. *)
ProgSend == /\ "prog" \in notified
            /\ prog = "s_send"
            /\ portBuf' = <<>>
            /\ notified' = notified \ {"prog"}
            /\ IF hasLine(portBuf, "load successful") THEN prog' = "s_ok" /\ waitLeft' = 0
                                                      ELSE UNCHANGED <<prog, waitLeft>>
            /\ UNCHANGED <<dev, devBuf, bootLeft>>

(* The timeout of s_boot or s_send; expect with its two targets swapped. *)
ProgTimeoutSwapped == /\ AtRest
                      /\ waitLeft = 1
                      /\ waitLeft' = 0
                      /\ prog' = "s_ok"
                      /\ UNCHANGED <<dev, devBuf, portBuf, notified, bootLeft>>
ProgTimeout == /\ AtRest
               /\ waitLeft = 1
               /\ waitLeft' = 0
               /\ prog' = "s_failed"
               /\ UNCHANGED <<dev, devBuf, portBuf, notified, bootLeft>>

(* Time passes while the main thread waits, up to the next timer. *)
Tick == /\ AtRest
        /\ bootLeft # 1 /\ waitLeft # 1
        /\ bootLeft + waitLeft > 0
        /\ bootLeft' = IF bootLeft = 0 THEN 0 ELSE bootLeft - 1
        /\ waitLeft' = IF waitLeft = 0 THEN 0 ELSE waitLeft - 1
        /\ UNCHANGED <<dev, prog, devBuf, portBuf, notified>>

User == ClickDevStart \/ ClickDevStop \/ ClickProgStart
React == DevInit \/ DevFirmware \/ ProgBoot \/ ProgSend
EventLoop == DevStarts \/ ProgStarts \/ BootDone \/ ProgTimeout \/ Tick

Next == User \/ React \/ EventLoop

Spec == Init /\ [][Next]_vars

(* The event loop is served, whatever the user clicks. *)
FairSpec == Spec /\ WF_vars(React) /\ WF_vars(DevStarts) /\ WF_vars(ProgStarts)
                 /\ WF_vars(BootDone) /\ WF_vars(ProgTimeout) /\ WF_vars(Tick)

-----------------------------------------------------------------------------
Lines == {"boot", "boot successful", "load successful", ":HULLOTHERE", ":00000001FF"}

DevStates == {"off", "starting", "s_init", "s_booting", "s_firmware", "s_loaded"}
ProgStates == {"off", "starting", "s_boot", "s_send", "s_ok", "s_failed"}

(* The machines are in states of theirs, and no timer runs longer than set. *)
TypeOK == /\ dev \in DevStates /\ prog \in ProgStates
          /\ devBuf \in Seq(Lines) /\ portBuf \in Seq(Lines)
          /\ notified \subseteq {"dev", "prog"}
          /\ bootLeft \in 0..BootTime /\ waitLeft \in 0..Timeout

(* The Programmer never has an answer left over that a later start of it   *)
(* would take for its own: expect (main.cpp:107-113) reads the buffer only *)
(* in the state that waits, and nothing ever clears it.                    *)
NoStaleReply == AtRest => portBuf = <<>>

(* Once the Device has booted, the load is over before the main thread     *)
(* returns to its event loop: neither is ever found half way, however the  *)
(* user stops and restarts them.  It takes the boot delay of main.cpp:160  *)
(* to be shorter than the timeout of main.cpp:181.                         *)
HandshakeRunsThrough == AtRest => dev # "s_firmware" /\ prog # "s_send"

(* The Programmer reports success only of a Device that holds the image. *)
OkMeansLoaded == [][prog # "s_ok" /\ prog' = "s_ok" => dev = "s_loaded"]_vars

(* A Programmer that is started ends, with or without a Device. *)
ProgrammerEnds == prog = "starting" ~> prog \in {"s_ok", "s_failed"}

(* A Programmer started on a waiting Device succeeds, unless the user stops *)
(* the Device meanwhile: whatever earlier attempts left in the Device's    *)
(* buffer and timer does no harm.                                          *)
ReadyDeviceIsProgrammed == dev = "s_init" /\ prog = "starting" ~> prog = "s_ok" \/ dev = "off"
=============================================================================
