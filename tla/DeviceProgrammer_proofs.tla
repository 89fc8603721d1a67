------------------------ MODULE DeviceProgrammer_proofs ------------------------
(***************************************************************************)
(* For every boot delay shorter than the timeout, the handshake runs       *)
(* through.  The argument: a Device that boots was told so by a Programmer *)
(* that still waits, and whose timer has more left than the Device's       *)
(* (Booting); so the lines the two exchange then find each other in the    *)
(* right state, in the one order that Reacting lists.                      *)
(***************************************************************************)
EXTENDS DeviceProgrammer, TLAPS

(* The Programmer's timer runs in the states that have one. *)
Waiting == waitLeft > 0 <=> prog \in {"s_boot", "s_send"}

(* A Device that boots does so for a Programmer that outlasts it. *)
Booting == dev = "s_booting" => /\ AtRest /\ prog = "s_boot"
                                /\ 0 < bootLeft /\ bootLeft < waitLeft

(* The four points at which a machine has still to react. *)
BootSent  == notified = {"dev"} /\ dev = "s_init" /\ prog = "s_boot" /\ portBuf = <<>>
             /\ waitLeft = Timeout
Booted    == notified = {"prog"} /\ dev = "s_firmware" /\ prog = "s_boot"
             /\ portBuf = <<"boot successful">>
ImageSent == notified = {"dev"} /\ dev = "s_firmware" /\ prog = "s_send" /\ portBuf = <<>>
             /\ hasLine(devBuf, ":00000001FF")
Loaded    == notified = {"prog"} /\ dev = "s_loaded" /\ prog = "s_send"
             /\ portBuf = <<"load successful">>
Reacting == AtRest \/ BootSent \/ Booted \/ ImageSent \/ Loaded

IInv == TypeOK /\ Waiting /\ Booting /\ NoStaleReply /\ HandshakeRunsThrough /\ Reacting

(* What a buffer holds after a line, or the image, was written to it. *)
LEMMA LineArrives ==
  ASSUME NEW l \in Lines
  PROVE  /\ <<l>> \in Seq(Lines) /\ Append(<<>>, l) = <<l>> /\ hasLine(<<l>>, l)
         /\ \A b \in Seq(Lines) : Append(b, l) \in Seq(Lines) /\ b \o <<l>> \in Seq(Lines)
<1>1. <<l>> \in Seq(Lines) /\ Append(<<>>, l) = <<l>>
  OBVIOUS
<1>2. hasLine(<<l>>, l)
  BY DEF hasLine, Contains
<1>. QED BY <1>1, <1>2

LEMMA ImageArrives ==
  ASSUME NEW b \in Seq(Lines)
  PROVE  b \o Image \in Seq(Lines) /\ hasLine(b \o Image, ":00000001FF")
<1>. DEFINE x == ":HULLOTHERE"  y == ":00000001FF"
<1>1. x \in Lines /\ y \in Lines
  BY DEF Lines
<1>2. <<x, y>> \in Seq(Lines)
  BY <1>1
<1>3. Len(<<x, y>>) = 2 /\ <<x, y>>[2] = y
  OBVIOUS
<1>4. b \o <<x, y>> \in Seq(Lines) /\ Len(b \o <<x, y>>) = Len(b) + 2
  BY <1>2, <1>3
<1>5. Len(b) \in Nat /\ Len(b) + 2 \in 1..Len(b) + 2
  OBVIOUS
<1>6. (b \o <<x, y>>)[Len(b) + 2] = y
  BY <1>2, <1>3, <1>5
<1>. QED BY <1>4, <1>5, <1>6 DEF hasLine, Contains, Image

LEMMA NoLine == <<>> \in Seq(Lines)
OBVIOUS

LEMMA Boot == "boot" \in Lines
BY DEF Lines
LEMMA BootSuccessful == "boot successful" \in Lines
BY DEF Lines
LEMMA LoadSuccessful == "load successful" \in Lines
BY DEF Lines

LEMMA InitIInv == Init => IInv
BY TimesAssumption, NoLine
   DEF Init, IInv, TypeOK, DevStates, ProgStates, Waiting, Booting, NoStaleReply, HandshakeRunsThrough, Reacting, AtRest

(* What a timer set to n and with m left can have left a step later. *)
LEMMA TimerRuns ==
  ASSUME NEW n \in Nat, NEW m \in 0..n, NEW k,
         k = m \/ k = n \/ k = 0 \/ (m # 0 /\ k = m - 1)
  PROVE  k \in 0..n
OBVIOUS

(* The types alone are inductive: one step per conjunct of TypeOK. *)
LEMMA TypeKept == TypeOK /\ [Next]_vars => TypeOK'
<1>. SUFFICES ASSUME TypeOK, [Next]_vars PROVE TypeOK'
  OBVIOUS
<1>. USE DEF Next, User, ClickDevStart, ClickDevStop, ClickProgStart, React, DevInit, DevFirmware,
         ProgBoot, ProgSend, EventLoop, DevStarts, ProgStarts, BootDone, ProgTimeout, Tick, vars
<1>1. dev' \in DevStates
  <2>1. dev \in DevStates
    BY DEF TypeOK
  <2>. QED BY <2>1 DEF DevStates
<1>2. prog' \in ProgStates
  <2>1. prog \in ProgStates
    BY DEF TypeOK
  <2>. QED BY <2>1 DEF ProgStates
<1>3. devBuf' \in Seq(Lines)
  <2>1. devBuf \in Seq(Lines)
    BY DEF TypeOK
  <2>2. \/ devBuf' = devBuf \/ devBuf' = <<>>
        \/ devBuf' = devBuf \o <<"boot">> \/ devBuf' = devBuf \o Image
    BY DEF ProgSends
  <2>3. devBuf \o <<"boot">> \in Seq(Lines)
    BY <2>1, Boot, LineArrives
  <2>. QED BY <2>1, <2>2, <2>3, NoLine, ImageArrives
<1>4. portBuf' \in Seq(Lines)
  <2>1. portBuf \in Seq(Lines)
    BY DEF TypeOK
  <2>2. \/ portBuf' = portBuf \/ portBuf' = <<>> \/ portBuf' = Append(portBuf, "boot successful")
        \/ portBuf' = Append(portBuf, "load successful")
    BY DEF DevSends
  <2>3. Append(portBuf, "boot successful") \in Seq(Lines)
    BY <2>1, BootSuccessful, LineArrives
  <2>4. Append(portBuf, "load successful") \in Seq(Lines)
    BY <2>1, LoadSuccessful, LineArrives
  <2>. QED BY <2>1, <2>2, <2>3, <2>4, NoLine
<1>5. notified' \subseteq {"dev", "prog"}
  <2>1. notified \subseteq {"dev", "prog"}
    BY DEF TypeOK
  <2>. QED BY <2>1 DEF DevSends, ProgSends
<1>. BootTime \in Nat /\ Timeout \in Nat
  BY TimesAssumption
<1>6. bootLeft' \in 0..BootTime
  <2>1. bootLeft \in 0..BootTime
    BY DEF TypeOK
  <2>2. \/ bootLeft' = bootLeft \/ bootLeft' = BootTime \/ bootLeft' = 0
        \/ (bootLeft # 0 /\ bootLeft' = bootLeft - 1)
    BY DEF BootDelay
  <2>. QED BY <2>1, <2>2, TimerRuns
<1>7. waitLeft' \in 0..Timeout
  <2>1. waitLeft \in 0..Timeout
    BY DEF TypeOK
  <2>2. \/ waitLeft' = waitLeft \/ waitLeft' = Timeout \/ waitLeft' = 0
        \/ (waitLeft # 0 /\ waitLeft' = waitLeft - 1)
    OBVIOUS
  <2>. QED BY <2>1, <2>2, TimerRuns
<1>. QED BY <1>1, <1>2, <1>3, <1>4, <1>5, <1>6, <1>7 DEF TypeOK

-----------------------------------------------------------------------------
(* The control part of IInv, step by step. *)
Control == Waiting /\ Booting /\ NoStaleReply /\ HandshakeRunsThrough /\ Reacting

(* The clicks, which happen at rest and leave the buffers alone. *)
LEMMA UserKeeps == IInv /\ User => Control'
BY DEF IInv, User, ClickDevStart, ClickDevStop, ClickProgStart, Control, TypeOK, Waiting, Booting,
       NoStaleReply, HandshakeRunsThrough, Reacting, AtRest, BootSent, Booted, ImageSent, Loaded

(* Which of the four points it is, from who reacts in which state. *)
LEMMA OneReacts ==
  ASSUME Reacting
  PROVE  /\ "dev" \in notified /\ dev = "s_init" => BootSent
         /\ "prog" \in notified /\ prog = "s_boot" => Booted
         /\ "dev" \in notified /\ dev = "s_firmware" => ImageSent
         /\ "prog" \in notified /\ prog = "s_send" => Loaded
BY DEF Reacting, AtRest, BootSent, Booted, ImageSent, Loaded

(* The reactions, each at the one point where it can happen. *)
LEMMA ReactKeeps == IInv /\ React => Control'
<1>. SUFFICES ASSUME IInv, React PROVE Control'
  OBVIOUS
<1>. USE DEF IInv, Control, Waiting, Booting, NoStaleReply, HandshakeRunsThrough, Reacting, AtRest
<1>. /\ TypeOK /\ devBuf \in Seq(Lines)
     /\ bootLeft \in Nat /\ waitLeft \in Nat
  BY TimesAssumption DEF TypeOK
<1>1. CASE DevInit
  <2>1. BootSent
    BY <1>1, OneReacts DEF DevInit
  <2>2. AtRest' /\ portBuf' = <<>> /\ prog' = "s_boot" /\ waitLeft' = Timeout
        /\ (dev' = "s_init" \/ (dev' = "s_booting" /\ bootLeft' = BootTime))
    BY <1>1, <2>1 DEF DevInit, BootSent, BootDelay
  <2>. QED BY <2>2, TimesAssumption
<1>2. CASE DevFirmware
  <2>1. ImageSent
    BY <1>2, OneReacts DEF DevFirmware
  <2>2. dev' = "s_loaded" /\ DevSends("load successful") /\ UNCHANGED <<prog, bootLeft, waitLeft>>
    BY <1>2, <2>1 DEF DevFirmware, ImageSent
  <2>3. Loaded'
    BY <2>1, <2>2, LoadSuccessful, LineArrives DEF DevSends, Expecting, ImageSent, Loaded
  <2>. QED BY <2>1, <2>2, <2>3 DEF Loaded, ImageSent
<1>3. CASE ProgBoot
  <2>1. Booted
    BY <1>3, OneReacts DEF ProgBoot
  <2>2. hasLine(portBuf, "boot successful")
    BY <2>1, BootSuccessful, LineArrives DEF Booted
  <2>3. prog' = "s_send" /\ waitLeft' = Timeout /\ ProgSends(Image) /\ portBuf' = <<>>
        /\ dev' = dev
    BY <1>3, <2>2 DEF ProgBoot
  <2>4. ImageSent'
    BY <2>1, <2>3, ImageArrives DEF ProgSends, Expecting, Booted, ImageSent
  <2>. QED BY <2>3, <2>4, TimesAssumption DEF ImageSent
<1>4. CASE ProgSend
  <2>1. Loaded
    BY <1>4, OneReacts DEF ProgSend
  <2>2. hasLine(portBuf, "load successful")
    BY <2>1, LoadSuccessful, LineArrives DEF Loaded
  <2>3. AtRest' /\ portBuf' = <<>> /\ dev' = "s_loaded" /\ prog' = "s_ok" /\ waitLeft' = 0
    BY <1>4, <2>1, <2>2 DEF ProgSend, Loaded
  <2>. QED BY <2>3
<1>. QED BY <1>1, <1>2, <1>3, <1>4 DEF React

(* The event loop: starts, timers, and time. *)
LEMMA EventLoopKeeps == IInv /\ EventLoop => Control'
<1>. SUFFICES ASSUME IInv, EventLoop PROVE Control'
  OBVIOUS
<1>. USE DEF IInv, Control, Waiting, Booting, NoStaleReply, HandshakeRunsThrough, Reacting, AtRest
<1>. /\ AtRest /\ portBuf = <<>>
  BY DEF EventLoop, DevStarts, ProgStarts, BootDone, ProgTimeout, Tick
<1>. bootLeft \in Nat /\ waitLeft \in Nat
  BY TimesAssumption DEF TypeOK
<1>1. CASE DevStarts
  BY <1>1 DEF DevStarts
<1>2. CASE ProgStarts
  <2>1. prog' = "s_boot" /\ waitLeft' = Timeout /\ dev' = dev /\ portBuf' = <<>> /\ prog = "starting"
    BY <1>2 DEF ProgStarts
  <2>2. notified' = {} \/ (notified' = {"dev"} /\ dev = "s_init") \/ dev = "s_firmware"
    BY <1>2 DEF ProgStarts, ProgSends, Expecting
  <2>3. AtRest' \/ BootSent'
    BY <2>1, <2>2 DEF BootSent
  <2>. QED BY <2>1, <2>3, TimesAssumption DEF BootSent
<1>3. CASE BootDone
  <2>1. CASE dev = "s_booting"
    <3>1. DevSends("boot successful") /\ dev' = "s_firmware" /\ prog = "s_boot"
          /\ UNCHANGED <<prog, waitLeft>>
      BY <1>3, <2>1 DEF BootDone
    <3>2. Booted'
      BY <3>1, BootSuccessful, LineArrives DEF DevSends, Expecting, Booted
    <3>. QED BY <3>1, <3>2 DEF Booted
  <2>2. CASE dev # "s_booting"
    BY <1>3, <2>2 DEF BootDone
  <2>. QED BY <2>1, <2>2
<1>4. CASE ProgTimeout
  BY <1>4 DEF ProgTimeout
<1>5. CASE Tick
  BY <1>5 DEF Tick
<1>. QED BY <1>1, <1>2, <1>3, <1>4, <1>5 DEF EventLoop

LEMMA StutterKeeps == IInv /\ UNCHANGED vars => Control'
BY DEF vars, IInv, Control, Waiting, Booting, NoStaleReply, HandshakeRunsThrough, Reacting, AtRest,
       BootSent, Booted, ImageSent, Loaded, hasLine

LEMMA NextIInv == IInv /\ [Next]_vars => IInv'
BY UserKeeps, ReactKeeps, EventLoopKeeps, StutterKeeps, TypeKept DEF Next, IInv, Control

LEMMA AlwaysIInv == Spec => []IInv
BY InitIInv, NextIInv, PTL DEF Spec

-----------------------------------------------------------------------------
(* The machines of Device and Programmer stay in states of theirs, and no  *)
(* timer of theirs runs longer than set.                                   *)
THEOREM TypeCorrect == Spec => []TypeOK
BY AlwaysIInv, PTL DEF IInv

(* No answer is left over for a later start of the Programmer. *)
THEOREM NothingLeftOver == Spec => []NoStaleReply
BY AlwaysIInv, PTL DEF IInv

(* For every boot delay below the timeout, Device and Programmer are never *)
(* found half way through the load.                                        *)
THEOREM RunsThrough == Spec => []HandshakeRunsThrough
BY AlwaysIInv, PTL DEF IInv

(* The Programmer ends in s_ok only when the Device holds the image. *)
THEOREM SuccessIsReal == Spec => OkMeansLoaded
<1>1. IInv /\ [Next]_vars => (prog # "s_ok" /\ prog' = "s_ok" => dev = "s_loaded")
  <2>. SUFFICES ASSUME IInv, Next, prog # "s_ok", prog' = "s_ok" PROVE dev = "s_loaded"
    BY DEF vars
  <2>1. ProgSend
    BY DEF Next, User, React, EventLoop, ClickDevStart, ClickDevStop, ClickProgStart, DevInit,
           DevFirmware, ProgBoot, DevStarts, ProgStarts, BootDone, ProgTimeout, Tick
  <2>2. Loaded
    BY <2>1, OneReacts DEF ProgSend, IInv
  <2>. QED BY <2>2 DEF Loaded
<1>. QED BY <1>1, AlwaysIInv, PTL DEF Spec, OkMeansLoaded
=============================================================================
