------------------------------ MODULE ButtonLoop ------------------------------
(***************************************************************************)
(* questions/comm-button-loop-43695121: while a button is held, Controller *)
(* keeps up to two commands in flight to the Arduino of ArduinoLoop, and   *)
(* sends the next one for each reply.                                      *)
(*                                                                         *)
(* m_sent and m_received only feed the status line and are left out: their *)
(* difference is the length of m_commands.                                 *)
(***************************************************************************)
EXTENDS ArduinoLoop, FiniteSets

VARIABLES
    m_command,  \* the command of the button that is held, NoText if none
    m_commands, \* the commands in flight
    writing,    \* what sendCommand has still to write to the pipe
    ctlBuf,     \* the buffer of ctlPipe
    lost,       \* history: the race has lost a piece
    ignored,    \* history: how many commands the Arduino did not answer
    refused     \* history: the Arduino has answered ERROR

controllerVars == <<m_command, m_commands, writing, ctlBuf>>
historyVars == <<lost, ignored, refused>>
vars == <<arduinoVars, controllerVars, historyVars>>

Window == 2

Init == /\ ArduinoInit
        /\ m_command = NoText
        /\ m_commands = <<>> /\ writing = <<>> /\ ctlBuf = <<>>
        /\ lost = FALSE /\ ignored = 0 /\ refused = FALSE

-----------------------------------------------------------------------------
(* sendCommand: with the queue at q, what is enqueued for command cmd, and *)
(* what is written for it, a text and a line end at a time.                *)
MissingOneMore(q, cmd) == IF cmd = NoText THEN 0 ELSE Window + 1 - Len(q)
Missing(q, cmd) == IF cmd = NoText THEN 0 ELSE Window - Len(q)

Enqueued(q, cmd) == q \o [i \in 1..Missing(q, cmd) |-> cmd]

Written(q, cmd) == [i \in 1..(2 * Missing(q, cmd)) |-> IF i % 2 = 1 THEN cmd ELSE NL]

sendCommand(q, cmd) == /\ m_commands' = Enqueued(q, cmd)
                       /\ writing' = Written(q, cmd)

(* The main thread does one thing at a time. *)
AtEventLoop == writing = <<>>

(* Each write goes straight to m_buf of the other end, and is the one that *)
(* may be lost when the Arduino thread is reading from it.                 *)
Write == /\ writing # <<>>
         /\ writing' = Tail(writing)
         /\ \/ serialBuf' = write(serialBuf, Head(writing)) /\ UNCHANGED lost
            \/ reading /\ lost' = TRUE /\ UNCHANGED serialBuf
         /\ UNCHANGED <<reading, serialIn, line, handler, toCtl, m_command, m_commands, ctlBuf,
                        ignored, refused>>

(* The button is pressed: setCommand. *)
Press(cmd) == /\ AtEventLoop
              /\ m_command = NoText
              /\ m_command' = cmd
              /\ sendCommand(m_commands, cmd)
              /\ UNCHANGED <<arduinoVars, ctlBuf, historyVars>>

(* The button is released: stop(). *)
Release == /\ AtEventLoop
           /\ m_command # NoText
           /\ m_command' = NoText
           /\ UNCHANGED <<arduinoVars, m_commands, writing, ctlBuf, historyVars>>

(* A reply that is never followed by a command. *)
SendsNextNever(buf) == FALSE

(* A reply that is looked at but stays in the buffer. *)
UnreadPeeked(buf) == buf

(* readLine() == "OK\n" || readLine() == "ERROR\n": a reply that is not OK *)
(* has been read when the second readLine() looks for ERROR.               *)
IsOk(buf) == readLine(buf) = <<"OK", NL>>
SendsNext(buf) == IsOk(buf) \/ readLine(afterLine(buf)) = <<"ERROR", NL>>
Unread(buf) == IF IsOk(buf) THEN afterLine(buf) ELSE afterLine(afterLine(buf))

(* The lambda connected to readyRead() of ctlPipe. *)
OnReadyRead(buf) ==
    \/ ~canReadLine(buf) /\ ctlBuf' = buf /\ UNCHANGED <<m_commands, writing>>
    \/ /\ canReadLine(buf)
       /\ ctlBuf' = Unread(buf)
       /\ sendCommand(Tail(m_commands), IF SendsNext(buf) THEN m_command ELSE NoText)

(* A piece from the Arduino thread arrives at the main thread. *)
Receive == /\ AtEventLoop
           /\ toCtl # <<>>
           /\ toCtl' = Tail(toCtl)
           /\ OnReadyRead(write(ctlBuf, Head(toCtl)))
           /\ UNCHANGED <<serialBuf, reading, serialIn, line, handler, m_command, historyVars>>

Main == Write \/ Receive

Arduino == /\ loop
           /\ ignored' = ignored + (IF InputLine /\ line \in TooFar THEN 1 ELSE 0)
           /\ refused' = (refused \/ (InputLine /\ line \in Unknown \cup {NoText}))
           /\ UNCHANGED <<controllerVars, lost>>

Next == (\E cmd \in Commands : Press(cmd)) \/ Release \/ Main \/ Arduino

Spec == Init /\ [][Next]_vars

(* Both threads run on; the user need not press or release the button.     *)
FairSpec == Spec /\ WF_vars(Main) /\ WF_vars(Arduino)

-----------------------------------------------------------------------------
TypeOK == /\ ArduinoTypeOK
          /\ m_command \in Commands \cup {NoText}
          /\ m_commands \in Seq(Commands) /\ Len(m_commands) <= Window
          /\ writing \in Seq(Commands \cup {NL})
          /\ ctlBuf \in Seq({"OK", "ERROR", NL})
          /\ lost \in BOOLEAN /\ ignored \in 0..Window /\ refused \in BOOLEAN

Lines(buf) == Cardinality({i \in DOMAIN buf : buf[i] = NL})

(* The commands on their way to the Arduino, the one it executes, and the  *)
(* replies on their way back.                                              *)
InTransit == Lines(writing) + Lines(serialBuf) + Lines(serialIn)
             + (IF handler = "s_moveCommand" THEN 1 ELSE 0) + Lines(toCtl) + Lines(ctlBuf)

(* "up to two commands in flight" (main.cpp:60): m_commands counts what is *)
(* really in flight.  It never counts too little, so the queue is not      *)
(* empty when a reply is dequeued; and if nothing was lost it counts       *)
(* exactly, the commands that will never be answered included.             *)
WindowIsExact == /\ InTransit + ignored <= Len(m_commands)
                 /\ ~lost => InTransit + ignored = Len(m_commands)

(* One line is handled per readyRead(), so none may be left in the buffer  *)
(* when the main thread goes back to its event loop.                       *)
NoReplyLeftUnread == ~canReadLine(ctlBuf)

(* While the button is held the Arduino goes on moving, if nothing is lost *)
(* and it has understood every command.                                    *)
HeldButtonMoves ==
    <>[](m_command \in Valid /\ ~lost /\ ignored = 0 /\ ~refused) => []<>(handler = "s_moveCommand")
=============================================================================
