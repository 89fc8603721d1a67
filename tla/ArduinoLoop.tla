----------------------------- MODULE ArduinoLoop -----------------------------
(***************************************************************************)
(* The Arduino side of questions/comm-button-loop-43695121: the code a     *)
(* zero timer runs over and over in a thread of its own, reading commands  *)
(* from the pipe Serial and answering them.                                *)
(*                                                                         *)
(* The pipe object lives in the main thread, which appends to its m_buf    *)
(* while this thread reads from it: a data race.  Its outcomes are taken   *)
(* to be that a piece appended during the read is kept, or is lost.        *)
(***************************************************************************)
EXTENDS AppPipe

CONSTANTS
    Valid,      \* commands that move: "move 200"
    TooFar,     \* moves with a distance out of range
    Unknown     \* anything else

NoText == ""    \* an empty line, or no command

Commands == Valid \cup TooFar \cup Unknown

ASSUME CommandsAssumption ==
    /\ Commands \cap {NoText, NL} = {}
    /\ Valid \cap TooFar = {} /\ Valid \cap Unknown = {} /\ TooFar \cap Unknown = {}

VARIABLES
    serialBuf,  \* m_buf of serialPipe, which the main thread appends to
    reading,    \* this thread is in the middle of reading m_buf
    serialIn,   \* what QIODevice has read ahead from m_buf
    line,       \* Line: the text of the line so far, NoText if none
    handler,    \* state.handler: "s_input" or "s_moveCommand"
    toCtl       \* what this thread has posted to the other end of the pipe

arduinoVars == <<serialBuf, reading, serialIn, line, handler, toCtl>>

ArduinoTypeOK == /\ serialBuf \in Seq(Commands \cup {NL})
                 /\ reading \in BOOLEAN
                 /\ serialIn \in Seq(Commands \cup {NL})
                 /\ line \in Commands \cup {NoText}
                 /\ handler \in {"s_input", "s_moveCommand"}
                 /\ toCtl \in Seq({"OK", "ERROR", NL})

ArduinoInit == /\ serialBuf = <<>> /\ serialIn = <<>> /\ toCtl = <<>>
               /\ reading = FALSE
               /\ line = NoText
               /\ handler = "s_input"

-----------------------------------------------------------------------------
(* Serial.println: the text and the line end are two writes, and arrive at *)
(* the main thread as two events.                                          *)
println(text) == toCtl' = toCtl \o <<text, NL>>

(* println that forgets the line end *)
print(text) == toCtl' = toCtl \o <<text>>

(* processLine: a valid move is answered when it is done, anything that is *)
(* not a move at once, and a move with a distance out of range never.      *)
processLine ==
    /\ \/ line \in Valid /\ handler' = "s_moveCommand" /\ UNCHANGED toCtl
       \/ line \in TooFar /\ UNCHANGED <<handler, toCtl>>
       \/ line \in Unknown \cup {NoText} /\ println("ERROR") /\ UNCHANGED handler
    /\ line' = NoText

(* getChar() of Serial: when QIODevice has nothing left it reads all of    *)
(* m_buf.  This is where the main thread may interfere.                    *)
ReadStart == /\ handler = "s_input"
             /\ serialIn = <<>> /\ serialBuf # <<>>
             /\ ~reading
             /\ reading' = TRUE
             /\ UNCHANGED <<serialBuf, serialIn, line, handler, toCtl>>

ReadEnd == /\ reading
           /\ reading' = FALSE
           /\ serialIn' = serialBuf
           /\ serialBuf' = <<>>
           /\ UNCHANGED <<line, handler, toCtl>>

(* Line.input: text without a line end before it joins the line, where its *)
(* beginning tells what the command is; a line end makes Line ready.       *)
InputText == /\ handler = "s_input"
             /\ serialIn # <<>> /\ Head(serialIn) # NL
             /\ serialIn' = Tail(serialIn)
             /\ line' = IF line = NoText THEN Head(serialIn) ELSE line
             /\ UNCHANGED <<serialBuf, reading, handler, toCtl>>

InputLine == /\ handler = "s_input"
             /\ serialIn # <<>> /\ Head(serialIn) = NL
             /\ serialIn' = Tail(serialIn)
             /\ processLine
             /\ UNCHANGED <<serialBuf, reading>>

(* loop() runs s_moveCommand once millis() has reached state.at. *)
s_moveCommand == /\ handler = "s_moveCommand"
                 /\ println("OK")
                 /\ handler' = "s_input"
                 /\ UNCHANGED <<serialBuf, reading, serialIn, line>>

loop == ReadStart \/ ReadEnd \/ InputText \/ InputLine \/ s_moveCommand
=============================================================================
