-------------------------- MODULE ButtonLoop_proofs --------------------------
(***************************************************************************)
(* For any commands, the queue of the Controller counts the commands and   *)
(* replies between it and the Arduino: the line ends in the buffers and on *)
(* their way, wherever the race cuts in.  The counting is done with lemmas *)
(* on the line ends of a sequence, one for each way the code changes one.  *)
(*                                                                         *)
(* The invariant adds what the code relies on elsewhere: the buffer is     *)
(* read only when nothing is left of what was read ahead, and a reply that *)
(* is complete is read at once.                                            *)
(***************************************************************************)
EXTENDS ButtonLoop, SequenceTheorems, FiniteSetTheorems, TLAPS

OneIf(p) == IF p THEN 1 ELSE 0
Ends(buf) == {i \in DOMAIN buf : buf[i] = NL}

IInv == /\ TypeOK
        /\ WindowIsExact
        /\ NoReplyLeftUnread
        /\ reading => serialIn = <<>>

-----------------------------------------------------------------------------
(* Line ends in a sequence. *)
LEMMA LinesAreFew ==
    ASSUME NEW S, NEW s \in Seq(S)
    PROVE  /\ DOMAIN s = 1..Len(s) /\ Len(s) \in Nat
           /\ IsFiniteSet(Ends(s)) /\ Lines(s) = Cardinality(Ends(s)) /\ Lines(s) \in Nat
<1>1. DOMAIN s = 1..Len(s) /\ Len(s) \in Nat
    OBVIOUS
<1>2. IsFiniteSet(1..Len(s))
    BY <1>1, FS_Interval
<1>3. Ends(s) \in SUBSET (1..Len(s))
    BY <1>1 DEF Ends
<1>4. IsFiniteSet(Ends(s))
    BY <1>2, <1>3, FS_Subset
<1>. QED
    BY <1>1, <1>4, FS_CardinalityType DEF Lines, Ends

LEMMA NoLines ==
    /\ Lines(<<>>) = 0
    /\ \A S : \A s \in Seq(S) : ~canReadLine(s) <=> Lines(s) = 0
<1>1. Lines(<<>>) = 0
    BY FS_EmptySet DEF Lines
<1>2. ASSUME NEW S, NEW s \in Seq(S) PROVE ~canReadLine(s) <=> Lines(s) = 0
  <2>1. ~canReadLine(s) <=> Ends(s) = {}
      BY LinesAreFew DEF canReadLine, Contains, Ends
  <2>. QED
      BY <2>1, LinesAreFew, FS_EmptySet
<1>. QED
    BY <1>1, <1>2

LEMMA LinesAppend ==
    ASSUME NEW S, NEW s \in Seq(S), NEW p \in S
    PROVE  Lines(Append(s, p)) = Lines(s) + OneIf(p = NL)
<1>. DEFINE n == Len(s) + 1
            t == Append(s, p)
<1>1. /\ t \in Seq(S) /\ Len(t) = n /\ n \in Nat /\ t[n] = p
      /\ \A i \in 1..Len(s) : t[i] = s[i]
    BY AppendProperties
<1>2. DOMAIN s = 1..Len(s) /\ DOMAIN t = 1..n /\ Len(s) \in Nat
    BY <1>1
<1>3. n \notin Ends(s)
    BY <1>2 DEF Ends
<1>4. /\ Lines(s) = Cardinality(Ends(s)) /\ Lines(t) = Cardinality(Ends(t))
      /\ IsFiniteSet(Ends(s)) /\ Lines(s) \in Nat
    BY <1>1, LinesAreFew, Zenon
<1>5. CASE p = NL
  <2>1. Ends(t) = Ends(s) \cup {n}
      BY <1>1, <1>2, <1>5 DEF Ends
  <2>. QED
      BY <1>3, <1>4, <1>5, <2>1, FS_AddElement DEF OneIf
<1>6. CASE p # NL
  <2>1. Ends(t) = Ends(s)
      BY <1>1, <1>2, <1>6 DEF Ends
  <2>. QED
      BY <1>4, <1>6, <2>1 DEF OneIf
<1>. QED
    BY <1>5, <1>6

LEMMA LinesTail ==
    ASSUME NEW S, NEW s \in Seq(S), s # <<>>
    PROVE  Lines(Tail(s)) = Lines(s) - OneIf(Head(s) = NL)
<1>. DEFINE t == Tail(s)
            later == Ends(s) \ {1}
            shift == [i \in Ends(t) |-> i + 1]
<1>1. /\ t \in Seq(S) /\ Len(t) = Len(s) - 1 /\ Len(s) \in Nat \ {0}
      /\ \A i \in 1..Len(t) : t[i] = s[i + 1]
    BY HeadTailProperties, EmptySeq
<1>2. DOMAIN s = 1..Len(s) /\ DOMAIN t = 1..Len(t) /\ Head(s) = s[1]
    BY <1>1
<1>3. shift \in [Ends(t) -> later]
    BY <1>1, <1>2 DEF Ends
<1>4. \A i, j \in Ends(t) : shift[i] = shift[j] => i = j
    BY <1>1, <1>2 DEF Ends
<1>5. \A k \in later : \E i \in Ends(t) : shift[i] = k
  <2>. SUFFICES ASSUME NEW k \in later PROVE k - 1 \in Ends(t) /\ shift[k - 1] = k
      OBVIOUS
  <2>1. k \in 2..Len(s) /\ s[k] = NL
      BY <1>1, <1>2 DEF Ends
  <2>2. k - 1 \in 1..Len(t) /\ t[k - 1] = s[k]
      BY <1>1, <2>1
  <2>. QED
      BY <1>2, <2>1, <2>2 DEF Ends
<1>6. ExistsBijection(Ends(t), later)
    BY <1>3, <1>4, <1>5 DEF ExistsBijection, Bijection, Injection, Surjection, IsInjective
<1>7. /\ Lines(s) = Cardinality(Ends(s)) /\ Lines(t) = Cardinality(Ends(t))
      /\ IsFiniteSet(Ends(s)) /\ IsFiniteSet(Ends(t)) /\ Lines(s) \in Nat
    BY <1>1, LinesAreFew, Zenon
<1>8. Cardinality(later) = Lines(t)
    BY <1>6, <1>7, FS_Bijection, Zenon
<1>10. Cardinality(later) = Cardinality(Ends(s)) - OneIf(1 \in Ends(s))
  <2>1. Cardinality(later) = IF 1 \in Ends(s) THEN Cardinality(Ends(s)) - 1 ELSE Cardinality(Ends(s))
      BY <1>7, FS_RemoveElement, Zenon
  <2>. QED
      BY <1>7, <2>1 DEF OneIf
<1>9. 1 \in Ends(s) <=> Head(s) = NL
    BY <1>1, <1>2 DEF Ends
<1>. QED
    BY <1>7, <1>8, <1>9, <1>10

(* println *)
LEMMA LinesPrinted ==
    ASSUME NEW S, NEW s \in Seq(S), NEW text \in S, NL \in S, text # NL
    PROVE  s \o <<text, NL>> \in Seq(S) /\ Lines(s \o <<text, NL>>) = Lines(s) + 1
<1>1. s \o <<text, NL>> = Append(Append(s, text), NL)
    OBVIOUS
<1>2. Append(s, text) \in Seq(S) /\ Append(Append(s, text), NL) \in Seq(S)
    BY AppendProperties
<1>3. Lines(Append(s, text)) = Lines(s)
    BY LinesAppend, LinesAreFew DEF OneIf
<1>4. Lines(Append(Append(s, text), NL)) = Lines(s) + 1
    BY <1>2, <1>3, LinesAppend DEF OneIf
<1>. QED
    BY <1>1, <1>2, <1>4

(* sendCommand fills the window and writes one line for each command. *)
LEMMA Sent ==
    ASSUME NEW q \in Seq(Commands), Len(q) <= Window, NEW cmd \in Commands \cup {NoText}
    PROVE  /\ Missing(q, cmd) \in Nat /\ Len(q) + Missing(q, cmd) <= Window
           /\ Enqueued(q, cmd) \in Seq(Commands)
           /\ Len(Enqueued(q, cmd)) = Len(q) + Missing(q, cmd)
           /\ Written(q, cmd) \in Seq(Commands \cup {NL})
           /\ Lines(Written(q, cmd)) = Missing(q, cmd)
<1>. DEFINE n == Missing(q, cmd)
            more == [i \in 1..n |-> cmd]
            w == Written(q, cmd)
<1>1. Len(q) \in Nat /\ Len(q) <= 2 /\ Window = 2
    BY LenProperties DEF Window
<1>2. n \in Nat /\ n <= 2 /\ Len(q) + n <= Window /\ (n # 0 => cmd \in Commands)
  <2>1. CASE cmd = NoText
      BY <1>1, <2>1 DEF Missing
  <2>2. CASE cmd # NoText
    <3>1. n = 2 - Len(q) /\ cmd \in Commands
        BY <1>1, <2>2 DEF Missing
    <3>2. n \in Nat /\ n <= 2 /\ Len(q) + n = 2
        BY <1>1, <3>1
    <3>. QED
        BY <1>1, <3>1, <3>2
  <2>. QED
      BY <2>1, <2>2
<1>3. cmd \in Commands => cmd # NL
    BY CommandsAssumption
<1>. HIDE DEF n
<1>4. more \in [1..n -> Commands]
    BY <1>2
<1>5. more \in Seq(Commands) /\ Len(more) = n
    BY <1>2, <1>4, SeqDef
<1>6. Enqueued(q, cmd) \in Seq(Commands) /\ Len(Enqueued(q, cmd)) = Len(q) + n
    BY <1>5, ConcatProperties DEF Enqueued, n
<1>7. w = [i \in 1..(2 * n) |-> IF i % 2 = 1 THEN cmd ELSE NL]
    BY DEF Written, n
<1>. HIDE DEF w
<1>8. w \in [1..(2 * n) -> Commands \cup {NL}] /\ 2 * n \in Nat
    BY <1>2, <1>7
<1>9. w \in Seq(Commands \cup {NL})
    BY <1>8, SeqDef
<1>10. DOMAIN w = 1..(2 * n)
    BY <1>7
<1>11. CASE n = 0
  <2>1. Ends(w) = {}
      BY <1>10, <1>11 DEF Ends
  <2>. QED
      BY <1>2, <1>6, <1>9, <1>11, <2>1, LinesAreFew, FS_EmptySet DEF n, w
<1>12. CASE n = 1
  <2>1. w[1] # NL /\ w[2] = NL /\ DOMAIN w = {1, 2}
      BY <1>2, <1>3, <1>7, <1>10, <1>12
  <2>2. Ends(w) = {2}
      BY <2>1 DEF Ends
  <2>. QED
      BY <1>2, <1>6, <1>9, <1>12, <2>2, LinesAreFew, FS_Singleton DEF n, w
<1>13. CASE n = 2
  <2>1. w[1] # NL /\ w[2] = NL /\ w[3] # NL /\ w[4] = NL /\ DOMAIN w = {1, 2, 3, 4}
      BY <1>2, <1>3, <1>7, <1>10, <1>13
  <2>2. Ends(w) = {2} \cup {4}
      BY <2>1 DEF Ends
  <2>3. Cardinality({2} \cup {4}) = 2
    <3>1. IsFiniteSet({2}) /\ Cardinality({2}) = 1
        BY FS_Singleton, Zenon
    <3>2. Cardinality({2} \cup {4}) = IF 4 \in {2} THEN Cardinality({2}) ELSE Cardinality({2}) + 1
        BY <3>1, FS_AddElement, Zenon
    <3>3. 4 \notin {2} /\ 1 + 1 = 2
        OBVIOUS
    <3>. QED
        BY <3>1, <3>2, <3>3, Zenon
  <2>. QED
      BY <1>2, <1>6, <1>9, <1>13, <2>2, <2>3, LinesAreFew DEF n, w
<1>. QED
    BY <1>2, <1>11, <1>12, <1>13

(* With the line end at the end, readLine() leaves nothing. *)
LEMMA AllRead ==
    ASSUME NEW S, NEW s \in Seq(S), NL \in S, ~canReadLine(s)
    PROVE  /\ canReadLine(Append(s, NL))
           /\ afterLine(Append(s, NL)) = <<>> /\ afterLine(<<>>) = <<>>
<1>. DEFINE t == Append(s, NL)
            n == Len(s) + 1
<1>1. /\ t \in Seq(S) /\ Len(t) = n /\ Len(s) \in Nat /\ t[n] = NL
      /\ \A i \in 1..Len(s) : t[i] # NL
    BY AppendProperties DEF canReadLine, Contains
<1>2. canReadLine(t)
    BY <1>1 DEF canReadLine, Contains
<1>3. {i \in 1..Len(t) : t[i] = NL} = {n}
    BY <1>1
<1>4. SelectInSeq(t, LAMBDA p : p = NL) = n
    BY <1>1, <1>3 DEF SelectInSeq, Min
<1>5. LineLength(t) = n
    BY <1>2, <1>4 DEF LineLength
<1>6. afterLine(t) = <<>>
    BY <1>1, <1>5 DEF afterLine
<1>7. afterLine(<<>>) = <<>>
    BY DEF afterLine, LineLength, canReadLine, Contains
<1>. QED
    BY <1>2, <1>6, <1>7

-----------------------------------------------------------------------------
(* What there is to count. *)
LEMMA Counts ==
    ASSUME TypeOK
    PROVE  /\ Lines(writing) \in Nat /\ Lines(serialBuf) \in Nat /\ Lines(serialIn) \in Nat
           /\ Lines(toCtl) \in Nat /\ Lines(ctlBuf) \in Nat
           /\ Len(m_commands) \in Nat /\ Len(m_commands) <= 2 /\ ignored \in Nat
           /\ InTransit \in Nat
<1>1. /\ Lines(writing) \in Nat /\ Lines(serialBuf) \in Nat /\ Lines(serialIn) \in Nat
      /\ Lines(toCtl) \in Nat /\ Lines(ctlBuf) \in Nat
    BY LinesAreFew, Zenon DEF TypeOK, ArduinoTypeOK
<1>2. Len(m_commands) \in Nat /\ Len(m_commands) <= 2 /\ ignored \in Nat
    BY LenProperties DEF TypeOK, Window
<1>. QED
    BY <1>1, <1>2 DEF InTransit

(* The bound on ignored commands follows from the count. *)
LEMMA Assembled ==
    ASSUME ArduinoTypeOK', WindowIsExact', NoReplyLeftUnread',
           reading' => serialIn' = <<>>,
           m_command' \in Commands \cup {NoText},
           m_commands' \in Seq(Commands), Len(m_commands') <= Window,
           writing' \in Seq(Commands \cup {NL}), ctlBuf' \in Seq({"OK", "ERROR", NL}),
           lost' \in BOOLEAN, refused' \in BOOLEAN, ignored' \in Nat
    PROVE  IInv'
<1>1. /\ Lines(writing') \in Nat /\ Lines(serialBuf') \in Nat /\ Lines(serialIn') \in Nat
      /\ Lines(toCtl') \in Nat /\ Lines(ctlBuf') \in Nat
    BY LinesAreFew, Zenon DEF ArduinoTypeOK
<1>2. InTransit' \in Nat
    BY <1>1 DEF InTransit
<1>3. Len(m_commands') \in Nat /\ Len(m_commands') <= 2 /\ Window = 2
    BY LenProperties DEF Window
<1>4. InTransit' + ignored' <= Len(m_commands')
    BY DEF WindowIsExact
<1>5. ignored' <= 2
    BY <1>2, <1>3, <1>4
<1>6. ignored' \in 0..Window
    BY <1>3, <1>5
<1>. QED
    BY <1>6, Zenon DEF IInv, TypeOK

LEMMA InitInv == Init => IInv
<1>. SUFFICES ASSUME Init PROVE IInv
    OBVIOUS
<1>1. /\ serialBuf = <<>> /\ serialIn = <<>> /\ toCtl = <<>> /\ reading = FALSE
      /\ line = NoText /\ handler = "s_input" /\ m_command = NoText
      /\ m_commands = <<>> /\ writing = <<>> /\ ctlBuf = <<>>
      /\ lost = FALSE /\ ignored = 0 /\ refused = FALSE
    BY Zenon DEF Init, ArduinoInit
<1>2. \A S : <<>> \in Seq(S) /\ Len(<<>>) = 0
    BY EmptySeq, Zenon
<1>3. TypeOK
  <2>1. reading \in BOOLEAN /\ lost \in BOOLEAN /\ refused \in BOOLEAN
      BY <1>1, Zenon
  <2>2. ignored \in 0..Window /\ Len(m_commands) <= Window
      BY <1>1, <1>2 DEF Window
  <2>. QED
      BY <1>1, <1>2, <2>1, <2>2, Zenon DEF TypeOK, ArduinoTypeOK
<1>4. InTransit = 0 /\ Len(m_commands) = 0
    BY <1>1, <1>2, NoLines DEF InTransit
<1>5. WindowIsExact
    BY <1>1, <1>4 DEF WindowIsExact
<1>6. NoReplyLeftUnread
    BY <1>1, <1>2, NoLines, Zenon DEF NoReplyLeftUnread
<1>. QED
    BY <1>1, <1>3, <1>5, <1>6, Zenon DEF IInv

(* A line end is written to the buffer, or lost. *)
LEMMA WriteKeeps == ASSUME IInv, Write PROVE IInv'
<1>. DEFINE p == Head(writing)
<1>1. /\ writing # <<>> /\ writing' = Tail(writing)
      /\ reading' = reading /\ serialIn' = serialIn /\ line' = line /\ handler' = handler
      /\ toCtl' = toCtl /\ m_command' = m_command /\ m_commands' = m_commands
      /\ ctlBuf' = ctlBuf /\ ignored' = ignored /\ refused' = refused
    BY Zenon DEF Write
<1>2. /\ writing \in Seq(Commands \cup {NL}) /\ serialBuf \in Seq(Commands \cup {NL})
    BY DEF IInv, TypeOK, ArduinoTypeOK
<1>3. /\ writing' \in Seq(Commands \cup {NL}) /\ p \in Commands \cup {NL}
      /\ Lines(writing') = Lines(writing) - OneIf(p = NL)
    BY <1>1, <1>2, HeadTailProperties, LinesTail, Zenon
<1>4. /\ InTransit + ignored <= Len(m_commands)
      /\ ~lost => InTransit + ignored = Len(m_commands)
    BY DEF IInv, WindowIsExact
<1>5. TypeOK
    BY DEF IInv
<1>6. OneIf(p = NL) \in Nat
    BY DEF OneIf
<1>7. CASE serialBuf' = write(serialBuf, p) /\ lost' = lost
  <2>1. /\ serialBuf' \in Seq(Commands \cup {NL})
        /\ Lines(serialBuf') = Lines(serialBuf) + OneIf(p = NL)
      BY <1>2, <1>3, <1>7, AppendProperties, LinesAppend, Zenon DEF write
  <2>2. InTransit' = InTransit
      BY <1>1, <1>3, <1>5, <1>6, <2>1, Counts DEF InTransit
  <2>3. WindowIsExact'
      BY <1>1, <1>4, <1>7, <2>2 DEF WindowIsExact
  <2>4. ArduinoTypeOK' /\ NoReplyLeftUnread' /\ (reading' => serialIn' = <<>>)
      BY <1>1, <2>1, Zenon DEF IInv, TypeOK, ArduinoTypeOK, NoReplyLeftUnread
  <2>. QED
      BY <1>1, <1>3, <1>5, <1>7, <2>3, <2>4, Assembled, Counts, Zenon DEF TypeOK
<1>8. CASE lost' = TRUE /\ serialBuf' = serialBuf
  <2>1. InTransit' <= InTransit /\ InTransit' \in Int
    <3>1. /\ Lines(writing') = Lines(writing) - OneIf(p = NL) /\ Lines(serialBuf') = Lines(serialBuf)
          /\ Lines(serialIn') = Lines(serialIn) /\ handler' = handler
          /\ Lines(toCtl') = Lines(toCtl) /\ Lines(ctlBuf') = Lines(ctlBuf)
        BY <1>1, <1>3, <1>8
    <3>2. /\ Lines(writing) \in Nat /\ Lines(serialBuf) \in Nat /\ Lines(serialIn) \in Nat
          /\ Lines(toCtl) \in Nat /\ Lines(ctlBuf) \in Nat
        BY <1>5, Counts, Zenon
    <3>. QED
        BY <1>6, <3>1, <3>2 DEF InTransit
  <2>2. InTransit' + ignored' <= Len(m_commands')
      BY <1>1, <1>4, <1>5, <2>1, Counts
  <2>5. lost'
      BY <1>8, Zenon
  <2>6. WindowIsExact'
      BY <2>2, <2>5, Zenon DEF WindowIsExact
  <2>3. ArduinoTypeOK' /\ NoReplyLeftUnread' /\ (reading' => serialIn' = <<>>)
      BY <1>1, <1>8, Zenon DEF IInv, TypeOK, ArduinoTypeOK, NoReplyLeftUnread
  <2>4. lost' \in BOOLEAN
      BY <1>8, Zenon
  <2>. QED
      BY <1>1, <1>3, <1>5, <2>3, <2>4, <2>6, Assembled, Counts, Zenon DEF TypeOK
<1>. QED
    BY <1>7, <1>8, Zenon DEF Write

(* Commands enter the queue and the pipe together. *)
LEMMA PressKeeps == ASSUME IInv, NEW cmd \in Commands, Press(cmd) PROVE IInv'
<1>. DEFINE n == Missing(m_commands, cmd)
<1>1. /\ writing = <<>> /\ m_command' = cmd
      /\ m_commands' = Enqueued(m_commands, cmd) /\ writing' = Written(m_commands, cmd)
      /\ serialBuf' = serialBuf /\ reading' = reading /\ serialIn' = serialIn /\ line' = line
      /\ handler' = handler /\ toCtl' = toCtl /\ ctlBuf' = ctlBuf
      /\ lost' = lost /\ ignored' = ignored /\ refused' = refused
    BY Zenon DEF Press, AtEventLoop, sendCommand, arduinoVars, historyVars
<1>2. TypeOK /\ m_commands \in Seq(Commands) /\ Len(m_commands) <= Window
    BY DEF IInv, TypeOK
<1>3. /\ n \in Nat /\ Len(m_commands) + n <= Window
      /\ m_commands' \in Seq(Commands) /\ Len(m_commands') = Len(m_commands) + n
      /\ writing' \in Seq(Commands \cup {NL}) /\ Lines(writing') = n
    BY <1>1, <1>2, Sent, Zenon
<1>. HIDE DEF n
<1>4. InTransit' = InTransit + n
  <2>1. Lines(writing) = 0
      BY <1>1, NoLines, Zenon
  <2>2. /\ Lines(serialBuf) \in Nat /\ Lines(serialIn) \in Nat
        /\ Lines(toCtl) \in Nat /\ Lines(ctlBuf) \in Nat
      BY <1>2, Counts, Zenon
  <2>3. /\ Lines(serialBuf') = Lines(serialBuf) /\ Lines(serialIn') = Lines(serialIn)
        /\ Lines(toCtl') = Lines(toCtl) /\ Lines(ctlBuf') = Lines(ctlBuf)
        /\ handler' = handler /\ Lines(writing') = n /\ n \in Nat
      BY <1>1, <1>3
  <2>. QED
      BY <2>1, <2>2, <2>3 DEF InTransit
<1>5. /\ InTransit + ignored <= Len(m_commands)
      /\ ~lost => InTransit + ignored = Len(m_commands)
    BY DEF IInv, WindowIsExact
<1>6. WindowIsExact'
    BY <1>1, <1>2, <1>3, <1>4, <1>5, Counts DEF WindowIsExact
<1>7. ArduinoTypeOK' /\ NoReplyLeftUnread' /\ (reading' => serialIn' = <<>>)
    BY <1>1, Zenon DEF IInv, TypeOK, ArduinoTypeOK, NoReplyLeftUnread
<1>8. Len(m_commands') <= Window /\ m_command' \in Commands \cup {NoText}
    BY <1>1, <1>3
<1>. QED
    BY <1>1, <1>2, <1>3, <1>6, <1>7, <1>8, Assembled, Counts, Zenon DEF TypeOK

(* A reply is taken out of the buffer together with its command. *)
LEMMA ReceiveKeeps == ASSUME IInv, Receive PROVE IInv'
<1>. DEFINE p == Head(toCtl)
            buf == Append(ctlBuf, p)
            Replies == {"OK", "ERROR", NL}
<1>1. /\ writing = <<>> /\ toCtl # <<>> /\ toCtl' = Tail(toCtl) /\ OnReadyRead(buf)
      /\ serialBuf' = serialBuf /\ reading' = reading /\ serialIn' = serialIn /\ line' = line
      /\ handler' = handler /\ m_command' = m_command
      /\ lost' = lost /\ ignored' = ignored /\ refused' = refused
    BY Zenon DEF Receive, AtEventLoop, write, historyVars
<1>2. /\ TypeOK /\ m_commands \in Seq(Commands) /\ Len(m_commands) <= Window
      /\ m_command \in Commands \cup {NoText}
      /\ toCtl \in Seq(Replies) /\ ctlBuf \in Seq(Replies) /\ ~canReadLine(ctlBuf)
    BY Zenon DEF IInv, TypeOK, ArduinoTypeOK, NoReplyLeftUnread
<1>3. /\ toCtl' \in Seq(Replies) /\ p \in Replies
      /\ Lines(toCtl') = Lines(toCtl) - OneIf(p = NL)
    BY <1>1, <1>2, HeadTailProperties, LinesTail, Zenon
<1>4. buf \in Seq(Replies) /\ Lines(ctlBuf) = 0 /\ Lines(buf) = Lines(ctlBuf) + OneIf(p = NL)
    BY <1>2, <1>3, AppendProperties, NoLines, LinesAppend, Zenon
<1>5. /\ InTransit + ignored <= Len(m_commands)
      /\ ~lost => InTransit + ignored = Len(m_commands)
    BY DEF IInv, WindowIsExact
<1>6. ArduinoTypeOK' /\ (reading' => serialIn' = <<>>)
    BY <1>1, <1>3, Zenon DEF IInv, TypeOK, ArduinoTypeOK
<1>. HIDE DEF p, buf, Replies
<1>7. CASE p # NL
  <2>1. Lines(buf) = 0
      BY <1>4, <1>7 DEF OneIf
  <2>2. ~canReadLine(buf)
      BY <1>4, <2>1, NoLines, Zenon
  <2>3. ctlBuf' = buf /\ m_commands' = m_commands /\ writing' = writing
      BY <1>1, <2>2, Zenon DEF OnReadyRead
  <2>4. InTransit' = InTransit
      BY <1>1, <1>2, <1>3, <1>4, <1>7, <2>1, <2>3, Counts DEF InTransit, OneIf
  <2>5. WindowIsExact'
      BY <1>1, <1>5, <2>3, <2>4 DEF WindowIsExact
  <2>6. NoReplyLeftUnread'
      BY <2>2, <2>3, Zenon DEF NoReplyLeftUnread
  <2>7. ctlBuf' \in Seq({"OK", "ERROR", NL})
      BY <1>4, <2>3, Zenon DEF Replies
  <2>. QED
      BY <1>1, <1>2, <1>6, <2>3, <2>5, <2>6, <2>7, Assembled, Counts, Zenon DEF TypeOK
<1>8. CASE p = NL
  <2>. DEFINE next == IF SendsNext(buf) THEN m_command ELSE NoText
              q == Tail(m_commands)
              n == Missing(q, next)
  <2>1. canReadLine(buf) /\ afterLine(buf) = <<>> /\ afterLine(<<>>) = <<>>
    <3>1. NL \in Replies
        BY DEF Replies
    <3>. QED
        BY <1>2, <1>8, <3>1, AllRead, Zenon DEF buf
  <2>2. ctlBuf' = <<>>
      BY <1>1, <2>1 DEF OnReadyRead, Unread
  <2>3. m_commands' = Enqueued(q, next) /\ writing' = Written(q, next)
      BY <1>1, <2>1, Zenon DEF OnReadyRead, sendCommand
  <2>4. Lines(toCtl) >= 1
      BY <1>2, <1>3, <1>6, <1>8, Counts, LinesAreFew DEF OneIf, ArduinoTypeOK
  <2>5. InTransit >= 1 /\ Len(m_commands) >= 1
      BY <1>2, <1>5, <2>4, Counts DEF InTransit
  <2>6. q \in Seq(Commands) /\ Len(q) = Len(m_commands) - 1
    <3>1. m_commands # <<>>
        BY <2>5, EmptySeq
    <3>. QED
        BY <1>2, <3>1, HeadTailProperties, Zenon
  <2>7. next \in Commands \cup {NoText}
      BY <1>2
  <2>. HIDE DEF next, q
  <2>8. Len(q) <= Window
      BY <1>2, <2>6, Counts DEF Window
  <2>9. /\ n \in Nat /\ Len(q) + n <= Window
        /\ m_commands' \in Seq(Commands) /\ Len(m_commands') = Len(q) + n
        /\ writing' \in Seq(Commands \cup {NL}) /\ Lines(writing') = n
      BY <2>3, <2>6, <2>7, <2>8, Sent, Zenon
  <2>. HIDE DEF n
  <2>10. InTransit' = InTransit - 1 + n
    <3>1. Lines(writing) = 0 /\ Lines(ctlBuf') = 0
        BY <1>1, <2>2, NoLines, Zenon
    <3>2. Lines(toCtl') = Lines(toCtl) - 1
        BY <1>3, <1>8 DEF OneIf
    <3>3. Lines(serialBuf') = Lines(serialBuf) /\ Lines(serialIn') = Lines(serialIn) /\ handler' = handler
        BY <1>1
    <3>4. /\ Lines(serialBuf) \in Nat /\ Lines(serialIn) \in Nat /\ Lines(toCtl) \in Nat
          /\ Lines(ctlBuf) = 0 /\ Lines(writing') = n /\ n \in Nat
        BY <1>2, <1>4, <2>9, Counts, Zenon
    <3>. QED
        BY <3>1, <3>2, <3>3, <3>4 DEF InTransit
  <2>11. WindowIsExact'
    <3>1. Len(m_commands') = Len(m_commands) - 1 + n /\ ignored' = ignored
        BY <1>1, <2>6, <2>9
    <3>2. /\ InTransit' + ignored' <= Len(m_commands')
          /\ ~lost => InTransit' + ignored' = Len(m_commands')
      <4>1. n \in Nat /\ InTransit \in Nat /\ ignored \in Nat /\ Len(m_commands) \in Nat
          BY <1>2, <2>9, Counts, Zenon
      <4>. QED
          BY <1>5, <2>10, <3>1, <4>1
    <3>. QED
        BY <1>1, <3>2, Zenon DEF WindowIsExact
  <2>12. NoReplyLeftUnread' /\ ctlBuf' \in Seq({"OK", "ERROR", NL})
      BY <2>2, EmptySeq, NoLines, Zenon DEF NoReplyLeftUnread
  <2>13. Len(m_commands') <= Window
      BY <2>9
  <2>. QED
      BY <1>1, <1>2, <1>6, <2>9, <2>11, <2>12, <2>13, Assembled, Counts, Zenon DEF TypeOK
<1>. QED
    BY <1>7, <1>8

(* What the Arduino does moves a line end, a reply or the handler on. *)
LEMMA ArduinoKeeps == ASSUME IInv, Arduino PROVE IInv'
<1>. DEFINE Texts == Commands \cup {NL}
            Replies == {"OK", "ERROR", NL}
            moving == OneIf(handler = "s_moveCommand")
            far == OneIf(InputLine /\ line \in TooFar)
<1>1. /\ m_command' = m_command /\ m_commands' = m_commands /\ writing' = writing
      /\ ctlBuf' = ctlBuf /\ lost' = lost /\ loop
    BY Zenon DEF Arduino, controllerVars
<1>2. ignored' = ignored + far
    BY DEF Arduino, OneIf
<1>3. refused' \in BOOLEAN
  <2>1. refused' = (refused \/ (InputLine /\ line \in Unknown \cup {NoText}))
      BY Zenon DEF Arduino
  <2>2. (refused \/ (InputLine /\ line \in Unknown \cup {NoText})) \in BOOLEAN
      OBVIOUS
  <2>. QED
      BY <2>1, <2>2, Zenon
<1>4. /\ TypeOK /\ ArduinoTypeOK /\ NoReplyLeftUnread
      /\ serialBuf \in Seq(Texts) /\ serialIn \in Seq(Texts) /\ toCtl \in Seq(Replies)
      /\ handler \in {"s_input", "s_moveCommand"} /\ line \in Commands \cup {NoText}
      /\ reading \in BOOLEAN /\ (reading => serialIn = <<>>)
    BY Zenon DEF IInv, TypeOK, ArduinoTypeOK
<1>5. /\ InTransit + ignored <= Len(m_commands)
      /\ ~lost => InTransit + ignored = Len(m_commands)
    BY DEF IInv, WindowIsExact
<1>6. /\ Lines(writing) \in Nat /\ Lines(serialBuf) \in Nat /\ Lines(serialIn) \in Nat
      /\ Lines(toCtl) \in Nat /\ Lines(ctlBuf) \in Nat
      /\ Len(m_commands) \in Nat /\ ignored \in Nat
    BY <1>4, Counts, Zenon
<1>7. /\ moving \in Nat /\ far \in Nat
      /\ InTransit = Lines(writing) + Lines(serialBuf) + Lines(serialIn) + moving
                      + Lines(toCtl) + Lines(ctlBuf)
      /\ InTransit' = Lines(writing') + Lines(serialBuf') + Lines(serialIn') + moving'
                      + Lines(toCtl') + Lines(ctlBuf')
    BY <1>6 DEF InTransit, OneIf
<1>. HIDE DEF moving, far
<1>. DEFINE Balanced ==
               /\ ArduinoTypeOK' /\ (reading' => serialIn' = <<>>)
               /\ Lines(serialBuf') + Lines(serialIn') + moving' + Lines(toCtl') + far
                     = Lines(serialBuf) + Lines(serialIn) + moving + Lines(toCtl)
               /\ Lines(serialBuf') \in Nat /\ Lines(serialIn') \in Nat
               /\ moving' \in Nat /\ Lines(toCtl') \in Nat
<1>8. ASSUME ReadStart PROVE Balanced
  <2>1. /\ serialIn = <<>> /\ reading' = TRUE /\ serialBuf' = serialBuf /\ serialIn' = serialIn
        /\ line' = line /\ handler' = handler /\ toCtl' = toCtl
      BY <1>8, Zenon DEF ReadStart
  <2>2. far = 0
      BY <2>1 DEF far, OneIf, InputLine
  <2>3. ArduinoTypeOK' /\ (reading' => serialIn' = <<>>)
      BY <1>4, <2>1, Zenon DEF ArduinoTypeOK
  <2>4. moving' = moving
      BY <2>1 DEF moving
  <2>. QED
      BY <1>6, <1>7, <2>1, <2>2, <2>3, <2>4
<1>9. ASSUME ReadEnd PROVE Balanced
  <2>1. /\ serialIn = <<>> /\ reading' = FALSE /\ serialBuf' = <<>> /\ serialIn' = serialBuf
        /\ line' = line /\ handler' = handler /\ toCtl' = toCtl
      BY <1>4, <1>9, Zenon DEF ReadEnd
  <2>2. far = 0
      BY <2>1 DEF far, OneIf, InputLine
  <2>3. ArduinoTypeOK' /\ (reading' => serialIn' = <<>>)
      BY <1>4, <2>1, EmptySeq, Zenon DEF ArduinoTypeOK
  <2>4. moving' = moving
      BY <2>1 DEF moving
  <2>5. Lines(serialBuf') = 0 /\ Lines(serialIn) = 0 /\ Lines(serialIn') = Lines(serialBuf)
      BY <2>1, NoLines, Zenon
  <2>6. Lines(toCtl') = Lines(toCtl)
      BY <2>1
  <2>. QED
      BY <1>6, <1>7, <2>2, <2>3, <2>4, <2>5, <2>6
<1>10. ASSUME InputText PROVE Balanced
  <2>1. /\ serialIn # <<>> /\ Head(serialIn) # NL /\ serialIn' = Tail(serialIn)
        /\ line' = (IF line = NoText THEN Head(serialIn) ELSE line)
        /\ serialBuf' = serialBuf /\ reading' = reading /\ handler' = handler /\ toCtl' = toCtl
      BY <1>10, Zenon DEF InputText
  <2>2. far = 0
      BY <2>1 DEF far, OneIf, InputLine
  <2>3. /\ serialIn' \in Seq(Texts) /\ Head(serialIn) \in Texts
        /\ Lines(serialIn') = Lines(serialIn) - OneIf(Head(serialIn) = NL)
      BY <1>4, <2>1, HeadTailProperties, LinesTail, Zenon
  <2>4. line' \in Commands \cup {NoText}
      BY <1>4, <2>1, <2>3
  <2>5. ArduinoTypeOK' /\ (reading' => serialIn' = <<>>)
      BY <1>4, <2>1, <2>3, <2>4, Zenon DEF ArduinoTypeOK
  <2>6. Lines(serialIn') = Lines(serialIn)
      BY <1>6, <2>1, <2>3 DEF OneIf
  <2>7. moving' = moving /\ Lines(serialBuf') = Lines(serialBuf) /\ Lines(toCtl') = Lines(toCtl)
      BY <2>1 DEF moving
  <2>. QED
      BY <1>6, <1>7, <2>2, <2>5, <2>6, <2>7
<1>11. ASSUME InputLine PROVE Balanced
  <2>1. /\ handler = "s_input" /\ serialIn # <<>> /\ Head(serialIn) = NL
        /\ serialIn' = Tail(serialIn) /\ processLine /\ line' = NoText
        /\ serialBuf' = serialBuf /\ reading' = reading
      BY <1>11, Zenon DEF InputLine, processLine
  <2>2. moving = 0 /\ far = OneIf(line \in TooFar)
      BY <1>11, <2>1 DEF moving, far, OneIf
  <2>3. /\ serialIn' \in Seq(Texts)
        /\ Lines(serialIn') = Lines(serialIn) - OneIf(Head(serialIn) = NL)
      BY <1>4, <2>1, HeadTailProperties, LinesTail, Zenon
  <2>4. Lines(serialIn') = Lines(serialIn) - 1
      BY <2>1, <2>3 DEF OneIf
  <2>5. Lines(serialIn') \in Nat
      BY <2>3, LinesAreFew, Zenon
  <2>6. ~reading
      BY <1>4, <2>1, Zenon
  <2>7. line' \in Commands \cup {NoText} /\ (reading' => serialIn' = <<>>)
      BY <2>1, <2>6, Zenon
  <2>8. CASE line \in Valid /\ handler' = "s_moveCommand" /\ toCtl' = toCtl
    <3>1. moving' = 1 /\ far = 0
        BY <2>2, <2>8, CommandsAssumption DEF moving, OneIf
    <3>2. ArduinoTypeOK'
        BY <1>4, <2>1, <2>3, <2>7, <2>8, Zenon DEF ArduinoTypeOK
    <3>3. Lines(serialBuf') = Lines(serialBuf) /\ Lines(toCtl') = Lines(toCtl)
        BY <2>1, <2>8
    <3>. QED
        BY <1>6, <2>2, <2>4, <2>5, <2>7, <3>1, <3>2, <3>3
  <2>9. CASE line \in TooFar /\ handler' = handler /\ toCtl' = toCtl
    <3>1. moving' = 0 /\ far = 1
        BY <2>1, <2>2, <2>9 DEF moving, OneIf
    <3>2. ArduinoTypeOK'
        BY <1>4, <2>1, <2>3, <2>7, <2>9, Zenon DEF ArduinoTypeOK
    <3>3. Lines(serialBuf') = Lines(serialBuf) /\ Lines(toCtl') = Lines(toCtl)
        BY <2>1, <2>9
    <3>. QED
        BY <1>6, <2>2, <2>4, <2>5, <2>7, <3>1, <3>2, <3>3
  <2>10. CASE line \in Unknown \cup {NoText} /\ println("ERROR") /\ handler' = handler
    <3>1. line \notin TooFar
        BY <2>10, CommandsAssumption DEF Commands
    <3>2. moving' = 0 /\ far = 0
        BY <2>1, <2>2, <2>10, <3>1 DEF moving, OneIf
    <3>3. toCtl' \in Seq(Replies) /\ Lines(toCtl') = Lines(toCtl) + 1
      <4>1. "ERROR" \in Replies /\ NL \in Replies /\ "ERROR" # NL
          BY DEF NL
      <4>2. toCtl' = toCtl \o <<"ERROR", NL>>
          BY <2>10, Zenon DEF println
      <4>. QED
          BY <1>4, <4>1, <4>2, LinesPrinted, Zenon
    <3>4. ArduinoTypeOK'
        BY <1>4, <2>1, <2>3, <2>7, <2>10, <3>3, Zenon DEF ArduinoTypeOK
    <3>5. Lines(serialBuf') = Lines(serialBuf)
        BY <2>1
    <3>6. Lines(toCtl') = Lines(toCtl) + 1
        BY <3>3
    <3>. QED
        BY <1>6, <2>2, <2>4, <2>5, <2>7, <3>2, <3>4, <3>5, <3>6
  <2>. QED
      BY <2>1, <2>8, <2>9, <2>10, Zenon DEF processLine
<1>12. ASSUME s_moveCommand PROVE Balanced
  <2>1. /\ handler = "s_moveCommand" /\ handler' = "s_input" /\ println("OK")
        /\ serialBuf' = serialBuf /\ reading' = reading /\ serialIn' = serialIn /\ line' = line
      BY <1>12, Zenon DEF s_moveCommand
  <2>2. far = 0 /\ moving = 1 /\ moving' = 0
      BY <2>1 DEF far, moving, OneIf, InputLine
  <2>3. toCtl' \in Seq(Replies) /\ Lines(toCtl') = Lines(toCtl) + 1
    <3>1. "OK" \in Replies /\ NL \in Replies /\ "OK" # NL
        BY DEF NL
    <3>2. toCtl' = toCtl \o <<"OK", NL>>
        BY <2>1, Zenon DEF println
    <3>. QED
        BY <1>4, <3>1, <3>2, LinesPrinted, Zenon
  <2>4. ArduinoTypeOK' /\ (reading' => serialIn' = <<>>)
      BY <1>4, <2>1, <2>3, Zenon DEF ArduinoTypeOK
  <2>5. Lines(serialBuf') = Lines(serialBuf) /\ Lines(serialIn') = Lines(serialIn)
      BY <2>1
  <2>. QED
      BY <1>6, <2>2, <2>3, <2>4, <2>5
<1>13. Balanced
    BY <1>1, <1>8, <1>9, <1>10, <1>11, <1>12, Zenon DEF loop
<1>14. InTransit' + ignored' = InTransit + ignored
  <2>. DEFINE elsewhere == Lines(writing) + Lines(ctlBuf)
              here == Lines(serialBuf) + Lines(serialIn) + moving + Lines(toCtl)
              hereAfter == Lines(serialBuf') + Lines(serialIn') + moving' + Lines(toCtl')
  <2>1. Lines(writing') = Lines(writing) /\ Lines(ctlBuf') = Lines(ctlBuf)
      BY <1>1
  <2>2. /\ Lines(serialBuf') \in Nat /\ Lines(serialIn') \in Nat
        /\ moving' \in Nat /\ Lines(toCtl') \in Nat
      BY <1>13
  <2>3. /\ elsewhere \in Int /\ here \in Int /\ hereAfter \in Int
        /\ far \in Int /\ ignored \in Int
    <3>1. /\ Lines(writing) \in Nat /\ Lines(serialBuf) \in Nat /\ Lines(serialIn) \in Nat
          /\ moving \in Nat /\ Lines(toCtl) \in Nat /\ Lines(ctlBuf) \in Nat
          /\ far \in Nat /\ ignored \in Nat
        BY <1>6, <1>7, Zenon
    <3>. QED
        BY ONLY <2>2, <3>1
  <2>4. InTransit = elsewhere + here
    <3>1. /\ Lines(writing) \in Nat /\ Lines(serialBuf) \in Nat /\ Lines(serialIn) \in Nat
          /\ moving \in Nat /\ Lines(toCtl) \in Nat /\ Lines(ctlBuf) \in Nat
        BY <1>6, <1>7, Zenon
    <3>2. Lines(writing) + Lines(serialBuf) + Lines(serialIn) + moving + Lines(toCtl)
             + Lines(ctlBuf) = elsewhere + here
        BY ONLY <3>1
    <3>. QED
        BY <1>7, <3>2, Zenon
  <2>5. InTransit' = elsewhere + hereAfter
    <3>1. Lines(writing) \in Nat /\ Lines(ctlBuf) \in Nat
        BY <1>6, Zenon
    <3>2. Lines(writing) + Lines(serialBuf') + Lines(serialIn') + moving' + Lines(toCtl')
             + Lines(ctlBuf) = elsewhere + hereAfter
        BY ONLY <2>2, <3>1
    <3>. QED
        BY <1>7, <2>1, <3>2, Zenon
  <2>6. hereAfter + far = here
      BY <1>13, Zenon
  <2>. HIDE DEF elsewhere, here, hereAfter
  <2>. QED
      BY <1>2, <2>3, <2>4, <2>5, <2>6
<1>15. WindowIsExact'
    BY <1>1, <1>5, <1>14, Zenon DEF WindowIsExact
<1>16. NoReplyLeftUnread'
    BY <1>1, <1>4, Zenon DEF NoReplyLeftUnread
<1>17. ignored' \in Nat
    BY <1>2, <1>6, <1>7
<1>. QED
    BY <1>1, <1>3, <1>4, <1>13, <1>15, <1>16, <1>17, Assembled, Zenon DEF TypeOK

LEMMA StepInv == IInv /\ [Next]_vars => IInv'
<1>. SUFFICES ASSUME IInv, [Next]_vars PROVE IInv'
    OBVIOUS
<1>1. ASSUME NEW cmd \in Commands, Press(cmd) PROVE IInv'
    BY <1>1, PressKeeps
<1>2. CASE Release
  <2>1. /\ m_command' = NoText /\ m_commands' = m_commands /\ writing' = writing /\ ctlBuf' = ctlBuf
        /\ serialBuf' = serialBuf /\ reading' = reading /\ serialIn' = serialIn /\ line' = line
        /\ handler' = handler /\ toCtl' = toCtl
        /\ lost' = lost /\ ignored' = ignored /\ refused' = refused
      BY <1>2, Zenon DEF Release, arduinoVars, historyVars
  <2>2. InTransit' = InTransit
      BY <2>1, Zenon DEF InTransit
  <2>. QED
      BY <2>1, <2>2, Zenon DEF IInv, TypeOK, ArduinoTypeOK, WindowIsExact, NoReplyLeftUnread
<1>3. CASE Write
    BY <1>3, WriteKeeps
<1>4. CASE Receive
    BY <1>4, ReceiveKeeps
<1>5. CASE Arduino
    BY <1>5, ArduinoKeeps
<1>6. CASE UNCHANGED vars
  <2>1. /\ m_command' = m_command /\ m_commands' = m_commands /\ writing' = writing /\ ctlBuf' = ctlBuf
        /\ serialBuf' = serialBuf /\ reading' = reading /\ serialIn' = serialIn /\ line' = line
        /\ handler' = handler /\ toCtl' = toCtl
        /\ lost' = lost /\ ignored' = ignored /\ refused' = refused
      BY <1>6, Zenon DEF vars, arduinoVars, controllerVars, historyVars
  <2>2. InTransit' = InTransit
      BY <2>1, Zenon DEF InTransit
  <2>. QED
      BY <2>1, <2>2, Zenon DEF IInv, TypeOK, ArduinoTypeOK, WindowIsExact, NoReplyLeftUnread
<1>. QED
    BY <1>1, <1>2, <1>3, <1>4, <1>5, <1>6, Zenon DEF Next, Main

-----------------------------------------------------------------------------
(* Types of the Controller, the Arduino and their buffers.                 *)
THEOREM TypeCorrect == Spec => []TypeOK
<1>1. IInv => TypeOK
    BY DEF IInv
<1>. QED
    BY InitInv, StepInv, <1>1, PTL DEF Spec

(* The queue never counts less than what is in flight, and exactly that if *)
(* the race has lost nothing: dequeue() always finds a command, and the    *)
(* window never lets a third command out (Controller::sendCommand and the  *)
(* lambda connected to readyRead).                                         *)
THEOREM WindowCounts == Spec => []WindowIsExact
<1>1. IInv => WindowIsExact
    BY DEF IInv
<1>. QED
    BY InitInv, StepInv, <1>1, PTL DEF Spec

(* Handling one line per readyRead() leaves no reply in the buffer, since  *)
(* a text and its line end arrive one by one.                              *)
THEOREM RepliesAreRead == Spec => []NoReplyLeftUnread
<1>1. IInv => NoReplyLeftUnread
    BY DEF IInv
<1>. QED
    BY InitInv, StepInv, <1>1, PTL DEF Spec
=============================================================================
