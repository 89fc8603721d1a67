---------------------------- MODULE ModeFeedback ----------------------------
(***************************************************************************)
(* The simulation of shared-state-32178559/main.cpp: a computer in a       *)
(* thread of its own and a combo box that chooses its mode.  Each tells    *)
(* the other of its changes by queued signals, and a change that was told  *)
(* is told back.  Parameters, simulated time and its pacing are left out.  *)
(***************************************************************************)
EXTENDS Integers, Sequences

CONSTANTS
    Stop, Step,
    RunModes,       \* RealTime and Fast: the timer goes on
    MaxPicks        \* bound: choices of the user

Modes == {Stop, Step} \cup RunModes

VARIABLES
    m_mode, m_prevMode, m_timer,    \* AbstractComputer; the timer is active or not
    combo,                          \* the mode the UI shows
    toComputer, toUi,               \* setMode and newMode calls on their way
    picks,                          \* choices of the user so far
    choice, hasty                   \* history: the last one, and if one came before all was quiet

modeVars == <<m_mode, m_prevMode, m_timer, combo, toComputer, toUi, picks, choice, hasty>>

ModeInit == /\ m_mode = Stop /\ m_prevMode = Stop /\ m_timer = FALSE
            /\ combo = Stop
            /\ toComputer = <<>> /\ toUi = <<>>
            /\ picks = 0
            /\ choice = Stop /\ hasty = FALSE

(* A timer event is due that will tell the UI something. *)
Owed == m_timer /\ (m_prevMode # m_mode \/ m_mode = Step)
Quiet == toComputer = <<>> /\ toUi = <<>> /\ ~Owed

-----------------------------------------------------------------------------
(* UI: the combo box tells of every change of its index, whoever made it. *)
SetCurrentIndex(mode) ==
    /\ combo' = mode
    /\ toComputer' = IF mode = combo THEN toComputer ELSE Append(toComputer, mode)

Pick(mode) ==
    /\ picks < MaxPicks /\ mode # combo
    /\ picks' = picks + 1
    /\ choice' = mode /\ hasty' = (hasty \/ ~Quiet)
    /\ SetCurrentIndex(mode)
    /\ UNCHANGED <<m_mode, m_prevMode, m_timer, toUi>>

newMode ==
    /\ toUi # <<>>
    /\ SetCurrentIndex(Head(toUi))
    /\ toUi' = Tail(toUi)
    /\ UNCHANGED <<m_mode, m_prevMode, m_timer, picks, choice, hasty>>

(* Computer: a new mode starts the timer, or stops it; nobody is told. *)
setMode ==
    /\ toComputer # <<>>
    /\ toComputer' = Tail(toComputer)
    /\ m_mode' = Head(toComputer)
    /\ m_timer' = IF m_mode' = m_mode THEN m_timer ELSE m_mode' # Stop
    /\ UNCHANGED <<m_prevMode, combo, toUi, picks, choice, hasty>>

(* timerEvent: one that does not note the mode it has told of, and one     *)
(* that stays in Step.                                                     *)
PrevModeForgotten(mode) == m_prevMode
ModeAfterForgotten(mode) == mode

(* What timerEvent leaves as the mode before, and as the mode. *)
PrevMode(mode) == mode
ModeAfter(mode) == IF mode = Step THEN Stop ELSE mode

timerEvent ==
    /\ m_timer
    /\ m_mode' = ModeAfter(m_mode)
    /\ m_timer' = (m_mode' # Stop)
    /\ toUi' = IF m_prevMode # m_mode' \/ m_mode # m_mode' THEN Append(toUi, m_mode') ELSE toUi
    /\ m_prevMode' = PrevMode(m_mode')
    /\ UNCHANGED <<combo, toComputer, picks, choice, hasty>>

Deliver == newMode \/ setMode
ModeNext == Deliver \/ timerEvent \/ \E mode \in Modes : Pick(mode)
ModeSpec == ModeInit /\ [][ModeNext]_modeVars

-----------------------------------------------------------------------------
(* The calls under way, and the one that is owed, are never more than the  *)
(* choices that were made: an answer is answered at most once, whatever    *)
(* the order of choices, timer events and deliveries.                      *)
EchoesDoNotMultiply == Len(toComputer) + Len(toUi) + (IF Owed THEN 1 ELSE 0) <= picks

(* A user who waits for quiet before the next choice gets what was chosen: *)
(* the computer and the combo box come to agree on it, or on Stop after    *)
(* Step.  Two choices in a hurry may end at the first one, or chase each   *)
(* other for ever.                                                         *)
Agreed == Quiet /\ combo = m_mode /\ m_mode \in {choice, ModeAfter(choice)}
SettlesOnChoice == []<>(hasty \/ Agreed)
=============================================================================
