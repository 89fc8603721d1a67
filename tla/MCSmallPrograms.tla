--------------------------- MODULE MCSmallPrograms ---------------------------
(***************************************************************************)
(* The programs that are small enough to be checked together: a behaviour  *)
(* is one of the programs that Programs names, and the others rest in      *)
(* their initial states.  They share nothing.                              *)
(***************************************************************************)
EXTENDS ScreenshotTaker, MonitoringApp, ModeFeedback, ThreadExit, PacketDecoder, BeaconCodec, PrefixTree

CONSTANT Programs   \* those to be checked, of the names used below

VARIABLE program

(* PrefixTree: nodes of up to five children, and words through a child     *)
(* that another word ends at.                                              *)
WordsToInsert == {<<1>>, <<2>>, <<3>>, <<4>>, <<0>>, <<1, 2>>, <<1, 2, 0>>, <<1, 0>>, <<4, 1>>}

(* PacketDecoder: payloads of none, one and two bytes, bytes on both sides *)
(* of 128, junk after digits of either kind.                               *)
PacketsToSend == <<<<0, 1, 2, 0>>, <<16, 7, 255, 2, 171, 205>>, <<186, 190, 0, 1, 12>>, <<0, 0, 0, 0>>>>
JunkAfter == {1, 8, 9, 13, 20}
TextToSend ==
    LET bytes  == FlattenSeq(PacketsToSend)
        digits == FlattenSeq([i \in DOMAIN bytes |-> <<bytes[i] \div 16, bytes[i] % 16>>])
    IN  FlattenSeq([i \in DOMAIN digits |-> IF i \in JunkAfter THEN <<digits[i], junk>> ELSE <<digits[i]>>])

(* BeaconCodec: any two neighbouring fields depart from a typical beacon,  *)
(* over all of their ranges.                                               *)
TypicalBeacon == <<1, 2, 2, 2, 3, 1, 1, 2, 1, 0, 1, 0>>
FieldValues(i) == IF i <= 8 THEN 0..Parts ELSE IF i = 9 THEN 0..3 ELSE 0..1
BeaconsToSend == UNION {{[TypicalBeacon EXCEPT ![i] = v, ![i + 1] = w] :
                    v \in FieldValues(i), w \in FieldValues(i + 1)} : i \in 1..11}

vars == <<program, screenVars, monitorVars, treeVars, decoderVars, beaconVars, modeVars, exitVars>>

Init == /\ program \in Programs
        /\ TakerInit /\ MonitorInit /\ ModeInit /\ ExitInit /\ DecoderInit
        /\ TreeInit /\ (program # "tree" => \A limit \in MemoryLimits : memory <= limit)
        /\ BeaconInit /\ (program # "beacon" => input = TypicalBeacon)

-----------------------------------------------------------------------------
(* The program named is the one that takes a step; the others rest. *)
ScreensOnly == program = "screens" /\
    UNCHANGED <<program, monitorVars, treeVars, decoderVars, beaconVars, modeVars, exitVars>>
MonitorOnly == program = "monitor" /\
    UNCHANGED <<program, screenVars, treeVars, decoderVars, beaconVars, modeVars, exitVars>>
TreeOnly == program = "tree" /\
    UNCHANGED <<program, screenVars, monitorVars, decoderVars, beaconVars, modeVars, exitVars>>
DecoderOnly == program = "decoder" /\
    UNCHANGED <<program, screenVars, monitorVars, treeVars, beaconVars, modeVars, exitVars>>
BeaconOnly == program = "beacon" /\
    UNCHANGED <<program, screenVars, monitorVars, treeVars, decoderVars, modeVars, exitVars>>
SimulationOnly == program = "simulation" /\
    UNCHANGED <<program, screenVars, monitorVars, treeVars, decoderVars, beaconVars, exitVars>>
ExitOnly == program = "exit" /\
    UNCHANGED <<program, screenVars, monitorVars, treeVars, decoderVars, beaconVars, modeVars>>

Next == \/ ScreensOnly /\ TakerNext
        \/ MonitorOnly /\ MonitorNext
        \/ TreeOnly /\ TreeNext
        \/ DecoderOnly /\ DecoderNext
        \/ BeaconOnly /\ BeaconNext
        \/ SimulationOnly /\ ModeNext
        \/ ExitOnly /\ ExitNext

(* Timers expire, a thread with an event loop goes on with its events, and *)
(* main() goes on to its end once its window is closed.  Users, senders    *)
(* and the handlers of the monitored threads owe nothing.                  *)
Fairness == /\ WF_vars(ScreensOnly /\ Loop)
            /\ WF_vars(MonitorOnly /\ Notifier)
            /\ WF_vars(MonitorOnly /\ Dispatch)
            /\ WF_vars(MonitorOnly /\ Tick)
            /\ WF_vars(SimulationOnly /\ newMode)
            /\ WF_vars(SimulationOnly /\ setMode)
            /\ WF_vars(SimulationOnly /\ timerEvent)
            /\ WF_vars(ExitOnly /\ Worker)
            /\ WF_vars(ExitOnly /\ Finished)
            /\ WF_vars(ExitOnly /\ Ending)

Spec == Init /\ [][Next]_vars /\ Fairness
=============================================================================
