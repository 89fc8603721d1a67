------------------------------- MODULE CopyUi -------------------------------
(***************************************************************************)
(* class Ui of questions/copyfileex-19136936: a state machine with the     *)
(* states s_stopped and s_copying starts a new Copier for every copy, and  *)
(* a Copier that was cancelled goes on in its pool thread while the next   *)
(* one is started.  What a pool thread signals reaches the main thread     *)
(* through its event queue.                                                *)
(*                                                                         *)
(* Ui never pauses a copier, so Callers is empty here: the main thread     *)
(* stops copiers from within its own actions.                              *)
(***************************************************************************)
EXTENDS Copier, Sequences, SequencesExt

VARIABLES
    ui,         \* the state of m_machine: "stopped" or "copying"
    object,     \* the Copier objects: "unborn", "alive" or "deleted"
    events      \* the events posted to the main thread, oldest first

vars == <<copierVars, ui, object, events>>

Init == /\ CopierInit
        /\ ui = "stopped"
        /\ object = [c \in Copiers |-> "unborn"]
        /\ events = <<>>

Alive == {c \in Copiers : object[c] = "alive"}
Ev(what, c) == [what |-> what, of |-> c]

-----------------------------------------------------------------------------
(* stopCopy() that nobody is connected to. *)
stopCopyUnheard == UNCHANGED copierVars

(* signal stopCopy(): stop() of every live copier, one after the other.    *)
stopCopy == /\ job' = [c \in Copiers |-> IF c \in Alive THEN Woken(c) ELSE job[c]]
            /\ pause' = [c \in Copiers |-> pause[c] /\ c \notin Alive]
            /\ stop' = [c \in Copiers |-> stop[c] \/ c \in Alive]
            /\ UNCHANGED <<verdict, caller>>

(* The transition that leaves s_copying: its exited() emits stopCopy().    *)
LeaveCopying == ui' = "stopped" /\ stopCopy

(* s_stopped --clicked()--> s_copying, whose entered() calls startCopy().  *)
ClickCopy == /\ ui = "stopped"
             /\ ui' = "copying"
             /\ \E c \in Copiers : /\ object[c] = "unborn"
                                   /\ object' = [object EXCEPT ![c] = "alive"]
                                   /\ copy(c)
             /\ UNCHANGED events

ClickCancel == /\ ui = "copying"
               /\ LeaveCopying
               /\ UNCHANGED <<object, events>>

(* A finished() that is passed on as it is. *)
PostedRaw(c) == <<Ev("finished", c), Ev("deleteLater", c)>>

(* A finished() that is connected to deleteLater() only. *)
PostedWithoutCopyFinished(c) == <<Ev("deleteLater", c)>>

(* A finished() that is connected to copyFinished() only. *)
PostedWithoutDelete(c) == <<Ev("copyFinished", c)>>

(* finished() is emitted in the pool thread, so both its connections post: *)
(* first copyFinished() of Ui, then deleteLater() of the copier.           *)
Posted(c) == <<Ev("copyFinished", c), Ev("deleteLater", c)>>

Finish(c) == /\ EmitFinished(c)
             /\ events' = events \o Posted(c)
             /\ UNCHANGED <<ui, object>>

-----------------------------------------------------------------------------
(* The event loop of the main thread. *)
Next1(what) == events # <<>> /\ Head(events).what = what

(* copyFinished() ends s_copying, whichever copier it came from. *)
CopyFinished == /\ Next1("copyFinished")
                /\ events' = Tail(events)
                /\ IF ui = "copying" THEN LeaveCopying ELSE UNCHANGED <<copierVars, ui>>
                /\ UNCHANGED object

DeleteLater == /\ Next1("deleteLater")
               /\ events' = Append(Tail(events), Ev("delete", Head(events).of))
               /\ UNCHANGED <<copierVars, ui, object>>

(* ~Copier() calls stop(), which has no one left to stop. *)
Delete == /\ Next1("delete")
          /\ events' = Tail(events)
          /\ object' = [object EXCEPT ![Head(events).of] = "deleted"]
          /\ stop' = [stop EXCEPT ![Head(events).of] = TRUE]
          /\ UNCHANGED <<pause, job, verdict, caller, ui>>

Dispatch == CopyFinished \/ DeleteLater \/ Delete

(* m_pause is never set here, so a callback never gets to Wait and Return. *)
Pool(c) == \/ /\ Start(c) \/ Message(c) \/ CopyEnds(c) \/ TestPause(c)
              /\ UNCHANGED <<ui, object, events>>
           \/ Finish(c)

Next == ClickCopy \/ ClickCancel \/ Dispatch \/ \E c \in Copiers : Pool(c)

Spec == Init /\ [][Next]_vars

(* The main thread returns to its event loop, and the pool has threads     *)
(* enough; the user need not click anything.                               *)
FairSpec == Spec /\ WF_vars(Dispatch) /\ \A c \in Copiers : WF_vars(Pool(c))

-----------------------------------------------------------------------------
TypeOK == /\ CopierTypeOK
          /\ ui \in {"stopped", "copying"}
          /\ object \in [Copiers -> {"unborn", "alive", "deleted"}]
          /\ events \in Seq([what : {"copyFinished", "deleteLater", "delete"}, of : Copiers])

Busy(c) == job[c] \notin {"none", "finished"}

(* Two copies to the same files do not go on at once: at most one copier   *)
(* at work has not been told to stop, and none when Ui says it is stopped, *)
(* however many cancelled copies still wind down in the pool.              *)
OneCopyGoesOn ==
    /\ ui = "stopped" => \A c \in Copiers : Busy(c) => stop[c]
    /\ \A c, d \in Copiers : Busy(c) /\ Busy(d) /\ ~stop[c] /\ ~stop[d] => c = d

(* Ui does not stay in s_copying with the Copy button disabled after the   *)
(* copy is over: there is a copy at work or news of one in the queue.      *)
CopyingMeansNewsToCome ==
    ui = "copying" => \E c \in Copiers : \/ Busy(c) /\ ~stop[c]
                                         \/ Contains(events, Ev("copyFinished", c))

(* A copier is not deleted while its pool thread still uses it. *)
DeletedAfterUse == \A c \in Copiers : object[c] = "deleted" => job[c] = "finished"

(* A copier that was told to stop ends, and is deleted. *)
StoppedCopiersGo == \A c \in Copiers : (object[c] = "alive" /\ stop[c]) ~> (object[c] = "deleted")
=============================================================================
