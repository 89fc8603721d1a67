---------------------------- MODULE CopyUi_proofs ----------------------------
(***************************************************************************)
(* For every set of Copiers, so for any number of copies cancelled one     *)
(* after the other: at most one goes on, and none is deleted while its     *)
(* pool thread uses it; and Ui, while it is copying, has news to expect.   *)
(*                                                                         *)
(* All rest on Lives: a copier at work is alive, so stopCopy() reaches     *)
(* it, and every event in the queue is about a copier whose pool thread is *)
(* done, so deleteLater() comes late enough.                               *)
(***************************************************************************)
EXTENDS CopyUi, SequenceTheorems, TLAPS

Done == {c \in Copiers : job[c] = "finished"}
News(S) == [what : {"copyFinished", "deleteLater", "delete"}, of : S]

Lives == /\ \A c \in Copiers : /\ Busy(c) => object[c] = "alive"
                               /\ object[c] = "unborn" => job[c] = "none"
                               /\ job[c] = "none" => object[c] # "deleted"
         /\ events \in Seq(News(Done))

IInv == TypeOK /\ Lives /\ OneCopyGoesOn

-----------------------------------------------------------------------------
(* Events about some copiers are events about more of them. *)
LEMMA NewsGrows ==
  ASSUME NEW S, NEW T, S \subseteq T, NEW s \in Seq(News(S))
  PROVE  s \in Seq(News(T))
<1>1. News(S) \subseteq News(T)
  BY DEF News
<1>. QED BY <1>1

(* The three ways the queue changes. *)
LEMMA NewsPosted ==
  ASSUME NEW S, NEW c \in S, NEW s \in Seq(News(S))
  PROVE  s \o Posted(c) \in Seq(News(S))
<1>1. Ev("copyFinished", c) \in News(S) /\ Ev("deleteLater", c) \in News(S)
  BY DEF Ev, News
<1>. QED BY <1>1 DEF Posted

LEMMA NewsTaken ==
  ASSUME NEW S, NEW s \in Seq(News(S)), s # <<>>
  PROVE  Head(s) \in News(S) /\ Head(s).of \in S /\ Tail(s) \in Seq(News(S))
<1>1. Head(s) \in News(S) /\ Tail(s) \in Seq(News(S))
  OBVIOUS
<1>. QED BY <1>1 DEF News

LEMMA NewsDelete ==
  ASSUME NEW S, NEW c \in S, NEW s \in Seq(News(S))
  PROVE  Append(s, Ev("delete", c)) \in Seq(News(S))
<1>1. Ev("delete", c) \in News(S)
  BY DEF Ev, News
<1>. QED BY <1>1

-----------------------------------------------------------------------------
LEMMA InitIInv == Init => IInv
<1>. SUFFICES ASSUME Init PROVE IInv
  OBVIOUS
<1>1. CopierTypeOK
  BY DEF Init, CopierInit, CopierTypeOK, JobStates
<1>2. events \in Seq(News(Done)) /\ events \in Seq(News(Copiers))
  BY DEF Init
<1>3. TypeOK
  BY <1>1, <1>2 DEF Init, TypeOK, News
<1>. QED BY <1>2, <1>3 DEF Init, CopierInit, IInv, Lives, OneCopyGoesOn, Busy

(* A step of a pool thread before finished() keeps its copier at work. *)
Works(c) == /\ Start(c) \/ Message(c) \/ CopyEnds(c) \/ TestPause(c)
            /\ UNCHANGED <<ui, object, events>>

LEMMA WorkStep ==
  ASSUME TypeOK, NEW c \in Copiers, Works(c)
  PROVE  /\ CopierTypeOK' /\ UNCHANGED <<stop, ui, object, events>>
         /\ Busy(c) /\ Busy(c)' /\ \A d \in Copiers : d # c => job'[d] = job[d]
         /\ Done' = Done
BY DEF TypeOK, CopierTypeOK, JobStates, Works, Start, Message, CopyEnds, TestPause, AfterCallback,
       Goto, Busy, Done

LEMMA WorkKeeps ==
  ASSUME IInv, NEW c \in Copiers, Works(c)
  PROVE  IInv'
<1>1. TypeOK'
  BY WorkStep DEF IInv, TypeOK
<1>2. Lives'
  BY WorkStep DEF IInv, Lives, Busy, News
<1>3. OneCopyGoesOn'
  BY WorkStep DEF IInv, OneCopyGoesOn, Busy
<1>. QED BY <1>1, <1>2, <1>3 DEF IInv

(* finished() is the last thing the pool thread does. *)
LEMMA FinishKeeps ==
  ASSUME IInv, NEW c \in Copiers, Finish(c)
  PROVE  IInv'
<1>1. /\ CopierTypeOK' /\ UNCHANGED <<stop, ui, object>> /\ Busy(c) /\ job'[c] = "finished"
      /\ \A d \in Copiers : d # c => job'[d] = job[d]
  BY DEF IInv, TypeOK, CopierTypeOK, JobStates, Finish, EmitFinished, Goto, Busy
<1>2. events' \in Seq(News(Done'))
  <2>1. Done \subseteq Done' /\ c \in Done'
    BY <1>1 DEF Done
  <2>2. events \in Seq(News(Done'))
    BY <2>1, NewsGrows DEF IInv, Lives
  <2>. QED BY <2>1, <2>2, NewsPosted DEF Finish
<1>3. events' \in Seq(News(Copiers))
  BY <1>2, NewsGrows DEF Done
<1>4. TypeOK'
  BY <1>1, <1>3 DEF IInv, TypeOK, News
<1>5. Lives'
  BY <1>1, <1>2 DEF IInv, Lives, Busy
<1>6. OneCopyGoesOn'
  BY <1>1 DEF IInv, OneCopyGoesOn, Busy
<1>. QED BY <1>4, <1>5, <1>6 DEF IInv

(* Leaving s_copying stops every copier at work. *)
LEMMA LeaveStep ==
  ASSUME IInv, LeaveCopying
  PROVE  /\ CopierTypeOK' /\ ui' = "stopped" /\ Done' = Done
         /\ \A c \in Copiers : /\ Busy(c)' => Busy(c) /\ stop'[c]
                               /\ Busy(c) => Busy(c)'
                               /\ job'[c] = "none" <=> job[c] = "none"
<1>1. \A c \in Copiers : Busy(c) => c \in Alive
  BY DEF IInv, Lives, Alive
<1>2. \A c \in Copiers : job'[c] = job[c] \/ (job[c] = "waiting" /\ job'[c] = "returning")
  BY DEF LeaveCopying, stopCopy, Woken
<1>3. CopierTypeOK'
  BY DEF IInv, TypeOK, CopierTypeOK, JobStates, LeaveCopying, stopCopy, Woken
<1>4. \A c \in Copiers : Busy(c) => stop'[c]
  BY <1>1 DEF LeaveCopying, stopCopy
<1>. QED BY <1>2, <1>3, <1>4 DEF LeaveCopying, Busy, Done

LEMMA LeaveKeeps ==
  ASSUME IInv, LeaveCopying, object' = object, events' \in Seq(News(Done))
  PROVE  IInv'
<1>1. events' \in Seq(News(Copiers)) /\ events' \in Seq(News(Done'))
  BY LeaveStep, NewsGrows DEF Done
<1>2. TypeOK'
  BY <1>1, LeaveStep DEF IInv, TypeOK, News
<1>3. Lives'
  <2>1. \A c \in Copiers : /\ Busy(c)' => Busy(c)
                           /\ job'[c] = "none" <=> job[c] = "none"
    BY LeaveStep
  <2>. QED BY <1>1, <2>1 DEF IInv, Lives, Busy
<1>4. OneCopyGoesOn'
  <2>1. \A c \in Copiers : Busy(c)' => stop'[c]
    BY LeaveStep
  <2>. QED BY <2>1 DEF OneCopyGoesOn, Busy
<1>. QED BY <1>2, <1>3, <1>4 DEF IInv

(* A new copy is started when all the others were told to stop. *)
LEMMA ClickCopyKeeps == IInv /\ ClickCopy => IInv'
<1>. SUFFICES ASSUME IInv, ClickCopy PROVE IInv'
  OBVIOUS
<1>1. PICK c \in Copiers : /\ object[c] = "unborn"
                           /\ object' = [object EXCEPT ![c] = "alive"]
                           /\ copy(c)
  BY DEF ClickCopy
<1>2. /\ CopierTypeOK' /\ ui = "stopped" /\ ui' = "copying" /\ events' = events
      /\ object' \in [Copiers -> {"unborn", "alive", "deleted"}] /\ object'[c] = "alive"
      /\ \A d \in Copiers : d # c => /\ job'[d] = job[d] /\ object'[d] = object[d]
                                     /\ stop'[d] = stop[d]
      /\ job[c] = "none" /\ job'[c] = "queued"
  BY <1>1 DEF IInv, TypeOK, CopierTypeOK, JobStates, ClickCopy, copy, Goto
<1>3. Done' = Done
  BY <1>2 DEF Done
<1>4. TypeOK'
  BY <1>2 DEF IInv, TypeOK
<1>5. Lives'
  BY <1>2, <1>3 DEF IInv, Lives, Busy, News
<1>6. \A d \in Copiers : d # c /\ Busy(d)' => stop'[d]
  <2>1. \A d \in Copiers : Busy(d) => stop[d]
    BY <1>2 DEF IInv, OneCopyGoesOn
  <2>. QED BY <1>2, <2>1 DEF Busy
<1>7. OneCopyGoesOn'
  BY <1>2, <1>6 DEF OneCopyGoesOn
<1>. QED BY <1>4, <1>5, <1>7 DEF IInv

LEMMA ClickCancelKeeps == IInv /\ ClickCancel => IInv'
BY LeaveKeeps DEF ClickCancel, IInv, Lives

(* The event loop takes news of copiers that are done. *)
LEMMA DispatchKeeps == IInv /\ Dispatch => IInv'
<1>. SUFFICES ASSUME IInv, Dispatch PROVE IInv'
  OBVIOUS
<1>. DEFINE c == Head(events).of
<1>1. events # <<>> /\ events \in Seq(News(Done))
  BY DEF IInv, Lives, Dispatch, CopyFinished, DeleteLater, Delete, Next1
<1>2. c \in Done /\ Tail(events) \in Seq(News(Done))
  BY <1>1, NewsTaken
<1>3. ASSUME events' \in Seq(News(Done)), UNCHANGED <<copierVars, ui, object>>
      PROVE  IInv'
  <2>1. events' \in Seq(News(Copiers)) /\ Done' = Done
    BY <1>3, NewsGrows DEF Done, copierVars
  <2>. QED
    BY <1>3, <2>1 DEF IInv, TypeOK, CopierTypeOK, Lives, OneCopyGoesOn, Busy, News, copierVars
<1>4. CASE CopyFinished
  <2>1. CASE ui = "copying"
    BY <1>2, <1>4, <2>1, LeaveKeeps DEF CopyFinished
  <2>2. CASE ui # "copying"
    BY <1>2, <1>3, <1>4, <2>2 DEF CopyFinished
  <2>. QED BY <2>1, <2>2
<1>5. CASE DeleteLater
  BY <1>2, <1>3, <1>5, NewsDelete DEF DeleteLater
<1>6. CASE Delete
  <2>1. /\ CopierTypeOK' /\ UNCHANGED <<job, ui>> /\ events' = Tail(events) /\ Done' = Done
        /\ object' = [object EXCEPT ![c] = "deleted"] /\ c \in Copiers /\ ~Busy(c)
        /\ \A d \in Copiers : d # c => object'[d] = object[d] /\ stop'[d] = stop[d]
        /\ object' \in [Copiers -> {"unborn", "alive", "deleted"}] /\ object'[c] = "deleted"
        /\ job[c] = "finished"
    BY <1>2, <1>6 DEF IInv, TypeOK, CopierTypeOK, Delete, Done, Busy
  <2>2. events' \in Seq(News(Copiers))
    BY <1>2, <2>1, NewsGrows DEF Done
  <2>3. TypeOK'
    BY <2>1, <2>2 DEF IInv, TypeOK, News
  <2>4. Lives'
    BY <1>2, <2>1 DEF IInv, Lives, Busy
  <2>5. OneCopyGoesOn'
    BY <2>1 DEF IInv, OneCopyGoesOn, Busy
  <2>. QED BY <2>3, <2>4, <2>5 DEF IInv
<1>. QED BY <1>4, <1>5, <1>6 DEF Dispatch

LEMMA NextIInv == IInv /\ [Next]_vars => IInv'
<1>. SUFFICES ASSUME IInv, [Next]_vars PROVE IInv'
  OBVIOUS
<1>1. CASE \E c \in Copiers : Pool(c)
  BY <1>1, WorkKeeps, FinishKeeps DEF Pool, Works
<1>2. CASE UNCHANGED vars
  BY <1>2 DEF vars, copierVars, IInv, TypeOK, CopierTypeOK, Lives, OneCopyGoesOn, Busy, Done, News
<1>. QED BY <1>1, <1>2, ClickCopyKeeps, ClickCancelKeeps, DispatchKeeps DEF Next

LEMMA AlwaysIInv == Spec => []IInv
BY InitIInv, NextIInv, PTL DEF Spec

-----------------------------------------------------------------------------
(* News that is in the queue stays there: when more is posted, and when    *)
(* something else is taken from its head.                                  *)
LEMMA NewsStays ==
  ASSUME NEW S, NEW s \in Seq(S), NEW t \in Seq(S), NEW e, Contains(s, e)
  PROVE  /\ Contains(s \o t, e)
         /\ s # <<>> /\ (Head(s) # e => Contains(Tail(s), e))
<1>1. PICK i \in 1 .. Len(s) : s[i] = e
  BY DEF Contains
<1>2. Contains(s \o t, e)
  <2>1. i \in 1 .. Len(s \o t) /\ (s \o t)[i] = e
    BY <1>1
  <2>. QED BY <2>1 DEF Contains
<1>3. s # <<>>
  BY <1>1
<1>4. ASSUME Head(s) # e PROVE Contains(Tail(s), e)
  <2>1. i # 1
    BY <1>1, <1>3, <1>4
  <2>2. i - 1 \in 1 .. Len(Tail(s)) /\ Tail(s)[i - 1] = e
    BY <1>1, <1>3, <2>1
  <2>. QED BY <2>2 DEF Contains
<1>. QED BY <1>2, <1>3, <1>4

(* What a copier posts when it is done contains the news Ui waits for. *)
LEMMA PostedIsNews ==
  ASSUME NEW c \in Copiers, NEW s \in Seq(News(Copiers))
  PROVE  Contains(s \o Posted(c), Ev("copyFinished", c))
<1>1. Posted(c) \in Seq(News(Copiers))
  BY DEF Posted, Ev, News
<1>2. Len(s) + 1 \in 1 .. Len(s \o Posted(c))
  BY <1>1 DEF Posted
<1>3. (s \o Posted(c))[Len(s) + 1] = Ev("copyFinished", c)
  BY <1>1 DEF Posted
<1>. QED BY <1>2, <1>3 DEF Contains

(* One copier at work that was not told to stop, or one that told Ui. *)
Promise(c) == (Busy(c) /\ ~stop[c]) \/ Contains(events, Ev("copyFinished", c))

LEMMA FinishPromises ==
  ASSUME IInv, CopyingMeansNewsToCome, NEW d \in Copiers, Finish(d)
  PROVE  CopyingMeansNewsToCome'
<1>1. /\ UNCHANGED <<stop, ui>> /\ events' = events \o Posted(d)
      /\ \A c \in Copiers : c # d => job'[c] = job[c]
  BY DEF IInv, TypeOK, CopierTypeOK, Finish, EmitFinished, Goto
<1>2. events \in Seq(News(Copiers)) /\ Posted(d) \in Seq(News(Copiers))
  BY DEF IInv, TypeOK, News, Posted, Ev
<1>3. SUFFICES ASSUME ui = "copying" PROVE \E c \in Copiers : Promise(c)'
  BY <1>1 DEF CopyingMeansNewsToCome, Promise
<1>4. PICK c \in Copiers : Promise(c)
  BY <1>3 DEF CopyingMeansNewsToCome, Promise
<1>5. CASE Contains(events, Ev("copyFinished", c))
  BY <1>1, <1>2, <1>5, NewsStays DEF Promise
<1>6. CASE Busy(c) /\ ~stop[c] /\ c # d
  BY <1>1, <1>6 DEF Promise, Busy
<1>7. CASE c = d
  BY <1>1, <1>2, <1>7, PostedIsNews DEF Promise
<1>. QED BY <1>4, <1>5, <1>6, <1>7 DEF Promise

(* Taking any other event leaves the promise; copyFinished() redeems it.   *)
LEMMA DispatchPromises ==
  ASSUME IInv, CopyingMeansNewsToCome, Dispatch
  PROVE  CopyingMeansNewsToCome'
<1>. DEFINE e == Head(events)
<1>1. CASE CopyFinished
  BY <1>1 DEF CopyFinished, LeaveCopying, CopyingMeansNewsToCome
<1>2. CASE DeleteLater \/ Delete
  <2>1. events # <<>> /\ e.what # "copyFinished" /\ UNCHANGED <<ui, job>>
    BY <1>2 DEF DeleteLater, Delete, Next1, copierVars
  <2>2. /\ events \in Seq(News(Done)) /\ events \in Seq(News(Copiers))
        /\ e.of \in Done /\ Tail(events) \in Seq(News(Copiers))
    BY <2>1, NewsTaken DEF IInv, Lives, TypeOK, News
  <2>3. SUFFICES ASSUME ui = "copying" PROVE \E c \in Copiers : Promise(c)'
    BY <2>1 DEF CopyingMeansNewsToCome, Promise
  <2>4. PICK c \in Copiers : Promise(c)
    BY <2>3 DEF CopyingMeansNewsToCome, Promise
  <2>5. CASE Busy(c) /\ ~stop[c]
    <3>1. c # e.of
      BY <2>2, <2>5 DEF Busy, Done
    <3>2. stop'[c] = stop[c]
      BY <1>2, <3>1 DEF DeleteLater, Delete, copierVars, IInv, TypeOK, CopierTypeOK
    <3>. QED BY <2>1, <2>5, <3>2 DEF Promise, Busy
  <2>6. CASE Contains(events, Ev("copyFinished", c))
    <3>1. Contains(Tail(events), Ev("copyFinished", c))
      BY <2>1, <2>2, <2>6, NewsStays DEF Ev
    <3>2. CASE Delete
      BY <3>1, <3>2 DEF Delete, Promise
    <3>3. CASE DeleteLater
      <4>1. <<Ev("delete", e.of)>> \in Seq(News(Copiers))
        BY <2>2 DEF Ev, News, Done
      <4>2. events' = Tail(events) \o <<Ev("delete", e.of)>>
        BY <2>2, <3>3 DEF DeleteLater
      <4>. QED BY <2>2, <3>1, <4>1, <4>2, NewsStays DEF Promise
    <3>. QED BY <1>2, <3>2, <3>3
  <2>. QED BY <2>4, <2>5, <2>6 DEF Promise
<1>. QED BY <1>1, <1>2 DEF Dispatch

LEMMA NextPromises ==
  ASSUME IInv, CopyingMeansNewsToCome, [Next]_vars
  PROVE  CopyingMeansNewsToCome'
<1>1. CASE ClickCopy
  <2>1. PICK c \in Copiers : copy(c)
    BY <1>1 DEF ClickCopy
  <2>2. Busy(c)' /\ ~stop'[c]
    BY <2>1 DEF copy, Goto, Busy, IInv, TypeOK, CopierTypeOK
  <2>. QED BY <2>2 DEF CopyingMeansNewsToCome
<1>2. CASE ClickCancel
  BY <1>2 DEF ClickCancel, LeaveCopying, CopyingMeansNewsToCome
<1>3. ASSUME NEW d \in Copiers, Works(d) PROVE CopyingMeansNewsToCome'
  <2>1. \A c \in Copiers : Busy(c) => Busy(c)'
    BY <1>3, WorkStep DEF IInv, Busy
  <2>. QED BY <1>3, <2>1, WorkStep DEF IInv, CopyingMeansNewsToCome
<1>4. CASE \E d \in Copiers : Pool(d)
  BY <1>3, <1>4, FinishPromises DEF Pool, Works
<1>5. CASE UNCHANGED vars
  BY <1>5 DEF vars, copierVars, CopyingMeansNewsToCome, Busy
<1>. QED BY <1>1, <1>2, <1>4, <1>5, DispatchPromises DEF Next

-----------------------------------------------------------------------------
(* Type correctness of Ui, its copiers and its event queue. *)
THEOREM TypeCorrect == Spec => []TypeOK
BY AlwaysIInv, PTL DEF IInv

(* At most one copier at work was not told to stop, however many others    *)
(* the user started and cancelled before it.                               *)
THEOREM OneCopyAtATime == Spec => []OneCopyGoesOn
BY AlwaysIInv, PTL DEF IInv

(* No copier is deleted before its pool thread has emitted finished(). *)
THEOREM DeletionIsLate == Spec => []DeletedAfterUse
<1>1. IInv => DeletedAfterUse
  BY DEF IInv, Lives, DeletedAfterUse, Busy
<1>. QED BY <1>1, AlwaysIInv, PTL

(* While the Copy button is disabled a copy is at work that nobody told to *)
(* stop, or its copyFinished() is on its way: Ui is not left in s_copying  *)
(* by any order of clicks, ends of copies and events.                      *)
THEOREM NewsComesWhileCopying == Spec => []CopyingMeansNewsToCome
<1>1. Init => CopyingMeansNewsToCome
  BY DEF Init, CopyingMeansNewsToCome
<1>2. IInv /\ CopyingMeansNewsToCome /\ [Next]_vars => CopyingMeansNewsToCome'
  BY NextPromises
<1>. QED BY <1>1, <1>2, AlwaysIInv, PTL DEF Spec
=============================================================================
