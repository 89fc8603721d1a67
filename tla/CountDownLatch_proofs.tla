----------------------- MODULE CountDownLatch_proofs ------------------------
(***************************************************************************)
(* For every capacity N, every finite set of lockers and every set of      *)
(* jobs: the semaphore of CountDownLatch counts the live lockers, no job   *)
(* outlives the object that started it, and the latch implements           *)
(* PinnedObject.                                                           *)
(*                                                                         *)
(* Counted alone is not enough: that the latch lets the destructor through *)
(* only tells that no locker is live, and what ties a job to a locker is   *)
(* JobHoldsLocker.  IInv is their conjunction with the types.              *)
(***************************************************************************)
EXTENDS CountDownLatch, FiniteSetTheorems, TLAPS

(* A job whose functor still exists owns a locker that points to the latch.*)
JobHoldsLocker ==
    \A j \in Jobs : job[j] \in {"queued", "working", "unwinding"} =>
                        \E l \in Lockers : owner[l] = j /\ sem[l] = "latch"

IInv == TypeOK /\ Counted /\ JobHoldsLocker

-----------------------------------------------------------------------------
(* Creating a locker: one more is held, and the count follows. *)
LEMMA ConstructCounts ==
    ASSUME NEW l \in Lockers, NEW o \in Jobs \cup {"main", "temporary"}, TypeOK,
           avail = N - Cardinality(Held), Construct(l, o)
    PROVE  /\ avail' \in 0..N
           /\ sem' \in [Lockers -> {"unborn", "latch", "null", "dead"}]
           /\ owner' \in [Lockers -> Jobs \cup {"main", "temporary"}]
           /\ Held' = Held \cup {l} /\ l \notin Held
           /\ avail' = N - Cardinality(Held')
           /\ \A k \in Lockers : k # l => sem'[k] = sem[k] /\ owner'[k] = owner[k]
           /\ sem'[l] = "latch" /\ owner'[l] = o
  <1>1. Held \subseteq Lockers /\ IsFiniteSet(Held)
    BY LockersAssumption, FS_Subset DEF Held
  <1>2. l \notin Held /\ Held' = Held \cup {l}
    BY DEF Construct, Held, TypeOK
  <1>3. Cardinality(Held') = Cardinality(Held) + 1
    BY <1>1, <1>2, FS_AddElement
  <1>4. Cardinality(Held) \in Nat
    BY <1>1, FS_CardinalityType
  <1>5. avail' = avail - 1 /\ avail' \in 0..N
    BY NAssumption DEF Construct, Acquire, TypeOK
  <1>6. avail' = N - Cardinality(Held')
    BY <1>3, <1>4, <1>5, NAssumption
  <1> QED
    BY <1>2, <1>5, <1>6 DEF Construct, TypeOK

(* Moving a locker: another one is held in its place. *)
LEMMA MoveCounts ==
    ASSUME NEW l \in Lockers, NEW m \in Lockers,
           NEW o \in Jobs \cup {"main", "temporary"}, TypeOK,
           avail = N - Cardinality(Held), Move(l, m, o)
    PROVE  /\ avail' = avail
           /\ sem' \in [Lockers -> {"unborn", "latch", "null", "dead"}]
           /\ owner' \in [Lockers -> Jobs \cup {"main", "temporary"}]
           /\ l \in Held /\ m \notin Held /\ Held' = (Held \ {l}) \cup {m}
           /\ avail' = N - Cardinality(Held')
           /\ \A k \in Lockers : k # l /\ k # m => sem'[k] = sem[k] /\ owner'[k] = owner[k]
           /\ sem'[m] = "latch" /\ owner'[m] = o
  <1>1. Held \subseteq Lockers /\ IsFiniteSet(Held)
    BY LockersAssumption, FS_Subset DEF Held
  <1>2. l \in Held /\ m \notin Held /\ Held' = (Held \ {l}) \cup {m}
    BY DEF Move, Held, TypeOK
  <1>3. IsFiniteSet(Held \ {l}) /\ Cardinality(Held \ {l}) = Cardinality(Held) - 1
    BY <1>1, <1>2, FS_RemoveElement
  <1>4. Cardinality(Held') = Cardinality(Held \ {l}) + 1
    BY <1>2, <1>3, FS_AddElement
  <1>5. Cardinality(Held) \in Nat
    BY <1>1, FS_CardinalityType
  <1>6. Cardinality(Held') = Cardinality(Held)
    BY <1>3, <1>4, <1>5
  <1> QED
    BY <1>2, <1>6 DEF Move, TypeOK

(* Destroying a locker: it is held no more, and its unit, if any, is back. *)
LEMMA DestroyCounts ==
    ASSUME NEW l \in Lockers, TypeOK, avail = N - Cardinality(Held), Destroy(l)
    PROVE  /\ avail' \in 0..N
           /\ sem' \in [Lockers -> {"unborn", "latch", "null", "dead"}]
           /\ owner' = owner
           /\ Held' = Held \ {l}
           /\ avail' = N - Cardinality(Held')
           /\ \A k \in Lockers : k # l => sem'[k] = sem[k]
  <1>1. Held \subseteq Lockers /\ IsFiniteSet(Held)
    BY LockersAssumption, FS_Subset DEF Held
  <1>2. Held' = Held \ {l}
    BY DEF Destroy, Held, TypeOK
  <1>3. Cardinality(Held) \in Nat
    BY <1>1, FS_CardinalityType
  <1>4. CASE sem[l] = "latch"
    <2>1. l \in Held
      BY <1>4 DEF Held
    <2>2. Cardinality(Held') = Cardinality(Held) - 1
      BY <1>1, <1>2, <2>1, FS_RemoveElement
    <2>3. IsFiniteSet(Held') /\ Cardinality(Held') \in Nat
      BY <1>1, <1>2, FS_Subset, FS_CardinalityType
    <2>4. avail' = avail + 1
      BY <1>4 DEF Destroy, Release
    <2>5. avail' = N - Cardinality(Held') /\ avail' \in 0..N
      BY <1>3, <2>2, <2>3, <2>4, NAssumption DEF TypeOK
    <2> QED
      BY <1>2, <2>5 DEF Destroy, TypeOK
  <1>5. CASE sem[l] # "latch"
    <2>1. Held' = Held
      BY <1>2, <1>5 DEF Held
    <2> QED
      BY <1>2, <1>5, <2>1 DEF Destroy, TypeOK
  <1> QED
    BY <1>4, <1>5

-----------------------------------------------------------------------------
LEMMA InitIInv == Init => IInv
  <1> SUFFICES ASSUME Init PROVE IInv
    OBVIOUS
  <1>1. TypeOK
    BY NAssumption DEF Init, TypeOK
  <1>2. Held = {}
    BY DEF Init, Held
  <1>3. Counted
    BY <1>2, FS_EmptySet, NAssumption DEF Init, Counted
  <1>4. JobHoldsLocker
    BY DEF Init, JobHoldsLocker
  <1> QED
    BY <1>1, <1>3, <1>4 DEF IInv

(* A job keeps its locker when no other job's state and no locker of its   *)
(* own is disturbed.                                                       *)
LEMMA KeepsJobs ==
    ASSUME IInv, job' = job,
           \A k \in Lockers : sem[k] = "latch" /\ owner[k] \in Jobs
                                => sem'[k] = "latch" /\ owner'[k] = owner[k]
    PROVE  JobHoldsLocker'
  <1> SUFFICES ASSUME NEW j \in Jobs, job[j] \in {"queued", "working", "unwinding"}
               PROVE  \E l \in Lockers : owner'[l] = j /\ sem'[l] = "latch"
    BY DEF JobHoldsLocker
  <1>1. PICK l \in Lockers : owner[l] = j /\ sem[l] = "latch"
    BY DEF IInv, JobHoldsLocker
  <1> QED
    BY <1>1

(* The inductive step, one case per action. *)
LEMMA NextIInv == IInv /\ [Next]_vars => IInv'
  <1> SUFFICES ASSUME IInv, [Next]_vars PROVE IInv'
    OBVIOUS
  <1> USE DEF IInv
  <1>1. CASE Lock
    <2>1. PICK l \in Lockers : Construct(l, "main")
      BY <1>1 DEF Lock
    <2>2. avail = N - Cardinality(Held)
      BY <1>1 DEF Lock, Counted
    <2>3. TypeOK' /\ Counted'
      BY <1>1, <2>1, <2>2, ConstructCounts DEF Lock, TypeOK, Counted
    <2>4. \A k \in Lockers : k # l => sem'[k] = sem[k] /\ owner'[k] = owner[k]
      BY <2>1, <2>2, ConstructCounts
    <2>5. sem[l] = "unborn"
      BY <2>1 DEF Construct
    <2>6. JobHoldsLocker'
      BY <1>1, <2>4, <2>5, KeepsJobs DEF Lock
    <2> QED
      BY <2>3, <2>6
  <1>2. CASE Pass
    <2>1. PICK l \in Lockers, m \in Lockers :
             \/ owner[l] \in {"main", "temporary"} /\ Copy(l, m, "temporary")
             \/ owner[l] = "temporary" /\ Move(l, m, "temporary")
      BY <1>2 DEF Pass
    <2>2. avail = N - Cardinality(Held) /\ main = "run" /\ UNCHANGED <<main, job>>
      BY <1>2 DEF Pass, Counted
    <2>3. CASE Copy(l, m, "temporary")
      <3>1. Construct(m, "temporary")
        BY <2>3 DEF Copy
      <3>2. TypeOK' /\ Counted'
        BY <2>2, <3>1, ConstructCounts DEF TypeOK, Counted
      <3>3. \A k \in Lockers : k # m => sem'[k] = sem[k] /\ owner'[k] = owner[k]
        BY <2>2, <3>1, ConstructCounts
      <3>4. sem[m] = "unborn"
        BY <3>1 DEF Construct
      <3>5. JobHoldsLocker'
        BY <2>2, <3>3, <3>4, KeepsJobs
      <3> QED
        BY <3>2, <3>5
    <2>4. CASE owner[l] = "temporary" /\ Move(l, m, "temporary")
      <3>1. TypeOK' /\ Counted'
        BY <2>2, <2>4, MoveCounts DEF TypeOK, Counted
      <3>2. \A k \in Lockers : k # l /\ k # m => sem'[k] = sem[k] /\ owner'[k] = owner[k]
        BY <2>2, <2>4, MoveCounts
      <3>3. sem[m] = "unborn" /\ owner[l] \notin Jobs
        BY <2>4, LockersAssumption DEF Move
      <3>4. JobHoldsLocker'
        BY <2>2, <3>2, <3>3, KeepsJobs
      <3> QED
        BY <3>1, <3>4
    <2> QED
      BY <2>1, <2>3, <2>4
  <1>3. ASSUME NEW j \in Jobs, Run(j) PROVE IInv'
    <2>1. PICK l \in Lockers, m \in Lockers :
             \/ owner[l] \in {"main", "temporary"} /\ Copy(l, m, j)
             \/ owner[l] = "temporary" /\ Move(l, m, j)
      BY <1>3 DEF Run
    <2>2. /\ avail = N - Cardinality(Held) /\ main = "run" /\ main' = main
          /\ job' = [job EXCEPT ![j] = "queued"]
      BY <1>3 DEF Run, Counted
    <2>3. /\ TypeOK' /\ Counted'
          /\ sem'[m] = "latch" /\ owner'[m] = j
          /\ \A k \in Lockers : sem[k] = "latch" /\ owner[k] \in Jobs
                                => sem'[k] = "latch" /\ owner'[k] = owner[k]
      <3>1. CASE Copy(l, m, j)
        <4>1. Construct(m, j) /\ sem[m] = "unborn"
          BY <3>1 DEF Copy, Construct
        <4>2. TypeOK' /\ Counted'
          BY <2>2, <4>1, ConstructCounts DEF TypeOK, Counted
        <4> QED
          BY <2>2, <4>1, <4>2, ConstructCounts
      <3>2. CASE owner[l] = "temporary" /\ Move(l, m, j)
        <4>1. sem[m] = "unborn" /\ owner[l] \notin Jobs
          BY <3>2, LockersAssumption DEF Move
        <4>2. TypeOK' /\ Counted'
          BY <2>2, <3>2, MoveCounts DEF TypeOK, Counted
        <4> QED
          BY <2>2, <3>2, <4>1, <4>2, MoveCounts
      <3> QED
        BY <2>1, <3>1, <3>2
    <2>4. JobHoldsLocker'
      <3> SUFFICES ASSUME NEW i \in Jobs, job'[i] \in {"queued", "working", "unwinding"}
                   PROVE  \E k \in Lockers : owner'[k] = i /\ sem'[k] = "latch"
        BY DEF JobHoldsLocker
      <3>1. CASE i = j
        BY <2>3, <3>1
      <3>2. CASE i # j
        BY <2>2, <2>3, <3>2 DEF JobHoldsLocker, TypeOK
      <3> QED
        BY <3>1, <3>2
    <2> QED
      BY <2>3, <2>4
  <1>4. CASE Started
    <2>1. TypeOK' /\ Counted'
      BY <1>4 DEF Started, TypeOK, Counted, Held
    <2>2. JobHoldsLocker'
      BY <1>4, KeepsJobs DEF Started
    <2> QED
      BY <2>1, <2>2
  <1>5. CASE DropLocal
    <2>1. PICK l \in Lockers : owner[l] \in {"main", "temporary"} /\ Destroy(l)
      BY <1>5 DEF DropLocal
    <2>2. avail = N - Cardinality(Held) /\ main = "return" /\ UNCHANGED <<main, job>>
      BY <1>5 DEF DropLocal, Counted
    <2>3. TypeOK' /\ Counted'
      BY <2>1, <2>2, DestroyCounts DEF TypeOK, Counted
    <2>4. owner[l] \notin Jobs
      BY <2>1, LockersAssumption
    <2>5. JobHoldsLocker'
      BY <2>1, <2>2, <2>4, DestroyCounts, KeepsJobs
    <2> QED
      BY <2>3, <2>5
  <1>6. CASE Leave
    <2>1. TypeOK' /\ Counted'
      BY <1>6 DEF Leave, TypeOK, Counted, Held
    <2>2. JobHoldsLocker'
      BY <1>6, KeepsJobs DEF Leave
    <2> QED
      BY <2>1, <2>2
  <1>7. CASE Drain
    <2>1. avail = N - Cardinality(Held) /\ avail = N /\ avail' = 0
      BY <1>7, NAssumption DEF Drain, Acquire, Counted, TypeOK
    <2>2. IsFiniteSet(Held) /\ Cardinality(Held) \in Nat
      BY LockersAssumption, FS_Subset, FS_CardinalityType DEF Held
    <2>3. Held = {}
      BY <2>1, <2>2, NAssumption, FS_EmptySet
    <2>4. TypeOK' /\ Counted'
      BY <1>7, <2>1, <2>3, NAssumption DEF Drain, TypeOK, Counted, Held
    <2>5. JobHoldsLocker'
      BY <1>7, KeepsJobs DEF Drain
    <2> QED
      BY <2>4, <2>5
  <1>8. CASE Refill
    <2>1. TypeOK' /\ Counted'
      BY <1>8, NAssumption DEF Refill, Release, TypeOK, Counted, Held
    <2>2. JobHoldsLocker'
      BY <1>8, KeepsJobs DEF Refill
    <2> QED
      BY <2>1, <2>2
  <1>9. ASSUME NEW j \in Jobs, Begin(j) \/ End(j) PROVE IInv'
    <2>1. TypeOK' /\ Counted'
      BY <1>9 DEF Begin, End, TypeOK, Counted, Held
    <2>2. JobHoldsLocker'
      BY <1>9 DEF Begin, End, JobHoldsLocker, TypeOK
    <2> QED
      BY <2>1, <2>2
  <1>10. ASSUME NEW j \in Jobs, DropFunctor(j) PROVE IInv'
    <2>1. PICK l \in Lockers : owner[l] = j /\ Destroy(l)
      BY <1>10 DEF DropFunctor
    <2>2. job[j] = "unwinding" /\ job' = [job EXCEPT ![j] = "done"] /\ main' = main
      BY <1>10 DEF DropFunctor
    <2>3. Held # {}
      BY <2>2 DEF JobHoldsLocker, Held
    <2>4. main \notin {"draining", "gone"} /\ avail = N - Cardinality(Held)
      BY <2>3 DEF Counted
    <2>5. TypeOK' /\ Counted'
      BY <2>1, <2>2, <2>4, DestroyCounts DEF TypeOK, Counted
    <2>6. JobHoldsLocker'
      <3> SUFFICES ASSUME NEW i \in Jobs, job'[i] \in {"queued", "working", "unwinding"}
                   PROVE  \E k \in Lockers : owner'[k] = i /\ sem'[k] = "latch"
        BY DEF JobHoldsLocker
      <3>1. i # j /\ job[i] \in {"queued", "working", "unwinding"}
        BY <2>2 DEF TypeOK
      <3>2. PICK k \in Lockers : owner[k] = i /\ sem[k] = "latch"
        BY <3>1 DEF JobHoldsLocker
      <3>3. k # l
        BY <2>1, <3>1, <3>2
      <3> QED
        BY <2>1, <2>4, <3>2, <3>3, DestroyCounts
    <2> QED
      BY <2>5, <2>6
  <1>11. CASE UNCHANGED vars
    BY <1>11 DEF vars, TypeOK, Counted, JobHoldsLocker, Held
  <1> QED
    BY <1>1, <1>2, <1>3, <1>4, <1>5, <1>6, <1>7, <1>8, <1>9, <1>10, <1>11
       DEF Next, Main, Pool, Terminated

-----------------------------------------------------------------------------
(* In every behaviour of the latch and its user, IInv holds throughout.    *)
THEOREM AlwaysIInv == Spec => []IInv
  <1> QED
    BY InitIInv, NextIInv, PTL DEF Spec

(* The semaphore never leaves its range, and every locker is in one of its *)
(* four conditions.                                                        *)
THEOREM TypeCorrect == Spec => []TypeOK
  <1>1. IInv => TypeOK
    BY DEF IInv
  <1> QED
    BY <1>1, AlwaysIInv, PTL

(* What is available plus the number of live lockers is the capacity.      *)
THEOREM SemaphoreCounts == Spec => []Counted
  <1>1. IInv => Counted
    BY DEF IInv
  <1> QED
    BY <1>1, AlwaysIInv, PTL

(* No job is queued or at work on an object whose destructor got through.  *)
THEOREM JobsAreOutlived == Spec => []NoJobOutlivesObject
  <1>1. IInv => NoJobOutlivesObject
    <2> SUFFICES ASSUME IInv, NEW j \in Jobs, job[j] \in {"queued", "working"}
                 PROVE  main \notin {"draining", "gone"}
      BY DEF NoJobOutlivesObject
    <2>1. Held # {}
      BY DEF IInv, JobHoldsLocker, Held
    <2> QED
      BY <2>1 DEF IInv, Counted
  <1> QED
    BY <1>1, AlwaysIInv, PTL

-----------------------------------------------------------------------------
(* Every step of the latch is a step of PinnedObject or leaves it alone.   *)
LEMMA StepRefines == IInv /\ IInv' /\ [Next]_vars => [Abstract!Next]_(Abstract!vars)
  <1> SUFFICES ASSUME IInv, IInv', [Next]_vars
               PROVE  [Abstract!Next]_(Abstract!vars)
    OBVIOUS
  <1> DEFINE alive == main \notin {"draining", "gone"}
  <1> USE DEF IInv
  <1>1. ASSUME NEW l \in Lockers, NEW o \in Jobs \cup {"main", "temporary"}, Construct(l, o),
               alive, alive'
        PROVE  Abstract!Pin(l)
    <2>1. avail = N - Cardinality(Held)
      BY <1>1 DEF Counted
    <2>2. l \notin Held /\ Held' = Held \cup {l}
      BY <1>1, <2>1, ConstructCounts
    <2> QED
      BY <1>1, <2>2 DEF Abstract!Pin
  <1>2. ASSUME NEW l \in Lockers, NEW m \in Lockers, NEW o \in Jobs \cup {"main", "temporary"},
               Move(l, m, o), alive, alive'
        PROVE  Abstract!Handover(l, m)
    <2>1. avail = N - Cardinality(Held)
      BY <1>2 DEF Counted
    <2>2. l \in Held /\ m \notin Held /\ Held' = (Held \ {l}) \cup {m}
      BY <1>2, <2>1, MoveCounts
    <2> QED
      BY <1>2, <2>2 DEF Abstract!Handover
  <1>3. ASSUME NEW l \in Lockers, Destroy(l), alive' = alive
        PROVE  Abstract!Unpin(l) \/ UNCHANGED Abstract!vars
    <2>1. Held' = Held \ {l}
      BY <1>3 DEF Destroy, Held, TypeOK
    <2> QED
      BY <1>3, <2>1 DEF Abstract!Unpin, Abstract!vars
  <1>4. CASE Lock
    BY <1>1, <1>4 DEF Lock, Abstract!Next
  <1>5. CASE Pass
    <2>1. PICK l \in Lockers, m \in Lockers :
             Construct(m, "temporary") \/ Move(l, m, "temporary")
      BY <1>5 DEF Pass, Copy
    <2>2. alive /\ alive'
      BY <1>5 DEF Pass
    <2> QED
      BY <1>1, <1>2, <2>1, <2>2 DEF Abstract!Next
  <1>6. ASSUME NEW j \in Jobs, Run(j) PROVE Abstract!Next
    <2>1. PICK l \in Lockers, m \in Lockers : Construct(m, j) \/ Move(l, m, j)
      BY <1>6 DEF Run, Copy
    <2>2. alive /\ alive'
      BY <1>6 DEF Run
    <2> QED
      BY <1>1, <1>2, <2>1, <2>2 DEF Abstract!Next
  <1>7. CASE DropLocal
    BY <1>3, <1>7 DEF DropLocal, Abstract!Next
  <1>8. ASSUME NEW j \in Jobs, DropFunctor(j) PROVE [Abstract!Next]_(Abstract!vars)
    BY <1>3, <1>8 DEF DropFunctor, Abstract!Next
  <1>9. CASE Drain
    <2>1. Held' = {} /\ Held = Held'
      BY <1>9 DEF Drain, Counted, Held
    <2>2. Abstract!GiveUp
      BY <1>9, <2>1 DEF Drain, Abstract!GiveUp
    <2> QED
      BY <2>2 DEF Abstract!Next
  <1>10. CASE Started \/ Leave \/ Refill \/ (\E j \in Jobs : Begin(j) \/ End(j)) \/ UNCHANGED vars
    BY <1>10 DEF Started, Leave, Refill, Begin, End, vars, Held, Abstract!vars
  <1> QED
    BY <1>4, <1>5, <1>6, <1>7, <1>8, <1>9, <1>10 DEF Next, Main, Pool, Terminated

(* The latch implements PinnedObject: it is given up once, with no pin on it. *)
THEOREM LatchRefines == Spec => PinsKeepAlive
  <1>1. Init => Abstract!Init
    BY DEF Init, Held, Abstract!Init
  <1> QED
    BY <1>1, StepRefines, AlwaysIInv, PTL DEF Spec, PinsKeepAlive, Abstract!Spec
=============================================================================
