--------------------------- MODULE CountDownLatch ---------------------------
(***************************************************************************)
(* CountDownLatch of questions/countdown-latch-38362044 and the class      *)
(* MyClass that uses it: the constructor of MyClass locks the latch, gives *)
(* a copy of the lock to every job it starts in the thread pool, and the   *)
(* destructor of the latch waits until the last copy is gone.              *)
(*                                                                         *)
(* A Locker is a value: it is created by lock(), copied into the functor,  *)
(* moved around by QtConcurrent::run, and destroyed with its owner.  The   *)
(* latch counts live lockers in a semaphore that starts full.              *)
(***************************************************************************)
EXTENDS Integers, FiniteSets

CONSTANTS
    N,          \* the capacity of the semaphore, INT_MAX in the code
    Lockers,    \* the Locker objects that may exist during one run
    Jobs        \* the functors MyClass hands to the thread pool

ASSUME NAssumption == N \in Nat \ {0}
ASSUME LockersAssumption == IsFiniteSet(Lockers) /\ Jobs \cap {"main", "temporary"} = {}

VARIABLES
    avail,      \* what QSemaphore m_sem has available
    sem,        \* sem[l]: locker l is "unborn", points to the "latch", was moved from ("null"), or is "dead"
    owner,      \* owner[l]: the frame or functor that holds locker l: "main", "temporary" or a job
    main,       \* main thread: "lock", "run", "return" in MyClass(), then "dtor", "draining", "gone"
    job         \* job[j]: "idle", "queued", "working", "unwinding", "done"

vars == <<avail, sem, owner, main, job>>

Held == {l \in Lockers : sem[l] = "latch"}

Init == /\ avail = N
        /\ sem = [l \in Lockers |-> "unborn"]
        /\ owner = [l \in Lockers |-> "main"]
        /\ main = "lock"
        /\ job = [j \in Jobs |-> "idle"]

-----------------------------------------------------------------------------
(* QSemaphore, modelled from its use: acquire blocks until enough is free. *)
Acquire(n) == avail >= n /\ avail' = avail - n
Release(n) == avail' = avail + n

(* Locker(latch pointer): a new locker takes one unit. *)
Construct(l, o) == /\ sem[l] = "unborn"
                   /\ Acquire(1)
                   /\ sem' = [sem EXCEPT ![l] = "latch"]
                   /\ owner' = [owner EXCEPT ![l] = o]

(* Locker(const Locker &): a copy takes one unit more. *)
Copy(l, m, o) == sem[l] = "latch" /\ Construct(m, o)

(* A move that forgets to clear the source: both release in the end. *)
MoveKeepsSource(l, m, o) == /\ sem[l] = "latch"
                            /\ sem[m] = "unborn"
                            /\ sem' = [sem EXCEPT ![m] = "latch"]
                            /\ owner' = [owner EXCEPT ![m] = o]
                            /\ UNCHANGED avail

(* Locker(Locker &&): the new locker takes over the unit of the old one. *)
Move(l, m, o) == /\ sem[l] = "latch"
                 /\ sem[m] = "unborn"
                 /\ sem' = [sem EXCEPT ![l] = "null", ![m] = "latch"]
                 /\ owner' = [owner EXCEPT ![m] = o]
                 /\ UNCHANGED avail

(* A destructor that never gives its unit back. *)
DestroyLeaks(l) == /\ sem[l] \in {"latch", "null"}
                   /\ sem' = [sem EXCEPT ![l] = "dead"]
                   /\ UNCHANGED <<avail, owner>>

(* ~Locker(): a locker that was moved from releases nothing. *)
Destroy(l) == /\ sem[l] \in {"latch", "null"}
              /\ sem' = [sem EXCEPT ![l] = "dead"]
              /\ IF sem[l] = "latch" THEN Release(1) ELSE UNCHANGED avail
              /\ UNCHANGED owner

-----------------------------------------------------------------------------
(* auto lock = m_latch.lock(); *)
Lock == /\ main = "lock"
        /\ \E l \in Lockers : Construct(l, "main")
        /\ main' = "run"
        /\ UNCHANGED job

Unborn == {l \in Lockers : sem[l] = "unborn"}
Idle == {j \in Jobs : job[j] = "idle"}

(* [this, lock]{...} copies the local lock into a functor, and on the way  *)
(* into the pool the functor is copied or moved any number of times.  The  *)
(* guard is a bound of the model: a locker is left for each job to come.   *)
Pass == /\ main = "run"
        /\ Cardinality(Unborn) > 1 + Cardinality(Idle)
        /\ \E l, m \in Lockers : \/ owner[l] = "main" /\ Copy(l, m, "temporary")
                                 \/ owner[l] = "temporary" /\ Copy(l, m, "temporary")
                                 \/ owner[l] = "temporary" /\ Move(l, m, "temporary")
        /\ UNCHANGED <<main, job>>

(* A job that is queued with no lock of its own. *)
RunUnlocked(j) == /\ main = "run"
                  /\ job[j] = "idle"
                  /\ job' = [job EXCEPT ![j] = "queued"]
                  /\ UNCHANGED <<avail, sem, owner, main>>

(* QtConcurrent::run: the functor stored in the pool has its own locker.   *)
Run(j) == /\ main = "run"
          /\ job[j] = "idle"
          /\ \E l, m \in Lockers : \/ owner[l] \in {"main", "temporary"} /\ Copy(l, m, j)
                                   \/ owner[l] = "temporary" /\ Move(l, m, j)
          /\ job' = [job EXCEPT ![j] = "queued"]
          /\ UNCHANGED main

Started == /\ main = "run"
           /\ Idle = {}
           /\ main' = "return"
           /\ UNCHANGED <<avail, sem, owner, job>>

LiveIn(o) == {l \in Lockers : owner[l] = o /\ sem[l] \in {"latch", "null"}}

(* The temporaries are destroyed, and after them the local lock.           *)
DropLocal == /\ main = "return"
             /\ \E l \in Lockers : /\ \/ owner[l] = "temporary"
                                      \/ owner[l] = "main" /\ LiveIn("temporary") = {}
                                   /\ Destroy(l)
             /\ UNCHANGED <<main, job>>

(* The frame of MyClass() is gone; main() returns, and a is destroyed. *)
Leave == /\ main = "return"
         /\ LiveIn("temporary") = {} /\ LiveIn("main") = {}
         /\ main' = "dtor"
         /\ UNCHANGED <<avail, sem, owner, job>>

(* ~CountDownLatch(): m_sem.acquire(INT_MAX), then m_sem.release(INT_MAX). *)
Drain == /\ main = "dtor"
         /\ Acquire(N)
         /\ main' = "draining"
         /\ UNCHANGED <<sem, owner, job>>

Refill == /\ main = "draining"
          /\ Release(N)
          /\ main' = "gone"
          /\ UNCHANGED <<sem, owner, job>>

(* The pool: the functor uses *this while it works, and is deleted after.  *)
Begin(j) == /\ job[j] = "queued"
            /\ job' = [job EXCEPT ![j] = "working"]
            /\ UNCHANGED <<avail, sem, owner, main>>

End(j) == /\ job[j] = "working"
          /\ job' = [job EXCEPT ![j] = "unwinding"]
          /\ UNCHANGED <<avail, sem, owner, main>>

DropFunctor(j) == /\ job[j] = "unwinding"
                  /\ \E l \in Lockers : owner[l] = j /\ Destroy(l)
                  /\ job' = [job EXCEPT ![j] = "done"]
                  /\ UNCHANGED main

Terminated == main = "gone" /\ UNCHANGED vars

Main == Lock \/ Pass \/ (\E j \in Jobs : Run(j)) \/ Started \/ DropLocal \/ Leave \/ Drain \/ Refill
Pool(j) == Begin(j) \/ End(j) \/ DropFunctor(j)

Next == Main \/ (\E j \in Jobs : Pool(j)) \/ Terminated

Spec == Init /\ [][Next]_vars

(* The main thread runs on, and the pool runs every job that was queued.   *)
FairSpec == Spec /\ WF_vars(Main) /\ \A j \in Jobs : WF_vars(Pool(j))

-----------------------------------------------------------------------------
TypeOK == /\ avail \in 0..N
          /\ sem \in [Lockers -> {"unborn", "latch", "null", "dead"}]
          /\ owner \in [Lockers -> Jobs \cup {"main", "temporary"}]
          /\ main \in {"lock", "run", "return", "dtor", "draining", "gone"}
          /\ job \in [Jobs -> {"idle", "queued", "working", "unwinding", "done"}]

(* The comments at lines 30 and 32 of main.cpp: as long as a job is queued *)
(* or at work on *this, the latch has not let the destructor through, so   *)
(* the object the job uses still exists.                                   *)
NoJobOutlivesObject ==
    \A j \in Jobs : job[j] \in {"queued", "working"} => main \notin {"draining", "gone"}

(* The semaphore counts exactly the lockers that still point to the latch. *)
Counted ==
    /\ main \notin {"draining", "gone"} => avail = N - Cardinality(Held)
    /\ main = "draining" => avail = 0 /\ Held = {}
    /\ main = "gone" => avail = N /\ Held = {}

(* ~CountDownLatch() returns once it is entered: every job ends, and the   *)
(* last locker to go leaves the semaphore full again.                      *)
DestructorReturns == (main = "dtor") ~> (main = "gone")

(* The latch keeps the object pinned as PinnedObject promises.             *)
Abstract == INSTANCE PinnedObject WITH
               Pins <- Lockers, pinned <- Held, alive <- (main \notin {"draining", "gone"})

PinsKeepAlive == Abstract!Spec
=============================================================================
