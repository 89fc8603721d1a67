-------------------------- MODULE MCCountDownLatch --------------------------
(* A latch with two jobs and five lockers: the lock of the constructor,    *)
(* one stored functor per job, and two temporaries of the calls.  N only   *)
(* has to exceed the number of lockers, as INT_MAX does in the code.       *)
EXTENDS CountDownLatch, CountDownLatch_proofs
=============================================================================
