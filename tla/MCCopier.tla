------------------------------ MODULE MCCopier ------------------------------
(* One copier, and callers that use its public slots in any order, from    *)
(* any thread, as the comments on pause(), resume() and stop() allow.      *)
EXTENDS Copier

Init == CopierInit

Call(u) == \/ \E c \in Copiers : job[c] # "none" /\ pauseBy(u, c)
           \/ \E c \in Copiers, next \in {"clear", "clear to stop"} :
                 job[c] # "none" /\ resumeBy(u, c, next)
Proceed(u) == ClearPause(u) \/ SetStop(u)
Pool(c) == Work(c) \/ EmitFinished(c)

Next == \/ \E c \in Copiers : copy(c) \/ Pool(c)
        \/ \E u \in Callers : Call(u) \/ Proceed(u)

(* A thread that has begun a call goes on with it, and so does the pool.   *)
FairSpec == /\ Init
            /\ [][Next]_copierVars
            /\ \A u \in Callers : WF_copierVars(Proceed(u))
            /\ \A c \in Copiers : WF_copierVars(Pool(c))

(* main.cpp:60 and 69, "This method is thread-safe": a copy that was       *)
(* stopped comes to its end, unless it is paused again.                    *)
StopTakesEffect ==
    \A c \in Copiers : (stop[c] /\ ~pause[c]) ~> (job[c] = "finished" \/ pause[c])
=============================================================================
