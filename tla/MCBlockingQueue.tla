--------------------------- MODULE MCBlockingQueue ---------------------------
(***************************************************************************)
(* Instances of BlockingQueue for TLC.  The threads are those of the code: *)
(* posters and workers of a pool, and the thread that shuts it down.       *)
(***************************************************************************)
EXTENDS BlockingQueue, TLC

CONSTANTS p1, p2, c1, c2, k

\* Two pushers, one consumer of each kind, and a closer: every operation.
AllRoles == p1 :> {"push"} @@ p2 :> {"push", "tryPush"}
            @@ c1 :> {"pop", "tryFlush", "flush"} @@ c2 :> {"timedPop", "tryPop", "timedFlush"}
            @@ k :> {"close"}

\* Two pushers and two sleepers that nobody closes: only notify_one wakes them.
PlainRoles == p1 :> {"push"} @@ p2 :> {"tryPush"} @@ c1 :> {"pop"} @@ c2 :> {"pop", "flush"}

\* The shutdown of a pool: one poster, one worker, the thread in stop().
StopRoles == p1 :> {"push"} @@ c1 :> {"pop"} @@ k :> {"close"}
=============================================================================
