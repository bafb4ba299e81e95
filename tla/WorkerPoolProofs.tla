-------------------------- MODULE WorkerPoolProofs --------------------------
(***************************************************************************)
(* Theorems about WorkerPool, for any finite set of threads outside the    *)
(* pool, any roles, sizes and bounds.                                      *)
(***************************************************************************)
EXTENDS WorkerPool, TLAPS, FiniteSetTheorems

\* The constructor's workers are in the map, run, and are all there is to count.
LEMMA PoolInvInit == Init => PoolInv
<1> SUFFICES ASSUME Init PROVE PoolInv
    OBVIOUS
<1> USE DEF Init
<1>1. NumWorkers \in Nat /\ MaxIds \in Nat /\ NumWorkers <= MaxIds
    BY SizesAssumption
<1>2. \A t \in Threads : pc[t] \in {"out", "test", "unborn"}
    OBVIOUS
<1>3. Holders = {} /\ BookKeepers = {}
    BY <1>2 DEF Holders, BookKeepers
<1>4. TypeOK
  <2>1. dead \in Seq(Ids) /\ workers \in SUBSET Ids /\ running \in [Ids -> BOOLEAN]
      BY <1>1 DEF Ids
  <2>2. pc \in [Threads -> {"out"} \cup RunLabels \cup PostLabels \cup ResizeLabels \cup StopLabels]
      BY <1>2 DEF RunLabels
  <2>3. held \in [Threads -> Ids \cup {None}] /\ goal \in [Users -> Nat] /\ left \in [Users -> Int]
      OBVIOUS
  <2>4. posts \in 0..MaxPosts /\ resizes \in 0..MaxResizes
      BY SizesAssumption
  <2>5. messages \in Nat /\ opened \in BOOLEAN /\ lock \in Users \cup {None}
      OBVIOUS
  <2>6. count \in Nat /\ lastId \in 0..MaxIds
      BY <1>1
  <2> HIDE DEF Init
  <2> QED BY <2>1, <2>2, <2>3, <2>4, <2>5, <2>6 DEF TypeOK
<1>5. IdsInv
  <2>1. \A i \in Ids : i \in Nat /\ pc[i] = IF i <= NumWorkers THEN "test" ELSE "unborn"
      BY <1>1, NoneAssumption DEF Ids, Threads
  <2>2. lastId = NumWorkers /\ workers \subseteq 1..lastId
      OBVIOUS
  <2>3. \A i \in Ids : running[i] => i <= NumWorkers
      OBVIOUS
  <2> HIDE DEF Init
  <2> QED BY <1>1, <2>1, <2>2, <2>3 DEF IdsInv
<1>6. HandInv
    BY <1>3 DEF HandInv
<1>7. JoinedOnce
  <2>1. \A i \in Ids \ workers : pc[i] = "unborn"
      BY NoneAssumption DEF Ids, Threads
  <2> QED BY <1>2, <2>1 DEF JoinedOnce
<1>8. CountIsExact
  <2>1. Cardinality(1..NumWorkers) = NumWorkers
      BY <1>1, FS_Interval
  <2>2. Cardinality(BookKeepers) = 0
      BY <1>3, FS_EmptySet
  <2> QED BY <1>1, <2>1, <2>2 DEF CountIsExact
<1>9. StopInv
    BY <1>2 DEF StopInv, StopLabels, Threads
<1> QED BY <1>4, <1>5, <1>6, <1>7, <1>8, <1>9 DEF PoolInv

-----------------------------------------------------------------------------
(* Steps that leave the map, the flags and the dead alone *)

\* The labels the invariant speaks of, outside stop()
Marked == {"unborn", "push", "ending", "ended", "bkErase", "bkJoin", "bkCount", "stLock", "stJoin"}

\* A step of one thread between two labels that say nothing about ids.
LEMMA QuietInv ==
  ASSUME PoolInv, NEW t \in Threads, NEW l, Goto(t, l), pc[t] \notin Marked, l \notin Marked,
         UNCHANGED <<dead, workers, running, count, lastId, held>>
  PROVE  IdsInv' /\ HandInv' /\ JoinedOnce' /\ CountIsExact' /\ BookKeepers' = BookKeepers
<1> USE DEF PoolInv, Goto, Marked
<1>1. pc' = [pc EXCEPT ![t] = l] /\ pc \in [Threads -> {pc[u] : u \in Threads}]
    BY DEF TypeOK
<1>2. \A u \in Threads : pc'[u] = pc[u] \/ (u = t /\ pc[u] \notin Marked /\ pc'[u] \notin Marked)
    BY <1>1
<1>3. Holders' = Holders /\ BookKeepers' = BookKeepers
    BY <1>2 DEF Holders, BookKeepers
<1>4. Ids \subseteq Threads
    BY DEF Threads
<1>5. IdsInv'
    BY <1>2, <1>4 DEF IdsInv
<1>6. HandInv'
  <2>1. \A i \in Ids : pc[i] \in {"ending", "ended"} => pc'[i] = pc[i]
      BY <1>2, <1>4
  <2>2. \A k \in DOMAIN dead : dead[k] \in Ids
      BY DEF TypeOK
  <2> QED BY <1>3, <2>1, <2>2 DEF HandInv
<1>7. JoinedOnce'
  <2>1. \A u \in Threads : pc'[u] \in Marked => pc'[u] = pc[u]
      BY <1>2
  <2>2. \A u \in Holders : held[u] \in Ids /\ pc[held[u]] = pc'[held[u]]
      BY <1>2, <1>4 DEF HandInv
  <2>3. \A i \in Ids : pc[i] \in {"unborn", "ended"} => pc'[i] = pc[i]
      BY <1>2, <1>4
  <2> QED BY <1>3, <2>1, <2>2, <2>3 DEF JoinedOnce, Holders
<1>8. CountIsExact'
    BY <1>3 DEF CountIsExact
<1> QED BY <1>3, <1>5, <1>6, <1>7, <1>8

\* A step that calls no operation of stop() and does not end one keeps StopInv.
LEMMA StopKeeps ==
  ASSUME PoolInv, NEW t \in Threads, NEW l, Goto(t, l), opened' = opened,
         l # "stopped", t \in Users /\ l \in StopLabels => pc[t] \in StopLabels,
         t \in Users => l \in StopLabels \cup {"out"} \/ pc[t] \notin StopLabels \cup {"out"}
                        \/ opened \/ LateCalls,
         workers = {} /\ BookKeepers = {} =>
           (workers' = {} /\ BookKeepers' = {}) \/ LateCalls \/ opened
  PROVE  StopInv'
<1> USE DEF PoolInv, Goto
<1>1. \A u \in Users : u # t => pc'[u] = pc[u]
    BY DEF TypeOK, Threads
<1>2. t \in Users => pc'[t] = l
    BY DEF TypeOK
<1>3. \A u \in Users : pc'[u] \in StopLabels => ~opened'
    BY <1>1, <1>2 DEF StopInv
<1>4. ~LateCalls /\ ~opened' => \A u \in Users : pc'[u] \in StopLabels \cup {"out"}
    BY <1>1, <1>2 DEF StopInv
<1>5. ASSUME ~LateCalls, NEW u \in Users, pc'[u] = "stopped"
      PROVE  workers' = {} /\ BookKeepers' = {}
  <2>1. pc[u] = "stopped" /\ ~opened
      BY <1>1, <1>2, <1>5 DEF StopInv, StopLabels
  <2> QED BY <1>5, <2>1 DEF StopInv
<1> QED BY <1>3, <1>4, <1>5 DEF StopInv

-----------------------------------------------------------------------------
(* Worker::run *)

\* A worker that is in its loop is in the map, and nobody has its id.
LEMMA InLoop ==
  ASSUME PoolInv, NEW i \in Ids, pc[i] \notin {"unborn", "ending", "ended"}
  PROVE  /\ i \in workers
         /\ \A k \in DOMAIN dead : dead[k] # i
         /\ \A t \in Holders : held[t] # i
  BY DEF PoolInv, HandInv, JoinedOnce, BookKeepers, Holders

LEMMA TestRunningInv ==
  ASSUME PoolInv, NEW i \in Ids, TestRunning(i)
  PROVE  PoolInv'
<1> USE DEF TestRunning, poolVars, callVars
<1> DEFINE l == IF ToldToStop(i) THEN "push" ELSE "pop"
<1>1. i \in Threads /\ i \notin Users
    BY NoneAssumption DEF Threads, Ids
<1>2. TypeOK'
    BY <1>1 DEF PoolInv, TypeOK, Goto, RunLabels
<1>3. CASE ~ToldToStop(i)
  <2>1. IdsInv' /\ HandInv' /\ JoinedOnce' /\ CountIsExact' /\ BookKeepers' = BookKeepers
      BY <1>1, <1>3, QuietInv DEF Marked
  <2>2. StopInv'
      BY <1>1, <1>3, <2>1, StopKeeps
  <2> QED BY <1>2, <2>1, <2>2 DEF PoolInv
<1>4. CASE ToldToStop(i)
  <2>1. \A u \in Threads : pc'[u] = IF u = i THEN "push" ELSE pc[u]
      BY <1>1, <1>4 DEF PoolInv, TypeOK, Goto
  <2>2. Holders' = Holders /\ BookKeepers' = BookKeepers
      BY <2>1 DEF Holders, BookKeepers
  <2>3. /\ i \in workers
        /\ \A k \in DOMAIN dead : dead[k] # i
        /\ \A t \in Holders : held[t] # i
      BY InLoop
  <2>4. IdsInv'
      BY <1>4, <2>1 DEF PoolInv, IdsInv, ToldToStop, Threads
  <2>5. HandInv'
    <3>1. \A k \in DOMAIN dead : dead[k] \in Ids /\ dead[k] \in Threads
        BY DEF PoolInv, TypeOK, Threads
    <3> QED BY <2>1, <2>2, <2>3, <3>1 DEF PoolInv, HandInv, Threads
  <2>6. JoinedOnce'
      BY <2>1, <2>2, <2>3 DEF PoolInv, JoinedOnce, HandInv, Holders, Threads
  <2>7. CountIsExact'
      BY <2>2 DEF PoolInv, CountIsExact
  <2>8. StopInv'
      BY <1>1, <1>4, <2>2, StopKeeps
  <2> QED BY <1>2, <2>4, <2>5, <2>6, <2>7, <2>8 DEF PoolInv
<1> QED BY <1>3, <1>4

LEMMA PopMessageInv ==
  ASSUME PoolInv, NEW i \in Ids, PopMessage(i)
  PROVE  PoolInv'
<1> USE DEF PopMessage, poolVars, callVars
<1>1. i \in Threads /\ i \notin Users
    BY NoneAssumption DEF Threads, Ids
<1>2. PICK l \in {"treat", "test"} : Goto(i, l)
    OBVIOUS
<1>3. messages' \in Nat
    BY DEF PoolInv, TypeOK
<1>4. TypeOK'
    BY <1>1, <1>2, <1>3 DEF PoolInv, TypeOK, Goto, RunLabels
<1>5. IdsInv' /\ HandInv' /\ JoinedOnce' /\ CountIsExact' /\ BookKeepers' = BookKeepers
    BY <1>1, <1>2, QuietInv DEF Marked
<1>6. StopInv'
    BY <1>1, <1>2, <1>5, StopKeeps
<1> QED BY <1>4, <1>5, <1>6 DEF PoolInv

LEMMA FinishTreatInv ==
  ASSUME PoolInv, NEW i \in Ids, FinishTreat(i)
  PROVE  PoolInv'
<1> USE DEF FinishTreat, poolVars, callVars
<1>1. i \in Threads /\ i \notin Users
    BY NoneAssumption DEF Threads, Ids
<1>2. TypeOK'
    BY <1>1 DEF PoolInv, TypeOK, Goto, RunLabels
<1>3. IdsInv' /\ HandInv' /\ JoinedOnce' /\ CountIsExact' /\ BookKeepers' = BookKeepers
    BY <1>1, QuietInv DEF Marked
<1>4. StopInv'
    BY <1>1, <1>3, StopKeeps
<1> QED BY <1>2, <1>3, <1>4 DEF PoolInv

\* The id of a worker enters workers_to_destroy when it was nowhere else.
LEMMA PushDeadInv ==
  ASSUME PoolInv, NEW i \in Ids, PushDead(i)
  PROVE  PoolInv'
<1> USE DEF PushDead, poolVars, callVars
<1>1. i \in Threads /\ i \notin Users
    BY NoneAssumption DEF Threads, Ids
<1>2. /\ i \in workers
      /\ \A k \in DOMAIN dead : dead[k] # i
      /\ \A t \in Holders : held[t] # i
    BY InLoop
<1>3. \A u \in Threads : pc'[u] = IF u = i THEN "ending" ELSE pc[u]
    BY <1>1 DEF PoolInv, TypeOK, Goto
<1>4. Holders' = Holders /\ BookKeepers' = BookKeepers
    BY <1>3 DEF Holders, BookKeepers
<1>5. dead \in Seq(Ids) /\ dead' \in Seq(Ids)
    BY DEF PoolInv, TypeOK
<1>6. \A k \in DOMAIN dead' : (k \in DOMAIN dead /\ dead'[k] = dead[k]) \/ (k = Len(dead) + 1 /\ dead'[k] = i)
    BY <1>5
<1>7. TypeOK'
    BY <1>1, <1>5 DEF PoolInv, TypeOK, Goto, RunLabels
<1>8. IdsInv'
    BY <1>3 DEF PoolInv, IdsInv, Threads
<1>9. HandInv'
  <2>1. \A k \in DOMAIN dead : dead[k] \in Ids /\ dead[k] \in Threads
      BY DEF PoolInv, TypeOK, Threads
  <2>2. \A k \in DOMAIN dead' : dead'[k] \in workers /\ pc'[dead'[k]] \in {"ending", "ended"}
      BY <1>1, <1>2, <1>3, <1>6, <2>1 DEF PoolInv, HandInv
  <2>3. \A k, j \in DOMAIN dead' : dead'[k] = dead'[j] => k = j
      BY <1>2, <1>6 DEF PoolInv, HandInv
  <2>4. \A t \in Holders : held[t] \in Ids /\ pc'[held[t]] \in {"ending", "ended"}
      BY <1>2, <1>3 DEF PoolInv, HandInv, Threads
  <2>5. \A t \in Holders : \A k \in DOMAIN dead' : dead'[k] # held[t]
      BY <1>2, <1>6 DEF PoolInv, HandInv
  <2> QED BY <1>4, <2>2, <2>3, <2>4, <2>5 DEF PoolInv, HandInv
<1>10. JoinedOnce'
    BY <1>2, <1>3, <1>4 DEF PoolInv, JoinedOnce, HandInv, Holders, Threads
<1>11. CountIsExact'
    BY <1>4 DEF PoolInv, CountIsExact
<1>12. StopInv'
    BY <1>1, <1>4, StopKeeps
<1> QED BY <1>7, <1>8, <1>9, <1>10, <1>11, <1>12 DEF PoolInv

LEMMA EndInv ==
  ASSUME PoolInv, NEW i \in Ids, End(i)
  PROVE  PoolInv'
<1> USE DEF End, poolVars, callVars
<1>1. i \in Threads /\ i \notin Users
    BY NoneAssumption DEF Threads, Ids
<1>2. \A u \in Threads : pc'[u] = IF u = i THEN "ended" ELSE pc[u]
    BY <1>1 DEF PoolInv, TypeOK, Goto
<1>3. Holders' = Holders /\ BookKeepers' = BookKeepers
    BY <1>2 DEF Holders, BookKeepers
<1>4. TypeOK'
    BY <1>1 DEF PoolInv, TypeOK, Goto, RunLabels
<1>5. IdsInv'
    BY <1>2 DEF PoolInv, IdsInv, Threads
<1>6. HandInv'
  <2>1. \A k \in DOMAIN dead : dead[k] \in Ids /\ dead[k] \in Threads
      BY DEF PoolInv, TypeOK, Threads
  <2> QED BY <1>2, <1>3, <2>1 DEF PoolInv, HandInv, Threads
<1>7. JoinedOnce'
    BY <1>2, <1>3 DEF PoolInv, JoinedOnce, HandInv, Holders, Threads
<1>8. CountIsExact'
    BY <1>3 DEF PoolInv, CountIsExact
<1>9. StopInv'
    BY <1>1, <1>3, StopKeeps
<1> QED BY <1>4, <1>5, <1>6, <1>7, <1>8, <1>9 DEF PoolInv

-----------------------------------------------------------------------------
(* post *)

\* A thread that takes an id from workers_to_destroy is the only one to have it.
LEMMA TakeId ==
  ASSUME PoolInv, NEW t \in Threads, NEW l \in {"bkErase", "stLock"}, Goto(t, l),
         pc[t] \notin Marked, dead # <<>>, dead' = Tail(dead),
         held' = [held EXCEPT ![t] = Head(dead)],
         UNCHANGED <<workers, running, count, lastId>>
  PROVE  /\ dead' \in Seq(Ids) /\ held' \in [Threads -> Ids \cup {None}]
         /\ IdsInv' /\ HandInv' /\ JoinedOnce' /\ CountIsExact' /\ BookKeepers' = BookKeepers
<1> USE DEF Goto, Marked
<1>1. /\ dead \in Seq(Ids) /\ dead' \in Seq(Ids) /\ 1 \in DOMAIN dead /\ Head(dead) = dead[1]
      /\ \A k \in DOMAIN dead' : k + 1 \in DOMAIN dead /\ dead'[k] = dead[k + 1] /\ k \in Nat \ {0}
    BY DEF PoolInv, TypeOK
<1>2. dead[1] \in Ids /\ \A k \in DOMAIN dead' : dead'[k] \in Ids /\ dead'[k] # dead[1]
    BY <1>1 DEF PoolInv, HandInv
<1>3. \A u \in Threads : pc'[u] = IF u = t THEN l ELSE pc[u]
    BY DEF PoolInv, TypeOK
<1>4. held' \in [Threads -> Ids \cup {None}]
    BY <1>1, <1>2 DEF PoolInv, TypeOK
<1>5. \A u \in Threads : held'[u] = IF u = t THEN dead[1] ELSE held[u]
    BY <1>1 DEF PoolInv, TypeOK
<1>6. Holders' = Holders \cup {t} /\ t \notin Holders /\ BookKeepers' = BookKeepers
      /\ t \notin BookKeepers
    BY <1>3 DEF Holders, BookKeepers
<1>7. \A i \in Ids : i \in Threads /\ (pc[i] \in {"unborn", "push", "ending", "ended"} => pc'[i] = pc[i])
                     /\ (pc'[i] \in {"unborn", "push", "ending", "ended"} => pc'[i] = pc[i])
    BY <1>3 DEF Threads
<1>8. dead[1] \in workers /\ pc[dead[1]] \in {"ending", "ended"}
    BY <1>1 DEF PoolInv, HandInv
<1>9. IdsInv'
    BY <1>7 DEF PoolInv, IdsInv
<1>10. HandInv'
  <2>1. \A k \in DOMAIN dead' : dead'[k] \in workers /\ pc'[dead'[k]] \in {"ending", "ended"}
      BY <1>1, <1>2, <1>7 DEF PoolInv, HandInv
  <2>2. \A k, j \in DOMAIN dead' : dead'[k] = dead'[j] => k = j
    <3> TAKE k, j \in DOMAIN dead'
    <3> HAVE dead'[k] = dead'[j]
    <3>1. k + 1 = j + 1
        BY <1>1 DEF PoolInv, HandInv
    <3> QED BY <1>1, <3>1
  <2>3. \A u \in Holders' : held'[u] \in Ids /\ pc'[held'[u]] \in {"ending", "ended"}
      BY <1>2, <1>5, <1>6, <1>7, <1>8 DEF PoolInv, HandInv, Holders
  <2>4. \A u \in Holders' : \A k \in DOMAIN dead' : dead'[k] # held'[u]
      BY <1>1, <1>2, <1>5, <1>6 DEF PoolInv, HandInv, Holders
  <2>5. \A u, v \in Holders' : held'[u] = held'[v] => u = v
      BY <1>1, <1>5, <1>6 DEF PoolInv, HandInv, Holders
  <2>6. \A u \in BookKeepers : held'[u] = held[u]
      BY <1>5, <1>6 DEF BookKeepers
  <2> QED BY <1>6, <2>1, <2>2, <2>3, <2>4, <2>5, <2>6 DEF PoolInv, HandInv
<1>11. JoinedOnce'
  <2>1. \A u \in Threads : pc'[u] \in {"bkErase", "stLock", "stJoin"} => held'[u] \in workers
      BY <1>3, <1>5, <1>8 DEF PoolInv, JoinedOnce
  <2>2. \A u \in Threads : pc'[u] = "bkCount" => pc'[held'[u]] = "ended"
      BY <1>3, <1>5, <1>7 DEF PoolInv, JoinedOnce, HandInv, Holders
  <2>3. \A i \in Ids \ workers : pc'[i] \in {"unborn", "ended"} \/ \E u \in BookKeepers : held'[u] = i
    <3> TAKE i \in Ids \ workers
    <3>1. CASE pc[i] \in {"unborn", "ended"}
        BY <1>7, <3>1
    <3>2. CASE \E u \in BookKeepers : held[u] = i
        BY <1>5, <1>6, <3>2 DEF BookKeepers
    <3> QED BY <3>1, <3>2 DEF PoolInv, JoinedOnce
  <2>4. \A u \in Threads : pc'[u] \in {"bkJoin", "stJoin"} =>
                             ~running[held'[u]] /\ pc'[held'[u]] \in {"ending", "ended"}
      BY <1>3, <1>5, <1>7 DEF PoolInv, JoinedOnce, HandInv, Holders
  <2> QED BY <1>6, <2>1, <2>2, <2>3, <2>4 DEF JoinedOnce
<1>12. CountIsExact'
    BY <1>6 DEF PoolInv, CountIsExact
<1> QED BY <1>1, <1>4, <1>6, <1>9, <1>10, <1>11, <1>12

LEMMA PostInv ==
  ASSUME PoolInv, NEW t \in Threads, Post(t)
  PROVE  PoolInv'
<1> USE DEF Post, poolVars
<1>1. /\ pc[t] \in {"treat", "out"}
      /\ t \in Users => LateCalls \/ opened
    BY NoneAssumption DEF InTreat, MayCall, Ids
<1>2. posts' \in 0..MaxPosts
    BY SizesAssumption DEF PoolInv, TypeOK
<1>3. CASE /\ dead # <<>>
           /\ held' = [held EXCEPT ![t] = Head(dead)]
           /\ dead' = Tail(dead)
           /\ Goto(t, "bkErase")
  <2>1. /\ dead' \in Seq(Ids) /\ held' \in [Threads -> Ids \cup {None}]
        /\ IdsInv' /\ HandInv' /\ JoinedOnce' /\ CountIsExact' /\ BookKeepers' = BookKeepers
      BY <1>1, <1>3, TakeId DEF Marked
  <2>2. TypeOK'
      BY <1>2, <1>3, <2>1 DEF PoolInv, TypeOK, Goto, PostLabels
  <2>3. StopInv'
      BY <1>1, <1>3, <2>1, StopKeeps DEF StopLabels
  <2> QED BY <2>1, <2>2, <2>3 DEF PoolInv
<1>4. CASE Goto(t, "postTest") /\ UNCHANGED <<dead, held>>
  <2>1. IdsInv' /\ HandInv' /\ JoinedOnce' /\ CountIsExact' /\ BookKeepers' = BookKeepers
      BY <1>1, <1>4, QuietInv DEF Marked
  <2>2. TypeOK'
      BY <1>2, <1>4 DEF PoolInv, TypeOK, Goto, PostLabels
  <2>3. StopInv'
      BY <1>1, <1>4, <2>1, StopKeeps DEF StopLabels
  <2> QED BY <2>1, <2>2, <2>3 DEF PoolInv
<1> QED BY <1>3, <1>4

\* What CountIsExact counts is finite.
LEMMA Counted ==
  ASSUME PoolInv
  PROVE  /\ IsFiniteSet(workers) /\ Cardinality(workers) \in Nat
         /\ IsFiniteSet(BookKeepers) /\ Cardinality(BookKeepers) \in Nat
<1>1. IsFiniteSet(Ids)
  <2>1. MaxIds \in Int
      BY SizesAssumption
  <2> QED BY <2>1, FS_Interval DEF Ids
<1>2. IsFiniteSet(Threads)
    BY <1>1, UsersAssumption, FS_Union DEF Threads
<1>3. workers \subseteq Ids /\ BookKeepers \subseteq Threads
    BY DEF PoolInv, TypeOK, BookKeepers
<1> QED BY <1>1, <1>2, <1>3, FS_Subset, FS_CardinalityType

\* bookKeep() takes a worker out of the map; no other thread has its id.
LEMMA BkEraseInv ==
  ASSUME PoolInv, NEW t \in Threads, BkErase(t)
  PROVE  PoolInv'
<1> USE DEF BkErase, callVars
<1>1. t \in Holders /\ t \notin BookKeepers /\ held[t] \in workers
    BY DEF PoolInv, JoinedOnce, Holders, BookKeepers
<1>2. workers' = workers \ {held[t]} /\ Goto(t, "bkJoin")
    BY <1>1
<1>3. \A u \in Threads : pc'[u] = IF u = t THEN "bkJoin" ELSE pc[u]
    BY <1>2 DEF PoolInv, TypeOK, Goto
<1>4. Holders' = Holders /\ BookKeepers' = BookKeepers \cup {t}
    BY <1>1, <1>3 DEF Holders, BookKeepers
<1>5. \A i \in Ids : i \in Threads /\ (pc[i] \in {"unborn", "push", "ending", "ended"} => pc'[i] = pc[i])
                     /\ (pc'[i] \in {"unborn", "push", "ending", "ended"} => pc'[i] = pc[i])
    BY <1>1, <1>3 DEF Threads, Holders
<1>6. TypeOK'
    BY <1>2 DEF PoolInv, TypeOK, Goto, PostLabels
<1>7. IdsInv'
    BY <1>2, <1>5 DEF PoolInv, IdsInv
<1>8. HandInv'
  <2>1. \A k \in DOMAIN dead : dead[k] \in Ids
      BY DEF PoolInv, TypeOK
  <2>2. \A k \in DOMAIN dead : dead[k] \in workers' /\ pc'[dead[k]] \in {"ending", "ended"}
      BY <1>1, <1>2, <1>5, <2>1 DEF PoolInv, HandInv
  <2>3. \A u \in Holders : held[u] \in Ids /\ pc'[held[u]] \in {"ending", "ended"}
      BY <1>5 DEF PoolInv, HandInv
  <2>4. \A u \in BookKeepers' : held[u] \notin workers'
      BY <1>2, <1>4 DEF PoolInv, HandInv
  <2> QED BY <1>4, <2>2, <2>3, <2>4 DEF PoolInv, HandInv
<1>9. JoinedOnce'
  <2>1. \A u \in Threads : pc'[u] \in {"bkErase", "stLock", "stJoin"} => held[u] \in workers'
      BY <1>1, <1>2, <1>3 DEF PoolInv, JoinedOnce, HandInv, Holders
  <2>2. \A u \in Threads : pc'[u] = "bkCount" => pc'[held[u]] = "ended"
      BY <1>3, <1>5 DEF PoolInv, JoinedOnce, HandInv, Holders
  <2>3. \A i \in Ids \ workers' : pc'[i] \in {"unborn", "ended"} \/ \E u \in BookKeepers' : held[u] = i
      BY <1>2, <1>4, <1>5 DEF PoolInv, JoinedOnce
  <2>4. ~running[held[t]] /\ pc'[held[t]] \in {"ending", "ended"}
      BY <1>1, <1>5 DEF PoolInv, HandInv, IdsInv
  <2>5. \A u \in Threads : pc'[u] \in {"bkJoin", "stJoin"} =>
                             ~running[held[u]] /\ pc'[held[u]] \in {"ending", "ended"}
      BY <1>3, <1>5, <2>4 DEF PoolInv, JoinedOnce, HandInv, Holders
  <2> QED BY <2>1, <2>2, <2>3, <2>5 DEF JoinedOnce
<1>10. CountIsExact'
  <2>1. Cardinality(workers') = Cardinality(workers) - 1
      BY <1>1, <1>2, Counted, FS_RemoveElement
  <2>2. Cardinality(BookKeepers') = Cardinality(BookKeepers) + 1
      BY <1>1, <1>4, Counted, FS_AddElement
  <2> QED BY <2>1, <2>2, Counted DEF PoolInv, CountIsExact
<1>11. StopInv'
    BY <1>1, <1>2, StopKeeps DEF StopLabels
<1> QED BY <1>6, <1>7, <1>8, <1>9, <1>10, <1>11 DEF PoolInv

LEMMA BkJoinInv ==
  ASSUME PoolInv, NEW t \in Threads, BkJoin(t)
  PROVE  PoolInv'
<1> USE DEF BkJoin, Joined, poolVars, callVars
<1>1. \A u \in Threads : pc'[u] = IF u = t THEN "bkCount" ELSE pc[u]
    BY DEF PoolInv, TypeOK, Goto
<1>2. t \in Holders /\ Holders' = Holders /\ BookKeepers' = BookKeepers
    BY <1>1 DEF Holders, BookKeepers
<1>3. \A i \in Ids : i \in Threads /\ (pc[i] \in {"unborn", "push", "ending", "ended"} => pc'[i] = pc[i])
                     /\ (pc'[i] \in {"unborn", "push", "ending", "ended"} => pc'[i] = pc[i])
    BY <1>1 DEF Threads
<1>4. TypeOK'
    BY DEF PoolInv, TypeOK, Goto, PostLabels
<1>5. IdsInv'
    BY <1>3 DEF PoolInv, IdsInv
<1>6. HandInv'
  <2>1. \A k \in DOMAIN dead : dead[k] \in Ids
      BY DEF PoolInv, TypeOK
  <2> QED BY <1>2, <1>3, <2>1 DEF PoolInv, HandInv
<1>7. JoinedOnce'
  <2>1. \A u \in Threads : pc'[u] = "bkCount" => pc'[held[u]] = "ended"
      BY <1>1, <1>3 DEF PoolInv, JoinedOnce, HandInv, Holders
  <2>2. \A i \in Ids \ workers : pc'[i] \in {"unborn", "ended"} \/ \E u \in BookKeepers : held[u] = i
      BY <1>3 DEF PoolInv, JoinedOnce
  <2>3. \A u \in Threads : pc'[u] \in {"bkJoin", "stJoin"} =>
                             ~running[held[u]] /\ pc'[held[u]] \in {"ending", "ended"}
      BY <1>1, <1>3 DEF PoolInv, JoinedOnce, HandInv, Holders
  <2> QED BY <1>1, <1>2, <2>1, <2>2, <2>3 DEF PoolInv, JoinedOnce
<1>8. CountIsExact'
    BY <1>2 DEF PoolInv, CountIsExact
<1>9. StopInv'
    BY <1>2, StopKeeps DEF StopLabels
<1> QED BY <1>4, <1>5, <1>6, <1>7, <1>8, <1>9 DEF PoolInv

\* worker_count is lowered for the worker that was joined.
LEMMA BkCountInv ==
  ASSUME PoolInv, NEW t \in Threads, BkCount(t)
  PROVE  PoolInv'
<1> USE DEF BkCount, OneLess, callVars
<1>1. \A u \in Threads : pc'[u] = IF u = t THEN "postTest" ELSE pc[u]
    BY DEF PoolInv, TypeOK, Goto
<1>2. t \in Holders /\ t \in BookKeepers /\ Holders' = Holders \ {t} /\ BookKeepers' = BookKeepers \ {t}
    BY <1>1 DEF Holders, BookKeepers
<1>3. \A i \in Ids : i \in Threads /\ (pc[i] \in {"unborn", "push", "ending", "ended"} => pc'[i] = pc[i])
                     /\ (pc'[i] \in {"unborn", "push", "ending", "ended"} => pc'[i] = pc[i])
    BY <1>1 DEF Threads
<1>4. CountIsExact' /\ count' \in Nat
  <2>1. Cardinality(BookKeepers') = Cardinality(BookKeepers) - 1 /\ Cardinality(BookKeepers') \in Nat
      BY <1>2, Counted, FS_RemoveElement, FS_CardinalityType
  <2> QED BY <2>1, Counted DEF PoolInv, CountIsExact
<1>5. TypeOK'
    BY <1>4 DEF PoolInv, TypeOK, Goto, PostLabels
<1>6. IdsInv'
    BY <1>3 DEF PoolInv, IdsInv
<1>7. HandInv'
  <2>1. \A k \in DOMAIN dead : dead[k] \in Ids
      BY DEF PoolInv, TypeOK
  <2> QED BY <1>2, <1>3, <2>1 DEF PoolInv, HandInv
<1>8. JoinedOnce'
  <2>1. \A u \in Threads : pc'[u] = "bkCount" => pc'[held[u]] = "ended"
      BY <1>1, <1>3 DEF PoolInv, JoinedOnce, HandInv, Holders
  <2>2. \A i \in Ids \ workers : pc'[i] \in {"unborn", "ended"} \/ \E u \in BookKeepers' : held[u] = i
    <3> TAKE i \in Ids \ workers
    <3>1. held[t] = i => pc'[i] = "ended"
        BY <1>3 DEF PoolInv, JoinedOnce
    <3> QED BY <1>2, <1>3, <3>1 DEF PoolInv, JoinedOnce
  <2>3. \A u \in Threads : pc'[u] \in {"bkJoin", "stJoin"} =>
                             ~running[held[u]] /\ pc'[held[u]] \in {"ending", "ended"}
      BY <1>1, <1>3 DEF PoolInv, JoinedOnce, HandInv, Holders
  <2> QED BY <1>1, <2>1, <2>2, <2>3 DEF PoolInv, JoinedOnce
<1>9. StopInv'
    BY <1>2, StopKeeps DEF StopLabels
<1> QED BY <1>4, <1>5, <1>6, <1>7, <1>8, <1>9 DEF PoolInv

\* messages.push(), where the post returns to the handler or to the user.
LEMMA PushMessageInv ==
  ASSUME PoolInv, NEW t \in Threads, PostTest(t) \/ PostPush(t)
  PROVE  PoolInv'
<1> USE DEF PostTest, PostPush, Return, poolVars, callVars
<1>1. PICK l \in {"postPush", "treat", "out"} : Goto(t, l)
    OBVIOUS
<1>2. pc[t] \in {"postTest", "postPush"} /\ UNCHANGED <<opened, dead, poolVars, callVars>>
      /\ messages' \in Nat
    BY DEF PoolInv, TypeOK
<1>3. TypeOK'
    BY <1>1, <1>2 DEF PoolInv, TypeOK, Goto, PostLabels, RunLabels
<1>4. IdsInv' /\ HandInv' /\ JoinedOnce' /\ CountIsExact' /\ BookKeepers' = BookKeepers
    BY <1>1, <1>2, QuietInv DEF Marked
<1>5. StopInv'
    BY <1>1, <1>2, <1>4, StopKeeps DEF StopLabels
<1> QED BY <1>3, <1>4, <1>5 DEF PoolInv

-----------------------------------------------------------------------------
(* setNumWorkers *)

LEMMA ResizeInv ==
  ASSUME PoolInv, NEW u \in Users, NEW n \in Sizes, Resize(u, n)
  PROVE  PoolInv'
<1> USE DEF Resize, poolVars
<1>1. PICK l \in {"shrink", "grow"} : Goto(u, l)
    OBVIOUS
<1>2. u \in Threads /\ pc[u] = "out" /\ (LateCalls \/ opened)
    BY DEF MayCall, Threads
<1>3. resizes' \in 0..MaxResizes /\ goal' \in [Users -> Nat]
    BY SizesAssumption DEF PoolInv, TypeOK
<1>4. TypeOK'
    BY <1>1, <1>3 DEF PoolInv, TypeOK, Goto, ResizeLabels
<1>5. IdsInv' /\ HandInv' /\ JoinedOnce' /\ CountIsExact' /\ BookKeepers' = BookKeepers
    BY <1>1, <1>2, QuietInv DEF Marked
<1>6. StopInv'
    BY <1>1, <1>2, <1>5, StopKeeps DEF StopLabels
<1> QED BY <1>4, <1>5, <1>6 DEF PoolInv

\* The second read of worker_count, and the end of the loop.
LEMMA ResizeLoopInv ==
  ASSUME PoolInv, NEW u \in Users, Shrink(u) \/ Grow(u) \/ LoopEnds(u)
  PROVE  PoolInv'
<1> USE DEF Shrink, Grow, LoopEnds, poolVars, callVars
<1>1. PICK l \in {"remove", "add", "out"} : Goto(u, l)
    OBVIOUS
<1>2. u \in Threads /\ pc[u] \in {"shrink", "grow", "remove", "add"}
    BY DEF Threads
<1>3. count - goal[u] \in Int /\ goal[u] - count \in Int
    BY DEF PoolInv, TypeOK
<1>4. left' \in [Users -> Int]
    BY <1>3 DEF PoolInv, TypeOK
<1>5. TypeOK'
    BY <1>1, <1>4 DEF PoolInv, TypeOK, Goto, ResizeLabels
<1>6. IdsInv' /\ HandInv' /\ JoinedOnce' /\ CountIsExact' /\ BookKeepers' = BookKeepers
    BY <1>1, <1>2, QuietInv DEF Marked
<1>7. StopInv'
    BY <1>1, <1>2, <1>6, StopKeeps DEF StopLabels
<1> QED BY <1>5, <1>6, <1>7 DEF PoolInv

\* A flag that goes off is what the end of a loop and a join need.
LEMMA FlagsGoOff ==
  ASSUME PoolInv, \A i \in Ids : running'[i] => running[i],
         UNCHANGED <<dead, workers, lastId, held>>,
         \A t \in Threads : pc'[t] = pc[t] \/ {pc[t], pc'[t]} \cap Marked = {}
  PROVE  IdsInv' /\ HandInv' /\ JoinedOnce' /\ BookKeepers' = BookKeepers
<1>1. Holders' = Holders /\ BookKeepers' = BookKeepers
    BY DEF Holders, BookKeepers, Marked
<1>2. \A i \in Ids : i \in Threads /\ (pc[i] \in {"unborn", "push", "ending", "ended"} => pc'[i] = pc[i])
                     /\ (pc'[i] \in {"unborn", "push", "ending", "ended"} => pc'[i] = pc[i])
    BY DEF Threads, Marked
<1>3. IdsInv'
    BY <1>2 DEF PoolInv, IdsInv
<1>4. HandInv'
  <2>1. \A k \in DOMAIN dead : dead[k] \in Ids
      BY DEF PoolInv, TypeOK
  <2> QED BY <1>1, <1>2, <2>1 DEF PoolInv, HandInv
<1>5. JoinedOnce'
  <2>1. \A t \in Threads : pc'[t] \in {"bkErase", "stLock", "bkJoin", "stJoin", "bkCount"} =>
          pc[t] = pc'[t] /\ t \in Holders
      BY DEF Marked, Holders
  <2>2. \A t \in Holders : held[t] \in Ids /\ pc'[held[t]] = pc[held[t]]
      BY <1>2 DEF PoolInv, HandInv
  <2>3. \A i \in Ids \ workers : pc'[i] \in {"unborn", "ended"} \/ \E t \in BookKeepers : held[t] = i
      BY <1>2 DEF PoolInv, JoinedOnce
  <2>4. \A t \in Threads : pc'[t] \in {"bkJoin", "stJoin"} =>
                             ~running'[held[t]] /\ pc'[held[t]] \in {"ending", "ended"}
      BY <2>1, <2>2 DEF PoolInv, JoinedOnce
  <2>5. \A t \in Threads : pc'[t] = "bkCount" => pc'[held[t]] = "ended"
      BY <2>1, <2>2 DEF PoolInv, JoinedOnce
  <2>6. \A t \in Threads : pc'[t] \in {"bkErase", "stLock", "stJoin"} => held[t] \in workers
      BY <2>1 DEF PoolInv, JoinedOnce
  <2> QED BY <1>1, <2>3, <2>4, <2>5, <2>6 DEF JoinedOnce
<1> QED BY <1>1, <1>3, <1>4, <1>5

LEMMA RemoveWorkerInv ==
  ASSUME PoolInv, NEW u \in Users, RemoveWorker(u)
  PROVE  PoolInv'
<1> USE DEF RemoveWorker
<1>1. running' \in [Ids -> BOOLEAN] /\ \A i \in Ids : running'[i] => running[i]
  <2> DEFINE up == {i \in workers : running[i]}
  <2>1. running \in [Ids -> BOOLEAN]
      BY DEF PoolInv, TypeOK
  <2>2. running' = running \/ running' = [running EXCEPT ![Min(up)] = FALSE]
      OBVIOUS
  <2> HIDE DEF up
  <2> QED BY <2>1, <2>2
<1>2. left' \in [Users -> Int]
  <2>1. left \in [Users -> Int] /\ left[u] - 1 \in Int /\ left' = [left EXCEPT ![u] = left[u] - 1]
      BY DEF PoolInv, TypeOK
  <2> QED BY <2>1
<1>3. TypeOK'
    BY <1>1, <1>2 DEF PoolInv, TypeOK
<1>4. IdsInv' /\ HandInv' /\ JoinedOnce' /\ BookKeepers' = BookKeepers
    BY <1>1, FlagsGoOff
<1>5. CountIsExact' /\ StopInv'
    BY <1>4 DEF PoolInv, CountIsExact, StopInv
<1> QED BY <1>3, <1>4, <1>5 DEF PoolInv

\* A new worker has an id that nobody had before.
LEMMA AddWorkerInv ==
  ASSUME PoolInv, NEW u \in Users, AddWorker(u)
  PROVE  PoolInv'
<1> DEFINE j == lastId + 1
<1>1. j \in Ids /\ lastId \in Nat /\ j > lastId /\ lastId' = j
    BY SizesAssumption DEF AddWorker, PoolInv, TypeOK, Ids
<1>2. pc[j] = "unborn" /\ j \notin workers /\ j \in Threads /\ j \notin Users
    BY <1>1, NoneAssumption DEF PoolInv, IdsInv, Threads, Ids
<1>3. /\ workers' = workers \cup {j} /\ count' = count + 1
      /\ running' = [running EXCEPT ![j] = TRUE] /\ pc' = [pc EXCEPT ![j] = "test"]
      /\ left' = [left EXCEPT ![u] = left[u] - 1] /\ pc[u] = "add"
      /\ UNCHANGED <<messages, opened, dead, lock, held, goal, posts, resizes>>
    BY DEF AddWorker
<1> HIDE DEF j
<1>4. \A t \in Threads : pc'[t] = IF t = j THEN "test" ELSE pc[t]
    BY <1>3 DEF PoolInv, TypeOK
<1>5. \A i \in Ids : i \in Threads /\ i \in Nat /\ (i # j => running'[i] = running[i])
  <2>1. \A i \in Ids : i \in Threads /\ i \in Nat
      BY DEF Threads, Ids
  <2>2. running \in [Ids -> BOOLEAN]
      BY DEF PoolInv, TypeOK
  <2> QED BY <1>3, <2>1, <2>2
<1>6. Holders' = Holders /\ BookKeepers' = BookKeepers
    BY <1>2, <1>4 DEF Holders, BookKeepers
<1>7. \A t \in Holders : held[t] \in Ids /\ held[t] # j
    BY <1>2 DEF PoolInv, HandInv
<1>8. TypeOK'
  <2>1. left' \in [Users -> Int]
    <3>1. left \in [Users -> Int] /\ left[u] - 1 \in Int
        BY DEF PoolInv, TypeOK
    <3> QED BY <1>3, <3>1
  <2>2. lastId' \in 0..MaxIds /\ count' \in Nat
      BY <1>1, <1>3 DEF PoolInv, TypeOK, Ids
  <2>3. workers' \in SUBSET Ids /\ running' \in [Ids -> BOOLEAN]
      BY <1>1, <1>3 DEF PoolInv, TypeOK
  <2>4. pc' \in [Threads -> {"out"} \cup RunLabels \cup PostLabels \cup ResizeLabels \cup StopLabels]
      BY <1>3 DEF PoolInv, TypeOK, RunLabels
  <2> QED BY <1>3, <2>1, <2>2, <2>3, <2>4 DEF PoolInv, TypeOK
<1>9. IdsInv'
  <2>1. workers' \subseteq 1..lastId'
      BY <1>1, <1>3, <1>5 DEF PoolInv, IdsInv, TypeOK, j
  <2>2. \A i \in Ids : pc'[i] = "unborn" <=> i > lastId'
      BY <1>1, <1>4, <1>5 DEF PoolInv, IdsInv, j
  <2>3. \A i \in Ids : running'[i] => pc'[i] \notin {"unborn", "push", "ending", "ended"}
      BY <1>4, <1>5 DEF PoolInv, IdsInv
  <2> QED BY <2>1, <2>2, <2>3 DEF IdsInv
<1>10. HandInv'
  <2>1. \A k \in DOMAIN dead : dead[k] \in Ids /\ dead[k] # j
      BY <1>2 DEF PoolInv, TypeOK, HandInv
  <2>2. \A k \in DOMAIN dead : dead[k] \in workers' /\ pc'[dead[k]] \in {"ending", "ended"}
      BY <1>3, <1>4, <1>5, <2>1 DEF PoolInv, HandInv
  <2>3. \A t \in Holders : pc'[held[t]] \in {"ending", "ended"}
      BY <1>4, <1>5, <1>7 DEF PoolInv, HandInv
  <2>4. \A t \in BookKeepers : t \in Holders /\ held[t] \notin workers'
      BY <1>3, <1>7 DEF PoolInv, HandInv, BookKeepers, Holders
  <2> QED BY <1>3, <1>6, <1>7, <2>2, <2>3, <2>4 DEF PoolInv, HandInv
<1>11. JoinedOnce'
  <2>1. \A t \in Threads : pc'[t] \in {"bkErase", "stLock", "bkJoin", "stJoin", "bkCount"} =>
          pc[t] = pc'[t] /\ t \in Holders
      BY <1>4 DEF Holders
  <2>2. \A t \in Holders : pc'[held[t]] = pc[held[t]] /\ running'[held[t]] = running[held[t]]
      BY <1>3, <1>4, <1>5, <1>7
  <2>3. \A i \in Ids \ workers' : pc'[i] \in {"unborn", "ended"} \/ \E t \in BookKeepers : held'[t] = i
      BY <1>3, <1>4, <1>5 DEF PoolInv, JoinedOnce
  <2>4. \A t \in Threads : pc'[t] \in {"bkJoin", "stJoin"} =>
                             ~running'[held'[t]] /\ pc'[held'[t]] \in {"ending", "ended"}
      BY <1>3, <2>1, <2>2 DEF PoolInv, JoinedOnce
  <2>5. \A t \in Threads : pc'[t] = "bkCount" => pc'[held'[t]] = "ended"
      BY <1>3, <2>1, <2>2 DEF PoolInv, JoinedOnce
  <2>6. \A t \in Threads : pc'[t] \in {"bkErase", "stLock", "stJoin"} => held'[t] \in workers'
      BY <1>3, <2>1 DEF PoolInv, JoinedOnce
  <2> QED BY <1>6, <2>3, <2>4, <2>5, <2>6 DEF JoinedOnce
<1>12. CountIsExact'
  <2>1. Cardinality(workers') = Cardinality(workers) + 1
      BY <1>2, <1>3, Counted, FS_AddElement
  <2> QED BY <1>3, <1>6, <2>1, Counted DEF PoolInv, CountIsExact
<1>13. StopInv'
  <2>1. opened' = opened /\ \A v \in Users : pc'[v] = pc[v]
      BY <1>3, <1>2, <1>4 DEF Threads
  <2>2. LateCalls \/ opened
      BY <1>3 DEF PoolInv, StopInv, StopLabels
  <2> QED BY <2>1, <2>2 DEF PoolInv, StopInv, StopLabels
<1> QED BY <1>8, <1>9, <1>10, <1>11, <1>12, <1>13 DEF PoolInv

-----------------------------------------------------------------------------
(* stop *)

LEMMA CloseInv ==
  ASSUME PoolInv, NEW u \in Users, Close(u)
  PROVE  PoolInv'
<1> USE DEF Close, MayCall, poolVars, callVars
<1>1. u \in Threads
    BY DEF Threads
<1>2. TypeOK'
    BY DEF PoolInv, TypeOK, Goto, StopLabels
<1>3. IdsInv' /\ HandInv' /\ JoinedOnce' /\ CountIsExact' /\ BookKeepers' = BookKeepers
    BY <1>1, QuietInv DEF Marked
<1>4. StopInv'
  <2>1. \A v \in Users : pc'[v] = IF v = u THEN "tellStop" ELSE pc[v]
      BY <1>1 DEF PoolInv, TypeOK, Goto, Threads
  <2>2. \A v \in Users : pc[v] \notin StopLabels
      BY DEF PoolInv, StopInv
  <2>3. ~LateCalls => \A v \in Users : pc[v] = "out"
      OBVIOUS
  <2> QED BY <2>1, <2>2, <2>3 DEF StopInv, StopLabels
<1> QED BY <1>2, <1>3, <1>4 DEF PoolInv

LEMMA TellStopInv ==
  ASSUME PoolInv, NEW u \in Users, TellStop(u)
  PROVE  PoolInv'
<1> USE DEF TellStop, callVars
<1>1. u \in Threads
    BY DEF Threads
<1>2. running' \in [Ids -> BOOLEAN] /\ \A i \in Ids : running'[i] => running[i]
    BY DEF PoolInv, TypeOK
<1>3. TypeOK'
    BY <1>2 DEF PoolInv, TypeOK, Goto, StopLabels
<1>4. \A t \in Threads : pc'[t] = IF t = u THEN "stTest" ELSE pc[t]
    BY <1>1 DEF PoolInv, TypeOK, Goto
<1>5. \A t \in Threads : pc'[t] = pc[t] \/ {pc[t], pc'[t]} \cap Marked = {}
    BY <1>4 DEF Marked
<1>6. IdsInv' /\ HandInv' /\ JoinedOnce' /\ BookKeepers' = BookKeepers
    BY <1>2, <1>5, FlagsGoOff
<1>7. CountIsExact'
    BY <1>6 DEF PoolInv, CountIsExact
<1>8. StopInv'
    BY <1>1, <1>6, StopKeeps DEF StopLabels
<1> QED BY <1>3, <1>6, <1>7, <1>8 DEF PoolInv

\* stop() ends when worker_count is 0: the map is empty and nobody is joining.
LEMMA StTestInv ==
  ASSUME PoolInv, NEW u \in Users, StTest(u)
  PROVE  PoolInv'
<1> USE DEF StTest, SomeLeft, poolVars, callVars
<1>1. u \in Threads
    BY DEF Threads
<1>2. PICK l \in {"stPop", "stopped"} : Goto(u, l) /\ (l = "stopped" => ~(count > 0))
    OBVIOUS
<1>3. TypeOK'
    BY <1>2 DEF PoolInv, TypeOK, Goto, StopLabels
<1>4. IdsInv' /\ HandInv' /\ JoinedOnce' /\ CountIsExact' /\ BookKeepers' = BookKeepers
    BY <1>1, <1>2, QuietInv DEF Marked
<1>5. CASE l # "stopped"
  <2>1. StopInv'
      BY <1>1, <1>2, <1>4, <1>5, StopKeeps DEF StopLabels
  <2> QED BY <1>3, <1>4, <2>1 DEF PoolInv
<1>6. CASE l = "stopped"
  <2>1. Cardinality(workers) = 0 /\ Cardinality(BookKeepers) = 0
      BY <1>2, <1>6, Counted DEF PoolInv, CountIsExact, TypeOK
  <2>2. workers = {} /\ BookKeepers = {}
      BY <2>1, Counted, FS_EmptySet
  <2>3. \A v \in Users : pc'[v] = IF v = u THEN "stopped" ELSE pc[v]
      BY <1>2, <1>6 DEF PoolInv, TypeOK, Goto, Threads
  <2>4. StopInv'
      BY <1>4, <2>2, <2>3 DEF PoolInv, StopInv, StopLabels
  <2> QED BY <1>3, <1>4, <2>4 DEF PoolInv
<1> QED BY <1>5, <1>6

LEMMA StPopInv ==
  ASSUME PoolInv, NEW u \in Users, StPop(u)
  PROVE  PoolInv'
<1> USE DEF StPop, poolVars
<1>1. u \in Threads /\ pc[u] \notin Marked
    BY DEF Threads, Marked
<1>2. /\ dead' \in Seq(Ids) /\ held' \in [Threads -> Ids \cup {None}]
      /\ IdsInv' /\ HandInv' /\ JoinedOnce' /\ CountIsExact' /\ BookKeepers' = BookKeepers
    BY <1>1, TakeId
<1>3. TypeOK'
    BY <1>2 DEF PoolInv, TypeOK, Goto, StopLabels
<1>4. StopInv'
    BY <1>1, <1>2, StopKeeps DEF StopLabels
<1> QED BY <1>2, <1>3, <1>4 DEF PoolInv

LEMMA StLockInv ==
  ASSUME PoolInv, NEW u \in Users, StLock(u)
  PROVE  PoolInv'
<1> USE DEF StLock, callVars
<1>1. u \in Threads /\ u \in Holders /\ u \notin BookKeepers /\ held[u] \in workers
    BY DEF PoolInv, JoinedOnce, Holders, BookKeepers, Threads
<1>2. Goto(u, "stJoin") /\ lock' = u
    BY <1>1
<1>3. \A t \in Threads : pc'[t] = IF t = u THEN "stJoin" ELSE pc[t]
    BY <1>1, <1>2 DEF PoolInv, TypeOK, Goto
<1>4. Holders' = Holders /\ BookKeepers' = BookKeepers
    BY <1>1, <1>3 DEF Holders, BookKeepers
<1>5. \A i \in Ids : i \in Threads /\ (pc[i] \in {"unborn", "push", "ending", "ended"} => pc'[i] = pc[i])
                     /\ (pc'[i] \in {"unborn", "push", "ending", "ended"} => pc'[i] = pc[i])
    BY <1>1, <1>3 DEF Threads, Holders
<1>6. TypeOK'
    BY <1>2 DEF PoolInv, TypeOK, Goto, StopLabels
<1>7. IdsInv'
    BY <1>5 DEF PoolInv, IdsInv
<1>8. HandInv'
  <2>1. \A k \in DOMAIN dead : dead[k] \in Ids
      BY DEF PoolInv, TypeOK
  <2> QED BY <1>4, <1>5, <2>1 DEF PoolInv, HandInv
<1>9. JoinedOnce'
  <2>1. \A t \in Threads : pc'[t] \in {"bkErase", "stLock", "stJoin"} => held[t] \in workers
      BY <1>1, <1>3 DEF PoolInv, JoinedOnce
  <2>2. \A t \in Threads : pc'[t] = "bkCount" => pc'[held[t]] = "ended"
      BY <1>3, <1>5 DEF PoolInv, JoinedOnce, HandInv, Holders
  <2>3. \A i \in Ids \ workers : pc'[i] \in {"unborn", "ended"} \/ \E t \in BookKeepers : held[t] = i
      BY <1>5 DEF PoolInv, JoinedOnce
  <2>4. ~running[held[u]] /\ pc'[held[u]] \in {"ending", "ended"}
      BY <1>1, <1>5 DEF PoolInv, HandInv, IdsInv
  <2>5. \A t \in Threads : pc'[t] \in {"bkJoin", "stJoin"} =>
                             ~running[held[t]] /\ pc'[held[t]] \in {"ending", "ended"}
      BY <1>3, <1>5, <2>4 DEF PoolInv, JoinedOnce, HandInv, Holders
  <2> QED BY <1>4, <2>1, <2>2, <2>3, <2>5 DEF JoinedOnce
<1>10. CountIsExact'
    BY <1>4 DEF PoolInv, CountIsExact
<1>11. StopInv'
    BY <1>1, <1>2, <1>4, StopKeeps DEF StopLabels
<1> QED BY <1>6, <1>7, <1>8, <1>9, <1>10, <1>11 DEF PoolInv

\* stop() takes the worker it joined out of the map and out of the count.
LEMMA StJoinInv ==
  ASSUME PoolInv, NEW u \in Users, StJoin(u)
  PROVE  PoolInv'
<1> USE DEF StJoin, Joined, callVars
<1>1. u \in Threads /\ u \in Holders /\ u \notin BookKeepers /\ held[u] \in workers
    BY DEF PoolInv, JoinedOnce, Holders, BookKeepers, Threads
<1>2. \A t \in Threads : pc'[t] = IF t = u THEN "stTest" ELSE pc[t]
    BY <1>1 DEF PoolInv, TypeOK, Goto
<1>3. Holders' = Holders \ {u} /\ BookKeepers' = BookKeepers
    BY <1>1, <1>2 DEF Holders, BookKeepers
<1>4. \A i \in Ids : i \in Threads /\ (pc[i] \in {"unborn", "push", "ending", "ended"} => pc'[i] = pc[i])
                     /\ (pc'[i] \in {"unborn", "push", "ending", "ended"} => pc'[i] = pc[i])
    BY <1>2 DEF Threads
<1>5. CountIsExact' /\ count' \in Nat
  <2>1. Cardinality(workers') = Cardinality(workers) - 1 /\ Cardinality(workers') \in Nat
      BY <1>1, Counted, FS_RemoveElement, FS_CardinalityType
  <2> QED BY <1>3, <2>1, Counted DEF PoolInv, CountIsExact
<1>6. TypeOK'
    BY <1>5 DEF PoolInv, TypeOK, Goto, StopLabels
<1>7. IdsInv'
    BY <1>4 DEF PoolInv, IdsInv
<1>8. HandInv'
  <2>1. \A k \in DOMAIN dead : dead[k] \in Ids /\ dead[k] # held[u]
      BY <1>1 DEF PoolInv, TypeOK, HandInv
  <2> QED BY <1>3, <1>4, <2>1 DEF PoolInv, HandInv
<1>9. JoinedOnce'
  <2>1. \A t \in Threads : pc'[t] \in {"bkErase", "stLock", "stJoin"} => held[t] \in workers'
      BY <1>1, <1>2 DEF PoolInv, JoinedOnce, HandInv, Holders
  <2>2. \A t \in Threads : pc'[t] = "bkCount" => pc'[held[t]] = "ended"
      BY <1>2, <1>4 DEF PoolInv, JoinedOnce, HandInv, Holders
  <2>3. \A i \in Ids \ workers' : pc'[i] \in {"unborn", "ended"} \/ \E t \in BookKeepers : held[t] = i
      BY <1>4 DEF PoolInv, JoinedOnce
  <2>4. \A t \in Threads : pc'[t] \in {"bkJoin", "stJoin"} =>
                             ~running[held[t]] /\ pc'[held[t]] \in {"ending", "ended"}
      BY <1>2, <1>4 DEF PoolInv, JoinedOnce, HandInv, Holders
  <2> QED BY <1>3, <2>1, <2>2, <2>3, <2>4 DEF JoinedOnce
<1>10. StopInv'
    BY <1>1, <1>3, StopKeeps DEF StopLabels
<1> QED BY <1>5, <1>6, <1>7, <1>8, <1>9, <1>10 DEF PoolInv

-----------------------------------------------------------------------------
(* The theorems *)

LEMMA PoolInvStep == PoolInv /\ [Next]_vars => PoolInv'
<1> SUFFICES ASSUME PoolInv, [Next]_vars PROVE PoolInv'
    OBVIOUS
<1>1. CASE UNCHANGED vars
  <2> USE <1>1 DEF vars, poolVars, callVars
  <2>1. TypeOK' /\ IdsInv'
      BY DEF PoolInv, TypeOK, IdsInv
  <2>2. Holders' = Holders /\ BookKeepers' = BookKeepers
      BY DEF Holders, BookKeepers
  <2>3. HandInv' /\ JoinedOnce' /\ CountIsExact' /\ StopInv'
      BY <2>2 DEF PoolInv, HandInv, JoinedOnce, CountIsExact, StopInv
  <2> QED BY <2>1, <2>3 DEF PoolInv
<1>2. ASSUME NEW t \in Threads, Begin(t)
      PROVE  PoolInv'
    BY <1>2, PostInv, CloseInv, ResizeInv DEF Begin
<1>3. ASSUME NEW t \in Threads, Continue(t)
      PROVE  PoolInv'
  <2>1. CASE t \in Ids /\ Run(t)
      BY <2>1, TestRunningInv, PopMessageInv, FinishTreatInv, PushDeadInv, EndInv DEF Run
  <2>2. CASE ContinuePost(t)
      BY <2>2, BkEraseInv, BkJoinInv, BkCountInv, PushMessageInv DEF ContinuePost
  <2>3. CASE t \in Users /\ ContinueResize(t)
      BY <2>3, ResizeLoopInv, RemoveWorkerInv, AddWorkerInv DEF ContinueResize
  <2>4. CASE t \in Users /\ ContinueStop(t)
      BY <2>4, TellStopInv, StTestInv, StPopInv, StLockInv, StJoinInv DEF ContinueStop
  <2> QED BY <1>3, <2>1, <2>2, <2>3, <2>4 DEF Continue
<1> QED BY <1>1, <1>2, <1>3 DEF Next

\* Where the id of each worker is, and what may have it: the inductive invariant.
THEOREM Typing == Spec => []PoolInv
  BY PoolInvInit, PoolInvStep, PTL DEF Spec

\* worker_count is the map and the workers that a bookKeep() is joining.
THEOREM CountIsExactHolds == Spec => []CountIsExact
<1>1. PoolInv => CountIsExact
    BY DEF PoolInv
<1> QED BY <1>1, Typing, PTL

\* Each worker is joined once, after it was told to stop and left its loop.
THEOREM JoinedOnceHolds == Spec => []JoinedOnce
<1>1. PoolInv => JoinedOnce
    BY DEF PoolInv
<1> QED BY <1>1, Typing, PTL

\* After stop() no thread of the pool is left, if users leave the pool alone then.
THEOREM StoppedMeansGoneHolds ==
  ASSUME ~LateCalls
  PROVE  Spec => []StoppedMeansGone
<1>1. PoolInv => StoppedMeansGone
    BY DEF PoolInv, StopInv, JoinedOnce, StoppedMeansGone
<1> QED BY <1>1, Typing, PTL

-----------------------------------------------------------------------------
(* Why stop() is never left waiting *)

\* A step of one thread that moves no id keeps every id where it was.
LEMMA KeptQuiet ==
  ASSUME PoolInv, KeptInv, NEW t \in Threads, NEW l, Goto(t, l),
         UNCHANGED <<dead, held>>, workers' \subseteq workers,
         l = "ending" => \E k \in DOMAIN dead : dead[k] = t,
         l = "ended" => pc[t] = "ending",
         pc[t] \in {"bkErase", "stLock", "stJoin"} =>
           l \in {"bkErase", "stLock", "stJoin"} \/ held[t] \notin workers'
  PROVE  KeptInv'
<1> SUFFICES ASSUME NEW i \in workers', pc'[i] \in {"ending", "ended"} PROVE Taken(i)'
    BY DEF KeptInv
<1>1. i \in Threads /\ i \in workers
    BY DEF PoolInv, TypeOK, Threads
<1>2. \A u \in Threads : pc'[u] = IF u = t THEN l ELSE pc[u]
    BY DEF PoolInv, TypeOK, Goto
<1>3. Taken(i)
    BY <1>1, <1>2 DEF KeptInv, Taken
<1>4. CASE \E k \in DOMAIN dead : dead[k] = i
    BY <1>4 DEF Taken
<1>5. CASE \E u \in Threads : pc[u] \in {"bkErase", "stLock", "stJoin"} /\ held[u] = i
    BY <1>2, <1>5 DEF Taken
<1> QED BY <1>3, <1>4, <1>5 DEF Taken

\* bookKeep() and stop() take the first id, and leave the others.
LEMMA KeptPop ==
  ASSUME PoolInv, KeptInv, NEW t \in Threads, NEW l \in {"bkErase", "stLock"}, Goto(t, l),
         dead # <<>>, held' = [held EXCEPT ![t] = Head(dead)], dead' = Tail(dead),
         pc[t] \notin {"bkErase", "stLock", "stJoin"}, UNCHANGED workers
  PROVE  KeptInv'
<1> SUFFICES ASSUME NEW i \in workers, pc'[i] \in {"ending", "ended"} PROVE Taken(i)'
    BY DEF KeptInv
<1>1. i \in Threads
    BY DEF PoolInv, TypeOK, Threads
<1>2. \A u \in Threads : /\ pc'[u] = IF u = t THEN l ELSE pc[u]
                         /\ held'[u] = IF u = t THEN Head(dead) ELSE held[u]
    BY DEF PoolInv, TypeOK, Goto
<1>3. Taken(i)
    BY <1>1, <1>2 DEF KeptInv
<1>4. CASE \E k \in DOMAIN dead : dead[k] = i
  <2>1. PICK k \in DOMAIN dead : dead[k] = i
      BY <1>4
  <2>2. dead \in Seq(Ids)
      BY DEF PoolInv, TypeOK
  <2>3. k = 1 \/ (k - 1 \in DOMAIN dead' /\ dead'[k - 1] = i)
      BY <2>1, <2>2
  <2>4. k = 1 => held'[t] = i
      BY <1>2, <2>1, <2>2
  <2> QED BY <1>2, <2>3, <2>4 DEF Taken
<1>5. CASE \E u \in Threads : pc[u] \in {"bkErase", "stLock", "stJoin"} /\ held[u] = i
    BY <1>2, <1>5 DEF Taken
<1> QED BY <1>3, <1>4, <1>5 DEF Taken

\* A worker that ends its loop leaves its id in workers_to_destroy.
LEMMA KeptPush ==
  ASSUME PoolInv, KeptInv, NEW i \in Ids, PushDead(i)
  PROVE  KeptInv'
<1> SUFFICES ASSUME NEW j \in workers, pc'[j] \in {"ending", "ended"} PROVE Taken(j)'
    BY DEF KeptInv, PushDead, poolVars
<1>1. dead' = Append(dead, i) /\ dead \in Seq(Ids) /\ pc[i] = "push" /\ held' = held
    BY DEF PushDead, callVars, PoolInv, TypeOK
<1>2. \A u \in Threads : pc'[u] = IF u = i THEN "ending" ELSE pc[u]
    BY DEF PoolInv, TypeOK, PushDead, Goto
<1>3. /\ \A k \in DOMAIN dead : k \in DOMAIN dead' /\ dead'[k] = dead[k]
      /\ Len(dead) + 1 \in DOMAIN dead' /\ dead'[Len(dead) + 1] = i
    BY <1>1
<1>4. CASE j = i
    BY <1>3, <1>4 DEF Taken
<1>5. CASE j # i
  <2>1. Taken(j) /\ i \in Threads
    <3>1. j \in Threads /\ i \in Threads
        BY DEF PoolInv, TypeOK, Threads
    <3> QED BY <1>2, <1>5, <3>1 DEF KeptInv
  <2> QED BY <1>1, <1>2, <1>3, <2>1 DEF Taken
<1> QED BY <1>4, <1>5

\* A new worker is in its loop.
LEMMA KeptAdd ==
  ASSUME PoolInv, KeptInv, NEW u \in Users, AddWorker(u)
  PROVE  KeptInv'
<1> SUFFICES ASSUME NEW i \in workers', pc'[i] \in {"ending", "ended"} PROVE Taken(i)'
    BY DEF KeptInv
<1>1. /\ \A t \in Threads : pc'[t] = IF t = lastId' THEN "test" ELSE pc[t]
      /\ workers' = workers \cup {lastId'} /\ UNCHANGED <<dead, held>>
    BY DEF PoolInv, TypeOK, AddWorker
<1>2. lastId' \in Ids /\ pc[lastId'] = "unborn" /\ i \in Threads
    BY SizesAssumption DEF PoolInv, TypeOK, IdsInv, AddWorker, Ids, Threads
<1>3. Taken(i)
    BY <1>1, <1>2 DEF KeptInv
<1> QED BY <1>1, <1>2, <1>3 DEF Taken

\* Every step keeps the ids.
LEMMA KeptStep == PoolInv /\ KeptInv /\ [Next]_vars => KeptInv'
<1> SUFFICES ASSUME PoolInv, KeptInv, [Next]_vars PROVE KeptInv'
    OBVIOUS
<1>1. CASE UNCHANGED vars
    BY <1>1 DEF vars, poolVars, callVars, KeptInv, Taken
<1>2. ASSUME NEW t \in Threads, Post(t) PROVE KeptInv'
  <2>1. CASE Goto(t, "postTest") /\ UNCHANGED <<dead, held>>
      BY <1>2, <2>1, KeptQuiet, NoneAssumption DEF Post, InTreat, MayCall, poolVars
  <2>2. CASE dead # <<>> /\ Goto(t, "bkErase") /\ dead' = Tail(dead)
             /\ held' = [held EXCEPT ![t] = Head(dead)]
      BY <1>2, <2>2, KeptPop DEF Post, InTreat, MayCall, poolVars
  <2> QED BY <1>2, <2>1, <2>2 DEF Post
<1>3. ASSUME NEW u \in Users, Close(u) \/ \E n \in Sizes : Resize(u, n) PROVE KeptInv'
  <2>1. PICK l \in {"tellStop", "shrink", "grow"} : Goto(u, l)
      BY <1>3 DEF Close, Resize
  <2>2. UNCHANGED <<dead, held, workers>> /\ pc[u] = "out" /\ u \in Threads
      BY <1>3 DEF Close, Resize, MayCall, poolVars, callVars, Threads
  <2> QED BY <2>1, <2>2, KeptQuiet
<1>4. ASSUME NEW i \in Ids, Run(i) PROVE KeptInv'
  <2>1. CASE PushDead(i)
      BY <2>1, KeptPush
  <2>2. CASE TestRunning(i) \/ PopMessage(i) \/ FinishTreat(i) \/ End(i)
    <3>1. PICK l \in {"push", "pop", "treat", "test", "ended"} :
            Goto(i, l) /\ (l = "ended" => pc[i] = "ending")
        BY <2>2 DEF TestRunning, PopMessage, FinishTreat, End
    <3>2. /\ UNCHANGED <<dead, held, workers>> /\ i \in Threads
          /\ pc[i] \in {"test", "pop", "treat", "ending"}
        BY <2>2 DEF TestRunning, PopMessage, FinishTreat, End, poolVars, callVars, Threads
    <3> QED BY <3>1, <3>2, KeptQuiet
  <2> QED BY <1>4, <2>1, <2>2 DEF Run
<1>5. ASSUME NEW t \in Threads, ContinuePost(t) PROVE KeptInv'
  <2>1. CASE BkErase(t)
    <3>1. PICK l \in {"bkJoin", "postTest"} : Goto(t, l)
        BY <2>1 DEF BkErase
    <3>2. held[t] \notin workers' /\ workers' \subseteq workers /\ UNCHANGED <<dead, held>>
        BY <2>1 DEF BkErase, callVars
    <3> QED BY <3>1, <3>2, KeptQuiet
  <2>2. CASE BkJoin(t) \/ BkCount(t) \/ PostTest(t) \/ PostPush(t)
    <3>1. PICK l \in {"bkCount", "postTest", "postPush", "treat", "out"} : Goto(t, l)
        BY <2>2 DEF BkJoin, BkCount, PostTest, PostPush, Return
    <3>2. UNCHANGED <<dead, held, workers>> /\ pc[t] \in PostLabels \ {"bkErase"}
        BY <2>2 DEF BkJoin, BkCount, PostTest, PostPush, poolVars, callVars, PostLabels
    <3> QED BY <3>1, <3>2, KeptQuiet DEF PostLabels
  <2> QED BY <1>5, <2>1, <2>2 DEF ContinuePost
<1>6. ASSUME NEW u \in Users, ContinueResize(u) PROVE KeptInv'
  <2>1. CASE AddWorker(u)
      BY <2>1, KeptAdd
  <2>2. CASE RemoveWorker(u)
      BY <2>2 DEF RemoveWorker, KeptInv, Taken
  <2>3. CASE Shrink(u) \/ Grow(u) \/ LoopEnds(u)
    <3>1. PICK l \in {"remove", "add", "out"} : Goto(u, l)
        BY <2>3 DEF Shrink, Grow, LoopEnds
    <3>2. UNCHANGED <<dead, held, workers>> /\ pc[u] \in ResizeLabels /\ u \in Threads
        BY <2>3 DEF Shrink, Grow, LoopEnds, poolVars, callVars, ResizeLabels, Threads
    <3> QED BY <3>1, <3>2, KeptQuiet DEF ResizeLabels
  <2> QED BY <1>6, <2>1, <2>2, <2>3 DEF ContinueResize
<1>7. ASSUME NEW u \in Users, ContinueStop(u) PROVE KeptInv'
  <2>0. u \in Threads
      BY DEF Threads
  <2>1. CASE TellStop(u) \/ StTest(u)
    <3>1. PICK l \in {"stTest", "stPop", "stopped"} : Goto(u, l)
        BY <2>1 DEF TellStop, StTest
    <3>2. UNCHANGED <<dead, held, workers>> /\ pc[u] \in {"tellStop", "stTest"}
        BY <2>1 DEF TellStop, StTest, poolVars, callVars
    <3> QED BY <2>0, <3>1, <3>2, KeptQuiet
  <2>2. CASE StPop(u)
      BY <2>0, <2>2, KeptPop DEF StPop, poolVars
  <2>3. CASE StLock(u)
    <3>1. PICK l \in {"stJoin", "stTest"} : Goto(u, l) /\ (l = "stTest" => held[u] \notin workers)
        BY <2>3 DEF StLock
    <3>2. UNCHANGED <<dead, held, workers>>
        BY <2>3 DEF StLock, callVars
    <3> QED BY <2>0, <3>1, <3>2, KeptQuiet
  <2>4. CASE StJoin(u)
    <3>1. /\ Goto(u, "stTest") /\ UNCHANGED <<dead, held>>
          /\ workers' \subseteq workers /\ held[u] \notin workers'
        BY <2>4 DEF StJoin, callVars
    <3> QED BY <2>0, <3>1, KeptQuiet
  <2> QED BY <1>7, <2>1, <2>2, <2>3, <2>4 DEF ContinueStop
<1> QED BY <1>1, <1>2, <1>3, <1>4, <1>5, <1>6, <1>7 DEF Next, Begin, Continue

\* There is one thread at most in stop().
LEMMA OneStopper ==
  ASSUME WaitInv, NEW u \in Users, NEW v \in Users,
         pc[u] \in StopLabels, pc[v] \in StopLabels
  PROVE  u = v
<1> SUFFICES ASSUME u # v PROVE FALSE
    OBVIOUS
<1>1. {u, v} \subseteq Stoppers /\ IsFiniteSet(Stoppers) /\ Cardinality(Stoppers) <= 1
    BY UsersAssumption, FS_Subset DEF WaitInv
<1>2. Cardinality({u}) = 1 /\ IsFiniteSet({u})
    BY FS_Singleton
<1>3. {u, v} = {u} \cup {v} /\ v \notin {u}
    OBVIOUS
<1>4. Cardinality({u, v}) = 2
    BY <1>2, <1>3, FS_AddElement
<1>5. Cardinality({u, v}) <= Cardinality(Stoppers) /\ Cardinality(Stoppers) \in Nat
    BY <1>1, FS_Subset, FS_CardinalityType
<1> QED BY <1>1, <1>4, <1>5

\* During stop() the other users are outside the pool.
LEMMA StopIsAlone ==
  ASSUME PoolInv, WaitInv, ~LateCalls, NEW v \in Users, pc[v] \in StopLabels,
         NEW u \in Users, u # v
  PROVE  pc[u] = "out" /\ ~Begin(u) /\ ~Continue(u)
<1>1. ~opened /\ pc[u] \in StopLabels \cup {"out"}
    BY DEF PoolInv, StopInv
<1>2. pc[u] = "out"
    BY <1>1, OneStopper
<1>3. u \notin Ids
    BY NoneAssumption DEF Ids
<1>4. ~Begin(u)
    BY <1>1, <1>2 DEF Begin, Post, InTreat, Close, Resize, MayCall
<1>5. ~Continue(u)
    BY <1>2, <1>3 DEF Continue, ContinuePost, BkErase, BkJoin, BkCount, PostTest, PostPush,
       ContinueResize, Shrink, Grow, RemoveWorker, AddWorker, LoopEnds,
       ContinueStop, TellStop, StTest, StPop, StLock, StJoin
<1> QED BY <1>2, <1>4, <1>5

\* stop() counts workers: one that it counts has its id in workers_to_destroy, or is
\* about to push it, or is joined by a worker that is.
LEMMA SomeoneComes ==
  ASSUME PoolInv, KeptInv, WaitInv, ~LateCalls, NEW v \in Users, pc[v] = "stTest", count > 0
  PROVE  dead # <<>> \/ \E i \in Ids : Coming(i)
<1>1. \A t \in Threads : t \in Ids \/ (t \in Users /\ (t = v \/ pc[t] = "out"))
    BY StopIsAlone DEF Threads, StopLabels
<1>2. CASE BookKeepers # {}
  <2>1. PICK t \in Threads : pc[t] \in {"bkJoin", "bkCount"}
      BY <1>2 DEF BookKeepers
  <2> QED BY <1>1, <2>1 DEF Coming, PostLabels
<1>3. CASE BookKeepers = {}
  <2>1. Cardinality(workers) > 0
    <3>1. Cardinality(BookKeepers) = 0
        BY <1>3, FS_EmptySet
    <3>2. count = Cardinality(workers) + 0
        BY <3>1 DEF PoolInv, CountIsExact
    <3>3. Cardinality(workers) \in Nat
        BY Counted
    <3> QED BY <3>2, <3>3
  <2>2. PICK i \in workers : TRUE
      BY <2>1, FS_EmptySet
  <2>3. i \in Ids /\ pc[i] # "unborn"
      BY <2>2 DEF PoolInv, TypeOK, IdsInv, Ids
  <2>4. CASE pc[i] \in {"ending", "ended"}
    <3>1. Taken(i)
        BY <2>2, <2>4 DEF KeptInv
    <3>2. CASE \E k \in DOMAIN dead : dead[k] = i
        BY <3>2
    <3>3. CASE \E t \in Threads : pc[t] \in {"bkErase", "stLock", "stJoin"} /\ held[t] = i
      <4>1. PICK t \in Threads : pc[t] \in {"bkErase", "stLock", "stJoin"}
          BY <3>3
      <4>2. t \in Ids /\ pc[t] \in RunLabels \cup PostLabels
          BY <1>1, <4>1 DEF WaitInv
      <4> QED BY <4>1, <4>2 DEF Coming, RunLabels, PostLabels
    <3> QED BY <3>1, <3>2, <3>3 DEF Taken
  <2>5. CASE pc[i] \notin {"ending", "ended"}
      BY <2>3, <2>5 DEF WaitInv, Coming, RunLabels
  <2> QED BY <2>4, <2>5
<1> QED BY <1>2, <1>3

\* A worker's own step leaves its id behind, or leaves it coming.
LEMMA WorkerStep ==
  ASSUME PoolInv, WaitInv, NEW i \in Ids, Begin(i) \/ Continue(i)
  PROVE  /\ \A t \in Threads \ {i} : pc'[t] = pc[t]
         /\ pc'[i] \in RunLabels \cup PostLabels
         /\ running' = running
         /\ \/ dead' # <<>> \/ Coming(i)'
            \/ dead' = dead /\ pc[i] = "ending"
<1>1. i \in Threads /\ i \notin Users
    BY NoneAssumption DEF Threads, Ids
<1>2. pc \in [Threads -> {pc[t] : t \in Threads}]
    BY DEF PoolInv, TypeOK
<1>3. CASE PushDead(i)
  <2>1. dead \in Seq(Ids) /\ dead' = Append(dead, i)
      BY <1>3 DEF PoolInv, TypeOK, PushDead
  <2>2. dead' # <<>>
      BY <2>1
  <2> QED BY <1>1, <1>2, <1>3, <2>2 DEF PushDead, Goto, poolVars, RunLabels
<1>4. CASE End(i)
    BY <1>1, <1>2, <1>4 DEF End, Goto, poolVars, RunLabels
<1>5. CASE TestRunning(i) \/ PopMessage(i) \/ FinishTreat(i)
  <2>1. PICK l \in {"push", "pop", "treat", "test"} : Goto(i, l)
      BY <1>5 DEF TestRunning, PopMessage, FinishTreat
  <2>2. running' = running
      BY <1>5 DEF TestRunning, PopMessage, FinishTreat, poolVars
  <2> QED BY <1>1, <1>2, <2>1, <2>2 DEF Goto, RunLabels, Coming
<1>6. CASE Post(i) \/ ContinuePost(i)
  <2>1. PICK l \in PostLabels \cup {"treat"} : Goto(i, l)
      BY <1>6 DEF Post, ContinuePost, BkErase, BkJoin, BkCount, PostTest, PostPush, Return, PostLabels
  <2>2. running' = running
      BY <1>6 DEF Post, ContinuePost, BkErase, BkJoin, BkCount, PostTest, PostPush, poolVars
  <2> QED BY <1>1, <1>2, <2>1, <2>2 DEF Goto, RunLabels, PostLabels, Coming
<1> QED BY <1>1, <1>3, <1>4, <1>5, <1>6 DEF Begin, Continue, Run

\* A user's step changes no worker, except one that it adds.
LEMMA UserStep ==
  ASSUME PoolInv, WaitInv, NEW u \in Users, Begin(u) \/ Continue(u)
  PROVE  /\ \A i \in Ids : pc'[i] = pc[i] \/ pc'[i] = "test"
         /\ \A v \in Users \ {u} : pc'[v] = pc[v]
         /\ pc'[u] \in StopLabels => u \in Stoppers
<1>1. u \in Threads /\ u \notin Ids /\ Ids \subseteq Threads /\ Users \cap Ids = {}
    BY NoneAssumption DEF Threads, Ids
<1>2. pc \in [Threads -> {pc[t] : t \in Threads}]
    BY DEF PoolInv, TypeOK
<1>3. CASE AddWorker(u)
  <2>1. pc[u] = "add" /\ pc' = [pc EXCEPT ![lastId'] = "test"] /\ lastId' \in Ids
      BY <1>3, SizesAssumption DEF AddWorker, PoolInv, TypeOK, Ids
  <2> QED BY <1>1, <1>2, <2>1 DEF StopLabels
<1>4. CASE RemoveWorker(u)
    BY <1>4 DEF RemoveWorker, StopLabels
<1>5. ASSUME NEW l, Goto(u, l), l \in StopLabels => u \in Stoppers
      PROVE  /\ \A i \in Ids : pc'[i] = pc[i]
             /\ \A v \in Users \ {u} : pc'[v] = pc[v]
             /\ pc'[u] \in StopLabels => u \in Stoppers
    BY <1>1, <1>2, <1>5 DEF Goto, Threads
<1>6. CASE Post(u) \/ ContinuePost(u)
  <2>1. PICK l \in PostLabels \cup {"out"} : Goto(u, l)
      BY <1>1, <1>6
      DEF Post, ContinuePost, BkErase, BkJoin, BkCount, PostTest, PostPush, Return, PostLabels
  <2> QED BY <1>5, <2>1 DEF PostLabels, StopLabels
<1>7. CASE Close(u)
    BY <1>5, <1>7 DEF Close
<1>8. CASE \E n \in Sizes : Resize(u, n)
  <2>1. PICK l \in {"shrink", "grow"} : Goto(u, l)
      BY <1>8 DEF Resize
  <2> QED BY <1>5, <2>1 DEF StopLabels
<1>9. CASE Shrink(u) \/ Grow(u) \/ LoopEnds(u)
  <2>1. PICK l \in {"remove", "add", "out"} : Goto(u, l)
      BY <1>9 DEF Shrink, Grow, LoopEnds
  <2> QED BY <1>5, <2>1 DEF StopLabels
<1>10. CASE ContinueStop(u)
  <2>1. PICK l : Goto(u, l)
      BY <1>10 DEF ContinueStop, TellStop, StTest, StPop, StLock, StJoin
  <2>2. u \in Stoppers
      BY <1>10 DEF WaitInv, ContinueStop, TellStop, StTest, StPop, StLock, StJoin, StopLabels
  <2> QED BY <1>5, <2>1, <2>2
<1> QED
    BY <1>1, <1>3, <1>4, <1>6, <1>7, <1>8, <1>9, <1>10 DEF Begin, Continue, ContinueResize

\* What stop() relies on is kept: it clears all flags, and nobody adds a worker, takes
\* the last id that was to come, or leaves the pool without one.
LEMMA WaitStep == PoolInv /\ KeptInv /\ WaitInv /\ [Next]_vars => WaitInv'
<1> SUFFICES ASSUME PoolInv, KeptInv, WaitInv, [Next]_vars PROVE WaitInv'
    OBVIOUS
<1>1. CASE UNCHANGED vars
    BY <1>1 DEF vars, poolVars, WaitInv, Coming
<1> DEFINE Stopping == {"stTest", "stPop", "stLock", "stJoin"}
<1>2. ASSUME NEW i \in Ids, Begin(i) \/ Continue(i) PROVE WaitInv'
  <2>1. /\ \A t \in Threads \ {i} : pc'[t] = pc[t]
        /\ pc'[i] \in RunLabels \cup PostLabels
        /\ running' = running
        /\ \/ dead' # <<>> \/ Coming(i)'
           \/ dead' = dead /\ pc[i] = "ending"
      BY <1>2, WorkerStep
  <2>2. /\ \A v \in Users : pc'[v] = pc[v]
        /\ \A j \in Ids : pc'[j] \in RunLabels \cup PostLabels
      BY <2>1, NoneAssumption DEF WaitInv, Threads, Ids
  <2>3. dead # <<>> \/ (\E j \in Ids : Coming(j))
          => dead' # <<>> \/ \E j \in Ids : Coming(j)'
      BY <2>1 DEF Coming, PostLabels, Threads
  <2> QED BY <2>1, <2>2, <2>3 DEF WaitInv, Coming
<1>3. ASSUME NEW u \in Users, Begin(u) \/ Continue(u) PROVE WaitInv'
  <2>1. /\ \A i \in Ids : pc'[i] = pc[i] \/ pc'[i] = "test"
        /\ \A v \in Users \ {u} : pc'[v] = pc[v]
        /\ pc'[u] \in StopLabels => u \in Stoppers
      BY <1>3, UserStep
  <2>2. /\ \A i \in Ids : pc'[i] \in RunLabels \cup PostLabels
        /\ \A v \in Users : pc'[v] \in StopLabels => v \in Stoppers
      BY <2>1 DEF WaitInv, RunLabels
  <2>3. ASSUME ~LateCalls, NEW v \in Users, pc'[v] \in Stopping
        PROVE  /\ u = v /\ ContinueStop(u)
    <3>1. CASE u # v
        BY <1>3, <2>1, <2>3, <3>1, StopIsAlone DEF StopLabels
    <3>2. CASE u = v
      <4>1. u \notin Ids /\ u \in Threads
          BY NoneAssumption DEF Ids, Threads
      <4>2. pc'[u] \in Stopping /\ pc \in [Threads -> {pc[t] : t \in Threads}]
          BY <2>3, <3>2 DEF PoolInv, TypeOK
      <4>3. ~Begin(u)
          BY <4>1, <4>2 DEF Begin, Post, InTreat, Close, Resize, MayCall, Goto
      <4>4. ~ContinuePost(u)
          BY <4>1, <4>2
          DEF ContinuePost, BkErase, BkJoin, BkCount, PostTest, PostPush, Return, Goto
      <4>5. ~ContinueResize(u)
        <5>1. ~AddWorker(u)
          <6> SUFFICES ASSUME AddWorker(u) PROVE FALSE
              OBVIOUS
          <6>1. pc[u] = "add" /\ pc' = [pc EXCEPT ![lastId'] = "test"] /\ lastId' \in Ids
              BY SizesAssumption DEF AddWorker, PoolInv, TypeOK, Ids
          <6> QED BY <4>1, <4>2, <6>1
        <5>2. ~RemoveWorker(u)
            BY <4>2 DEF RemoveWorker
        <5> QED BY <4>1, <4>2, <5>1, <5>2 DEF ContinueResize, Shrink, Grow, LoopEnds, Goto
      <4> QED BY <1>3, <3>2, <4>1, <4>3, <4>4, <4>5 DEF Continue
    <3> QED BY <3>1, <3>2
  <2>4. ASSUME ~LateCalls, NEW v \in Users, pc'[v] \in Stopping
        PROVE  \A i \in Ids : ~running'[i]
    <3>1. u = v /\ ContinueStop(u)
        BY <2>3, <2>4
    <3>2. CASE TellStop(u)
      <4>1. \A i \in Ids \ workers : ~running[i]
          BY DEF PoolInv, IdsInv, JoinedOnce, HandInv, Holders, BookKeepers
      <4> QED BY <3>2, <4>1 DEF TellStop
    <3>3. CASE StTest(u) \/ StPop(u) \/ StLock(u) \/ StJoin(u)
        BY <2>4, <3>3 DEF WaitInv, StTest, StPop, StLock, StJoin, poolVars
    <3> QED BY <3>1, <3>2, <3>3 DEF ContinueStop
  <2>5. ASSUME ~LateCalls, NEW v \in Users, pc'[v] = "stPop"
        PROVE  dead' # <<>> \/ \E i \in Ids : Coming(i)'
    <3>1. u = v /\ ContinueStop(u)
        BY <2>3, <2>5
    <3>2. pc \in [Threads -> {pc[t] : t \in Threads}] /\ u \in Threads
        BY DEF PoolInv, TypeOK, Threads
    <3>3. StTest(u) /\ count > 0
        BY <2>5, <3>1, <3>2
        DEF ContinueStop, TellStop, StTest, SomeLeft, StPop, StLock, StJoin, Goto
    <3>4. dead # <<>> \/ \E i \in Ids : Coming(i)
        BY <2>5, <3>3, SomeoneComes DEF StTest
    <3>5. dead' = dead /\ \A i \in Ids : Coming(i) => Coming(i)'
        BY <2>1, <3>3 DEF StTest, Coming
    <3> QED BY <3>4, <3>5
  <2> QED BY <2>2, <2>4, <2>5 DEF WaitInv
<1> QED BY <1>1, <1>2, <1>3 DEF Next, Threads

\* The ids of the workers that ended, and those that stop() may wait for.
THEOREM StoppingInvHolds == Spec => []StoppingInv
<1>1. Init => KeptInv /\ WaitInv
  <2> SUFFICES ASSUME Init PROVE KeptInv /\ WaitInv
      OBVIOUS
  <2>1. /\ \A i \in Ids : pc[i] \in {"test", "unborn"}
        /\ \A u \in Users : pc[u] = "out"
      BY NoneAssumption DEF Init, Threads, Ids
  <2>2. KeptInv
      BY <2>1, SizesAssumption DEF Init, KeptInv, Ids
  <2>3. WaitInv
      BY <2>1 DEF WaitInv, RunLabels, StopLabels
  <2> QED BY <2>2, <2>3
<1>2. Init => StoppingInv
    BY <1>1, PoolInvInit DEF StoppingInv
<1>3. StoppingInv /\ [Next]_vars => StoppingInv'
    BY PoolInvStep, KeptStep, WaitStep DEF StoppingInv
<1> QED BY <1>2, <1>3, PTL DEF Spec

LEMMA NoWorkerIsLostFollows ==
  ASSUME StoppingInv
  PROVE  /\ \A i \in workers : Coming(i) \/ Taken(i)
         /\ count > 0 => \E i \in Ids : \/ Coming(i) \/ Taken(i)
                                        \/ \E t \in BookKeepers : held[t] = i
<1>1. TypeOK /\ IdsInv /\ HandInv /\ CountIsExact /\ KeptInv /\ WaitInv
    BY DEF StoppingInv, PoolInv
<1>2. ASSUME NEW i \in workers PROVE Coming(i) \/ Taken(i)
  <2>1. i \in Ids /\ i \in 1..lastId
      BY <1>1 DEF TypeOK, IdsInv
  <2>2. pc[i] # "unborn"
      BY <1>1, <2>1 DEF IdsInv, TypeOK
  <2>3. pc[i] \in RunLabels \cup PostLabels
      BY <1>1, <2>1 DEF WaitInv
  <2>4. CASE pc[i] \in {"ending", "ended"}
      BY <1>1, <2>4 DEF KeptInv
  <2>5. CASE pc[i] \notin {"ending", "ended"}
      BY <2>2, <2>3, <2>5 DEF Coming, RunLabels
  <2> QED BY <2>4, <2>5
<1>3. ASSUME count > 0
      PROVE  \E i \in Ids : Coming(i) \/ Taken(i) \/ \E t \in BookKeepers : held[t] = i
  <2>1. workers # {} \/ BookKeepers # {}
    <3>1. SUFFICES ASSUME workers = {}, BookKeepers = {} PROVE count = 0
        BY <1>3
    <3>2. Cardinality(workers) = 0 /\ Cardinality(BookKeepers) = 0
        BY <3>1, FS_EmptySet
    <3> QED BY <1>1, <3>2 DEF CountIsExact
  <2>2. CASE workers # {}
      BY <1>1, <1>2, <2>2 DEF TypeOK
  <2>3. CASE BookKeepers # {}
    <3>1. PICK t : t \in BookKeepers
        BY <2>3
    <3>2. t \in Holders
        BY <3>1 DEF BookKeepers, Holders
    <3>3. held[t] \in Ids
        BY <1>1, <3>2 DEF HandInv
    <3> QED BY <3>1, <3>3
  <2> QED BY <2>1, <2>2, <2>3
<1> QED BY <1>2, <1>3

\* Whoever calls what, and when: a worker of the map is on its way to
\* workers_to_destroy, there, or with the one thread that will join it, and
\* worker_count, on which stop() waits, is above zero only for such a worker or one
\* that is being joined.  When stop() is stuck, its count was out of date.
THEOREM NoWorkerIsLost ==
  Spec => [](/\ \A i \in workers : Coming(i) \/ Taken(i)
             /\ count > 0 => \E i \in Ids : \/ Coming(i) \/ Taken(i)
                                            \/ \E t \in BookKeepers : held[t] = i)
BY StoppingInvHolds, NoWorkerIsLostFollows, PTL
=============================================================================
