----------------------------- MODULE WorkerPool -----------------------------
(***************************************************************************)
(* core/worker-pool.h and worker-pool-detail.h: a pool of threads that     *)
(* treat posted messages, with resizing, lazy joining of ended workers by  *)
(* whoever posts next (bookKeep), and stop().                              *)
(*                                                                         *)
(* messages and workers_to_destroy are BlockingQueues, taken here as what  *)
(* they implement, a FIFO with open and close; that a sleeping pop() can   *)
(* miss close() is BlockingQueue.tla's finding and is left out here.       *)
(* Workers are their ids: the key in the map, and the thread.              *)
(***************************************************************************)
EXTENDS Sequences, Integers, FiniteSets, FiniteSetsExt

CONSTANTS Users,      \* the threads outside the pool
          Posters, Resizers, Stoppers,   \* what each of them may call
          Sizes,      \* the arguments of setNumWorkers
          NumWorkers, \* the argument of the constructor
          LateCalls,  \* whether users still call while one of them stops the pool
          MaxIds, MaxPosts, MaxResizes,  \* bounds: workers born, posts, resizes
          None

ASSUME UsersAssumption ==
  /\ IsFiniteSet(Users) /\ Posters \cup Resizers \cup Stoppers \subseteq Users
  /\ Cardinality(Stoppers) <= 1
  /\ LateCalls \in BOOLEAN
ASSUME SizesAssumption ==
  /\ Sizes \subseteq Nat
  /\ {NumWorkers, MaxIds, MaxPosts, MaxResizes} \subseteq Nat /\ NumWorkers <= MaxIds
ASSUME NoneAssumption == Users \cap Nat = {} /\ None \notin Users \cup Nat

Ids     == 1..MaxIds
Threads == Users \cup Ids

VARIABLES
  messages, opened,  \* how many messages are queued, and whether push() is accepted
  dead,              \* workers_to_destroy
  workers,           \* the keys of the map workers
  running,           \* the flag of each worker
  count,             \* worker_count
  lastId,
  lock,              \* who holds workers_mutex across a join, or None
  pc,
  held,              \* the id each thread took from workers_to_destroy
  goal, left,        \* n and the loop counter of each setNumWorkers
  posts, resizes     \* calls so far

vars == <<messages, opened, dead, workers, running, count, lastId, lock, pc, held, goal,
          left, posts, resizes>>

poolVars == <<workers, running, count, lastId, lock>>
callVars == <<held, goal, left, posts, resizes>>

RunLabels    == {"unborn", "test", "pop", "treat", "push", "ending", "ended"}
PostLabels   == {"bkErase", "bkJoin", "bkCount", "postTest", "postPush"}
ResizeLabels == {"compare", "shrink", "remove", "grow", "add"}
StopLabels   == {"tellStop", "stTest", "stPop", "stLock", "stJoin", "stopped"}

TypeOK ==
  /\ messages \in Nat /\ opened \in BOOLEAN
  /\ dead \in Seq(Ids)
  /\ workers \in SUBSET Ids /\ running \in [Ids -> BOOLEAN]
  /\ count \in Nat /\ lastId \in 0..MaxIds
  /\ lock \in Users \cup {None}
  /\ pc \in [Threads -> {"out"} \cup RunLabels \cup PostLabels \cup ResizeLabels \cup StopLabels]
  /\ held \in [Threads -> Ids \cup {None}]
  /\ goal \in [Users -> Nat] /\ left \in [Users -> Int]
  /\ posts \in 0..MaxPosts /\ resizes \in 0..MaxResizes

Init ==
  /\ messages = 0 /\ opened = TRUE /\ dead = <<>>
  /\ workers = 1..NumWorkers
  /\ running = [i \in Ids |-> i <= NumWorkers]
  /\ count = NumWorkers /\ lastId = NumWorkers
  /\ lock = None
  /\ pc = [t \in Threads |->
             IF t \in Users THEN "out" ELSE IF t <= NumWorkers THEN "test" ELSE "unborn"]
  /\ held = [t \in Threads |-> None]
  /\ goal = [u \in Users |-> 0] /\ left = [u \in Users |-> 0]
  /\ posts = 0 /\ resizes = 0

Goto(t, label) == pc' = [pc EXCEPT ![t] = label]
Unlocked       == lock = None

-----------------------------------------------------------------------------
(* Worker::run *)

\* Mutant: a worker ends after its first message, told to or not.
ToldOrNot(i) == TRUE

ToldToStop(i) == ~running[i]

TestRunning(i) ==
  /\ pc[i] = "test"
  /\ Goto(i, IF ToldToStop(i) THEN "push" ELSE "pop")
  /\ UNCHANGED <<messages, opened, dead, poolVars, callVars>>

\* messages.pop(): NULL, which is not treated, only when closed and empty
PopMessage(i) ==
  /\ pc[i] = "pop"
  /\ \/ /\ messages > 0
        /\ messages' = messages - 1
        /\ Goto(i, "treat")
     \/ /\ messages = 0 /\ ~opened
        /\ Goto(i, "test")
        /\ UNCHANGED messages
  /\ UNCHANGED <<opened, dead, poolVars, callVars>>

FinishTreat(i) ==
  /\ i \in Ids /\ pc[i] = "treat"
  /\ Goto(i, "test")
  /\ UNCHANGED <<messages, opened, dead, poolVars, callVars>>

PushDead(i) ==
  /\ pc[i] = "push"
  /\ dead' = Append(dead, i)
  /\ Goto(i, "ending")
  /\ UNCHANGED <<messages, opened, poolVars, callVars>>

End(i) ==
  /\ pc[i] = "ending"
  /\ Goto(i, "ended")
  /\ UNCHANGED <<messages, opened, dead, poolVars, callVars>>

Run(i) == TestRunning(i) \/ PopMessage(i) \/ FinishTreat(i) \/ PushDead(i) \/ End(i)

-----------------------------------------------------------------------------
(* post, called by users and by the code that treats a message *)

InTreat(t) == t \in Ids /\ pc[t] = "treat"
MayCall(u) == pc[u] = "out" /\ (LateCalls \/ opened)
Return(t)  == Goto(t, IF t \in Ids THEN "treat" ELSE "out")

\* tryPop() also gives nothing when the mutex of the queue is taken
Post(t) ==
  /\ InTreat(t) \/ (t \in Posters /\ MayCall(t))
  /\ posts < MaxPosts /\ posts' = posts + 1
  /\ \/ /\ dead # <<>>
        /\ held' = [held EXCEPT ![t] = Head(dead)]
        /\ dead' = Tail(dead)
        /\ Goto(t, "bkErase")
     \/ /\ Goto(t, "postTest")
        /\ UNCHANGED <<dead, held>>
  /\ UNCHANGED <<messages, opened, poolVars, goal, left, resizes>>

BkErase(t) ==
  /\ pc[t] = "bkErase" /\ Unlocked
  /\ \/ /\ held[t] \in workers
        /\ workers' = workers \ {held[t]}
        /\ Goto(t, "bkJoin")
     \/ /\ held[t] \notin workers
        /\ Goto(t, "postTest")
        /\ UNCHANGED workers
  /\ UNCHANGED <<messages, opened, dead, running, count, lastId, lock, callVars>>

\* join() returns when the thread has ended
Joined(t) == pc[held[t]] = "ended"

BkJoin(t) ==
  /\ pc[t] = "bkJoin" /\ Joined(t)
  /\ Goto(t, "bkCount")
  /\ UNCHANGED <<messages, opened, dead, poolVars, callVars>>

\* Mutants: bookKeep forgets worker_count, or lowers it with the map and again
\* after the join.
NotCounted == count
TwoLess    == count - 2

OneLess == count - 1

BkCount(t) ==
  /\ pc[t] = "bkCount"
  /\ count' = OneLess
  /\ Goto(t, "postTest")
  /\ UNCHANGED <<messages, opened, dead, workers, running, lastId, lock, callVars>>

\* messages.push() reads opened before it takes the mutex of the queue
PostTest(t) ==
  /\ pc[t] = "postTest"
  /\ IF opened THEN Goto(t, "postPush") ELSE Return(t)
  /\ UNCHANGED <<messages, opened, dead, poolVars, callVars>>

PostPush(t) ==
  /\ pc[t] = "postPush"
  /\ messages' = messages + 1
  /\ Return(t)
  /\ UNCHANGED <<opened, dead, poolVars, callVars>>

ContinuePost(t) == BkErase(t) \/ BkJoin(t) \/ BkCount(t) \/ PostTest(t) \/ PostPush(t)

-----------------------------------------------------------------------------
(* setNumWorkers: worker_count is read twice, then one worker at a time *)

Resize(u, n) ==
  /\ u \in Resizers /\ MayCall(u)
  /\ resizes < MaxResizes /\ resizes' = resizes + 1
  /\ goal' = [goal EXCEPT ![u] = n]
  /\ Goto(u, IF count > n THEN "shrink" ELSE "grow")
  /\ UNCHANGED <<messages, opened, dead, poolVars, held, left, posts>>

Shrink(u) ==
  /\ pc[u] = "shrink"
  /\ left' = [left EXCEPT ![u] = count - goal[u]]
  /\ Goto(u, "remove")
  /\ UNCHANGED <<messages, opened, dead, poolVars, held, goal, posts, resizes>>

Grow(u) ==
  /\ pc[u] = "grow"
  /\ left' = [left EXCEPT ![u] = goal[u] - count]
  /\ Goto(u, "add")
  /\ UNCHANGED <<messages, opened, dead, poolVars, held, goal, posts, resizes>>

\* The first worker of the map whose flag tellStop() turned off, if any
RemoveWorker(u) ==
  /\ pc[u] = "remove" /\ left[u] > 0 /\ Unlocked
  /\ left' = [left EXCEPT ![u] = @ - 1]
  /\ LET up == {i \in workers : running[i]}
     IN  running' = IF up = {} THEN running ELSE [running EXCEPT ![Min(up)] = FALSE]
  /\ UNCHANGED <<messages, opened, dead, workers, count, lastId, lock, pc, held, goal, posts,
                 resizes>>

AddWorker(u) ==
  /\ pc[u] = "add" /\ left[u] > 0 /\ Unlocked
  /\ lastId < MaxIds /\ lastId' = lastId + 1
  /\ left' = [left EXCEPT ![u] = @ - 1]
  /\ workers' = workers \cup {lastId'}
  /\ running' = [running EXCEPT ![lastId'] = TRUE]
  /\ pc' = [pc EXCEPT ![lastId'] = "test"]
  /\ count' = count + 1
  /\ UNCHANGED <<messages, opened, dead, lock, held, goal, posts, resizes>>

LoopEnds(u) ==
  /\ pc[u] \in {"remove", "add"} /\ left[u] <= 0
  /\ Goto(u, "out")
  /\ UNCHANGED <<messages, opened, dead, poolVars, callVars>>

ContinueResize(u) ==
  Shrink(u) \/ Grow(u) \/ RemoveWorker(u) \/ AddWorker(u) \/ LoopEnds(u)

-----------------------------------------------------------------------------
(* stop *)

Close(u) ==
  /\ u \in Stoppers /\ MayCall(u) /\ opened
  /\ LateCalls \/ \A v \in Users : pc[v] = "out"
  /\ opened' = FALSE
  /\ Goto(u, "tellStop")
  /\ UNCHANGED <<messages, dead, poolVars, callVars>>

TellStop(u) ==
  /\ pc[u] = "tellStop" /\ Unlocked
  /\ running' = [i \in Ids |-> running[i] /\ i \notin workers]
  /\ Goto(u, "stTest")
  /\ UNCHANGED <<messages, opened, dead, workers, count, lastId, lock, callVars>>

\* Mutant: the wait leaves one worker behind.
SomeLeftButOne == count > 1

SomeLeft == count > 0

StTest(u) ==
  /\ pc[u] = "stTest"
  /\ Goto(u, IF SomeLeft THEN "stPop" ELSE "stopped")
  /\ UNCHANGED <<messages, opened, dead, poolVars, callVars>>

\* workers_to_destroy is never closed: pop() waits for an id
StPop(u) ==
  /\ pc[u] = "stPop" /\ dead # <<>>
  /\ held' = [held EXCEPT ![u] = Head(dead)]
  /\ dead' = Tail(dead)
  /\ Goto(u, "stLock")
  /\ UNCHANGED <<messages, opened, poolVars, goal, left, posts, resizes>>

StLock(u) ==
  /\ pc[u] = "stLock" /\ Unlocked
  /\ \/ held[u] \in workers /\ lock' = u /\ Goto(u, "stJoin")
     \/ held[u] \notin workers /\ Goto(u, "stTest") /\ UNCHANGED lock
  /\ UNCHANGED <<messages, opened, dead, workers, running, count, lastId, callVars>>

StJoin(u) ==
  /\ pc[u] = "stJoin" /\ Joined(u)
  /\ workers' = workers \ {held[u]}
  /\ count' = count - 1
  /\ lock' = None
  /\ Goto(u, "stTest")
  /\ UNCHANGED <<messages, opened, dead, running, lastId, callVars>>

ContinueStop(u) == TellStop(u) \/ StTest(u) \/ StPop(u) \/ StLock(u) \/ StJoin(u)

-----------------------------------------------------------------------------
Begin(t) ==
  Post(t) \/ (t \in Users /\ (Close(t) \/ \E n \in Sizes : Resize(t, n)))

\* What a thread does once it is in a call, or in the pool
Continue(t) ==
  \/ t \in Ids /\ Run(t)
  \/ ContinuePost(t)
  \/ t \in Users /\ (ContinueResize(t) \/ ContinueStop(t))

Next == \E t \in Threads : Begin(t) \/ Continue(t)

Spec == Init /\ [][Next]_vars

\* Every thread runs, and treat() returns.  No fairness of the mutexes is
\* needed, and nobody has to call anything.
FairSpec == Spec /\ \A t \in Threads : WF_vars(Continue(t))

-----------------------------------------------------------------------------
(* Safety *)

BookKeepers == {t \in Threads : pc[t] \in {"bkJoin", "bkCount"}}

\* worker_count, which stop() and setNumWorkers() trust, counts the map and the
\* workers that a bookKeep() took out of it and did not join yet, and no other.
CountIsExact == count = Cardinality(workers) + Cardinality(BookKeepers)

\* Each worker is joined exactly once: an id leaves workers_to_destroy for one
\* thread, which finds it in the map, and no std::thread is destroyed joinable.
\* A worker that is joined was told to stop, the assertion in wait(), and its loop
\* is over: bookKeep() cannot hold up a post(), nor stop() hold workers_mutex, for
\* the length of a message.
JoinedOnce ==
  /\ \A t \in Threads : pc[t] \in {"bkErase", "stLock", "stJoin"} => held[t] \in workers
  /\ \A t \in Threads : pc[t] = "bkCount" => pc[held[t]] = "ended"
  /\ \A i \in Ids \ workers :
       pc[i] \in {"unborn", "ended"} \/ \E t \in BookKeepers : held[t] = i
  /\ \A t \in Threads :
       pc[t] \in {"bkJoin", "stJoin"} => ~running[held[t]] /\ pc[held[t]] \in {"ending", "ended"}

\* After stop() no thread of the pool is left, though handlers that were still
\* posting joined some of them on the way.
StoppedMeansGone ==
  (\E u \in Users : pc[u] = "stopped") => \A i \in Ids : pc[i] \in {"unborn", "ended"}

-----------------------------------------------------------------------------
(* The inductive invariant *)

Holders == {t \in Threads : pc[t] \in {"bkErase", "bkJoin", "bkCount", "stLock", "stJoin"}}

\* Ids are given in order, and a worker whose loop is over was told to stop.
IdsInv ==
  /\ workers \subseteq 1..lastId
  /\ \A i \in Ids : pc[i] = "unborn" <=> i > lastId
  /\ \A i \in Ids : running[i] => pc[i] \notin {"unborn", "push", "ending", "ended"}

\* The id of a worker that ended its loop is once in workers_to_destroy, then with
\* one thread; bookKeep() takes it out of the map, stop() leaves it there.
HandInv ==
  /\ \A k \in DOMAIN dead : dead[k] \in workers /\ pc[dead[k]] \in {"ending", "ended"}
  /\ \A k, l \in DOMAIN dead : dead[k] = dead[l] => k = l
  /\ \A t \in Holders : held[t] \in Ids /\ pc[held[t]] \in {"ending", "ended"}
  /\ \A t \in Holders : \A k \in DOMAIN dead : dead[k] # held[t]
  /\ \A t, u \in Holders : held[t] = held[u] => t = u
  /\ \A t \in BookKeepers : held[t] \notin workers

\* Unless users still call, stop() is alone with the workers.
StopInv ==
  /\ \A u \in Users : pc[u] \in StopLabels => ~opened
  /\ ~LateCalls /\ ~opened => \A u \in Users : pc[u] \in StopLabels \cup {"out"}
  /\ ~LateCalls /\ (\E u \in Users : pc[u] = "stopped") => workers = {} /\ BookKeepers = {}

PoolInv == TypeOK /\ IdsInv /\ HandInv /\ JoinedOnce /\ CountIsExact /\ StopInv

\* No id is lost: that of a worker of the map that left its loop waits in
\* workers_to_destroy, or somebody took it and is about to join the worker.
Taken(i) ==
  \/ \E k \in DOMAIN dead : dead[k] = i
  \/ \E t \in Threads : pc[t] \in {"bkErase", "stLock", "stJoin"} /\ held[t] = i

KeptInv == \A i \in workers : pc[i] \in {"ending", "ended"} => Taken(i)

\* A worker that will push its id, once its message is treated
Coming(i) == pc[i] \in PostLabels \cup {"test", "pop", "treat", "push"}

\* While stop() waits for an id there is one, or one will come from a worker that
\* was told to stop, though handlers that post take ids away from it.
WaitInv ==
  /\ \A i \in Ids : pc[i] \in RunLabels \cup PostLabels
  /\ \A u \in Users : pc[u] \in StopLabels => u \in Stoppers
  /\ ~LateCalls => \A u \in Users :
       /\ pc[u] \in {"stTest", "stPop", "stLock", "stJoin"} => \A i \in Ids : ~running[i]
       /\ pc[u] = "stPop" => dead # <<>> \/ \E i \in Ids : Coming(i)

StoppingInv == PoolInv /\ KeptInv /\ WaitInv

-----------------------------------------------------------------------------
(* Liveness *)

\* stop() returns: it waits for one id per worker it counts, and handlers that
\* post meanwhile take some of these ids away from it.
StopReturns == \A u \in Users : pc[u] = "tellStop" ~> pc[u] = "stopped"
=============================================================================
