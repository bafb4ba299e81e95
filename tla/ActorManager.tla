---------------------------- MODULE ActorManager ----------------------------
(***************************************************************************)
(* core/actor-manager*.h/.cpp and core/actor.cpp: actors whose messages    *)
(* are run by a pool of workers, one message at a time per actor, and that *)
(* are deleted by the worker that finds them dead.                         *)
(*                                                                         *)
(* Two kinds of mutex are explicit: actorsLock, which guards the map of    *)
(* actors, and the mutex of each actor, held while one of its messages     *)
(* runs.  The message queue of the pool is a FIFO (BlockingQueue.tla).     *)
(* Posters are all the other threads: users of ActorId, the network, and   *)
(* the timeout launcher, which posts like anybody else.                    *)
(***************************************************************************)
EXTENDS Sequences, Naturals, FiniteSets

CONSTANTS Workers,       \* the threads of the pool
          Posters,       \* every other thread
          Actors,        \* the actors that can be added, each once
          HandlerCalls,  \* what the code of the handlers may do
          MaxPosts,      \* bound: messages posted and kills, all together
          None

Calls == {"post", "killSelf", "kill", "add"}

ASSUME ThreadsAssumption == Workers \cap Posters = {} /\ None \notin Workers \cup Posters \cup Actors
ASSUME CallsAssumption   == HandlerCalls \subseteq Calls
ASSUME PostsAssumption   == MaxPosts \in Nat

Threads == Workers \cup Posters

VARIABLES
  messages,    \* the queue of the pool; null is the empty function of kill()
  registered,  \* the keys of the map actors
  memory,      \* of each actor: unborn, new (not in the map yet), live, freed
  alive,       \* the flag of each actor
  actorsLock,  \* the thread that holds actorsLock, or None
  mutex,       \* of each actor: the thread that holds its mutex, or None
  pc,
  current,     \* the message each worker treats
  target,      \* the actor that the call of each thread is about
  posts        \* messages posted so far

vars == <<messages, registered, memory, alive, actorsLock, mutex, pc, current, target, posts>>

Message  == [to : Actors, null : BOOLEAN]

\* In treat; a handler runs in "home" and in the labels of the calls it makes.
TreatLabels == {"idle", "treat", "find", "lockActor", "test", "delete", "erase"}
CallLabels  == {"killLock", "killFind", "killPost", "addLock", "addInsert"}
Labels      == TreatLabels \cup CallLabels \cup {"home"}

Handling(w) == w \in Workers /\ pc[w] \in CallLabels \cup {"home"}
Subject(w)  == current[w].to

TypeOK ==
  /\ messages \in Seq(Message)
  /\ registered \in SUBSET Actors
  /\ memory \in [Actors -> {"unborn", "new", "live", "freed"}]
  /\ alive \in [Actors -> BOOLEAN]
  /\ actorsLock \in Threads \cup {None}
  /\ mutex \in [Actors -> Workers \cup {None}]
  /\ pc \in [Threads -> Labels]
  /\ current \in [Workers -> Message \cup {None}]
  /\ target \in [Threads -> Actors \cup {None}]
  /\ posts \in Nat

Init ==
  /\ messages = <<>>
  /\ registered = {}
  /\ memory = [a \in Actors |-> "unborn"]
  /\ alive = [a \in Actors |-> FALSE]
  /\ actorsLock = None
  /\ mutex = [a \in Actors |-> None]
  /\ pc = [t \in Threads |-> IF t \in Workers THEN "idle" ELSE "home"]
  /\ current = [w \in Workers |-> None]
  /\ target = [t \in Threads |-> None]
  /\ posts = 0

Goto(t, label) == pc' = [pc EXCEPT ![t] = label]

\* Mutant: the map is read without its lock.
ActorsFreeAlways == TRUE

ActorsFree == actorsLock = None

LockActors(t, from, to) ==
  /\ pc[t] = from /\ ActorsFree
  /\ actorsLock' = t
  /\ Goto(t, to)

-----------------------------------------------------------------------------
(* ActorWorkers::treat *)

TakeMessage(w) ==
  /\ pc[w] = "idle"
  /\ messages # <<>>
  /\ current' = [current EXCEPT ![w] = Head(messages)]
  /\ messages' = Tail(messages)
  /\ Goto(w, "treat")
  /\ UNCHANGED <<registered, memory, alive, actorsLock, mutex, target, posts>>

TreatLock(w) ==
  /\ LockActors(w, "treat", "find")
  /\ UNCHANGED <<messages, registered, memory, alive, mutex, current, target, posts>>

Find(w) ==
  /\ pc[w] = "find"
  /\ \/ /\ Subject(w) \in registered
        /\ Goto(w, "lockActor")
        /\ UNCHANGED actorsLock
     \/ /\ Subject(w) \notin registered
        /\ actorsLock' = None
        /\ Goto(w, "idle")
  /\ UNCHANGED <<messages, registered, memory, alive, mutex, current, target, posts>>

\* Mutant: the mutex of the actor is not waited for.
ActorFreeAlways(a) == TRUE

ActorFree(a) == mutex[a] = None

\* actor->lock(), with actorsLock still held
LockActor(w) ==
  /\ pc[w] = "lockActor"
  /\ ActorFree(Subject(w))
  /\ mutex' = [mutex EXCEPT ![Subject(w)] = w]
  /\ Goto(w, "test")
  /\ UNCHANGED <<messages, registered, memory, alive, actorsLock, current, target, posts>>

\* Mutant: the map is released before a dead actor leaves it.
HoldsMapToDeleteNever == None

HoldsMapToDelete == actorsLock

TestAlive(w) ==
  /\ pc[w] = "test"
  /\ \/ /\ alive[Subject(w)]
        /\ actorsLock' = None
        /\ Goto(w, "home")
        /\ UNCHANGED mutex
     \/ /\ ~alive[Subject(w)]
        /\ mutex' = [mutex EXCEPT ![Subject(w)] = None]
        /\ actorsLock' = HoldsMapToDelete
        /\ Goto(w, "delete")
  /\ UNCHANGED <<messages, registered, memory, alive, current, target, posts>>

Delete(w) ==
  /\ pc[w] = "delete"
  /\ memory' = [memory EXCEPT ![Subject(w)] = "freed"]
  /\ Goto(w, "erase")
  /\ UNCHANGED <<messages, registered, alive, actorsLock, mutex, current, target, posts>>

Erase(w) ==
  /\ pc[w] = "erase"
  /\ registered' = registered \ {Subject(w)}
  /\ actorsLock' = None
  /\ Goto(w, "idle")
  /\ UNCHANGED <<messages, memory, alive, mutex, current, target, posts>>

\* internal_treat returned: actor->unlock()
FinishHandler(w) ==
  /\ w \in Workers /\ pc[w] = "home"
  /\ mutex' = [mutex EXCEPT ![Subject(w)] = None]
  /\ Goto(w, "idle")
  /\ UNCHANGED <<messages, registered, memory, alive, actorsLock, current, target, posts>>

-----------------------------------------------------------------------------
(* What handlers and posters call.  An id is known once its actor is added. *)

MayCall(t, c) == pc[t] = "home" /\ (t \in Workers => c \in HandlerCalls)
Known(a)      == memory[a] \in {"live", "freed"}
Count         == posts < MaxPosts /\ posts' = posts + 1

\* ActorId::post, ActorManager::post
Post(t, a) ==
  /\ MayCall(t, "post") /\ Known(a) /\ Count
  /\ messages' = Append(messages, [to |-> a, null |-> FALSE])
  /\ UNCHANGED <<registered, memory, alive, actorsLock, mutex, pc, current, target>>

ClearFlag(a) == [alive EXCEPT ![a] = FALSE]

\* Mutants: Actor::kill goes through the manager, or posts nothing.
SelfKillByManager == "killLock"
SelfKillSilent    == "home"

SelfKillThen == "killPost"

\* Actor::kill, which a handler calls on its own actor
KillSelf(w) ==
  /\ w \in Workers /\ MayCall(w, "killSelf") /\ Count
  /\ alive' = ClearFlag(Subject(w))
  /\ target' = [target EXCEPT ![w] = Subject(w)]
  /\ Goto(w, SelfKillThen)
  /\ UNCHANGED <<messages, registered, memory, actorsLock, mutex, current>>

\* ActorManager::kill, reached by ActorId::kill
Kill(t, a) ==
  /\ MayCall(t, "kill") /\ Known(a) /\ Count
  /\ target' = [target EXCEPT ![t] = a]
  /\ Goto(t, "killLock")
  /\ UNCHANGED <<messages, registered, memory, alive, actorsLock, mutex, current>>

KillLock(t) ==
  /\ LockActors(t, "killLock", "killFind")
  /\ UNCHANGED <<messages, registered, memory, alive, mutex, current, target, posts>>

KillFind(t) ==
  /\ pc[t] = "killFind"
  /\ actorsLock' = None
  /\ \/ /\ target[t] \in registered
        /\ alive' = ClearFlag(target[t])
        /\ Goto(t, "killPost")
     \/ /\ target[t] \notin registered
        /\ Goto(t, "home")
        /\ UNCHANGED alive
  /\ UNCHANGED <<messages, registered, memory, mutex, current, target, posts>>

KillPost(t) ==
  /\ pc[t] = "killPost"
  /\ messages' = Append(messages, [to |-> target[t], null |-> TRUE])
  /\ Goto(t, "home")
  /\ UNCHANGED <<registered, memory, alive, actorsLock, mutex, current, target, posts>>

\* ActorManager::add: the actor is alive before it enters the map
Add(t, a) ==
  /\ MayCall(t, "add") /\ memory[a] = "unborn"
  /\ memory' = [memory EXCEPT ![a] = "new"]
  /\ alive' = [alive EXCEPT ![a] = TRUE]
  /\ target' = [target EXCEPT ![t] = a]
  /\ Goto(t, "addLock")
  /\ UNCHANGED <<messages, registered, actorsLock, mutex, current, posts>>

AddLock(t) ==
  /\ LockActors(t, "addLock", "addInsert")
  /\ UNCHANGED <<messages, registered, memory, alive, mutex, current, target, posts>>

AddInsert(t) ==
  /\ pc[t] = "addInsert"
  /\ registered' = registered \cup {target[t]}
  /\ memory' = [memory EXCEPT ![target[t]] = "live"]
  /\ actorsLock' = None
  /\ Goto(t, "home")
  /\ UNCHANGED <<messages, alive, mutex, current, target, posts>>

-----------------------------------------------------------------------------
Treat(w) ==
  \/ TakeMessage(w) \/ TreatLock(w) \/ Find(w) \/ LockActor(w) \/ TestAlive(w)
  \/ Delete(w) \/ Erase(w)

Begin(t) == KillSelf(t) \/ \E a \in Actors : Post(t, a) \/ Kill(t, a) \/ Add(t, a)

Continue(t) == KillLock(t) \/ KillFind(t) \/ KillPost(t) \/ AddLock(t) \/ AddInsert(t)

Next ==
  \/ \E w \in Workers : Treat(w) \/ FinishHandler(w)
  \/ \E t \in Threads : Begin(t) \/ Continue(t)

Spec == Init /\ [][Next]_vars

\* Every thread runs, every handler ends, and a thread that keeps asking for a
\* mutex gets it.  Nobody has to call anything.
Fairness ==
  /\ \A w \in Workers : SF_vars(Treat(w)) /\ WF_vars(FinishHandler(w))
  /\ \A t \in Threads : SF_vars(Continue(t))

FairSpec == Spec /\ Fairness

-----------------------------------------------------------------------------
(* Safety *)

\* At most one worker runs a message of an actor at a time, whoever posted it:
\* the code of actors relies on it and takes no lock of its own (treat 79-103).
OneHandlerPerActor ==
  \A v, w \in Workers : Handling(v) /\ Handling(w) /\ v # w => Subject(v) # Subject(w)

\* No worker follows a pointer to a deleted actor, deletes one twice, or finds
\* one in the map: not while it waits for the mutex, not in a handler during
\* which another thread calls kill().
NoUseAfterFree ==
  /\ \A w \in Workers :
       Handling(w) \/ pc[w] \in {"lockActor", "test", "delete"} => memory[Subject(w)] = "live"
  /\ actorsLock = None => \A a \in registered : memory[a] = "live"

\* The empty function that kill() posts to have the actor deleted is never
\* called, which would throw std::bad_function_call in the worker.
EmptyMessageNeverRuns == \A w \in Workers : Handling(w) => ~current[w].null

\* The comment at actor-manager.cpp:86: "there won't be deadlocks as we always
\* acquire actor before unlocking actorsLock".  No worker waits for the mutex of
\* an actor, with actorsLock, while the handler that has it waits for actorsLock.
NoLockCycle ==
  \A v, w \in Workers :
    ~ /\ pc[v] = "lockActor" /\ mutex[Subject(v)] = w
      /\ Handling(w) /\ pc[w] \in {"killLock", "addLock"}

-----------------------------------------------------------------------------
(* The inductive invariant *)

\* Where a thread holds actorsLock, and what every label knows of its actor.
MapLabels == {"find", "lockActor", "test", "delete", "erase", "killFind", "addInsert"}

HolderInv == \A t \in Threads : actorsLock = t <=> pc[t] \in MapLabels

MutexInv ==
  \A a \in Actors, w \in Workers :
    mutex[a] = w <=> (pc[w] = "test" \/ Handling(w)) /\ Subject(w) = a

WorkerInv ==
  /\ \A w \in Workers : pc[w] # "idle" => current[w] \in Message
  /\ \A w \in Workers : pc[w] \in {"lockActor", "test", "delete"} => Subject(w) \in registered
  /\ \A w \in Workers : pc[w] = "delete" => mutex[Subject(w)] = None
  /\ \A w \in Workers : pc[w] = "erase" => memory[Subject(w)] = "freed"
  /\ \A t \in Posters : pc[t] \in CallLabels \cup {"home"}

MemoryInv ==
  /\ \A w \in Workers :
       Handling(w) \/ pc[w] \in {"lockActor", "test", "delete"} => memory[Subject(w)] = "live"
  /\ \A a \in registered :
       memory[a] # "live" => \E w \in Workers : pc[w] = "erase" /\ Subject(w) = a

CallerInv ==
  /\ \A t \in Threads : pc[t] \in CallLabels => target[t] \in Actors
  /\ \A t \in Threads : pc[t] \in {"addLock", "addInsert"} => memory[target[t]] = "new"
  /\ \A t \in Threads : pc[t] \in {"killLock", "killFind", "killPost"} => Known(target[t])
  /\ \A s, t \in Threads :
       /\ pc[s] \in {"addLock", "addInsert"} /\ pc[t] \in {"addLock", "addInsert"}
       /\ target[s] = target[t]
       => s = t

\* An empty message is always about an actor whose flag is already down.
NullInv ==
  /\ \A i \in DOMAIN messages :
       Known(messages[i].to) /\ (messages[i].null => ~alive[messages[i].to])
  /\ \A w \in Workers :
       pc[w] # "idle" => Known(Subject(w)) /\ (current[w].null => ~alive[Subject(w)])
  /\ \A t \in Threads : pc[t] = "killPost" => ~alive[target[t]]

\* An actor of the map that was killed is on its way out: a message to it waits,
\* a worker is about to test its flag or to delete it, or a kill() is about to
\* post.  Without this a dead actor could stay in the map for ever.
Doomed(a) ==
  \/ \E i \in DOMAIN messages : messages[i].to = a
  \/ \E w \in Workers : pc[w] \in {"treat", "find", "lockActor", "test", "delete"} /\ Subject(w) = a
  \/ \E t \in Threads : pc[t] = "killPost" /\ target[t] = a

KilledInv ==
  \A a \in Actors :
    /\ memory[a] = "new" => alive[a]
    /\ memory[a] = "live" => a \in registered /\ (alive[a] \/ Doomed(a))

\* The locks and the memory together: the mutual exclusion of the map and of
\* each actor, and what the holders may rely on.  Every step of the manager
\* keeps it, so it is what the safety properties are proved from.
ManagerInv ==
  /\ TypeOK /\ HolderInv /\ MutexInv /\ WorkerInv /\ MemoryInv /\ CallerInv /\ NullInv
  /\ EmptyMessageNeverRuns /\ KilledInv

-----------------------------------------------------------------------------
(* Liveness *)

\* A killed actor is deleted: the message kill() posts after it cleared the flag
\* always finds its way to a worker.
KilledIsDeleted ==
  \A a \in Actors : (memory[a] = "live" /\ ~alive[a]) ~> memory[a] = "freed"
=============================================================================
