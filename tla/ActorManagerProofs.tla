------------------------ MODULE ActorManagerProofs ------------------------
(***************************************************************************)
(* Theorems about ActorManager, for any number of workers, other threads   *)
(* and actors, any bound on posts, and handlers that make any calls unless *)
(* a theorem says otherwise.                                               *)
(***************************************************************************)
EXTENDS ActorManager, TLAPS

\* The constructor establishes the inductive invariant.
LEMMA ManagerInvInit == Init => ManagerInv
  BY ThreadsAssumption
  DEF Init, ManagerInv, TypeOK, HolderInv, MutexInv, WorkerInv, MemoryInv, CallerInv, NullInv,
      EmptyMessageNeverRuns, KilledInv, Threads, TreatLabels, CallLabels, Labels, MapLabels, Handling,
      Subject

-----------------------------------------------------------------------------
(* Each action preserves it: one step per conjunct. *)

\* BlockingQueue::pop in Worker::run hands a message to a worker.
LEMMA TakeMessageInv ==
  ASSUME ManagerInv, NEW w \in Workers, TakeMessage(w)
  PROVE  ManagerInv'
<1> USE DEF ManagerInv, TakeMessage, Goto
<1>a. Head(messages) \in Message /\ Tail(messages) \in Seq(Message)
    BY DEF TypeOK
<1>1. TypeOK'
    BY <1>a DEF TypeOK, TreatLabels, Labels
<1>2. HolderInv'
    BY DEF HolderInv, MapLabels
<1>3. MutexInv'
    BY DEF MutexInv, CallLabels, Handling, Subject
<1>4. WorkerInv'
    BY <1>a, ThreadsAssumption DEF TypeOK, HolderInv, WorkerInv, MemoryInv, CallerInv,
        EmptyMessageNeverRuns, Subject
<1>5. MemoryInv'
    BY DEF MemoryInv, CallerInv, CallLabels, Handling, Subject
<1>6. CallerInv'
    BY DEF CallerInv, CallLabels, Known
<1>7. NullInv'
    BY DEF TypeOK, NullInv, Subject, Known
<1>8. EmptyMessageNeverRuns'
    BY DEF EmptyMessageNeverRuns, CallLabels, Handling
<1>9. KilledInv'
  <2> SUFFICES ASSUME NEW a \in Actors, memory[a] = "live", ~alive[a], Doomed(a)
               PROVE  Doomed(a)'
      BY DEF KilledInv
  <2>1. w \in Threads /\ pc'[w] = "treat" /\ current'[w] = messages[1]
        /\ \A t \in Threads : pc[t] # "idle" => pc'[t] = pc[t]
      BY DEF TypeOK, Threads
  <2>2. \A v \in Workers : pc[v] # "idle" => Subject(v)' = Subject(v)
      BY DEF TypeOK, Subject
  <2>3. \A i \in DOMAIN messages : i = 1 \/ (i - 1 \in DOMAIN messages' /\ messages'[i - 1] = messages[i])
      BY DEF TypeOK
  <2>4. CASE \E i \in DOMAIN messages : messages[i].to = a
    <3>1. PICK i \in DOMAIN messages : messages[i].to = a
        BY <2>4
    <3>2. CASE i = 1
      <4>1. pc'[w] = "treat" /\ Subject(w)' = a
          BY <2>1, <3>1, <3>2 DEF Subject
      <4> QED BY <4>1 DEF Doomed
    <3>3. CASE i # 1
      <4>1. i - 1 \in DOMAIN messages' /\ messages'[i - 1].to = a
          BY <2>3, <3>1, <3>3
      <4> QED BY <4>1 DEF Doomed
    <3> QED BY <3>2, <3>3
  <2>5. CASE \E v \in Workers :
               pc[v] \in {"treat", "find", "lockActor", "test", "delete"} /\ Subject(v) = a
      BY <2>1, <2>2, <2>5 DEF Doomed, Threads
  <2>6. CASE \E t \in Threads : pc[t] = "killPost" /\ target[t] = a
      BY <2>1, <2>6 DEF Doomed
  <2> QED BY <2>4, <2>5, <2>6 DEF Doomed
<1> QED BY <1>1, <1>2, <1>3, <1>4, <1>5, <1>6, <1>7, <1>8, <1>9

\* treat takes actorsLock.
LEMMA TreatLockInv ==
  ASSUME ManagerInv, NEW w \in Workers, TreatLock(w)
  PROVE  ManagerInv'
<1> USE DEF ManagerInv, TreatLock, LockActors, ActorsFree, Goto
<1>1. TypeOK'
    BY DEF TypeOK, Threads, TreatLabels, Labels
<1>2. HolderInv'
    BY ThreadsAssumption DEF TypeOK, HolderInv, Threads, MapLabels
<1>3. MutexInv'
    BY DEF MutexInv, CallLabels, Handling, Subject
<1>4. WorkerInv'
    BY DEF WorkerInv, CallLabels, Subject
<1>5. MemoryInv'
    BY DEF MemoryInv, CallLabels, Handling, Subject
<1>6. CallerInv'
    BY DEF CallerInv, CallLabels, Known
<1>7. NullInv'
    BY DEF NullInv, Subject, Known
<1>8. EmptyMessageNeverRuns'
    BY DEF EmptyMessageNeverRuns, CallLabels, Handling
<1>9. KilledInv'
    BY DEF TypeOK, KilledInv, Doomed, Subject, Threads
<1> QED BY <1>1, <1>2, <1>3, <1>4, <1>5, <1>6, <1>7, <1>8, <1>9

\* treat looks the actor up.
LEMMA FindInv ==
  ASSUME ManagerInv, NEW w \in Workers, Find(w)
  PROVE  ManagerInv'
<1> USE DEF ManagerInv, Find, Goto
<1>1. TypeOK'
    BY DEF TypeOK, WorkerInv, TreatLabels, Labels
<1>2. HolderInv'
    BY ThreadsAssumption DEF TypeOK, HolderInv, Threads, MapLabels
<1>3. MutexInv'
    BY DEF TypeOK, MutexInv, Threads, CallLabels, Handling, Subject
<1>4. WorkerInv'
    BY DEF TypeOK, WorkerInv, Threads, CallLabels, Subject
<1>5. MemoryInv'
    BY DEF TypeOK, HolderInv, MemoryInv, Threads, CallLabels, MapLabels, Handling, Subject
<1>6. CallerInv'
    BY DEF TypeOK, MemoryInv, CallerInv, CallLabels, Known
<1>7. NullInv'
    BY DEF TypeOK, NullInv, Threads, Subject, Known
<1>8. EmptyMessageNeverRuns'
    BY DEF TypeOK, EmptyMessageNeverRuns, Threads, CallLabels, Handling
<1>9. KilledInv'
    BY DEF TypeOK, KilledInv, Doomed, Subject, Threads
<1> QED BY <1>1, <1>2, <1>3, <1>4, <1>5, <1>6, <1>7, <1>8, <1>9

\* treat takes the mutex of the actor, with actorsLock held.
LEMMA LockActorInv ==
  ASSUME ManagerInv, NEW w \in Workers, LockActor(w)
  PROVE  ManagerInv'
<1> USE DEF ManagerInv, LockActor, ActorFree, Goto
<1>1. TypeOK'
    BY DEF TypeOK, TreatLabels, Labels
<1>2. HolderInv'
    BY DEF HolderInv, MapLabels
<1>3. MutexInv'
    BY ThreadsAssumption DEF TypeOK, MutexInv, Threads, Handling, Subject
<1>4. WorkerInv'
    BY DEF HolderInv, WorkerInv, Threads, CallLabels, MapLabels, Subject
<1>5. MemoryInv'
    BY DEF MemoryInv, Handling, Subject
<1>6. CallerInv'
    BY DEF CallerInv, CallLabels, Known
<1>7. NullInv'
    BY DEF NullInv, Subject, Known
<1>8. EmptyMessageNeverRuns'
    BY DEF EmptyMessageNeverRuns, CallLabels, Handling
<1>9. KilledInv'
    BY DEF TypeOK, KilledInv, Doomed, Subject, Threads
<1> QED BY <1>1, <1>2, <1>3, <1>4, <1>5, <1>6, <1>7, <1>8, <1>9

\* treat tests the flag, and runs the handler or starts the deletion.
LEMMA TestAliveInv ==
  ASSUME ManagerInv, NEW w \in Workers, TestAlive(w)
  PROVE  ManagerInv'
<1> USE DEF ManagerInv, TestAlive, HoldsMapToDelete, Goto
<1>1. TypeOK'
    BY ThreadsAssumption DEF TypeOK, EmptyMessageNeverRuns, TreatLabels, Labels
<1>2. HolderInv'
    BY ThreadsAssumption DEF TypeOK, HolderInv, Threads, MapLabels
<1>3. MutexInv'
    BY ThreadsAssumption DEF TypeOK, MutexInv, Threads, CallLabels, Handling, Subject
<1>4. WorkerInv'
    BY DEF TypeOK, WorkerInv, MemoryInv, Threads, CallLabels, Subject
<1>5. MemoryInv'
    BY DEF TypeOK, MemoryInv, Threads, Handling, Subject
<1>6. CallerInv'
    BY ThreadsAssumption DEF TypeOK, HolderInv, CallerInv, CallLabels, Known
<1>7. NullInv'
    BY DEF TypeOK, NullInv, Threads, Subject, Known
<1>8. EmptyMessageNeverRuns'
    BY DEF TypeOK, NullInv, EmptyMessageNeverRuns, Threads, CallLabels, Handling
<1>9. KilledInv'
  <2>1. /\ \A t \in Threads : t # w => pc'[t] = pc[t]
        /\ alive[Subject(w)] \/ pc'[w] = "delete"
      BY DEF TypeOK, Threads
  <2> QED BY <2>1 DEF KilledInv, Doomed, Subject, Threads
<1> QED BY <1>1, <1>2, <1>3, <1>4, <1>5, <1>6, <1>7, <1>8, <1>9

\* treat deletes a dead actor, still in the map.
LEMMA DeleteInv ==
  ASSUME ManagerInv, NEW w \in Workers, Delete(w)
  PROVE  ManagerInv'
<1> USE DEF ManagerInv, Delete, Goto
<1>1. TypeOK'
    BY DEF TypeOK, TreatLabels, Labels
<1>2. HolderInv'
    BY DEF HolderInv, MapLabels
<1>3. MutexInv'
    BY DEF MutexInv, CallLabels, Handling, Subject
<1>4. WorkerInv'
    BY DEF TypeOK, WorkerInv, CallLabels, Subject
<1>5. MemoryInv'
    BY ThreadsAssumption DEF TypeOK, HolderInv, MutexInv, WorkerInv, MemoryInv, Threads,
        CallLabels, MapLabels, Handling, Subject
<1>6. CallerInv'
    BY DEF MemoryInv, CallerInv, CallLabels, Known
<1>7. NullInv'
    BY DEF NullInv, Subject, Known
<1>8. EmptyMessageNeverRuns'
    BY DEF EmptyMessageNeverRuns, CallLabels, Handling
<1>9. KilledInv'
  <2>1. Subject(w) \in Actors /\ memory[Subject(w)] = "live"
        /\ \A a \in Actors : a # Subject(w) => memory'[a] = memory[a]
        /\ memory'[Subject(w)] = "freed"
      BY DEF TypeOK, WorkerInv, MemoryInv, Message, Subject
  <2> QED BY <2>1 DEF TypeOK, KilledInv, Doomed, Subject, Threads
<1> QED BY <1>1, <1>2, <1>3, <1>4, <1>5, <1>6, <1>7, <1>8, <1>9

\* treat erases it from the map.
LEMMA EraseInv ==
  ASSUME ManagerInv, NEW w \in Workers, Erase(w)
  PROVE  ManagerInv'
<1> USE DEF ManagerInv, Erase, Goto
<1>1. TypeOK'
    BY DEF TypeOK, TreatLabels, Labels
<1>2. HolderInv'
    BY ThreadsAssumption DEF TypeOK, HolderInv, Threads, MapLabels
<1>3. MutexInv'
    BY DEF MutexInv, CallLabels, Handling, Subject
<1>4. WorkerInv'
    BY DEF HolderInv, WorkerInv, Threads, CallLabels, MapLabels, Subject
<1>5. MemoryInv'
    BY DEF MemoryInv, CallLabels, Handling, Subject
<1>6. CallerInv'
    BY DEF CallerInv, CallLabels, Known
<1>7. NullInv'
    BY DEF NullInv, Subject, Known
<1>8. EmptyMessageNeverRuns'
    BY DEF EmptyMessageNeverRuns, CallLabels, Handling
<1>9. KilledInv'
  <2>1. \A a \in Actors : memory[a] = "live" => a # Subject(w)
      BY DEF WorkerInv
  <2> QED BY <2>1 DEF TypeOK, KilledInv, Doomed, Subject, Threads
<1> QED BY <1>1, <1>2, <1>3, <1>4, <1>5, <1>6, <1>7, <1>8, <1>9

\* The handler returns and its actor is unlocked.
LEMMA FinishHandlerInv ==
  ASSUME ManagerInv, NEW w \in Workers, FinishHandler(w)
  PROVE  ManagerInv'
<1> USE DEF ManagerInv, FinishHandler, Goto
<1>1. TypeOK'
    BY DEF TypeOK, TreatLabels, Labels
<1>2. HolderInv'
    BY DEF HolderInv, MapLabels
<1>3. MutexInv'
    BY ThreadsAssumption DEF TypeOK, MutexInv, Threads, CallLabels, Handling, Subject
<1>4. WorkerInv'
    BY ThreadsAssumption DEF WorkerInv, Subject
<1>5. MemoryInv'
    BY DEF MemoryInv, Handling, Subject
<1>6. CallerInv'
    BY DEF CallerInv, CallLabels, Known
<1>7. NullInv'
    BY DEF NullInv, Subject, Known
<1>8. EmptyMessageNeverRuns'
    BY DEF EmptyMessageNeverRuns, Handling
<1>9. KilledInv'
    BY DEF TypeOK, KilledInv, Doomed, Subject, Threads
<1> QED BY <1>1, <1>2, <1>3, <1>4, <1>5, <1>6, <1>7, <1>8, <1>9

\* A message is posted.
LEMMA PostInv ==
  ASSUME ManagerInv, NEW t \in Threads, NEW a \in Actors, Post(t, a)
  PROVE  ManagerInv'
<1> USE DEF ManagerInv, Post, MayCall, Count
<1>1. TypeOK'
    BY DEF TypeOK, Message
<1>2. HolderInv'
    BY DEF HolderInv
<1>3. MutexInv'
    BY DEF MutexInv, Handling, Subject
<1>4. WorkerInv'
    BY DEF WorkerInv, Subject
<1>5. MemoryInv'
    BY DEF MemoryInv, Handling, Subject
<1>6. CallerInv'
    BY DEF CallerInv, Known
<1>7. NullInv'
    BY DEF NullInv, Subject, Known
<1>8. EmptyMessageNeverRuns'
    BY DEF EmptyMessageNeverRuns, Handling
<1>9. KilledInv'
  <2>1. \A i \in DOMAIN messages : i \in DOMAIN messages' /\ messages'[i] = messages[i]
      BY DEF TypeOK
  <2> QED BY <2>1 DEF KilledInv, Doomed, Subject
<1> QED BY <1>1, <1>2, <1>3, <1>4, <1>5, <1>6, <1>7, <1>8, <1>9

\* A handler calls Actor::kill.
LEMMA KillSelfInv ==
  ASSUME ManagerInv, NEW w \in Threads, KillSelf(w)
  PROVE  ManagerInv'
<1> USE DEF ManagerInv, KillSelf, MayCall, Count, ClearFlag, SelfKillThen, Goto
<1>1. TypeOK'
    BY DEF TypeOK, WorkerInv, Message, CallLabels, Labels, Subject
<1>2. HolderInv'
    BY DEF HolderInv, MapLabels
<1>3. MutexInv'
    BY DEF MutexInv, CallLabels, Handling, Subject
<1>4. WorkerInv'
    BY DEF WorkerInv, CallLabels, Subject
<1>5. MemoryInv'
    BY DEF MemoryInv, Handling, Subject
<1>6. CallerInv'
    BY DEF TypeOK, WorkerInv, MemoryInv, CallerInv, Message, Handling, Subject, Known
<1>7. NullInv'
    BY DEF TypeOK, WorkerInv, NullInv, Message, Subject, Known
<1>8. EmptyMessageNeverRuns'
    BY DEF EmptyMessageNeverRuns, Handling
<1>9. KilledInv'
  <2>1. Subject(w) \in Actors /\ memory[Subject(w)] = "live"
      BY DEF TypeOK, WorkerInv, MemoryInv, Message, Handling, Subject
  <2>2. /\ \A a \in Actors : a # Subject(w) => alive'[a] = alive[a]
        /\ pc'[w] = "killPost" /\ target'[w] = Subject(w)
        /\ \A t \in Threads : t # w => pc'[t] = pc[t] /\ target'[t] = target[t]
      BY <2>1 DEF TypeOK
  <2> QED BY <2>1, <2>2 DEF TypeOK, KilledInv, Doomed, Subject, Threads
<1> QED BY <1>1, <1>2, <1>3, <1>4, <1>5, <1>6, <1>7, <1>8, <1>9

\* A thread calls ActorManager::kill.
LEMMA KillInv ==
  ASSUME ManagerInv, NEW t \in Threads, NEW a \in Actors, Kill(t, a)
  PROVE  ManagerInv'
<1> USE DEF ManagerInv, Kill, MayCall, Count, Goto
<1>1. TypeOK'
    BY DEF TypeOK, CallLabels, Labels
<1>2. HolderInv'
    BY DEF HolderInv, MapLabels
<1>3. MutexInv'
    BY DEF MutexInv, CallLabels, Handling, Subject
<1>4. WorkerInv'
    BY DEF WorkerInv, CallLabels, Subject
<1>5. MemoryInv'
    BY DEF MemoryInv, Handling, Subject
<1>6. CallerInv'
    BY DEF TypeOK, CallerInv, Known
<1>7. NullInv'
    BY DEF NullInv, Subject, Known
<1>8. EmptyMessageNeverRuns'
    BY DEF EmptyMessageNeverRuns, Handling
<1>9. KilledInv'
    BY DEF TypeOK, KilledInv, Doomed, Subject, Threads
<1> QED BY <1>1, <1>2, <1>3, <1>4, <1>5, <1>6, <1>7, <1>8, <1>9

\* kill takes actorsLock.
LEMMA KillLockInv ==
  ASSUME ManagerInv, NEW t \in Threads, KillLock(t)
  PROVE  ManagerInv'
<1> USE DEF ManagerInv, KillLock, LockActors, ActorsFree, Goto
<1>1. TypeOK'
    BY DEF TypeOK, CallLabels, Labels
<1>2. HolderInv'
    BY ThreadsAssumption DEF TypeOK, HolderInv, Threads, MapLabels
<1>3. MutexInv'
    BY DEF MutexInv, CallLabels, Handling, Subject
<1>4. WorkerInv'
    BY DEF WorkerInv, CallLabels, Subject
<1>5. MemoryInv'
    BY DEF MemoryInv, CallLabels, Handling, Subject
<1>6. CallerInv'
    BY DEF CallerInv, CallLabels, Known
<1>7. NullInv'
    BY DEF NullInv, Subject, Known
<1>8. EmptyMessageNeverRuns'
    BY DEF EmptyMessageNeverRuns, CallLabels, Handling
<1>9. KilledInv'
    BY DEF TypeOK, KilledInv, Doomed, Subject, Threads
<1> QED BY <1>1, <1>2, <1>3, <1>4, <1>5, <1>6, <1>7, <1>8, <1>9

\* kill clears the flag of an actor of the map.
LEMMA KillFindInv ==
  ASSUME ManagerInv, NEW t \in Threads, KillFind(t)
  PROVE  ManagerInv'
<1> USE DEF ManagerInv, KillFind, ClearFlag, Goto
<1>a. /\ UNCHANGED <<messages, current, memory, target>>
      /\ pc[t] = "killFind" /\ pc'[t] \in {"killPost", "home"}
      /\ \A s \in Threads : s # t => pc'[s] = pc[s]
    BY DEF TypeOK
<1>b. /\ alive' \in [Actors -> BOOLEAN]
      /\ \A a \in Actors : alive'[a] => alive[a]
      /\ pc'[t] = "killPost" => ~alive'[target[t]]
    BY DEF TypeOK, CallerInv, CallLabels
<1>1. TypeOK'
    BY <1>b DEF TypeOK, CallLabels, Labels
<1>2. HolderInv'
    BY ThreadsAssumption DEF TypeOK, HolderInv, Threads, MapLabels
<1>3. MutexInv'
    BY DEF TypeOK, MutexInv, Threads, CallLabels, Handling, Subject
<1>4. WorkerInv'
    BY DEF TypeOK, WorkerInv, Threads, CallLabels, Subject
<1>5. MemoryInv'
    BY DEF TypeOK, MemoryInv, Threads, CallLabels, Handling, Subject
<1>6. CallerInv'
    BY DEF TypeOK, CallerInv, Threads, CallLabels, Known
<1>7. NullInv'
  <2> USE DEF NullInv
  <2>1. \A i \in DOMAIN messages : messages[i] \in Message
      BY DEF TypeOK
  <2>2. \A i \in DOMAIN messages : messages[i].to \in Actors
      BY <2>1 DEF Message
  <2>3. \A w \in Workers : pc[w] # "idle" => Subject(w) \in Actors
      BY DEF WorkerInv, Message, Subject
  <2>4. (\A i \in DOMAIN messages :
           Known(messages[i].to) /\ (messages[i].null => ~alive[messages[i].to]))'
      BY <1>a, <1>b, <2>2 DEF Known
  <2>5. (\A w \in Workers :
           pc[w] # "idle" => Known(Subject(w)) /\ (current[w].null => ~alive[Subject(w)]))'
      BY <1>a, <1>b, <2>3 DEF Known, Subject, Threads
  <2>6. (\A s \in Threads : pc[s] = "killPost" => ~alive[target[s]])'
      BY <1>a, <1>b DEF CallerInv, CallLabels
  <2> QED BY <2>4, <2>5, <2>6
<1>8. EmptyMessageNeverRuns'
    BY DEF TypeOK, EmptyMessageNeverRuns, Threads, CallLabels, Handling
<1>9. KilledInv'
  <2>1. target[t] \in Actors /\ memory[target[t]] # "new"
      BY DEF CallerInv, CallLabels, Known
  <2>2. \A a \in Actors : a # target[t] => alive'[a] = alive[a]
      BY DEF TypeOK
  <2>3. alive'[target[t]] = alive[target[t]] \/ pc'[t] = "killPost"
      BY <1>a DEF TypeOK
  <2> QED BY <1>a, <2>1, <2>2, <2>3 DEF TypeOK, KilledInv, Doomed, Subject, Threads
<1> QED BY <1>1, <1>2, <1>3, <1>4, <1>5, <1>6, <1>7, <1>8, <1>9

\* kill posts the empty message.
LEMMA KillPostInv ==
  ASSUME ManagerInv, NEW t \in Threads, KillPost(t)
  PROVE  ManagerInv'
<1> USE DEF ManagerInv, KillPost, Goto
<1>1. TypeOK'
    BY DEF TypeOK, CallerInv, Message, CallLabels, Labels
<1>2. HolderInv'
    BY DEF HolderInv, MapLabels
<1>3. MutexInv'
    BY DEF MutexInv, CallLabels, Handling, Subject
<1>4. WorkerInv'
    BY DEF WorkerInv, Subject
<1>5. MemoryInv'
    BY DEF MemoryInv, CallLabels, Handling, Subject
<1>6. CallerInv'
    BY DEF CallerInv, CallLabels, Known
<1>7. NullInv'
  <2> USE DEF NullInv
  <2> DEFINE m == [to |-> target[t], null |-> TRUE]
  <2>1. m \in Message /\ Known(m.to) /\ (m.null => ~alive[m.to])
      BY DEF CallerInv, CallLabels, Message
  <2>2. messages' = Append(messages, m) /\ messages \in Seq(Message)
      BY DEF TypeOK
  <2> HIDE DEF m
  <2>3. \A i \in DOMAIN messages' :
          messages'[i] = m \/ (i \in DOMAIN messages /\ messages'[i] = messages[i])
      BY <2>1, <2>2
  <2>4. (\A i \in DOMAIN messages :
           Known(messages[i].to) /\ (messages[i].null => ~alive[messages[i].to]))'
      BY <2>1, <2>3 DEF Known
  <2>5. (\A w \in Workers :
           pc[w] # "idle" => Known(Subject(w)) /\ (current[w].null => ~alive[Subject(w)]))'
      BY DEF Known, Subject, Threads, TypeOK
  <2>6. (\A s \in Threads : pc[s] = "killPost" => ~alive[target[s]])'
      BY DEF TypeOK
  <2> QED BY <2>4, <2>5, <2>6
<1>8. EmptyMessageNeverRuns'
    BY DEF EmptyMessageNeverRuns, CallLabels, Handling
<1>9. KilledInv'
  <2>1. \A i \in DOMAIN messages : i \in DOMAIN messages' /\ messages'[i] = messages[i]
      BY DEF TypeOK
  <2>2. \E i \in DOMAIN messages' : messages'[i].to = target[t]
    <3> DEFINE m == [to |-> target[t], null |-> TRUE]
    <3>1. m \in Message /\ m.to = target[t] /\ messages \in Seq(Message)
          /\ messages' = Append(messages, m)
        BY DEF TypeOK, CallerInv, CallLabels, Message
    <3> HIDE DEF m
    <3>2. Len(messages') = Len(messages) + 1 /\ messages'[Len(messages) + 1] = m
        BY <3>1
    <3>3. DOMAIN messages' = 1..Len(messages') /\ Len(messages) \in Nat
        BY <3>1
    <3> QED BY <3>1, <3>2, <3>3
  <2>3. /\ pc[t] = "killPost" /\ pc'[t] = "home"
        /\ \A s \in Threads : s # t => pc'[s] = pc[s]
        /\ UNCHANGED <<registered, memory, alive, current, target>>
      BY DEF TypeOK
  <2>4. \A a \in Actors : Doomed(a) => Doomed(a)'
    <3> SUFFICES ASSUME NEW a \in Actors, Doomed(a) PROVE Doomed(a)'
        OBVIOUS
    <3>1. CASE \E i \in DOMAIN messages : messages[i].to = a
        BY <2>1, <3>1 DEF Doomed
    <3>2. CASE \E w \in Workers :
                 pc[w] \in {"treat", "find", "lockActor", "test", "delete"} /\ Subject(w) = a
        BY <2>3, <3>2 DEF Doomed, Subject, Threads
    <3>3. CASE \E s \in Threads : pc[s] = "killPost" /\ target[s] = a
        BY <2>2, <2>3, <3>3 DEF Doomed
    <3> QED BY <3>1, <3>2, <3>3 DEF Doomed
  <2> QED BY <2>3, <2>4 DEF KilledInv
<1> QED BY <1>1, <1>2, <1>3, <1>4, <1>5, <1>6, <1>7, <1>8, <1>9

\* A thread calls ActorManager::add.
LEMMA AddInv ==
  ASSUME ManagerInv, NEW t \in Threads, NEW a \in Actors, Add(t, a)
  PROVE  ManagerInv'
<1> USE DEF ManagerInv, Add, MayCall, Goto
<1>1. TypeOK'
    BY DEF TypeOK, CallLabels, Labels
<1>2. HolderInv'
    BY DEF HolderInv, MapLabels
<1>3. MutexInv'
    BY DEF MutexInv, CallLabels, Handling, Subject
<1>4. WorkerInv'
    BY DEF WorkerInv, CallLabels, Subject
<1>5. MemoryInv'
    BY DEF MemoryInv, Handling, Subject
<1>6. CallerInv'
    BY DEF TypeOK, CallerInv, Known
<1>7. NullInv'
    BY DEF CallerInv, NullInv, Subject, Known
<1>8. EmptyMessageNeverRuns'
    BY DEF EmptyMessageNeverRuns, Handling
<1>9. KilledInv'
    BY DEF TypeOK, KilledInv, Doomed, Subject, Threads
<1> QED BY <1>1, <1>2, <1>3, <1>4, <1>5, <1>6, <1>7, <1>8, <1>9

\* add takes actorsLock.
LEMMA AddLockInv ==
  ASSUME ManagerInv, NEW t \in Threads, AddLock(t)
  PROVE  ManagerInv'
<1> USE DEF ManagerInv, AddLock, LockActors, ActorsFree, Goto
<1>1. TypeOK'
    BY DEF TypeOK, CallLabels, Labels
<1>2. HolderInv'
    BY ThreadsAssumption DEF TypeOK, HolderInv, Threads, MapLabels
<1>3. MutexInv'
    BY DEF MutexInv, CallLabels, Handling, Subject
<1>4. WorkerInv'
    BY DEF WorkerInv, CallLabels, Subject
<1>5. MemoryInv'
    BY DEF MemoryInv, CallLabels, Handling, Subject
<1>6. CallerInv'
    BY DEF CallerInv, CallLabels, Known
<1>7. NullInv'
    BY DEF NullInv, Subject, Known
<1>8. EmptyMessageNeverRuns'
    BY DEF EmptyMessageNeverRuns, CallLabels, Handling
<1>9. KilledInv'
    BY DEF TypeOK, KilledInv, Doomed, Subject, Threads
<1> QED BY <1>1, <1>2, <1>3, <1>4, <1>5, <1>6, <1>7, <1>8, <1>9

\* add inserts the actor in the map.
LEMMA AddInsertInv ==
  ASSUME ManagerInv, NEW t \in Threads, AddInsert(t)
  PROVE  ManagerInv'
<1> USE DEF ManagerInv, AddInsert, Goto
<1>1. TypeOK'
    BY DEF TypeOK, CallerInv, CallLabels, Labels
<1>2. HolderInv'
    BY ThreadsAssumption DEF TypeOK, HolderInv, Threads, MapLabels
<1>3. MutexInv'
    BY DEF MutexInv, CallLabels, Handling, Subject
<1>4. WorkerInv'
    BY DEF HolderInv, WorkerInv, Threads, MapLabels
<1>5. MemoryInv'
    BY DEF TypeOK, MemoryInv, CallerInv, CallLabels, Handling, Subject
<1>6. CallerInv'
    BY DEF TypeOK, CallerInv, CallLabels, Known
<1>7. NullInv'
    BY DEF NullInv, Subject, Known
<1>8. EmptyMessageNeverRuns'
    BY DEF EmptyMessageNeverRuns, CallLabels, Handling
<1>9. KilledInv'
  <2>1. target[t] \in Actors /\ memory[target[t]] = "new" /\ alive[target[t]]
      BY DEF CallerInv, CallLabels, KilledInv
  <2> QED BY <2>1 DEF TypeOK, KilledInv, Doomed, Subject, Threads
<1> QED BY <1>1, <1>2, <1>3, <1>4, <1>5, <1>6, <1>7, <1>8, <1>9

-----------------------------------------------------------------------------
\* So does every step of the manager, and a step of somebody else.
LEMMA ManagerInvStep == ManagerInv /\ [Next]_vars => ManagerInv'
<1> SUFFICES ASSUME ManagerInv, [Next]_vars PROVE ManagerInv'
    OBVIOUS
<1>1. ASSUME NEW w \in Workers, TakeMessage(w) PROVE ManagerInv'
    BY <1>1, TakeMessageInv
<1>2. ASSUME NEW w \in Workers, TreatLock(w) PROVE ManagerInv'
    BY <1>2, TreatLockInv
<1>3. ASSUME NEW w \in Workers, Find(w) PROVE ManagerInv'
    BY <1>3, FindInv
<1>4. ASSUME NEW w \in Workers, LockActor(w) PROVE ManagerInv'
    BY <1>4, LockActorInv
<1>5. ASSUME NEW w \in Workers, TestAlive(w) PROVE ManagerInv'
    BY <1>5, TestAliveInv
<1>6. ASSUME NEW w \in Workers, Delete(w) PROVE ManagerInv'
    BY <1>6, DeleteInv
<1>7. ASSUME NEW w \in Workers, Erase(w) PROVE ManagerInv'
    BY <1>7, EraseInv
<1>8. ASSUME NEW w \in Workers, FinishHandler(w) PROVE ManagerInv'
    BY <1>8, FinishHandlerInv
<1>9. ASSUME NEW t \in Threads, NEW a \in Actors, Post(t, a) PROVE ManagerInv'
    BY <1>9, PostInv
<1>10. ASSUME NEW w \in Threads, KillSelf(w) PROVE ManagerInv'
    BY <1>10, KillSelfInv
<1>11. ASSUME NEW t \in Threads, NEW a \in Actors, Kill(t, a) PROVE ManagerInv'
    BY <1>11, KillInv
<1>12. ASSUME NEW t \in Threads, KillLock(t) PROVE ManagerInv'
    BY <1>12, KillLockInv
<1>13. ASSUME NEW t \in Threads, KillFind(t) PROVE ManagerInv'
    BY <1>13, KillFindInv
<1>14. ASSUME NEW t \in Threads, KillPost(t) PROVE ManagerInv'
    BY <1>14, KillPostInv
<1>15. ASSUME NEW t \in Threads, NEW a \in Actors, Add(t, a) PROVE ManagerInv'
    BY <1>15, AddInv
<1>16. ASSUME NEW t \in Threads, AddLock(t) PROVE ManagerInv'
    BY <1>16, AddLockInv
<1>17. ASSUME NEW t \in Threads, AddInsert(t) PROVE ManagerInv'
    BY <1>17, AddInsertInv
<1>s. CASE UNCHANGED vars
    BY <1>s DEF vars, ManagerInv, TypeOK, HolderInv, MutexInv, WorkerInv, MemoryInv, CallerInv,
       NullInv, EmptyMessageNeverRuns, KilledInv, Doomed, Handling, Subject, Known
<1> QED
    BY <1>1, <1>2, <1>3, <1>4, <1>5, <1>6, <1>7, <1>8, <1>9, <1>10, <1>11,
       <1>12, <1>13, <1>14, <1>15, <1>16, <1>17, <1>s
    DEF Next, Treat, Begin, Continue, Threads

\* The locks are held where the code says, what a thread remembers of an actor
\* is true, and an empty message is about a dead actor: the inductive invariant.
THEOREM Typing == Spec => []ManagerInv
  BY ManagerInvInit, ManagerInvStep, PTL DEF Spec

\* Whoever posts, at most one worker runs a message of an actor at a time.
THEOREM OneHandlerPerActorHolds == Spec => []OneHandlerPerActor
<1>1. ManagerInv => OneHandlerPerActor
    BY ThreadsAssumption
    DEF ManagerInv, TypeOK, MutexInv, WorkerInv, OneHandlerPerActor, Handling, Subject, Message,
        CallLabels
<1> QED BY <1>1, Typing, PTL

\* No worker follows a pointer to a deleted actor, deletes one twice, or finds
\* one in the map.
THEOREM NoUseAfterFreeHolds == Spec => []NoUseAfterFree
<1>1. ManagerInv => NoUseAfterFree
    BY ThreadsAssumption
    DEF ManagerInv, HolderInv, MemoryInv, NoUseAfterFree, Threads, MapLabels
<1> QED BY <1>1, Typing, PTL

\* The empty function that kill() posts is never called.
THEOREM EmptyMessageNeverRunsHolds == Spec => []EmptyMessageNeverRuns
<1>1. ManagerInv => EmptyMessageNeverRuns
    BY DEF ManagerInv
<1> QED BY <1>1, Typing, PTL

\* An actor whose flag is down stays in memory only while something on its way
\* deletes it: a message of its own, a worker that looks at it, or a kill() that has
\* still to post: the fact that KilledIsDeleted adds fairness to.
THEOREM KilledIsDoomed ==
  Spec => [](\A a \in Actors : memory[a] = "live" /\ ~alive[a] => Doomed(a))
<1>1. ManagerInv => \A a \in Actors : memory[a] = "live" /\ ~alive[a] => Doomed(a)
    BY DEF ManagerInv, KilledInv
<1> QED BY <1>1, Typing, PTL

-----------------------------------------------------------------------------
\* No handler is inside a call that takes actorsLock.
PlainHandlers == \A w \in Workers : pc[w] \notin {"killLock", "killFind", "addLock", "addInsert"}

\* The comment of treat is right of handlers that only post and kill their own
\* actor: then no worker waits for a mutex whose holder waits for actorsLock.
THEOREM NoLockCycleHolds ==
  ASSUME HandlerCalls \subseteq {"post", "killSelf"}
  PROVE  Spec => []NoLockCycle
<1>1. Init => PlainHandlers
    BY DEF Init, PlainHandlers, Threads
<1>2. ManagerInv /\ PlainHandlers /\ [Next]_vars => PlainHandlers'
  <2> SUFFICES ASSUME ManagerInv, PlainHandlers, [Next]_vars, NEW v \in Workers
               PROVE  pc'[v] \notin {"killLock", "killFind", "addLock", "addInsert"}
      BY DEF PlainHandlers
  <2> USE DEF PlainHandlers
  <2>1. pc \in [Threads -> Labels] /\ v \in Threads
      BY DEF ManagerInv, TypeOK, Threads
  <2>2. ASSUME NEW w \in Workers, Treat(w) \/ FinishHandler(w)
        PROVE  pc'[v] \notin {"killLock", "killFind", "addLock", "addInsert"}
      BY <2>1, <2>2 DEF Treat, TakeMessage, TreatLock, Find, LockActor, TestAlive, Delete, Erase,
         FinishHandler, LockActors, Goto
  <2>3. ASSUME NEW t \in Threads, Begin(t)
        PROVE  pc'[v] \notin {"killLock", "killFind", "addLock", "addInsert"}
      BY <2>1, <2>3 DEF Begin, KillSelf, Post, Kill, Add, MayCall, SelfKillThen, Goto
  <2>4. ASSUME NEW t \in Threads, Continue(t)
        PROVE  pc'[v] \notin {"killLock", "killFind", "addLock", "addInsert"}
      BY <2>1, <2>4 DEF Continue, KillLock, KillFind, KillPost, AddLock, AddInsert, LockActors, Goto
  <2>5. CASE UNCHANGED vars
      BY <2>5 DEF vars
  <2> QED BY <2>2, <2>3, <2>4, <2>5 DEF Next
<1>3. PlainHandlers => NoLockCycle
    BY DEF PlainHandlers, NoLockCycle
<1> QED BY <1>1, <1>2, <1>3, Typing, PTL DEF Spec
=============================================================================
