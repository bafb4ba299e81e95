---------------------------- MODULE BlockingQueue ----------------------------
(***************************************************************************)
(* core/blocking-queue-detail.h: the queue of unique pointers that every   *)
(* worker pool, the log worker and the timeout launcher wait on.           *)
(*                                                                         *)
(* Threads call the nine operations that change it.  A step is what a      *)
(* thread does between two points where another thread can interfere: the  *)
(* mutex and the condition variable are explicit, and opened is read and   *)
(* written without the mutex, as in the code.                              *)
(***************************************************************************)
EXTENDS Sequences, Naturals, FiniteSets

CONSTANTS Threads,   \* the threads that use the queue
          Items,     \* the elements that can be pushed, each at most once
          Roles,     \* the operations each thread may call
          None       \* no thread, no element

OpNames == {"push", "tryPush", "pop", "timedPop", "tryPop",
            "flush", "timedFlush", "tryFlush", "close"}

ASSUME RolesAssumption == Roles \in [Threads -> SUBSET OpNames]
ASSUME NoneAssumption  == None \notin Threads \cup Items

Pushes  == {"push", "tryPush"}
Tries   == {"tryPush", "tryPop", "tryFlush"}
Waits   == {"pop", "timedPop", "flush", "timedFlush"}  \* may sleep on cond
Timed   == {"timedPop", "timedFlush"}
Takers  == Waits \cup {"tryPop", "tryFlush"}
OnePops == {"pop", "timedPop", "tryPop"}

VARIABLES
  fifo,       \* the deque; a front that was swapped out is None
  opened,
  mut,        \* the thread that holds the mutex, or None
  waiters,    \* the threads asleep in cond.wait or cond.wait_for
  pc,         \* where each thread is
  op,         \* the operation each thread calls, or called last
  arg,        \* the element each pushing thread brings
  result,     \* what the last operation of each thread returned
  spare,      \* elements no push was called with yet
  accepted,   \* history: elements in the order they entered the deque
  delivered   \* history: elements in the order they were taken, and by whom

vars == <<fifo, opened, mut, waiters, pc, op, arg, result, spare, accepted, delivered>>

Labels  == {"idle", "lock", "trylock", "holding", "erasing", "sleep",
            "blocked", "relock", "woken", "notify", "notifyAll"}
Results == {"none", "true", "false", "element", "null"}

TypeOK ==
  /\ fifo \in Seq(Items \cup {None})
  /\ opened \in BOOLEAN
  /\ mut \in Threads \cup {None}
  /\ waiters \in SUBSET Threads
  /\ pc \in [Threads -> Labels]
  /\ op \in [Threads -> OpNames]
  /\ arg \in [Threads -> Items \cup {None}]
  /\ result \in [Threads -> Results]
  /\ spare \in SUBSET Items
  /\ accepted \in Seq(Items)
  /\ delivered \in Seq([by : Threads, item : Items \cup {None}])

Init ==
  /\ fifo = <<>>
  /\ opened = TRUE
  /\ mut = None
  /\ waiters = {}
  /\ pc = [t \in Threads |-> "idle"]
  /\ op = [t \in Threads |-> "close"]
  /\ arg = [t \in Threads |-> None]
  /\ result = [t \in Threads |-> "none"]
  /\ spare = Items
  /\ accepted = <<>>
  /\ delivered = <<>>

-----------------------------------------------------------------------------
Goto(t, label)    == pc' = [pc EXCEPT ![t] = label]
Return(t, answer) == Goto(t, "idle") /\ result' = [result EXCEPT ![t] = answer]
Unlock(t)         == mut' = None
Called(t, o)      == /\ pc[t] = "idle" /\ o \in Roles[t]
                     /\ op' = [op EXCEPT ![t] = o]

\* Mutant: opened is not tested.
AdmitsAlways == TRUE

Admits == opened

\* push and tryPush read opened before they take the mutex.
CallPush(t, o, x) ==
  /\ Called(t, o)
  /\ o \in Pushes
  /\ x \in spare
  /\ spare' = spare \ {x}
  /\ arg' = [arg EXCEPT ![t] = x]
  /\ \/ /\ Admits
        /\ Goto(t, IF o = "push" THEN "lock" ELSE "trylock")
        /\ result' = [result EXCEPT ![t] = "none"]
     \/ /\ ~Admits
        /\ Return(t, "false")
  /\ UNCHANGED <<fifo, opened, mut, waiters, accepted, delivered>>

CallTake(t, o) ==
  /\ Called(t, o)
  /\ o \in Takers
  /\ Goto(t, IF o \in Tries THEN "trylock" ELSE "lock")
  /\ result' = [result EXCEPT ![t] = "none"]
  /\ UNCHANGED <<fifo, opened, mut, waiters, arg, spare, accepted, delivered>>

\* close: opened = false, without the mutex; then notify_all.
CallClose(t) ==
  /\ Called(t, "close")
  /\ opened' = FALSE
  /\ Goto(t, "notifyAll")
  /\ result' = [result EXCEPT ![t] = "none"]
  /\ UNCHANGED <<fifo, mut, waiters, arg, spare, accepted, delivered>>

NotifyAll(t) ==
  /\ pc[t] = "notifyAll"
  /\ pc' = [u \in Threads |-> IF u = t THEN "idle"
                              ELSE IF u \in waiters THEN "relock" ELSE pc[u]]
  /\ waiters' = {}
  /\ UNCHANGED <<fifo, opened, mut, op, arg, result, spare, accepted, delivered>>

-----------------------------------------------------------------------------
\* Mutant: nobody waits for the mutex.
FreeAlways == TRUE

Free == mut = None

Lock(t) ==
  /\ pc[t] = "lock"
  /\ Free
  /\ mut' = t
  /\ Goto(t, "holding")
  /\ UNCHANGED <<fifo, opened, waiters, op, arg, result, spare, accepted, delivered>>

TryLock(t) ==
  /\ pc[t] = "trylock"
  /\ \/ /\ Free
        /\ mut' = t
        /\ Goto(t, "holding")
        /\ UNCHANGED result
     \/ /\ ~Free
        /\ Return(t, IF op[t] = "tryPush" THEN "false" ELSE "null")
        /\ UNCHANGED mut
  /\ UNCHANGED <<fifo, opened, waiters, op, arg, spare, accepted, delivered>>

\* Mutant: the pointer was moved away before.
MovedTwice(t) == None

Moved(t) == arg[t]

\* Mutant: notify only when the deque was empty.
AfterPushToEmpty == IF fifo = <<>> THEN "notify" ELSE "idle"

AfterPush == "notify"

PushBack(t) ==
  /\ pc[t] = "holding" /\ op[t] \in Pushes
  /\ fifo' = Append(fifo, Moved(t))
  /\ accepted' = Append(accepted, Moved(t))
  /\ Unlock(t)
  /\ Goto(t, AfterPush)
  /\ UNCHANGED <<opened, waiters, op, arg, result, spare, delivered>>

\* notify_one after the mutex is released: any sleeper, or nobody.
NotifyOne(t) ==
  /\ pc[t] = "notify"
  /\ result' = [result EXCEPT ![t] = "true"]
  /\ \/ /\ waiters = {}
        /\ Goto(t, "idle")
        /\ UNCHANGED waiters
     \/ \E u \in waiters :
          /\ waiters' = waiters \ {u}
          /\ pc' = [pc EXCEPT ![t] = "idle", ![u] = "relock"]
  /\ UNCHANGED <<fifo, opened, mut, op, arg, spare, accepted, delivered>>

-----------------------------------------------------------------------------
\* The condition of the waiting loops; pop(msec) has an if, which it passes once.
MustWait(t) ==
  /\ op[t] \in Waits
  /\ opened /\ fifo = <<>>
  /\ pc[t] = "woken" => op[t] # "timedPop"

Test(t) ==
  /\ pc[t] \in {"holding", "woken"} /\ op[t] \in Takers
  /\ MustWait(t)
  /\ Goto(t, "sleep")
  /\ UNCHANGED <<fifo, opened, mut, waiters, op, arg, result, spare, accepted, delivered>>

\* cond.wait: fall asleep and release the mutex in one step.
Sleep(t) ==
  /\ pc[t] = "sleep"
  /\ waiters' = waiters \cup {t}
  /\ Unlock(t)
  /\ Goto(t, "blocked")
  /\ UNCHANGED <<fifo, opened, op, arg, result, spare, accepted, delivered>>

\* A spurious wakeup, or the deadline of a timed wait.
Wake(t) ==
  /\ pc[t] = "blocked"
  /\ waiters' = waiters \ {t}
  /\ Goto(t, "relock")
  /\ UNCHANGED <<fifo, opened, mut, op, arg, result, spare, accepted, delivered>>

\* Waking up ends with the mutex taken again.  A timed wait then compares the
\* clock with its deadline, whatever woke it up: Expire is cv_status::timeout,
\* and with no_timeout the thread goes on with Test or with Ready.
Relock(t) ==
  /\ pc[t] = "relock"
  /\ Free
  /\ mut' = t
  /\ Goto(t, "woken")
  /\ UNCHANGED <<fifo, opened, waiters, op, arg, result, spare, accepted, delivered>>

Expire(t) ==
  /\ pc[t] = "woken" /\ op[t] \in Timed
  /\ Unlock(t)
  /\ Return(t, "null")
  /\ UNCHANGED <<fifo, opened, waiters, op, arg, spare, accepted, delivered>>

\* The thread holds the mutex and has no reason to wait.
Ready(t) == /\ pc[t] \in {"holding", "woken"} /\ op[t] \in Takers
            /\ ~MustWait(t)

ReturnNull(t) ==
  /\ Ready(t)
  /\ fifo = <<>>
  /\ Unlock(t)
  /\ Return(t, "null")
  /\ UNCHANGED <<fifo, opened, waiters, op, arg, spare, accepted, delivered>>

\* fifo->front().swap(result)
SwapFront(t) ==
  /\ Ready(t) /\ op[t] \in OnePops
  /\ fifo # <<>>
  /\ fifo' = [fifo EXCEPT ![1] = None]
  /\ delivered' = Append(delivered, [by |-> t, item |-> Head(fifo)])
  /\ Goto(t, "erasing")
  /\ UNCHANGED <<opened, mut, waiters, op, arg, result, spare, accepted>>

\* fifo->pop_front(), and the lock goes out of scope
PopFront(t) ==
  /\ pc[t] = "erasing"
  /\ fifo' = Tail(fifo)
  /\ Unlock(t)
  /\ Return(t, "element")
  /\ UNCHANGED <<opened, waiters, op, arg, spare, accepted, delivered>>

SwapAll(t) ==
  /\ Ready(t) /\ op[t] \notin OnePops
  /\ fifo # <<>>
  /\ fifo' = <<>>
  /\ delivered' = delivered \o [i \in 1..Len(fifo) |-> [by |-> t, item |-> fifo[i]]]
  /\ Unlock(t)
  /\ Return(t, "element")
  /\ UNCHANGED <<opened, waiters, op, arg, spare, accepted>>

-----------------------------------------------------------------------------
Call(t) ==
  \/ \E o \in Pushes, x \in Items : CallPush(t, o, x)
  \/ \E o \in Takers : CallTake(t, o)
  \/ CallClose(t)

Step(t) ==
  \/ Lock(t) \/ TryLock(t)
  \/ PushBack(t) \/ NotifyOne(t) \/ NotifyAll(t)
  \/ Test(t) \/ Sleep(t) \/ Relock(t) \/ Expire(t)
  \/ ReturnNull(t) \/ SwapFront(t) \/ PopFront(t) \/ SwapAll(t)

Next == \E t \in Threads : Call(t) \/ Step(t) \/ Wake(t)

Spec == Init /\ [][Next]_vars

\* The scheduler runs every thread and hands the mutex to each thread that
\* keeps asking for it; deadlines of timed waits pass.  Nobody has to call an
\* operation, and an untimed wait need not wake up spuriously.
Fairness ==
  \A t \in Threads :
    /\ WF_vars(Step(t))
    /\ SF_vars(Lock(t)) /\ SF_vars(Relock(t))
    /\ WF_vars(op[t] \in Timed /\ Wake(t))

FairSpec == Spec /\ Fairness

-----------------------------------------------------------------------------
(* Safety *)

\* The inductive core of the properties below: who holds the mutex, who sleeps,
\* which operation can stand where, and where an empty pointer can be.
Inside == {"holding", "erasing", "sleep", "woken"}

HolderInv   == \A t \in Threads : pc[t] \in Inside <=> mut = t
SleeperInv  == \A t \in Threads : pc[t] = "blocked" <=> t \in waiters
OpInv ==
  \A t \in Threads :
    /\ pc[t] \in {"sleep", "blocked", "relock", "woken"} => op[t] \in Waits
    /\ pc[t] \in {"lock", "trylock", "holding"} => op[t] \in Pushes \cup Takers
    /\ pc[t] = "trylock" => op[t] \in Tries
    /\ pc[t] = "notify" => op[t] \in Pushes
    /\ pc[t] = "notifyAll" => op[t] = "close"
    /\ pc[t] # "idle" => op[t] \in Roles[t]
    /\ pc[t] \in {"lock", "trylock", "holding"} /\ op[t] \in Pushes => arg[t] \in Items
SleepInv    == \A t \in Threads : pc[t] = "sleep" => fifo = <<>>
SwappedInv ==
  /\ \A i \in 1..Len(fifo) : fifo[i] = None => i = 1 /\ \E t \in Threads : pc[t] = "erasing"
  /\ \A t \in Threads : pc[t] = "erasing" => fifo # <<>> /\ fifo[1] = None
QueueInv == TypeOK /\ HolderInv /\ SleeperInv /\ OpInv /\ SleepInv /\ SwappedInv

\* What can still be taken: a swapped-out front is gone already.
Contents == IF fifo # <<>> /\ Head(fifo) = None THEN Tail(fifo) ELSE fifo

\* Every element that entered the deque was taken exactly once or is still
\* there, in the order of entry, whatever mixture of pop, pop(msec), tryPop and
\* the flushes took them: nothing is lost, taken twice, reordered or handed out
\* as an empty pointer (BlockingQueue::push to tryFlush).
ExactlyOnceInOrder ==
  accepted = [i \in 1..Len(delivered) |-> delivered[i].item] \o Contents

\* An untimed pop() or flush() returns NULL only when the queue was closed: a
\* spurious wakeup, or another thread that took the element first, never ends
\* it (the while loops of pop and flush).
NullMeansClosed ==
  \A t \in Threads :
    pc[t] = "idle" /\ op[t] \in {"pop", "flush"} /\ result[t] = "null" => ~opened

\* Threads that will look at the deque before they sleep, or wake one that will.
Helpers ==
  {t \in Threads : \/ pc[t] = "notify"
                   \/ op[t] \in {"pop", "flush"} /\ pc[t] \in {"lock", "holding", "relock", "woken"}}

\* While somebody sleeps, each element in the deque has a thread that is about
\* to take it or to notify: the notify_one after the unlock of push and tryPush
\* is never lost.  It takes threads that stay awake until they tested again, so
\* it is about queues without timed calls.
NoTimedCalls == \A t \in Threads : Roles[t] \cap Timed = {}
NoLostNotification ==
  NoTimedCalls /\ waiters # {} => Len(Contents) <= Cardinality(Helpers)

\* The queue behaves like the closable FIFO of ClosableFifo.tla.
Admitted == {t \in Threads : op[t] \in Pushes /\ pc[t] \in {"lock", "trylock", "holding"}}
Fifo == INSTANCE ClosableFifo WITH
  queue <- Contents, open <- opened, admitted <- Admitted, delivered <- delivered
ImplementsFifo == Fifo!FifoSpec

(* Liveness, under Fairness *)

\* An element is not left in the deque while a thread sleeps waiting for one.
SleepersAreServed == (Contents # <<>> /\ waiters # {}) ~> (Contents = <<>> \/ waiters = {})

(* What the documentation says *)

\* blocking-queue.h:66: close() "makes all the pending pop() return NULL".
PendingPopsReturn ==
  \A t \in Threads : (~opened /\ op[t] = "pop" /\ pc[t] # "idle") ~> pc[t] = "idle"
=============================================================================
