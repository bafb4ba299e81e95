------------------------- MODULE BlockingQueueProofs -------------------------
(***************************************************************************)
(* Theorems about BlockingQueue for any threads, elements and roles.       *)
(***************************************************************************)
EXTENDS BlockingQueue, SequenceTheorems, FiniteSetTheorems, TLAPS

\* The inductive invariant holds in the initial state (the constructor).
LEMMA QueueInvInit == Init => QueueInv
  BY NoneAssumption
  DEF Init, QueueInv, TypeOK, HolderInv, SleeperInv, OpInv, SleepInv, SwappedInv, Inside,
      OpNames, Labels, Results

\* Every step of every thread preserves it.
LEMMA QueueInvStep == QueueInv /\ [Next]_vars => QueueInv'
<1> SUFFICES ASSUME QueueInv, [Next]_vars PROVE QueueInv'
    OBVIOUS
<1> USE RolesAssumption, NoneAssumption
<1>1. TypeOK /\ HolderInv /\ SleeperInv /\ OpInv /\ SleepInv /\ SwappedInv
      BY DEF QueueInv
<1>q. CASE UNCHANGED vars
      BY <1>1, <1>q DEF QueueInv, TypeOK, HolderInv, SleeperInv, OpInv, SleepInv, SwappedInv, vars
<1>2. ASSUME NEW t \in Threads, NEW o \in Pushes, NEW x \in Items, CallPush(t, o, x)
      PROVE  QueueInv'
  <2>1. o \in OpNames BY DEF Pushes, OpNames
  <2>2. TypeOK' BY <1>1, <1>2, <2>1 DEF TypeOK, CallPush, Called, Goto, Return, Labels, Results
  <2>3. (HolderInv /\ SleeperInv /\ OpInv)'
        BY <1>1, <1>2, <2>1 DEF TypeOK, HolderInv, SleeperInv, OpInv, CallPush, Called, Goto,
           Return, Inside, Pushes, Takers, Waits, Tries
  <2>4. (SleepInv /\ SwappedInv)'
        BY <1>1, <1>2, <2>1 DEF TypeOK, SleepInv, SwappedInv, CallPush, Called, Goto, Return
  <2> QED BY <2>2, <2>3, <2>4 DEF QueueInv
<1>3. ASSUME NEW t \in Threads, NEW o \in Takers, CallTake(t, o)
      PROVE  QueueInv'
  <2>1. o \in OpNames BY DEF Takers, Waits, OpNames
  <2>2. TypeOK' BY <1>1, <1>3, <2>1 DEF TypeOK, CallTake, Called, Goto, Labels, Results
  <2>3. (HolderInv /\ SleeperInv /\ OpInv)'
        BY <1>1, <1>3, <2>1 DEF TypeOK, HolderInv, SleeperInv, OpInv, CallTake, Called, Goto,
           Inside, Pushes, Takers, Waits, Tries
  <2>4. (SleepInv /\ SwappedInv)'
        BY <1>1, <1>3, <2>1 DEF TypeOK, SleepInv, SwappedInv, CallTake, Called, Goto
  <2> QED BY <2>2, <2>3, <2>4 DEF QueueInv
<1>c. ASSUME NEW t \in Threads, CallClose(t) PROVE QueueInv'
  <2>1. TypeOK'
        BY <1>1, <1>c DEF TypeOK, CallClose, Called, Goto, Labels, Results, OpNames
  <2>2. (HolderInv /\ SleeperInv /\ OpInv)'
        BY <1>1, <1>c DEF TypeOK, HolderInv, SleeperInv, OpInv, CallClose, Called, Goto, Inside, Pushes
  <2>3. (SleepInv /\ SwappedInv)'
        BY <1>1, <1>c DEF TypeOK, SleepInv, SwappedInv, CallClose, Called, Goto
  <2> QED BY <2>1, <2>2, <2>3 DEF QueueInv
<1>4. ASSUME NEW t \in Threads, NotifyAll(t) PROVE QueueInv'
  <2>1. TypeOK'
        BY <1>1, <1>4 DEF TypeOK, NotifyAll, Goto, Labels, Results
  <2>2. UNCHANGED <<fifo, mut, op, arg>> /\ pc[t] \in {"notify", "notifyAll"}
        BY <1>4 DEF NotifyAll
  <2>3. \A u \in Threads :
          \/ u = t /\ pc'[u] = "idle" /\ (u \in waiters' <=> u \in waiters)
          \/ u # t /\ u \in waiters /\ u \notin waiters' /\ pc'[u] = "relock"
          \/ u # t /\ (u \in waiters' <=> u \in waiters) /\ pc'[u] = pc[u]
        BY <1>1, <1>4 DEF TypeOK, SleeperInv, NotifyAll, Goto
  <2>4. HolderInv'
        BY <1>1, <2>2, <2>3 DEF HolderInv, SleeperInv, Inside
  <2>5. SleeperInv'
        BY <1>1, <2>2, <2>3 DEF SleeperInv
  <2>6. OpInv'
        BY <1>1, <2>2, <2>3 DEF OpInv, SleeperInv
  <2>7. \A u \in Threads : \/ pc'[u] = pc[u]
                            \/ /\ pc[u] \notin {"sleep", "erasing"}
                               /\ pc'[u] \notin {"sleep", "erasing"}
        BY <1>1, <2>2, <2>3 DEF SleeperInv
  <2>8. SleepInv' BY <1>1, <2>2, <2>7 DEF SleepInv
  <2>9. SwappedInv' BY <1>1, <2>2, <2>7, Zenon DEF SwappedInv
  <2> QED BY <2>1, <2>4, <2>5, <2>6, <2>8, <2>9 DEF QueueInv
<1>5. ASSUME NEW t \in Threads, Lock(t) PROVE QueueInv'
  <2>1. TypeOK'
        BY <1>1, <1>5 DEF TypeOK, HolderInv, OpInv, Lock, Goto, Free, Labels, Results, Inside
  <2>2. (HolderInv /\ SleeperInv /\ OpInv)'
        BY <1>1, <1>5
        DEF TypeOK, HolderInv, SleeperInv, OpInv, Lock, Goto, Free, Inside, Pushes, Takers, Waits, Tries
  <2>3. (SleepInv /\ SwappedInv)'
        BY <1>1, <1>5 DEF TypeOK, HolderInv, SleepInv, OpInv, SwappedInv, Lock, Goto, Free, Inside
  <2> QED BY <2>1, <2>2, <2>3 DEF QueueInv
<1>6. ASSUME NEW t \in Threads, TryLock(t) PROVE QueueInv'
  <2>1. TypeOK'
        BY <1>1, <1>6 DEF TypeOK, HolderInv, OpInv, TryLock, Goto, Return, Free, Labels, Results, Inside
  <2>2. (HolderInv /\ SleeperInv /\ OpInv)'
        BY <1>1, <1>6
        DEF TypeOK, HolderInv, SleeperInv, OpInv, TryLock, Goto, Return, Free, Inside, Pushes, Takers, Waits, Tries
  <2>3. (SleepInv /\ SwappedInv)'
        BY <1>1, <1>6 DEF TypeOK, HolderInv, SleepInv, OpInv, SwappedInv, TryLock, Goto, Return, Free, Inside
  <2> QED BY <2>1, <2>2, <2>3 DEF QueueInv
<1>7. ASSUME NEW t \in Threads, PushBack(t) PROVE QueueInv'
  <2>1. TypeOK'
        BY <1>1, <1>7 DEF TypeOK, HolderInv, OpInv, PushBack, Goto, Moved, AfterPush, Unlock, Labels, Results, Inside
  <2>2. (HolderInv /\ SleeperInv /\ OpInv)'
        BY <1>1, <1>7
        DEF TypeOK, HolderInv, SleeperInv, OpInv, PushBack, Goto, Moved, AfterPush, Unlock, Inside, Pushes, Takers, Waits, Tries
  <2>3. (SleepInv /\ SwappedInv)'
        BY <1>1, <1>7 DEF TypeOK, HolderInv, SleepInv, OpInv, SwappedInv, PushBack, Goto, Moved, AfterPush, Unlock, Inside
  <2> QED BY <2>1, <2>2, <2>3 DEF QueueInv
<1>8. ASSUME NEW t \in Threads, NotifyOne(t) PROVE QueueInv'
  <2>1. TypeOK'
        BY <1>1, <1>8 DEF TypeOK, NotifyOne, Goto, Labels, Results
  <2>2. UNCHANGED <<fifo, mut, op, arg>> /\ pc[t] \in {"notify", "notifyAll"}
        BY <1>8 DEF NotifyOne
  <2>3. \A u \in Threads :
          \/ u = t /\ pc'[u] = "idle" /\ (u \in waiters' <=> u \in waiters)
          \/ u # t /\ u \in waiters /\ u \notin waiters' /\ pc'[u] = "relock"
          \/ u # t /\ (u \in waiters' <=> u \in waiters) /\ pc'[u] = pc[u]
        BY <1>1, <1>8 DEF TypeOK, SleeperInv, NotifyOne, Goto
  <2>4. HolderInv'
        BY <1>1, <2>2, <2>3 DEF HolderInv, SleeperInv, Inside
  <2>5. SleeperInv'
        BY <1>1, <2>2, <2>3 DEF SleeperInv
  <2>6. OpInv'
        BY <1>1, <2>2, <2>3 DEF OpInv, SleeperInv
  <2>7. \A u \in Threads : \/ pc'[u] = pc[u]
                            \/ /\ pc[u] \notin {"sleep", "erasing"}
                               /\ pc'[u] \notin {"sleep", "erasing"}
        BY <1>1, <2>2, <2>3 DEF SleeperInv
  <2>8. SleepInv' BY <1>1, <2>2, <2>7 DEF SleepInv
  <2>9. SwappedInv' BY <1>1, <2>2, <2>7, Zenon DEF SwappedInv
  <2> QED BY <2>1, <2>4, <2>5, <2>6, <2>8, <2>9 DEF QueueInv
<1>9. ASSUME NEW t \in Threads, Test(t) PROVE QueueInv'
  <2>1. TypeOK'
        BY <1>1, <1>9 DEF TypeOK, HolderInv, OpInv, Test, Goto, MustWait, Labels, Results, Inside
  <2>2. (HolderInv /\ SleeperInv /\ OpInv)'
        BY <1>1, <1>9
        DEF TypeOK, HolderInv, SleeperInv, OpInv, Test, Goto, MustWait, Inside, Pushes, Takers, Waits, Tries
  <2>3. (SleepInv /\ SwappedInv)'
        BY <1>1, <1>9 DEF TypeOK, HolderInv, SleepInv, OpInv, SwappedInv, Test, Goto, MustWait, Inside
  <2> QED BY <2>1, <2>2, <2>3 DEF QueueInv
<1>10. ASSUME NEW t \in Threads, Sleep(t) PROVE QueueInv'
  <2>1. TypeOK'
        BY <1>1, <1>10 DEF TypeOK, HolderInv, OpInv, Sleep, Goto, Unlock, Labels, Results, Inside
  <2>2. (HolderInv /\ SleeperInv /\ OpInv)'
        BY <1>1, <1>10
        DEF TypeOK, HolderInv, SleeperInv, OpInv, Sleep, Goto, Unlock, Inside, Pushes, Takers, Waits, Tries
  <2>3. (SleepInv /\ SwappedInv)'
        BY <1>1, <1>10 DEF TypeOK, HolderInv, SleepInv, OpInv, SwappedInv, Sleep, Goto, Unlock, Inside
  <2> QED BY <2>1, <2>2, <2>3 DEF QueueInv
<1>11. ASSUME NEW t \in Threads, Wake(t) PROVE QueueInv'
  <2>1. TypeOK'
        BY <1>1, <1>11 DEF TypeOK, HolderInv, OpInv, Wake, Goto, Labels, Results, Inside
  <2>2. (HolderInv /\ SleeperInv /\ OpInv)'
        BY <1>1, <1>11
        DEF TypeOK, HolderInv, SleeperInv, OpInv, Wake, Goto, Inside, Pushes, Takers, Waits, Tries
  <2>3. (SleepInv /\ SwappedInv)'
        BY <1>1, <1>11 DEF TypeOK, HolderInv, SleepInv, OpInv, SwappedInv, Wake, Goto, Inside
  <2> QED BY <2>1, <2>2, <2>3 DEF QueueInv
<1>12. ASSUME NEW t \in Threads, Relock(t) PROVE QueueInv'
  <2>1. TypeOK'
        BY <1>1, <1>12 DEF TypeOK, HolderInv, OpInv, Relock, Goto, Free, Labels, Results, Inside
  <2>2. (HolderInv /\ SleeperInv /\ OpInv)'
        BY <1>1, <1>12
        DEF TypeOK, HolderInv, SleeperInv, OpInv, Relock, Goto, Free, Inside, Pushes, Takers, Waits, Tries
  <2>3. (SleepInv /\ SwappedInv)'
        BY <1>1, <1>12 DEF TypeOK, HolderInv, SleepInv, OpInv, SwappedInv, Relock, Goto, Free, Inside
  <2> QED BY <2>1, <2>2, <2>3 DEF QueueInv
<1>13. ASSUME NEW t \in Threads, Expire(t) PROVE QueueInv'
  <2>1. TypeOK'
        BY <1>1, <1>13 DEF TypeOK, HolderInv, OpInv, Expire, Goto, Return, Unlock, Labels, Results, Inside
  <2>2. (HolderInv /\ SleeperInv /\ OpInv)'
        BY <1>1, <1>13
        DEF TypeOK, HolderInv, SleeperInv, OpInv, Expire, Goto, Return, Unlock, Inside, Pushes, Takers, Waits, Tries
  <2>3. (SleepInv /\ SwappedInv)'
        BY <1>1, <1>13 DEF TypeOK, HolderInv, SleepInv, OpInv, SwappedInv, Expire, Goto, Return, Unlock, Inside
  <2> QED BY <2>1, <2>2, <2>3 DEF QueueInv
<1>14. ASSUME NEW t \in Threads, ReturnNull(t) PROVE QueueInv'
  <2>1. TypeOK'
        BY <1>1, <1>14 DEF TypeOK, HolderInv, OpInv, ReturnNull, Goto, Return, Unlock, Ready, Labels, Results, Inside
  <2>2. (HolderInv /\ SleeperInv /\ OpInv)'
        BY <1>1, <1>14
        DEF TypeOK, HolderInv, SleeperInv, OpInv, ReturnNull, Goto, Return, Unlock, Ready, Inside, Pushes, Takers, Waits, Tries
  <2>3. (SleepInv /\ SwappedInv)'
        BY <1>1, <1>14 DEF TypeOK, HolderInv, SleepInv, OpInv, SwappedInv, ReturnNull, Goto, Return, Unlock, Ready, Inside
  <2> QED BY <2>1, <2>2, <2>3 DEF QueueInv
<1>15. ASSUME NEW t \in Threads, SwapFront(t) PROVE QueueInv'
  <2>1. TypeOK'
        BY <1>1, <1>15 DEF TypeOK, HolderInv, OpInv, SwapFront, Goto, Ready, OnePops, Labels, Results, Inside
  <2>2. (HolderInv /\ SleeperInv /\ OpInv)'
        BY <1>1, <1>15
        DEF TypeOK, HolderInv, SleeperInv, OpInv, SwapFront, Goto, Ready, OnePops, Inside, Pushes, Takers, Waits, Tries
  <2>3. (SleepInv /\ SwappedInv)'
        BY <1>1, <1>15 DEF TypeOK, HolderInv, SleepInv, OpInv, SwappedInv, SwapFront, Goto, Ready, OnePops, Inside
  <2> QED BY <2>1, <2>2, <2>3 DEF QueueInv
<1>16. ASSUME NEW t \in Threads, PopFront(t) PROVE QueueInv'
  <2>1. TypeOK'
        BY <1>1, <1>16 DEF TypeOK, HolderInv, SwappedInv, PopFront, Goto, Return, Unlock, Labels, Results, Inside
  <2>2. (HolderInv /\ SleeperInv /\ OpInv)'
        BY <1>1, <1>16
        DEF TypeOK, HolderInv, SleeperInv, OpInv, PopFront, Goto, Return, Unlock, Inside, Pushes, Takers, Waits, Tries
  <2>3. (SleepInv /\ SwappedInv)'
        BY <1>1, <1>16 DEF TypeOK, HolderInv, SleepInv, OpInv, SwappedInv, PopFront, Goto, Return, Unlock, Inside
  <2> QED BY <2>1, <2>2, <2>3 DEF QueueInv
<1>17. ASSUME NEW t \in Threads, SwapAll(t) PROVE QueueInv'
  <2>1. TypeOK'
        BY <1>1, <1>17 DEF TypeOK, HolderInv, OpInv, SwapAll, Goto, Return, Unlock, Ready, OnePops, Labels, Results, Inside
  <2>2. (HolderInv /\ SleeperInv /\ OpInv)'
        BY <1>1, <1>17
        DEF TypeOK, HolderInv, SleeperInv, OpInv, SwapAll, Goto, Return, Unlock, Ready, OnePops, Inside, Pushes, Takers, Waits, Tries
  <2>3. (SleepInv /\ SwappedInv)'
        BY <1>1, <1>17 DEF TypeOK, HolderInv, SleepInv, OpInv, SwappedInv, SwapAll, Goto, Return, Unlock, Ready, OnePops, Inside
  <2> QED BY <2>1, <2>2, <2>3 DEF QueueInv
<1> QED
  BY <1>q, <1>2, <1>3, <1>c, <1>4, <1>5, <1>6, <1>7, <1>8, <1>9, <1>10, <1>11, <1>12, <1>13,
     <1>14, <1>15, <1>16, <1>17 DEF Next, Call, Step

\* Types, the ownership of the mutex and of the sleepers, for every instance.
THEOREM Typing == Spec => []QueueInv
  BY QueueInvInit, QueueInvStep, PTL DEF Spec

\* Once closed, for ever closed: no operation sets opened again.
LEMMA OpenedStep == ASSUME QueueInv, [Next]_vars, ~opened PROVE ~opened'
  BY DEF Next, Call, Step, vars, CallPush, CallTake, CallClose, NotifyAll, Lock, TryLock, PushBack,
     NotifyOne, Test, Sleep, Wake, Relock, Expire, ReturnNull, SwapFront, PopFront, SwapAll

\* NullMeansClosed, for every instance: the value NULL of pop() and flush().
THEOREM NullMeansClosedHolds == Spec => []NullMeansClosed
<1>1. Init => NullMeansClosed
      BY DEF Init, NullMeansClosed
<1>2. QueueInv /\ NullMeansClosed /\ [Next]_vars => NullMeansClosed'
  <2> SUFFICES ASSUME QueueInv, NullMeansClosed, [Next]_vars PROVE NullMeansClosed'
      OBVIOUS
  <2>1. ~opened => ~opened' BY OpenedStep
  <2>2. TypeOK /\ OpInv BY DEF QueueInv
  <2> SUFFICES ASSUME NEW u \in Threads, pc'[u] = "idle", op'[u] \in {"pop", "flush"},
                      result'[u] = "null", pc[u] # "idle" \/ op'[u] # op[u] \/ result'[u] # result[u]
               PROVE  ~opened'
      BY <2>1 DEF NullMeansClosed
  <2>3. ASSUME NEW t \in Threads, ReturnNull(t) PROVE ~opened'
        BY <2>2, <2>3 DEF ReturnNull, Ready, MustWait, Goto, Return, TypeOK, Waits
  <2>4. ASSUME NEW t \in Threads, TryLock(t) PROVE FALSE
        BY <2>2, <2>4 DEF TryLock, Goto, Return, TypeOK, OpInv, Tries
  <2>5. ASSUME NEW t \in Threads, Expire(t) PROVE FALSE
        BY <2>2, <2>5 DEF Expire, Goto, Return, TypeOK, Timed
  <2>6. ASSUME NEW t \in Threads, NotifyOne(t) PROVE FALSE
        BY <2>2, <2>6 DEF NotifyOne, Goto, TypeOK, OpInv, Pushes
  <2>7. ASSUME NEW t \in Threads, NotifyAll(t) PROVE FALSE
        BY <2>2, <2>7 DEF NotifyAll, Goto, TypeOK, OpInv
  <2>8. ASSUME NEW t \in Threads, NEW o \in Pushes, NEW x \in Items, CallPush(t, o, x) PROVE FALSE
        BY <2>2, <2>8 DEF CallPush, Called, Goto, Return, TypeOK, Pushes
  <2>9. ASSUME NEW t \in Threads, \/ PopFront(t) \/ SwapAll(t) PROVE FALSE
        BY <2>2, <2>9 DEF PopFront, SwapAll, Goto, Return, TypeOK
  <2>10. ASSUME NEW t \in Threads, \/ CallClose(t) \/ \E o \in Takers : CallTake(t, o) PROVE FALSE
        BY <2>2, <2>10 DEF CallClose, CallTake, Called, Goto, TypeOK
  <2>11. ASSUME NEW t \in Threads, \/ Lock(t) \/ PushBack(t) \/ Test(t) \/ Sleep(t) \/ Wake(t)
                                   \/ Relock(t) \/ SwapFront(t)
         PROVE FALSE
        BY <2>2, <2>11 DEF Lock, PushBack, Test, Sleep, Wake, Relock, SwapFront, Goto, AfterPush, TypeOK
  <2>12. CASE UNCHANGED vars BY <2>12 DEF vars
  <2> QED
    BY <2>3, <2>4, <2>5, <2>6, <2>7, <2>8, <2>9, <2>10, <2>11, <2>12 DEF Next, Call, Step
<1> QED BY <1>1, <1>2, Typing, PTL DEF Spec


-----------------------------------------------------------------------------
\* A sequence none of whose elements is x.
LEMMA NarrowSeq ==
  ASSUME NEW S, NEW x, NEW s \in Seq(S \cup {x}), \A i \in 1..Len(s) : s[i] # x
  PROVE  s \in Seq(S)
<1>1. Len(s) \in Nat /\ s \in [1..Len(s) -> S \cup {x}] BY LenProperties
<1>2. \A i \in 1..Len(s) : s[i] \in S BY <1>1
<1>3. s \in [1..Len(s) -> S] BY <1>1, <1>2
<1> QED BY <1>1, <1>3, SeqDef

(* What a step does to the contents, and to the two histories. *)

\* Without an empty front the contents are the deque, with one they are its tail.
ContentsShape ==
  /\ Contents \in Seq(Items)
  /\ (\A t \in Threads : pc[t] # "erasing") => Contents = fifo
  /\ (\E t \in Threads : pc[t] = "erasing") => fifo # <<>> /\ Contents = Tail(fifo)

LEMMA ContentsHaveShape == QueueInv => ContentsShape
<1> SUFFICES ASSUME QueueInv PROVE ContentsShape OBVIOUS
<1>1. TypeOK /\ SwappedInv BY DEF QueueInv
<1>2. fifo \in Seq(Items \cup {None}) BY <1>1 DEF TypeOK
<1>3. fifo # <<>> => Len(fifo) >= 1 /\ Head(fifo) = fifo[1] BY <1>2
<1>4. CASE \A t \in Threads : pc[t] # "erasing"
  <2>1. \A i \in 1..Len(fifo) : fifo[i] # None BY <1>1, <1>4 DEF SwappedInv
  <2>3. fifo \in Seq(Items) BY <1>2, <2>1, NarrowSeq
  <2>4. Contents = fifo BY <1>3, <1>2, <2>1 DEF Contents
  <2> QED BY <1>4, <2>3, <2>4 DEF ContentsShape
<1>5. CASE \E t \in Threads : pc[t] = "erasing"
  <2>1. fifo # <<>> /\ fifo[1] = None BY <1>1, <1>5 DEF SwappedInv
  <2>2. Contents = Tail(fifo) BY <1>3, <2>1 DEF Contents
  <2>3. /\ Tail(fifo) \in Seq(Items \cup {None})
        /\ Len(Tail(fifo)) = Len(fifo) - 1
        /\ \A i \in 1..Len(Tail(fifo)) : Tail(fifo)[i] = fifo[i+1]
        BY <1>2, <2>1, HeadTailProperties
  <2>4. \A i \in 1..Len(Tail(fifo)) : Tail(fifo)[i] # None
        BY <1>1, <1>2, <2>3 DEF SwappedInv
  <2>6. Tail(fifo) \in Seq(Items) BY <2>3, <2>4, NarrowSeq
  <2> QED BY <1>5, <2>1, <2>2, <2>6 DEF ContentsShape
<1> QED BY <1>4, <1>5

PutStep(t, x) ==
  /\ pc[t] = "holding" /\ op[t] \in Pushes /\ x = arg[t]
  /\ Contents' = Append(Contents, x)
  /\ accepted' = Append(accepted, x)
  /\ delivered' = delivered
TakeOneStep(t) ==
  /\ op[t] \in OnePops
  /\ Contents # <<>>
  /\ Contents' = Tail(Contents)
  /\ delivered' = Append(delivered, [by |-> t, item |-> Head(Contents)])
  /\ accepted' = accepted
TakeAllStep(t) ==
  /\ Contents # <<>>
  /\ Contents' = <<>>
  /\ delivered' = delivered \o [i \in 1..Len(Contents) |-> [by |-> t, item |-> Contents[i]]]
  /\ accepted' = accepted

\* The holder of the mutex is the only thread inside.
LEMMA OneInside ==
  ASSUME QueueInv, NEW t \in Threads, pc[t] \in Inside, NEW u \in Threads, pc[u] \in Inside
  PROVE  t = u
  BY DEF QueueInv, HolderInv

LEMMA PushBackContents ==
  ASSUME QueueInv, QueueInv', NEW t \in Threads, PushBack(t)
  PROVE  arg[t] \in Items /\ PutStep(t, arg[t])
<1>1. \A u \in Threads : pc[u] # "erasing"
      BY OneInside DEF PushBack, Inside
<1>2. \A u \in Threads : pc'[u] # "erasing"
      BY <1>1 DEF PushBack, Goto, AfterPush, QueueInv, TypeOK
<1>3. ContentsShape /\ ContentsShape' BY ContentsHaveShape, PTL
<1>4. Contents = fifo /\ Contents' = fifo' BY <1>1, <1>2, <1>3 DEF ContentsShape
<1>5. arg[t] \in Items BY DEF PushBack, QueueInv, OpInv
<1> QED BY <1>4, <1>5 DEF PushBack, Moved, PutStep

LEMMA SwapFrontContents ==
  ASSUME QueueInv, QueueInv', NEW t \in Threads, SwapFront(t)
  PROVE  TakeOneStep(t)
<1>1. \A u \in Threads : pc[u] # "erasing"
      BY OneInside DEF SwapFront, Ready, Inside
<1>2. pc'[t] = "erasing"
      BY DEF SwapFront, Goto, QueueInv, TypeOK
<1>3. ContentsShape /\ ContentsShape' BY ContentsHaveShape, PTL
<1>4. Contents = fifo /\ Contents' = Tail(fifo') BY <1>1, <1>2, <1>3 DEF ContentsShape
<1>5. fifo \in Seq(Items) BY <1>3, <1>4 DEF ContentsShape
<1>6. fifo # <<>> /\ fifo' = [fifo EXCEPT ![1] = None] BY DEF SwapFront
<1>7. Tail(fifo') = Tail(fifo) BY <1>5, <1>6
<1> QED BY <1>4, <1>6, <1>7 DEF SwapFront, TakeOneStep

LEMMA PopFrontContents ==
  ASSUME QueueInv, QueueInv', NEW t \in Threads, PopFront(t)
  PROVE  UNCHANGED <<Contents, accepted, delivered>>
<1>1. pc[t] = "erasing" BY DEF PopFront
<1>2. \A u \in Threads : pc'[u] # "erasing"
      BY <1>1, OneInside DEF PopFront, Goto, Return, QueueInv, TypeOK, Inside
<1>3. ContentsShape /\ ContentsShape' BY ContentsHaveShape, PTL
<1>4. Contents = Tail(fifo) /\ Contents' = fifo' BY <1>1, <1>2, <1>3 DEF ContentsShape
<1> QED BY <1>4 DEF PopFront

LEMMA SwapAllContents ==
  ASSUME QueueInv, QueueInv', NEW t \in Threads, SwapAll(t)
  PROVE  TakeAllStep(t)
<1>1. \A u \in Threads : pc[u] # "erasing"
      BY OneInside DEF SwapAll, Ready, Inside
<1>3. ContentsShape /\ ContentsShape' BY ContentsHaveShape, PTL
<1>4. Contents = fifo BY <1>1, <1>3 DEF ContentsShape
<1>5. Contents' = <<>> BY DEF SwapAll, Contents
<1> QED BY <1>4, <1>5 DEF SwapAll, TakeAllStep

\* Every other step leaves the contents and the histories alone.
OtherStep(t) ==
  \/ \E o \in Pushes, x \in Items : CallPush(t, o, x)
  \/ \E o \in Takers : CallTake(t, o)
  \/ CallClose(t) \/ Lock(t) \/ TryLock(t) \/ NotifyOne(t) \/ NotifyAll(t)
  \/ Test(t) \/ Sleep(t) \/ Wake(t) \/ Relock(t) \/ Expire(t) \/ ReturnNull(t)

LEMMA OtherContents ==
  ASSUME NEW t \in Threads, OtherStep(t)
  PROVE  UNCHANGED <<fifo, Contents, accepted, delivered>>
<1>1. UNCHANGED <<fifo, accepted, delivered>>
      BY DEF OtherStep, CallPush, CallTake, CallClose, Lock, TryLock, NotifyOne, NotifyAll, Test,
         Sleep, Wake, Relock, Expire, ReturnNull
<1> QED BY <1>1 DEF Contents

LEMMA NextCases ==
  ASSUME [Next]_vars
  PROVE  \/ \E t \in Threads : \/ OtherStep(t) \/ PushBack(t) \/ SwapFront(t) \/ PopFront(t)
                               \/ SwapAll(t)
         \/ UNCHANGED vars
  BY DEF Next, Call, Step, OtherStep

-----------------------------------------------------------------------------
(* Exactly once, in order. *)

Taken == [i \in 1..Len(delivered) |-> delivered[i].item]

LEMMA MoveHead ==
  ASSUME NEW S, NEW a \in Seq(S), NEW b \in Seq(S), b # <<>>
  PROVE  a \o b = Append(a, Head(b)) \o Tail(b)
  OBVIOUS

\* ExactlyOnceInOrder for every instance: every order of calls by any number of
\* threads hands out each element once, first in first out.
THEOREM ExactlyOnceInOrderHolds == Spec => []ExactlyOnceInOrder
<1>1. Init => ExactlyOnceInOrder
      BY DEF Init, ExactlyOnceInOrder, Contents
<1>2. QueueInv /\ QueueInv' /\ ExactlyOnceInOrder /\ [Next]_vars => ExactlyOnceInOrder'
  <2> SUFFICES ASSUME QueueInv, QueueInv', ExactlyOnceInOrder, [Next]_vars
               PROVE  ExactlyOnceInOrder'
      OBVIOUS
  <2> DEFINE Cells == Items \cup {None}
             Deliveries == [by : Threads, item : Cells]
  <2>1. accepted = Taken \o Contents BY DEF ExactlyOnceInOrder, Taken
  <2>2. /\ Contents \in Seq(Items) /\ Contents \in Seq(Cells)
        /\ delivered \in Seq(Deliveries)
        BY ContentsHaveShape, SeqMonotonic DEF ContentsShape, QueueInv, TypeOK
  <2>3. Taken \in Seq(Cells)
    <3>1. Len(delivered) \in Nat /\ \A i \in 1..Len(delivered) : delivered[i] \in Deliveries
          BY <2>2, LenProperties, ElementOfSeq
    <3>2. Taken \in [1..Len(delivered) -> Cells] BY <3>1 DEF Taken
    <3> QED BY <3>1, <3>2, SeqDef
  <2> SUFFICES accepted' = Taken' \o Contents' BY DEF ExactlyOnceInOrder, Taken
  <2>4. ASSUME NEW t \in Threads, OtherStep(t) \/ PopFront(t) PROVE accepted' = Taken' \o Contents'
        BY <2>1, <2>4, OtherContents, PopFrontContents DEF Taken
  <2>5. ASSUME NEW t \in Threads, PushBack(t) PROVE accepted' = Taken' \o Contents'
    <3>1. arg[t] \in Items /\ PutStep(t, arg[t]) BY <2>5, PushBackContents
    <3>2. arg[t] \in Cells BY <3>1
    <3>3. accepted' = accepted \o <<arg[t]>> /\ Contents' = Contents \o <<arg[t]>>
          BY <2>2, <3>1, AppendIsConcat DEF PutStep, QueueInv, TypeOK
    <3>4. (Taken \o Contents) \o <<arg[t]>> = Taken \o (Contents \o <<arg[t]>>)
          BY <2>2, <2>3, <3>2, ConcatAssociative
    <3> QED BY <2>1, <3>1, <3>3, <3>4 DEF PutStep, Taken
  <2>6. ASSUME NEW t \in Threads, SwapFront(t) PROVE accepted' = Taken' \o Contents'
    <3>1. TakeOneStep(t) BY <2>6, SwapFrontContents
    <3>2. Head(Contents) \in Cells BY <2>2, <3>1 DEF TakeOneStep
    <3>3. Taken' = Append(Taken, Head(Contents))
          BY <2>2, <3>1, <3>2 DEF TakeOneStep, Taken
    <3> QED BY <2>1, <2>2, <2>3, <3>1, <3>3, MoveHead DEF TakeOneStep
  <2>7. ASSUME NEW t \in Threads, SwapAll(t) PROVE accepted' = Taken' \o Contents'
    <3>1. TakeAllStep(t) BY <2>7, SwapAllContents
    <3>2. [i \in 1..Len(Contents) |-> [by |-> t, item |-> Contents[i]]] \in Seq(Deliveries)
          BY <2>2
    <3>3. Taken' = Taken \o Contents
          BY <2>2, <3>1, <3>2 DEF TakeAllStep, Taken
    <3> QED BY <2>1, <2>2, <2>3, <3>1, <3>3, ConcatEmptySeq DEF TakeAllStep
  <2>8. CASE UNCHANGED vars
        BY <2>1, <2>8 DEF vars, Taken, Contents
  <2> QED BY <2>4, <2>5, <2>6, <2>7, <2>8, NextCases
<1>3. QueueInv /\ [Next]_vars => QueueInv' BY QueueInvStep
<1> QED BY <1>1, <1>2, <1>3, Typing, PTL DEF Spec

-----------------------------------------------------------------------------
(* No notification is lost. *)

\* Helpers is a finite set.
LEMMA HelpersFinite ==
  ASSUME IsFiniteSet(Threads)
  PROVE  IsFiniteSet(Helpers) /\ Cardinality(Helpers) \in Nat
  BY FS_Subset, FS_CardinalityType DEF Helpers

\* A step that leaves nothing in the deque, or nobody asleep, needs no helper.
LEMMA NothingLeft ==
  ASSUME IsFiniteSet(Threads), Contents' = <<>> \/ waiters' = {}
  PROVE  NoLostNotification'
<1>1. (IsFiniteSet(Threads) => Cardinality(Helpers) \in Nat)'
      BY HelpersFinite, PTL
<1> QED BY <1>1 DEF NoLostNotification

\* NoLostNotification for every queue without timed calls: one notify_one per
\* push is enough, for any number of pushing and of waiting threads.
THEOREM NoLostNotificationHolds ==
  ASSUME IsFiniteSet(Threads)
  PROVE  Spec => []NoLostNotification
<1>1. Init => NoLostNotification
      BY DEF Init, NoLostNotification
<1>2. QueueInv /\ QueueInv' /\ NoLostNotification /\ [Next]_vars => NoLostNotification'
  <2> SUFFICES ASSUME QueueInv, QueueInv', NoLostNotification, [Next]_vars,
                      NoTimedCalls, waiters' # {}
               PROVE  NoLostNotification'
      BY DEF NoLostNotification, NoTimedCalls
  <2>1. /\ IsFiniteSet(Helpers) /\ Cardinality(Helpers) \in Nat
        /\ (IsFiniteSet(Helpers) /\ Cardinality(Helpers) \in Nat)'
        BY HelpersFinite, PTL
  <2>2. Contents \in Seq(Items) /\ Contents' \in Seq(Items)
    <3>1. ContentsShape /\ ContentsShape' BY ContentsHaveShape, PTL
    <3> QED BY <3>1 DEF ContentsShape
  <2>3. TypeOK /\ HolderInv /\ SleeperInv /\ OpInv /\ SleepInv BY DEF QueueInv
  <2>4. \A t \in Threads : op[t] \in Waits /\ pc[t] # "idle" => op[t] \in {"pop", "flush"}
        BY <2>3 DEF OpInv, NoTimedCalls, Timed, Waits
  <2>5. waiters # {} => Len(Contents) <= Cardinality(Helpers)
        BY DEF NoLostNotification
  <2>6. ASSUME NEW t \in Threads, Test(t) \/ Sleep(t) \/ ReturnNull(t) \/ SwapAll(t)
        PROVE  NoLostNotification'
    <3>1. fifo' = <<>>
          BY <2>3, <2>6 DEF Test, MustWait, Sleep, ReturnNull, SwapAll, SleepInv
    <3>2. Contents' = <<>> BY <3>1 DEF Contents
    <3> QED BY <3>2, NothingLeft
  <2>7. ASSUME waiters # {}, Contents' = Contents, Helpers \subseteq Helpers'
        PROVE  NoLostNotification'
    <3>1. Cardinality(Helpers) <= Cardinality(Helpers') BY <2>1, <2>7, FS_Subset
    <3> QED BY <2>1, <2>2, <2>5, <2>7, <3>1 DEF NoLostNotification
  <2>8. ASSUME NEW t \in Threads,
               \/ \E o \in Pushes, x \in Items : CallPush(t, o, x)
               \/ \E o \in Takers : CallTake(t, o)
               \/ CallClose(t)
        PROVE  NoLostNotification'
    <3>1. UNCHANGED waiters /\ Contents' = Contents
          BY <2>8, OtherContents DEF OtherStep, CallPush, CallTake, CallClose
    <3>2. pc[t] = "idle" /\ \A u \in Threads \ {t} : pc'[u] = pc[u] /\ op'[u] = op[u]
          BY <2>3, <2>8 DEF TypeOK, CallPush, CallTake, CallClose, Called, Goto, Return
    <3>3. Helpers \subseteq Helpers' BY <3>2 DEF Helpers
    <3> QED BY <2>7, <3>1, <3>3
  <2>9. ASSUME NEW t \in Threads, Lock(t) \/ TryLock(t) \/ Relock(t) \/ PopFront(t)
        PROVE  NoLostNotification'
    <3>1. UNCHANGED <<waiters, op>> /\ Contents' = Contents
      <4>1. CASE PopFront(t) BY <4>1, PopFrontContents DEF PopFront
      <4>2. CASE OtherStep(t) BY <2>9, <4>2, OtherContents DEF Lock, TryLock, Relock, PopFront
      <4> QED BY <2>9, <4>1, <4>2 DEF OtherStep
    <3>2. /\ \A u \in Threads \ {t} : pc'[u] = pc[u]
          /\ \/ pc[t] \in {"lock", "relock"} /\ pc'[t] \in {"holding", "woken"}
             \/ pc[t] = "trylock" /\ op[t] \in Tries
             \/ pc[t] = "erasing"
          BY <2>3, <2>9 DEF TypeOK, OpInv, Lock, TryLock, Relock, PopFront, Goto, Return
    <3>3. Helpers \subseteq Helpers' BY <3>1, <3>2 DEF Helpers, Tries
    <3> QED BY <2>7, <3>1, <3>3
  <2>10. ASSUME NEW t \in Threads, Wake(t) PROVE NoLostNotification'
    <3>1. UNCHANGED op /\ waiters # {} /\ Contents' = Contents
          BY <2>3, <2>10, OtherContents DEF OtherStep, Wake, SleeperInv
    <3>2. pc[t] = "blocked" /\ \A u \in Threads \ {t} : pc'[u] = pc[u]
          BY <2>3, <2>10 DEF TypeOK, Wake, Goto
    <3>3. Helpers \subseteq Helpers' BY <3>1, <3>2 DEF Helpers
    <3> QED BY <2>7, <3>1, <3>3
  <2>11. ASSUME NEW t \in Threads, Expire(t) \/ NotifyAll(t) PROVE NoLostNotification'
    <3>1. ~Expire(t) BY <2>3 DEF Expire, OpInv, NoTimedCalls
    <3> QED BY <2>11, <3>1, NothingLeft DEF NotifyAll
  <2>12. ASSUME NEW t \in Threads, NotifyOne(t) PROVE NoLostNotification'
    <3>1. waiters # {} /\ UNCHANGED op /\ Contents' = Contents
          BY <2>12, OtherContents DEF OtherStep, NotifyOne
    <3>2. PICK u \in waiters : pc' = [pc EXCEPT ![t] = "idle", ![u] = "relock"]
          BY <2>12, <3>1 DEF NotifyOne
    <3>3. u \in Threads /\ pc[u] = "blocked" /\ op[u] \in {"pop", "flush"} /\ pc[t] = "notify"
          BY <2>3, <2>4, <2>12, <3>2 DEF TypeOK, SleeperInv, OpInv, NotifyOne
    <3>4. t \in Helpers /\ u \notin Helpers /\ Helpers' = (Helpers \ {t}) \cup {u}
          BY <2>3, <3>1, <3>2, <3>3 DEF TypeOK, Helpers
    <3>5. Cardinality(Helpers') = Cardinality(Helpers)
      <4>1. IsFiniteSet(Helpers \ {t}) /\ Cardinality(Helpers \ {t}) = Cardinality(Helpers) - 1
            BY <2>1, <3>4, FS_RemoveElement
      <4>2. u \notin Helpers \ {t} BY <3>4
      <4>3. Cardinality((Helpers \ {t}) \cup {u}) = Cardinality(Helpers \ {t}) + 1
            BY <4>1, <4>2, FS_AddElement
      <4> QED BY <2>1, <3>4, <4>1, <4>3
    <3> QED BY <2>5, <3>1, <3>5 DEF NoLostNotification
  <2>13. ASSUME NEW t \in Threads, PushBack(t) PROVE NoLostNotification'
    <3>1. arg[t] \in Items /\ PutStep(t, arg[t]) BY <2>13, PushBackContents
    <3>2. Len(Contents') = Len(Contents) + 1 BY <2>2, <3>1 DEF PutStep
    <3>3. pc[t] = "holding" /\ op[t] \in Pushes /\ UNCHANGED <<op, waiters>>
          /\ pc' = [pc EXCEPT ![t] = "notify"]
          BY <2>13 DEF PushBack, Goto, AfterPush
    <3>4. t \notin Helpers /\ Helpers' = Helpers \cup {t}
          BY <2>3, <3>3 DEF TypeOK, Helpers, Pushes
    <3>5. Cardinality(Helpers') = Cardinality(Helpers) + 1 BY <2>1, <3>4, FS_AddElement
    <3> QED BY <2>1, <2>2, <2>5, <3>2, <3>3, <3>5 DEF NoLostNotification
  <2>14. ASSUME NEW t \in Threads, SwapFront(t) PROVE NoLostNotification'
    <3>1. TakeOneStep(t) BY <2>14, SwapFrontContents
    <3>2. Len(Contents') = Len(Contents) - 1 BY <2>2, <3>1 DEF TakeOneStep
    <3>3. UNCHANGED <<op, waiters>> /\ pc' = [pc EXCEPT ![t] = "erasing"]
          BY <2>14 DEF SwapFront, Goto
    <3>4. Helpers' = Helpers \ {t} BY <2>3, <3>3 DEF TypeOK, Helpers
    <3>5. Cardinality(Helpers') >= Cardinality(Helpers) - 1
          BY <2>1, <3>4, FS_RemoveElement
    <3> QED BY <2>1, <2>2, <2>5, <3>2, <3>3, <3>5 DEF NoLostNotification
  <2>15. CASE UNCHANGED vars
        BY <2>5, <2>15 DEF vars, NoLostNotification, Contents, Helpers
  <2> QED
    BY <2>6, <2>8, <2>9, <2>10, <2>11, <2>12, <2>13, <2>14, <2>15, NextCases DEF OtherStep
<1>3. QueueInv /\ [Next]_vars => QueueInv' BY QueueInvStep
<1> QED BY <1>1, <1>2, <1>3, Typing, PTL DEF Spec

-----------------------------------------------------------------------------
(* The queue implements the closable FIFO. *)

\* Every step of the queue is a step of ClosableFifo or changes nothing there.
THEOREM ImplementsFifoHolds == Spec => ImplementsFifo
<1> USE DEF Fifo!fifoVars
<1>1. Init => Fifo!FifoInit
      BY DEF Init, Fifo!FifoInit, Contents, Admitted
<1>2. QueueInv /\ QueueInv' /\ [Next]_vars => [Fifo!FifoNext]_(Fifo!fifoVars)
  <2> SUFFICES ASSUME QueueInv, QueueInv', [Next]_vars
               PROVE  Fifo!FifoNext \/ UNCHANGED <<Contents, opened, Admitted, delivered>>
      OBVIOUS
  <2>1. TypeOK /\ OpInv BY DEF QueueInv
  <2>2. ASSUME NEW t \in Threads, NEW o \in Pushes, NEW x \in Items, CallPush(t, o, x)
        PROVE  Fifo!FifoNext \/ UNCHANGED <<Contents, opened, Admitted, delivered>>
    <3>1. UNCHANGED <<Contents, opened, delivered>>
          BY <2>2, OtherContents DEF OtherStep, CallPush
    <3>2. CASE opened
      <4>1. Admitted' = Admitted \cup {t}
            BY <2>1, <2>2, <3>2 DEF TypeOK, CallPush, Called, Admits, Goto, Admitted
      <4> QED BY <3>1, <3>2, <4>1 DEF Fifo!FifoNext, Fifo!Admit
    <3>3. CASE ~opened
      <4>1. Admitted' = Admitted
            BY <2>1, <2>2, <3>3 DEF TypeOK, CallPush, Called, Admits, Goto, Return, Admitted
      <4> QED BY <3>1, <4>1
    <3> QED BY <3>2, <3>3
  <2>3. ASSUME NEW t \in Threads, NEW o \in Takers, CallTake(t, o)
        PROVE  UNCHANGED <<Contents, opened, Admitted, delivered>>
    <3>1. UNCHANGED <<Contents, opened, delivered>>
          BY <2>3, OtherContents DEF OtherStep, CallTake
    <3>2. Admitted' = Admitted
          BY <2>1, <2>3 DEF TypeOK, CallTake, Called, Goto, Admitted, Takers, Waits, Pushes
    <3> QED BY <3>1, <3>2
  <2>4. ASSUME NEW t \in Threads, CallClose(t)
        PROVE  Fifo!FifoNext
    <3>1. UNCHANGED <<Contents, delivered>> /\ opened' = FALSE
          BY <2>4, OtherContents DEF OtherStep, CallClose
    <3>2. Admitted' = Admitted
          BY <2>1, <2>4 DEF TypeOK, CallClose, Called, Goto, Admitted, Pushes
    <3> QED BY <3>1, <3>2 DEF Fifo!FifoNext, Fifo!Shut
  <2>5. ASSUME NEW t \in Threads, TryLock(t), ~Free, op[t] = "tryPush"
        PROVE  Fifo!FifoNext
    <3>1. UNCHANGED <<Contents, opened, delivered>>
          BY <2>5, OtherContents DEF OtherStep, TryLock
    <3>2. t \in Admitted /\ Admitted' = Admitted \ {t}
          BY <2>1, <2>5 DEF TypeOK, TryLock, Goto, Return, Admitted, Pushes
    <3> QED BY <3>1, <3>2 DEF Fifo!FifoNext, Fifo!Abandon
  <2>6. ASSUME NEW t \in Threads, TryLock(t), Free \/ op[t] # "tryPush"
        PROVE  UNCHANGED <<Contents, opened, Admitted, delivered>>
    <3>1. UNCHANGED <<Contents, opened, delivered>>
          BY <2>6, OtherContents DEF OtherStep, TryLock
    <3>2. Admitted' = Admitted
          BY <2>1, <2>6 DEF TypeOK, OpInv, TryLock, Goto, Return, Admitted, Pushes, Tries
    <3> QED BY <3>1, <3>2
  <2>7. ASSUME NEW t \in Threads,
               \/ Lock(t) \/ NotifyOne(t) \/ NotifyAll(t) \/ Test(t) \/ Sleep(t) \/ Wake(t)
               \/ Relock(t) \/ Expire(t) \/ ReturnNull(t)
        PROVE  UNCHANGED <<Contents, opened, Admitted, delivered>>
    <3>1. UNCHANGED <<Contents, opened, delivered, op>>
          BY <2>7, OtherContents DEF OtherStep, Lock, NotifyOne, NotifyAll, Test, Sleep, Wake,
             Relock, Expire, ReturnNull
    <3>2. \A u \in Threads : op[u] \in Pushes =>
            (pc'[u] \in {"lock", "trylock", "holding"} <=> pc[u] \in {"lock", "trylock", "holding"})
      <4>1. SleeperInv BY DEF QueueInv
      <4>2. CASE NotifyOne(t) \/ NotifyAll(t)
            BY <2>1, <4>1, <4>2 DEF TypeOK, SleeperInv, NotifyOne, NotifyAll, Goto
      <4>3. CASE Lock(t) \/ Test(t) \/ Sleep(t) \/ Wake(t) \/ Relock(t) \/ Expire(t) \/ ReturnNull(t)
            BY <2>1, <4>3 DEF TypeOK, OpInv, Lock, Test, Sleep, Wake, Relock, Expire, ReturnNull,
               Ready, Goto, Return, Pushes, Takers, Waits
      <4> QED BY <2>7, <4>2, <4>3
    <3>3. Admitted' = Admitted BY <3>1, <3>2 DEF Admitted
    <3> QED BY <3>1, <3>3
  <2>8. ASSUME NEW t \in Threads, PushBack(t) PROVE Fifo!FifoNext
    <3>1. arg[t] \in Items /\ PutStep(t, arg[t]) BY <2>8, PushBackContents
    <3>2. t \in Admitted /\ Admitted' = Admitted \ {t} /\ opened' = opened
          BY <2>1, <2>8 DEF TypeOK, PushBack, Goto, AfterPush, Admitted
    <3>3. Fifo!Put(t, arg[t]) BY <3>1, <3>2 DEF Fifo!Put, PutStep
    <3> QED BY <3>1, <3>3 DEF Fifo!FifoNext
  <2>9. ASSUME NEW t \in Threads, SwapFront(t) \/ SwapAll(t) PROVE Fifo!FifoNext
    <3>1. Admitted' = Admitted /\ opened' = opened
          BY <2>1, <2>9 DEF TypeOK, SwapFront, SwapAll, Ready, Goto, Return, Admitted, Takers, Waits, Pushes
    <3>2. CASE SwapFront(t)
      <4>1. Fifo!TakeOne(t) BY <3>1, <3>2, SwapFrontContents DEF TakeOneStep, Fifo!TakeOne
      <4> QED BY <4>1 DEF Fifo!FifoNext
    <3>3. CASE SwapAll(t)
      <4>1. Fifo!TakeAll(t) BY <3>1, <3>3, SwapAllContents DEF TakeAllStep, Fifo!TakeAll
      <4> QED BY <4>1 DEF Fifo!FifoNext
    <3> QED BY <2>9, <3>2, <3>3
  <2>10. ASSUME NEW t \in Threads, PopFront(t)
         PROVE  UNCHANGED <<Contents, opened, Admitted, delivered>>
    <3>1. UNCHANGED <<Contents, delivered>> BY <2>10, PopFrontContents
    <3>2. Admitted' = Admitted /\ opened' = opened
          BY <2>1, <2>10 DEF TypeOK, PopFront, Goto, Return, Admitted
    <3> QED BY <3>1, <3>2
  <2>11. CASE UNCHANGED vars BY <2>11 DEF vars, Contents, Admitted
  <2> QED
    BY <2>2, <2>3, <2>4, <2>5, <2>6, <2>7, <2>8, <2>9, <2>10, <2>11, NextCases DEF OtherStep
<1>3. QueueInv /\ [Next]_vars => QueueInv' BY QueueInvStep
<1> QED BY <1>1, <1>2, <1>3, Typing, PTL DEF Spec, ImplementsFifo, Fifo!FifoSpec
=============================================================================
