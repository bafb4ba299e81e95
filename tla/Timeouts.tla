------------------------------ MODULE Timeouts ------------------------------
(***************************************************************************)
(* ActorManager::TimeoutLauncher (core/actor-manager.cpp) over             *)
(* core/timeout.cpp: the thread that posts a message to an actor when its  *)
(* time has come.                                                          *)
(*                                                                         *)
(* The queue incoming is what ClosableFifo.tla promises.  The clock counts *)
(* in the unit of a timeval, a second is MSEC * MSEC of it and a           *)
(* millisecond MSEC of it: 1000 in the code.  The thread is taken to run   *)
(* when it can, so the clock waits for it: what is late here is late by    *)
(* the code, not by the scheduler.                                         *)
(***************************************************************************)
EXTENDS Integers, Sequences

CONSTANTS MSEC,
          Epsilon,    \* the milliseconds the thread adds to a wait
          Delays,     \* the delays of the timeouts, in milliseconds
          MaxClock    \* bound: of the clock

ASSUME UnitsAssumption  == MSEC \in Nat \ {0} /\ Epsilon \in Nat
ASSUME DelaysAssumption == Delays \subseteq Nat
ASSUME ClockAssumption  == MaxClock \in Nat

Second  == MSEC * MSEC
Ended   == -1
Forever == MaxClock + 2 * Second + Epsilon * MSEC + 1

\* A timeout is told by its delay: each is added once, at any time.
Entry == [delay : Delays, due : Nat]

VARIABLES
  clock,
  opened,      \* whether incoming is opened
  incoming,    \* entries that addTimeout pushed and the thread did not pop
  timeouts,    \* the priority queue
  wakeup,      \* when the pop() the thread is in returns by itself, or Ended
  posted,      \* the entries whose message was posted since the clock moved
  added        \* the delays of the entries that were added

timeVars == <<clock, opened, incoming, timeouts, wakeup, posted, added>>

TimeoutsInit ==
  /\ clock = 0 /\ opened = TRUE
  /\ incoming = <<>> /\ timeouts = {} /\ wakeup = Forever
  /\ posted = {} /\ added = {}

-----------------------------------------------------------------------------
(* Timeout *)

HasExpired(e) == clock > e.due

\* remainingTimeval
Remaining(e) == IF clock >= e.due THEN 0 ELSE e.due - clock

\* remainingMsec, in the unit of the clock: the whole seconds, and what the rest
\* leaves when it is divided by the number of milliseconds in a second.
RemainingMsec(e) ==
  LET left == Remaining(e)
  IN  ((left \div Second) * MSEC + ((left % Second) % MSEC)) * MSEC

-----------------------------------------------------------------------------
(* TimeoutLauncher *)

AddTimeout(d) ==
  /\ opened /\ d \notin added
  /\ added' = added \cup {d}
  /\ incoming' = Append(incoming, [delay |-> d, due |-> clock + d * MSEC])
  /\ UNCHANGED <<clock, opened, timeouts, wakeup, posted>>

\* Mutant: the comparator is operator<, which puts the last entry on top.
LastDue(S) == CHOOSE e \in S : \A f \in S : f.due <= e.due

\* timeouts.top(), of entries that are due together any
FirstDue(S) == CHOOSE e \in S : \A f \in S : e.due <= f.due

\* The loop takes entries from the top while they have expired.
Expired(S) == {e \in S : \A f \in S : f.due <= e.due => HasExpired(f)}

\* The pop() that comes next
NextWakeup(S) == IF S = {} THEN Forever ELSE clock + RemainingMsec(FirstDue(S)) + Epsilon * MSEC

\* One turn of the loop, when pop() returns
Turn ==
  /\ wakeup # Ended
  /\ incoming # <<>> \/ ~opened \/ clock >= wakeup
  /\ LET popped == IF incoming = <<>> THEN {} ELSE {Head(incoming)}
         all    == timeouts \cup popped
         fired  == Expired(all)
     IN  /\ incoming' = IF incoming = <<>> THEN <<>> ELSE Tail(incoming)
         /\ timeouts' = all \ fired
         /\ posted' = posted \cup fired
         /\ wakeup' = IF opened THEN NextWakeup(all \ fired) ELSE Ended
  /\ UNCHANGED <<clock, opened, added>>

\* The destructor: it joins the thread, which has ended once wakeup is Ended.
Close == opened /\ opened' = FALSE /\ UNCHANGED <<clock, incoming, timeouts, wakeup, posted, added>>

\* Time passes while the thread waits.
Pass ==
  /\ opened /\ incoming = <<>> /\ clock < wakeup /\ clock < MaxClock
  /\ clock' = clock + 1
  /\ posted' = {}
  /\ UNCHANGED <<opened, incoming, timeouts, wakeup, added>>

TimeoutsNext == (\E d \in Delays : AddTimeout(d)) \/ Turn \/ Close \/ Pass

TimeoutsSpec == TimeoutsInit /\ [][TimeoutsNext]_timeVars

-----------------------------------------------------------------------------
(* Safety *)

\* remainingMsec drops the milliseconds and takes the microseconds for them, so
\* the thread sleeps for too short or for too long, and an entry that comes while
\* it sleeps may be due before it would wake up: still no timeout is early, or more
\* than one second and Epsilon late.
NeverASecondLate ==
  LET late == Second + Epsilon * MSEC IN
  /\ \A e \in posted : e.due < clock /\ clock <= e.due + late
  /\ opened => \A e \in timeouts : clock <= e.due + late

-----------------------------------------------------------------------------
(* The inductive invariant *)

TimesOK ==
  /\ clock \in 0..MaxClock /\ wakeup \in Nat \cup {Ended}
  /\ incoming \in Seq(Entry) /\ timeouts \in SUBSET Entry /\ posted \in SUBSET Entry

\* The clock waits for what was added, and does not go past the time at which the
\* thread wakes up; no timeout in the queue is due much before that.
TimeoutsInv ==
  /\ TimesOK
  /\ \A i \in 1..Len(incoming) : clock <= incoming[i].due
  /\ opened => wakeup # Ended
  /\ wakeup # Ended =>
       /\ clock <= wakeup
       /\ \A e \in timeouts : wakeup <= e.due + Second + Epsilon * MSEC
  /\ NeverASecondLate
=============================================================================
