--------------------------- MODULE ServicesProofs ----------------------------
(***************************************************************************)
(* Theorems about Timeouts, Logging and Parsers, for any clock and delays, *)
(* any writers, and any stream of packets however it is cut.  From         *)
(* DhtProofs they only use the induction over numbers and the folds.       *)
(***************************************************************************)
EXTENDS DhtProofs, Timeouts, Logging, Parsers

-----------------------------------------------------------------------------
(* Timeouts: arithmetic *)

\* remainingMsec is never a second more than it should.
LEMMA RemainingMsecBound ==
  ASSUME NEW M \in Nat \ {0}, NEW left \in Nat
  PROVE  LET s == ((left \div (M * M)) * M + ((left % (M * M)) % M)) * M
         IN  s \in Nat /\ s <= left + M * M
<1>1. PICK S \in Nat \ {0} : S = M * M
    BY M * M \in Nat \ {0}
<1>2. PICK q \in Nat, r \in Nat : q = left \div S /\ r = (left % S) % M
  <2>1. left \div S \in Nat
      BY <1>1
  <2>2. left % S \in Nat
      BY <1>1
  <2>3. (left % S) % M \in Nat
      BY <2>2
  <2> QED BY <2>1, <2>3
<1>3. q * S <= left
  <2>1. left = S * (left \div S) + (left % S) /\ left % S \in Nat /\ left \div S \in Nat
      BY <1>1
  <2> QED BY <1>2, <2>1
<1>4. r <= M - 1
  <2>1. left % S \in Nat
      BY <1>1
  <2> QED BY <1>2, <2>1
<1>5. (q * M + r) * M = q * S + r * M
    BY <1>1
<1>6. r * M <= S
    BY <1>1, <1>4
<1>7. (q * M + r) * M \in Nat /\ (q * M + r) * M <= left + S
    BY <1>3, <1>5, <1>6
<1> QED BY <1>1, <1>2, <1>7

\* Seconds and nanoseconds to milliseconds
LEMMA Units ==
  /\ MSEC \in Nat \ {0} /\ Second \in Nat \ {0} /\ Epsilon * MSEC \in Nat
  /\ Forever \in Nat /\ Forever > MaxClock
<1>1. MSEC \in Nat \ {0} /\ Epsilon \in Nat /\ MaxClock \in Nat
    BY UnitsAssumption, ClockAssumption
<1>2. MSEC * MSEC \in Nat \ {0} /\ Epsilon * MSEC \in Nat
    BY <1>1
<1> QED BY <1>1, <1>2 DEF Second, Forever

\* The priority queue has an entry on top, which is due first.
LEMMA FirstDueExists ==
  ASSUME NEW S \in SUBSET Entry, S # {}
  PROVE  FirstDue(S) \in S /\ \A f \in S : FirstDue(S).due <= f.due
<1> DEFINE T == {e.due : e \in S}
<1>1. T \in SUBSET Nat /\ T # {}
    BY DEF Entry
<1>2. PICK n \in T : \A m \in T : n <= m
    BY <1>1, LeastNat
<1>3. \E e \in S : \A f \in S : e.due <= f.due
    BY <1>2
<1> QED BY <1>3 DEF FirstDue

\* The thread sleeps for less than a second and Epsilon past the time at which the
\* first of the timeouts is due.
LEMMA NextWakeupBound ==
  ASSUME clock \in 0..MaxClock, NEW S \in SUBSET Entry, \A e \in S : clock <= e.due
  PROVE  /\ NextWakeup(S) \in Nat /\ clock <= NextWakeup(S)
         /\ \A e \in S : NextWakeup(S) <= e.due + Second + Epsilon * MSEC
<1>1. clock \in Nat /\ clock <= MaxClock
    BY ClockAssumption
<1>2. CASE S = {}
    BY <1>1, <1>2, Units, ClockAssumption DEF NextWakeup
<1>3. CASE S # {}
  <2>1. PICK e \in S : e = FirstDue(S) /\ \A f \in S : e.due <= f.due
      BY <1>3, FirstDueExists
  <2>2. e.due \in Nat /\ clock <= e.due /\ \A f \in S : f.due \in Nat
      BY <2>1 DEF Entry
  <2>3. Remaining(e) \in Nat /\ Remaining(e) = e.due - clock
      BY <1>1, <2>2 DEF Remaining
  <2>4. RemainingMsec(e) \in Nat /\ RemainingMsec(e) <= Remaining(e) + Second
      BY <2>3, Units, RemainingMsecBound DEF RemainingMsec, Second
  <2>5. NextWakeup(S) = clock + RemainingMsec(e) + Epsilon * MSEC
      BY <1>3, <2>1 DEF NextWakeup
  <2> QED BY <1>1, <2>1, <2>2, <2>3, <2>4, <2>5, Units
<1> QED BY <1>2, <1>3

\* What the loop leaves in the queue has not expired.
LEMMA ExpiredFacts ==
  ASSUME clock \in Nat, NEW S \in SUBSET Entry
  PROVE  /\ Expired(S) \subseteq S /\ \A e \in Expired(S) : e.due < clock
         /\ \A e \in S \ Expired(S) : clock <= e.due
<1>1. \A e \in S : e.due \in Nat
    BY DEF Entry
<1>2. \A e \in Expired(S) : e \in S /\ clock > e.due
    BY <1>1 DEF Expired, HasExpired
<1>3. ASSUME NEW e \in S \ Expired(S) PROVE clock <= e.due
  <2>1. PICK f \in S : f.due <= e.due /\ ~(clock > f.due)
      BY <1>3 DEF Expired, HasExpired
  <2> QED BY <1>1, <2>1
<1> QED BY <1>1, <1>2, <1>3

-----------------------------------------------------------------------------
(* Timeouts: the inductive invariant *)

\* How late a callback may be
Late == Second + Epsilon * MSEC

\* The launcher starts with no timeout.
LEMMA TimeoutsInitInv == TimeoutsInit => TimeoutsInv
<1> SUFFICES ASSUME TimeoutsInit PROVE TimeoutsInv
    OBVIOUS
<1>1. TimesOK
    BY Units, ClockAssumption DEF TimeoutsInit, TimesOK
<1>2. clock <= wakeup /\ wakeup # Ended
    BY Units DEF TimeoutsInit, Ended
<1> QED BY <1>1, <1>2 DEF TimeoutsInit, TimeoutsInv, NeverASecondLate

\* A timeout that is added is taken before the clock moves.
LEMMA AddTimeoutInv ==
  ASSUME TimeoutsInv, NEW d \in Delays, AddTimeout(d)
  PROVE  TimeoutsInv'
<1> DEFINE e == [delay |-> d, due |-> clock + d * MSEC]
<1>1. /\ clock' = clock /\ opened' = opened /\ timeouts' = timeouts /\ wakeup' = wakeup
      /\ posted' = posted /\ incoming' = Append(incoming, e)
    BY DEF AddTimeout
<1>2. clock \in Nat /\ incoming \in Seq(Entry)
    BY ClockAssumption DEF TimeoutsInv, TimesOK
<1>3. d * MSEC \in Nat
    BY Units, DelaysAssumption
<1>4. e \in Entry /\ clock <= e.due
    BY <1>2, <1>3 DEF Entry
<1> HIDE DEF e
<1>5. incoming' \in Seq(Entry) /\ \A i \in 1..Len(incoming') :
        (i \in 1..Len(incoming) /\ incoming'[i] = incoming[i]) \/ incoming'[i] = e
    BY <1>1, <1>2, <1>4, AppendProperties
<1>6. \A i \in 1..Len(incoming') : clock <= incoming'[i].due
    BY <1>4, <1>5 DEF TimeoutsInv
<1>7. TimesOK'
    BY <1>1, <1>5 DEF TimeoutsInv, TimesOK
<1> QED BY <1>1, <1>6, <1>7 DEF TimeoutsInv, NeverASecondLate

\* A turn of the loop of the launcher posts what is due and waits for the next.
LEMMA TurnInv == TimeoutsInv /\ Turn => TimeoutsInv'
<1> SUFFICES ASSUME TimeoutsInv, Turn PROVE TimeoutsInv'
    OBVIOUS
<1> DEFINE popped == IF incoming = <<>> THEN {} ELSE {Head(incoming)}
<1> DEFINE all == timeouts \cup popped
<1> DEFINE fired == Expired(all)
<1>1. /\ clock' = clock /\ opened' = opened
      /\ incoming' = IF incoming = <<>> THEN <<>> ELSE Tail(incoming)
      /\ timeouts' = all \ fired /\ posted' = posted \cup fired
      /\ wakeup' = IF opened THEN NextWakeup(all \ fired) ELSE Ended
    BY DEF Turn
<1>2. clock \in Nat /\ clock \in 0..MaxClock /\ wakeup \in Nat /\ wakeup # Ended
    BY ClockAssumption DEF TimeoutsInv, TimesOK, Turn
<1>3. /\ incoming \in Seq(Entry) /\ timeouts \in SUBSET Entry /\ posted \in SUBSET Entry
      /\ \A i \in 1..Len(incoming) : clock <= incoming[i].due
    BY DEF TimeoutsInv, TimesOK
<1>4. \A e \in popped : e \in Entry /\ clock <= e.due
    BY <1>3
<1>5. all \in SUBSET Entry /\ \A e \in all : e.due \in Nat
    BY <1>3, <1>4 DEF Entry
<1>6. \A e \in all : clock <= e.due + Late
  <2>1. \A e \in timeouts : wakeup <= e.due + Late /\ clock <= wakeup
    <3>1. /\ clock <= wakeup
          /\ \A e \in timeouts : e \in Entry /\ wakeup <= e.due + Second + Epsilon * MSEC
        BY <1>2, <1>3 DEF TimeoutsInv
    <3>2. PICK x \in Nat : x = Epsilon * MSEC
        BY Units
    <3> QED BY <1>2, <3>1, <3>2, Units DEF Late, Entry
  <2> HIDE DEF popped
  <2>2. Late \in Nat
      BY Units DEF Late
  <2>3. ASSUME NEW e \in all PROVE clock <= e.due + Late
    <3>1. e.due \in Nat
        BY <1>5
    <3>2. CASE e \in timeouts
        BY <1>2, <2>1, <2>2, <3>1, <3>2
    <3>3. CASE e \in popped
        BY <1>2, <1>4, <2>2, <3>1, <3>3
    <3> QED BY <3>2, <3>3
  <2> QED BY <2>3
<1>7. incoming' \in Seq(Entry) /\ \A i \in 1..Len(incoming') : clock <= incoming'[i].due
  <2>1. CASE incoming = <<>>
      BY <1>1, <2>1
  <2>2. CASE incoming # <<>>
    <3>1. incoming' = Tail(incoming) /\ incoming' \in Seq(Entry)
          /\ \A i \in 1..Len(incoming') :
               i + 1 \in 1..Len(incoming) /\ incoming'[i] = incoming[i + 1]
        BY <1>1, <1>3, <2>2
    <3> QED BY <1>3, <3>1
  <2> QED BY <2>1, <2>2
<1> HIDE DEF popped, all
<1>8. /\ fired \subseteq all /\ \A e \in fired : e.due < clock
      /\ \A e \in all \ fired : clock <= e.due
    BY <1>2, <1>5, ExpiredFacts
<1> HIDE DEF fired
<1>9. /\ NextWakeup(all \ fired) \in Nat /\ clock <= NextWakeup(all \ fired)
      /\ \A e \in all \ fired : NextWakeup(all \ fired) <= e.due + Second + Epsilon * MSEC
    BY <1>2, <1>5, <1>8, NextWakeupBound
<1>10. NextWakeup(all \ fired) # Ended
    BY <1>9 DEF Ended
<1>11. TimesOK'
    BY <1>1, <1>2, <1>3, <1>5, <1>7, <1>8, <1>9 DEF TimesOK
<1>12. NeverASecondLate'
    BY <1>1, <1>6, <1>8 DEF TimeoutsInv, NeverASecondLate, Late
<1> QED BY <1>1, <1>7, <1>9, <1>10, <1>11, <1>12 DEF TimeoutsInv

\* Time passes, up to when the launcher wakes up.
LEMMA PassInv == TimeoutsInv /\ Pass => TimeoutsInv'
<1> SUFFICES ASSUME TimeoutsInv, Pass PROVE TimeoutsInv'
    OBVIOUS
<1>1. /\ clock' = clock + 1 /\ posted' = {} /\ opened' = opened /\ incoming' = incoming
      /\ timeouts' = timeouts /\ wakeup' = wakeup
      /\ opened /\ incoming = <<>> /\ clock < wakeup /\ clock < MaxClock
    BY DEF Pass
<1>2. clock \in Nat /\ wakeup \in Nat /\ wakeup # Ended /\ timeouts \in SUBSET Entry
    BY <1>1, ClockAssumption DEF TimeoutsInv, TimesOK
<1>3. TimesOK'
    BY <1>1, <1>2, ClockAssumption DEF TimeoutsInv, TimesOK
<1>4. clock' <= wakeup
    BY <1>1, <1>2
<1>5. ASSUME NEW e \in timeouts PROVE clock' <= e.due + (Second + Epsilon * MSEC)
  <2>1. e.due \in Nat /\ wakeup <= e.due + Second + Epsilon * MSEC
      BY <1>2 DEF TimeoutsInv, Entry
  <2> QED BY <1>1, <1>2, <1>4, <2>1, Units
<1>6. NeverASecondLate'
    BY <1>1, <1>5 DEF NeverASecondLate
<1> QED BY <1>1, <1>3, <1>4, <1>6 DEF TimeoutsInv

\* Closing leaves what is waiting where it is.
LEMMA CloseInv == TimeoutsInv /\ Close => TimeoutsInv'
  BY DEF TimeoutsInv, TimesOK, NeverASecondLate, Close

\* The launcher of timeouts posts no message before its time, and none more than a
\* second and Epsilon after it, for every set of delays.
THEOREM NeverASecondLateHolds == TimeoutsSpec => []NeverASecondLate
<1>1. TimeoutsInit => TimeoutsInv
    BY TimeoutsInitInv
<1>2. TimeoutsInv /\ [TimeoutsNext]_timeVars => TimeoutsInv'
  <2>1. TimeoutsInv /\ UNCHANGED timeVars => TimeoutsInv'
      BY DEF TimeoutsInv, TimesOK, NeverASecondLate, timeVars
  <2> QED BY <2>1, AddTimeoutInv, TurnInv, PassInv, CloseInv DEF TimeoutsNext
<1>3. TimeoutsInv => NeverASecondLate
    BY DEF TimeoutsInv
<1> QED BY <1>1, <1>2, <1>3, PTL DEF TimeoutsSpec

-----------------------------------------------------------------------------
(* Logging: the queue and what the logging thread took of it *)

\* What is pushed comes last, after all that was pushed before.
LEMMA LinesAfterAppend ==
  ASSUME NEW q \in Seq(Entries), NEW e \in Entries
  PROVE  /\ Append(q, e) \in Seq(Entries) /\ Len(Append(q, e)) = Len(q) + 1
         /\ Append(q, e)[Len(q) + 1] = e
         /\ \A k \in 1..Len(q) : Append(q, e)[k] = q[k]
         /\ \A k \in 1..(Len(q) + 1) : LinesBefore(Append(q, e), k) = LinesBefore(q, k)
         /\ LinesBefore(q, Len(q) + 1) \subseteq LinesBefore(Append(q, e), Len(q) + 2)
         /\ e.prio = "LINE" => e \in LinesBefore(Append(q, e), Len(q) + 2)
<1> DEFINE a == Append(q, e)
<1>1. /\ a \in Seq(Entries) /\ Len(a) = Len(q) + 1 /\ Len(q) \in Nat /\ a[Len(q) + 1] = e
      /\ \A k \in 1..Len(q) : a[k] = q[k]
    BY AppendProperties
<1> HIDE DEF a
<1>2. ASSUME NEW k \in 1..(Len(q) + 1) PROVE LinesBefore(a, k) = LinesBefore(q, k)
  <2>1. \A i \in 1..(k - 1) : a[i] = q[i]
      BY <1>1
  <2> QED BY <2>1 DEF LinesBefore
<1>3. \A i \in 1..((Len(q) + 1) - 1) : i \in 1..((Len(q) + 2) - 1) /\ a[i] = q[i]
    BY <1>1
<1>4. LinesBefore(q, Len(q) + 1) \subseteq LinesBefore(a, Len(q) + 2)
    BY <1>3 DEF LinesBefore
<1>5. Len(q) + 1 \in 1..((Len(q) + 2) - 1)
    BY <1>1
<1>6. e.prio = "LINE" => e \in LinesBefore(a, Len(q) + 2)
    BY <1>1, <1>5 DEF LinesBefore
<1> QED BY <1>1, <1>2, <1>4, <1>6 DEF a

\* When the first entry has been treated, the others move up.
LEMMA LinesAfterTail ==
  ASSUME NEW q \in Seq(Entries), q # <<>>
  PROVE  /\ Tail(q) \in Seq(Entries) /\ Len(Tail(q)) = Len(q) - 1 /\ Head(q) = q[1]
         /\ \A k \in 1..Len(Tail(q)) : k + 1 \in 1..Len(q) /\ Tail(q)[k] = q[k + 1]
         /\ \A k \in 1..(Len(Tail(q)) + 1) :
              LinesBefore(q, k + 1) \subseteq
                LinesBefore(Tail(q), k) \cup (IF q[1].prio = "LINE" THEN {q[1]} ELSE {})
<1> DEFINE a == Tail(q)
<1>1. /\ a \in Seq(Entries) /\ Len(a) = Len(q) - 1 /\ Len(q) \in Nat /\ Head(q) = q[1]
      /\ \A k \in 1..Len(a) : k + 1 \in 1..Len(q) /\ a[k] = q[k + 1]
    BY HeadTailProperties
<1> HIDE DEF a
<1>2. ASSUME NEW k \in 1..(Len(a) + 1), NEW x \in LinesBefore(q, k + 1)
      PROVE  x \in LinesBefore(a, k) \/ (q[1].prio = "LINE" /\ x = q[1])
  <2>1. PICK j \in 1..((k + 1) - 1) : q[j].prio = "LINE" /\ x = q[j]
      BY <1>2 DEF LinesBefore
  <2>2. CASE j = 1
      BY <2>1, <2>2
  <2>3. CASE j # 1
    <3>1. j - 1 \in 1..(k - 1) /\ j - 1 \in 1..Len(a) /\ (j - 1) + 1 = j
        BY <1>1, <2>3
    <3>2. a[j - 1] = q[j]
        BY <1>1, <3>1
    <3> QED BY <2>1, <3>1, <3>2 DEF LinesBefore
  <2> QED BY <2>2, <2>3
<1> QED BY <1>1, <1>2 DEF a

\* What was written and not treated
LEMMA PendingOK ==
  ASSUME LogOK
  PROVE  /\ Pending \in Seq(Entries)
         /\ \A e \in Entries : taken \o Append(entries, e) = Append(Pending, e)
         /\ taken # <<>> =>
              /\ Pending # <<>> /\ Tail(taken) \o entries = Tail(Pending)
              /\ Head(taken) = Head(Pending)
         /\ taken = <<>> => Pending = entries
<1>1. taken \in Seq(Entries) /\ entries \in Seq(Entries)
    BY DEF LogOK
<1>2. ASSUME NEW e \in Entries PROVE taken \o Append(entries, e) = Append(Pending, e)
    BY <1>1 DEF Pending
<1>3. ASSUME taken # <<>>
      PROVE  Pending # <<>> /\ Tail(taken) \o entries = Tail(Pending) /\ Head(taken) = Head(Pending)
    BY <1>1, <1>3 DEF Pending
<1>4. taken = <<>> => Pending = entries
    BY <1>1 DEF Pending
<1> QED BY <1>1, <1>2, <1>3, <1>4 DEF Pending

-----------------------------------------------------------------------------
(* Logging: the inductive invariant *)

\* Only entries are written.
LEMMA WrittenEntries == LogOK => Written \subseteq Entries
<1> SUFFICES ASSUME LogOK, NEW x \in Written PROVE x \in Entries
    OBVIOUS
<1>1. PICK t \in Writers : x \in {Line(t, i) : i \in 1..lines[t]}
    BY DEF Written
<1>2. PICK i \in 1..lines[t] : x = Line(t, i)
    BY <1>1
<1>3. i \in Nat
    BY DEF LogOK
<1> QED BY <1>2, <1>3 DEF Line, Entries

\* The log starts with nothing written.
LEMMA LogInitInv == LogInit => LogInv
<1> SUFFICES ASSUME LogInit PROVE LogInv
    OBVIOUS
<1>1. LogOK
    BY DEF LogInit, LogOK
<1>2. Pending = <<>>
    BY DEF LogInit, Pending
<1>3. Written = {}
    BY DEF LogInit, Written
<1>4. OrderIsKept
    BY <1>2, <1>3 DEF OrderIsKept
<1>5. RequestsAreTold
    BY <1>2 DEF LogInit, RequestsAreTold
<1> QED BY <1>1, <1>4, <1>5 DEF LogInit, LogInv, Quitting

\* A line goes to the end of the queue.
LEMMA WriteLineInv ==
  ASSUME LogInv, NEW t \in Writers, WriteLine(t)
  PROVE  LogInv'
<1> DEFINE e == Line(t, lines[t] + 1)
<1>1. /\ lines' = [lines EXCEPT ![t] = @ + 1] /\ entries' = Append(entries, e)
      /\ UNCHANGED <<sink, writer, requests, mine, notified, before, dangling>>
    BY DEF WriteLine
<1>2. LogOK
    BY DEF LogInv
<1>3. e \in Entries /\ e.prio = "LINE"
    BY <1>2 DEF Entries, Line, LogOK
<1>4. Written' \subseteq Written \cup {e}
  <2> SUFFICES ASSUME NEW x \in Written' PROVE x \in Written \cup {e}
      OBVIOUS
  <2>1. PICK u \in Writers : x \in {Line(u, i) : i \in 1..lines'[u]}
      BY DEF Written
  <2>2. PICK i \in 1..lines'[u] : x = Line(u, i)
      BY <2>1
  <2>3. i \in 1..lines[u] \/ (u = t /\ i = lines[t] + 1)
      BY <1>1, <1>2 DEF LogOK
  <2> QED BY <2>2, <2>3 DEF Written
<1>5. LogOK'
  <2>1. lines' \in [Writers -> Nat]
      BY <1>1, <1>2 DEF LogOK
  <2>2. entries' \in Seq(Entries)
      BY <1>1, <1>2, <1>3, AppendProperties DEF LogOK
  <2> QED BY <1>1, <1>2, <2>1, <2>2 DEF LogOK, sink
<1> HIDE DEF e
<1>6. Pending' = Append(Pending, e) /\ Pending \in Seq(Entries) /\ Len(Pending) \in Nat
    BY <1>1, <1>2, <1>3, PendingOK DEF Pending, sink
<1>7. /\ Len(Pending') = Len(Pending) + 1 /\ Pending'[Len(Pending) + 1] = e
      /\ \A k \in 1..Len(Pending) :
           Pending'[k] = Pending[k] /\ LinesBefore(Pending', k) = LinesBefore(Pending, k)
      /\ LinesBefore(Pending, Len(Pending) + 1) \cup {e}
           \subseteq LinesBefore(Pending', Len(Pending) + 2)
    BY <1>3, <1>6, LinesAfterAppend
<1>8. \A k \in 1..Len(Pending') : k \in 1..Len(Pending) \/ Pending'[k].prio = "LINE"
    BY <1>3, <1>6, <1>7
<1>9. \A u : Quitting(u)' <=> Quitting(u)
    BY <1>1 DEF Quitting
<1>10. OrderIsKept'
  <2>1. Written' \subseteq printed' \cup LinesBefore(Pending', Len(Pending') + 1)
    <3>1. Len(Pending') + 1 = Len(Pending) + 2
        BY <1>6, <1>7
    <3> QED BY <1>1, <1>4, <1>7, <3>1 DEF LogInv, OrderIsKept, sink
  <2>2. ASSUME NEW k \in 1..Len(Pending'), NEW u \in Writers,
               \/ Pending'[k].prio = "FLUSH" /\ Pending'[k].by = u /\ Pending'[k].n = mine'[u]
               \/ Pending'[k].prio = "QUIT" /\ Quitting(u)'
        PROVE  before'[u] \subseteq printed' \cup LinesBefore(Pending', k)
    <3>1. k \in 1..Len(Pending)
        BY <1>8, <2>2
    <3> QED BY <1>1, <1>7, <1>9, <2>2, <3>1 DEF LogInv, OrderIsKept, sink
  <2> QED BY <2>1, <2>2 DEF OrderIsKept
<1>11. RequestsAreTold'
    BY <1>1, <1>7, <1>8, <1>9 DEF LogInv, RequestsAreTold, sink
<1> QED BY <1>1, <1>5, <1>9, <1>10, <1>11 DEF LogInv, sink

\* A request of t that is pushed last
LEMMA RequestInv ==
  ASSUME LogInv, NEW t \in Writers, NEW e \in Entries, NEW where \in {"idle", "pushed", "joining"},
         Request(t, e, where),
         e.prio = "FLUSH" => where # "joining" /\ e.n <= requests + 1 /\ e.by \in {t, Nobody},
         e.prio = "QUIT" => e.by = Nobody /\ where = "joining" /\ \A u \in Writers : ~Quitting(u),
         e.prio \in {"FLUSH", "QUIT"}
  PROVE  LogInv'
<1>1. /\ writer[t] = "idle" /\ requests' = requests + 1
      /\ mine' = [mine EXCEPT ![t] = requests + 1] /\ entries' = Append(entries, e)
      /\ before' = [before EXCEPT ![t] = Written] /\ notified' = [notified EXCEPT ![t] = FALSE]
      /\ writer' = [writer EXCEPT ![t] = where] /\ lines' = lines
      /\ taken' = taken /\ logger' = logger /\ printed' = printed /\ flushed' = flushed
    BY DEF Request, Go, sink
<1>2. LogOK
    BY DEF LogInv
<1>3. LogOK'
  <2>1. mine' \in [Writers -> 0..requests']
      BY <1>1, <1>2 DEF LogOK
  <2>2. before' \in [Writers -> SUBSET Entries]
      BY <1>1, <1>2, WrittenEntries DEF LogOK
  <2>3. entries' \in Seq(Entries)
      BY <1>1, <1>2, AppendProperties DEF LogOK
  <2>4. notified' \in [Writers -> BOOLEAN] /\ requests' \in Nat
      BY <1>1, <1>2 DEF LogOK
  <2>5. writer' \in [Writers -> {"idle", "pushed", "waiting", "woken", "joining", "quit"}]
      BY <1>1, <1>2 DEF LogOK
  <2> QED BY <1>1, <1>2, <2>1, <2>2, <2>3, <2>4, <2>5 DEF LogOK
<1>4. Pending' = Append(Pending, e) /\ Pending \in Seq(Entries) /\ Len(Pending) \in Nat
    BY <1>1, <1>2, PendingOK DEF Pending
<1>5. /\ Len(Pending') = Len(Pending) + 1 /\ Pending'[Len(Pending) + 1] = e
      /\ \A k \in 1..Len(Pending) :
           Pending'[k] = Pending[k] /\ LinesBefore(Pending', k) = LinesBefore(Pending, k)
      /\ LinesBefore(Pending', Len(Pending) + 1) = LinesBefore(Pending, Len(Pending) + 1)
      /\ LinesBefore(Pending, Len(Pending) + 1) \subseteq LinesBefore(Pending', Len(Pending) + 2)
  <2>1. Len(Pending) + 1 \in 1..(Len(Pending) + 1)
      BY <1>4
  <2> QED BY <1>4, <2>1, LinesAfterAppend
<1>6. \A k \in 1..Len(Pending') : k \in 1..Len(Pending) \/ (k = Len(Pending) + 1 /\ Pending'[k] = e)
    BY <1>4, <1>5
<1>7. Written' = Written
    BY <1>1 DEF Written
<1>8. ASSUME NEW u \in Writers
      PROVE  /\ u # t => /\ writer'[u] = writer[u] /\ before'[u] = before[u] /\ mine'[u] = mine[u]
                         /\ notified'[u] = notified[u] /\ (Quitting(u)' <=> Quitting(u))
             /\ u = t => /\ writer'[u] = where /\ before'[u] = Written /\ mine'[u] = requests + 1
                         /\ notified'[u] = FALSE /\ ~Quitting(u)
                         /\ (Quitting(u)' <=> e.prio = "QUIT")
    BY <1>1, <1>2 DEF LogOK, Quitting
<1>9. (\E k \in 1..Len(Pending) : Pending[k].prio = "QUIT") \/ logger = "ended" => e.prio # "QUIT"
    BY DEF LogInv, RequestsAreTold
<1>10. OrderIsKept'
  <2>1. Written' \subseteq printed' \cup LinesBefore(Pending', Len(Pending') + 1)
    <3>1. Len(Pending') + 1 = Len(Pending) + 2
        BY <1>4, <1>5
    <3> QED BY <1>1, <1>5, <1>7, <3>1 DEF LogInv, OrderIsKept
  <2>2. ASSUME NEW k \in 1..Len(Pending'), NEW u \in Writers,
               \/ Pending'[k].prio = "FLUSH" /\ Pending'[k].by = u /\ Pending'[k].n = mine'[u]
               \/ Pending'[k].prio = "QUIT" /\ Quitting(u)'
        PROVE  before'[u] \subseteq printed' \cup LinesBefore(Pending', k)
    <3>1. CASE k \in 1..Len(Pending) /\ u # t
        BY <1>1, <1>5, <1>8, <2>2, <3>1 DEF LogInv, OrderIsKept
    <3>2. ~(k \in 1..Len(Pending) /\ u = t)
      <4>1. SUFFICES ASSUME k \in 1..Len(Pending), u = t PROVE FALSE
          OBVIOUS
      <4>2. Pending[k].prio = "FLUSH" => Pending[k].n <= requests
          BY <4>1 DEF LogInv, RequestsAreTold
      <4>3. ~(Pending[k].prio = "FLUSH" /\ Pending[k].n = requests + 1)
          BY <1>2, <4>2 DEF LogOK
      <4> QED BY <1>5, <1>8, <1>9, <2>2, <4>1, <4>3
    <3>3. CASE k = Len(Pending) + 1 /\ Pending'[k] = e
      <4>1. u = t
        <5>1. e.prio = "FLUSH" /\ e.by = u => u = t
            BY NobodyAssumption
        <5>2. e.prio = "QUIT" /\ Quitting(u)' => u = t
            BY <1>8
        <5> QED BY <2>2, <3>3, <5>1, <5>2
      <4> QED BY <1>1, <1>5, <1>8, <3>3, <4>1 DEF LogInv, OrderIsKept
    <3> QED BY <1>6, <3>1, <3>2, <3>3
  <2> QED BY <2>1, <2>2 DEF OrderIsKept
<1>11. RequestsAreTold'
  <2>1. ASSUME NEW k \in 1..Len(Pending')
        PROVE  /\ Pending'[k].prio = "FLUSH" => Pending'[k].n <= requests'
               /\ Pending'[k].prio = "QUIT" =>
                    Pending'[k].by = Nobody /\ \E u \in Writers : Quitting(u)'
    <3>1. CASE k \in 1..Len(Pending)
      <4>1. /\ Pending[k].prio = "FLUSH" => Pending[k].n <= requests
            /\ Pending[k].prio = "QUIT" =>
                 Pending[k].by = Nobody /\ \E u \in Writers : Quitting(u)
          BY <3>1 DEF LogInv, RequestsAreTold
      <4>2. Pending[k] \in Entries /\ Pending[k].n \in Nat /\ requests \in Nat
        <5>1. Pending[k] \in Entries
            BY <1>4, <3>1
        <5> QED BY <1>2, <5>1 DEF Entries, LogOK
      <4>3. \A u \in Writers : Quitting(u) => Quitting(u)'
          BY <1>8
      <4>4. Pending[k].n <= requests => Pending[k].n <= requests'
          BY <1>1, <4>2
      <4>5. Pending'[k] = Pending[k]
          BY <1>5, <3>1
      <4> QED BY <4>1, <4>3, <4>4, <4>5
    <3>2. CASE k = Len(Pending) + 1 /\ Pending'[k] = e
        BY <1>1, <1>8, <3>2
    <3> QED BY <1>6, <3>1, <3>2
  <2>2. logger' = "ended" => \E u \in Writers : Quitting(u)'
      BY <1>1, <1>8 DEF LogInv, RequestsAreTold
  <2> QED BY <2>1, <2>2 DEF RequestsAreTold
<1>12. \A u \in Writers :
         /\ notified'[u] => before'[u] \subseteq flushed'
         /\ logger' = "ended" /\ Quitting(u)' => before'[u] \subseteq flushed'
         /\ writer'[u] = "quit" => logger' = "ended"
    BY <1>1, <1>8, <1>9 DEF LogInv
<1> QED BY <1>1, <1>3, <1>10, <1>11, <1>12 DEF LogInv

\* The three requests a thread makes of the log
LEMMA RequestsInv ==
  ASSUME LogInv, NEW t \in Writers, FlushNoWait(t) \/ FlushWait(t) \/ Quit(t)
  PROVE  LogInv'
<1>1. requests \in Nat
    BY DEF LogInv, LogOK
<1>2. CASE FlushNoWait(t)
  <2>1. Control("FLUSH") \in Entries
      BY DEF Control, Entries
  <2> QED BY <1>1, <1>2, <2>1, RequestInv DEF FlushNoWait, Control
<1>3. CASE FlushWait(t)
  <2>1. Waiting(t, requests + 1) \in Entries
      BY <1>1 DEF Waiting, Entries
  <2> QED BY <1>1, <1>3, <2>1, RequestInv DEF FlushWait, Waiting
<1>4. CASE Quit(t)
  <2>1. Control("QUIT") \in Entries
      BY DEF Control, Entries
  <2> QED BY <1>4, <2>1, RequestInv DEF Quit, Control, Quitting
<1> QED BY <1>2, <1>3, <1>4

\* A thread goes on.
LEMMA GoInv ==
  ASSUME LogInv, NEW t \in Writers, NEW where, Go(t, where),
         where \in {"idle", "pushed", "waiting", "woken", "joining", "quit"},
         Quitting(t) <=> where \in {"joining", "quit"},
         where = "quit" => logger = "ended",
         UNCHANGED <<entries, sink, lines, requests, mine, notified, before, dangling>>
  PROVE  LogInv'
<1>1. writer' = [writer EXCEPT ![t] = where] /\ LogOK
    BY DEF Go, LogInv
<1>2. LogOK'
    BY <1>1 DEF LogOK, sink
<1>3. \A u \in Writers : (Quitting(u)' <=> Quitting(u)) /\ (u # t => writer'[u] = writer[u])
    BY <1>1 DEF LogOK, Quitting
<1>4. writer'[t] = where
    BY <1>1 DEF LogOK
<1>5. Pending' = Pending /\ Written' = Written
    BY DEF Pending, Written, sink
<1>6. OrderIsKept'
    BY <1>3, <1>5 DEF LogInv, OrderIsKept, sink
<1>7. RequestsAreTold'
    BY <1>3, <1>5 DEF LogInv, RequestsAreTold, sink
<1> QED BY <1>2, <1>3, <1>4, <1>6, <1>7 DEF LogInv, sink

\* Each thread of the program keeps the invariant.
LEMMA ThreadsInv ==
  ASSUME LogInv, NEW t \in Writers,
         StartWait(t) \/ SpuriousWakeup(t) \/ FlushReturns(t) \/ QuitReturns(t)
  PROVE  LogInv'
  BY GoInv DEF StartWait, SpuriousWakeup, FlushReturns, QuitReturns, Quitting

\* The logging thread takes all that came at once.
LEMMA TakeEntriesInv == LogInv /\ TakeEntries => LogInv'
<1> SUFFICES ASSUME LogInv, TakeEntries PROVE LogInv'
    OBVIOUS
<1>1. /\ logger = "loop" /\ taken = <<>> /\ taken' = entries /\ entries' = <<>>
      /\ UNCHANGED <<logger, printed, flushed, users>>
    BY DEF TakeEntries
<1>2. LogOK /\ LogOK'
    BY <1>1 DEF LogInv, LogOK, users
<1>3. Pending' = Pending /\ Written' = Written
  <2>1. taken' \o entries' = entries
      BY <1>1, <1>2 DEF LogOK
  <2> QED BY <1>1, <1>2, <2>1, PendingOK DEF Pending, Written, users
<1>4. \A u : Quitting(u)' <=> Quitting(u)
    BY <1>1 DEF Quitting, users
<1>5. OrderIsKept'
    BY <1>1, <1>3, <1>4 DEF LogInv, OrderIsKept, users
<1>6. RequestsAreTold'
    BY <1>1, <1>3, <1>4 DEF LogInv, RequestsAreTold, users
<1> QED BY <1>1, <1>2, <1>4, <1>5, <1>6 DEF LogInv, users

\* What the first entry of the queue leaves when it has been treated
LEMMA TreatFirst ==
  ASSUME LogInv, taken # <<>>, taken' = Tail(taken), entries' = entries,
         printed \cup (IF Head(taken).prio = "LINE" THEN {Head(taken)} ELSE {}) \subseteq printed',
         requests' = requests, mine' = mine, before' = before, lines' = lines,
         \A u \in Writers : Quitting(u)' <=> Quitting(u),
         logger' = "ended" => \E u \in Writers : Quitting(u)
  PROVE  OrderIsKept' /\ RequestsAreTold'
<1> DEFINE h == IF Head(taken).prio = "LINE" THEN {Head(taken)} ELSE {}
<1>1. LogOK /\ OrderIsKept /\ RequestsAreTold
    BY DEF LogInv
<1>2. /\ Pending \in Seq(Entries) /\ Pending # <<>> /\ Pending' = Tail(Pending)
      /\ Head(taken) = Head(Pending) /\ Len(Pending) \in Nat
    BY <1>1, PendingOK DEF Pending
<1>3. /\ Len(Pending') = Len(Pending) - 1
      /\ \A k \in 1..Len(Pending') : k + 1 \in 1..Len(Pending) /\ Pending'[k] = Pending[k + 1]
      /\ \A k \in 1..(Len(Pending') + 1) :
           LinesBefore(Pending, k + 1) \subseteq LinesBefore(Pending', k) \cup h
    BY <1>2, LinesAfterTail
<1>4. printed \cup h \subseteq printed'
    OBVIOUS
<1> HIDE DEF h
<1>5. Written' = Written
    BY DEF Written
<1>6. OrderIsKept'
  <2>1. Written' \subseteq printed' \cup LinesBefore(Pending', Len(Pending') + 1)
    <3>1. Len(Pending') + 1 \in 1..(Len(Pending') + 1) /\ (Len(Pending') + 1) + 1 = Len(Pending) + 1
        BY <1>2, <1>3
    <3>2. LinesBefore(Pending, Len(Pending) + 1)
            \subseteq LinesBefore(Pending', Len(Pending') + 1) \cup h
        BY <1>3, <3>1
    <3> QED BY <1>1, <1>4, <1>5, <3>2 DEF OrderIsKept
  <2>2. ASSUME NEW k \in 1..Len(Pending'), NEW u \in Writers,
               \/ Pending'[k].prio = "FLUSH" /\ Pending'[k].by = u /\ Pending'[k].n = mine'[u]
               \/ Pending'[k].prio = "QUIT" /\ Quitting(u)'
        PROVE  before'[u] \subseteq printed' \cup LinesBefore(Pending', k)
    <3>1. k + 1 \in 1..Len(Pending) /\ Pending'[k] = Pending[k + 1]
        BY <1>3
    <3>2. before[u] \subseteq printed \cup LinesBefore(Pending, k + 1)
        BY <1>1, <2>2, <3>1 DEF OrderIsKept
    <3>3. k \in 1..(Len(Pending') + 1)
        BY <1>2, <1>3
    <3>4. LinesBefore(Pending, k + 1) \subseteq LinesBefore(Pending', k) \cup h
        BY <1>3, <3>3
    <3> QED BY <1>4, <3>2, <3>4
  <2> QED BY <2>1, <2>2 DEF OrderIsKept
<1>7. RequestsAreTold'
  <2>1. ASSUME NEW k \in 1..Len(Pending')
        PROVE  /\ Pending'[k].prio = "FLUSH" => Pending'[k].n <= requests'
               /\ Pending'[k].prio = "QUIT" =>
                    Pending'[k].by = Nobody /\ \E u \in Writers : Quitting(u)'
    <3>1. k + 1 \in 1..Len(Pending) /\ Pending'[k] = Pending[k + 1]
        BY <1>3
    <3> QED BY <1>1, <3>1 DEF RequestsAreTold
  <2> QED BY <2>1 DEF RequestsAreTold
<1> QED BY <1>6, <1>7

\* A line is printed before what came after it is treated.
LEMMA PrintEntryInv == LogInv /\ PrintEntry => LogInv'
<1> SUFFICES ASSUME LogInv, PrintEntry PROVE LogInv'
    OBVIOUS
<1>1. /\ logger = "loop" /\ taken # <<>> /\ Head(taken).prio = "LINE"
      /\ printed' = printed \cup {Head(taken)} /\ taken' = Tail(taken)
      /\ UNCHANGED <<entries, logger, flushed, users>>
    BY DEF PrintEntry
<1>2. LogOK'
    BY <1>1 DEF LogInv, LogOK, users
<1>3. \A u : Quitting(u)' <=> Quitting(u)
    BY <1>1 DEF Quitting, users
<1>4. OrderIsKept' /\ RequestsAreTold'
    BY <1>1, <1>3, TreatFirst DEF users
<1> QED BY <1>1, <1>2, <1>3, <1>4 DEF LogInv, users

\* A flush puts on the streams all that was printed.
LEMMA FlushStreamsInv == LogInv /\ FlushStreams => LogInv'
<1> SUFFICES ASSUME LogInv, FlushStreams PROVE LogInv'
    OBVIOUS
<1>1. /\ logger = "loop" /\ taken # <<>> /\ Head(taken).prio \in {"FLUSH", "QUIT"}
      /\ flushed' = printed /\ logger' = "notify"
      /\ UNCHANGED <<entries, taken, printed, users>>
    BY DEF FlushStreams, InStreams
<1>2. LogOK'
    BY <1>1 DEF LogInv, LogOK, users
<1>3. Pending' = Pending /\ Written' = Written /\ \A u : Quitting(u)' <=> Quitting(u)
    BY <1>1 DEF Pending, Written, Quitting, users
<1>4. OrderIsKept'
    BY <1>1, <1>3 DEF LogInv, OrderIsKept, users
<1>5. RequestsAreTold'
    BY <1>1, <1>3 DEF LogInv, RequestsAreTold, users
<1>6. \A u \in Writers :
        (notified'[u] => before'[u] \subseteq flushed') /\ writer'[u] # "quit"
    BY <1>1 DEF LogInv, users
<1> QED BY <1>1, <1>2, <1>4, <1>5, <1>6 DEF LogInv

\* The thread of the first entry is told, and all before it is in the streams.
LEMMA EntryDoneInv == LogInv /\ EntryDone => LogInv'
<1> SUFFICES ASSUME LogInv, EntryDone PROVE LogInv'
    OBVIOUS
<1> DEFINE e == Head(taken)
<1>1. /\ logger = "notify" /\ taken' = Tail(taken)
      /\ logger' = IF e.prio = "QUIT" THEN "ended" ELSE "loop"
      /\ UNCHANGED <<entries, printed, flushed, lines, requests, mine, before>>
      /\ \/ e.by = Nobody /\ UNCHANGED <<writer, notified, dangling>>
         \/ e.by # Nobody /\ Notify(e)
    BY DEF EntryDone
<1>2. LogOK /\ taken # <<>> /\ e.prio \in {"FLUSH", "QUIT"} /\ flushed = printed
    BY <1>1 DEF LogInv
<1>3. /\ e = Pending[1] /\ 1 \in 1..Len(Pending) /\ LinesBefore(Pending, 1) = {} /\ e \in Entries
  <2>1. Pending \in Seq(Entries) /\ Pending # <<>> /\ e = Head(Pending)
      BY <1>2, PendingOK
  <2>2. LinesBefore(Pending, 1) = {}
      BY DEF LinesBefore
  <2> HIDE DEF e
  <2> QED BY <2>1, <2>2
<1> HIDE DEF e
<1>4. ASSUME NEW u \in Writers
      PROVE  /\ notified'[u] => notified[u] \/ (e.by = u /\ e.n = mine[u])
             /\ writer'[u] = writer[u] \/ (writer[u] = "waiting" /\ writer'[u] = "woken")
  <2>1. CASE UNCHANGED <<writer, notified>>
      BY <2>1
  <2>2. CASE e.by # Nobody /\ Notify(e)
    <3>1. writer \in [Writers -> {"idle", "pushed", "waiting", "woken", "joining", "quit"}]
          /\ notified \in [Writers -> BOOLEAN]
        BY <1>2 DEF LogOK
    <3>2. CASE mine[e.by] = e.n /\ writer[e.by] = "waiting"
      <4>1. /\ writer' = [writer EXCEPT ![e.by] = "woken"]
            /\ notified' = [notified EXCEPT ![e.by] = TRUE]
          BY <2>2, <3>2 DEF Notify
      <4> QED BY <3>1, <3>2, <4>1
    <3>3. CASE ~(mine[e.by] = e.n /\ writer[e.by] = "waiting")
        BY <2>2, <3>3 DEF Notify
    <3> QED BY <3>2, <3>3
  <2> QED BY <1>1, <2>1, <2>2
<1>5. LogOK'
  <2>1. writer' \in [Writers -> {"idle", "pushed", "waiting", "woken", "joining", "quit"}]
      BY <1>1, <1>2 DEF LogOK, Notify
  <2>2. notified' \in [Writers -> BOOLEAN]
      BY <1>1, <1>2 DEF LogOK, Notify
  <2>3. taken' \in Seq(Entries)
      BY <1>1, <1>2 DEF LogOK
  <2>4. logger' \in {"loop", "notify", "ended"}
      BY <1>1
  <2> QED BY <1>1, <1>2, <2>1, <2>2, <2>3, <2>4 DEF LogOK
<1>6. \A u \in Writers :
        (Quitting(u)' <=> Quitting(u)) /\ (writer'[u] = "quit" => writer[u] = "quit")
    BY <1>4 DEF Quitting
<1>7. logger' = "ended" => e.prio = "QUIT" /\ \E u \in Writers : Quitting(u)
    BY <1>1, <1>3 DEF LogInv, RequestsAreTold
<1>8. OrderIsKept' /\ RequestsAreTold'
    BY <1>1, <1>2, <1>6, <1>7, TreatFirst DEF e
<1>9. ASSUME NEW u \in Writers
      PROVE  /\ notified'[u] => before'[u] \subseteq flushed'
             /\ logger' = "ended" /\ Quitting(u)' => before'[u] \subseteq flushed'
             /\ writer'[u] = "quit" => logger' = "ended"
  <2>1. ASSUME e.by = u, e.n = mine[u] PROVE before[u] \subseteq flushed
    <3>1. e.prio = "FLUSH"
        BY <1>2, <1>3, <2>1, NobodyAssumption DEF LogInv, RequestsAreTold
    <3> QED BY <1>2, <1>3, <2>1, <3>1 DEF LogInv, OrderIsKept
  <2>2. ASSUME e.prio = "QUIT", Quitting(u) PROVE before[u] \subseteq flushed
      BY <1>2, <1>3, <2>2 DEF LogInv, OrderIsKept
  <2>3. notified[u] => before[u] \subseteq flushed
      BY DEF LogInv
  <2>4. writer[u] # "quit"
      BY <1>1 DEF LogInv
  <2> QED BY <1>1, <1>4, <1>6, <1>7, <2>1, <2>2, <2>3, <2>4
<1> QED BY <1>1, <1>2, <1>5, <1>8, <1>9 DEF LogInv

\* When flush(wait) is notified or quit() has joined the logging thread, what was
\* written before is in the streams and these were flushed: log-worker.cpp, for any
\* number of threads, lines and requests.
THEOREM DoneMeansFlushedHolds == LogSpec => []DoneMeansFlushed
<1>1. LogInit => LogInv
    BY LogInitInv
<1>2. LogInv /\ [LogNext]_logVars => LogInv'
  <2> SUFFICES ASSUME LogInv, [LogNext]_logVars PROVE LogInv'
      OBVIOUS
  <2>1. CASE UNCHANGED logVars
    <3>1. LogOK'
        BY <2>1 DEF logVars, LogInv, LogOK
    <3>2. Pending' = Pending /\ Written' = Written /\ \A u : Quitting(u)' <=> Quitting(u)
        BY <2>1 DEF logVars, Pending, Written, Quitting
    <3>3. OrderIsKept'
        BY <2>1, <3>2 DEF logVars, LogInv, OrderIsKept
    <3>4. RequestsAreTold'
        BY <2>1, <3>2 DEF logVars, LogInv, RequestsAreTold
    <3> QED BY <2>1, <3>1, <3>2, <3>3, <3>4 DEF logVars, LogInv
  <2>2. ASSUME NEW t \in Writers,
               \/ WriteLine(t) \/ FlushNoWait(t) \/ FlushWait(t) \/ Quit(t)
               \/ StartWait(t) \/ SpuriousWakeup(t) \/ FlushReturns(t) \/ QuitReturns(t)
        PROVE  LogInv'
      BY <2>2, WriteLineInv, RequestsInv, ThreadsInv
  <2>3. CASE LoggerNext
      BY <2>3, TakeEntriesInv, PrintEntryInv, FlushStreamsInv, EntryDoneInv DEF LoggerNext
  <2> QED BY <2>1, <2>2, <2>3 DEF LogNext
<1>3. LogInv => DoneMeansFlushed
    BY DEF LogInv, DoneMeansFlushed, Quitting
<1> QED BY <1>1, <1>2, <1>3, PTL DEF LogSpec

-----------------------------------------------------------------------------
(* Parsers: streams, from their front *)

\* Concatenation is associative on the sequences of S.
Associates(S) == \A x, y, z \in S : (x \o y) \o z = x \o (y \o z)

\* Concatenation is associative.
LEMMA ConcatThree == \A R : Associates(Seq(R))
<1> TAKE R
<1>1. \A x, y, z \in Seq(R) : (x \o y) \o z = x \o (y \o z)
  <2> TAKE x, y, z \in Seq(R)
  <2> QED OBVIOUS
<1> QED BY <1>1 DEF Associates

\* No sequences flatten to the empty one.
LEMMA FlattenNothing == FlattenSeq(<<>>) = <<>>
  BY DEF FlattenSeq

\* What sequences over R flatten to is one over R.
LEMMA FlattenIsSeq ==
  ASSUME NEW R, NEW n \in Nat, NEW seqs \in [1..n -> Seq(R)]
  PROVE  FlattenSeq(seqs) \in Seq(R)
<1>1. CASE n = 0
  <2>1. seqs \in Seq(Seq(R)) /\ Len(seqs) = 0
      BY <1>1
  <2>2. seqs = <<>>
      BY <2>1
  <2>3. <<>> \in Seq(R)
      OBVIOUS
  <2> QED BY <2>2, <2>3, FlattenNothing
<1>2. CASE n # 0
  <2>1. PICK f \in [1..n -> Seq(R)] : Flattens(f, seqs, n)
      BY <1>2, FlattenSteps
  <2> QED BY <1>2, <2>1 DEF Flattens
<1> QED BY <1>1, <1>2

\* What FlattenSeq builds from its end has the first sequence at its front.
LEMMA FlattenFront ==
  ASSUME NEW R, NEW n \in Nat \ {0}, NEW seqs \in [1..n -> Seq(R)]
  PROVE  FlattenSeq(seqs) = seqs[1] \o FlattenSeq([i \in 1..(n - 1) |-> seqs[i + 1]])
<1> DEFINE tail == [i \in 1..(n - 1) |-> seqs[i + 1]]
<1>1. PICK f \in [1..n -> Seq(R)] : Flattens(f, seqs, n)
    BY FlattenSteps
<1>2. /\ FlattenSeq(seqs) = f[n] /\ f[1] = seqs[1]
      /\ \A i \in 2..n : f[i] = f[i - 1] \o seqs[i]
    BY <1>1 DEF Flattens
<1>3. CASE n = 1
  <2>1. tail = <<>> /\ seqs[1] \in Seq(R)
      BY <1>3
  <2> QED BY <1>2, <1>3, <2>1, FlattenNothing
<1>4. CASE n # 1
  <2>1. n - 1 \in Nat \ {0} /\ tail \in [1..(n - 1) -> Seq(R)]
        /\ \A i \in 1..(n - 1) : tail[i] = seqs[i + 1]
      BY <1>4
  <2> HIDE DEF tail
  <2>2. PICK g \in [1..(n - 1) -> Seq(R)] : Flattens(g, tail, n - 1)
      BY <2>1, FlattenSteps
  <2>3. /\ FlattenSeq(tail) = g[n - 1] /\ g[1] = tail[1]
        /\ \A i \in 2..(n - 1) : g[i] = g[i - 1] \o tail[i]
      BY <2>2 DEF Flattens
  <2> DEFINE G == {i \in Nat : i + 1 \in 1..(n - 1) => f[i + 2] = seqs[1] \o g[i + 1]}
  <2>4. 0 \in G
    <3>1. 2 \in 2..n /\ 1 \in 1..(n - 1)
        BY <2>1
    <3>2. tail[1] = seqs[1 + 1] /\ f[2] = f[2 - 1] \o seqs[2]
        BY <1>2, <2>1, <3>1
    <3>3. 2 - 1 = 1 /\ 1 + 1 = 2
        OBVIOUS
    <3>4. f[2] = seqs[1] \o g[1]
        BY <1>2, <2>3, <3>2, <3>3, Zenon
    <3>5. 0 + 1 = 1 /\ 0 + 2 = 2
        OBVIOUS
    <3> QED BY <3>4, <3>5
  <2>5. ASSUME NEW i \in Nat, i \in G PROVE i + 1 \in G
    <3>1. PICK j \in Nat : j = i + 1
        OBVIOUS
    <3> SUFFICES ASSUME j + 1 \in 1..(n - 1) PROVE f[j + 2] = seqs[1] \o g[j + 1]
        BY <3>1
    <3>2. j \in 1..(n - 1) /\ j + 1 \in 2..(n - 1) /\ j + 2 \in 2..n /\ j + 1 \in 1..n
          /\ j + 1 \in 1..(n - 1) /\ 1 \in 1..n /\ (j + 1) - 1 = j /\ (j + 2) - 1 = j + 1
          /\ (j + 1) + 1 = j + 2
        BY <2>1, <3>1
    <3>3. f[j + 1] = seqs[1] \o g[j]
      <4>1. i + 2 = j + 1
          BY <3>1
      <4> QED BY <2>5, <3>1, <3>2, <4>1
    <3>4. f[j + 2] = f[j + 1] \o seqs[j + 2] /\ g[j + 1] = g[j] \o seqs[j + 2]
        BY <1>2, <2>1, <2>3, <3>2
    <3>5. seqs[1] \in Seq(R) /\ g[j] \in Seq(R) /\ seqs[j + 2] \in Seq(R)
      <4>1. j + 2 \in 1..n
          BY <3>2
      <4> QED BY <2>2, <3>2, <4>1
    <3>6. (seqs[1] \o g[j]) \o seqs[j + 2] = seqs[1] \o (g[j] \o seqs[j + 2])
      <4> DEFINE V == Seq(R)
      <4>1. seqs[1] \in V /\ g[j] \in V /\ seqs[j + 2] \in V /\ Associates(V)
          BY <3>5, ConcatThree
      <4> HIDE DEF V
      <4> QED BY <4>1, Zenon DEF Associates
    <3>7. f[j + 1] \o seqs[j + 2] = seqs[1] \o g[j + 1]
        BY <3>3, <3>4, <3>6, Zenon
    <3> QED BY <3>4, <3>7, Zenon
  <2>6. \A i \in Nat : i \in G
    <3> HIDE DEF G
    <3> QED BY <2>4, <2>5, NatStepInduction
  <2>7. n - 2 \in Nat /\ (n - 2) + 1 = n - 1 /\ (n - 2) + 2 = n /\ n - 1 \in 1..(n - 1)
      BY <1>4
  <2>8. f[n] = seqs[1] \o g[n - 1]
      BY <2>6, <2>7
  <2> QED BY <1>2, <2>3, <2>8 DEF tail
<1> QED BY <1>3, <1>4

-----------------------------------------------------------------------------
(* Parsers: lines and packets *)

\* What arrives
Text == Seq(Chars)

\* Texts are sequences of characters.
LEMMA TextFacts ==
  /\ <<>> \in Text /\ Crlf \in Text /\ \A c \in Chars : <<c>> \in Text
  /\ \A x, y \in Text : x \o y \in Text
  /\ \A x \in Text : <<>> \o x = x
  /\ Associates(Text)
<1>1. <<>> \in Text /\ \A c \in Chars : <<c>> \in Text
    BY DEF Text
<1>2. Crlf \in Text
    BY DEF Text, Crlf, Chars
<1>3. \A x, y \in Text : x \o y \in Text
    BY DEF Text
<1>4. \A x \in Text : <<>> \o x = x
    BY DEF Text
<1> QED BY <1>1, <1>2, <1>3, <1>4, ConcatThree DEF Text

\* The first text is on the first line.
LEMMA LinesFront ==
  ASSUME NEW texts \in Text
  PROVE  /\ Lines(texts) \in Text
         /\ texts = <<>> => Lines(texts) = <<>>
         /\ texts # <<>> =>
              Tail(texts) \in Text /\ Lines(texts) = (<<texts[1]>> \o Crlf) \o Lines(Tail(texts))
<1> DEFINE n == Len(texts)
<1> DEFINE seqs == [i \in 1..n |-> <<texts[i]>> \o Crlf]
<1>1. n \in Nat /\ \A i \in 1..n : texts[i] \in Chars
    BY DEF Text
<1>2. \A i \in 1..n : <<texts[i]>> \o Crlf \in Seq(Chars)
    BY <1>1, TextFacts DEF Text
<1>3. seqs \in [1..n -> Seq(Chars)] /\ \A i \in 1..n : seqs[i] = <<texts[i]>> \o Crlf
    BY <1>2
<1>4. Lines(texts) = FlattenSeq(seqs)
    BY DEF Lines
<1>5. Lines(texts) \in Text
    BY <1>1, <1>3, <1>4, FlattenIsSeq DEF Text
<1>6. ASSUME texts = <<>> PROVE Lines(texts) = <<>>
  <2>1. seqs = <<>>
      BY <1>6
  <2> QED BY <1>4, <2>1, FlattenNothing
<1>7. ASSUME texts # <<>>
      PROVE  Tail(texts) \in Text /\ Lines(texts) = (<<texts[1]>> \o Crlf) \o Lines(Tail(texts))
  <2>1. /\ Tail(texts) \in Text /\ n \in Nat \ {0} /\ Len(Tail(texts)) = n - 1
        /\ \A i \in 1..(n - 1) : Tail(texts)[i] = texts[i + 1] /\ i + 1 \in 1..n
      BY <1>7 DEF Text
  <2>2. 1 \in 1..n
      BY <2>1
  <2>3. [i \in 1..(n - 1) |-> seqs[i + 1]]
          = [i \in 1..Len(Tail(texts)) |-> <<Tail(texts)[i]>> \o Crlf]
    <3> HIDE DEF n, seqs
    <3> QED BY <1>3, <2>1
  <2>4. Lines(Tail(texts)) = FlattenSeq([i \in 1..(n - 1) |-> seqs[i + 1]])
      BY <2>3 DEF Lines
  <2> HIDE DEF n, seqs
  <2>5. FlattenSeq(seqs) = seqs[1] \o FlattenSeq([i \in 1..(n - 1) |-> seqs[i + 1]])
      BY <1>3, <2>1, FlattenFront
  <2> QED BY <1>3, <1>4, <2>1, <2>2, <2>4, <2>5
<1> QED BY <1>5, <1>6, <1>7

\* A body that can be sent
HasLength(body) == body # <<>> => \E c \in DOMAIN LengthOf : LengthOf[c] = Len(body)

\* What stands for a length stands for nothing else, and is of a body with something in it.
LEMMA LengthChars ==
  \A c \in DOMAIN LengthOf :
    c \in Chars /\ c \notin {"F", "h", "e", "cr", "lf"} /\ LengthOf[c] \in Nat \ {0}
<1> SUFFICES ASSUME NEW c \in DOMAIN LengthOf
             PROVE  c \in Chars /\ c \notin {"F", "h", "e", "cr", "lf"} /\ LengthOf[c] \in Nat \ {0}
    OBVIOUS
<1>1. c \in Chars
    BY DEF Chars
<1>2. c \notin {"F", "h", "e", "cr", "lf"}
    BY LengthOfAssumption, Zenon
<1>3. LengthOf[c] \in Nat \ {0}
    BY LengthOfAssumption
<1> QED BY <1>1, <1>2, <1>3

\* The content-length of a packet, if it has a body
LEMMA LengthFacts ==
  ASSUME NEW body \in Text, HasLength(body)
  PROVE  /\ body = <<>> => Length(body) = <<>>
         /\ body # <<>> => \E c \in DOMAIN LengthOf : Length(body) = <<c>> /\ LengthOf[c] = Len(body)
<1>1. ASSUME body # <<>> PROVE \E c \in DOMAIN LengthOf : LengthOf[c] = Len(body)
    BY <1>1 DEF HasLength
<1>2. ASSUME body # <<>>
      PROVE  \E c \in DOMAIN LengthOf : Length(body) = <<c>> /\ LengthOf[c] = Len(body)
  <2>1. PICK c : c = CHOOSE d \in DOMAIN LengthOf : LengthOf[d] = Len(body)
      OBVIOUS
  <2>2. c \in DOMAIN LengthOf /\ LengthOf[c] = Len(body)
      BY <1>1, <1>2, <2>1
  <2>3. Length(body) = <<c>>
      BY <1>2, <2>1 DEF Length
  <2> QED BY <2>2, <2>3
<1> QED BY <1>2 DEF Length

\* x and then y: a name for \o, for the provers to match lemmas with
Join(x, y) == x \o y

\* What each part of a concatenation is
LEMMA JoinFacts ==
  ASSUME NEW x \in Text, NEW y \in Text
  PROVE  /\ Join(x, y) \in Text /\ Len(Join(x, y)) = Len(x) + Len(y)
         /\ \A i \in 1..Len(x) : Join(x, y)[i] = x[i]
         /\ \A i \in 1..Len(y) : Join(x, y)[Len(x) + i] = y[i]
<1>1. /\ x \o y \in Text /\ Len(x \o y) = Len(x) + Len(y)
      /\ Len(x) \in Nat /\ Len(y) \in Nat
    BY DEF Text
<1>2. \A i \in 1..Len(x) : (x \o y)[i] = x[i]
    BY DEF Text
<1>3. \A i \in 1..Len(y) : (x \o y)[Len(x) + i] = y[i]
    BY DEF Text
<1> QED BY <1>1, <1>2, <1>3 DEF Join

\* What is taken from the front of the buffer is taken from the stream.
Splits(a, b, f, after) == Join(a, b) = Join(f, after)

\* If enough of the front has come, it is in the buffer, and the rest of the stream follows.
LEMMA TakeFront ==
  ASSUME NEW a \in Text, NEW b \in Text, NEW f \in Text, NEW after \in Text,
         Splits(a, b, f, after), Len(f) <= Len(a)
  PROVE  /\ SubSeq(a, 1, Len(f)) = f
         /\ SubSeq(a, Len(f) + 1, Len(a)) \in Text
         /\ Join(SubSeq(a, Len(f) + 1, Len(a)), b) = after
<1> DEFINE r == SubSeq(a, Len(f) + 1, Len(a))
<1> DEFINE w == Join(a, b)
<1>1. Len(a) \in Nat /\ Len(b) \in Nat /\ Len(f) \in Nat /\ Len(after) \in Nat
    BY DEF Text
<1>2. /\ w \in Text /\ Len(w) = Len(a) + Len(b)
      /\ \A i \in 1..Len(a) : w[i] = a[i]
      /\ \A i \in 1..Len(b) : w[Len(a) + i] = b[i]
    BY JoinFacts
<1>3. /\ Len(w) = Len(f) + Len(after)
      /\ \A i \in 1..Len(f) : w[i] = f[i]
      /\ \A i \in 1..Len(after) : w[Len(f) + i] = after[i]
  <2>1. /\ Len(Join(f, after)) = Len(f) + Len(after)
        /\ \A i \in 1..Len(f) : Join(f, after)[i] = f[i]
        /\ \A i \in 1..Len(after) : Join(f, after)[Len(f) + i] = after[i]
      BY JoinFacts
  <2> HIDE DEF w
  <2>2. w = Join(f, after)
      BY DEF w, Splits
  <2> QED BY <2>1, <2>2
<1> HIDE DEF w
<1>4. SubSeq(a, 1, Len(f)) = f
  <2>1. SubSeq(a, 1, Len(f)) \in Text /\ Len(SubSeq(a, 1, Len(f))) = Len(f)
        /\ \A i \in 1..Len(f) : SubSeq(a, 1, Len(f))[i] = a[i]
      BY <1>1 DEF Text
  <2>2. \A i \in 1..Len(f) : i \in 1..Len(a) /\ a[i] = f[i]
      BY <1>1, <1>2, <1>3
  <2>3. \A i \in 1..Len(f) : SubSeq(a, 1, Len(f))[i] = f[i]
      BY <2>1, <2>2
  <2> QED BY <2>1, <2>3, SeqEqual DEF Text
<1>5. /\ r \in Text /\ Len(r) = Len(a) - Len(f)
      /\ \A i \in 1..(Len(a) - Len(f)) : r[i] = a[Len(f) + i]
    BY <1>1 DEF Text
<1> HIDE DEF r
<1>6. PICK z \in Text :
         /\ z = Join(r, b) /\ Len(z) = (Len(a) - Len(f)) + Len(b)
         /\ \A i \in 1..(Len(a) - Len(f)) : z[i] = r[i]
         /\ \A i \in 1..Len(b) : z[(Len(a) - Len(f)) + i] = b[i]
  <2>1. PICK z : z = Join(r, b)
      OBVIOUS
  <2>2. /\ z \in Text /\ Len(z) = Len(r) + Len(b)
        /\ \A i \in 1..Len(r) : z[i] = r[i]
        /\ \A i \in 1..Len(b) : z[Len(r) + i] = b[i]
    <3>1. r \in Text
        BY <1>5
    <3>2. /\ Join(r, b) \in Text /\ Len(Join(r, b)) = Len(r) + Len(b)
          /\ \A i \in 1..Len(r) : Join(r, b)[i] = r[i]
          /\ \A i \in 1..Len(b) : Join(r, b)[Len(r) + i] = b[i]
        BY <3>1, JoinFacts
    <3> QED BY <2>1, <3>2
  <2>3. Len(r) = Len(a) - Len(f)
      BY <1>5
  <2> QED BY <2>1, <2>2, <2>3
<1>7. Len(z) = Len(after)
    BY <1>1, <1>2, <1>3, <1>6
<1>8. ASSUME NEW i \in 1..Len(after) PROVE z[i] = after[i]
  <2>1. after[i] = w[Len(f) + i]
      BY <1>3
  <2>2. CASE i <= Len(a) - Len(f)
    <3>1. i \in 1..(Len(a) - Len(f)) /\ Len(f) + i \in 1..Len(a)
        BY <1>1, <2>2
    <3> QED BY <1>2, <1>5, <1>6, <2>1, <3>1
  <2>3. CASE ~(i <= Len(a) - Len(f))
    <3>1. i - (Len(a) - Len(f)) \in 1..Len(b)
      <4>1. Len(a) + Len(b) = Len(f) + Len(after)
          BY <1>2, <1>3
      <4> QED BY <1>1, <2>3, <4>1
    <3> DEFINE k == i - (Len(a) - Len(f))
    <3>2. (Len(a) - Len(f)) + k = i /\ Len(a) + k = Len(f) + i
        BY <1>1, <3>1
    <3>3. z[(Len(a) - Len(f)) + k] = b[k] /\ w[Len(a) + k] = b[k]
        BY <1>2, <1>6, <3>1
    <3> QED BY <2>1, <3>2, <3>3
  <2> QED BY <2>2, <2>3
<1>9. z = after
    BY <1>6, <1>7, <1>8, SeqEqual DEF Text
<1>10. Join(r, b) = after
    BY <1>6, <1>9
<1> QED BY <1>4, <1>5, <1>10 DEF r

\* f is a line of k characters, its end included.
EndsAt(f, k) == Len(f) = k /\ f[k] = "lf" /\ \A i \in 1..(k - 1) : f[i] # "lf"

\* The first line of the buffer ends where the first line of the stream does.
LEMMA EndOfFirstLine ==
  ASSUME buffer \in Text, wire \in Text, HasLine,
         NEW f \in Text, NEW after \in Text, Splits(buffer, wire, f, after),
         NEW k \in Nat \ {0}, EndsAt(f, k)
  PROVE  EndOfLine = k /\ k <= Len(buffer) /\ \A i \in 1..k : buffer[i] = f[i]
<1>1. Len(buffer) \in Nat /\ Len(wire) \in Nat /\ Len(after) \in Nat
    BY DEF Text
<1>0. Len(f) = k /\ f[k] = "lf" /\ \A i \in 1..(k - 1) : f[i] # "lf"
    BY DEF EndsAt
<1>2. PICK w : w = Join(buffer, wire)
    OBVIOUS
<1>3. \A i \in 1..Len(buffer) : w[i] = buffer[i]
    BY <1>2, JoinFacts
<1>4. \A i \in 1..k : w[i] = f[i]
  <2>1. w = Join(f, after)
      BY <1>2 DEF Splits
  <2> QED BY <1>0, <2>1, JoinFacts
<1>5. PICK i \in 1..Len(buffer) : buffer[i] = "lf"
    BY DEF HasLine, Contains
<1>6. \A j \in 1..Len(buffer) : buffer[j] = "lf" => k <= j
  <2> SUFFICES ASSUME NEW j \in 1..Len(buffer), buffer[j] = "lf", ~(k <= j) PROVE FALSE
      OBVIOUS
  <2>1. j \in 1..(k - 1) /\ j \in 1..k
      BY <1>1
  <2> QED BY <1>0, <1>3, <1>4, <2>1
<1>7. k \in 1..Len(buffer)
    BY <1>1, <1>5, <1>6
<1>8. \A j \in 1..k : j \in 1..Len(buffer)
    BY <1>1, <1>7
<1>9. \A j \in 1..k : buffer[j] = f[j]
    BY <1>3, <1>4, <1>8
<1>10. EndOfLine = k
  <2> DEFINE S == {j \in 1..Len(buffer) : buffer[j] = "lf"}
  <2>1. k \in S /\ (\A j \in S : k <= j) /\ \A j \in S : j \in Nat
    <3>1. buffer[k] = "lf"
        BY <1>0, <1>9
    <3> QED BY <1>1, <1>6, <1>7, <3>1
  <2>2. EndOfLine = Min(S)
      BY DEF EndOfLine
  <2> HIDE DEF S
  <2>3. \A x \in S : (\A y \in S : x <= y) => x = k
      BY <2>1
  <2>4. Min(S) = k
      BY <2>1, <2>3 DEF Min
  <2> QED BY <2>2, <2>4
<1> QED BY <1>7, <1>9, <1>10

\* A line of one text
LineOf(x) == <<x>> \o Crlf

\* popLine gives the first line of the stream, of one text.
LEMMA FrontOfLine ==
  ASSUME buffer \in Text, wire \in Text, HasLine,
         NEW x \in Chars \ {"lf"}, NEW after \in Text,
         Splits(buffer, wire, LineOf(x), after)
  PROVE  /\ FrontLine = <<x>>
         /\ SubSeq(buffer, EndOfLine + 1, Len(buffer)) \in Text
         /\ Join(SubSeq(buffer, EndOfLine + 1, Len(buffer)), wire) = after
<1>1. PICK f : f = LineOf(x)
    OBVIOUS
<1>2. f \in Text /\ Len(f) = 3 /\ f[1] = x /\ f[2] = "cr" /\ f[3] = "lf"
  <2>1. PICK a : a = <<x>>
      OBVIOUS
  <2>2. PICK b : b = Crlf
      OBVIOUS
  <2>3. a \in Text /\ Len(a) = 1 /\ a[1] = x
      BY <2>1, TextFacts
  <2>4. b \in Text /\ Len(b) = 2 /\ b[1] = "cr" /\ b[2] = "lf"
    <3>1. b \in Text
        BY <2>2, TextFacts
    <3> QED BY <2>2, <3>1 DEF Crlf
  <2>5. f = Join(a, b)
      BY <1>1, <2>1, <2>2 DEF LineOf, Join
  <2>6. /\ f \in Text /\ Len(f) = Len(a) + Len(b)
        /\ \A i \in 1..Len(a) : f[i] = a[i]
        /\ \A i \in 1..Len(b) : f[Len(a) + i] = b[i]
      BY <2>3, <2>4, <2>5, JoinFacts
  <2>7. 1 \in 1..1 /\ 1 \in 1..2 /\ 2 \in 1..2
      OBVIOUS
  <2> QED BY <2>3, <2>4, <2>6, <2>7
<1>3. EndOfLine = 3 /\ 3 <= Len(buffer) /\ \A i \in 1..3 : buffer[i] = f[i]
  <2>1. \A i \in 1..(3 - 1) : i = 1 \/ i = 2
      OBVIOUS
  <2>2. \A i \in 1..(3 - 1) : f[i] # "lf"
      BY <1>2, <2>1
  <2>3. Splits(buffer, wire, f, after) /\ EndsAt(f, 3) /\ 3 \in Nat \ {0}
      BY <1>1, <1>2, <2>2 DEF EndsAt
  <2> QED BY <1>2, <2>3, EndOfFirstLine
<1>4. FrontLine = <<x>>
  <2>1. buffer[1] = x /\ buffer[3 - 1] = "cr"
      BY <1>2, <1>3
  <2>2. FrontLine = SubSeq(buffer, 1, 1)
      BY <1>3, <2>1 DEF FrontLine
  <2>3. SubSeq(buffer, 1, 1) = <<buffer[1]>>
    <3>1. PICK q : q = SubSeq(buffer, 1, 1)
        OBVIOUS
    <3>2. Len(buffer) \in Nat /\ \A i \in 1..1 : buffer[i] \in Chars
      <4>1. \A i \in 1..1 : i \in 1..Len(buffer)
          BY <1>3 DEF Text
      <4> QED BY <4>1 DEF Text
    <3>3. q \in Seq(Chars) /\ Len(q) = 1 /\ q[1] = buffer[1]
        BY <3>1, <3>2
    <3>4. q = <<q[1]>>
        BY <3>3
    <3> QED BY <3>1, <3>3, <3>4
  <2> QED BY <2>1, <2>2, <2>3
<1>5. /\ SubSeq(buffer, Len(f) + 1, Len(buffer)) \in Text
      /\ Join(SubSeq(buffer, Len(f) + 1, Len(buffer)), wire) = after
  <2>1. f \in Text /\ Splits(buffer, wire, f, after) /\ Len(f) <= Len(buffer)
      BY <1>1, <1>2, <1>3
  <2> QED BY <2>1, TakeFront
<1> QED BY <1>2, <1>3, <1>4, <1>5

\* The empty line
LEMMA FrontOfEmpty ==
  ASSUME buffer \in Text, wire \in Text, HasLine, NEW after \in Text,
         Splits(buffer, wire, Crlf, after)
  PROVE  /\ FrontLine = <<>>
         /\ SubSeq(buffer, EndOfLine + 1, Len(buffer)) \in Text
         /\ Join(SubSeq(buffer, EndOfLine + 1, Len(buffer)), wire) = after
<1>1. PICK f : f = Crlf
    OBVIOUS
<1>2. f \in Text /\ Len(f) = 2 /\ f[1] = "cr" /\ f[2] = "lf"
  <2>1. f \in Text
      BY <1>1, TextFacts
  <2> QED BY <1>1, <2>1 DEF Crlf
<1>3. EndOfLine = 2 /\ 2 <= Len(buffer) /\ \A i \in 1..2 : buffer[i] = f[i]
  <2>1. \A i \in 1..(2 - 1) : f[i] # "lf"
      BY <1>2
  <2>2. Splits(buffer, wire, f, after) /\ EndsAt(f, 2) /\ 2 \in Nat \ {0}
      BY <1>1, <1>2, <2>1 DEF EndsAt
  <2> QED BY <1>2, <2>2, EndOfFirstLine
<1>4. FrontLine = <<>>
  <2>1. buffer[2 - 1] = "cr"
      BY <1>2, <1>3
  <2>2. FrontLine = SubSeq(buffer, 1, 0)
      BY <1>3, <2>1 DEF FrontLine
  <2>3. SubSeq(buffer, 1, 0) = <<>>
      BY SubSeqEmpty
  <2> QED BY <2>2, <2>3
<1>5. /\ SubSeq(buffer, Len(f) + 1, Len(buffer)) \in Text
      /\ Join(SubSeq(buffer, Len(f) + 1, Len(buffer)), wire) = after
  <2>1. f \in Text /\ Splits(buffer, wire, f, after) /\ Len(f) <= Len(buffer)
      BY <1>1, <1>2, <1>3
  <2> QED BY <2>1, TakeFront
<1> QED BY <1>2, <1>3, <1>4, <1>5

-----------------------------------------------------------------------------
(* Parsers: the stream *)

\* The laws of concatenation
LEMMA JoinAlgebra ==
  /\ \A x, y \in Text : Join(x, y) \in Text
  /\ \A x, y, z \in Text : Join(Join(x, y), z) = Join(x, Join(y, z))
  /\ \A x \in Text : Join(<<>>, x) = x
  /\ <<>> \in Text /\ Crlf \in Text /\ \A c \in Chars : <<c>> \in Text /\ LineOf(c) \in Text
<1>1. \A x, y \in Text : Join(x, y) \in Text
    BY JoinFacts
<1>2. \A x, y, z \in Text : Join(Join(x, y), z) = Join(x, Join(y, z))
    BY TextFacts, Zenon DEF Join, Associates
<1>3. \A x \in Text : Join(<<>>, x) = x
    BY TextFacts, Zenon DEF Join
<1>4. <<>> \in Text /\ Crlf \in Text /\ \A c \in Chars : <<c>> \in Text
    BY TextFacts
<1>5. \A c \in Chars : LineOf(c) \in Text
    BY <1>1, <1>4, Zenon DEF LineOf, Join
<1> QED BY <1>1, <1>2, <1>3, <1>4, <1>5

\* One line more
LEMMA LinesCons ==
  ASSUME NEW x \in Chars, NEW r \in Text
  PROVE  /\ Join(<<x>>, r) \in Text /\ Lines(r) \in Text
         /\ Lines(Join(<<x>>, r)) = Join(LineOf(x), Lines(r))
<1> DEFINE t == Join(<<x>>, r)
<1>1. PICK f : f = <<x>>
    OBVIOUS
<1>2. f \in Text /\ Len(f) = 1 /\ f[1] = x
    BY <1>1, JoinAlgebra
<1>3. Len(r) \in Nat
    BY DEF Text
<1>4. t = Join(f, r)
    BY <1>1
<1> HIDE DEF t
<1>5. /\ t \in Text /\ Len(t) = 1 + Len(r) /\ t[1] = x
      /\ \A i \in 1..Len(r) : t[1 + i] = r[i]
  <2>1. /\ Join(f, r) \in Text /\ Len(Join(f, r)) = Len(f) + Len(r)
        /\ \A i \in 1..Len(f) : Join(f, r)[i] = f[i]
        /\ \A i \in 1..Len(r) : Join(f, r)[Len(f) + i] = r[i]
      BY <1>2, JoinFacts
  <2> QED BY <1>2, <1>4, <2>1
<1>6. t # <<>>
    BY <1>3, <1>5
<1>7. Tail(t) = r
  <2>1. t \in Seq(Chars)
      BY <1>5 DEF Text
  <2>2. /\ Tail(t) \in Seq(Chars) /\ Len(Tail(t)) = Len(r)
        /\ \A i \in 1..Len(Tail(t)) : Tail(t)[i] = t[i + 1]
      BY <1>3, <1>5, <1>6, <2>1, HeadTailProperties
  <2>3. \A i \in 1..Len(r) : Tail(t)[i] = r[i]
      BY <1>3, <1>5, <2>2
  <2>4. r \in Seq(Chars)
      BY DEF Text
  <2> QED BY <2>2, <2>3, <2>4, SeqEqual
<1>8. Lines(r) \in Text /\ Lines(t) = Join(LineOf(x), Lines(r))
    BY <1>5, <1>6, <1>7, LinesFront DEF Join, LineOf
<1> QED BY <1>5, <1>8 DEF t

\* The packets before the first that is not well formed
LEMMA SoundFacts ==
  ASSUME sent \in Streams
  PROVE  /\ Len(sent) \in Nat /\ NbSound \in 0..Len(sent)
         /\ \A i \in 1..NbSound : WellFormed(sent[i])
<1>1. Len(sent) \in Nat
    BY StreamsAssumption
<1> DEFINE I == {i \in 1..Len(sent) : ~WellFormed(sent[i])}
<1>2. Sound = IF I # {} THEN Min(I) ELSE 0
    BY DEF Sound, SelectInSeq
<1>3. CASE I = {}
  <2>1. NbSound = Len(sent) /\ \A i \in 1..Len(sent) : WellFormed(sent[i])
      BY <1>2, <1>3 DEF NbSound
  <2> QED BY <1>1, <2>1
<1>4. CASE I # {}
  <2>1. I \in SUBSET Nat /\ I \in SUBSET (1..Len(sent))
      BY <1>1
  <2>2. \A i \in 1..Len(sent) : i \notin I => WellFormed(sent[i])
      OBVIOUS
  <2> HIDE DEF I
  <2>3. \E m \in I : \A i \in I : m <= i
      BY <1>4, <2>1, LeastNat
  <2>4. PICK m \in I : m = Min(I) /\ \A i \in I : m <= i
      BY <2>3 DEF Min
  <2>5. m \in 1..Len(sent) /\ NbSound = m - 1
      BY <1>2, <1>4, <2>1, <2>4 DEF NbSound
  <2>6. ASSUME NEW i \in 1..NbSound PROVE WellFormed(sent[i])
    <3>1. i \in 1..Len(sent) /\ ~(m <= i)
        BY <1>1, <2>5
    <3> QED BY <2>2, <2>4, <3>1
  <2> QED BY <1>1, <2>5, <2>6
<1> QED BY <1>3, <1>4

\* The parts of a packet that was sent
LEMMA PacketFacts ==
  ASSUME sent \in Streams, NEW i \in 1..Len(sent)
  PROVE  /\ sent[i] \in GTTPackets /\ HasLength(sent[i].body)
         /\ sent[i].headers \in Text /\ sent[i].body \in Text
         /\ sent[i].headers \in Seq({"h", "e"})
         /\ sent[i] = [headers |-> sent[i].headers, body |-> sent[i].body]
<1>1. sent[i] \in GTTPackets /\ HasLength(sent[i].body)
    BY StreamsAssumption DEF HasLength
<1>2. /\ sent[i].headers \in Seq({"h", "e"}) /\ sent[i].body \in Seq(Chars)
      /\ sent[i] = [headers |-> sent[i].headers, body |-> sent[i].body]
    BY <1>1 DEF GTTPackets
<1>3. {"h", "e"} \subseteq Chars
    BY DEF Chars
<1>4. sent[i].headers \in Seq(Chars)
    BY <1>2, <1>3, SeqMonotonic
<1> QED BY <1>1, <1>2, <1>4 DEF Text

\* A packet begins with its first line.
LEMMA BuildFront ==
  ASSUME NEW h \in Text, NEW body \in Text, HasLength(body), NEW p,
         p.headers = h, p.body = body
  PROVE  /\ Build(p) \in Text /\ Length(body) \in Text /\ Join(h, Length(body)) \in Text
         /\ Build(p) = Join(LineOf("F"), Join(Lines(Join(h, Length(body))), Join(Crlf, body)))
<1> DEFINE n == Length(body)
<1> DEFINE t == Join(Join(<<"F">>, h), n)
<1>1. n \in Text
  <2>1. DOMAIN LengthOf \subseteq Chars
      BY LengthChars
  <2>2. n = <<>> \/ \E c \in DOMAIN LengthOf : n = <<c>>
      BY LengthFacts
  <2>3. \A c \in DOMAIN LengthOf : <<c>> \in Text
      BY <2>1, JoinAlgebra
  <2> HIDE DEF n
  <2> QED BY <2>2, <2>3, JoinAlgebra
<1>2. "F" \in Chars
    BY DEF Chars
<1>3. Build(p) = Join(Join(Lines(t), Crlf), body)
    BY Zenon DEF Build, Join
<1> HIDE DEF n
<1>4. t = Join(<<"F">>, Join(h, n)) /\ Join(h, n) \in Text /\ <<"F">> \in Text
    BY <1>1, <1>2, JoinAlgebra
<1> HIDE DEF t
<1>6. Lines(t) = Join(LineOf("F"), Lines(Join(h, n))) /\ Lines(Join(h, n)) \in Text
    BY <1>2, <1>4, LinesCons
<1>7. LineOf("F") \in Text /\ Crlf \in Text
    BY <1>2, JoinAlgebra
<1>8. PICK a \in Text, l \in Text, c \in Text :
         a = LineOf("F") /\ l = Lines(Join(h, n)) /\ c = Crlf
    BY <1>6, <1>7
<1>9. a \in Text /\ l \in Text /\ c \in Text
    BY <1>8
<1>10. Join(Join(a, l), c) = Join(a, Join(l, c)) /\ Join(l, c) \in Text /\ Join(c, body) \in Text
    BY <1>9, JoinAlgebra
<1>11. /\ Join(Join(a, Join(l, c)), body) = Join(a, Join(Join(l, c), body))
       /\ Join(Join(l, c), body) = Join(l, Join(c, body))
    BY <1>9, <1>10, JoinAlgebra
<1>12. Join(a, Join(l, Join(c, body))) \in Text
    BY <1>9, <1>10, JoinAlgebra
<1>13. Build(p) = Join(a, Join(l, Join(c, body)))
  <2>1. Build(p) = Join(Join(Join(a, l), c), body)
      BY <1>3, <1>6, <1>8
  <2> QED BY <1>10, <1>11, <2>1
<1> QED BY <1>1, <1>4, <1>8, <1>12, <1>13 DEF n

\* What remains of the stream begins with the next packet.
LEMMA SuffixFront ==
  ASSUME sent \in Streams
  PROVE  /\ Suffix(Len(sent)) = <<>>
         /\ \A i \in 0..Len(sent) : Suffix(i) \in Text
         /\ \A i \in 0..(Len(sent) - 1) : Suffix(i) = Join(Build(sent[i + 1]), Suffix(i + 1))
<1>1. Len(sent) \in Nat
    BY SoundFacts
<1>2. \A i \in 1..Len(sent) : Build(sent[i]) \in Seq(Chars)
    BY PacketFacts, BuildFront DEF Text
<1>3. Suffix(Len(sent)) = <<>>
  <2>1. [j \in 1..(Len(sent) - Len(sent)) |-> Build(sent[Len(sent) + j])] = <<>>
      BY <1>1
  <2> QED BY <2>1, FlattenNothing DEF Suffix
<1>4. ASSUME NEW i \in 0..Len(sent) PROVE Suffix(i) \in Text
  <2> DEFINE seqs == [j \in 1..(Len(sent) - i) |-> Build(sent[i + j])]
  <2>1. \A j \in 1..(Len(sent) - i) : i + j \in 1..Len(sent)
      BY <1>1
  <2>2. seqs \in [1..(Len(sent) - i) -> Seq(Chars)] /\ Len(sent) - i \in Nat
      BY <1>1, <1>2, <2>1
  <2> HIDE DEF seqs
  <2>3. FlattenSeq(seqs) \in Seq(Chars)
      BY <2>2, FlattenIsSeq
  <2> QED BY <2>3 DEF seqs, Suffix, Text
<1>5. ASSUME NEW i \in 0..(Len(sent) - 1)
      PROVE  Suffix(i) = Join(Build(sent[i + 1]), Suffix(i + 1))
  <2> DEFINE n == Len(sent) - i
  <2> DEFINE seqs == [j \in 1..n |-> Build(sent[i + j])]
  <2> DEFINE tail == [j \in 1..(n - 1) |-> seqs[j + 1]]
  <2>1. n \in Nat \ {0} /\ \A j \in 1..n : i + j \in 1..Len(sent)
      BY <1>1
  <2>2. seqs \in [1..n -> Seq(Chars)] /\ seqs[1] = Build(sent[i + 1])
      BY <1>2, <2>1
  <2>3. tail = [j \in 1..(Len(sent) - (i + 1)) |-> Build(sent[(i + 1) + j])]
    <3>1. n - 1 = Len(sent) - (i + 1)
        BY <1>1
    <3>2. \A j \in 1..(n - 1) : j + 1 \in 1..n /\ i + (j + 1) = (i + 1) + j
        BY <1>1
    <3>3. \A j \in 1..(n - 1) : seqs[j + 1] = Build(sent[(i + 1) + j])
        BY <3>2
    <3> HIDE DEF n, seqs
    <3> QED BY <3>1, <3>3
  <2> HIDE DEF n, seqs
  <2>4. FlattenSeq(seqs) = seqs[1] \o FlattenSeq(tail)
      BY <2>1, <2>2, FlattenFront
  <2>5. FlattenSeq(seqs) = Suffix(i)
      BY DEF seqs, n, Suffix
  <2>6. FlattenSeq(tail) = Suffix(i + 1)
      BY <2>3 DEF Suffix
  <2> HIDE DEF tail
  <2> QED BY <2>2, <2>4, <2>5, <2>6, Zenon DEF Join
<1> QED BY <1>3, <1>4, <1>5

-----------------------------------------------------------------------------
(* Parsers: the headers *)

\* What PopLine leaves in the buffer
AfterLine == SubSeq(buffer, EndOfLine + 1, Len(buffer))

\* The next line is line, and the stream goes on with after.
Comes(line, after) == FrontLine = line /\ AfterLine \in Text /\ Join(AfterLine, wire) = after

\* The stream from the end of p's headers
Ending(p, after) == Join(Crlf, Join(p.body, after))

\* The next line is a header.
AtHeader(p, after) ==
  /\ currentSize = 0 /\ Len(currentPkt) < Len(p.headers) /\ p.headers[Len(currentPkt) + 1] = "h"
  /\ Comes(<<"h">>,
           Join(Lines(Join(SubSeq(p.headers, Len(currentPkt) + 2, Len(p.headers)),
                           Length(p.body))),
                Ending(p, after)))

\* The next line is the content-length, after the headers.
AtLength(p, after) ==
  /\ currentSize = 0 /\ currentPkt = p.headers /\ p.body # <<>>
  /\ \E c \in DOMAIN LengthOf : LengthOf[c] = Len(p.body) /\ Comes(<<c>>, Ending(p, after))

\* The next line is the empty one.
AtEnd(p, after) ==
  /\ currentSize = Len(p.body) /\ currentPkt = p.headers
  /\ Comes(<<>>, Join(p.body, after))

\* While a packet is read, the next line of its headers is one of three.
LEMMA HeaderLine ==
  ASSUME buffer \in Text, wire \in Text, HasLine, datapos = "headers", currentSize \in Nat,
         currentPkt \in Seq({"h", "e"}),
         NEW after \in Text, NEW p, NEW h, NEW body, p.headers = h, p.body = body,
         h \in Seq({"h", "e"}), h \in Text, body \in Text, HasLength(body), WellFormed(p),
         Reading(p, after)
  PROVE  AtHeader(p, after) \/ AtLength(p, after) \/ AtEnd(p, after)
<1> DEFINE n == Len(currentPkt)
<1> DEFINE l == Length(body)
<1>1. PICK e : e = Ending(p, after)
    OBVIOUS
<1>2. e \in Text /\ e = Join(Crlf, Join(body, after)) /\ Join(body, after) \in Text
    BY <1>1, JoinAlgebra DEF Ending
<1>3. /\ n \in Nat /\ Len(h) \in Nat /\ n <= Len(h) /\ currentPkt = SubSeq(h, 1, n)
      /\ currentSize # 0 => currentPkt = h /\ currentSize = Len(body)
    BY DEF Reading
<1>4. Join(buffer, wire) = Join(Lines(Unread(p)), e)
  <2>1. Join(buffer, wire) = Join(Lines(Unread(p)), Join(Crlf, Join(p.body, after)))
      BY Zenon DEF Reading, Join
  <2> QED BY <1>2, <2>1
<1>5. Lines(<<>>) = <<>>
    BY LinesFront, JoinAlgebra
<1>6. ASSUME Unread(p) = <<>>, currentPkt = h, currentSize = Len(body) PROVE AtEnd(p, after)
  <2>1. Join(Lines(Unread(p)), e) = e
      BY <1>2, <1>5, <1>6, JoinAlgebra
  <2>2. Splits(buffer, wire, Crlf, Join(body, after))
      BY <1>2, <1>4, <2>1 DEF Splits
  <2>3. Comes(<<>>, Join(body, after))
      BY <1>2, <2>2, FrontOfEmpty DEF Comes, AfterLine
  <2> QED BY <1>6, <2>3 DEF AtEnd
<1>7. CASE currentSize # 0
    BY <1>3, <1>6, <1>7 DEF Unread
<1>8. CASE currentSize = 0 /\ n < Len(h)
  <2> DEFINE s == SubSeq(h, n + 2, Len(h))
  <2>1. h[n + 1] = "h" /\ n + 1 \in 1..Len(h)
    <3>1. n + 1 \in 1..Len(h)
        BY <1>3, <1>8
    <3>2. h[n + 1] # "e"
        BY <3>1 DEF WellFormed, Contains
    <3>3. h[n + 1] \in {"h", "e"}
      <4>1. \A i \in 1..Len(h) : h[i] \in {"h", "e"}
          OBVIOUS
      <4> QED BY <3>1, <4>1
    <3> QED BY <3>1, <3>2, <3>3
  <2>2. SubSeq(h, n + 1, Len(h)) = Join(<<"h">>, s)
    <3>1. Len(h) \in (n + 1)..Len(h) /\ (n + 1) + 1 = n + 2
        BY <1>3, <2>1
    <3>2. SubSeq(h, n + 1, Len(h)) = <<h[n + 1]>> \o SubSeq(h, (n + 1) + 1, Len(h))
        BY <2>1, <3>1, SubSeqRecursiveFirst
    <3> QED BY <2>1, <3>1, <3>2, Zenon DEF Join
  <2>3. s \in Text
    <3>1. n + 2 \in Int /\ Len(h) \in Int /\ \A i \in (n + 2)..Len(h) : i \in 1..Len(h)
        BY <1>3
    <3>2. \A i \in 1..Len(h) : h[i] \in Chars
        BY DEF Text
    <3>3. \A i \in (n + 2)..Len(h) : h[i] \in Chars
        BY <3>1, <3>2
    <3> QED BY <3>1, <3>3, SubSeqProperties DEF Text
  <2>4. l \in Text
      BY BuildFront
  <2>5. Unread(p) = Join(SubSeq(h, n + 1, Len(h)), l)
      BY <1>8, Zenon DEF Unread, Join
  <2> HIDE DEF s, l
  <2>6. "h" \in Chars /\ "h" \in Chars \ {"lf"}
      BY DEF Chars
  <2>7. Unread(p) = Join(<<"h">>, Join(s, l)) /\ Join(s, l) \in Text
    <3>1. PICK f : f = <<"h">>
        OBVIOUS
    <3>2. f \in Text
        BY <2>6, <3>1, JoinAlgebra
    <3>3. Join(Join(f, s), l) = Join(f, Join(s, l)) /\ Join(s, l) \in Text
        BY <2>3, <2>4, <3>2, JoinAlgebra
    <3> QED BY <2>2, <2>5, <3>1, <3>3
  <2>8. Lines(Unread(p)) = Join(LineOf("h"), Lines(Join(s, l))) /\ Lines(Join(s, l)) \in Text
      BY <2>6, <2>7, LinesCons
  <2>9. PICK q : q = Join(Lines(Join(s, l)), e)
      OBVIOUS
  <2>10. q \in Text /\ Join(Lines(Unread(p)), e) = Join(LineOf("h"), q)
    <3>1. LineOf("h") \in Text
        BY <2>6, JoinAlgebra
    <3> QED BY <1>2, <2>8, <2>9, <3>1, JoinAlgebra
  <2>11. Splits(buffer, wire, LineOf("h"), q)
      BY <1>4, <2>10 DEF Splits
  <2>12. Comes(<<"h">>, q)
      BY <2>6, <2>10, <2>11, FrontOfLine DEF Comes, AfterLine
  <2>13. q = Join(Lines(Join(SubSeq(p.headers, Len(currentPkt) + 2, Len(p.headers)),
                             Length(p.body))), Ending(p, after))
      BY <1>1, <2>9 DEF s, l
  <2> QED BY <1>8, <2>1, <2>12, <2>13 DEF AtHeader
<1>9. CASE currentSize = 0 /\ n = Len(h)
  <2>1. currentPkt = h
      BY <1>3, <1>9, SubSeqFull
  <2>2. Unread(p) = Join(<<>>, l)
    <3>1. SubSeq(h, n + 1, Len(h)) = <<>>
        BY <1>3, <1>9, SubSeqEmpty
    <3> QED BY <1>9, <3>1, Zenon DEF Unread, Join
  <2>3. l \in Text
      BY BuildFront
  <2>4. Unread(p) = l
      BY <2>2, <2>3, JoinAlgebra
  <2>5. CASE body = <<>>
    <3>1. l = <<>> /\ Len(body) = 0
        BY <2>5, LengthFacts
    <3> QED BY <1>6, <1>9, <2>1, <2>4, <3>1
  <2>6. CASE body # <<>>
    <3>1. PICK c \in DOMAIN LengthOf : l = <<c>> /\ LengthOf[c] = Len(body)
        BY <2>6, LengthFacts
    <3>2. c \in Chars /\ c \in Chars \ {"lf"}
        BY LengthChars
    <3> HIDE DEF l
    <3>3. l = Join(<<c>>, <<>>) /\ <<>> \in Text
      <4>1. PICK f : f = <<c>>
          OBVIOUS
      <4>2. f \in Text
          BY <3>2, <4>1, JoinAlgebra
      <4>3. Join(f, <<>>) = f
          BY <4>2, ConcatEmptySeq DEF Join, Text
      <4> QED BY <3>1, <4>1, <4>3, JoinAlgebra
    <3>4. Lines(l) = Join(LineOf(c), Lines(<<>>))
        BY <3>2, <3>3, LinesCons
    <3>5. Join(Lines(Unread(p)), e) = Join(LineOf(c), e)
      <4>1. PICK f : f = LineOf(c)
          OBVIOUS
      <4>2. f \in Text /\ <<>> \in Text
          BY <3>2, <4>1, JoinAlgebra
      <4>3. Join(Join(f, <<>>), e) = Join(f, e)
          BY <1>2, <4>2, JoinAlgebra
      <4> QED BY <1>5, <2>4, <3>4, <4>1, <4>3
    <3>6. Splits(buffer, wire, LineOf(c), e)
        BY <1>4, <3>5 DEF Splits
    <3>7. Comes(<<c>>, e)
        BY <1>2, <3>2, <3>6, FrontOfLine DEF Comes, AfterLine
    <3> QED BY <1>1, <1>9, <2>1, <2>6, <3>1, <3>7 DEF AtLength
  <2> QED BY <2>5, <2>6
<1> QED BY <1>3, <1>7, <1>8, <1>9

-----------------------------------------------------------------------------
(* Parsers: the steps *)

\* The sound part of the stream is fixed when it is sent.
LEMMA SentSame == sent' = sent => NbSound' = NbSound
<1> SUFFICES ASSUME sent' = sent PROVE NbSound' = NbSound
    OBVIOUS
<1>1. Sound' = Sound
    BY DEF Sound, SelectInSeq
<1> QED BY <1>1 DEF NbSound

\* The packet that is read, in the sound part of the stream
LEMMA CurrentFacts ==
  ASSUME ParsersInv, Len(parsed) < NbSound
  PROVE  /\ Len(parsed) \in Nat /\ Len(parsed) + 1 \in 1..Len(sent)
         /\ sent[Len(parsed) + 1] \in GTTPackets /\ HasLength(sent[Len(parsed) + 1].body)
         /\ sent[Len(parsed) + 1].headers \in Text /\ sent[Len(parsed) + 1].body \in Text
         /\ sent[Len(parsed) + 1].headers \in Seq({"h", "e"})
         /\ sent[Len(parsed) + 1] = [headers |-> sent[Len(parsed) + 1].headers,
                                     body |-> sent[Len(parsed) + 1].body]
         /\ WellFormed(sent[Len(parsed) + 1])
         /\ Suffix(Len(parsed) + 1) \in Text
         /\ Reading(sent[Len(parsed) + 1], Suffix(Len(parsed) + 1))
<1>1. Len(parsed) \in Nat /\ sent \in Streams
    BY DEF ParsersInv, ParsersOK
<1>2. PICK k : k = Len(parsed) + 1
    OBVIOUS
<1>3. k \in 1..NbSound /\ k \in 1..Len(sent) /\ k \in 0..Len(sent)
    BY <1>1, <1>2, SoundFacts
<1>4. WellFormed(sent[k]) /\ Suffix(k) \in Text
    BY <1>1, <1>3, SoundFacts, SuffixFront
<1>5. /\ sent[k] \in GTTPackets /\ HasLength(sent[k].body)
      /\ sent[k].headers \in Text /\ sent[k].body \in Text
      /\ sent[k].headers \in Seq({"h", "e"})
      /\ sent[k] = [headers |-> sent[k].headers, body |-> sent[k].body]
    BY <1>1, <1>3, PacketFacts
<1>6. Reading(sent[k], Suffix(k))
    BY <1>2 DEF ParsersInv, ReadingOK
<1> QED BY <1>1, <1>2, <1>3, <1>4, <1>5, <1>6

\* A step within a packet
LEMMA StillReading ==
  ASSUME ParsersInv, sent' = sent, parsed' = parsed, ParsersOK', HungryOK',
         Len(parsed) < NbSound, NEW p, NEW after,
         p = sent[Len(parsed) + 1], after = Suffix(Len(parsed) + 1), Reading(p, after)'
  PROVE  ParsersInv'
<1>1. NbSound' = NbSound /\ Suffix(Len(parsed) + 1)' = after
  <2>1. NbSound' = NbSound
      BY SentSame
  <2>2. Suffix(Len(parsed) + 1)' = Suffix(Len(parsed) + 1)
      BY DEF Suffix
  <2> QED BY <2>1, <2>2
<1>2. PrefixOK'
    BY <1>1 DEF ParsersInv, PrefixOK
<1>3. EndOK'
  <2>1. Len(parsed) \in Nat /\ NbSound \in Nat
      BY SoundFacts DEF ParsersInv, ParsersOK
  <2> QED BY <1>1, <2>1 DEF EndOK
<1>4. ReadingOK'
  <2>1. sent'[Len(parsed') + 1] = p
      OBVIOUS
  <2> QED BY <1>1, <2>1 DEF ReadingOK, Reading, Unread
<1> QED BY <1>2, <1>3, <1>4 DEF ParsersInv

\* A step after the sound part of the stream
LEMMA StillLost ==
  ASSUME ParsersInv, sent' = sent, ParsersOK', HungryOK',
         ~(Len(parsed) < NbSound), NbSound # Len(sent),
         parsed' = parsed \/ \E x \in GTTPackets : parsed' = Append(parsed, x)
  PROVE  ParsersInv'
<1>1. Len(parsed) \in Nat /\ NbSound \in Nat /\ parsed \in Seq(GTTPackets)
    BY SoundFacts DEF ParsersInv, ParsersOK
<1>2. NbSound' = NbSound
    BY SentSame
<1>3. /\ Len(parsed') \in Nat /\ Len(parsed') >= Len(parsed)
      /\ \A i \in 1..Len(parsed) : parsed'[i] = parsed[i]
  <2>1. CASE parsed' = parsed
      BY <1>1, <2>1
  <2>2. ASSUME NEW x \in GTTPackets, parsed' = Append(parsed, x) PROVE <1>3
    <3>1. /\ Len(Append(parsed, x)) = Len(parsed) + 1
          /\ \A i \in 1..Len(parsed) : Append(parsed, x)[i] = parsed[i]
        BY <1>1, AppendProperties
    <3> QED BY <1>1, <2>2, <3>1
  <2> QED BY <2>1, <2>2
<1>4. PrefixOK'
  <2> SUFFICES ASSUME NEW i \in 1..Len(parsed'), i <= NbSound PROVE parsed'[i] = sent[i]
      BY <1>2 DEF PrefixOK
  <2>1. i \in 1..Len(parsed)
      BY <1>1, <1>3
  <2>2. parsed[i] = sent[i]
      BY <2>1 DEF ParsersInv, PrefixOK
  <2> QED BY <1>3, <2>1, <2>2
<1>5. ReadingOK' /\ EndOK'
  <2>1. ~(Len(parsed') < NbSound')
      BY <1>1, <1>2, <1>3
  <2> QED BY <1>2, <2>1 DEF ReadingOK, EndOK
<1> QED BY <1>4, <1>5 DEF ParsersInv

\* A line, or data, shows that the stream was not parsed to its end.
LEMMA NotAtEnd ==
  ASSUME ParsersInv, ~(Len(parsed) < NbSound), HasLine \/ wire # <<>> \/ datapos = "content"
  PROVE  NbSound # Len(sent)
<1> SUFFICES ASSUME NbSound = Len(sent) PROVE FALSE
    OBVIOUS
<1>1. Len(parsed) \in Nat /\ NbSound \in Nat
    BY SoundFacts DEF ParsersInv, ParsersOK
<1>2. buffer = <<>> /\ wire = <<>> /\ datapos = "firstLine"
    BY <1>1 DEF ParsersInv, EndOK
<1> QED BY <1>2 DEF HasLine, Contains

\* Where a line ends
LEMMA PopText ==
  ASSUME buffer \in Text, HasLine
  PROVE  EndOfLine \in 1..Len(buffer) /\ AfterLine \in Text
<1> DEFINE I == {i \in 1..Len(buffer) : buffer[i] = "lf"}
<1>1. Len(buffer) \in Nat /\ \A i \in 1..Len(buffer) : buffer[i] \in Chars
    BY DEF Text
<1>2. I \in SUBSET Nat /\ I \subseteq 1..Len(buffer) /\ I # {}
    BY <1>1 DEF HasLine, Contains
<1> HIDE DEF I
<1>3. PICK m \in I : \A i \in I : m <= i
    BY <1>2, LeastNat
<1>4. Min(I) \in I
    BY <1>3 DEF Min
<1>5. EndOfLine \in 1..Len(buffer)
    BY <1>2, <1>4 DEF EndOfLine, I
<1>6. AfterLine \in Text
  <2>1. PICK k \in 1..Len(buffer) : k = EndOfLine
      BY <1>5
  <2>2. k + 1 \in Int /\ Len(buffer) \in Int /\ \A i \in (k + 1)..Len(buffer) : i \in 1..Len(buffer)
      BY <1>1
  <2>3. \A i \in (k + 1)..Len(buffer) : buffer[i] \in Chars
      BY <1>1, <2>2
  <2>4. SubSeq(buffer, k + 1, Len(buffer)) \in Seq(Chars)
      BY <2>2, <2>3, SubSeqProperties
  <2> QED BY <2>1, <2>4 DEF AfterLine, Text
<1> QED BY <1>5, <1>6

\* What arrives is the front of what has not.
LEMMA CutText ==
  ASSUME wire \in Text, buffer \in Text, NEW n \in 1..Len(wire)
  PROVE  /\ Join(buffer, SubSeq(wire, 1, n)) \in Text /\ SubSeq(wire, n + 1, Len(wire)) \in Text
         /\ Join(Join(buffer, SubSeq(wire, 1, n)), SubSeq(wire, n + 1, Len(wire)))
              = Join(buffer, wire)
<1> DEFINE f == SubSeq(wire, 1, n)
<1> DEFINE r == SubSeq(wire, n + 1, Len(wire))
<1>1. Len(wire) \in Nat /\ \A i \in 1..Len(wire) : wire[i] \in Chars
    BY DEF Text
<1>2. f \in Text
  <2>1. \A i \in 1..n : wire[i] \in Chars
    <3>1. \A i \in 1..n : i \in 1..Len(wire)
        BY <1>1
    <3> QED BY <1>1, <3>1
  <2> QED BY <1>1, <2>1, SubSeqProperties DEF Text
<1>3. r \in Text
  <2>1. \A i \in (n + 1)..Len(wire) : wire[i] \in Chars
    <3>1. \A i \in (n + 1)..Len(wire) : i \in 1..Len(wire)
        BY <1>1
    <3> QED BY <1>1, <3>1
  <2> QED BY <1>1, <2>1, SubSeqProperties DEF Text
<1>4. Join(f, r) = wire
  <2>1. /\ 1 \in 1..(Len(wire) + 1) /\ n \in (1 - 1)..Len(wire) /\ Len(wire) \in n..Len(wire)
        /\ wire \in Seq(Chars)
      BY <1>1 DEF Text
  <2>2. SubSeq(wire, 1, n) \o SubSeq(wire, n + 1, Len(wire)) = SubSeq(wire, 1, Len(wire))
      BY <2>1, ConcatAdjacentSubSeq
  <2>3. SubSeq(wire, 1, Len(wire)) = wire
      BY <2>1, SubSeqFull
  <2> QED BY <2>2, <2>3, Zenon DEF Join
<1> HIDE DEF f, r
<1>5. Join(buffer, f) \in Text /\ Join(Join(buffer, f), r) = Join(buffer, Join(f, r))
    BY <1>2, <1>3, JoinAlgebra
<1> QED BY <1>3, <1>4, <1>5 DEF f, r

\* A chunk arrives: the stream is where it was.
LEMMA EatInv ==
  ASSUME NEW n \in 1..Len(wire)
  PROVE  ParsersInv /\ Eat(n) => ParsersInv'
<1> SUFFICES ASSUME ParsersInv, Eat(n) PROVE ParsersInv'
    OBVIOUS
<1>1. /\ sent' = sent /\ parsed' = parsed /\ datapos' = datapos /\ currentPkt' = currentPkt
      /\ currentSize' = currentSize /\ eating'
      /\ buffer' = Join(buffer, SubSeq(wire, 1, n)) /\ wire' = SubSeq(wire, n + 1, Len(wire))
    BY Zenon DEF Eat, Join
<1>2. wire \in Text /\ buffer \in Text
    BY DEF ParsersInv, ParsersOK, Text
<1>3. buffer' \in Text /\ wire' \in Text /\ Join(buffer', wire') = Join(buffer, wire)
    BY <1>1, <1>2, CutText
<1>4. ParsersOK' /\ HungryOK'
    BY <1>1, <1>3 DEF ParsersInv, ParsersOK, HungryOK, Text
<1>5. CASE Len(parsed) < NbSound
  <2>1. PICK p, after : p = sent[Len(parsed) + 1] /\ after = Suffix(Len(parsed) + 1)
      OBVIOUS
  <2>2. Reading(p, after)
      BY <1>5, <2>1, CurrentFacts
  <2>3. buffer' \o wire' = buffer \o wire
      BY <1>3 DEF Join
  <2>4. Reading(p, after)'
      BY <1>1, <2>2, <2>3, Zenon DEF Reading, Unread
  <2> QED BY <1>1, <1>4, <1>5, <2>1, <2>4, StillReading
<1>6. CASE ~(Len(parsed) < NbSound)
  <2>1. wire # <<>>
      BY <1>2 DEF Text
  <2> QED BY <1>1, <1>4, <1>6, <2>1, NotAtEnd, StillLost
<1> QED BY <1>5, <1>6

\* Nothing can be parsed: the loop stops until a chunk comes.
LEMMA StarveInv == ParsersInv /\ Starve => ParsersInv'
<1> SUFFICES ASSUME ParsersInv, Starve PROVE ParsersInv'
    OBVIOUS
<1>1. UNCHANGED <<sent, wire, buffer, datapos, currentPkt, currentSize, parsed>>
    BY DEF Starve
<1>2. ParsersOK'
    BY <1>1 DEF ParsersInv, ParsersOK
<1>3. HungryOK'
    BY <1>1, Zenon DEF Starve, HungryOK, HasData, HasLine
<1>4. NbSound' = NbSound
    BY <1>1, SentSame
<1>5. CASE Len(parsed) < NbSound
  <2>1. PICK p, after : p = sent[Len(parsed) + 1] /\ after = Suffix(Len(parsed) + 1)
      OBVIOUS
  <2>2. Reading(p, after)
      BY <1>5, <2>1, CurrentFacts
  <2>3. Reading(p, after)'
      BY <1>1, <2>2, Zenon DEF Reading, Unread
  <2> QED BY <1>1, <1>2, <1>3, <1>5, <2>1, <2>3, StillReading
<1>6. CASE ~(Len(parsed) < NbSound)
    BY <1>1, <1>2, <1>3, <1>4, <1>6
       DEF ParsersInv, PrefixOK, ReadingOK, EndOK
<1> QED BY <1>5, <1>6

\* The parser is between packets, at the start of one.
LEMMA FirstLine ==
  ASSUME buffer \in Text, wire \in Text, HasLine, datapos = "firstLine",
         NEW after \in Text, NEW p, NEW h, NEW body, p.headers = h, p.body = body,
         h \in Text, body \in Text, HasLength(body), Reading(p, after)
  PROVE  /\ currentPkt = <<>> /\ currentSize = 0
         /\ Comes(<<"F">>, Join(Lines(Join(h, Length(body))), Join(Crlf, Join(body, after))))
<1>1. currentPkt = <<>> /\ currentSize = 0 /\ Join(buffer, wire) = Join(Build(p), after)
    BY Zenon DEF Reading, Join
<1>2. PICK l : l = Lines(Join(h, Length(body)))
    OBVIOUS
<1>3. "F" \in Chars /\ "F" \in Chars \ {"lf"}
    BY DEF Chars
<1>4. PICK f : f = LineOf("F")
    OBVIOUS
<1>5. Build(p) = Join(f, Join(l, Join(Crlf, body)))
    BY <1>2, <1>4, BuildFront
<1>6. f \in Text /\ l \in Text /\ Crlf \in Text
  <2>1. Join(h, Length(body)) \in Text
      BY BuildFront
  <2>2. l \in Text
      BY <1>2, <2>1, LinesFront
  <2> QED BY <1>3, <1>4, <2>2, JoinAlgebra
<1>7. PICK c : c = Crlf
    OBVIOUS
<1>8. c \in Text /\ Join(c, body) \in Text /\ Join(body, after) \in Text
      /\ Join(c, Join(body, after)) \in Text /\ Join(l, Join(c, body)) \in Text
    BY <1>6, <1>7, JoinAlgebra
<1>9. /\ Join(Join(c, body), after) = Join(c, Join(body, after))
      /\ Join(Join(l, Join(c, body)), after) = Join(l, Join(Join(c, body), after))
      /\ Join(Join(f, Join(l, Join(c, body))), after) = Join(f, Join(Join(l, Join(c, body)), after))
    BY <1>6, <1>8, JoinAlgebra
<1>10. PICK q : q = Join(l, Join(c, Join(body, after)))
    OBVIOUS
<1>11. q \in Text
    BY <1>6, <1>8, <1>10, JoinAlgebra
<1>12. Join(buffer, wire) = Join(f, q)
    BY <1>1, <1>5, <1>7, <1>9, <1>10
<1>13. Splits(buffer, wire, LineOf("F"), q)
    BY <1>4, <1>12 DEF Splits
<1>14. Comes(<<"F">>, q)
    BY <1>3, <1>11, <1>13, FrontOfLine DEF Comes, AfterLine
<1> QED BY <1>1, <1>2, <1>7, <1>10, <1>14

\* The first line is read.
LEMMA ParseFirstLineInv == ParsersInv /\ ParseFirstLine => ParsersInv'
<1> SUFFICES ASSUME ParsersInv, ParseFirstLine PROVE ParsersInv'
    OBVIOUS
<1>1. /\ sent' = sent /\ parsed' = parsed /\ wire' = wire /\ datapos' = "headers"
      /\ currentPkt' = currentPkt /\ currentSize' = 0 /\ eating' /\ buffer' = AfterLine
      /\ HasLine /\ datapos = "firstLine"
    BY Zenon DEF ParseFirstLine, Within, PopLine, AfterLine
<1>2. wire \in Text /\ buffer \in Text /\ currentPkt \in Seq({"h", "e"})
    BY DEF ParsersInv, ParsersOK, Text
<1>3. buffer' \in Text
    BY <1>1, <1>2, PopText
<1>4. ParsersOK' /\ HungryOK'
    BY <1>1, <1>3 DEF ParsersInv, ParsersOK, HungryOK, Text
<1>5. CASE Len(parsed) < NbSound
  <2>1. PICK p, after, h, body :
           /\ p = sent[Len(parsed) + 1] /\ after = Suffix(Len(parsed) + 1)
           /\ h = p.headers /\ body = p.body
      OBVIOUS
  <2>2. /\ Reading(p, after) /\ after \in Text /\ h \in Text /\ body \in Text
        /\ HasLength(body) /\ h \in Seq({"h", "e"})
      BY <1>5, <2>1, CurrentFacts
  <2>3. /\ currentPkt = <<>> /\ currentSize = 0
        /\ Comes(<<"F">>, Join(Lines(Join(h, Length(body))), Join(Crlf, Join(body, after))))
      BY <1>1, <1>2, <2>1, <2>2, FirstLine
  <2>4. Join(buffer', wire') = Join(Lines(Join(h, Length(body))), Join(Crlf, Join(body, after)))
      BY <1>1, <2>3 DEF Comes
  <2>5. Unread(p)' = Join(h, Length(body))
    <3>1. SubSeq(h, 1, Len(h)) = h
        BY <2>2, SubSeqFull
    <3>2. Unread(p)' = SubSeq(h, 1, Len(h)) \o Length(body)
      <4>1. Len(currentPkt') = 0
          BY <1>1, <2>3
      <4>2. Len(currentPkt') + 1 = 1
          BY <4>1
      <4> QED BY <1>1, <2>1, <4>2 DEF Unread
    <3> QED BY <3>1, <3>2, Zenon DEF Join
  <2>6. Join(buffer', wire') = Join(Lines(Unread(p)'), Join(Crlf, Join(p.body, after)))
      BY <2>1, <2>4, <2>5
  <2>7. buffer' \o wire' = Lines(Unread(p)') \o (Crlf \o (p.body \o after))
      BY <2>6, Zenon DEF Join
  <2>8. /\ Len(currentPkt') <= Len(p.headers)
        /\ currentPkt' = SubSeq(p.headers, 1, Len(currentPkt'))
    <3>1. Len(<<>>) = 0 /\ Len(h) \in Nat /\ SubSeq(h, 1, 0) = <<>>
        BY <2>2, SubSeqEmpty
    <3> QED BY <1>1, <2>1, <2>3, <3>1
  <2>9. Reading(p, after)'
      BY <1>1, <2>7, <2>8 DEF Reading
  <2> QED BY <1>1, <1>4, <1>5, <2>1, <2>9, StillReading
<1>6. CASE ~(Len(parsed) < NbSound)
    BY <1>1, <1>4, <1>6, NotAtEnd, StillLost
<1> QED BY <1>5, <1>6

\* A line of the headers of a sound packet
LEMMA ReadingHeaders ==
  ASSUME ParsersInv, Len(parsed) < NbSound, HasLine, datapos = "headers",
         NEW p, NEW after, p = sent[Len(parsed) + 1], after = Suffix(Len(parsed) + 1)
  PROVE  AtHeader(p, after) \/ AtLength(p, after) \/ AtEnd(p, after)
<1>1. PICK h, body : h = p.headers /\ body = p.body
    OBVIOUS
<1>2. /\ Reading(p, after) /\ after \in Text /\ h \in Text /\ body \in Text
      /\ HasLength(body) /\ h \in Seq({"h", "e"}) /\ WellFormed(p)
    BY <1>1, CurrentFacts
<1>3. /\ buffer \in Text /\ wire \in Text /\ currentSize \in Nat
      /\ currentPkt \in Seq({"h", "e"})
    BY DEF ParsersInv, ParsersOK, Text
<1> QED BY <1>1, <1>2, <1>3, HeaderLine

\* A header is read.
LEMMA ParseHeaderInv == ParsersInv /\ ParseHeader => ParsersInv'
<1> SUFFICES ASSUME ParsersInv, ParseHeader PROVE ParsersInv'
    OBVIOUS
<1>1. /\ sent' = sent /\ parsed' = parsed /\ wire' = wire /\ datapos' = "headers"
      /\ currentPkt' = Append(currentPkt, "h") /\ currentSize' = currentSize
      /\ eating' /\ buffer' = AfterLine
      /\ HasLine /\ datapos = "headers" /\ FrontLine = <<"h">>
    BY Zenon DEF ParseHeader, Within, PopLine, AfterLine
<1>2. wire \in Text /\ buffer \in Text /\ currentPkt \in Seq({"h", "e"})
    BY DEF ParsersInv, ParsersOK, Text
<1>3. buffer' \in Text
    BY <1>1, <1>2, PopText
<1>4. ParsersOK' /\ HungryOK'
  <2>1. currentPkt' \in Seq({"h", "e"})
      BY <1>1, <1>2
  <2> QED BY <1>1, <1>3, <2>1 DEF ParsersInv, ParsersOK, HungryOK, Text
<1>5. CASE Len(parsed) < NbSound
  <2>1. PICK p, after : p = sent[Len(parsed) + 1] /\ after = Suffix(Len(parsed) + 1)
      OBVIOUS
  <2>2. PICK h, n, body : h = p.headers /\ n = Len(currentPkt) /\ body = p.body
      OBVIOUS
  <2>3. h \in Seq({"h", "e"}) /\ n \in Nat /\ Len(h) \in Nat /\ Reading(p, after)
      BY <1>2, <1>5, <2>1, <2>2, CurrentFacts
  <2>4. AtHeader(p, after)
    <3>1. ~AtLength(p, after)
      <4>1. SUFFICES ASSUME NEW c \in DOMAIN LengthOf, Comes(<<c>>, Ending(p, after)) PROVE FALSE
          BY DEF AtLength
      <4> QED BY <1>1, <4>1, LengthChars DEF Comes
    <3>2. ~AtEnd(p, after)
        BY <1>1 DEF AtEnd, Comes
    <3> QED BY <1>1, <1>5, <2>1, <3>1, <3>2, ReadingHeaders
  <2>5. /\ currentSize = 0 /\ n < Len(h) /\ h[n + 1] = "h"
        /\ Join(AfterLine, wire)
             = Join(Lines(Join(SubSeq(h, n + 2, Len(h)), Length(body))),
                    Join(Crlf, Join(p.body, after)))
      BY <2>2, <2>4 DEF AtHeader, Comes, Ending
  <2>6. Len(currentPkt') = n + 1
      BY <1>1, <1>2, <2>2
  <2>7. currentPkt' = SubSeq(h, 1, n + 1)
    <3>1. currentPkt = SubSeq(h, 1, n)
        BY <1>1, <2>2, <2>3 DEF Reading
    <3>2. 1 \in 1..Len(h) /\ n + 1 \in 1..Len(h) /\ (n + 1) - 1 = n
        BY <2>3, <2>5
    <3>3. SubSeq(h, 1, n + 1) = SubSeq(h, 1, (n + 1) - 1) \o <<h[n + 1]>>
        BY <2>3, <3>2, SubSeqRecursiveSecond
    <3>4. SubSeq(h, 1, n + 1) = currentPkt \o <<"h">>
        BY <2>5, <3>1, <3>2, <3>3
    <3>5. "h" \in {"h", "e"}
        OBVIOUS
    <3>6. Append(currentPkt, "h") = currentPkt \o <<"h">>
        BY <1>2, <3>5, AppendIsConcat
    <3> QED BY <1>1, <3>4, <3>6
  <2>8. Unread(p)' = Join(SubSeq(h, n + 2, Len(h)), Length(body))
    <3>1. Len(currentPkt') + 1 = n + 2
        BY <2>3, <2>6
    <3> QED BY <1>1, <2>2, <2>5, <3>1 DEF Unread, Join
  <2>9. Join(buffer', wire') = Join(Lines(Unread(p)'), Join(Crlf, Join(p.body, after)))
      BY <1>1, <2>5, <2>8
  <2>10. buffer' \o wire' = Lines(Unread(p)') \o (Crlf \o (p.body \o after))
      BY <2>9, Zenon DEF Join
  <2>11. /\ Len(currentPkt') <= Len(p.headers)
         /\ currentPkt' = SubSeq(p.headers, 1, Len(currentPkt'))
      BY <2>2, <2>3, <2>5, <2>6, <2>7
  <2>12. currentSize' = 0
      BY <1>1, <2>5
  <2>13. Reading(p, after)'
      BY <1>1, <2>10, <2>11, <2>12 DEF Reading
  <2> QED BY <1>1, <1>4, <1>5, <2>1, <2>13, StillReading
<1>6. CASE ~(Len(parsed) < NbSound)
    BY <1>1, <1>4, <1>6, NotAtEnd, StillLost
<1> QED BY <1>5, <1>6

\* The length is read.
LEMMA ParseLengthInv == ParsersInv /\ ParseLength => ParsersInv'
<1> SUFFICES ASSUME ParsersInv, ParseLength PROVE ParsersInv'
    OBVIOUS
<1>1. /\ sent' = sent /\ parsed' = parsed /\ wire' = wire /\ datapos' = "headers"
      /\ currentPkt' = currentPkt /\ currentSize' = LengthOf[FrontLine[1]]
      /\ eating' /\ buffer' = AfterLine
      /\ HasLine /\ datapos = "headers" /\ currentSize = 0
    BY Zenon DEF ParseLength, ValidLength, Within, PopLine, AfterLine
<1>0. PICK d \in DOMAIN LengthOf : FrontLine = <<d>>
    BY DEF ParseLength, ValidLength
<1>2. wire \in Text /\ buffer \in Text /\ currentPkt \in Seq({"h", "e"})
    BY DEF ParsersInv, ParsersOK, Text
<1>3. buffer' \in Text
    BY <1>1, <1>2, PopText
<1>4. ParsersOK' /\ HungryOK'
  <2>1. currentSize' = LengthOf[d] /\ currentSize' \in Nat
      BY <1>0, <1>1, LengthChars
  <2> QED BY <1>1, <1>3, <2>1 DEF ParsersInv, ParsersOK, HungryOK, Text
<1>5. CASE Len(parsed) < NbSound
  <2>1. PICK p, after : p = sent[Len(parsed) + 1] /\ after = Suffix(Len(parsed) + 1)
      OBVIOUS
  <2>2. PICK h, body : h = p.headers /\ body = p.body
      OBVIOUS
  <2>3. /\ h \in Seq({"h", "e"}) /\ h \in Text /\ body \in Text /\ after \in Text
        /\ Len(h) \in Nat
      BY <1>5, <2>1, <2>2, CurrentFacts
  <2>4. AtLength(p, after)
    <3>1. ~AtHeader(p, after)
        BY <1>0, LengthChars DEF AtHeader, Comes
    <3>2. ~AtEnd(p, after)
        BY <1>0 DEF AtEnd, Comes
    <3> QED BY <1>1, <1>5, <2>1, <3>1, <3>2, ReadingHeaders
  <2>5. /\ currentPkt = h /\ currentSize' = Len(body) /\ body # <<>>
        /\ Join(AfterLine, wire) = Ending(p, after)
    <3>1. PICK c \in DOMAIN LengthOf : LengthOf[c] = Len(body) /\ Comes(<<c>>, Ending(p, after))
        BY <2>2, <2>4 DEF AtLength
    <3>2. FrontLine[1] = c /\ Join(AfterLine, wire) = Ending(p, after)
        BY <3>1 DEF Comes
    <3> QED BY <1>1, <2>2, <2>4, <3>1, <3>2 DEF AtLength
  <2>6. currentSize' # 0
      BY <1>0, <1>1, LengthChars
  <2>7. Lines(Unread(p)') = <<>>
    <3>1. Unread(p)' = <<>>
        BY <2>6 DEF Unread
    <3>2. <<>> \in Text
        BY JoinAlgebra
    <3>3. Lines(<<>>) = <<>>
        BY <3>2, LinesFront
    <3> QED BY <3>1, <3>3
  <2>8. Join(buffer', wire') = Join(Lines(Unread(p)'), Join(Crlf, Join(p.body, after)))
    <3>1. Ending(p, after) \in Text
        BY <2>2, <2>3, JoinAlgebra DEF Ending
    <3>2. Join(<<>>, Ending(p, after)) = Ending(p, after)
        BY <3>1, JoinAlgebra
    <3>3. Join(buffer', wire') = Join(<<>>, Ending(p, after))
        BY <1>1, <2>5, <3>2
    <3> QED BY <2>7, <3>3 DEF Ending
  <2>9. buffer' \o wire' = Lines(Unread(p)') \o (Crlf \o (p.body \o after))
      BY <2>8, Zenon DEF Join
  <2>10. /\ Len(currentPkt') <= Len(p.headers)
         /\ currentPkt' = SubSeq(p.headers, 1, Len(currentPkt'))
      BY <1>1, <2>2, <2>3, <2>5, SubSeqFull
  <2>11. Reading(p, after)'
      BY <1>1, <2>2, <2>5, <2>9, <2>10 DEF Reading
  <2> QED BY <1>1, <1>4, <1>5, <2>1, <2>11, StillReading
<1>6. CASE ~(Len(parsed) < NbSound)
    BY <1>1, <1>4, <1>6, NotAtEnd, StillLost
<1> QED BY <1>5, <1>6

\* The empty line is read.
LEMMA EndHeadersInv == ParsersInv /\ EndHeaders => ParsersInv'
<1> SUFFICES ASSUME ParsersInv, EndHeaders PROVE ParsersInv'
    OBVIOUS
<1>1. /\ sent' = sent /\ parsed' = parsed /\ wire' = wire /\ datapos' = "content"
      /\ currentPkt' = currentPkt /\ currentSize' = currentSize
      /\ eating' /\ buffer' = AfterLine
      /\ HasLine /\ datapos = "headers" /\ FrontLine = <<>>
    BY Zenon DEF EndHeaders, Within, PopLine, AfterLine
<1>2. wire \in Text /\ buffer \in Text /\ currentPkt \in Seq({"h", "e"})
    BY DEF ParsersInv, ParsersOK, Text
<1>3. buffer' \in Text
    BY <1>1, <1>2, PopText
<1>4. ParsersOK' /\ HungryOK'
    BY <1>1, <1>3 DEF ParsersInv, ParsersOK, HungryOK, Text
<1>5. CASE Len(parsed) < NbSound
  <2>1. PICK p, after : p = sent[Len(parsed) + 1] /\ after = Suffix(Len(parsed) + 1)
      OBVIOUS
  <2>2. AtEnd(p, after)
    <3>1. ~AtHeader(p, after)
        BY <1>1 DEF AtHeader, Comes
    <3>2. ~AtLength(p, after)
      <4>1. SUFFICES ASSUME NEW c \in DOMAIN LengthOf, Comes(<<c>>, Ending(p, after)) PROVE FALSE
          BY DEF AtLength
      <4> QED BY <1>1, <4>1 DEF Comes
    <3> QED BY <1>1, <1>5, <2>1, <3>1, <3>2, ReadingHeaders
  <2>3. /\ currentPkt = p.headers /\ currentSize = Len(p.body)
        /\ Join(AfterLine, wire) = Join(p.body, after)
      BY <2>2 DEF AtEnd, Comes
  <2>4. buffer' \o wire' = p.body \o after
    <3>1. Join(buffer', wire') = Join(p.body, after)
        BY <1>1, <2>3
    <3> QED BY <3>1, Zenon DEF Join
  <2>5. Reading(p, after)'
      BY <1>1, <2>3, <2>4 DEF Reading
  <2> QED BY <1>1, <1>4, <1>5, <2>1, <2>5, StillReading
<1>6. CASE ~(Len(parsed) < NbSound)
    BY <1>1, <1>4, <1>6, NotAtEnd, StillLost
<1> QED BY <1>5, <1>6

\* Nothing is rejected in the sound part of the stream.
LEMMA RejectInv == ParsersInv /\ Reject => ParsersInv'
<1> SUFFICES ASSUME ParsersInv, Reject PROVE ParsersInv'
    OBVIOUS
<1>1. /\ sent' = sent /\ parsed' = parsed /\ wire' = wire /\ datapos' = "firstLine"
      /\ currentPkt' = <<>> /\ currentSize' = 0 /\ buffer' = <<>> /\ HasLine
    BY DEF Reject, StartPacket
<1>2. ParsersOK' /\ HungryOK'
  <2>1. ~HasLine'
      BY <1>1 DEF HasLine, Contains
  <2> QED BY <1>1, <2>1 DEF ParsersInv, ParsersOK, HungryOK
<1>3. CASE Len(parsed) < NbSound
  <2>1. PICK p, after : p = sent[Len(parsed) + 1] /\ after = Suffix(Len(parsed) + 1)
      OBVIOUS
  <2>2. PICK h, body : h = p.headers /\ body = p.body
      OBVIOUS
  <2>3. /\ Reading(p, after) /\ after \in Text /\ h \in Text /\ body \in Text
        /\ HasLength(body)
      BY <1>3, <2>1, <2>2, CurrentFacts
  <2>4. wire \in Text /\ buffer \in Text
      BY DEF ParsersInv, ParsersOK, Text
  <2>5. datapos = "firstLine" => ValidFirst
      BY <1>1, <2>2, <2>3, <2>4, FirstLine DEF Comes, ValidFirst
  <2>6. datapos = "headers" => FrontLine \in {<<>>, <<"h">>} \/ ValidLength
    <3>1. SUFFICES ASSUME datapos = "headers" PROVE FrontLine \in {<<>>, <<"h">>} \/ ValidLength
        OBVIOUS
    <3>2. AtHeader(p, after) \/ AtLength(p, after) \/ AtEnd(p, after)
        BY <1>1, <1>3, <2>1, <3>1, ReadingHeaders
    <3>3. AtHeader(p, after) \/ AtEnd(p, after) => FrontLine \in {<<>>, <<"h">>}
        BY DEF AtHeader, AtEnd, Comes
    <3>4. AtLength(p, after) => ValidLength
      <4>2. SUFFICES ASSUME AtLength(p, after) PROVE ValidLength
          OBVIOUS
      <4>3. PICK c \in DOMAIN LengthOf : Comes(<<c>>, Ending(p, after))
          BY <4>2 DEF AtLength
      <4>4. currentSize = 0 /\ FrontLine = <<c>>
          BY <4>2, <4>3 DEF AtLength, Comes
      <4> QED BY <4>4 DEF ValidLength
    <3> QED BY <3>2, <3>3, <3>4
  <2> QED BY <2>5, <2>6, Zenon DEF Reject
<1>4. CASE ~(Len(parsed) < NbSound)
    BY <1>1, <1>2, <1>4, NotAtEnd, StillLost
<1> QED BY <1>3, <1>4

\* Nothing concatenates to nothing but nothing.
LEMMA JoinEmpty ==
  ASSUME NEW x \in Text, NEW y \in Text, Join(x, y) = <<>>
  PROVE  x = <<>> /\ y = <<>>
<1>1. Len(Join(x, y)) = Len(x) + Len(y) /\ Len(Join(x, y)) = 0
    BY JoinFacts
<1>2. Len(x) \in Nat /\ Len(y) \in Nat
    BY DEF Text
<1>3. Len(x) = 0 /\ Len(y) = 0
    BY <1>1, <1>2
<1> QED BY <1>3 DEF Text

\* The parser is between two packets of the sound start.
Between ==
  /\ ParsersOK /\ currentPkt = <<>> /\ currentSize = 0 /\ datapos = "firstLine"
  /\ Len(parsed) <= NbSound /\ Join(buffer, wire) = Suffix(Len(parsed))

\* Between two packets the next one is where its first line is, if there is one.
LEMMA NextPacket == Between => ReadingOK /\ EndOK
<1> SUFFICES ASSUME Between PROVE ReadingOK /\ EndOK
    OBVIOUS
<1>0. PICK k : k = Len(parsed)
    OBVIOUS
<1>4. /\ ParsersOK /\ currentPkt = <<>> /\ currentSize = 0 /\ datapos = "firstLine"
      /\ k <= NbSound /\ Join(buffer, wire) = Suffix(k)
    BY <1>0 DEF Between
<1>1. /\ buffer \in Text /\ wire \in Text /\ sent \in Streams /\ k \in Nat
      /\ Len(sent) \in Nat /\ NbSound \in 0..Len(sent)
    BY <1>0, <1>4, SoundFacts DEF ParsersOK, Text
<1>2. ReadingOK
  <2>1. SUFFICES ASSUME k < NbSound PROVE Reading(sent[Len(parsed) + 1], Suffix(Len(parsed) + 1))
      BY <1>0 DEF ReadingOK
  <2>2. k \in 0..(Len(sent) - 1)
      BY <1>1, <2>1
  <2>3. Join(buffer, wire) = Join(Build(sent[k + 1]), Suffix(k + 1))
      BY <1>1, <1>4, <2>2, SuffixFront
  <2>4. buffer \o wire = Build(sent[Len(parsed) + 1]) \o Suffix(Len(parsed) + 1)
      BY <1>0, <2>3, Zenon DEF Join
  <2> QED BY <1>4, <2>4 DEF Reading
<1>3. EndOK
  <2>1. ASSUME NbSound = Len(sent), k = NbSound PROVE buffer = <<>> /\ wire = <<>>
    <3>1. Suffix(k) = <<>>
        BY <1>1, <2>1, SuffixFront
    <3> QED BY <1>1, <1>4, <3>1, JoinEmpty
  <2> QED BY <1>0, <1>4, <2>1 DEF EndOK
<1> QED BY <1>2, <1>3

\* Nothing of the stream has come.
LEMMA ParsersInitInv == ParsersInit => ParsersInv
<1> SUFFICES ASSUME ParsersInit PROVE ParsersInv
    OBVIOUS
<1>1. /\ sent \in Streams /\ buffer = <<>> /\ datapos = "firstLine" /\ currentPkt = <<>>
      /\ currentSize = 0 /\ eating = FALSE /\ parsed = <<>>
    BY DEF ParsersInit
<1>2. Len(sent) \in Nat /\ NbSound \in 0..Len(sent)
    BY <1>1, SoundFacts
<1>3. wire = Suffix(0)
  <2>1. [j \in 1..(Len(sent) - 0) |-> Build(sent[0 + j])] = [i \in 1..Len(sent) |-> Build(sent[i])]
    <3>1. Len(sent) - 0 = Len(sent) /\ \A j \in 1..Len(sent) : 0 + j = j
        BY <1>2
    <3> QED BY <3>1
  <2> QED BY <2>1 DEF Suffix, ParsersInit
<1>4. wire \in Text
    BY <1>1, <1>2, <1>3, SuffixFront
<1>5. ParsersOK
    BY <1>1, <1>4 DEF ParsersOK, Text
<1>6. ReadingOK /\ EndOK
  <2>1. Join(buffer, wire) = wire
      BY <1>1, <1>4, JoinAlgebra
  <2>2. 0 = Len(parsed) /\ 0 <= NbSound
      BY <1>1, <1>2
  <2> QED BY <1>1, <1>3, <1>5, <2>1, <2>2, NextPacket DEF Between
<1>7. PrefixOK
  <2>1. Len(parsed) = 0 /\ \A i \in 1..0 : FALSE
      BY <1>1
  <2> QED BY <2>1 DEF PrefixOK
<1>8. HungryOK
  <2>1. Len(buffer) = 0 /\ \A i \in 1..0 : FALSE
      BY <1>1
  <2> QED BY <1>1, <2>1 DEF HungryOK, HasLine, Contains
<1> QED BY <1>5, <1>6, <1>7, <1>8 DEF ParsersInv

\* A body is read, and the packet is out.
LEMMA ParseContentInv == ParsersInv /\ ParseContent => ParsersInv'
<1> SUFFICES ASSUME ParsersInv, ParseContent PROVE ParsersInv'
    OBVIOUS
<1> DEFINE q == [headers |-> currentPkt, body |-> SubSeq(buffer, 1, currentSize)]
<1>1. /\ sent' = sent /\ wire' = wire /\ datapos' = "firstLine" /\ currentPkt' = <<>>
      /\ currentSize' = 0 /\ eating' = eating /\ eating
      /\ buffer' = SubSeq(buffer, currentSize + 1, Len(buffer)) /\ parsed' = Append(parsed, q)
      /\ datapos = "content" /\ Len(buffer) >= currentSize
    BY DEF ParseContent, Within, StartPacket, HasData
<1>2. /\ wire \in Text /\ buffer \in Text /\ currentPkt \in Seq({"h", "e"})
      /\ currentSize \in Nat /\ parsed \in Seq(GTTPackets) /\ Len(parsed) \in Nat
      /\ Len(buffer) \in Nat
    BY DEF ParsersInv, ParsersOK, Text
<1>3. buffer' \in Text /\ q \in GTTPackets
  <2>1. PICK k \in Nat : k = currentSize
      BY <1>2
  <2>2. \A i \in 1..k : i \in 1..Len(buffer)
      BY <1>1, <1>2, <2>1
  <2>3. \A i \in (k + 1)..Len(buffer) : i \in 1..Len(buffer)
      BY <1>2
  <2>4. \A i \in 1..Len(buffer) : buffer[i] \in Chars
      BY <1>2 DEF Text
  <2>5. SubSeq(buffer, 1, k) \in Seq(Chars)
    <3>1. \A i \in 1..k : buffer[i] \in Chars
        BY <2>2, <2>4
    <3> QED BY <3>1, SubSeqProperties
  <2>6. SubSeq(buffer, k + 1, Len(buffer)) \in Seq(Chars)
    <3>1. \A i \in (k + 1)..Len(buffer) : buffer[i] \in Chars
        BY <2>3, <2>4
    <3> QED BY <1>2, <3>1, SubSeqProperties
  <2> QED BY <1>1, <1>2, <2>1, <2>5, <2>6 DEF GTTPackets, Text
<1>4. ParsersOK' /\ HungryOK'
  <2>1. parsed' \in Seq(GTTPackets)
      BY <1>1, <1>2, <1>3, AppendProperties
  <2> QED BY <1>1, <1>2, <1>3, <2>1 DEF ParsersInv, ParsersOK, HungryOK, Text
<1>5. CASE Len(parsed) < NbSound
  <2>1. PICK p, after, h, body, k :
           /\ p = sent[Len(parsed) + 1] /\ after = Suffix(Len(parsed) + 1)
           /\ h = p.headers /\ body = p.body /\ k = Len(parsed) + 1
      OBVIOUS
  <2>2. /\ Reading(p, after) /\ after \in Text /\ body \in Text
        /\ p = [headers |-> h, body |-> body] /\ k \in Nat
      BY <1>5, <2>1, CurrentFacts
  <2>3. currentPkt = h /\ currentSize = Len(body) /\ Splits(buffer, wire, body, after)
    <3>1. currentPkt = h /\ currentSize = Len(body) /\ buffer \o wire = body \o after
        BY <1>1, <2>1, <2>2 DEF Reading
    <3> QED BY <3>1, Zenon DEF Splits, Join
  <2>4. Len(body) <= Len(buffer)
      BY <1>1, <1>2, <2>3
  <2>5. /\ SubSeq(buffer, 1, Len(body)) = body
        /\ Join(SubSeq(buffer, Len(body) + 1, Len(buffer)), wire) = after
      BY <1>2, <2>2, <2>3, <2>4, TakeFront
  <2>6. q = p /\ Join(buffer', wire') = after
      BY <1>1, <2>2, <2>3, <2>5
  <2> HIDE DEF q
  <2>7. NbSound' = NbSound
      BY <1>1, SentSame
  <2>8. /\ Len(parsed') = k /\ parsed'[k] = p
        /\ \A i \in 1..Len(parsed) : parsed'[i] = parsed[i]
      BY <1>1, <1>2, <1>3, <2>1, <2>6, AppendProperties
  <2>9. k <= NbSound
    <3>1. NbSound \in Nat
        BY SoundFacts DEF ParsersInv, ParsersOK
    <3> QED BY <1>2, <1>5, <2>1, <3>1
  <2>10. PrefixOK'
    <3> SUFFICES ASSUME NEW i \in 1..Len(parsed'), i <= NbSound PROVE parsed'[i] = sent[i]
        BY <1>1, <2>7 DEF PrefixOK
    <3>1. i \in 1..Len(parsed) \/ i = k
        BY <1>2, <2>1, <2>8
    <3>2. CASE i \in 1..Len(parsed)
        BY <2>8, <3>2 DEF ParsersInv, PrefixOK
    <3>3. CASE i = k
        BY <2>1, <2>8, <3>3
    <3> QED BY <3>1, <3>2, <3>3
  <2>11. Suffix(Len(parsed))' = after
      BY <1>1, <2>1, <2>8 DEF Suffix
  <2>12. ReadingOK' /\ EndOK'
    <3>1. Between'
        BY <1>1, <1>4, <2>6, <2>7, <2>8, <2>9, <2>11 DEF Between
    <3> QED BY <3>1, NextPacket, PTL
  <2> QED BY <1>4, <2>10, <2>12 DEF ParsersInv
<1>6. CASE ~(Len(parsed) < NbSound)
    BY <1>1, <1>3, <1>4, <1>6, NotAtEnd, StillLost
<1> QED BY <1>5, <1>6

\* A text with an end of line has a line.
LEMMA LineWithin ==
  ASSUME NEW x \in Text, NEW y \in Text
  PROVE  Contains(Join(x, Join(Crlf, y)), "lf")
<1>1. PICK c : c = Crlf
    OBVIOUS
<1>2. c \in Text /\ Len(c) = 2 /\ c[2] = "lf"
    BY <1>1, JoinAlgebra DEF Crlf
<1>3. PICK s : s = Join(c, y)
    OBVIOUS
<1>4. s \in Text /\ Len(s) = 2 + Len(y) /\ s[2] = "lf"
  <2>1. /\ Join(c, y) \in Text /\ Len(Join(c, y)) = Len(c) + Len(y)
        /\ \A i \in 1..Len(c) : Join(c, y)[i] = c[i]
      BY <1>2, JoinFacts
  <2>2. 2 \in 1..2
      OBVIOUS
  <2> QED BY <1>2, <1>3, <2>1, <2>2
<1>5. Len(x) \in Nat /\ Len(y) \in Nat
    BY DEF Text
<1>6. PICK t : t = Join(x, s)
    OBVIOUS
<1>7. Len(t) = Len(x) + Len(s) /\ t[Len(x) + 2] = "lf"
  <2>1. /\ Len(Join(x, s)) = Len(x) + Len(s)
        /\ \A i \in 1..Len(s) : Join(x, s)[Len(x) + i] = s[i]
      BY <1>4, JoinFacts
  <2>2. 2 \in 1..Len(s)
      BY <1>4, <1>5
  <2> QED BY <1>4, <1>6, <2>1, <2>2
<1>8. Len(x) + 2 \in 1..Len(t)
    BY <1>4, <1>5, <1>7
<1>9. Contains(t, "lf")
    BY <1>7, <1>8 DEF Contains
<1> QED BY <1>1, <1>3, <1>6, <1>9

\* While a sound packet is read, what has come and what has not hold a line, or its body.
LEMMA ReadingWaits ==
  ASSUME ParsersInv, Len(parsed) < NbSound, wire = <<>>
  PROVE  IF datapos = "content" THEN HasData ELSE HasLine
<1>1. PICK p, after, h, body :
         /\ p = sent[Len(parsed) + 1] /\ after = Suffix(Len(parsed) + 1)
         /\ h = p.headers /\ body = p.body
    OBVIOUS
<1>2. /\ Reading(p, after) /\ after \in Text /\ h \in Text /\ body \in Text
      /\ HasLength(body)
    BY <1>1, CurrentFacts
<1>3. buffer \in Text /\ datapos \in {"firstLine", "headers", "content"}
    BY DEF ParsersInv, ParsersOK, Text
<1>4. Join(buffer, wire) = buffer
    BY <1>3, ConcatEmptySeq DEF Join, Text
<1>5. Crlf \in Text
    BY JoinAlgebra
<1>6. CASE datapos = "firstLine"
  <2>1. buffer = Join(Build(p), after)
    <3>1. Join(buffer, wire) = Join(Build(p), after)
        BY <1>2, <1>6, Zenon DEF Reading, Join
    <3> QED BY <1>4, <3>1
  <2>2. PICK l, f, c :
           l = Lines(Join(h, Length(body))) /\ f = LineOf("F") /\ c = Crlf
      OBVIOUS
  <2>3. l \in Text /\ f \in Text /\ c \in Text
    <3>1. Join(h, Length(body)) \in Text
        BY <1>1, <1>2, BuildFront
    <3>2. "F" \in Chars
        BY DEF Chars
    <3> QED BY <1>5, <2>2, <3>1, <3>2, LinesFront, JoinAlgebra
  <2>4. Build(p) = Join(f, Join(l, Join(c, body)))
      BY <1>1, <1>2, <2>2, BuildFront
  <2>5. Join(c, body) \in Text /\ Join(l, Join(c, body)) \in Text /\ Join(body, after) \in Text
      BY <1>2, <2>3, JoinAlgebra
  <2>6. /\ Join(Join(f, Join(l, Join(c, body))), after)
             = Join(f, Join(Join(l, Join(c, body)), after))
        /\ Join(Join(l, Join(c, body)), after) = Join(l, Join(Join(c, body), after))
        /\ Join(Join(c, body), after) = Join(c, Join(body, after))
      BY <1>2, <2>3, <2>5, JoinAlgebra
  <2>7. PICK s : s = Join(c, Join(body, after))
      OBVIOUS
  <2>8. s \in Text
      BY <2>3, <2>5, <2>7, JoinAlgebra
  <2>9. Join(Join(f, l), s) = Join(f, Join(l, s)) /\ Join(f, l) \in Text
      BY <2>3, <2>8, JoinAlgebra
  <2>10. buffer = Join(Join(f, l), Join(Crlf, Join(body, after)))
      BY <2>1, <2>2, <2>4, <2>6, <2>7, <2>9
  <2>11. Contains(buffer, "lf")
      BY <2>5, <2>9, <2>10, LineWithin
  <2> QED BY <1>6, <2>11 DEF HasLine
<1>7. CASE datapos = "headers"
  <2>1. PICK u : u = Unread(p)
      OBVIOUS
  <2>2. buffer = Join(Lines(u), Join(Crlf, Join(body, after)))
    <3>1. Join(buffer, wire) = Join(Lines(u), Join(Crlf, Join(body, after)))
        BY <1>1, <1>2, <1>7, <2>1, Zenon DEF Reading, Join
    <3> QED BY <1>4, <3>1
  <2>3. u \in Text
    <3>1. CASE currentSize # 0
        BY <2>1, <3>1, JoinAlgebra DEF Unread
    <3>2. CASE currentSize = 0
      <4>1. PICK n \in Nat : n = Len(currentPkt)
          BY DEF ParsersInv, ParsersOK
      <4>2. \A i \in (n + 1)..Len(h) : i \in 1..Len(h)
          BY <4>1
      <4>3. Len(h) \in Nat /\ \A i \in 1..Len(h) : h[i] \in Chars
          BY <1>2 DEF Text
      <4>4. \A i \in (n + 1)..Len(h) : h[i] \in Chars
          BY <4>2, <4>3
      <4>5. SubSeq(h, n + 1, Len(h)) \in Text
          BY <4>3, <4>4, SubSeqProperties DEF Text
      <4>6. Length(body) \in Text
          BY <1>1, <1>2, BuildFront
      <4>7. Join(SubSeq(h, n + 1, Len(h)), Length(body)) \in Text
          BY <4>5, <4>6, JoinAlgebra
      <4>8. u = Join(SubSeq(h, n + 1, Len(h)), Length(body))
          BY <1>1, <2>1, <3>2, <4>1, Zenon DEF Unread, Join
      <4> QED BY <4>7, <4>8
    <3> QED BY <3>1, <3>2
  <2>4. Lines(u) \in Text /\ Join(body, after) \in Text
      BY <1>2, <2>3, LinesFront, JoinAlgebra
  <2>5. Contains(buffer, "lf")
      BY <2>2, <2>4, LineWithin
  <2> QED BY <1>7, <2>5 DEF HasLine
<1>8. CASE datapos = "content"
  <2>1. currentSize = Len(body) /\ Join(buffer, wire) = Join(body, after)
      BY <1>1, <1>2, <1>8, Zenon DEF Reading, Join
  <2>2. Len(buffer) = Len(body) + Len(after)
      BY <1>2, <1>4, <2>1, JoinFacts
  <2>3. Len(buffer) >= currentSize
      BY <1>2, <2>1, <2>2 DEF Text
  <2> QED BY <1>8, <2>3 DEF HasData
<1> QED BY <1>3, <1>6, <1>7, <1>8

\* However the stream of packets is cut into chunks, the well formed packets at its
\* start come out one for one, with nothing between them, and all of them once
\* their last byte is there.
THEOREM CutsDoNotMatterHolds == ParsersSpec => []CutsDoNotMatter
<1>1. ParsersInit => ParsersInv
    BY ParsersInitInv
<1>2. ParsersInv /\ [ParsersNext]_parseVars => ParsersInv'
  <2>1. SUFFICES ASSUME ParsersInv, [ParsersNext]_parseVars PROVE ParsersInv'
      OBVIOUS
  <2>2. CASE UNCHANGED parseVars
    <3>1. /\ UNCHANGED <<sent, wire, buffer, datapos, currentPkt, currentSize, parsed>>
          /\ UNCHANGED eating
        BY <2>2 DEF parseVars
    <3>2. ParsersOK' /\ HungryOK'
        BY <2>1, <3>1 DEF ParsersInv, ParsersOK, HungryOK, HasData, HasLine
    <3>3. NbSound' = NbSound
        BY <3>1, SentSame
    <3>4. CASE Len(parsed) < NbSound
      <4>1. PICK p, after : p = sent[Len(parsed) + 1] /\ after = Suffix(Len(parsed) + 1)
          OBVIOUS
      <4>2. Reading(p, after)
          BY <2>1, <3>4, <4>1, CurrentFacts
      <4>3. Reading(p, after)'
          BY <3>1, <4>2, Zenon DEF Reading, Unread
      <4> QED BY <2>1, <3>1, <3>2, <3>4, <4>1, <4>3, StillReading
    <3>5. CASE ~(Len(parsed) < NbSound)
        BY <2>1, <3>1, <3>2, <3>3, <3>5 DEF ParsersInv, PrefixOK, ReadingOK, EndOK
    <3> QED BY <3>4, <3>5
  <2>3. CASE ParsersNext
      BY <2>1, <2>3, EatInv, ParseFirstLineInv, ParseHeaderInv, ParseLengthInv,
         EndHeadersInv, ParseContentInv, StarveInv, RejectInv DEF ParsersNext
  <2> QED BY <2>1, <2>2, <2>3
<1>3. ParsersInv => CutsDoNotMatter
  <2> SUFFICES ASSUME ParsersInv PROVE CutsDoNotMatter
      OBVIOUS
  <2>1. Len(parsed) \in Nat /\ NbSound \in Nat
      BY SoundFacts DEF ParsersInv, ParsersOK
  <2>2. wire = <<>> /\ ~eating => Len(parsed) >= NbSound
    <3>1. SUFFICES ASSUME wire = <<>>, ~eating, ~(Len(parsed) >= NbSound) PROVE FALSE
        OBVIOUS
    <3>2. Len(parsed) < NbSound
        BY <2>1, <3>1
    <3>3. IF datapos = "content" THEN HasData ELSE HasLine
        BY <3>1, <3>2, ReadingWaits
    <3> QED BY <3>1, <3>3 DEF ParsersInv, HungryOK
  <2> QED BY <2>2 DEF ParsersInv, PrefixOK, EndOK, CutsDoNotMatter
<1> QED BY <1>1, <1>2, <1>3, PTL DEF ParsersSpec
=============================================================================
