------------------------------- MODULE Logging -------------------------------
(***************************************************************************)
(* core/log-worker.cpp: threads push their lines and their flushes to a    *)
(* queue, and one thread prints them.                                      *)
(*                                                                         *)
(* A blocking flush waits on a condition variable of its own, under a      *)
(* mutex that the logging thread never takes, and tests nothing: it can    *)
(* miss the notification, and wake up without one.  The queue is what      *)
(* ClosableFifo.tla promises; nobody closes this one.                      *)
(***************************************************************************)
EXTENDS Naturals, Sequences

CONSTANTS Writers,       \* the threads that log
          MaxLines,      \* bound: lines each of them writes
          MaxRequests,   \* bound: requests they make together
          Nobody

ASSUME NobodyAssumption == Nobody \notin Writers

\* A line is its writer and its number.  A control entry with a condition has the
\* writer that waits on it and the number of its request, any other one Nobody.
Entries == [prio : {"LINE", "FLUSH", "QUIT"}, by : Writers \cup {Nobody}, n : Nat]
Line(t, i) == [prio |-> "LINE", by |-> t, n |-> i]
Control(prio) == [prio |-> prio, by |-> Nobody, n |-> 0]
Waiting(t, i) == [prio |-> "FLUSH", by |-> t, n |-> i]

VARIABLES
  entries,   \* Worker::entries
  taken,     \* the entries the logging thread took and did not treat yet
  logger,    \* where it is: "loop", "notify", "ended"
  printed,   \* the lines given to the streams
  flushed,   \* the lines the streams had when they were flushed
  writer,    \* where each thread is: "idle", "pushed", "waiting", "woken",
             \* "joining" or "quit"
  lines,     \* how many each wrote
  requests,  \* how many they made
  mine,      \* the number of the last one of each
  notified,  \* whether a notification ended its last wait
  before,    \* ghost: the lines that were written when its last request was pushed
  dangling   \* ghost: a deleted condition was notified, which is undefined behaviour:
             \* from then on the model promises nothing

logVars == <<entries, taken, logger, printed, flushed, writer, lines, requests, mine, notified,
             before, dangling>>
users   == <<writer, lines, requests, mine, notified, before, dangling>>
sink    == <<taken, logger, printed, flushed>>

LogInit ==
  /\ entries = <<>> /\ taken = <<>> /\ logger = "loop" /\ printed = {} /\ flushed = {}
  /\ writer = [t \in Writers |-> "idle"] /\ lines = [t \in Writers |-> 0]
  /\ requests = 0 /\ mine = [t \in Writers |-> 0]
  /\ notified = [t \in Writers |-> FALSE] /\ before = [t \in Writers |-> {}]
  /\ dangling = FALSE

Written == UNION {{Line(t, i) : i \in 1..lines[t]} : t \in Writers}

-----------------------------------------------------------------------------
(* The threads that log *)

Go(t, where) == writer' = [writer EXCEPT ![t] = where]

WriteLine(t) ==
  /\ writer[t] = "idle" /\ lines[t] < MaxLines
  /\ lines' = [lines EXCEPT ![t] = @ + 1]
  /\ entries' = Append(entries, Line(t, lines[t] + 1))
  /\ UNCHANGED <<sink, writer, requests, mine, notified, before, dangling>>

\* The request is pushed after all that was written so far.
Request(t, entry, where) ==
  /\ writer[t] = "idle" /\ requests < MaxRequests
  /\ requests' = requests + 1
  /\ mine' = [mine EXCEPT ![t] = requests + 1]
  /\ entries' = Append(entries, entry)
  /\ before' = [before EXCEPT ![t] = Written]
  /\ notified' = [notified EXCEPT ![t] = FALSE]
  /\ Go(t, where)
  /\ UNCHANGED <<sink, lines, dangling>>

FlushNoWait(t) == Request(t, Control("FLUSH"), "idle")

FlushWait(t) == Request(t, Waiting(t, requests + 1), "pushed")

\* quit() pushes and joins the logging thread; it is called once.
Quit(t) ==
  /\ \A u \in Writers : writer[u] \notin {"joining", "quit"}
  /\ Request(t, Control("QUIT"), "joining")

StartWait(t) ==
  /\ writer[t] = "pushed" /\ Go(t, "waiting")
  /\ UNCHANGED <<entries, sink, lines, requests, mine, notified, before, dangling>>

SpuriousWakeup(t) ==
  /\ writer[t] = "waiting" /\ Go(t, "woken")
  /\ UNCHANGED <<entries, sink, lines, requests, mine, notified, before, dangling>>

\* The condition is deleted.
FlushReturns(t) ==
  /\ writer[t] = "woken" /\ Go(t, "idle")
  /\ UNCHANGED <<entries, sink, lines, requests, mine, notified, before, dangling>>

QuitReturns(t) ==
  /\ writer[t] = "joining" /\ logger = "ended" /\ Go(t, "quit")
  /\ UNCHANGED <<entries, sink, lines, requests, mine, notified, before, dangling>>

-----------------------------------------------------------------------------
(* The logging thread *)

TakeEntries ==
  /\ logger = "loop" /\ taken = <<>> /\ entries # <<>>
  /\ taken' = entries /\ entries' = <<>>
  /\ UNCHANGED <<logger, printed, flushed, users>>

PrintEntry ==
  /\ logger = "loop" /\ taken # <<>> /\ Head(taken).prio = "LINE"
  /\ printed' = printed \cup {Head(taken)}
  /\ taken' = Tail(taken)
  /\ UNCHANGED <<entries, logger, flushed, users>>

\* Mutant: the streams are flushed after the notification, or not at all.
NotFlushed == flushed

InStreams == printed

FlushStreams ==
  /\ logger = "loop" /\ taken # <<>> /\ Head(taken).prio \in {"FLUSH", "QUIT"}
  /\ flushed' = InStreams
  /\ logger' = "notify"
  /\ UNCHANGED <<entries, taken, printed, users>>

\* notify_one on the condition of the entry e: its thread waits for it, or does
\* not wait yet or any more, or has deleted the condition
Notify(e) ==
  LET t     == e.by
      lives == mine[t] = e.n /\ writer[t] \in {"pushed", "waiting", "woken"}
      wakes == lives /\ writer[t] = "waiting"
  IN  /\ writer' = IF wakes THEN [writer EXCEPT ![t] = "woken"] ELSE writer
      /\ notified' = IF wakes THEN [notified EXCEPT ![t] = TRUE] ELSE notified
      /\ dangling' = (dangling \/ ~lives)

EntryDone ==
  /\ logger = "notify"
  /\ taken' = Tail(taken)
  /\ logger' = IF Head(taken).prio = "QUIT" THEN "ended" ELSE "loop"
  /\ \/ Head(taken).by = Nobody /\ UNCHANGED <<writer, notified, dangling>>
     \/ Head(taken).by # Nobody /\ Notify(Head(taken))
  /\ UNCHANGED <<entries, printed, flushed, lines, requests, mine, before>>

LoggerNext == TakeEntries \/ PrintEntry \/ FlushStreams \/ EntryDone

LogNext ==
  \/ \E t \in Writers :
       \/ WriteLine(t) \/ FlushNoWait(t) \/ FlushWait(t) \/ Quit(t)
       \/ StartWait(t) \/ SpuriousWakeup(t) \/ FlushReturns(t) \/ QuitReturns(t)
  \/ LoggerNext

LogSpec == LogInit /\ [][LogNext]_logVars

-----------------------------------------------------------------------------
(* Safety *)

\* "Ask the logging system to flush the logs -- Blocking variant" (log.h:173) and
\* "Quits the logger nicely": once the notification or the join tells a thread
\* so, every line that anybody wrote before the request is in the streams and
\* these were flushed, whatever other threads write, flush and quit meanwhile.
DoneMeansFlushed ==
  ~dangling => \A t \in Writers :
    notified[t] \/ writer[t] = "quit" => before[t] \subseteq flushed

-----------------------------------------------------------------------------
(* The inductive invariant *)

\* What was pushed and not treated, in its order
Pending == taken \o entries

LinesBefore(q, k) == {q[j] : j \in {i \in 1..(k - 1) : q[i].prio = "LINE"}}

LogOK ==
  /\ taken \in Seq(Entries) /\ entries \in Seq(Entries)
  /\ requests \in Nat /\ lines \in [Writers -> Nat] /\ mine \in [Writers -> 0..requests]
  /\ writer \in [Writers -> {"idle", "pushed", "waiting", "woken", "joining", "quit"}]
  /\ notified \in [Writers -> BOOLEAN] /\ before \in [Writers -> SUBSET Entries]
  /\ logger \in {"loop", "notify", "ended"}

Quitting(t) == writer[t] \in {"joining", "quit"}

\* Lines and requests stay in the order in which they were pushed, so what was
\* written before a request is printed, or comes before it.
OrderIsKept ==
  /\ Written \subseteq printed \cup LinesBefore(Pending, Len(Pending) + 1)
  /\ \A k \in 1..Len(Pending) : \A t \in Writers :
       LET e == Pending[k] IN
       \/ e.prio = "FLUSH" /\ e.by = t /\ e.n = mine[t]
       \/ e.prio = "QUIT" /\ Quitting(t)
       => before[t] \subseteq printed \cup LinesBefore(Pending, k)

\* A request is younger than its number says, and is pushed to quit by one thread.
RequestsAreTold ==
  /\ \A k \in 1..Len(Pending) :
       LET e == Pending[k] IN
       /\ e.prio = "FLUSH" => e.n <= requests
       /\ e.prio = "QUIT" => e.by = Nobody /\ \E t \in Writers : Quitting(t)
  /\ logger = "ended" => \E t \in Writers : Quitting(t)

LogInv ==
  /\ LogOK /\ OrderIsKept /\ RequestsAreTold
  /\ flushed \subseteq printed
  /\ logger = "notify" =>
       /\ taken # <<>> /\ Head(taken).prio \in {"FLUSH", "QUIT"} /\ flushed = printed
  /\ \A t \in Writers :
       /\ notified[t] => before[t] \subseteq flushed
       /\ logger = "ended" /\ Quitting(t) => before[t] \subseteq flushed
       /\ writer[t] = "quit" => logger = "ended"
=============================================================================
