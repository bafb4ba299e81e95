---------------------------- MODULE ClosableFifo ----------------------------
(***************************************************************************)
(* What Epyx's BlockingQueue promises, without threads, locks or condition *)
(* variables: a first-in first-out queue that can be closed once.  A call  *)
(* of push is admitted while the queue is open and puts its element at the *)
(* back later; elements are taken from the front, one by one or all at     *)
(* once, whether the queue is open or closed.                              *)
(*                                                                         *)
(* delivered is the history of everything taken, with who took it.         *)
(***************************************************************************)
EXTENDS Sequences, Naturals

CONSTANTS Threads,  \* the threads that use the queue
          Items     \* the elements they push

VARIABLES queue,      \* the elements waiting, front first
          open,       \* TRUE until the queue is closed
          admitted,   \* threads whose push was let in and did not put its element yet
          delivered   \* what was taken so far, in order

fifoVars == <<queue, open, admitted, delivered>>

Delivery == [by : Threads, item : Items]

FifoInit ==
  /\ queue = <<>>
  /\ open = TRUE
  /\ admitted = {}
  /\ delivered = <<>>

Admit(t) ==
  /\ open
  /\ admitted' = admitted \cup {t}
  /\ UNCHANGED <<queue, open, delivered>>

Put(t, x) ==
  /\ t \in admitted
  /\ queue' = Append(queue, x)
  /\ admitted' = admitted \ {t}
  /\ UNCHANGED <<open, delivered>>

\* A best-effort push that gives up.
Abandon(t) ==
  /\ t \in admitted
  /\ admitted' = admitted \ {t}
  /\ UNCHANGED <<queue, open, delivered>>

TakeOne(t) ==
  /\ queue # <<>>
  /\ delivered' = Append(delivered, [by |-> t, item |-> Head(queue)])
  /\ queue' = Tail(queue)
  /\ UNCHANGED <<open, admitted>>

TakeAll(t) ==
  /\ queue # <<>>
  /\ delivered' = delivered \o [i \in 1..Len(queue) |-> [by |-> t, item |-> queue[i]]]
  /\ queue' = <<>>
  /\ UNCHANGED <<open, admitted>>

Shut ==
  /\ open' = FALSE
  /\ UNCHANGED <<queue, admitted, delivered>>

FifoNext ==
  \/ \E t \in Threads :
       \/ Admit(t) \/ Abandon(t) \/ TakeOne(t) \/ TakeAll(t)
       \/ \E x \in Items : Put(t, x)
  \/ Shut

FifoSpec == FifoInit /\ [][FifoNext]_fifoVars
=============================================================================
