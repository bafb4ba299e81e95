------------------------------- MODULE Finder -------------------------------
(***************************************************************************)
(* dht/finder-actor.cpp over dht/process-actor.cpp: one search for the     *)
(* peers closest to an Id, with the node's table of connection ids         *)
(* (internal-node.cpp), the network and the timeouts around it.            *)
(*                                                                         *)
(* The handlers of the actor are atomic (ActorManager!OneHandlerPerActor), *)
(* but the messages posted to it wait in no order: several workers of the  *)
(* pool take them and race for the actor's mutex.  A peer is its distance  *)
(* to the Id, all different.  A search contacts a peer at most once, so    *)
(* a peer also stands for the connection id of its query.                  *)
(***************************************************************************)
EXTENDS Integers, FiniteSets, FiniteSetsExt

CONSTANTS Peers,      \* the distances of the peers there are
          Count,      \* countToFind
          Parallel,   \* FIND_PARALLEL_QUERIES
          MaxAnswer   \* FIND_NB_NODE_REQUESTED: the most peers in an answer

ASSUME PeersAssumption == IsFiniteSet(Peers) /\ Peers \subseteq Nat
ASSUME CountAssumption == {Count, Parallel, MaxAnswer} \subseteq Nat \ {0}

VARIABLES
  actor,           \* added, alive (started), killed, deleted
  shortlist, foundPeers, contactedPeers, pendingRequests,
  queries,         \* the keys of the map queries whose flag is true
  registered,      \* the connection ids in processActors
  network,         \* queries that were sent and are not answered yet
  timers,          \* queries whose timeout was set and did not fire yet
  deadline,        \* whether the timeout of the whole search may still fire
  inbox,           \* messages posted to the actor and not treated yet
  calls, outcome,  \* calls of the callback so far, and the last one
  heard            \* ghost: every peer the search was told of

vars == <<actor, shortlist, foundPeers, contactedPeers, pendingRequests, queries, registered,
          network, timers, deadline, inbox, calls, outcome, heard>>

search == <<shortlist, foundPeers, contactedPeers, pendingRequests, heard>>

Answers  == {S \in SUBSET Peers : Cardinality(S) <= MaxAnswer}
Answer(p, S) == [kind |-> "answer", query |-> p, peers |-> S]
Timeout(p)   == [kind |-> "timeout", query |-> p, peers |-> {}]
Deadline     == [kind |-> "deadline", query |-> 0, peers |-> {}]

\* What can be posted to the actor
Messages ==
  {Deadline} \cup {Timeout(p) : p \in contactedPeers}
             \cup {Answer(p, S) : p \in contactedPeers, S \in Answers}

\* The heaps, whose size pendingRequests starts from, are in FoundIsClosest.
TypeOK ==
  /\ actor \in {"added", "alive", "killed", "deleted"}
  /\ heard \subseteq Peers
  /\ {network, timers} \subseteq SUBSET contactedPeers
  /\ deadline \in BOOLEAN
  /\ inbox \subseteq Messages
  /\ calls \in Nat /\ outcome \in {"none", "found", "error"}

Init ==
  /\ actor = "added" /\ deadline = TRUE
  /\ shortlist = {} /\ foundPeers = {} /\ contactedPeers = {} /\ pendingRequests = 0
  /\ queries = {} /\ registered = {} /\ network = {} /\ timers = {} /\ inbox = {}
  /\ calls = 0 /\ outcome = "none"
  /\ heard = {}

-----------------------------------------------------------------------------
(* The heaps, which keep their closest peers *)

Farthest(S) == Max(S)

\* heap_push, then heap_pop beyond the capacity
AddTo(list, p, capacity) ==
  LET longer == list \cup {p}
  IN  IF Cardinality(longer) > capacity THEN longer \ {Farthest(longer)} ELSE longer

AddAll(list, S, capacity) == FoldSet(LAMBDA p, l : AddTo(l, p, capacity), list, S)

\* The callers of addToShortList and addToFoundPeers add each peer to both.
Learn(S) ==
  /\ shortlist' = AddAll(shortlist, S, Parallel)
  /\ foundPeers' = AddAll(foundPeers, S, Count)
  /\ heard' = heard \cup S

-----------------------------------------------------------------------------
(* Sending queries, and what ends the search *)

\* Mutant: a resolved query keeps its connection id.
KeepIds(p)  == registered

ForgetId(p) == registered \ {p}

\* sendQuery to each peer of S, after the query of p was resolved
SendTo(S, ids) ==
  /\ contactedPeers' = contactedPeers \cup S
  /\ registered' = ids \cup S
  /\ network' = network \cup S
  /\ timers' = timers \cup S

\* Mutant: the search reports its end and forgets kill().
GoesOn == "alive"

Killed == "killed"

Finish(result) ==
  /\ calls' = calls + 1
  /\ outcome' = result
  /\ actor' = Killed

\* findNearestNodes gives peers that are known; start() queries the shortlist
Start(S) ==
  /\ actor = "added" /\ actor' = "alive"
  /\ Cardinality(S) <= Count
  /\ Learn(S)
  /\ pendingRequests' = Cardinality(shortlist')
  /\ queries' = shortlist'
  /\ SendTo(shortlist', registered)
  /\ UNCHANGED <<deadline, inbox, calls, outcome>>

\* Mutant: the test that the search is over comes before the decrement.
NeverLast(n) == n + 1 = 0

LastOne(n)   == n = 0

\* Mutant: sendNewQuery looks at the front of the heap only.
FreshFront == {Max(shortlist')} \ contactedPeers

\* sendNewQuery takes the first peer of the heap that was not contacted, which
\* may be any of them.
Fresh == shortlist' \ contactedPeers

\* The query of p is over: onResponse
Respond(p) ==
  /\ \/ \E q \in Fresh :
          /\ SendTo({q}, ForgetId(p))
          /\ queries' = (queries \ {p}) \cup {q}
          /\ UNCHANGED <<pendingRequests, actor, calls, outcome>>
     \/ /\ Fresh = {}
        /\ SendTo({}, ForgetId(p))
        /\ queries' = queries \ {p}
        /\ pendingRequests' = pendingRequests - 1
        /\ IF LastOne(pendingRequests') THEN Finish("found")
                                        ELSE UNCHANGED <<actor, calls, outcome>>

-----------------------------------------------------------------------------
(* The handlers of the actor.  A dead one does not run: its next message    *)
(* deletes it, and the destructor unregisters all its connection ids.       *)

Treat(m) ==
  /\ actor = "alive" /\ m \in inbox
  /\ inbox' = inbox \ {m}
  /\ UNCHANGED deadline

\* "process receive"
TreatAnswer(m) ==
  /\ m.kind = "answer" /\ Treat(m)
  /\ \/ m.query \in queries /\ Learn(m.peers) /\ Respond(m.query)
     \/ /\ m.query \notin queries
        /\ UNCHANGED <<actor, search, queries, registered, network, timers, calls, outcome>>

\* "process timeout", which does not look at the flag of the query
TreatTimeout(m) ==
  /\ m.kind = "timeout" /\ Treat(m)
  /\ Learn({}) /\ Respond(m.query)

TreatDeadline(m) ==
  /\ m.kind = "deadline" /\ Treat(m)
  /\ Finish("error")
  /\ UNCHANGED <<search, queries, registered, network, timers>>

\* The message that kill() posts is one that nobody else sends: no need of inbox
Delete ==
  /\ actor = "killed" /\ actor' = "deleted"
  /\ registered' = registered \ contactedPeers
  /\ inbox' = {}
  /\ UNCHANGED <<search, queries, network, timers, deadline, calls, outcome>>

-----------------------------------------------------------------------------
(* The network, and the thread of the timeouts *)

PostTo(m) == inbox' = IF actor = "deleted" THEN inbox ELSE inbox \cup {m}

\* dispatchToProcessActor; the peers are {} when the status is not 0.  A query or
\* an answer that is lost is one that never arrives.
Arrive(p, S) ==
  /\ p \in network /\ network' = network \ {p}
  /\ IF p \in registered THEN PostTo(Answer(p, S)) ELSE UNCHANGED inbox
  /\ UNCHANGED <<actor, search, queries, registered, timers, deadline, calls, outcome>>

FireTimer(p) ==
  /\ p \in timers /\ timers' = timers \ {p}
  /\ PostTo(Timeout(p))
  /\ UNCHANGED <<actor, search, queries, registered, network, deadline, calls, outcome>>

FireDeadline ==
  /\ actor # "added" /\ deadline /\ deadline' = FALSE
  /\ PostTo(Deadline)
  /\ UNCHANGED <<actor, search, queries, registered, network, timers, calls, outcome>>

Handle == (\E m \in inbox : TreatAnswer(m) \/ TreatTimeout(m) \/ TreatDeadline(m)) \/ Delete

Next ==
  \/ \E S \in SUBSET Peers : Start(S)
  \/ Handle
  \/ \E p \in Peers : FireTimer(p) \/ \E S \in Answers : Arrive(p, S)
  \/ FireDeadline

Spec == Init /\ [][Next]_vars

\* Workers treat what is posted and the timeouts of the queries fire.  Peers may
\* never answer, and the deadline of the search may be far away.
FairSpec == Spec /\ WF_vars(Handle) /\ \A p \in Peers : WF_vars(FireTimer(p))

-----------------------------------------------------------------------------
(* Safety *)

\* The n closest peers of S
Nearest(n, S) == {p \in S : Cardinality({q \in S : q < p}) < n}

\* The callback is called once, with the result or with the error: a deadline
\* that crosses the last answer does not report a second end.
OneResult == calls = IF outcome = "none" THEN 0 ELSE 1

\* What the search gives is the closest of all it was told of, though each heap
\* forgets peers on the way and meets them again in later answers, and a search
\* that succeeds has asked every one of the closest peers it knows.
\* "When the shortlist is empty, we know we are close to the result"
FoundIsClosest ==
  /\ foundPeers = Nearest(Count, heard) /\ shortlist = Nearest(Parallel, heard)
  /\ outcome = "found" => shortlist \subseteq contactedPeers

\* No entry of processActors outlives its query, or its actor.
NoStaleConnection == registered = IF actor = "deleted" THEN {} ELSE queries

-----------------------------------------------------------------------------
(* The inductive invariant *)

\* The end is reported with kill(), and a dead actor sends no query.
EndInv ==
  /\ actor \in {"added", "alive"} => outcome = "none" /\ calls = 0
  /\ actor \in {"killed", "deleted"} => outcome # "none" /\ calls = 1
  /\ actor = "added" => contactedPeers = {}

\* The flag of a query is true for as long as its connection id is known.
QueryInv == queries \subseteq contactedPeers /\ NoStaleConnection

FinderInv == TypeOK /\ EndInv /\ QueryInv

\* The queries whose timeout is still to be treated
Awaited == timers \cup {p \in contactedPeers : Timeout(p) \in inbox}

\* A search waits for no more answers than there are timeouts to come in their
\* place, though an answered query is counted down twice: without it a search
\* that lost its answers could wait for ever.  It asks those it was told of.
PendingInv ==
  /\ contactedPeers \subseteq heard
  /\ actor = "alive" =>
       /\ pendingRequests \in Nat
       /\ contactedPeers # {} => pendingRequests > 0
       /\ pendingRequests <= Cardinality(Awaited)

SearchInv == FinderInv /\ FoundIsClosest /\ PendingInv

-----------------------------------------------------------------------------
(* Liveness *)

\* The timeouts of the queries end a search that sent some, without its deadline.
SearchEnds == (actor = "alive" /\ contactedPeers # {}) ~> actor = "deleted"
=============================================================================
