------------------------------ MODULE KeyValue ------------------------------
(***************************************************************************)
(* dht/setter-actor.cpp, dht/getter-actor.cpp, dht/storage.cpp, the Get    *)
(* and Store actors of dht/static-actors.cpp and dht/replicater-actor.cpp: *)
(* one key, set and got by users, kept by nodes that set it again.         *)
(*                                                                         *)
(* The search that comes first is taken as what Finder.tla shows: it gives *)
(* some peers, or an error, or nothing.  Handlers are atomic.  What waits  *)
(* in the network, in a timer or in the queue of the pool is treated in    *)
(* any order, so an answer and a timeout count as posted until treated.    *)
(***************************************************************************)
EXTENDS Integers, FiniteSets

CONSTANTS Nodes,
          Sets, Gets,     \* the calls of users
          Rounds,         \* the calls of setValue by the replicaters
          Values,
          Redundancy,     \* SET_REDUNDANCY and GET_REDUNDANCY
          ErrorThreshold, \* SET_ERROR_THRESHOLD
          None

Setters == Sets \cup Rounds
Ops     == Setters \cup Gets

ASSUME NodesAssumption == IsFiniteSet(Nodes)
ASSUME OpsAssumption   == Sets \cap Gets = {} /\ Sets \cap Rounds = {} /\ Gets \cap Rounds = {}
ASSUME LimitsAssumption == Redundancy \in Nat \ {0} /\ ErrorThreshold \in Nat \ {0}
ASSUME NoneAssumption  == None \notin Values \cup Nodes

VARIABLES
  actor,      \* of each call: idle (not called), searching, asking, killed
  value,      \* the value a setter brings, or a getter found
  asked, queries,             \* the peers that were queried, and those whose flag is true
  pendingRequests, nErrors,
  requests, answers, timers,  \* not arrived, not treated, not fired yet
  storage,    \* the value each node has for the key
  due,        \* messages "new key" and timeouts "replicate" of each replicater
  owner,      \* the node whose replicater made the call
  isHandlingKey,
  outcome,    \* the last callback: none, set, got, error
  wrote,      \* ghost: the nodes that stored the value of each setter
  earlier,    \* ghost: the sets that had succeeded when a getter asked,
  holders,    \* ghost: and the nodes that had a value by then
  answered    \* ghost: the peers that answered a getter

vars == <<actor, value, asked, queries, pendingRequests, nErrors, requests, answers, timers,
          storage, due, owner, isHandlingKey, outcome, wrote, earlier, holders, answered>>

own     == <<queries, pendingRequests, nErrors, answers, timers>>  \* gone with the actor
keeping == <<storage, owner, isHandlingKey>>
ghosts  == <<wrote, earlier, holders, answered>>

Query == [op : Ops, node : Nodes]

TypeOK ==
  /\ actor \in [Ops -> {"idle", "searching", "asking", "killed"}]
  /\ value \in [Ops -> Values \cup {None}]
  /\ {asked, queries, wrote, holders, answered} \subseteq [Ops -> SUBSET Nodes]
  /\ pendingRequests \in [Ops -> Nat] /\ nErrors \in [Ops -> Nat]
  /\ requests \subseteq Query /\ timers \subseteq Query
  /\ answers \subseteq [op : Ops, node : Nodes, value : Values \cup {None}]
  /\ storage \in [Nodes -> Values \cup {None}]
  /\ due \in [Nodes -> Nat]
  /\ owner \in [Ops -> Nodes \cup {None}]
  /\ isHandlingKey \in [Ops -> BOOLEAN]
  /\ outcome \in [Ops -> {"none", "set", "got", "error"}]
  /\ earlier \in [Ops -> SUBSET Setters]

Init ==
  /\ actor = [o \in Ops |-> "idle"]
  /\ value = [o \in Ops |-> None]
  /\ asked = [o \in Ops |-> {}] /\ queries = asked
  /\ wrote = asked /\ holders = asked /\ answered = asked
  /\ pendingRequests = [o \in Ops |-> 0] /\ nErrors = pendingRequests
  /\ requests = {} /\ answers = {} /\ timers = {}
  /\ storage = [n \in Nodes |-> None]
  /\ due = [n \in Nodes |-> 0]
  /\ owner = [o \in Ops |-> None]
  /\ isHandlingKey = [o \in Ops |-> FALSE]
  /\ outcome = [o \in Ops |-> "none"]
  /\ earlier = [o \in Ops |-> {}]

-----------------------------------------------------------------------------
(* Calls: an actor is added, and starts its search *)

Call(o, v) ==
  /\ actor[o] = "idle"
  /\ actor' = [actor EXCEPT ![o] = "searching"]
  /\ value' = [value EXCEPT ![o] = v]
  /\ UNCHANGED <<own, asked, requests, storage, isHandlingKey, outcome, ghosts>>

CallSet(o, v) == o \in Sets /\ Call(o, v) /\ UNCHANGED <<due, owner>>

CallGet(o) == o \in Gets /\ Call(o, None) /\ UNCHANGED <<due, owner>>

\* The timeout "replicate"
Replicate(n, o) ==
  /\ o \in Rounds /\ due[n] > 0
  /\ due' = [due EXCEPT ![n] = @ - 1]
  /\ owner' = [owner EXCEPT ![o] = n]
  /\ Call(o, storage[n])

-----------------------------------------------------------------------------
(* The end of a call *)

\* onSet, onGot or onError, then kill(), and the destructor.  What is posted to
\* it is dropped.  Of the callbacks only the replicater's onSet does something.
End(o, result) ==
  /\ actor' = [actor EXCEPT ![o] = "killed"]
  /\ outcome' = [outcome EXCEPT ![o] = result]
  /\ due' = IF result = "set" /\ isHandlingKey[o] THEN [due EXCEPT ![owner[o]] = @ + 1] ELSE due
  /\ queries' = [queries EXCEPT ![o] = {}]
  /\ pendingRequests' = [pendingRequests EXCEPT ![o] = 0]
  /\ nErrors' = [nErrors EXCEPT ![o] = 0]
  /\ answers' = {a \in answers : a.op # o}
  /\ timers' = {t \in timers : t.op # o}

Alive(o) == actor[o] \in {"searching", "asking"}

\* "find failure", and the deadline of the whole call, which may come at any time
Fail(o) ==
  /\ Alive(o)
  /\ End(o, "error")
  /\ UNCHANGED <<value, asked, requests, keeping, ghosts>>

-----------------------------------------------------------------------------
(* The queries *)

\* "find success": onFoundPeers, then one query to each peer
FindSuccess(o, S) ==
  /\ actor[o] = "searching"
  /\ S # {} /\ Cardinality(S) <= Redundancy
  /\ actor' = [actor EXCEPT ![o] = "asking"]
  /\ isHandlingKey' = [isHandlingKey EXCEPT ![o] = owner[o] \in S]
  /\ asked' = [asked EXCEPT ![o] = S]
  /\ queries' = [queries EXCEPT ![o] = S]
  /\ pendingRequests' = [pendingRequests EXCEPT ![o] = Cardinality(S)]
  /\ requests' = requests \cup [op : {o}, node : S]
  /\ timers' = timers \cup [op : {o}, node : S]
  /\ \/ /\ o \in Gets
        /\ earlier' = [earlier EXCEPT ![o] = {s \in Setters : outcome[s] = "set"}]
        /\ holders' = [holders EXCEPT ![o] = {n \in Nodes : storage[n] # None}]
     \/ o \in Setters /\ UNCHANGED <<earlier, holders>>
  /\ UNCHANGED <<value, nErrors, answers, storage, due, owner, outcome, wrote, answered>>

\* The node n treats a query, and its answer reaches the actor if that is alive.
Serve(o, n, v) ==
  /\ [op |-> o, node |-> n] \in requests
  /\ requests' = requests \ {[op |-> o, node |-> n]}
  /\ answers' = IF Alive(o) THEN answers \cup {[op |-> o, node |-> n, value |-> v]} ELSE answers
  /\ UNCHANGED <<actor, value, asked, queries, pendingRequests, nErrors, timers, owner,
                 isHandlingKey, outcome, earlier, holders, answered>>

\* Mutant: the replicater is told of every set.
NewKeyAlways(n) == TRUE

NewKey(n) == storage[n] = None

\* StoreActor and Storage::set
Store(o, n) ==
  /\ o \in Setters /\ Serve(o, n, value[o])
  /\ storage' = [storage EXCEPT ![n] = value[o]]
  /\ due' = IF NewKey(n) THEN [due EXCEPT ![n] = @ + 1] ELSE due
  /\ wrote' = [wrote EXCEPT ![o] = @ \cup {n}]

\* GetActor and Storage::get; None is the status 1
Read(o, n) ==
  /\ o \in Gets /\ Serve(o, n, storage[n])
  /\ UNCHANGED <<storage, due, wrote>>

-----------------------------------------------------------------------------
(* The handlers of answers and timeouts *)

\* Mutant: the test that a call is over comes before the decrement.
NeverLast(n) == n + 1 = 0

LastOne(n) == n = 0

\* onSetReceive and onGetResponse, for the message m
Respond(o, m, errors, result) ==
  IF LastOne(pendingRequests[o] - 1)
  THEN End(o, result)
  ELSE /\ pendingRequests' = [pendingRequests EXCEPT ![o] = @ - 1]
       /\ nErrors' = [nErrors EXCEPT ![o] = errors]
       /\ queries' = [queries EXCEPT ![o] = @ \ {m.node}]
       /\ answers' = answers \ {m} /\ timers' = timers \ {m}
       /\ UNCHANGED <<actor, outcome, due>>

\* Mutant: one error too many is allowed.
EnoughOrOneLess(errors) == errors <= ErrorThreshold

Enough(errors) == errors < ErrorThreshold

SetResponse(o, m, errors) == Respond(o, m, errors, IF Enough(errors) THEN "set" ELSE "error")

GetResponse(o, m) == Respond(o, m, 0, "error")

\* "process receive", for a query whose flag is true; other answers change nothing.
\* A StoreActor answers nothing but success.
TreatStored(o, a) ==
  /\ o \in Setters /\ a.op = o /\ a.node \in queries[o]
  /\ SetResponse(o, a, nErrors[o])
  /\ UNCHANGED <<value, asked, requests, keeping, ghosts>>

TreatGot(o, a) ==
  /\ o \in Gets /\ a.op = o /\ a.node \in queries[o]
  /\ answered' = [answered EXCEPT ![o] = @ \cup {a.node}]
  /\ \/ /\ a.value = None
        /\ GetResponse(o, a)
        /\ UNCHANGED value
     \/ /\ a.value # None
        /\ End(o, "got")
        /\ value' = [value EXCEPT ![o] = a.value]
  /\ UNCHANGED <<asked, requests, keeping, wrote, earlier, holders>>

\* Mutant: a peer that does not answer is no error.
NoError(o) == nErrors[o]

OneError(o) == nErrors[o] + 1

\* "process timeout", whose handler does not test the flag of the query
TreatTimeout(o, t) ==
  /\ t.op = o
  /\ \/ o \in Setters /\ SetResponse(o, t, OneError(o))
     \/ o \in Gets /\ GetResponse(o, t)
  /\ UNCHANGED <<value, asked, requests, keeping, ghosts>>

-----------------------------------------------------------------------------
Treat(o) ==
  \/ \E a \in answers : TreatStored(o, a) \/ TreatGot(o, a)
  \/ \E t \in timers : TreatTimeout(o, t)

Next ==
  \E o \in Ops :
    \/ CallGet(o) \/ \E v \in Values : CallSet(o, v)
    \/ Fail(o) \/ Treat(o)
    \/ \E S \in SUBSET Nodes : FindSuccess(o, S)
    \/ \E n \in Nodes : Replicate(n, o) \/ Store(o, n) \/ Read(o, n)

Spec == Init /\ [][Next]_vars

\* Timeouts fire and messages are treated.  Peers may never answer, searches may
\* never end, and the deadline may be far away.
FairSpec == Spec /\ \A o \in Ops : WF_vars(Treat(o))

-----------------------------------------------------------------------------
(* Safety *)

\* A set that reports success was stored by all the peers it asked but fewer
\* than the threshold, though a peer that stored the value can count as an
\* error too, and stores can arrive after the end.
SetIsQuorate ==
  \A o \in Setters :
    outcome[o] = "set" => Cardinality(asked[o] \ wrote[o]) < ErrorThreshold

\* A get that begins to ask after a set has succeeded, and asks enough of the
\* same peers, does not fail once they all answered: whatever the two did with
\* other peers, with timeouts and with values that replicaters wrote meanwhile.
GetFindsSet ==
  \A g \in Gets : \A s \in earlier[g] :
    /\ Cardinality(asked[g] \cap asked[s]) >= ErrorThreshold
    /\ answered[g] = asked[g]
    => outcome[g] = "got" /\ value[g] \in Values

\* Each node has at most one replication of the key under way or planned: the
\* rounds do not multiply when the key is stored again, by its own round too.
OneChain ==
  \A n \in Nodes : due[n] + Cardinality({o \in Rounds : owner[o] = n /\ Alive(o)}) <= 1

-----------------------------------------------------------------------------
(* The inductive invariant *)

\* What a call has, by how far it is.  Messages to a dead actor are gone.
CallInv ==
  /\ \A o \in Ops :
       /\ actor[o] # "asking" => queries[o] = {} /\ nErrors[o] = 0
       /\ actor[o] \in {"idle", "searching"} => asked[o] = {} /\ wrote[o] = {} /\ answered[o] = {}
       /\ actor[o] = "asking" => pendingRequests[o] > 0
       /\ actor[o] # "killed" => outcome[o] = "none"
       /\ queries[o] \subseteq asked[o]
  /\ \A o \in Setters : actor[o] # "idle" => value[o] \in Values
  /\ \A a \in answers : actor[a.op] = "asking"
  /\ \A t \in timers : actor[t.op] = "asking"
  /\ \A q \in requests : actor[q.op] \in {"asking", "killed"}

\* pendingRequests and nErrors make up for the peers that did not confirm.
CountInv ==
  /\ \A o \in Setters :
       actor[o] = "asking" =>
         \E confirmed \in SUBSET (asked[o] \cap wrote[o]) :
           /\ confirmed \cap queries[o] = {}
           /\ Cardinality(asked[o] \ confirmed) = pendingRequests[o] + nErrors[o]
  /\ \A a \in answers : a.op \in Setters => a.node \in wrote[a.op]

\* Values stay where they were stored.
StorageInv ==
  /\ \A o \in Setters : \A n \in wrote[o] : storage[n] # None
  /\ \A o \in Ops : \A n \in holders[o] : storage[n] # None

\* A peer that held a value when it was asked does not answer that it has none.
GetInv ==
  /\ \A g \in Gets : \A s \in earlier[g] : Cardinality(asked[s] \ holders[g]) < ErrorThreshold
  /\ \A o \in Ops : \A s \in earlier[o] : outcome[s] = "set"
  /\ \A a \in answers : a.op \in Gets /\ a.value = None => a.node \notin holders[a.op]
  /\ \A g \in Gets :
       answered[g] \cap holders[g] # {} => outcome[g] = "got" /\ value[g] \in Values

\* OneChain, and a node without a value is not replicating.
ActiveRound(o, n) == o \in Rounds /\ owner[o] = n /\ Alive(o)
ChainInv ==
  /\ \A n \in Nodes :
       /\ due[n] <= 1
       /\ \A o, p \in Rounds : ActiveRound(o, n) => due[n] = 0 /\ (ActiveRound(p, n) => o = p)
       /\ storage[n] = None => due[n] = 0 /\ \A o \in Rounds : ~ActiveRound(o, n)
  /\ \A o \in Ops : isHandlingKey[o] => o \in Rounds
  /\ \A o \in Ops : owner[o] # None => o \in Rounds /\ actor[o] # "idle"

KeyValueInv == TypeOK /\ CallInv /\ CountInv /\ SetIsQuorate /\ StorageInv /\ GetInv /\ ChainInv

\* The peers whose timeout did not fire yet for a call
Awaited(o) == {n \in Nodes : [op |-> o, node |-> n] \in timers}

\* A call waits for no more answers than there are timeouts to come in their
\* place, though an answered query is counted down twice: without it a call
\* that lost its answers could wait for ever.
PendingInv == \A o \in Ops : actor[o] = "asking" => pendingRequests[o] <= Cardinality(Awaited(o))

CallsInv == KeyValueInv /\ PendingInv

-----------------------------------------------------------------------------
(* Liveness *)

\* A call that asked its peers ends by the timeouts of its queries, without its
\* deadline, though an answered query is counted down twice.
AskingEnds == <>[](\A o \in Ops : actor[o] # "asking")
=============================================================================
