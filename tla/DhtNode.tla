------------------------------- MODULE DhtNode -------------------------------
(***************************************************************************)
(* A DHT node as the others see it: fromN2NP and send of dht/node.cpp,     *)
(* processPacket of dht/internal-node.cpp, the Ping, Find, Get and Store   *)
(* actors of dht/static-actors.cpp and the packets of dht/packet.cpp, over *)
(* the routing table.                                                      *)
(*                                                                         *)
(* fromN2NP runs in the thread that reads from the relay; it updates the   *)
(* table and posts requests to the node's pool, whose workers take them in *)
(* any order.  What the node's own queries do with answers is the subject  *)
(* of Finder.tla and KeyValue.tla, and the values that Get and Store carry *)
(* of KeyValue.tla.                                                        *)
(***************************************************************************)
EXTENDS RoutingTable

CONSTANTS Others,       \* the Ids of the nodes that send packets to this one
          Address,      \* the N2NP id of each of them
          Targets,      \* the Ids that FIND asks for
          MaxFinds,     \* bound: the counts it asks for
          MaxTime,      \* bound: of the clock
          MaxWaiting    \* bound: requests that wait in the pool

ASSUME OthersAssumption == Others \subseteq Ids /\ Address \in [Others -> N2NPIds]
ASSUME FindsAssumption  == Targets \subseteq Ids /\ MaxFinds \in Nat \ {0}

RequestMethods == {"PING", "GET", "STORE", "FIND"}
AnswerMethods  == {"PONG", "GOT", "STORED", "FOUND"}
AnswerTo   == [PING |-> "PONG", GET |-> "GOT", STORE |-> "STORED", FIND |-> "FOUND"]

\* count and target are read for FIND only, and are 0 and {} otherwise.
Finds == [method : {"FIND"}, from : Others, target : Targets, count : 1..MaxFinds]
Rest  == [method : (RequestMethods \cup AnswerMethods) \ {"FIND"},
          from : Others, target : {{}}, count : {0}]

VARIABLES
  alive,     \* FALSE once the process of this node has ended
  waiting,   \* the requests posted to the static actors and not treated yet
  answer     \* the last answer sent

nodeVars == <<tableVars, alive, waiting, answer>>

DhtInit == TableInit /\ alive = TRUE /\ waiting = {} /\ answer = [method |-> "PONG", peers |-> {}]

-----------------------------------------------------------------------------
(* Packets *)

\* Packet(GTTPacket&) executes a throw without exception, which ends the process,
\* when a header is missing, the method is unknown, or a FOUND has no body; a
\* FOUND has a body when it has a peer.
Readable(a) == a.method = "FOUND" => a.peers # {}

\* Mutant: only answers update the routing table.
SeenIfAnswer(p) ==
  IF p.method \in RequestMethods THEN UNCHANGED tableVars ELSE SeenPeer(p.from, Address[p.from])

SeenSender(p) == SeenPeer(p.from, Address[p.from])

\* fromN2NP on a packet that can be read, and processPacket: what is not a
\* request is nothing to the static actors.
ProcessPacket(p) ==
  /\ alive /\ Cardinality(waiting) < MaxWaiting
  /\ SeenSender(p)
  /\ waiting' = IF p.method \in RequestMethods THEN waiting \cup {p} ELSE waiting
  /\ UNCHANGED <<alive, answer>>

\* fromN2NP on a packet that cannot
Terminate == alive /\ alive' = FALSE /\ UNCHANGED <<tableVars, waiting, answer>>

\* A static actor treats the request p, and sends its answer to the peer.
TreatRequest(p) ==
  /\ alive /\ p \in waiting
  /\ waiting' = waiting \ {p}
  /\ answer' = [method |-> AnswerTo[p.method],
                peers  |-> IF p.method = "FIND" THEN {q.id : q \in FindNearestNodes(p.target, p.count)}
                           ELSE {}]
  /\ UNCHANGED <<tableVars, alive>>

Wait == now < MaxTime /\ Tick /\ UNCHANGED <<alive, waiting, answer>>

DhtNext ==
  \/ \E p \in Finds \cup Rest : ProcessPacket(p)
  \/ \E p \in waiting : TreatRequest(p)
  \/ Terminate
  \/ Wait

DhtSpec == DhtInit /\ [][DhtNext]_nodeVars

-----------------------------------------------------------------------------
(* Safety *)

\* No answer ends the process of the node that receives it: the table has a peer
\* for every search, because the sender of the request was put in it, or found it
\* full, before a worker treats the request, however long that waited.
AnswersAreReadable == Readable(answer)

-----------------------------------------------------------------------------
(* The inductive invariant *)

\* What waits finds a peer in the table.
FindsFindPeers == waiting # {} => \E i \in 0..(LENGTH - 1) : buckets[i] # <<>>

DhtInv ==
  /\ TableOK
  /\ waiting \subseteq {p \in Finds \cup Rest : p.method \in RequestMethods}
  /\ FindsFindPeers
  /\ AnswersAreReadable
=============================================================================
