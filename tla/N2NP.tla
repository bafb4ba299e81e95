-------------------------------- MODULE N2NP --------------------------------
(***************************************************************************)
(* n2np/node.cpp, relay.cpp and relaysocket.cpp: nodes, each with one TCP  *)
(* connection to the relay of its address, and relays that name them and   *)
(* route their packets.                                                    *)
(*                                                                         *)
(* A connection is a pair of FIFO streams of packets; how packets are cut  *)
(* into bytes is Parsers.tla's subject.  A relay sees one RelaySocket per  *)
(* connection, read by one thread at a time (NetSelect.tla), and treats    *)
(* what they post with a WorkerPool of one thread, a FIFO.  A node has one *)
(* thread that reads its connection, calls its modules and may send from   *)
(* there, and any number of others that send: a send takes an id and then  *)
(* writes, and holds no lock between the two.                              *)
(*                                                                         *)
(* Nothing catches what a send or a receive on a broken socket throws, and *)
(* SIGPIPE is not ignored: the process of the relay ends there (crashed).  *)
(***************************************************************************)
EXTENDS Sequences, Naturals, FiniteSets

CONSTANTS Clients,    \* the nodes of the whole run, each with its connection
          Relays,
          Home,       \* the relay each of them connects to
          Methods,    \* the methods of the packets users send
          Modules,    \* the methods each node has a module for
          Users,      \* the threads that send through a node, but its reader
          Senders,    \* the nodes whose users send
          Repliers,   \* the nodes whose modules send
          Leavers,    \* the nodes that end
          Punched,    \* the destinations each node gets a direct socket to
          Stopped,    \* the relays that detach all their nodes
          MaxSends,   \* bound: packets each node sends, but for ACK and ERR
          None

ASSUME HomeAssumption == Home \in [Clients -> Relays]
ASSUME MethodsAssumption ==
  /\ Modules \in [Clients -> SUBSET Methods]
  /\ Methods \cap {"ID", "ACK", "ERR"} = {}
ASSUME UsersAssumption == "reader" \notin Users
ASSUME NoneAssumption == None \notin Relays \X Nat /\ None \notin Nat

Threads == Users \cup {"reader"}

\* A NodeId is a relay and a name: 0 for the relay itself, "self" for 1
NodeIds     == Relays \X Nat
RelayId(r)  == <<r, 0>>
SelfName(r) == <<r, 1>>

\* "by", the thread that built the packet, is a history: it is not on the wire.
Packets == [method : Methods \cup {"ACK", "ERR"}, from : NodeIds, to : NodeIds, id : Nat,
            acks : Nat \cup {None}, by : Threads]

\* The packets ID: a node asks for its id, and the relay gives it one.
IdRequest(c) == [method |-> "ID", from |-> None, to |-> RelayId(Home[c]), id |-> 0, acks |-> None]
IdGrants     == [method : {"ID"}, from : NodeIds, to : NodeIds, id : {0}, acks : {None}]

VARIABLES
  nodes,      \* Relay::nodes: pairs of a name and the client it stands for
  nodeNextId,
  queue,      \* the packets posted to each relay's pool
  transit,    \* packets on the connections between relays, one each
  rsocket,    \* each RelaySocket: "open", "attaching" or "destroyed"
  rsocketId,  \* its nodeid; while attaching, the name attachNode() chose
  shut,       \* whether the relay closed its side of the connection
  ended,      \* how the node's side ended: "no", "fin", "finrst" or "rst"
  up, down,   \* the two directions of each connection
  nodeid,     \* Node::nodeid, None while hasId is false
  curId, sentMap, direct,
  out,        \* what each thread of a node is about to write, or None
  calling,    \* the packet whose module each reader is calling, or None
  treated,    \* the packets each node gave to a module
  acked,      \* the ids each node received an ACK for
  crashed     \* the relays whose process has ended

relayVars == <<nodes, nodeNextId, queue, transit, rsocket, rsocketId, shut, crashed>>
nodeVars  == <<nodeid, curId, sentMap, direct, out, calling, treated, acked>>
connVars  == <<ended, up, down>>
vars      == <<relayVars, nodeVars, connVars>>

TypeOK ==
  /\ nodes \in [Relays -> SUBSET (Nat \X Clients)]
  /\ nodeNextId \in [Relays -> Nat \ {0}]
  /\ queue \in [Relays -> Seq(Packets)] /\ transit \in [Relays -> SUBSET Packets]
  /\ rsocket \in [Clients -> {"open", "attaching", "destroyed"}]
  /\ rsocketId \in [Clients -> NodeIds \cup {None}]
  /\ shut \in [Clients -> BOOLEAN]
  /\ ended \in [Clients -> {"no", "fin", "finrst", "rst"}]
  /\ up \in [Clients -> Seq(Packets \cup {IdRequest(c) : c \in Clients})]
  /\ down \in [Clients -> Seq(Packets \cup IdGrants)]
  /\ nodeid \in [Clients -> NodeIds \cup {None}]
  /\ curId \in [Clients -> Nat] /\ sentMap \in [Clients -> SUBSET Nat]
  /\ direct \in [Clients -> SUBSET NodeIds]
  /\ out \in [Clients -> [Threads -> Packets \cup {None}]]
  /\ calling \in [Clients -> Packets \cup {None}]
  /\ treated \in [Clients -> Seq(Packets)] /\ acked \in [Clients -> SUBSET (Nat \cup {None})]
  /\ crashed \subseteq Relays

\* The packet that thread t of c builds with the next id of c
Packet(c, t, method, to, acks) ==
  [method |-> method, from |-> nodeid[c], to |-> to, id |-> curId[c], acks |-> acks, by |-> t]

\* Node::Node has sent the request for an id, stored like any other packet
Init ==
  /\ nodes = [r \in Relays |-> {}] /\ nodeNextId = [r \in Relays |-> 1]
  /\ queue = [r \in Relays |-> <<>>] /\ transit = [r \in Relays |-> {}]
  /\ rsocket = [c \in Clients |-> "open"] /\ rsocketId = [c \in Clients |-> None]
  /\ shut = [c \in Clients |-> FALSE] /\ ended = [c \in Clients |-> "no"]
  /\ up = [c \in Clients |-> <<IdRequest(c)>>]
  /\ down = [c \in Clients |-> <<>>]
  /\ nodeid = [c \in Clients |-> None]
  /\ curId = [c \in Clients |-> 1] /\ sentMap = [c \in Clients |-> {0}]
  /\ direct = [c \in Clients |-> {}]
  /\ out = [c \in Clients |-> [t \in Threads |-> None]]
  /\ calling = [c \in Clients |-> None]
  /\ treated = [c \in Clients |-> <<>>] /\ acked = [c \in Clients |-> {}]
  /\ crashed = {}

-----------------------------------------------------------------------------
(* Relay and RelaySocket *)

Running(c) == Home[c] \notin crashed

\* Socket::sendBytes of the relay to c: the first packet to a node that has
\* gone is lost and answered by a reset, the next one ends the process.
SendDown(c, p) ==
  \/ /\ ended[c] = "no"
     /\ down' = [down EXCEPT ![c] = Append(@, p)]
     /\ UNCHANGED <<ended, crashed>>
  \/ /\ ended[c] = "fin"
     /\ ended' = [ended EXCEPT ![c] = "finrst"]
     /\ UNCHANGED <<down, crashed>>
  \/ /\ ended[c] \in {"finrst", "rst"}
     /\ crashed' = crashed \cup {Home[c]}
     /\ UNCHANGED <<down, ended>>

\* Mutant: attachNode forgets to count.
SameNumber(r) == nodeNextId[r]

NextNumber(r) == nodeNextId[r] + 1

\* RelaySocket::eat on a request for an id: attachNode() up to the insertion,
\* under a fresh name, so that it replaces no entry
Attach(c) ==
  LET r == Home[c] IN
  /\ Running(c) /\ rsocket[c] = "open" /\ up[c] # <<>>
  /\ Head(up[c]).method = "ID" /\ Head(up[c]).to = RelayId(r)
  /\ up' = [up EXCEPT ![c] = Tail(@)]
  /\ nodeNextId' = [nodeNextId EXCEPT ![r] = NextNumber(r)]
  /\ nodes' = [nodes EXCEPT ![r] = @ \cup {<<nodeNextId[r], c>>}]
  /\ rsocket' = [rsocket EXCEPT ![c] = "attaching"]
  /\ rsocketId' = [rsocketId EXCEPT ![c] = <<r, nodeNextId[r]>>]
  /\ UNCHANGED <<queue, transit, shut, crashed, ended, down, nodeVars>>

\* attachNode() sends the id, without nodesMutex: detachAllNodes() may have
\* closed the socket, and TCPSocket::send then fails an assertion.
SendID(c) ==
  /\ Running(c) /\ rsocket[c] = "attaching"
  /\ rsocket' = [rsocket EXCEPT ![c] = "open"]
  /\ \/ /\ ~shut[c]
        /\ SendDown(c, [method |-> "ID", from |-> RelayId(Home[c]), to |-> rsocketId[c],
                        id |-> 0, acks |-> None])
     \/ /\ shut[c]
        /\ crashed' = crashed \cup {Home[c]}
        /\ UNCHANGED <<ended, down>>
  /\ UNCHANGED <<nodes, nodeNextId, queue, transit, rsocketId, shut, up, nodeVars>>

\* RelaySocket::eat on any other packet
PostUp(c) ==
  /\ Running(c) /\ rsocket[c] = "open" /\ up[c] # <<>>
  /\ Head(up[c]).method # "ID"
  /\ up' = [up EXCEPT ![c] = Tail(@)]
  /\ queue' = [queue EXCEPT ![Home[c]] = Append(@, Head(up[c]))]
  /\ UNCHANGED <<nodes, nodeNextId, transit, rsocket, rsocketId, shut, crashed, ended, down,
                 nodeVars>>

\* A packet that another relay sent on a connection of its own: nothing
\* orders these connections.
PostTransit(r, p) ==
  /\ r \notin crashed /\ p \in transit[r]
  /\ transit' = [transit EXCEPT ![r] = @ \ {p}]
  /\ queue' = [queue EXCEPT ![r] = Append(@, p)]
  /\ UNCHANGED <<nodes, nodeNextId, rsocket, rsocketId, shut, crashed, connVars, nodeVars>>

\* Mutant: the pool of the relay treats its packets in the wrong order, as
\* several workers could.
LastFirst(r) == Len(queue[r])

NextPacket(r) == 1

Without(s, i) == SubSeq(s, 1, i - 1) \o SubSeq(s, i + 1, Len(s))

Destinations(r, p) == {c \in Clients : <<p.to[2], c>> \in nodes[r]}

\* Relay::treat
Treat(r) ==
  /\ r \notin crashed /\ queue[r] # <<>>
  /\ queue' = [queue EXCEPT ![r] = Without(@, NextPacket(r))]
  /\ LET p == queue[r][NextPacket(r)] IN
     \/ /\ p.to[1] # r
        /\ transit' = IF p.to[1] \in crashed THEN transit
                      ELSE [transit EXCEPT ![p.to[1]] = @ \cup {p}]
        /\ UNCHANGED <<crashed, ended, down>>
     \/ /\ p.to[1] = r
        /\ \E c \in Destinations(r, p) : SendDown(c, p)
        /\ UNCHANGED transit
     \/ /\ p.to[1] = r /\ Destinations(r, p) = {}
        /\ UNCHANGED <<transit, crashed, ended, down>>
  /\ UNCHANGED <<nodes, nodeNextId, rsocket, rsocketId, shut, up, nodeVars>>

\* Mutant: ~RelaySocket does not detach.
KeepEntry(c) == nodes

\* detachNode(), of the id of this RelaySocket if it has one
Detached(c) ==
  IF rsocketId[c] = None THEN nodes
  ELSE [nodes EXCEPT ![Home[c]] = {e \in @ : e[1] # rsocketId[c][2]}]

\* read() returns false, or the select loop found the socket closed: NetSelect
\* kills the RelaySocket.
Destroy(c) ==
  /\ Running(c) /\ rsocket[c] = "open"
  /\ shut[c] \/ (up[c] = <<>> /\ ended[c] \in {"fin", "finrst"})
  /\ rsocket' = [rsocket EXCEPT ![c] = "destroyed"]
  /\ nodes' = Detached(c)
  /\ shut' = [shut EXCEPT ![c] = TRUE]
  /\ UNCHANGED <<nodeNextId, queue, transit, rsocketId, crashed, connVars, nodeVars>>

\* recv throws: on a reset connection, or on the socket that was closed under
\* the thread that was about to read it.
RecvThrows(c) ==
  /\ Running(c) /\ rsocket[c] = "open"
  /\ shut[c] \/ (up[c] = <<>> /\ ended[c] = "rst")
  /\ crashed' = crashed \cup {Home[c]}
  /\ UNCHANGED <<nodes, nodeNextId, queue, transit, rsocket, rsocketId, shut, connVars, nodeVars>>

\* detachAllNodes(): each NodeInfo closes the socket it shares
DetachAllNodes(r) ==
  /\ r \in Stopped \ crashed /\ nodes[r] # {}
  /\ nodes' = [nodes EXCEPT ![r] = {}]
  /\ shut' = [c \in Clients |-> shut[c] \/ \E e \in nodes[r] : e[2] = c]
  /\ UNCHANGED <<nodeNextId, queue, transit, rsocket, rsocketId, crashed, connVars, nodeVars>>

RelayNext ==
  \/ \E c \in Clients :
       Attach(c) \/ SendID(c) \/ PostUp(c) \/ Destroy(c) \/ RecvThrows(c)
  \/ \E r \in Relays : Treat(r) \/ DetachAllNodes(r) \/ \E p \in transit[r] : PostTransit(r, p)

-----------------------------------------------------------------------------
(* Node *)

Up(c) == ended[c] = "no"

\* The first half of Node::send, which asserts that the node has an id, takes
\* the next number
Prepare(c, t, p) ==
  /\ nodeid[c] # None
  /\ out' = [out EXCEPT ![c][t] = p]
  /\ curId' = [curId EXCEPT ![c] = @ + 1]

\* Users know the ids of the nodes that have one, and the name "self".
Known == {SelfName(r) : r \in Relays} \cup ({nodeid[c] : c \in Clients} \ {None})

\* Users send when they like, and modules while they are called.
MaySend(c, t) ==
  \/ t \in Users /\ c \in Senders
  \/ t = "reader" /\ c \in Repliers /\ calling[c] # None

Send(c, t, to, method) ==
  /\ Up(c) /\ out[c][t] = None /\ MaySend(c, t)
  /\ Cardinality(sentMap[c] \cup acked[c]) <= MaxSends
  /\ Prepare(c, t, Packet(c, t, method, to, None))
  /\ sentMap' = [sentMap EXCEPT ![c] = @ \cup {curId[c]}]
  /\ UNCHANGED <<relayVars, connVars, nodeid, direct, calling, treated, acked>>

\* The second half: the packet goes to the direct socket of its destination or
\* of the relay of its destination, which nothing reads at the other end, or
\* to the relay of the node.
Direct(c, to) == {to, RelayId(to[1])} \cap direct[c] # {}

Write(c, t) ==
  /\ Up(c) /\ out[c][t] # None
  /\ up' = IF Direct(c, out[c][t].to) \/ shut[c] \/ ~Running(c) THEN up
           ELSE [up EXCEPT ![c] = Append(@, out[c][t])]
  /\ out' = [out EXCEPT ![c][t] = None]
  /\ UNCHANGED <<relayVars, ended, down, nodeid, curId, sentMap, direct, calling,
                 treated, acked>>

\* offerDirectConn(), by the module of NAT punching, for an id of mruNodeIds:
\* that of a node, or of the relay which was asked for an id
Offered == Known \cup {RelayId(r) : r \in Relays}

OfferDirectConn(c, id) ==
  /\ Up(c) /\ id \in (Offered \cap Punched[c]) \ direct[c]
  /\ direct' = [direct EXCEPT ![c] = @ \cup {id}]
  /\ UNCHANGED <<relayVars, connVars, nodeid, curId, sentMap, out, calling, treated, acked>>

\* Node::treat, on the first packet the node received and did not treat
Reading(c)  == Up(c) /\ out[c]["reader"] = None
CanTreat(c) == Reading(c) /\ calling[c] = None /\ down[c] # <<>>
First(c)    == Head(down[c])
Taken(c)    == down' = [down EXCEPT ![c] = Tail(@)]

SetId(c) ==
  /\ CanTreat(c) /\ nodeid[c] = None /\ First(c).method = "ID"
  /\ Taken(c)
  /\ nodeid' = [nodeid EXCEPT ![c] = First(c).to]
  /\ UNCHANGED <<relayVars, ended, up, curId, sentMap, direct, out, calling,
                 treated, acked>>

\* A first message that is not the id, or a packet for another node
BadRouting(c) == IF nodeid[c] = None THEN First(c).method # "ID" ELSE First(c).to # nodeid[c]

Discard(c) ==
  /\ CanTreat(c)
  /\ BadRouting(c) \/ First(c).method = "ERR"
  /\ Taken(c)
  /\ UNCHANGED <<relayVars, ended, up, nodeVars>>

ForMe(c) == CanTreat(c) /\ nodeid[c] # None /\ First(c).to = nodeid[c]

TreatAck(c) ==
  /\ ForMe(c) /\ First(c).method = "ACK"
  /\ Taken(c)
  /\ sentMap' = [sentMap EXCEPT ![c] = @ \ {First(c).acks}]
  /\ acked' = [acked EXCEPT ![c] = @ \cup {First(c).acks}]
  /\ UNCHANGED <<relayVars, ended, up, nodeid, curId, direct, out, calling, treated>>

\* A module is called, and the packet acknowledged even if it throws
CallModule(c) ==
  /\ ForMe(c) /\ First(c).method \in Modules[c]
  /\ Taken(c)
  /\ treated' = [treated EXCEPT ![c] = Append(@, First(c))]
  /\ calling' = [calling EXCEPT ![c] = First(c)]
  /\ UNCHANGED <<relayVars, ended, up, nodeid, curId, sentMap, direct, out, acked>>

Acknowledge(c) ==
  /\ Reading(c) /\ calling[c] # None
  /\ calling' = [calling EXCEPT ![c] = None]
  /\ Prepare(c, "reader", Packet(c, "reader", "ACK", calling[c].from, calling[c].id))
  /\ UNCHANGED <<relayVars, connVars, nodeid, sentMap, direct, treated, acked>>

\* Mutant: a packet no module is bound to falls through to the acknowledgement.
AckAnyway == "ACK"

RefusedWith == "ERR"

NoModule(c) ==
  /\ ForMe(c) /\ First(c).method \in Methods \ Modules[c]
  /\ Taken(c)
  /\ Prepare(c, "reader", Packet(c, "reader", RefusedWith, First(c).from, First(c).id))
  /\ UNCHANGED <<relayVars, ended, up, nodeid, sentMap, direct, calling, treated, acked>>

\* The node ends: destroyed by its user, or killed by its NetSelect when it
\* reads the end of its connection.  Closing on unread data resets it.
End(c) ==
  /\ Up(c)
  /\ c \in Leavers \/ (down[c] = <<>> /\ (shut[c] \/ ~Running(c)))
  /\ \E e \in IF down[c] = <<>> THEN {"fin"} ELSE {"finrst", "rst"} :
       ended' = [ended EXCEPT ![c] = e]
  /\ out' = [out EXCEPT ![c] = [t \in Threads |-> None]]
  /\ calling' = [calling EXCEPT ![c] = None]
  /\ UNCHANGED <<relayVars, up, down, nodeid, curId, sentMap, direct, treated, acked>>

NodeNext ==
  \E c \in Clients :
    \/ \E t \in Threads, to \in Known, m \in Methods : Send(c, t, to, m)
    \/ \E t \in Threads : Write(c, t)
    \/ \E id \in Offered : OfferDirectConn(c, id)
    \/ SetId(c) \/ Discard(c) \/ TreatAck(c)
    \/ CallModule(c) \/ Acknowledge(c) \/ NoModule(c)
    \/ End(c)

Next == RelayNext \/ NodeNext

Spec == Init /\ [][Next]_vars

-----------------------------------------------------------------------------
(* Safety *)

\* Two packets that a node treats, from one thread of one node of its relay,
\* were sent in that order: whatever threads of the relay they went through,
\* whatever the other threads of the node sent meanwhile, and whichever names
\* came and went, packets may be lost but not overtake each other.  Those of two
\* threads may: nothing orders taking an id and writing.
InOrder ==
  \A c \in Clients : \A i, j \in 1..Len(treated[c]) :
    LET p == treated[c][i]
        q == treated[c][j]
    IN  (i < j /\ p.from = q.from /\ p.by = q.by /\ p.from[1] = p.to[1]) => p.id < q.id

\* What a sender forgets was treated: an id leaves sentMap when a module of the
\* destination had the packet, once, and never comes back.
AckedMeansTreated ==
  \A c \in Clients :
    /\ acked[c] \cap sentMap[c] = {}
    /\ \A i \in acked[c] : \E d \in Clients : \E j \in 1..Len(treated[d]) :
         treated[d][j].from = nodeid[c] /\ treated[d][j].id = i

\* A node is only sent packets for itself, and no id ever stands for two nodes:
\* a packet for a node that left reaches nobody, least of all a newcomer.
OwnPacketsOnly ==
  /\ \A c \in Clients : \A i \in 1..Len(down[c]) : down[c][i].to = rsocketId[c]
  /\ \A c, d \in Clients : rsocketId[c] = rsocketId[d] /\ c # d => rsocketId[c] = None

\* Every entry of the relay is that of a RelaySocket which still lives and will
\* detach it: none is left behind by a node that ended, however it did.
NoStaleEntry ==
  \A r \in Relays \ crashed : \A e \in nodes[r] :
    rsocket[e[2]] # "destroyed" /\ rsocketId[e[2]] = <<r, e[1]>>

-----------------------------------------------------------------------------
(* The inductive invariant *)

\* A connection asks for a name once, and first; names are given in order, by the
\* relay of the connection, and the entries of a relay are of living RelaySockets.
NameInv ==
  /\ \A c \in Clients : \A i \in 1..Len(up[c]) :
       up[c][i].method = "ID" => i = 1 /\ rsocketId[c] = None
  /\ \A c \in Clients : rsocket[c] = "attaching" => rsocketId[c] # None
  /\ \A c \in Clients :
       rsocketId[c] # None => /\ rsocketId[c][1] = Home[c]
                              /\ rsocketId[c][2] < nodeNextId[Home[c]]
  /\ \A r \in Relays : \A e \in nodes[r] :
       rsocket[e[2]] # "destroyed" /\ rsocketId[e[2]] = <<r, e[1]>>

N2NPInv == TypeOK /\ NameInv /\ OwnPacketsOnly
=============================================================================
