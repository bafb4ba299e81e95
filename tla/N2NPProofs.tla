----------------------------- MODULE N2NPProofs -----------------------------
(***************************************************************************)
(* Theorems about N2NP, for any nodes, relays, methods and modules, and    *)
(* whoever sends, leaves, punches and stops: the names of the nodes, and   *)
(* what becomes of packets on their way, which keep their order within a   *)
(* relay and are acknowledged only when they were treated.                 *)
(***************************************************************************)
EXTENDS N2NP, SequenceTheorems, TLAPS

-----------------------------------------------------------------------------
(* Packets *)

UpPackets   == Packets \cup {IdRequest(c) : c \in Clients}
DownPackets == Packets \cup IdGrants

\* No packet that a user, a module or an acknowledgement makes asks for an id, and
\* an id is asked for without sender.
LEMMA PacketKinds ==
  /\ \A p \in Packets : p.method # "ID" /\ p.to \in NodeIds
  /\ \A p \in IdGrants : p.method = "ID" /\ p.to \in NodeIds
  /\ \A c \in Clients : IdRequest(c).method = "ID"
  /\ \A i \in NodeIds : i # None /\ i = <<i[1], i[2]>> /\ i[1] \in Relays /\ i[2] \in Nat
BY MethodsAssumption, NoneAssumption DEF Packets, IdGrants, IdRequest, NodeIds

\* What Node::send builds once the node has an id is a packet.
LEMMA PacketTyped ==
  ASSUME TypeOK, NEW c \in Clients, NEW t \in Threads, nodeid[c] # None,
         NEW m \in Methods \cup {"ACK", "ERR"}, NEW to \in NodeIds, NEW acks \in Nat \cup {None}
  PROVE  Packet(c, t, m, to, acks) \in Packets
BY DEF TypeOK, Packet, Packets

LEMMA N2NPInvInit == Init => N2NPInv
<1> SUFFICES ASSUME Init PROVE N2NPInv
    OBVIOUS
<1>1. TypeOK
  <2>1. \A c \in Clients : <<IdRequest(c)>> \in Seq(UpPackets)
      BY DEF UpPackets
  <2>2. up \in [Clients -> Seq(UpPackets)]
      BY <2>1 DEF Init
  <2> QED BY <2>2 DEF Init, TypeOK, UpPackets, Threads
<1>2. NameInv
    BY DEF Init, NameInv
<1>3. OwnPacketsOnly
    BY DEF Init, OwnPacketsOnly
<1> QED BY <1>1, <1>2, <1>3 DEF N2NPInv

-----------------------------------------------------------------------------
(* Steps that leave names and streams alone *)

LEMMA QuietInv ==
  ASSUME NameInv, OwnPacketsOnly, UNCHANGED <<up, down, nodes, nodeNextId, rsocket, rsocketId>>
  PROVE  NameInv' /\ OwnPacketsOnly'
BY DEF NameInv, OwnPacketsOnly

\* A node takes the first packet that the relay sent to it.
LEMMA TakenInv ==
  ASSUME N2NPInv, NEW c \in Clients, CanTreat(c), Taken(c),
         UNCHANGED <<up, nodes, nodeNextId, rsocket, rsocketId>>
  PROVE  NameInv' /\ OwnPacketsOnly' /\ First(c) \in DownPackets
         /\ down' \in [Clients -> Seq(DownPackets)]
<1>1. down \in [Clients -> Seq(DownPackets)] /\ down[c] # <<>>
    BY DEF N2NPInv, TypeOK, DownPackets, CanTreat
<1>2. First(c) \in DownPackets /\ Tail(down[c]) \in Seq(DownPackets)
    BY <1>1 DEF First
<1>3. down' \in [Clients -> Seq(DownPackets)]
    BY <1>1, <1>2 DEF Taken
<1>4. NameInv'
    BY DEF N2NPInv, NameInv
<1>5. OwnPacketsOnly'
  <2>1. ASSUME NEW d \in Clients, NEW i \in 1..Len(down'[d])
        PROVE  \E j \in 1..Len(down[d]) : down'[d][i] = down[d][j]
    <3>1. CASE d # c
      <4>1. down'[d] = down[d]
          BY <1>1, <3>1 DEF Taken
      <4> QED BY <2>1, <4>1
    <3>2. CASE d = c
      <4>1. down'[c] = Tail(down[c])
          BY <1>1 DEF Taken
      <4>2. i + 1 \in 1..Len(down[c]) /\ down'[c][i] = down[c][i + 1]
          BY <1>1, <2>1, <3>2, <4>1
      <4> QED BY <3>2, <4>2
    <3> QED BY <3>1, <3>2
  <2> QED BY <2>1 DEF N2NPInv, OwnPacketsOnly
<1> QED BY <1>2, <1>3, <1>4, <1>5

\* The relay sends a packet that is for this node.
LEMMA SentDownInv ==
  ASSUME N2NPInv, NEW c \in Clients, NEW p \in DownPackets, SendDown(c, p), p.to = rsocketId[c],
         UNCHANGED rsocketId
  PROVE  /\ OwnPacketsOnly'
         /\ down' \in [Clients -> Seq(DownPackets)]
         /\ ended' \in [Clients -> {"no", "fin", "finrst", "rst"}] /\ crashed' \subseteq Relays
<1>1. down \in [Clients -> Seq(DownPackets)]
    BY DEF N2NPInv, TypeOK, DownPackets
<1>2. \/ down' = [down EXCEPT ![c] = Append(@, p)]
      \/ UNCHANGED down
    BY DEF SendDown
<1>3. down' \in [Clients -> Seq(DownPackets)]
  <2>1. Append(down[c], p) \in Seq(DownPackets)
      BY <1>1
  <2> QED BY <1>1, <1>2, <2>1
<1>4. ended' \in [Clients -> {"no", "fin", "finrst", "rst"}] /\ crashed' \subseteq Relays
  <2>1. /\ ended \in [Clients -> {"no", "fin", "finrst", "rst"}] /\ crashed \subseteq Relays
        /\ Home[c] \in Relays
      BY HomeAssumption DEF N2NPInv, TypeOK
  <2>2. /\ UNCHANGED ended \/ ended' = [ended EXCEPT ![c] = "finrst"]
        /\ UNCHANGED crashed \/ crashed' = crashed \cup {Home[c]}
      BY DEF SendDown
  <2> QED BY <2>1, <2>2
<1>5. ASSUME NEW d \in Clients, NEW i \in 1..Len(down'[d])
      PROVE  down'[d][i].to = rsocketId[d]
  <2>1. CASE UNCHANGED down \/ d # c
      BY <1>1, <1>2, <1>5, <2>1 DEF N2NPInv, OwnPacketsOnly
  <2>2. CASE d = c /\ down' = [down EXCEPT ![c] = Append(@, p)]
    <3>1. down'[c] = Append(down[c], p)
        BY <1>1, <2>2
    <3>2. down'[c][i] = p \/ (i \in 1..Len(down[c]) /\ down'[c][i] = down[c][i])
        BY <1>1, <1>5, <2>2, <3>1
    <3> QED BY <2>2, <3>2 DEF N2NPInv, OwnPacketsOnly
  <2> QED BY <1>2, <2>1, <2>2
<1> QED BY <1>3, <1>4, <1>5 DEF N2NPInv, OwnPacketsOnly

-----------------------------------------------------------------------------
(* Relay and RelaySocket *)

\* The name is new, so that no entry and no other connection has it, and the
\* connection had none: nothing was ever sent to it.
LEMMA AttachInv ==
  ASSUME N2NPInv, NEW c \in Clients, Attach(c)
  PROVE  N2NPInv'
<1> DEFINE r == Home[c]
           name == <<r, nodeNextId[r]>>
<1>1. TypeOK /\ NameInv /\ OwnPacketsOnly
    BY DEF N2NPInv
<1>2. r \in Relays /\ nodeNextId[r] \in Nat /\ name \in NodeIds
    BY <1>1, HomeAssumption DEF TypeOK, NodeIds
<1>3. /\ up \in [Clients -> Seq(UpPackets)] /\ up[c] # <<>> /\ up' = [up EXCEPT ![c] = Tail(@)]
      /\ nodeNextId' = [nodeNextId EXCEPT ![r] = nodeNextId[r] + 1]
      /\ nodes' = [nodes EXCEPT ![r] = @ \cup {<<nodeNextId[r], c>>}]
      /\ rsocket' = [rsocket EXCEPT ![c] = "attaching"]
      /\ rsocketId' = [rsocketId EXCEPT ![c] = name]
      /\ rsocket[c] = "open"
    BY <1>1 DEF Attach, NextNumber, TypeOK, UpPackets
<1>4. UNCHANGED <<queue, transit, shut, crashed, ended, down, nodeVars>>
    BY DEF Attach
<1>5. rsocketId[c] = None
    BY <1>1, <1>3 DEF Attach, NameInv
<1>6. down[c] = <<>>
  <2>1. \A i \in 1..Len(down[c]) : down[c][i].to # None
    <3>1. down[c] \in Seq(DownPackets)
        BY <1>1 DEF TypeOK, DownPackets
    <3>2. \A q \in DownPackets : q.to \in NodeIds
        BY PacketKinds DEF DownPackets
    <3>3. None \notin NodeIds
        BY PacketKinds
    <3> QED BY <3>1, <3>2, <3>3
  <2>2. down[c] \in Seq(DownPackets)
      BY <1>1 DEF TypeOK, DownPackets
  <2>3. \A i \in 1..Len(down[c]) : down[c][i].to = None
      BY <1>1, <1>5 DEF OwnPacketsOnly
  <2> QED BY <2>1, <2>2, <2>3
<1>7. TypeOK'
  <2>1. up' \in [Clients -> Seq(UpPackets)]
      BY <1>3
  <2>2. nodes' \in [Relays -> SUBSET (Nat \X Clients)] /\ nodeNextId' \in [Relays -> Nat \ {0}]
      BY <1>1, <1>2, <1>3 DEF TypeOK
  <2>3. /\ rsocket' \in [Clients -> {"open", "attaching", "destroyed"}]
        /\ rsocketId' \in [Clients -> NodeIds \cup {None}]
      BY <1>1, <1>2, <1>3 DEF TypeOK
  <2> QED BY <1>1, <1>4, <2>1, <2>2, <2>3 DEF TypeOK, nodeVars, UpPackets
<1>8. NameInv'
  <2>1. ASSUME NEW d \in Clients, NEW i \in 1..Len(up'[d]), up'[d][i].method = "ID"
        PROVE  i = 1 /\ rsocketId'[d] = None
    <3>1. CASE d # c
        BY <1>1, <1>3, <2>1, <3>1 DEF NameInv, TypeOK
    <3>2. CASE d = c
      <4>1. up'[c] = Tail(up[c])
          BY <1>3
      <4>2. i + 1 \in 1..Len(up[c]) /\ up'[c][i] = up[c][i + 1] /\ i # 0
          BY <1>3, <2>1, <3>2, <4>1
      <4> QED BY <1>1, <2>1, <3>2, <4>2 DEF NameInv
    <3> QED BY <3>1, <3>2
  <2>2. \A d \in Clients : rsocket'[d] = "attaching" => rsocketId'[d] # None
      BY <1>1, <1>2, <1>3, PacketKinds DEF NameInv, TypeOK
  <2>3. \A d \in Clients : rsocketId'[d] # None =>
          rsocketId'[d][1] = Home[d] /\ rsocketId'[d][2] < nodeNextId'[Home[d]]
    <3> SUFFICES ASSUME NEW d \in Clients, rsocketId'[d] # None
                 PROVE  rsocketId'[d][1] = Home[d] /\ rsocketId'[d][2] < nodeNextId'[Home[d]]
        OBVIOUS
    <3>1. CASE d = c
        BY <1>1, <1>2, <1>3, <3>1 DEF TypeOK
    <3>2. CASE d # c
      <4>1. rsocketId'[d] = rsocketId[d] /\ rsocketId[d] \in NodeIds
          BY <1>1, <1>3, <3>2 DEF TypeOK
      <4>2. rsocketId[d][1] = Home[d] /\ rsocketId[d][2] < nodeNextId[Home[d]]
            /\ rsocketId[d][2] \in Nat
          BY <1>1, <4>1 DEF NameInv, NodeIds
      <4>3. nodeNextId'[Home[d]] >= nodeNextId[Home[d]] /\ nodeNextId[Home[d]] \in Nat
            /\ nodeNextId'[Home[d]] \in Nat
        <5>1. Home[d] \in Relays /\ nodeNextId \in [Relays -> Nat \ {0}]
            BY <1>1, HomeAssumption DEF TypeOK
        <5>2. CASE Home[d] = r
            BY <1>2, <1>3, <5>1, <5>2
        <5>3. CASE Home[d] # r
            BY <1>2, <1>3, <5>1, <5>3
        <5> QED BY <5>2, <5>3
      <4> QED BY <4>1, <4>2, <4>3
    <3> QED BY <3>1, <3>2
  <2>4. \A s \in Relays : \A e \in nodes'[s] :
          rsocket'[e[2]] # "destroyed" /\ rsocketId'[e[2]] = <<s, e[1]>>
    <3> SUFFICES ASSUME NEW s \in Relays, NEW e \in nodes'[s]
                 PROVE  rsocket'[e[2]] # "destroyed" /\ rsocketId'[e[2]] = <<s, e[1]>>
        OBVIOUS
    <3>1. CASE s = r /\ e = <<nodeNextId[r], c>>
        BY <1>1, <1>2, <1>3, <3>1 DEF TypeOK
    <3>2. CASE e \in nodes[s]
      <4>1. rsocket[e[2]] # "destroyed" /\ rsocketId[e[2]] = <<s, e[1]>> /\ e[2] \in Clients
          BY <1>1, <3>2 DEF NameInv, TypeOK
      <4>2. <<s, e[1]>> # None
          BY <1>1, <3>2, NoneAssumption DEF TypeOK
      <4> QED BY <1>1, <1>3, <1>5, <4>1, <4>2 DEF TypeOK
    <3> QED BY <1>1, <1>2, <1>3, <3>1, <3>2 DEF TypeOK
  <2> QED BY <2>1, <2>2, <2>3, <2>4 DEF NameInv
<1>9. OwnPacketsOnly'
  <2>1. \A d \in Clients : \A i \in 1..Len(down'[d]) : down'[d][i].to = rsocketId'[d]
    <3> SUFFICES ASSUME NEW d \in Clients, NEW i \in 1..Len(down'[d])
                 PROVE  down'[d][i].to = rsocketId'[d]
        OBVIOUS
    <3>1. d # c
        BY <1>4, <1>6
    <3> QED BY <1>1, <1>3, <1>4, <3>1 DEF OwnPacketsOnly, TypeOK
  <2>2. \A d \in Clients \ {c} : rsocketId'[d] = rsocketId[d] /\ rsocketId[d] # name
    <3> SUFFICES ASSUME NEW d \in Clients \ {c}, rsocketId[d] = name PROVE FALSE
        BY <1>1, <1>3 DEF TypeOK
    <3>1. rsocketId[d][1] = Home[d] /\ rsocketId[d][2] < nodeNextId[Home[d]]
        BY <1>1, <1>2, PacketKinds DEF NameInv
    <3> QED BY <1>2, <3>1
  <2>3. rsocketId'[c] = name
      BY <1>1, <1>3 DEF TypeOK
  <2> QED BY <1>1, <2>1, <2>2, <2>3 DEF OwnPacketsOnly
<1> QED BY <1>7, <1>8, <1>9 DEF N2NPInv

\* The id goes to the connection it was made for.
LEMMA SendIDInv ==
  ASSUME N2NPInv, NEW c \in Clients, SendID(c)
  PROVE  N2NPInv'
<1> DEFINE p == [method |-> "ID", from |-> RelayId(Home[c]), to |-> rsocketId[c], id |-> 0,
                 acks |-> None]
<1>1. TypeOK /\ NameInv /\ OwnPacketsOnly
    BY DEF N2NPInv
<1>2. /\ rsocket[c] = "attaching" /\ rsocket' = [rsocket EXCEPT ![c] = "open"]
      /\ \/ SendDown(c, p)
         \/ crashed' = crashed \cup {Home[c]} /\ UNCHANGED <<ended, down>>
      /\ UNCHANGED <<nodes, nodeNextId, queue, transit, rsocketId, shut, up, nodeVars>>
    BY DEF SendID
<1>3. p \in DownPackets /\ p.to = rsocketId[c]
  <2>1. rsocketId[c] \in NodeIds
      BY <1>1, <1>2 DEF NameInv, TypeOK
  <2>2. RelayId(Home[c]) \in NodeIds
      BY HomeAssumption DEF RelayId, NodeIds
  <2> QED BY <2>1, <2>2 DEF DownPackets, IdGrants
<1>4. /\ OwnPacketsOnly'
      /\ down' \in [Clients -> Seq(DownPackets)]
      /\ ended' \in [Clients -> {"no", "fin", "finrst", "rst"}] /\ crashed' \subseteq Relays
  <2>1. CASE SendDown(c, p)
    <3> HIDE DEF p
    <3> QED BY <1>2, <1>3, <2>1, SentDownInv
  <2>2. CASE crashed' = crashed \cup {Home[c]} /\ UNCHANGED <<ended, down>>
    <3>1. UNCHANGED <<down, ended, rsocketId>>
        BY <1>2, <2>2
    <3>2. crashed' \subseteq Relays
        BY <1>1, <2>2, HomeAssumption DEF TypeOK
    <3>3. OwnPacketsOnly'
        BY <1>1, <3>1 DEF OwnPacketsOnly
    <3> QED BY <1>1, <3>1, <3>2, <3>3 DEF TypeOK, DownPackets
  <2> QED BY <1>2, <2>1, <2>2
<1>5. TypeOK'
  <2>1. rsocket' \in [Clients -> {"open", "attaching", "destroyed"}]
      BY <1>1, <1>2 DEF TypeOK
  <2> QED BY <1>1, <1>2, <1>4, <2>1 DEF TypeOK, nodeVars, DownPackets
<1>6. NameInv'
  <2>1. \A d \in Clients : rsocket'[d] = "attaching" => rsocket[d] = "attaching"
      BY <1>1, <1>2 DEF TypeOK
  <2>2. \A d \in Clients : rsocket'[d] = "destroyed" => rsocket[d] = "destroyed"
      BY <1>1, <1>2 DEF TypeOK
  <2>3. \A s \in Relays : \A e \in nodes[s] : e[2] \in Clients
      BY <1>1 DEF TypeOK
  <2> QED BY <1>1, <1>2, <2>1, <2>2, <2>3 DEF NameInv
<1> QED BY <1>4, <1>5, <1>6 DEF N2NPInv

\* Only what does not ask for an id is posted to the relay.
LEMMA PostUpInv ==
  ASSUME N2NPInv, NEW c \in Clients, PostUp(c)
  PROVE  N2NPInv'
<1>1. TypeOK /\ NameInv /\ OwnPacketsOnly
    BY DEF N2NPInv
<1>2. /\ up \in [Clients -> Seq(UpPackets)] /\ up[c] # <<>> /\ Head(up[c]).method # "ID"
      /\ up' = [up EXCEPT ![c] = Tail(@)]
      /\ queue' = [queue EXCEPT ![Home[c]] = Append(@, Head(up[c]))]
      /\ UNCHANGED <<nodes, nodeNextId, transit, rsocket, rsocketId, shut, crashed, ended, down,
                     nodeVars>>
    BY <1>1 DEF PostUp, TypeOK, UpPackets
<1>3. TypeOK'
  <2>1. Head(up[c]) \in UpPackets
      BY <1>2
  <2>2. Head(up[c]) \in Packets
      BY <1>2, <2>1, PacketKinds DEF UpPackets
  <2>3. queue' \in [Relays -> Seq(Packets)]
    <3>1. queue \in [Relays -> Seq(Packets)] /\ Home[c] \in Relays
        BY <1>1, HomeAssumption DEF TypeOK
    <3>2. Append(queue[Home[c]], Head(up[c])) \in Seq(Packets)
        BY <2>2, <3>1
    <3> QED BY <1>2, <3>1, <3>2
  <2>4. up' \in [Clients -> Seq(UpPackets)]
      BY <1>2
  <2> QED BY <1>1, <1>2, <2>3, <2>4 DEF TypeOK, nodeVars, UpPackets
<1>4. NameInv'
  <2>1. ASSUME NEW d \in Clients, NEW i \in 1..Len(up'[d]), up'[d][i].method = "ID"
        PROVE  i = 1 /\ rsocketId'[d] = None
    <3>1. CASE d # c
        BY <1>1, <1>2, <2>1, <3>1 DEF NameInv, TypeOK
    <3>2. CASE d = c
      <4>1. up'[c] = Tail(up[c])
          BY <1>2
      <4>2. i + 1 \in 1..Len(up[c]) /\ up'[c][i] = up[c][i + 1] /\ i # 0
          BY <1>2, <2>1, <3>2, <4>1
      <4> QED BY <1>1, <2>1, <3>2, <4>2 DEF NameInv
    <3> QED BY <3>1, <3>2
  <2> QED BY <1>1, <1>2, <2>1 DEF NameInv
<1>5. OwnPacketsOnly'
    BY <1>1, <1>2 DEF OwnPacketsOnly
<1> QED BY <1>3, <1>4, <1>5 DEF N2NPInv

LEMMA PostTransitInv ==
  ASSUME N2NPInv, NEW r \in Relays, NEW p \in transit[r], PostTransit(r, p)
  PROVE  N2NPInv'
<1>1. /\ UNCHANGED <<nodes, nodeNextId, rsocket, rsocketId, shut, crashed, connVars, nodeVars>>
      /\ transit' = [transit EXCEPT ![r] = @ \ {p}]
      /\ queue' = [queue EXCEPT ![r] = Append(@, p)]
    BY DEF PostTransit
<1>2. TypeOK'
  <2>1. queue' \in [Relays -> Seq(Packets)] /\ transit' \in [Relays -> SUBSET Packets]
      BY <1>1 DEF N2NPInv, TypeOK
  <2> QED BY <1>1, <2>1 DEF N2NPInv, TypeOK, nodeVars, connVars
<1> QED BY <1>1, <1>2, QuietInv DEF N2NPInv, connVars

\* A packet goes to a node that has the name in its destination, and so its id.
LEMMA TreatInv ==
  ASSUME N2NPInv, NEW r \in Relays, Treat(r)
  PROVE  N2NPInv'
<1> DEFINE p == queue[r][1]
<1>1. TypeOK /\ NameInv /\ OwnPacketsOnly
    BY DEF N2NPInv
<1>2. /\ queue[r] # <<>> /\ queue' = [queue EXCEPT ![r] = Without(@, 1)]
      /\ UNCHANGED <<nodes, nodeNextId, rsocket, rsocketId, shut, up, nodeVars>>
    BY DEF Treat, NextPacket
<1>3. queue \in [Relays -> Seq(Packets)] /\ p \in Packets
    BY <1>1, <1>2 DEF TypeOK
<1>4. p \in DownPackets /\ p.to[1] \in Relays /\ p.to = <<p.to[1], p.to[2]>>
    BY <1>3, PacketKinds DEF DownPackets
<1>5. queue' \in [Relays -> Seq(Packets)]
  <2>1. Without(queue[r], 1) \in Seq(Packets)
      BY <1>2, <1>3 DEF Without
  <2> QED BY <1>2, <1>3, <2>1
<1>6. \/ /\ transit' = transit \/ transit' = [transit EXCEPT ![p.to[1]] = @ \cup {p}]
         /\ UNCHANGED <<crashed, ended, down>>
      \/ /\ p.to[1] = r /\ \E c \in Destinations(r, p) : SendDown(c, p)
         /\ UNCHANGED transit
    BY DEF Treat, NextPacket
<1>7. transit' \in [Relays -> SUBSET Packets]
  <2>1. transit \in [Relays -> SUBSET Packets]
      BY <1>1 DEF TypeOK
  <2> HIDE DEF p
  <2>2. CASE transit' = [transit EXCEPT ![p.to[1]] = @ \cup {p}]
      BY <1>3, <1>4, <2>1, <2>2
  <2> QED BY <1>6, <2>1, <2>2
<1> DEFINE Sent ==
      /\ OwnPacketsOnly'
      /\ down' \in [Clients -> Seq(DownPackets)]
      /\ ended' \in [Clients -> {"no", "fin", "finrst", "rst"}] /\ crashed' \subseteq Relays
<1>8. Sent
  <2>1. CASE UNCHANGED <<crashed, ended, down>>
      BY <1>1, <1>2, <2>1 DEF OwnPacketsOnly, TypeOK, DownPackets
  <2>2. ASSUME p.to[1] = r, NEW c \in Destinations(r, p), SendDown(c, p)
        PROVE  Sent
    <3>1. c \in Clients /\ <<p.to[2], c>> \in nodes[r]
        BY DEF Destinations
    <3>2. rsocketId[c] = p.to
        BY <1>1, <1>4, <2>2, <3>1 DEF NameInv
    <3>3. p.to = rsocketId[c] /\ UNCHANGED rsocketId
        BY <1>2, <3>2
    <3> HIDE DEF p
    <3> QED BY <1>4, <2>2, <3>1, <3>3, SentDownInv
  <2> HIDE DEF Sent, p
  <2> QED BY <1>6, <2>1, <2>2
<1>9. TypeOK'
    BY <1>1, <1>2, <1>5, <1>7, <1>8 DEF TypeOK, nodeVars, DownPackets
<1>10. NameInv'
    BY <1>1, <1>2 DEF NameInv
<1> QED BY <1>8, <1>9, <1>10 DEF N2NPInv

\* The RelaySocket takes all the entries of its connection away with it.
LEMMA DestroyInv ==
  ASSUME N2NPInv, NEW c \in Clients, Destroy(c)
  PROVE  N2NPInv'
<1>1. TypeOK /\ NameInv /\ OwnPacketsOnly
    BY DEF N2NPInv
<1>2. /\ rsocket[c] = "open" /\ rsocket' = [rsocket EXCEPT ![c] = "destroyed"]
      /\ shut' = [shut EXCEPT ![c] = TRUE] /\ nodes' = Detached(c)
      /\ UNCHANGED <<nodeNextId, queue, transit, rsocketId, crashed, connVars, nodeVars>>
    BY DEF Destroy
<1>3. nodes' \in [Relays -> SUBSET (Nat \X Clients)]
      /\ \A s \in Relays : nodes'[s] \subseteq nodes[s]
    BY <1>1, <1>2 DEF Detached, TypeOK
<1>4. \A s \in Relays : \A e \in nodes'[s] : e[2] # c
  <2> SUFFICES ASSUME NEW s \in Relays, NEW e \in nodes'[s], e[2] = c PROVE FALSE
      OBVIOUS
  <2>1. e \in nodes[s] /\ rsocketId[c] = <<s, e[1]>> /\ e[1] \in Nat
      BY <1>1, <1>3 DEF NameInv, TypeOK
  <2>2. rsocketId[c] # None /\ s = Home[c] /\ rsocketId[c][2] = e[1]
    <3>1. rsocketId[c] # None
        BY <2>1, NoneAssumption
    <3>2. rsocketId[c][1] = Home[c]
        BY <1>1, <3>1 DEF NameInv
    <3> QED BY <2>1, <3>1, <3>2
  <2>3. nodes'[s] = {f \in nodes[s] : f[1] # rsocketId[c][2]}
      BY <1>1, <1>2, <2>2 DEF Detached, TypeOK
  <2> QED BY <2>2, <2>3
<1>5. TypeOK'
    BY <1>1, <1>2, <1>3 DEF TypeOK, nodeVars, connVars
<1>6. NameInv'
  <2>1. \A d \in Clients : rsocket'[d] = "attaching" => rsocket[d] = "attaching"
      BY <1>1, <1>2 DEF TypeOK
  <2>2. \A d \in Clients \ {c} : rsocket'[d] = rsocket[d]
      BY <1>1, <1>2 DEF TypeOK
  <2>3. \A s \in Relays : \A e \in nodes'[s] : e[2] \in Clients \ {c} /\ e \in nodes[s]
      BY <1>1, <1>3, <1>4 DEF TypeOK
  <2>4. \A s \in Relays : \A e \in nodes'[s] :
          rsocket'[e[2]] # "destroyed" /\ rsocketId'[e[2]] = <<s, e[1]>>
      BY <1>1, <1>2, <2>2, <2>3 DEF NameInv
  <2> QED BY <1>1, <1>2, <2>1, <2>4 DEF NameInv, connVars
<1>7. OwnPacketsOnly'
    BY <1>1, <1>2 DEF OwnPacketsOnly, connVars
<1> QED BY <1>5, <1>6, <1>7 DEF N2NPInv

LEMMA RecvThrowsInv ==
  ASSUME N2NPInv, NEW c \in Clients, RecvThrows(c)
  PROVE  N2NPInv'
<1>1. /\ crashed' = crashed \cup {Home[c]}
      /\ UNCHANGED <<nodes, nodeNextId, queue, transit, rsocket, rsocketId, shut, connVars,
                     nodeVars>>
    BY DEF RecvThrows
<1>2. TypeOK'
    BY <1>1, HomeAssumption DEF N2NPInv, TypeOK, nodeVars, connVars
<1> QED BY <1>1, <1>2, QuietInv DEF N2NPInv, connVars

LEMMA DetachAllNodesInv ==
  ASSUME N2NPInv, NEW r \in Relays, DetachAllNodes(r)
  PROVE  N2NPInv'
<1>1. TypeOK /\ NameInv /\ OwnPacketsOnly
    BY DEF N2NPInv
<1>2. /\ nodes' = [nodes EXCEPT ![r] = {}]
      /\ shut' = [c \in Clients |-> shut[c] \/ \E e \in nodes[r] : e[2] = c]
      /\ UNCHANGED <<nodeNextId, queue, transit, rsocket, rsocketId, crashed, connVars, nodeVars>>
    BY DEF DetachAllNodes
<1>3. nodes' \in [Relays -> SUBSET (Nat \X Clients)] /\ \A s \in Relays : nodes'[s] \subseteq nodes[s]
    BY <1>1, <1>2 DEF TypeOK
<1>4. shut' \in [Clients -> BOOLEAN]
    BY <1>1, <1>2 DEF TypeOK
<1>5. TypeOK'
    BY <1>1, <1>2, <1>3, <1>4 DEF TypeOK, nodeVars, connVars
<1>6. NameInv' /\ OwnPacketsOnly'
    BY <1>1, <1>2, <1>3 DEF NameInv, OwnPacketsOnly, connVars
<1> QED BY <1>5, <1>6 DEF N2NPInv

-----------------------------------------------------------------------------
(* Node *)

\* Users only know ids.
LEMMA KnownIds == TypeOK => Known \subseteq NodeIds /\ Offered \subseteq NodeIds
BY DEF TypeOK, Known, Offered, SelfName, RelayId, NodeIds

\* A thread holds the packet it prepared.
LEMMA PrepareTyped ==
  ASSUME TypeOK, NEW c \in Clients, NEW t \in Threads, NEW p \in Packets, Prepare(c, t, p)
  PROVE  out' \in [Clients -> [Threads -> Packets \cup {None}]] /\ curId' \in [Clients -> Nat]
<1>1. out \in [Clients -> [Threads -> Packets \cup {None}]] /\ out' = [out EXCEPT ![c][t] = p]
    BY DEF TypeOK, Prepare
<1>2. curId \in [Clients -> Nat] /\ curId' = [curId EXCEPT ![c] = @ + 1]
    BY DEF TypeOK, Prepare
<1> QED BY <1>1, <1>2

LEMMA SendInv ==
  ASSUME N2NPInv, NEW c \in Clients, NEW t \in Threads, NEW to \in Known, NEW m \in Methods,
         Send(c, t, to, m)
  PROVE  N2NPInv'
<1> DEFINE p == Packet(c, t, m, to, None)
<1>1. TypeOK
    BY DEF N2NPInv
<1>2. /\ Prepare(c, t, p) /\ nodeid[c] # None
      /\ sentMap' = [sentMap EXCEPT ![c] = @ \cup {curId[c]}]
      /\ UNCHANGED <<relayVars, connVars, nodeid, direct, calling, treated, acked>>
    BY DEF Send, Prepare
<1>3. p \in Packets
  <2>1. to \in NodeIds /\ m \in Methods \cup {"ACK", "ERR"} /\ None \in Nat \cup {None}
      BY <1>1, KnownIds
  <2> QED BY <1>1, <1>2, <2>1, PacketTyped
<1> HIDE DEF p
<1>4. out' \in [Clients -> [Threads -> Packets \cup {None}]] /\ curId' \in [Clients -> Nat]
    BY <1>1, <1>2, <1>3, PrepareTyped
<1>5. sentMap' \in [Clients -> SUBSET Nat]
    BY <1>1, <1>2 DEF TypeOK
<1>6. TypeOK'
    BY <1>1, <1>2, <1>4, <1>5 DEF TypeOK, relayVars, connVars
<1> QED BY <1>2, <1>6, QuietInv DEF N2NPInv, relayVars, connVars

\* What a thread of a node has prepared never asks for an id.
LEMMA WriteInv ==
  ASSUME N2NPInv, NEW c \in Clients, NEW t \in Threads, Write(c, t)
  PROVE  N2NPInv'
<1>1. TypeOK /\ NameInv /\ OwnPacketsOnly
    BY DEF N2NPInv
<1>2. /\ up' = up \/ up' = [up EXCEPT ![c] = Append(@, out[c][t])]
      /\ out[c][t] # None /\ out' = [out EXCEPT ![c][t] = None]
      /\ UNCHANGED <<relayVars, ended, down, nodeid, curId, sentMap, direct, calling, treated,
                     acked>>
    BY DEF Write
<1>3. /\ up \in [Clients -> Seq(UpPackets)]
      /\ out \in [Clients -> [Threads -> Packets \cup {None}]]
    BY <1>1 DEF TypeOK, UpPackets
<1>4. out[c][t] \in Packets /\ out[c][t] \in UpPackets /\ out[c][t].method # "ID"
  <2>1. out[c][t] \in Packets
      BY <1>2, <1>3
  <2> QED BY <2>1, PacketKinds DEF UpPackets
<1>5. up' \in [Clients -> Seq(UpPackets)]
  <2>1. Append(up[c], out[c][t]) \in Seq(UpPackets)
      BY <1>3, <1>4
  <2> QED BY <1>2, <1>3, <2>1
<1>6. out' \in [Clients -> [Threads -> Packets \cup {None}]]
    BY <1>2, <1>3
<1>7. TypeOK'
    BY <1>1, <1>2, <1>5, <1>6 DEF TypeOK, relayVars, UpPackets
<1>8. NameInv'
  <2>1. ASSUME NEW d \in Clients, NEW i \in 1..Len(up'[d]), up'[d][i].method = "ID"
        PROVE  i \in 1..Len(up[d]) /\ up[d][i].method = "ID"
    <3>1. CASE up' = up \/ d # c
        BY <1>2, <1>3, <2>1, <3>1
    <3>2. CASE d = c /\ up' = [up EXCEPT ![c] = Append(@, out[c][t])]
      <4>1. up'[c] = Append(up[c], out[c][t]) /\ up[c] \in Seq(UpPackets)
          BY <1>3, <3>2
      <4>2. up'[c][i] = out[c][t] \/ (i \in 1..Len(up[c]) /\ up'[c][i] = up[c][i])
          BY <2>1, <3>2, <4>1
      <4> QED BY <1>4, <2>1, <3>2, <4>2
    <3> QED BY <1>2, <3>1, <3>2
  <2>2. UNCHANGED <<nodes, nodeNextId, rsocket, rsocketId>>
      BY <1>2 DEF relayVars
  <2> QED BY <1>1, <2>1, <2>2 DEF NameInv
<1>9. OwnPacketsOnly'
    BY <1>1, <1>2 DEF OwnPacketsOnly, relayVars
<1> QED BY <1>7, <1>8, <1>9 DEF N2NPInv

LEMMA OfferDirectConnInv ==
  ASSUME N2NPInv, NEW c \in Clients, NEW id \in Offered, OfferDirectConn(c, id)
  PROVE  N2NPInv'
<1>1. /\ direct' = [direct EXCEPT ![c] = @ \cup {id}]
      /\ UNCHANGED <<relayVars, connVars, nodeid, curId, sentMap, out, calling, treated, acked>>
    BY DEF OfferDirectConn
<1>2. TypeOK'
  <2>1. id \in NodeIds
      BY KnownIds DEF N2NPInv
  <2>2. direct' \in [Clients -> SUBSET NodeIds]
      BY <1>1, <2>1 DEF N2NPInv, TypeOK
  <2> QED BY <1>1, <2>2 DEF N2NPInv, TypeOK, relayVars, connVars
<1> QED BY <1>1, <1>2, QuietInv DEF N2NPInv, relayVars, connVars

LEMMA SetIdInv ==
  ASSUME N2NPInv, NEW c \in Clients, SetId(c)
  PROVE  N2NPInv'
<1>1. /\ CanTreat(c) /\ Taken(c) /\ nodeid' = [nodeid EXCEPT ![c] = First(c).to]
      /\ UNCHANGED <<relayVars, ended, up, curId, sentMap, direct, out, calling, treated, acked>>
    BY DEF SetId
<1>2. UNCHANGED <<up, nodes, nodeNextId, rsocket, rsocketId>>
    BY <1>1 DEF relayVars
<1>3. NameInv' /\ OwnPacketsOnly' /\ First(c) \in DownPackets
      /\ down' \in [Clients -> Seq(DownPackets)]
    BY <1>1, <1>2, TakenInv
<1>4. nodeid' \in [Clients -> NodeIds \cup {None}]
  <2>1. First(c).to \in NodeIds
      BY <1>3, PacketKinds DEF DownPackets
  <2> QED BY <1>1, <2>1 DEF N2NPInv, TypeOK
<1>5. TypeOK'
    BY <1>1, <1>3, <1>4 DEF N2NPInv, TypeOK, relayVars, DownPackets
<1> QED BY <1>3, <1>5 DEF N2NPInv

LEMMA DiscardInv ==
  ASSUME N2NPInv, NEW c \in Clients, Discard(c)
  PROVE  N2NPInv'
<1>1. CanTreat(c) /\ Taken(c) /\ UNCHANGED <<relayVars, ended, up, nodeVars>>
    BY DEF Discard
<1>2. UNCHANGED <<up, nodes, nodeNextId, rsocket, rsocketId>>
    BY <1>1 DEF relayVars
<1>3. NameInv' /\ OwnPacketsOnly' /\ down' \in [Clients -> Seq(DownPackets)]
    BY <1>1, <1>2, TakenInv
<1>4. TypeOK'
    BY <1>1, <1>3 DEF N2NPInv, TypeOK, relayVars, nodeVars, DownPackets
<1> QED BY <1>3, <1>4 DEF N2NPInv

LEMMA TreatAckInv ==
  ASSUME N2NPInv, NEW c \in Clients, TreatAck(c)
  PROVE  N2NPInv'
<1>1. /\ CanTreat(c) /\ Taken(c) /\ First(c).method = "ACK"
      /\ sentMap' = [sentMap EXCEPT ![c] = @ \ {First(c).acks}]
      /\ acked' = [acked EXCEPT ![c] = @ \cup {First(c).acks}]
      /\ UNCHANGED <<relayVars, ended, up, nodeid, curId, direct, out, calling, treated>>
    BY DEF TreatAck, ForMe
<1>2. UNCHANGED <<up, nodes, nodeNextId, rsocket, rsocketId>>
    BY <1>1 DEF relayVars
<1>3. NameInv' /\ OwnPacketsOnly' /\ First(c) \in DownPackets
      /\ down' \in [Clients -> Seq(DownPackets)]
    BY <1>1, <1>2, TakenInv
<1>4. sentMap' \in [Clients -> SUBSET Nat] /\ acked' \in [Clients -> SUBSET (Nat \cup {None})]
  <2>1. First(c) \in Packets
      BY <1>1, <1>3, PacketKinds DEF DownPackets
  <2>2. First(c).acks \in Nat \cup {None}
      BY <2>1 DEF Packets
  <2> QED BY <1>1, <2>2 DEF N2NPInv, TypeOK
<1>5. TypeOK'
    BY <1>1, <1>3, <1>4 DEF N2NPInv, TypeOK, relayVars, DownPackets
<1> QED BY <1>3, <1>5 DEF N2NPInv

\* A module is called with a packet that a node sent.
LEMMA CallModuleInv ==
  ASSUME N2NPInv, NEW c \in Clients, CallModule(c)
  PROVE  N2NPInv'
<1>1. /\ CanTreat(c) /\ Taken(c) /\ First(c).method \in Methods
      /\ treated' = [treated EXCEPT ![c] = Append(@, First(c))]
      /\ calling' = [calling EXCEPT ![c] = First(c)]
      /\ UNCHANGED <<relayVars, ended, up, nodeid, curId, sentMap, direct, out, acked>>
    BY MethodsAssumption DEF CallModule, ForMe
<1>2. UNCHANGED <<up, nodes, nodeNextId, rsocket, rsocketId>>
    BY <1>1 DEF relayVars
<1>3. NameInv' /\ OwnPacketsOnly' /\ First(c) \in DownPackets
      /\ down' \in [Clients -> Seq(DownPackets)]
    BY <1>1, <1>2, TakenInv
<1>4. First(c) \in Packets
    BY <1>1, <1>3, PacketKinds, MethodsAssumption DEF DownPackets
<1>5. calling' \in [Clients -> Packets \cup {None}]
    BY <1>1, <1>4 DEF N2NPInv, TypeOK
<1>6. treated' \in [Clients -> Seq(Packets)]
  <2>1. treated \in [Clients -> Seq(Packets)]
      BY DEF N2NPInv, TypeOK
  <2>2. Append(treated[c], First(c)) \in Seq(Packets)
      BY <1>4, <2>1
  <2> QED BY <1>1, <2>1, <2>2
<1>7. TypeOK'
    BY <1>1, <1>3, <1>5, <1>6 DEF N2NPInv, TypeOK, relayVars, DownPackets
<1> QED BY <1>3, <1>7 DEF N2NPInv

\* The packet a module was called with is acknowledged with a packet.
LEMMA AcknowledgeInv ==
  ASSUME N2NPInv, NEW c \in Clients, Acknowledge(c)
  PROVE  N2NPInv'
<1> DEFINE p == Packet(c, "reader", "ACK", calling[c].from, calling[c].id)
<1>1. TypeOK
    BY DEF N2NPInv
<1>2. /\ calling[c] # None /\ Prepare(c, "reader", p) /\ calling' = [calling EXCEPT ![c] = None]
      /\ nodeid[c] # None
      /\ UNCHANGED <<relayVars, connVars, nodeid, sentMap, direct, treated, acked>>
    BY DEF Acknowledge, Prepare
<1>3. p \in Packets /\ "reader" \in Threads
  <2>1. calling[c] \in Packets
      BY <1>1, <1>2 DEF TypeOK
  <2>2. calling[c].from \in NodeIds /\ calling[c].id \in Nat \cup {None}
      BY <2>1 DEF Packets
  <2>3. "reader" \in Threads /\ "ACK" \in Methods \cup {"ACK", "ERR"}
      BY DEF Threads
  <2> QED BY <1>1, <1>2, <2>2, <2>3, PacketTyped
<1> HIDE DEF p
<1>4. out' \in [Clients -> [Threads -> Packets \cup {None}]] /\ curId' \in [Clients -> Nat]
    BY <1>1, <1>2, <1>3, PrepareTyped
<1>5. calling' \in [Clients -> Packets \cup {None}]
    BY <1>1, <1>2 DEF TypeOK
<1>6. TypeOK'
    BY <1>1, <1>2, <1>4, <1>5 DEF TypeOK, relayVars, connVars
<1> QED BY <1>2, <1>6, QuietInv DEF N2NPInv, relayVars, connVars

\* A packet of a method that nobody treats was sent, and the error is a packet.
LEMMA NoModuleInv ==
  ASSUME N2NPInv, NEW c \in Clients, NoModule(c)
  PROVE  N2NPInv'
<1> DEFINE p == Packet(c, "reader", "ERR", First(c).from, First(c).id)
<1>1. TypeOK
    BY DEF N2NPInv
<1>2. /\ CanTreat(c) /\ Taken(c) /\ First(c).method \in Methods /\ nodeid[c] # None
      /\ Prepare(c, "reader", p)
      /\ UNCHANGED <<relayVars, ended, up, nodeid, sentMap, direct, calling, treated, acked>>
    BY DEF NoModule, ForMe, RefusedWith
<1>3. NameInv' /\ OwnPacketsOnly' /\ First(c) \in DownPackets
      /\ down' \in [Clients -> Seq(DownPackets)]
  <2>1. UNCHANGED <<up, nodes, nodeNextId, rsocket, rsocketId>>
      BY <1>2 DEF relayVars
  <2> QED BY <1>2, <2>1, TakenInv
<1>4. First(c) \in Packets
    BY <1>2, <1>3, PacketKinds, MethodsAssumption DEF DownPackets
<1>5. p \in Packets /\ "reader" \in Threads
  <2>1. First(c).from \in NodeIds /\ First(c).id \in Nat \cup {None}
      BY <1>4 DEF Packets
  <2>2. "reader" \in Threads
      BY DEF Threads
  <2> QED BY <1>1, <1>2, <2>1, <2>2, PacketTyped
<1> HIDE DEF p
<1>6. out' \in [Clients -> [Threads -> Packets \cup {None}]] /\ curId' \in [Clients -> Nat]
    BY <1>1, <1>2, <1>5, PrepareTyped
<1>7. TypeOK'
    BY <1>1, <1>2, <1>3, <1>6 DEF TypeOK, relayVars, DownPackets
<1> QED BY <1>3, <1>7 DEF N2NPInv

LEMMA EndInv ==
  ASSUME N2NPInv, NEW c \in Clients, End(c)
  PROVE  N2NPInv'
<1>1. /\ \E e \in {"fin", "finrst", "rst"} : ended' = [ended EXCEPT ![c] = e]
      /\ out' = [out EXCEPT ![c] = [t \in Threads |-> None]]
      /\ calling' = [calling EXCEPT ![c] = None]
      /\ UNCHANGED <<relayVars, up, down, nodeid, curId, sentMap, direct, treated, acked>>
    BY DEF End
<1>2. ended' \in [Clients -> {"no", "fin", "finrst", "rst"}]
    BY <1>1 DEF N2NPInv, TypeOK
<1>3. /\ out' \in [Clients -> [Threads -> Packets \cup {None}]]
      /\ calling' \in [Clients -> Packets \cup {None}]
    BY <1>1 DEF N2NPInv, TypeOK
<1>4. TypeOK'
    BY <1>1, <1>2, <1>3 DEF N2NPInv, TypeOK, relayVars
<1> QED BY <1>1, <1>4, QuietInv DEF N2NPInv, relayVars

-----------------------------------------------------------------------------
(* Theorems *)

LEMMA N2NPInvStep == N2NPInv /\ [Next]_vars => N2NPInv'
<1> SUFFICES ASSUME N2NPInv, [Next]_vars PROVE N2NPInv'
    OBVIOUS
<1>1. CASE RelayNext
  <2>1. ASSUME NEW c \in Clients, Attach(c) PROVE N2NPInv'
      BY <2>1, AttachInv
  <2>2. ASSUME NEW c \in Clients, SendID(c) PROVE N2NPInv'
      BY <2>2, SendIDInv
  <2>3. ASSUME NEW c \in Clients, PostUp(c) PROVE N2NPInv'
      BY <2>3, PostUpInv
  <2>4. ASSUME NEW c \in Clients, Destroy(c) PROVE N2NPInv'
      BY <2>4, DestroyInv
  <2>5. ASSUME NEW c \in Clients, RecvThrows(c) PROVE N2NPInv'
      BY <2>5, RecvThrowsInv
  <2>6. ASSUME NEW r \in Relays, Treat(r) PROVE N2NPInv'
      BY <2>6, TreatInv
  <2>7. ASSUME NEW r \in Relays, DetachAllNodes(r) PROVE N2NPInv'
      BY <2>7, DetachAllNodesInv
  <2>8. ASSUME NEW r \in Relays, NEW p \in transit[r], PostTransit(r, p) PROVE N2NPInv'
      BY <2>8, PostTransitInv
  <2> QED BY <1>1, <2>1, <2>2, <2>3, <2>4, <2>5, <2>6, <2>7, <2>8 DEF RelayNext
<1>2. CASE NodeNext
  <2>1. ASSUME NEW c \in Clients, NEW t \in Threads, NEW to \in Known, NEW m \in Methods,
               Send(c, t, to, m)
        PROVE  N2NPInv'
      BY <2>1, SendInv
  <2>2. ASSUME NEW c \in Clients, NEW t \in Threads, Write(c, t) PROVE N2NPInv'
      BY <2>2, WriteInv
  <2>3. ASSUME NEW c \in Clients, NEW id \in Offered, OfferDirectConn(c, id) PROVE N2NPInv'
      BY <2>3, OfferDirectConnInv
  <2>4. ASSUME NEW c \in Clients, SetId(c) PROVE N2NPInv'
      BY <2>4, SetIdInv
  <2>5. ASSUME NEW c \in Clients, Discard(c) PROVE N2NPInv'
      BY <2>5, DiscardInv
  <2>6. ASSUME NEW c \in Clients, TreatAck(c) PROVE N2NPInv'
      BY <2>6, TreatAckInv
  <2>7. ASSUME NEW c \in Clients, CallModule(c) PROVE N2NPInv'
      BY <2>7, CallModuleInv
  <2>8. ASSUME NEW c \in Clients, NoModule(c) PROVE N2NPInv'
      BY <2>8, NoModuleInv
  <2>9. ASSUME NEW c \in Clients, End(c) PROVE N2NPInv'
      BY <2>9, EndInv
  <2>10. ASSUME NEW c \in Clients, Acknowledge(c) PROVE N2NPInv'
      BY <2>10, AcknowledgeInv
  <2> QED BY <1>2, <2>1, <2>2, <2>3, <2>4, <2>5, <2>6, <2>7, <2>8, <2>9, <2>10 DEF NodeNext
<1>3. CASE UNCHANGED vars
  <2>1. TypeOK'
      BY <1>3 DEF N2NPInv, TypeOK, vars, relayVars, connVars, nodeVars
  <2> QED BY <1>3, <2>1, QuietInv DEF N2NPInv, vars, relayVars, connVars
<1> QED BY <1>1, <1>2, <1>3 DEF Next

\* Every step of nodes and relays keeps the inductive invariant: names are given in
\* order, once to a connection, and entries are those of living RelaySockets.
THEOREM Typing == Spec => []N2NPInv
BY N2NPInvInit, N2NPInvStep, PTL DEF Spec

\* Relay::treat never sends a packet to a connection whose node has another id, and
\* no two nodes of a relay ever have the same, whoever leaves and comes.
THEOREM OwnPacketsOnlyHolds == Spec => []OwnPacketsOnly
<1>1. N2NPInv => OwnPacketsOnly
    BY DEF N2NPInv
<1> QED BY <1>1, Typing, PTL

\* The relay keeps no entry of a node whose RelaySocket is destroyed: what
\* Relay::treat finds can be sent to.
THEOREM NoStaleEntryHolds == Spec => []NoStaleEntry
<1>1. N2NPInv => NoStaleEntry
    BY DEF N2NPInv, NameInv, NoStaleEntry
<1> QED BY <1>1, Typing, PTL

-----------------------------------------------------------------------------
(* The flow of packets *)

Stuff == UpPackets \cup DownPackets

-----------------------------------------------------------------------------
(* Where packets are *)

In(x, s) == \E i \in 1..Len(s) : s[i] = x

Around(p) ==
  \/ \E c \in Clients, t \in Threads : out[c][t] # None /\ out[c][t] = p
  \/ \E c \in Clients : In(p, up[c]) \/ In(p, down[c])
  \/ \E r \in Relays : In(p, queue[r]) \/ p \in transit[r]

Done(p) == \E c \in Clients : In(p, treated[c])

WasTreated(from, id) == \E p \in Packets : Done(p) /\ p.from = from /\ p.id = id

\* A packet comes from a node that has its id, and that counted it.
Counted(p) == \E c \in Clients : nodeid[c] = p.from /\ p.id < curId[c]

\* The stages a packet goes through between two nodes of one relay, the last first
Five(a, b, c, d, e) ==
  [k \in 1..5 |-> CASE k = 1 -> a [] k = 2 -> b [] k = 3 -> c [] k = 4 -> d [] k = 5 -> e]

Pending(p) == IF p = None THEN <<>> ELSE <<p>>

Line(s, t, d) == Five(treated[d], down[d], queue[Home[s]], up[s], Pending(out[s][t]))

\* What a thread of s sends to the modules of nodes of its own relay
Own(s, t) == {p \in Packets : /\ p.method \in Methods
                            /\ p.from = nodeid[s] /\ p.by = t /\ p.to[1] = Home[s]}

\* The ids of the packets of X grow from the first stage to the last
Ordered(X, F) ==
  \A k, l \in 1..5 : \A i \in 1..Len(F[k]), j \in 1..Len(F[l]) :
    (k < l \/ (k = l /\ i < j)) /\ F[k][i] \in X /\ F[l][j] \in X => F[k][i].id < F[l][j].id

-----------------------------------------------------------------------------
(* The inductive invariant *)

\* A packet is built by the node and the thread it comes from, and leaves its relay only for
\* another one.
RouteInv ==
  /\ \A c \in Clients : nodeid[c] # None => nodeid[c] = rsocketId[c]
  /\ \A c \in Clients, t \in Threads :
       out[c][t] # None => out[c][t].from = nodeid[c] /\ out[c][t].by = t
  /\ \A c \in Clients, p \in Packets : In(p, up[c]) => p.from = nodeid[c]
  /\ \A r \in Relays, p \in Packets : In(p, queue[r]) => p.from[1] = r \/ p.to[1] = r
  /\ \A r \in Relays : \A p \in transit[r] : p.to[1] = r /\ p.from[1] # r
  /\ \A c \in Clients, p \in Packets : In(p, treated[c]) => p.to = nodeid[c] /\ p.method \in Methods

\* An ACK tells of a packet that was treated, as does the call of a module.
AckInv ==
  /\ \A p \in Packets : Around(p) \/ Done(p) => Counted(p)
  /\ \A p \in Packets : Around(p) /\ p.method = "ACK" => WasTreated(p.to, p.acks)
  /\ \A c \in Clients : calling[c] # None => In(calling[c], treated[c])
  /\ \A c \in Clients : \A i \in acked[c] : WasTreated(nodeid[c], i)
  /\ \A c \in Clients : acked[c] \cap sentMap[c] = {}

OrderInv == \A s, d \in Clients, t \in Threads : Ordered(Own(s, t), Line(s, t, d))

FlowInv == N2NPInv /\ RouteInv /\ AckInv /\ OrderInv

-----------------------------------------------------------------------------
(* Sequences *)

\* What is in a sequence that gains a last element or loses its first
LEMMA InFacts ==
  \A s \in Seq(Stuff) :
    /\ \A x : ~In(x, <<>>)
    /\ \A e \in Stuff : \A x : In(x, Append(s, e)) <=> In(x, s) \/ x = e
    /\ s # <<>> => /\ In(Head(s), s) /\ Head(s) \in Stuff /\ Tail(s) \in Seq(Stuff)
                   /\ \A x : In(x, Tail(s)) => In(x, s)
    /\ \A x : In(x, s) => x \in Stuff
<1> SUFFICES ASSUME NEW s \in Seq(Stuff)
             PROVE  /\ \A x : ~In(x, <<>>)
                    /\ \A e \in Stuff : \A x : In(x, Append(s, e)) <=> In(x, s) \/ x = e
                    /\ s # <<>> => /\ In(Head(s), s) /\ Head(s) \in Stuff /\ Tail(s) \in Seq(Stuff)
                                   /\ \A x : In(x, Tail(s)) => In(x, s)
                    /\ \A x : In(x, s) => x \in Stuff
    OBVIOUS
<1>1. \A x : ~In(x, <<>>)
    BY DEF In
<1>2. ASSUME NEW e \in Stuff, NEW x PROVE In(x, Append(s, e)) <=> In(x, s) \/ x = e
  <2>1. /\ Len(Append(s, e)) = Len(s) + 1 /\ Len(s) \in Nat
        /\ \A i \in 1..Len(s) : Append(s, e)[i] = s[i]
        /\ Append(s, e)[Len(s) + 1] = e
      BY AppendProperties
  <2>2. In(x, Append(s, e)) => In(x, s) \/ x = e
      BY <2>1 DEF In
  <2>3. In(x, s) => In(x, Append(s, e))
      BY <2>1 DEF In
  <2>4. Len(s) + 1 \in 1..Len(Append(s, e))
      BY <2>1
  <2>5. In(e, Append(s, e))
      BY <2>1, <2>4 DEF In
  <2> QED BY <2>2, <2>3, <2>5
<1>3. ASSUME s # <<>>
      PROVE  /\ In(Head(s), s) /\ Head(s) \in Stuff /\ Tail(s) \in Seq(Stuff)
             /\ \A x : In(x, Tail(s)) => In(x, s)
  <2>1. /\ Head(s) = s[1] /\ Len(s) \in Nat \ {0} /\ Head(s) \in Stuff /\ Tail(s) \in Seq(Stuff)
        /\ Len(Tail(s)) = Len(s) - 1 /\ \A i \in 1..Len(Tail(s)) : Tail(s)[i] = s[i + 1]
      BY <1>3, HeadTailProperties
  <2>2. 1 \in 1..Len(s) /\ \A i \in 1..Len(Tail(s)) : i + 1 \in 1..Len(s)
      BY <2>1
  <2>3. In(Head(s), s)
      BY <2>1, <2>2 DEF In
  <2>4. \A x : In(x, Tail(s)) => In(x, s)
      BY <2>1, <2>2 DEF In
  <2> QED BY <2>1, <2>3, <2>4
<1>4. \A x : In(x, s) => x \in Stuff
    BY DEF In
<1> QED BY <1>1, <1>2, <1>3, <1>4

LEMMA InAppend ==
  \A s \in Seq(Stuff), e \in Stuff : \A x : In(x, Append(s, e)) <=> In(x, s) \/ x = e
BY InFacts

LEMMA InTail ==
  \A s \in Seq(Stuff) : \A x :
    s # <<>> => In(Head(s), s) /\ Head(s) \in Stuff /\ (In(x, Tail(s)) => In(x, s))
BY InFacts

\* The first packet of a queue is taken.
LEMMA WithoutFirst ==
  \A s \in Seq(Stuff) : s # <<>> => Without(s, 1) = Tail(s) /\ s[1] = Head(s)
<1> SUFFICES ASSUME NEW s \in Seq(Stuff), s # <<>> PROVE Without(s, 1) = Tail(s) /\ s[1] = Head(s)
    OBVIOUS
<1>1. SubSeq(s, 1, 0) = <<>>
    OBVIOUS
<1>2. SubSeq(s, 2, Len(s)) = Tail(s)
    OBVIOUS
<1>3. <<>> \o Tail(s) = Tail(s)
    OBVIOUS
<1> QED BY <1>1, <1>2, <1>3 DEF Without

\* The stages of a line
LEMMA FiveIs ==
  \A a, b, c, d, e \in Seq(Stuff) :
    /\ Five(a, b, c, d, e) \in [1..5 -> Seq(Stuff)]
    /\ Five(a, b, c, d, e)[1] = a /\ Five(a, b, c, d, e)[2] = b /\ Five(a, b, c, d, e)[3] = c
    /\ Five(a, b, c, d, e)[4] = d /\ Five(a, b, c, d, e)[5] = e
<1> TAKE a, b, c, d, e \in Seq(Stuff)
<1> DEFINE F == Five(a, b, c, d, e)
<1>1. F[1] = a /\ F[2] = b /\ F[3] = c /\ F[4] = d /\ F[5] = e
    BY DEF Five
<1>2. F = [k \in 1..5 |-> F[k]]
    BY DEF Five
<1>3. \A k \in 1..5 : k = 1 \/ k = 2 \/ k = 3 \/ k = 4 \/ k = 5
    OBVIOUS
<1> HIDE DEF F
<1>4. \A k \in 1..5 : F[k] \in Seq(Stuff)
    BY <1>1, <1>3
<1>5. F \in [1..5 -> Seq(Stuff)]
    BY <1>2, <1>4
<1> QED BY <1>1, <1>5 DEF F

\* A stage that loses its first packet, or all, or gets one that does not count
Thin(X, s, t) ==
  \/ t = s \/ t = <<>>
  \/ s # <<>> /\ t = Tail(s)
  \/ \E e \in Stuff \ X : t = Append(s, e)

\* Stages that only thin keep their order.
LEMMA ThinOrdered ==
  ASSUME NEW X, NEW F \in [1..5 -> Seq(Stuff)], NEW G \in [1..5 -> Seq(Stuff)], Ordered(X, F),
         \A k \in 1..5 : Thin(X, F[k], G[k])
  PROVE  Ordered(X, G)
<1>1. ASSUME NEW k \in 1..5
      PROVE  \E n \in {0, 1} : \A i \in 1..Len(G[k]) :
               G[k][i] \in X => i + n \in 1..Len(F[k]) /\ G[k][i] = F[k][i + n]
  <2>1. F[k] \in Seq(Stuff) /\ G[k] \in Seq(Stuff)
      OBVIOUS
  <2>2. CASE G[k] = F[k]
    <3>1. \A i \in 1..Len(G[k]) : i + 0 \in 1..Len(F[k]) /\ G[k][i] = F[k][i + 0]
        BY <2>1, <2>2
    <3> QED BY <3>1
  <2>3. CASE G[k] = <<>>
      BY <2>3
  <2>4. CASE F[k] # <<>> /\ G[k] = Tail(F[k])
    <3>1. \A i \in 1..Len(G[k]) : i + 1 \in 1..Len(F[k]) /\ G[k][i] = F[k][i + 1]
        BY <2>1, <2>4
    <3> QED BY <3>1
  <2>5. CASE \E e \in Stuff \ X : G[k] = Append(F[k], e)
    <3>1. PICK e \in Stuff \ X : G[k] = Append(F[k], e)
        BY <2>5
    <3>2. /\ Len(G[k]) = Len(F[k]) + 1 /\ Len(F[k]) \in Nat
          /\ \A i \in 1..Len(F[k]) : G[k][i] = F[k][i]
          /\ G[k][Len(F[k]) + 1] = e
        BY <2>1, <3>1, AppendProperties
    <3>3. ASSUME NEW i \in 1..Len(G[k]), G[k][i] \in X
          PROVE  i + 0 \in 1..Len(F[k]) /\ G[k][i] = F[k][i + 0]
      <4>1. i # Len(F[k]) + 1
          BY <3>1, <3>2, <3>3
      <4>2. i \in 1..Len(F[k])
          BY <3>2, <4>1
      <4> QED BY <3>2, <4>2
    <3> QED BY <3>3
  <2> QED BY <2>2, <2>3, <2>4, <2>5 DEF Thin
<1> SUFFICES ASSUME NEW k \in 1..5, NEW l \in 1..5, NEW i \in 1..Len(G[k]), NEW j \in 1..Len(G[l]),
                    k < l \/ (k = l /\ i < j), G[k][i] \in X, G[l][j] \in X
             PROVE  G[k][i].id < G[l][j].id
    BY DEF Ordered
<1>2. PICK n \in {0, 1} : \A h \in 1..Len(G[k]) :
        G[k][h] \in X => h + n \in 1..Len(F[k]) /\ G[k][h] = F[k][h + n]
    BY <1>1
<1>3. CASE k < l
  <2>1. PICK m \in {0, 1} : j + m \in 1..Len(F[l]) /\ G[l][j] = F[l][j + m]
      BY <1>1
  <2>2. i + n \in 1..Len(F[k]) /\ G[k][i] = F[k][i + n]
      BY <1>2
  <2> QED BY <1>3, <2>1, <2>2 DEF Ordered
<1>4. CASE k = l /\ i < j
  <2>1. i + n \in 1..Len(F[k]) /\ G[k][i] = F[k][i + n]
      BY <1>2
  <2>2. j + n \in 1..Len(F[k]) /\ G[k][j] = F[k][j + n]
      BY <1>2, <1>4
  <2>3. i + n < j + n
      BY <1>4
  <2> QED BY <1>4, <2>1, <2>2, <2>3 DEF Ordered
<1> QED BY <1>3, <1>4

\* Where the packets of two stages are when one goes from the second to the first
LEMMA MovedIs ==
  \A s, t \in Seq(Stuff) : t # <<>> =>
    /\ 1 \in 1..Len(t) /\ Len(s) + 1 \in Nat
    /\ \A i \in 1..Len(Append(s, Head(t))) :
         \/ i \in 1..Len(s) /\ Append(s, Head(t))[i] = s[i] /\ i < Len(s) + 1
         \/ i = Len(s) + 1 /\ Append(s, Head(t))[i] = t[1]
    /\ \A i \in 1..Len(Tail(t)) : i + 1 \in 1..Len(t) /\ Tail(t)[i] = t[i + 1]
<1> SUFFICES ASSUME NEW s \in Seq(Stuff), NEW t \in Seq(Stuff), t # <<>>
             PROVE  /\ 1 \in 1..Len(t) /\ Len(s) + 1 \in Nat
                    /\ \A i \in 1..Len(Append(s, Head(t))) :
                         \/ i \in 1..Len(s) /\ Append(s, Head(t))[i] = s[i] /\ i < Len(s) + 1
                         \/ i = Len(s) + 1 /\ Append(s, Head(t))[i] = t[1]
                    /\ \A i \in 1..Len(Tail(t)) : i + 1 \in 1..Len(t) /\ Tail(t)[i] = t[i + 1]
    OBVIOUS
<1>1. /\ Head(t) = t[1] /\ Len(t) \in Nat \ {0} /\ Head(t) \in Stuff
      /\ Len(Tail(t)) = Len(t) - 1 /\ \A i \in 1..Len(Tail(t)) : Tail(t)[i] = t[i + 1]
    BY HeadTailProperties
<1>2. /\ Len(Append(s, Head(t))) = Len(s) + 1 /\ Len(s) \in Nat
      /\ \A i \in 1..Len(s) : Append(s, Head(t))[i] = s[i]
      /\ Append(s, Head(t))[Len(s) + 1] = Head(t)
    BY <1>1, AppendProperties
<1>3. 1 \in 1..Len(t) /\ \A i \in 1..Len(Tail(t)) : i + 1 \in 1..Len(t)
    BY <1>1
<1>4. \A i \in 1..Len(Append(s, Head(t))) :
        i = Len(s) + 1 \/ (i \in 1..Len(s) /\ i < Len(s) + 1)
    BY <1>2
<1> QED BY <1>1, <1>2, <1>3, <1>4

\* The first packet of a stage goes to the end of the next one.
LEMMA MoveOrdered ==
  ASSUME NEW X, NEW F \in [1..5 -> Seq(Stuff)], NEW G \in [1..5 -> Seq(Stuff)], Ordered(X, F),
         NEW m \in 1..5, NEW n \in 1..5, n = m + 1, F[n] # <<>>,
         G[m] = Append(F[m], Head(F[n])), G[n] = Tail(F[n]),
         \A k \in 1..5 : k \notin {m, n} => G[k] = F[k]
  PROVE  Ordered(X, G)
<1> DEFINE last == Len(F[m]) + 1
<1>1. F[m] \in Seq(Stuff) /\ F[n] \in Seq(Stuff) /\ F[n] # <<>>
    OBVIOUS
<1>2. /\ 1 \in 1..Len(F[n]) /\ last \in Nat
      /\ \A i \in 1..Len(Append(F[m], Head(F[n]))) :
           \/ i \in 1..Len(F[m]) /\ Append(F[m], Head(F[n]))[i] = F[m][i] /\ i < last
           \/ i = last /\ Append(F[m], Head(F[n]))[i] = F[n][1]
      /\ \A i \in 1..Len(Tail(F[n])) : i + 1 \in 1..Len(F[n]) /\ Tail(F[n])[i] = F[n][i + 1]
    BY <1>1, MovedIs, Zenon
<1> HIDE DEF last
<1>3. \A i \in 1..Len(G[m]) :
        \/ i \in 1..Len(F[m]) /\ G[m][i] = F[m][i] /\ i < last
        \/ i = last /\ G[m][i] = F[n][1]
    BY <1>2, Zenon
<1>4. \A i \in 1..Len(G[m]) : i # last => i \in 1..Len(F[m]) /\ G[m][i] = F[m][i]
    BY <1>3, Zenon
<1>5. \A i \in 1..Len(G[n]) : i + 1 \in 1..Len(F[n]) /\ G[n][i] = F[n][i + 1]
    BY <1>2, Zenon
<1>6. 1 \in 1..Len(F[n]) /\ last \in Nat /\ \A i \in 1..Len(G[m]) : i = last => G[m][i] = F[n][1]
  <2>1. ~(last < last)
      BY <1>2
  <2> QED BY <1>2, <1>3, <2>1, Zenon
<1>7. \A i \in 1..Len(G[m]) : i <= last
    BY <1>2, <1>3
<1> SUFFICES ASSUME NEW k \in 1..5, NEW l \in 1..5, NEW i \in 1..Len(G[k]), NEW j \in 1..Len(G[l]),
                    k < l \/ (k = l /\ i < j), G[k][i] \in X, G[l][j] \in X
             PROVE  G[k][i].id < G[l][j].id
    BY DEF Ordered
<1>8. \A a, b \in 1..5 : \A g \in 1..Len(F[a]), h \in 1..Len(F[b]) :
         (a < b \/ (a = b /\ g < h)) /\ F[a][g] \in X /\ F[b][h] \in X => F[a][g].id < F[b][h].id
    BY DEF Ordered
<1>9. (k = l => i < j) /\ i \in Int /\ j \in Int /\ \A g, h \in Int : g < h => g + 1 < h + 1
    OBVIOUS
<1>10. CASE k = m /\ i = last
  <2>1. G[k][i] = F[n][1]
      BY <1>6, <1>10
  <2>2. k # l
      BY <1>6, <1>7, <1>10
  <2>3. CASE l = n
    <3>1. j + 1 \in 1..Len(F[n]) /\ G[l][j] = F[n][j + 1]
        BY <1>5, <2>3
    <3>2. 1 < j + 1
        OBVIOUS
    <3> QED BY <1>6, <1>8, <2>1, <3>1, <3>2
  <2>4. CASE l # n
    <3>1. n < l /\ l # m /\ l # n
        BY <1>10, <2>2, <2>4
    <3>2. G[l] = F[l]
        BY <3>1
    <3> QED BY <1>6, <1>8, <2>1, <3>1, <3>2
  <2> QED BY <2>3, <2>4
<1>11. CASE l = m /\ j = last /\ ~(k = m /\ i = last)
  <2>1. G[l][j] = F[n][1]
      BY <1>6, <1>11
  <2>2. k < n
      BY <1>11
  <2>3. i \in 1..Len(F[k]) /\ G[k][i] = F[k][i]
    <3>1. CASE k = m
        BY <1>4, <1>11, <3>1
    <3>2. CASE k # m
      <4>1. k \notin {m, n}
          BY <2>2, <3>2
      <4> QED BY <4>1
    <3> QED BY <3>1, <3>2
  <2> QED BY <1>6, <1>8, <2>1, <2>2, <2>3
<1>12. CASE ~(k = m /\ i = last) /\ ~(l = m /\ j = last)
  <2>1. CASE k # n /\ l # n
    <3>1. i \in 1..Len(F[k]) /\ G[k][i] = F[k][i]
        BY <1>4, <1>12, <2>1
    <3>2. j \in 1..Len(F[l]) /\ G[l][j] = F[l][j]
        BY <1>4, <1>12, <2>1
    <3> QED BY <1>8, <3>1, <3>2
  <2>2. CASE k = n /\ l # n
    <3>1. i + 1 \in 1..Len(F[k]) /\ G[k][i] = F[k][i + 1]
        BY <1>5, <2>2
    <3>2. j \in 1..Len(F[l]) /\ G[l][j] = F[l][j]
        BY <1>4, <1>12, <2>2
    <3> QED BY <1>8, <2>2, <3>1, <3>2
  <2>3. CASE k # n /\ l = n
    <3>1. i \in 1..Len(F[k]) /\ G[k][i] = F[k][i]
        BY <1>4, <1>12, <2>3
    <3>2. j + 1 \in 1..Len(F[l]) /\ G[l][j] = F[l][j + 1]
        BY <1>5, <2>3
    <3> QED BY <1>8, <2>3, <3>1, <3>2
  <2>4. CASE k = n /\ l = n
    <3>1. i + 1 \in 1..Len(F[k]) /\ G[k][i] = F[k][i + 1]
        BY <1>5, <2>4
    <3>2. j + 1 \in 1..Len(F[l]) /\ G[l][j] = F[l][j + 1]
        BY <1>5, <2>4
    <3>3. i + 1 < j + 1
        BY <1>9, <2>4, Zenon
    <3>4. k = l
        BY <2>4
    <3> QED BY <1>8, <3>1, <3>2, <3>3, <3>4, Zenon
  <2> QED BY <2>1, <2>2, <2>3, <2>4
<1> QED BY <1>10, <1>11, <1>12

\* A packet with a greater id than all the others enters the last stage.
LEMMA NewOrdered ==
  ASSUME NEW X, NEW F \in [1..5 -> Seq(Stuff)], NEW G \in [1..5 -> Seq(Stuff)], Ordered(X, F),
         NEW e, G[5] = <<e>>, \A k \in 1..4 : G[k] = F[k],
         \A k \in 1..4 : \A i \in 1..Len(F[k]) : F[k][i] \in X => F[k][i].id < e.id
  PROVE  Ordered(X, G)
<1> SUFFICES ASSUME NEW k \in 1..5, NEW l \in 1..5, NEW i \in 1..Len(G[k]), NEW j \in 1..Len(G[l]),
                    k < l \/ (k = l /\ i < j), G[k][i] \in X, G[l][j] \in X
             PROVE  G[k][i].id < G[l][j].id
    BY DEF Ordered
<1>1. CASE l = 5
  <2>1. j = 1 /\ G[l][j] = e
      BY <1>1
  <2>2. k \in 1..4
      BY <1>1, <2>1
  <2> QED BY <2>1, <2>2
<1>2. CASE l # 5
  <2>1. k \in 1..4 /\ l \in 1..4
      BY <1>2
  <2> QED BY <2>1 DEF Ordered
<1> QED BY <1>1, <1>2

-----------------------------------------------------------------------------
(* What the lemmas of the actions use *)

LEMMA StuffHas ==
  /\ Packets \subseteq Stuff /\ Seq(Packets) \subseteq Seq(Stuff)
  /\ Seq(UpPackets) \subseteq Seq(Stuff) /\ Seq(DownPackets) \subseteq Seq(Stuff)
<1>1. Packets \subseteq Stuff /\ UpPackets \subseteq Stuff /\ DownPackets \subseteq Stuff
    BY DEF Stuff, UpPackets
<1>2. \A A : A \subseteq Stuff => Seq(A) \subseteq Seq(Stuff)
    OBVIOUS
<1> QED BY <1>1, <1>2

\* What the type invariant says of all the places packets can be, before a step and after it
LEMMA FlowTypes ==
  ASSUME TypeOK
  PROVE  /\ Packets \subseteq Stuff
         /\ \A c \in Clients : /\ up[c] \in Seq(Stuff) /\ down[c] \in Seq(Stuff)
                               /\ treated[c] \in Seq(Stuff) /\ Home[c] \in Relays
         /\ \A c \in Clients, t \in Threads : /\ out[c][t] # None => out[c][t] \in Packets
                                             /\ Pending(out[c][t]) \in Seq(Stuff)
         /\ \A r \in Relays : queue[r] \in Seq(Stuff) /\ transit[r] \subseteq Packets
<1>1. Packets \subseteq Stuff
    BY StuffHas
<1>2. \A c \in Clients : up[c] \in Seq(Stuff) /\ down[c] \in Seq(Stuff)
  <2>1. \A c \in Clients : up[c] \in Seq(UpPackets) /\ down[c] \in Seq(DownPackets)
      BY DEF TypeOK, UpPackets, DownPackets
  <2> QED BY <2>1, StuffHas
<1>3. \A c \in Clients : treated[c] \in Seq(Packets)
    BY DEF TypeOK
<1>4. \A r \in Relays : queue[r] \in Seq(Packets) /\ transit[r] \subseteq Packets
    BY DEF TypeOK
<1>5. \A c \in Clients, t \in Threads : out[c][t] # None => out[c][t] \in Packets
    BY DEF TypeOK
<1>6. \A c \in Clients, t \in Threads : Pending(out[c][t]) \in Seq(Stuff)
    BY <1>1, <1>5 DEF Pending
<1>7. \A c \in Clients : Home[c] \in Relays
    BY HomeAssumption
<1>8. \A q \in Seq(Packets) : q \in Seq(Stuff)
    BY StuffHas
<1> QED BY <1>1, <1>2, <1>3, <1>4, <1>5, <1>6, <1>7, <1>8

LEMMA FlowTypesNext ==
  ASSUME TypeOK'
  PROVE  /\ \A c \in Clients : /\ up'[c] \in Seq(Stuff) /\ down'[c] \in Seq(Stuff)
                               /\ treated'[c] \in Seq(Stuff) /\ Home[c] \in Relays
         /\ \A c \in Clients, t \in Threads : /\ out'[c][t] # None => out'[c][t] \in Packets
                                             /\ Pending(out'[c][t]) \in Seq(Stuff)
         /\ \A r \in Relays : queue'[r] \in Seq(Stuff) /\ transit'[r] \subseteq Packets
<1>1. Packets \subseteq Stuff
    BY StuffHas
<1>2. \A c \in Clients : up'[c] \in Seq(Stuff) /\ down'[c] \in Seq(Stuff)
  <2>1. \A c \in Clients : up'[c] \in Seq(UpPackets) /\ down'[c] \in Seq(DownPackets)
      BY DEF TypeOK, UpPackets, DownPackets
  <2> QED BY <2>1, StuffHas
<1>3. \A c \in Clients : treated'[c] \in Seq(Packets)
    BY DEF TypeOK
<1>4. \A r \in Relays : queue'[r] \in Seq(Packets) /\ transit'[r] \subseteq Packets
    BY DEF TypeOK
<1>5. \A c \in Clients, t \in Threads : out'[c][t] # None => out'[c][t] \in Packets
    BY DEF TypeOK
<1>6. \A c \in Clients, t \in Threads : Pending(out'[c][t]) \in Seq(Stuff)
    BY <1>1, <1>5 DEF Pending
<1>7. \A c \in Clients : Home[c] \in Relays
    BY HomeAssumption
<1>8. \A q \in Seq(Packets) : q \in Seq(Stuff)
    BY StuffHas
<1> QED BY <1>1, <1>2, <1>3, <1>4, <1>5, <1>6, <1>7, <1>8

\* The line from s to d, before a step and after it
LEMMA LineIs ==
  ASSUME TypeOK, NEW s \in Clients, NEW t \in Threads, NEW d \in Clients
  PROVE  /\ Line(s, t, d) \in [1..5 -> Seq(Stuff)]
         /\ Line(s, t, d)[1] = treated[d] /\ Line(s, t, d)[2] = down[d]
         /\ Line(s, t, d)[3] = queue[Home[s]] /\ Line(s, t, d)[4] = up[s]
         /\ Line(s, t, d)[5] = Pending(out[s][t])
<1> DEFINE a == treated[d]
           b == down[d]
           q == queue[Home[s]]
           u == up[s]
           e == Pending(out[s][t])
           F == Five(a, b, q, u, e)
<1>1. /\ a \in Seq(Stuff) /\ b \in Seq(Stuff) /\ q \in Seq(Stuff)
      /\ u \in Seq(Stuff) /\ e \in Seq(Stuff)
    BY FlowTypes
<1>2. Line(s, t, d) = F
    BY DEF Line
<1> HIDE DEF a, b, q, u, e
<1>3. F \in [1..5 -> Seq(Stuff)] /\ F[1] = a /\ F[2] = b /\ F[3] = q /\ F[4] = u /\ F[5] = e
    BY <1>1, FiveIs
<1> QED BY <1>2, <1>3 DEF a, b, q, u, e

LEMMA LineIsNext ==
  ASSUME TypeOK', NEW s \in Clients, NEW t \in Threads, NEW d \in Clients
  PROVE  /\ Line(s, t, d)' \in [1..5 -> Seq(Stuff)]
         /\ Line(s, t, d)'[1] = treated'[d] /\ Line(s, t, d)'[2] = down'[d]
         /\ Line(s, t, d)'[3] = queue'[Home[s]] /\ Line(s, t, d)'[4] = up'[s]
         /\ Line(s, t, d)'[5] = Pending(out'[s][t])
<1> DEFINE a == treated'[d]
           b == down'[d]
           q == queue'[Home[s]]
           u == up'[s]
           e == Pending(out'[s][t])
           F == Five(a, b, q, u, e)
<1>1. /\ a \in Seq(Stuff) /\ b \in Seq(Stuff) /\ q \in Seq(Stuff)
      /\ u \in Seq(Stuff) /\ e \in Seq(Stuff)
    BY FlowTypesNext
<1>2. Line(s, t, d)' = F
    BY DEF Line
<1> HIDE DEF a, b, q, u, e
<1>3. F \in [1..5 -> Seq(Stuff)] /\ F[1] = a /\ F[2] = b /\ F[3] = q /\ F[4] = u /\ F[5] = e
    BY <1>1, FiveIs
<1> QED BY <1>2, <1>3 DEF a, b, q, u, e

\* A step that thins every stage of a line keeps the order on it.
LEMMA LineThins ==
  ASSUME TypeOK, TypeOK', OrderInv, NEW s \in Clients, NEW t \in Threads, NEW d \in Clients,
         nodeid'[s] = nodeid[s],
         Thin(Own(s, t), treated[d], treated'[d]), Thin(Own(s, t), down[d], down'[d]),
         Thin(Own(s, t), queue[Home[s]], queue'[Home[s]]), Thin(Own(s, t), up[s], up'[s]),
         Thin(Own(s, t), Pending(out[s][t]), Pending(out'[s][t]))
  PROVE  Ordered(Own(s, t), Line(s, t, d))'
<1> DEFINE X == Own(s, t)
           F == Line(s, t, d)
           G == Line(s, t, d)'
<1>1. Own(s, t)' = X
    BY DEF Own
<1>2. F \in [1..5 -> Seq(Stuff)] /\ G \in [1..5 -> Seq(Stuff)] /\ Ordered(X, F)
    BY LineIs, LineIsNext DEF OrderInv
<1>3. Thin(X, F[1], G[1]) /\ Thin(X, F[2], G[2]) /\ Thin(X, F[3], G[3]) /\ Thin(X, F[4], G[4])
      /\ Thin(X, F[5], G[5])
    BY LineIs, LineIsNext
<1> HIDE DEF X, F, G
<1>4. \A k \in 1..5 : k = 1 \/ k = 2 \/ k = 3 \/ k = 4 \/ k = 5
    OBVIOUS
<1>5. \A k \in 1..5 : Thin(X, F[k], G[k])
    BY <1>3, <1>4
<1>6. Ordered(X, G)
    BY <1>2, <1>5, ThinOrdered
<1> QED BY <1>1, <1>6 DEF G, Ordered

LEMMA ThinFacts ==
  /\ \A X, q : Thin(X, q, q) /\ Thin(X, q, <<>>)
  /\ \A X, q : q # <<>> => Thin(X, q, Tail(q))
  /\ \A X, q, e : e \in Stuff /\ e \notin X => Thin(X, q, Append(q, e))
BY DEF Thin

\* A step that makes no packet, treats none and calls no module keeps what is
\* acknowledged.
LEMMA AckKeeps ==
  ASSUME AckInv, \A p \in Packets : Around(p)' => Around(p),
         \A c \in Clients : calling'[c] = calling[c] \/ calling'[c] = None,
         UNCHANGED <<treated, acked, sentMap, nodeid, curId>>
  PROVE  AckInv'
<1>1. \A p : Done(p)' <=> Done(p)
    BY DEF Done
<1>2. \A p : Counted(p)' <=> Counted(p)
    BY DEF Counted
<1>3. \A f, i : WasTreated(f, i)' <=> WasTreated(f, i)
    BY <1>1 DEF WasTreated
<1>4. \A c \in Clients : \A i \in acked'[c] : WasTreated(nodeid[c], i)'
    BY <1>3 DEF AckInv
<1>5. \A c \in Clients : calling'[c] # None => In(calling'[c], treated'[c])
    BY DEF AckInv
<1> QED BY <1>1, <1>2, <1>3, <1>4, <1>5 DEF AckInv

\* A node has an id of its own.
LEMMA OneNode ==
  ASSUME OwnPacketsOnly, RouteInv
  PROVE  \A c, d \in Clients : nodeid[c] = nodeid[d] /\ nodeid[c] # None => c = d
BY DEF OwnPacketsOnly, RouteInv

-----------------------------------------------------------------------------
(* Steps that leave packets alone *)

LEMMA SameFlow ==
  ASSUME FlowInv, N2NPInv',
         UNCHANGED <<up, down, queue, transit, rsocketId, nodeid, curId, sentMap, out, calling,
                     treated, acked>>
  PROVE  RouteInv' /\ AckInv' /\ OrderInv'
<1>1. RouteInv'
    BY DEF FlowInv, RouteInv
<1>2. AckInv'
  <2>1. \A p \in Packets : Around(p)' => Around(p)
      BY DEF Around
  <2> QED BY <2>1, AckKeeps DEF FlowInv
<1>3. OrderInv'
  <2> SUFFICES ASSUME NEW s \in Clients, NEW t \in Threads, NEW d \in Clients
               PROVE  Ordered(Own(s, t), Line(s, t, d))'
      BY DEF OrderInv
  <2> QED BY LineThins, ThinFacts DEF FlowInv, N2NPInv
<1> QED BY <1>1, <1>2, <1>3

LEMMA DestroyFlow ==
  ASSUME FlowInv, N2NPInv', NEW c \in Clients, Destroy(c)
  PROVE  RouteInv' /\ AckInv' /\ OrderInv'
BY SameFlow DEF Destroy, connVars, nodeVars

LEMMA RecvThrowsFlow ==
  ASSUME FlowInv, N2NPInv', NEW c \in Clients, RecvThrows(c)
  PROVE  RouteInv' /\ AckInv' /\ OrderInv'
BY SameFlow DEF RecvThrows, connVars, nodeVars

LEMMA DetachAllNodesFlow ==
  ASSUME FlowInv, N2NPInv', NEW r \in Relays, DetachAllNodes(r)
  PROVE  RouteInv' /\ AckInv' /\ OrderInv'
BY SameFlow DEF DetachAllNodes, connVars, nodeVars

LEMMA OfferDirectConnFlow ==
  ASSUME FlowInv, N2NPInv', NEW c \in Clients, NEW id \in Offered, OfferDirectConn(c, id)
  PROVE  RouteInv' /\ AckInv' /\ OrderInv'
BY SameFlow DEF OfferDirectConn, connVars, relayVars

-----------------------------------------------------------------------------
(* The relays *)

\* What Socket::sendBytes does to the stream of c, and to no other
LEMMA DownGets ==
  ASSUME TypeOK, NEW c \in Clients, NEW g, SendDown(c, g)
  PROVE  \A d \in Clients : down'[d] = down[d] \/ (d = c /\ down'[d] = Append(down[d], g))
<1>1. down' = down \/ down' = [down EXCEPT ![c] = Append(@, g)]
    BY DEF SendDown
<1>2. DOMAIN down = Clients
    BY DEF TypeOK
<1> QED BY <1>1, <1>2

LEMMA DownIn ==
  ASSUME TypeOK, NEW c \in Clients, NEW g \in Stuff, SendDown(c, g)
  PROVE  \A d \in Clients : \A p : In(p, down'[d]) => In(p, down[d]) \/ (d = c /\ p = g)
<1> SUFFICES ASSUME NEW d \in Clients, NEW p, In(p, down'[d])
             PROVE  In(p, down[d]) \/ (d = c /\ p = g)
    OBVIOUS
<1>1. down'[d] = down[d] \/ (d = c /\ down'[d] = Append(down[d], g))
    BY DownGets
<1>2. down[d] \in Seq(Stuff)
    BY FlowTypes
<1>3. In(p, Append(down[d], g)) => In(p, down[d]) \/ p = g
    BY <1>2, InAppend, Zenon
<1>4. CASE down'[d] = down[d]
    BY <1>4
<1>5. CASE d = c /\ down'[d] = Append(down[d], g)
    BY <1>3, <1>5
<1> QED BY <1>1, <1>4, <1>5

\* The request for an id leaves the stream; it is no packet of a user.
LEMMA AttachFlow ==
  ASSUME FlowInv, N2NPInv', NEW c \in Clients, Attach(c)
  PROVE  RouteInv' /\ AckInv' /\ OrderInv'
<1>1. TypeOK /\ TypeOK' /\ NameInv /\ RouteInv /\ AckInv /\ OrderInv
    BY DEF FlowInv, N2NPInv
<1>2. /\ up[c] # <<>> /\ up' = [up EXCEPT ![c] = Tail(@)] /\ Head(up[c]).method = "ID"
      /\ UNCHANGED <<down, queue, transit, nodeid, curId, sentMap, out, calling, treated, acked>>
    BY DEF Attach, nodeVars
<1>3. \A d \in Clients : rsocketId'[d] = rsocketId[d] \/ d = c
    BY <1>1 DEF Attach, TypeOK
<1>4. up'[c] = Tail(up[c]) /\ \A d \in Clients : d # c => up'[d] = up[d]
    BY <1>1, <1>2 DEF TypeOK
<1>5. up[c] \in Seq(Stuff)
    BY <1>1, FlowTypes
<1>6. nodeid[c] = None
  <2>1. 1 \in 1..Len(up[c]) /\ up[c][1] = Head(up[c])
      BY <1>2, <1>5
  <2>2. rsocketId[c] = None
      BY <1>1, <1>2, <2>1 DEF NameInv
  <2> QED BY <1>1, <2>2 DEF RouteInv
<1>7. \A d \in Clients : \A p : In(p, up'[d]) => In(p, up[d])
    BY <1>2, <1>4, <1>5, InFacts
<1>8. RouteInv'
    BY <1>1, <1>2, <1>3, <1>6, <1>7 DEF RouteInv
<1>9. AckInv'
  <2>1. \A p \in Packets : Around(p)' => Around(p)
      BY <1>2, <1>7 DEF Around
  <2> QED BY <1>1, <1>2, <2>1, AckKeeps
<1>10. OrderInv'
  <2> SUFFICES ASSUME NEW s \in Clients, NEW t \in Threads, NEW d \in Clients
               PROVE  Ordered(Own(s, t), Line(s, t, d))'
      BY DEF OrderInv
  <2>1. Thin(Own(s, t), up[s], up'[s])
      BY <1>2, <1>4, ThinFacts
  <2> QED BY <1>1, <1>2, <2>1, LineThins, ThinFacts
<1> QED BY <1>8, <1>9, <1>10

\* Nor is the id the relay sends.
LEMMA SendIDFlow ==
  ASSUME FlowInv, N2NPInv', NEW c \in Clients, SendID(c)
  PROVE  RouteInv' /\ AckInv' /\ OrderInv'
<1> DEFINE g == [method |-> "ID", from |-> RelayId(Home[c]), to |-> rsocketId[c], id |-> 0,
                 acks |-> None]
<1>1. TypeOK /\ TypeOK' /\ NameInv /\ RouteInv /\ AckInv /\ OrderInv
    BY DEF FlowInv, N2NPInv
<1>2. UNCHANGED <<up, queue, transit, rsocketId, nodeid, curId, sentMap, out, calling, treated, acked>>
    BY DEF SendID, nodeVars
<1>3. down' = down \/ SendDown(c, g)
    BY DEF SendID
<1>4. g \in Stuff /\ g \notin Packets
  <2>1. rsocketId[c] \in NodeIds
      BY <1>1 DEF SendID, NameInv, TypeOK
  <2>2. RelayId(Home[c]) \in NodeIds
      BY HomeAssumption DEF RelayId, NodeIds
  <2>3. g \in IdGrants
      BY <2>1, <2>2 DEF IdGrants
  <2> QED BY <2>3, PacketKinds DEF Stuff, DownPackets
<1> HIDE DEF g
<1>5. \A d \in Clients : down'[d] = down[d] \/ down'[d] = Append(down[d], g)
    BY <1>1, <1>3, DownGets
<1>6. \A d \in Clients : down[d] \in Seq(Stuff)
    BY <1>1, FlowTypes
<1>7. \A d \in Clients, p \in Packets : In(p, down'[d]) => In(p, down[d])
  <2> SUFFICES ASSUME NEW d \in Clients, NEW p \in Packets, In(p, down'[d]) PROVE In(p, down[d])
      OBVIOUS
  <2>1. p # g
      BY <1>4
  <2>2. CASE down' = down
      BY <2>2
  <2>3. CASE SendDown(c, g)
      BY <1>1, <1>4, <2>1, <2>3, DownIn, Zenon
  <2> QED BY <1>3, <2>2, <2>3
<1>8. RouteInv'
    BY <1>1, <1>2 DEF RouteInv
<1>9. AckInv'
  <2>1. \A p \in Packets : Around(p)' => Around(p)
      BY <1>2, <1>7 DEF Around
  <2> QED BY <1>1, <1>2, <2>1, AckKeeps
<1>10. OrderInv'
  <2> SUFFICES ASSUME NEW s \in Clients, NEW t \in Threads, NEW d \in Clients
               PROVE  Ordered(Own(s, t), Line(s, t, d))'
      BY DEF OrderInv
  <2>1. g \notin Own(s, t)
      BY <1>4 DEF Own
  <2>2. Thin(Own(s, t), down[d], down'[d])
      BY <1>4, <1>5, <2>1, ThinFacts
  <2> QED BY <1>1, <1>2, <2>2, LineThins, ThinFacts
<1> QED BY <1>8, <1>9, <1>10

\* The packet goes from the connection to the queue, behind those of its sender;
\* for any other sender it does not count.
LEMMA PostUpFlow ==
  ASSUME FlowInv, N2NPInv', NEW c \in Clients, PostUp(c)
  PROVE  RouteInv' /\ AckInv' /\ OrderInv'
<1> DEFINE h == Head(up[c])
<1>1. TypeOK /\ TypeOK' /\ OwnPacketsOnly /\ RouteInv /\ AckInv /\ OrderInv
    BY DEF FlowInv, N2NPInv
<1>2. /\ up[c] # <<>> /\ up' = [up EXCEPT ![c] = Tail(@)] /\ h.method # "ID"
      /\ queue' = [queue EXCEPT ![Home[c]] = Append(@, h)]
      /\ UNCHANGED <<down, transit, rsocketId, nodeid, curId, sentMap, out, calling, treated, acked>>
    BY DEF PostUp, nodeVars
<1>3. up'[c] = Tail(up[c]) /\ \A d \in Clients : d # c => up'[d] = up[d]
    BY <1>1, <1>2 DEF TypeOK
<1>4. /\ Home[c] \in Relays /\ queue'[Home[c]] = Append(queue[Home[c]], h)
      /\ \A r \in Relays : r # Home[c] => queue'[r] = queue[r]
    BY <1>1, <1>2, HomeAssumption DEF TypeOK
<1>5. up[c] \in Seq(Stuff) /\ \A r \in Relays : queue[r] \in Seq(Stuff)
    BY <1>1, FlowTypes
<1>6. In(h, up[c]) /\ h \in Stuff
    BY <1>2, <1>5, InFacts
<1>7. h \in Packets
  <2>1. up[c] \in Seq(UpPackets)
      BY <1>1 DEF TypeOK, UpPackets
  <2>2. h \in UpPackets
      BY <1>2, <2>1
  <2> QED BY <1>2, <2>2, PacketKinds DEF UpPackets
<1> HIDE DEF h
<1>8. h.from = nodeid[c] /\ nodeid[c] # None
    BY <1>1, <1>6, <1>7, PacketKinds DEF RouteInv, Packets
<1>9. h.from[1] = Home[c]
  <2>1. rsocketId[c] # None /\ nodeid[c] = rsocketId[c]
      BY <1>1, <1>8 DEF RouteInv
  <2> QED BY <1>8, <2>1 DEF FlowInv, N2NPInv, NameInv
<1>10. \A d \in Clients : \A p : In(p, up'[d]) => In(p, up[d])
    BY <1>2, <1>3, <1>5, InFacts
<1>11. \A r \in Relays : \A p : In(p, queue'[r]) => In(p, queue[r]) \/ (p = h /\ r = Home[c])
  <2> SUFFICES ASSUME NEW r \in Relays, NEW p, In(p, queue'[r])
               PROVE  In(p, queue[r]) \/ (p = h /\ r = Home[c])
      OBVIOUS
  <2>1. CASE r # Home[c]
      BY <1>4, <2>1
  <2>2. CASE r = Home[c]
    <3>1. queue'[r] = Append(queue[r], h) /\ queue[r] \in Seq(Stuff) /\ h \in Stuff
        BY <1>4, <1>5, <1>6, <2>2
    <3>2. In(p, Append(queue[r], h)) => In(p, queue[r]) \/ p = h
        BY <3>1, InAppend, Zenon
    <3> QED BY <2>2, <3>1, <3>2
  <2> QED BY <2>1, <2>2
<1>12. RouteInv'
  <2>1. \A r \in Relays, p \in Packets : In(p, queue'[r]) => p.from[1] = r \/ p.to[1] = r
      BY <1>1, <1>9, <1>11 DEF RouteInv
  <2>2. \A d \in Clients, p \in Packets : In(p, up'[d]) => p.from = nodeid[d]
      BY <1>1, <1>10 DEF RouteInv
  <2> QED BY <1>1, <1>2, <2>1, <2>2 DEF RouteInv
<1>13. AckInv'
  <2>1. \A p \in Packets : Around(p)' => Around(p)
      BY <1>2, <1>6, <1>10, <1>11 DEF Around
  <2> QED BY <1>1, <1>2, <2>1, AckKeeps
<1>14. OrderInv'
  <2> SUFFICES ASSUME NEW s \in Clients, NEW t \in Threads, NEW d \in Clients
               PROVE  Ordered(Own(s, t), Line(s, t, d))'
      BY DEF OrderInv
  <2>1. CASE s # c
    <3>1. h \notin Own(s, t)
      <4>1. nodeid[s] = nodeid[c] => s = c
          BY <1>1, <1>8, OneNode, Zenon
      <4>2. h.from # nodeid[s]
          BY <1>8, <2>1, <4>1
      <4> QED BY <4>2 DEF Own
    <3>2. Thin(Own(s, t), queue[Home[s]], queue'[Home[s]])
      <4>1. CASE Home[s] = Home[c]
        <5>1. Thin(Own(s, t), queue[Home[c]], Append(queue[Home[c]], h))
            BY <1>6, <3>1, ThinFacts, Zenon
        <5> QED BY <1>4, <4>1, <5>1
      <4>2. CASE Home[s] # Home[c]
        <5>1. queue'[Home[s]] = queue[Home[s]]
            BY <1>4, <4>2, HomeAssumption
        <5> QED BY <5>1, ThinFacts, Zenon
      <4> QED BY <4>1, <4>2
    <3>3. Thin(Own(s, t), up[s], up'[s])
        BY <1>3, <2>1, ThinFacts
    <3> QED BY <1>1, <1>2, <3>2, <3>3, LineThins, ThinFacts
  <2>2. CASE s = c
    <3> DEFINE F == Line(s, t, d)
               G == Line(s, t, d)'
    <3>1. /\ F \in [1..5 -> Seq(Stuff)] /\ G \in [1..5 -> Seq(Stuff)] /\ Ordered(Own(s, t), F)
        BY <1>1, LineIs, LineIsNext DEF OrderInv
    <3>2. /\ F[1] = treated[d] /\ F[2] = down[d] /\ F[3] = queue[Home[s]] /\ F[4] = up[s]
          /\ F[5] = Pending(out[s][t])
        BY <1>1, LineIs
    <3>3. /\ G[1] = treated[d] /\ G[2] = down[d] /\ G[3] = queue'[Home[s]] /\ G[4] = up'[s]
          /\ G[5] = Pending(out[s][t])
        BY <1>1, <1>2, LineIsNext
    <3> HIDE DEF F, G
    <3>4. F[4] # <<>> /\ G[3] = Append(F[3], Head(F[4])) /\ G[4] = Tail(F[4])
        BY <1>2, <1>3, <1>4, <2>2, <3>2, <3>3 DEF h
    <3>5. \A k \in 1..5 : k \notin {3, 4} => G[k] = F[k]
      <4>1. \A k \in 1..5 : k \notin {3, 4} => k = 1 \/ k = 2 \/ k = 5
          OBVIOUS
      <4>2. F[1] = G[1] /\ F[2] = G[2] /\ F[5] = G[5]
          BY <3>2, <3>3
      <4> SUFFICES ASSUME NEW k \in 1..5, k \notin {3, 4} PROVE G[k] = F[k]
          OBVIOUS
      <4>3. k = 1 \/ k = 2 \/ k = 5
          BY <4>1
      <4> QED BY <4>2, <4>3, Zenon
    <3>6. Ordered(Own(s, t), G)
      <4>1. 3 \in 1..5 /\ 4 \in 1..5 /\ 4 = 3 + 1
          OBVIOUS
      <4> QED BY <3>1, <3>4, <3>5, <4>1, MoveOrdered, Zenon
    <3>7. Own(s, t)' = Own(s, t)
        BY <1>2 DEF Own
    <3> QED BY <3>6, <3>7 DEF G, Ordered
  <2> QED BY <2>1, <2>2
<1> QED BY <1>12, <1>13, <1>14

\* The ids of nodes name their relay.
LEMMA IdsOf ==
  ASSUME FlowInv
  PROVE  /\ \A c \in Clients : nodeid[c] # None => nodeid[c][1] = Home[c]
         /\ \A p \in Packets : /\ p.from # None /\ p.to # None
                               /\ p.to[1] \in Relays /\ p.from[1] \in Relays
<1>1. \A c \in Clients : nodeid[c] # None => nodeid[c][1] = Home[c]
    BY DEF FlowInv, N2NPInv, NameInv, RouteInv
<1>2. \A p \in Packets : p.from \in NodeIds /\ p.to \in NodeIds
    BY DEF Packets
<1>3. \A i \in NodeIds : i # None /\ i[1] \in Relays
    BY PacketKinds
<1> QED BY <1>1, <1>2, <1>3

\* A step that moves a packet from a stage to the next keeps the order on the line.
LEMMA LineMoves ==
  ASSUME TypeOK, TypeOK', OrderInv, NEW s \in Clients, NEW t \in Threads, NEW d \in Clients,
         nodeid'[s] = nodeid[s],
         NEW m \in 1..5, NEW n \in 1..5, n = m + 1, Line(s, t, d)[n] # <<>>,
         Line(s, t, d)'[m] = Append(Line(s, t, d)[m], Head(Line(s, t, d)[n])),
         Line(s, t, d)'[n] = Tail(Line(s, t, d)[n]),
         \A k \in 1..5 : k \notin {m, n} => Line(s, t, d)'[k] = Line(s, t, d)[k]
  PROVE  Ordered(Own(s, t), Line(s, t, d))'
<1> DEFINE X == Own(s, t)
           F == Line(s, t, d)
           G == Line(s, t, d)'
<1>1. Own(s, t)' = X
    BY DEF Own
<1>2. F \in [1..5 -> Seq(Stuff)] /\ G \in [1..5 -> Seq(Stuff)] /\ Ordered(X, F)
    BY LineIs, LineIsNext DEF OrderInv
<1>3. F[n] # <<>> /\ G[m] = Append(F[m], Head(F[n])) /\ G[n] = Tail(F[n])
      /\ \A k \in 1..5 : k \notin {m, n} => G[k] = F[k]
    OBVIOUS
<1> HIDE DEF X, F, G
<1>4. Ordered(X, G)
    BY <1>2, <1>3, MoveOrdered, Zenon
<1> QED BY <1>1, <1>4 DEF G, Ordered

\* A packet from another relay does not count.
LEMMA PostTransitFlow ==
  ASSUME FlowInv, N2NPInv', NEW r \in Relays, NEW p \in transit[r], PostTransit(r, p)
  PROVE  RouteInv' /\ AckInv' /\ OrderInv'
<1>1. TypeOK /\ TypeOK' /\ RouteInv /\ AckInv /\ OrderInv
    BY DEF FlowInv, N2NPInv
<1>2. /\ transit' = [transit EXCEPT ![r] = @ \ {p}] /\ queue' = [queue EXCEPT ![r] = Append(@, p)]
      /\ UNCHANGED <<up, down, rsocketId, nodeid, curId, sentMap, out, calling, treated, acked>>
    BY DEF PostTransit, nodeVars, connVars
<1>3. /\ queue'[r] = Append(queue[r], p) /\ queue[r] \in Seq(Stuff) /\ p \in Packets /\ p \in Stuff
      /\ \A q \in Relays : q # r => queue'[q] = queue[q]
  <2>1. queue[r] \in Seq(Stuff) /\ p \in Packets /\ p \in Stuff
      BY <1>1, FlowTypes, StuffHas
  <2> QED BY <1>1, <1>2, <2>1 DEF TypeOK
<1>4. p.to[1] = r /\ p.from[1] # r
    BY <1>1 DEF RouteInv
<1>5. \A q \in Relays : transit'[q] \subseteq transit[q]
    BY <1>1, <1>2 DEF TypeOK
<1>6. \A q \in Relays : \A x : In(x, queue'[q]) => In(x, queue[q]) \/ (x = p /\ q = r)
  <2> SUFFICES ASSUME NEW q \in Relays, NEW x, In(x, queue'[q])
               PROVE  In(x, queue[q]) \/ (x = p /\ q = r)
      OBVIOUS
  <2>1. In(x, Append(queue[r], p)) => In(x, queue[r]) \/ x = p
      BY <1>3, InAppend, Zenon
  <2>2. CASE q = r
      BY <1>3, <2>1, <2>2
  <2>3. CASE q # r
      BY <1>3, <2>3
  <2> QED BY <2>2, <2>3
<1>7. RouteInv'
  <2>1. \A q \in Relays, x \in Packets : In(x, queue'[q]) => x.from[1] = q \/ x.to[1] = q
    <3> TAKE q \in Relays, x \in Packets
    <3>1. In(x, queue[q]) => x.from[1] = q \/ x.to[1] = q
        BY <1>1 DEF RouteInv
    <3>2. In(x, queue'[q]) => In(x, queue[q]) \/ (x = p /\ q = r)
        BY <1>6, Zenon
    <3> QED BY <1>4, <3>1, <3>2, Zenon
  <2>2. \A q \in Relays : \A x \in transit'[q] : x.to[1] = q /\ x.from[1] # q
      BY <1>1, <1>5 DEF RouteInv
  <2> QED BY <1>1, <1>2, <2>1, <2>2 DEF RouteInv
<1>8. AckInv'
  <2>1. \A x \in Packets : Around(x)' => Around(x)
      BY <1>2, <1>5, <1>6 DEF Around
  <2> QED BY <1>1, <1>2, <2>1, AckKeeps
<1>9. OrderInv'
  <2> SUFFICES ASSUME NEW s \in Clients, NEW t \in Threads, NEW d \in Clients
               PROVE  Ordered(Own(s, t), Line(s, t, d))'
      BY DEF OrderInv
  <2>1. Home[s] = r => p \notin Own(s, t)
    <3> SUFFICES ASSUME Home[s] = r, p.from = nodeid[s] PROVE FALSE
        BY DEF Own
    <3>1. nodeid[s] # None
        BY <1>3, IdsOf
    <3>2. nodeid[s][1] = Home[s]
        BY <3>1, IdsOf
    <3> QED BY <1>4, <3>2
  <2>2. Thin(Own(s, t), queue[Home[s]], queue'[Home[s]])
    <3>1. CASE Home[s] = r
      <4>1. Thin(Own(s, t), queue[r], Append(queue[r], p))
          BY <1>3, <2>1, <3>1, ThinFacts, Zenon
      <4> QED BY <1>3, <3>1, <4>1
    <3>2. CASE Home[s] # r
      <4>1. queue'[Home[s]] = queue[Home[s]]
          BY <1>3, <3>2, HomeAssumption
      <4> QED BY <4>1, ThinFacts, Zenon
    <3> QED BY <3>1, <3>2
  <2> QED BY <1>1, <1>2, <2>2, LineThins, ThinFacts
<1> QED BY <1>7, <1>8, <1>9

\* A step of the relays that posts nothing keeps the routes.
LEMMA RouteKeeps ==
  ASSUME RouteInv, UNCHANGED <<up, rsocketId, nodeid, out, treated>>,
         \A q \in Relays : \A x : In(x, queue'[q]) => In(x, queue[q]),
         \A q \in Relays : \A x \in transit'[q] : x.to[1] = q /\ x.from[1] # q
  PROVE  RouteInv'
<1>1. /\ \A c \in Clients : nodeid'[c] # None => nodeid'[c] = rsocketId'[c]
      /\ \A c \in Clients, t \in Threads :
           out'[c][t] # None => out'[c][t].from = nodeid'[c] /\ out'[c][t].by = t
      /\ \A c \in Clients, p \in Packets : In(p, up'[c]) => p.from = nodeid'[c]
      /\ \A c \in Clients, p \in Packets :
           In(p, treated'[c]) => p.to = nodeid'[c] /\ p.method \in Methods
    BY DEF RouteInv
<1>2. \A r \in Relays, p \in Packets : In(p, queue'[r]) => p.from[1] = r \/ p.to[1] = r
    BY DEF RouteInv
<1> QED BY <1>1, <1>2 DEF RouteInv

\* Relay::treat takes the first packet: it goes behind what its sender already has
\* on the stream of its destination, or it does not count for the order.
LEMMA TreatFlow ==
  ASSUME FlowInv, N2NPInv', NEW r \in Relays, Treat(r)
  PROVE  RouteInv' /\ AckInv' /\ OrderInv'
<1> DEFINE p == Head(queue[r])
<1>1. TypeOK /\ TypeOK' /\ RouteInv /\ AckInv /\ OrderInv
    BY DEF FlowInv, N2NPInv
<1>2. queue[r] \in Seq(Stuff) /\ queue[r] \in Seq(Packets) /\ queue[r] # <<>>
    BY <1>1, FlowTypes DEF Treat, TypeOK
<1>3. queue[r][1] = p /\ Without(queue[r], 1) = Tail(queue[r])
    BY <1>2, WithoutFirst
<1>4. /\ queue' = [queue EXCEPT ![r] = Tail(@)]
      /\ \/ /\ p.to[1] # r
            /\ transit' = IF p.to[1] \in crashed THEN transit
                          ELSE [transit EXCEPT ![p.to[1]] = @ \cup {p}]
            /\ UNCHANGED down
         \/ p.to[1] = r /\ (\E c \in Clients : SendDown(c, p)) /\ UNCHANGED transit
         \/ UNCHANGED <<transit, down>>
      /\ UNCHANGED <<up, rsocketId, nodeid, curId, sentMap, out, calling, treated, acked>>
    BY <1>2, <1>3 DEF Treat, nodeVars, NextPacket, Destinations
<1>5. queue'[r] = Tail(queue[r]) /\ \A q \in Relays : q # r => queue'[q] = queue[q]
    BY <1>1, <1>4 DEF TypeOK
<1>6. In(p, queue[r]) /\ p \in Packets /\ p \in Stuff
    BY <1>2, InTail
<1>7. \A q \in Relays : \A x : In(x, queue'[q]) => In(x, queue[q])
    BY <1>2, <1>5, InTail
<1>8. p.from[1] = r \/ p.to[1] = r
    BY <1>1, <1>6 DEF RouteInv
<1>9. \A s \in Clients, t \in Threads : Thin(Own(s, t), queue[Home[s]], queue'[Home[s]])
  <2> TAKE s \in Clients, t \in Threads
  <2>1. CASE Home[s] = r
      BY <1>2, <1>5, <2>1, ThinFacts
  <2>2. CASE Home[s] # r
    <3>1. queue'[Home[s]] = queue[Home[s]]
        BY <1>5, <2>2, HomeAssumption
    <3> QED BY <3>1, ThinFacts
  <2> QED BY <2>1, <2>2
<1> HIDE DEF p
<1>10. CASE UNCHANGED <<transit, down>>
  <2>1. RouteInv'
    <3>1. \A q \in Relays : \A x \in transit'[q] : x.to[1] = q /\ x.from[1] # q
        BY <1>1, <1>10 DEF RouteInv
    <3> QED BY <1>1, <1>4, <1>7, <3>1, RouteKeeps
  <2>2. AckInv'
    <3>1. \A x \in Packets : Around(x)' => Around(x)
        BY <1>4, <1>7, <1>10 DEF Around
    <3> QED BY <1>1, <1>4, <3>1, AckKeeps
  <2>3. OrderInv'
    <3> SUFFICES ASSUME NEW s \in Clients, NEW t \in Threads, NEW d \in Clients
               PROVE  Ordered(Own(s, t), Line(s, t, d))'
        BY DEF OrderInv
    <3> QED BY <1>1, <1>4, <1>9, <1>10, LineThins, ThinFacts
  <2> QED BY <2>1, <2>2, <2>3
<1>11. CASE /\ p.to[1] # r
            /\ transit' = IF p.to[1] \in crashed THEN transit
                          ELSE [transit EXCEPT ![p.to[1]] = @ \cup {p}]
            /\ UNCHANGED down
  <2>1. \A q \in Relays : \A x \in transit'[q] : x \in transit[q] \/ (x = p /\ q = p.to[1])
      BY <1>1, <1>11 DEF TypeOK
  <2>2. RouteInv'
    <3>1. \A q \in Relays : \A x \in transit'[q] : x.to[1] = q /\ x.from[1] # q
        BY <1>1, <1>8, <1>11, <2>1 DEF RouteInv
    <3> QED BY <1>1, <1>4, <1>7, <3>1, RouteKeeps
  <2>3. AckInv'
    <3>1. \A x \in Packets : Around(x)' => Around(x)
        BY <1>4, <1>6, <1>7, <1>11, <2>1 DEF Around
    <3> QED BY <1>1, <1>4, <3>1, AckKeeps
  <2>4. OrderInv'
    <3> SUFFICES ASSUME NEW s \in Clients, NEW t \in Threads, NEW d \in Clients
               PROVE  Ordered(Own(s, t), Line(s, t, d))'
        BY DEF OrderInv
    <3> QED BY <1>1, <1>4, <1>9, <1>11, LineThins, ThinFacts
  <2> QED BY <2>2, <2>3, <2>4
<1>12. ASSUME p.to[1] = r, UNCHANGED transit, NEW c \in Clients, SendDown(c, p)
       PROVE  RouteInv' /\ AckInv' /\ OrderInv'
  <2>1. \A d \in Clients : \A x : In(x, down'[d]) => In(x, down[d]) \/ (d = c /\ x = p)
      BY <1>1, <1>6, <1>12, DownIn, Zenon
  <2>2. RouteInv'
    <3>1. \A q \in Relays : \A x \in transit'[q] : x.to[1] = q /\ x.from[1] # q
        BY <1>1, <1>12 DEF RouteInv
    <3> QED BY <1>1, <1>4, <1>7, <3>1, RouteKeeps
  <2>3. AckInv'
    <3>1. \A x \in Packets : Around(x)' => Around(x)
        BY <1>4, <1>6, <1>7, <1>12, <2>1 DEF Around
    <3> QED BY <1>1, <1>4, <3>1, AckKeeps
  <2>4. OrderInv'
    <3> SUFFICES ASSUME NEW s \in Clients, NEW t \in Threads, NEW d \in Clients
               PROVE  Ordered(Own(s, t), Line(s, t, d))'
        BY DEF OrderInv
    <3>1. down'[d] = down[d] \/ (d = c /\ down'[d] = Append(down[d], p))
        BY <1>1, <1>12, DownGets, Zenon
    <3>2. CASE Home[s] = r /\ down'[d] = Append(down[d], p)
      <4>1. /\ Line(s, t, d)[1] = treated[d] /\ Line(s, t, d)[2] = down[d]
            /\ Line(s, t, d)[3] = queue[Home[s]] /\ Line(s, t, d)[4] = up[s]
            /\ Line(s, t, d)[5] = Pending(out[s][t])
          BY <1>1, LineIs
      <4>2. /\ Line(s, t, d)'[1] = treated[d] /\ Line(s, t, d)'[2] = down'[d]
            /\ Line(s, t, d)'[3] = queue'[Home[s]] /\ Line(s, t, d)'[4] = up[s]
            /\ Line(s, t, d)'[5] = Pending(out[s][t])
          BY <1>1, <1>4, LineIsNext
      <4>3. /\ Line(s, t, d)[3] # <<>> /\ Line(s, t, d)'[2] = Append(Line(s, t, d)[2], Head(Line(s, t, d)[3]))
            /\ Line(s, t, d)'[3] = Tail(Line(s, t, d)[3])
          BY <1>2, <1>5, <3>2, <4>1, <4>2 DEF p
      <4>4. \A k \in 1..5 : k \notin {2, 3} => Line(s, t, d)'[k] = Line(s, t, d)[k]
        <5> SUFFICES ASSUME NEW k \in 1..5, k \notin {2, 3} PROVE Line(s, t, d)'[k] = Line(s, t, d)[k]
            OBVIOUS
        <5>1. k = 1 \/ k = 4 \/ k = 5
            OBVIOUS
        <5> QED BY <4>1, <4>2, <5>1, Zenon
      <4>5. 2 \in 1..5 /\ 3 \in 1..5 /\ 3 = 2 + 1 /\ nodeid'[s] = nodeid[s]
          BY <1>4
      <4> QED BY <1>1, <4>3, <4>4, <4>5, LineMoves, Zenon
    <3>3. CASE Home[s] # r /\ down'[d] = Append(down[d], p)
      <4>1. p \notin Own(s, t)
          BY <1>12, <3>3 DEF Own
      <4>2. Thin(Own(s, t), down[d], down'[d])
          BY <1>6, <3>3, <4>1, ThinFacts
      <4> QED BY <1>1, <1>4, <1>9, <4>2, LineThins, ThinFacts
    <3>4. CASE down'[d] = down[d]
        BY <1>1, <1>4, <1>9, <3>4, LineThins, ThinFacts
    <3> QED BY <3>1, <3>2, <3>3, <3>4
  <2> QED BY <2>2, <2>3, <2>4
<1> QED BY <1>4, <1>10, <1>11, <1>12

-----------------------------------------------------------------------------
(* The nodes *)

\* The packets of a node that are somewhere were counted by this node.
LEMMA OldIds ==
  ASSUME FlowInv, NEW c \in Clients, nodeid[c] # None, NEW p \in Packets, Around(p) \/ Done(p),
         p.from = nodeid[c]
  PROVE  p.id < curId[c]
<1>1. PICK e \in Clients : nodeid[e] = p.from /\ p.id < curId[e]
    BY DEF FlowInv, AckInv, Counted
<1>2. e = c
    BY <1>1, OneNode DEF FlowInv, N2NPInv
<1> QED BY <1>1, <1>2

\* What is on a line is somewhere.
LEMMA LineAround ==
  ASSUME NEW s \in Clients, NEW t \in Threads, NEW d \in Clients, NEW F, F[1] = treated[d],
         \A x : In(x, F[2]) => In(x, down[d]), F[3] = queue[Home[s]], F[4] = up[s],
         F[5] = Pending(out[s][t])
  PROVE  \A k \in 1..5 : \A i \in 1..Len(F[k]) : Around(F[k][i]) \/ Done(F[k][i])
<1> SUFFICES ASSUME NEW k \in 1..5, NEW x, In(x, F[k]) PROVE Around(x) \/ Done(x)
    BY DEF In
<1>1. In(x, F[1]) => Done(x)
    BY DEF Done
<1>2. In(x, F[2]) \/ In(x, F[4]) => Around(x)
    BY DEF Around
<1>3. In(x, F[3]) => Around(x)
    BY HomeAssumption DEF Around
<1>4. In(x, F[5]) => Around(x)
  <2> SUFFICES ASSUME In(x, Pending(out[s][t])) PROVE Around(x)
      OBVIOUS
  <2>1. out[s][t] # None /\ out[s][t] = x
      BY DEF In, Pending
  <2> QED BY <2>1 DEF Around
<1>5. k = 1 \/ k = 2 \/ k = 3 \/ k = 4 \/ k = 5
    OBVIOUS
<1> QED BY <1>1, <1>2, <1>3, <1>4, <1>5, Zenon

\* What becomes of the stream of c when the reader of c takes its first packet
LEMMA TakenFlow ==
  ASSUME TypeOK, NEW c \in Clients, CanTreat(c), Taken(c)
  PROVE  /\ down[c] # <<>> /\ First(c) = Head(down[c]) /\ down'[c] = Tail(down[c])
         /\ In(First(c), down[c]) /\ First(c) \in Stuff /\ First(c) \in DownPackets
         /\ \A d \in Clients : d # c => down'[d] = down[d]
         /\ \A d \in Clients : \A x : In(x, down'[d]) => In(x, down[d])
         /\ \A d \in Clients : \A X : Thin(X, down[d], down'[d])
<1>1. /\ down[c] # <<>> /\ First(c) = Head(down[c]) /\ down' = [down EXCEPT ![c] = Tail(@)]
      /\ down \in [Clients -> Seq(DownPackets)]
    BY DEF CanTreat, Taken, First, TypeOK, DownPackets
<1>2. down'[c] = Tail(down[c]) /\ \A d \in Clients : d # c => down'[d] = down[d]
    BY <1>1
<1>3. down[c] \in Seq(Stuff) /\ First(c) \in DownPackets
    BY <1>1, FlowTypes
<1>4. In(Head(down[c]), down[c]) /\ Head(down[c]) \in Stuff
    BY <1>1, <1>3, InTail
<1>5. \A x : In(x, Tail(down[c])) => In(x, down[c])
    BY <1>1, <1>3, InTail, Zenon
<1>6. ASSUME NEW d \in Clients
      PROVE  (\A x : In(x, down'[d]) => In(x, down[d])) /\ \A X : Thin(X, down[d], down'[d])
  <2>1. CASE d = c
      BY <1>1, <1>2, <1>5, <2>1, ThinFacts
  <2>2. CASE d # c
      BY <1>2, <2>2, ThinFacts
  <2> QED BY <2>1, <2>2
<1> QED BY <1>1, <1>2, <1>3, <1>4, <1>6

\* A node builds a packet with its next id.
LEMMA NewCounted ==
  ASSUME TypeOK, NEW c \in Clients, UNCHANGED nodeid, curId' = [curId EXCEPT ![c] = @ + 1]
  PROVE  /\ \A x \in Packets : Counted(x) => Counted(x)'
         /\ \A x : x.from = nodeid[c] /\ x.id = curId[c] => Counted(x)'
<1>1. /\ curId[c] \in Nat /\ curId'[c] = curId[c] + 1
      /\ \A d \in Clients : d # c => curId'[d] = curId[d]
    BY DEF TypeOK
<1>2. ASSUME NEW x \in Packets, NEW e \in Clients, nodeid[e] = x.from, x.id < curId[e]
      PROVE  nodeid'[e] = x.from /\ x.id < curId'[e]
  <2>1. x.id \in Nat /\ curId[e] \in Nat
      BY DEF Packets, TypeOK
  <2>2. curId'[e] = curId[e] \/ curId'[e] = curId[e] + 1
      BY <1>1
  <2> QED BY <1>2, <2>1, <2>2
<1>3. ASSUME NEW x, x.from = nodeid[c], x.id = curId[c]
      PROVE  nodeid'[c] = x.from /\ x.id < curId'[c]
  <2>1. curId[c] < curId'[c]
      BY <1>1
  <2> QED BY <1>3, <2>1
<1> QED BY <1>2, <1>3 DEF Counted

\* A packet with the next id of its node is the last of its line, and nothing else
\* is new: what c received, if anything, leaves the stream.
LEMMA PrepareFlow ==
  ASSUME FlowInv, N2NPInv', NEW c \in Clients, NEW w \in Threads, NEW p, Prepare(c, w, p),
         p.from = nodeid[c], p.by = w, p.id = curId[c],
         UNCHANGED <<up, queue, transit, rsocketId, nodeid, treated>>,
         \A d \in Clients : \A x : In(x, down'[d]) => In(x, down[d]),
         \A d \in Clients : \A X : Thin(X, down[d], down'[d])
  PROVE  /\ RouteInv' /\ OrderInv'
         /\ \A x \in Packets : Around(x)' => Around(x) \/ x = p
         /\ \A x \in Packets : Around(x)' \/ Done(x)' => Counted(x)'
<1>1. TypeOK /\ TypeOK' /\ OwnPacketsOnly /\ RouteInv /\ AckInv /\ OrderInv
    BY DEF FlowInv, N2NPInv
<1>2. /\ nodeid[c] # None
      /\ out' = [out EXCEPT ![c][w] = p] /\ curId' = [curId EXCEPT ![c] = @ + 1]
    BY DEF Prepare
<1>3. out'[c][w] = p /\ \A d \in Clients, t \in Threads : out'[d][t] = out[d][t] \/ (d = c /\ t = w)
    BY <1>1, <1>2 DEF TypeOK
<1>4. \A d \in Clients, t \in Threads :
        \/ out'[d][t] = out[d][t]
        \/ d = c /\ t = w /\ out'[d][t] = p
    BY <1>3
<1>5. RouteInv'
  <2>1. \A d \in Clients, t \in Threads :
          out'[d][t] # None => out'[d][t].from = nodeid[d] /\ out'[d][t].by = t
      BY <1>1, <1>4 DEF RouteInv
  <2>2. \A d \in Clients, x \in Packets :
          In(x, treated'[d]) => x.to = nodeid'[d] /\ x.method \in Methods
      BY <1>1 DEF RouteInv
  <2> QED BY <1>1, <2>1, <2>2 DEF RouteInv
<1>6. \A x \in Packets : Around(x)' => Around(x) \/ x = p
    BY <1>4 DEF Around
<1>7. \A x \in Packets : Around(x)' \/ Done(x)' => Counted(x)'
  <2>1. (\A x \in Packets : Counted(x) => Counted(x)') /\ Counted(p)'
      BY <1>1, <1>2, NewCounted
  <2>2. \A x : Done(x)' <=> Done(x)
      BY DEF Done
  <2> QED BY <1>1, <1>6, <2>1, <2>2 DEF AckInv
<1>8. OrderInv'
  <2> SUFFICES ASSUME NEW s \in Clients, NEW t \in Threads, NEW d \in Clients
               PROVE  Ordered(Own(s, t), Line(s, t, d))'
      BY DEF OrderInv
  <2>1. CASE out'[s][t] = out[s][t] \/ p = None
    <3>1. Pending(out'[s][t]) = <<>> \/ out'[s][t] = out[s][t]
        BY <1>4, <2>1 DEF Pending
    <3> QED BY <1>1, <3>1, LineThins, ThinFacts
  <2>2. CASE s = c /\ t = w /\ p # None
    <3> DEFINE X == Own(s, t)
               F == Line(s, t, d)
               G == Line(s, t, d)'
               H == [k \in 1..5 |-> IF k = 5 THEN <<>> ELSE G[k]]
    <3>1. /\ F \in [1..5 -> Seq(Stuff)] /\ G \in [1..5 -> Seq(Stuff)] /\ Ordered(X, F)
        BY <1>1, LineIs, LineIsNext DEF OrderInv
    <3>2. /\ F[1] = treated[d] /\ F[2] = down[d] /\ F[3] = queue[Home[s]] /\ F[4] = up[s]
        BY <1>1, LineIs
    <3>3. /\ G[1] = treated[d] /\ G[2] = down'[d] /\ G[3] = queue[Home[s]] /\ G[4] = up[s]
          /\ G[5] = Pending(out'[s][t])
        BY <1>1, LineIsNext
    <3>4. G[5] = <<p>>
        BY <1>3, <2>2, <3>3 DEF Pending
    <3>5. ASSUME NEW x \in X, Around(x) \/ Done(x)
          PROVE  x.id < p.id
      <4>1. x \in Packets /\ x.from = nodeid[c]
          BY <2>2 DEF Own
      <4> QED BY <1>2, <3>5, <4>1, OldIds
    <3> HIDE DEF F, G, X
    <3>6. /\ H[1] = G[1] /\ H[2] = G[2] /\ H[3] = G[3] /\ H[4] = G[4] /\ H[5] = <<>>
          /\ \A k \in 1..4 : G[k] = H[k]
          /\ H \in [1..5 -> Seq(Stuff)]
      <4>1. <<>> \in Seq(Stuff) /\ \A k \in 1..4 : k \in 1..5 /\ k # 5
          OBVIOUS
      <4> QED BY <3>1, <4>1
    <3> HIDE DEF H
    <3>7. Ordered(X, H)
      <4>1. /\ Thin(X, F[1], H[1]) /\ Thin(X, F[2], H[2]) /\ Thin(X, F[3], H[3])
            /\ Thin(X, F[4], H[4]) /\ Thin(X, F[5], H[5])
          BY <3>2, <3>3, <3>6, ThinFacts
      <4>2. \A k \in 1..5 : k = 1 \/ k = 2 \/ k = 3 \/ k = 4 \/ k = 5
          OBVIOUS
      <4>3. \A k \in 1..5 : Thin(X, F[k], H[k])
          BY <4>1, <4>2
      <4> QED BY <3>1, <3>6, <4>3, ThinOrdered
    <3>8. ASSUME NEW k \in 1..4, NEW i \in 1..Len(H[k]), H[k][i] \in X
          PROVE  H[k][i].id < p.id
      <4>1. k = 1 \/ k = 2 \/ k = 3 \/ k = 4
          OBVIOUS
      <4>2. In(H[k][i], H[k])
          BY DEF In
      <4>3. /\ In(H[k][i], treated[d]) => Done(H[k][i])
            /\ In(H[k][i], down[d]) \/ In(H[k][i], up[s]) => Around(H[k][i])
            /\ In(H[k][i], queue[Home[s]]) => Around(H[k][i])
          BY HomeAssumption DEF Done, Around
      <4>4. Around(H[k][i]) \/ Done(H[k][i])
          BY <3>3, <3>6, <4>1, <4>2, <4>3
      <4> QED BY <3>5, <3>8, <4>4
    <3>9. Ordered(X, G)
        BY <3>1, <3>4, <3>6, <3>7, <3>8, NewOrdered, Zenon
    <3>10. Own(s, t)' = X
        BY DEF Own, X
    <3> QED BY <3>9, <3>10 DEF G, Ordered
  <2> QED BY <1>3, <2>1, <2>2
<1> QED BY <1>5, <1>6, <1>7, <1>8

\* An id is new in sentMap, and nothing that came before told that it was treated.
LEMMA SendFlow ==
  ASSUME FlowInv, N2NPInv', NEW c \in Clients, NEW w \in Threads, NEW to \in Known,
         NEW m \in Methods, Send(c, w, to, m)
  PROVE  RouteInv' /\ AckInv' /\ OrderInv'
<1> PICK p : p = Packet(c, w, m, to, None)
    OBVIOUS
<1>1. TypeOK /\ TypeOK' /\ RouteInv /\ AckInv
    BY DEF FlowInv, N2NPInv
<1>2. /\ Prepare(c, w, p) /\ nodeid[c] # None
      /\ sentMap' = [sentMap EXCEPT ![c] = @ \cup {curId[c]}]
      /\ UNCHANGED <<up, down, queue, transit, rsocketId, nodeid, calling, treated, acked>>
    BY DEF Send, Prepare, relayVars, connVars
<1>3. p.from = nodeid[c] /\ p.by = w /\ p.method # "ACK" /\ p.id = curId[c]
    BY MethodsAssumption DEF Packet
<1>4. /\ RouteInv' /\ OrderInv'
      /\ \A x \in Packets : Around(x)' => Around(x) \/ x = p
      /\ \A x \in Packets : Around(x)' \/ Done(x)' => Counted(x)'
    BY <1>2, <1>3, PrepareFlow, ThinFacts
<1>5. \A f, i : WasTreated(f, i)' <=> WasTreated(f, i)
    BY <1>2 DEF WasTreated, Done
<1>6. AckInv'
  <2>1. \A x \in Packets : Around(x)' /\ x.method = "ACK" => WasTreated(x.to, x.acks)'
      BY <1>1, <1>3, <1>4, <1>5 DEF AckInv
  <2>2. curId[c] \notin acked[c]
    <3> SUFFICES ASSUME curId[c] \in acked[c] PROVE FALSE
        OBVIOUS
    <3>1. PICK q \in Packets : Done(q) /\ q.from = nodeid[c] /\ q.id = curId[c]
        BY <1>1 DEF AckInv, WasTreated
    <3>2. q.id < curId[c] /\ curId[c] \in Nat
        BY <1>1, <1>2, <3>1, OldIds DEF TypeOK
    <3> QED BY <3>1, <3>2
  <2>3. \A d \in Clients : acked'[d] \cap sentMap'[d] = {}
    <3> TAKE d \in Clients
    <3>1. acked[d] \cap sentMap[d] = {}
        BY <1>1 DEF AckInv
    <3>2. sentMap'[d] = sentMap[d] \/ (d = c /\ sentMap'[d] = sentMap[d] \cup {curId[c]})
        BY <1>1, <1>2 DEF TypeOK
    <3> QED BY <1>2, <2>2, <3>1, <3>2
  <2>4. \A d \in Clients : \A i \in acked'[d] : WasTreated(nodeid[d], i)'
      BY <1>1, <1>2, <1>5 DEF AckInv
  <2>5. \A d \in Clients : calling'[d] # None => In(calling'[d], treated'[d])
      BY <1>1, <1>2 DEF AckInv
  <2> QED BY <1>2, <1>4, <2>1, <2>3, <2>4, <2>5 DEF AckInv
<1> QED BY <1>4, <1>6

\* A packet goes behind those its thread wrote before; for the others it does not
\* count.
LEMMA WriteFlow ==
  ASSUME FlowInv, N2NPInv', NEW c \in Clients, NEW w \in Threads, Write(c, w)
  PROVE  RouteInv' /\ AckInv' /\ OrderInv'
<1> PICK p : p = out[c][w]
    OBVIOUS
<1>1. TypeOK /\ TypeOK' /\ RouteInv /\ AckInv /\ OrderInv
    BY DEF FlowInv, N2NPInv
<1>2. /\ p # None /\ out' = [out EXCEPT ![c][w] = None]
      /\ up' = up \/ up' = [up EXCEPT ![c] = Append(@, p)]
      /\ UNCHANGED <<down, queue, transit, rsocketId, nodeid, curId, sentMap, calling, treated,
                     acked>>
    BY DEF Write, relayVars
<1>3. p \in Packets /\ p \in Stuff /\ p.from = nodeid[c] /\ p.by = w /\ Around(p)
  <2>1. p \in Packets /\ p.from = nodeid[c] /\ p.by = w
      BY <1>1, <1>2, FlowTypes DEF RouteInv
  <2> QED BY <1>2, <2>1, StuffHas DEF Around
<1>4. /\ out'[c][w] = None
      /\ \A d \in Clients, t \in Threads : out'[d][t] = None \/ out'[d][t] = out[d][t]
    BY <1>1, <1>2 DEF TypeOK
<1>5. /\ up[c] \in Seq(Stuff) /\ \A d \in Clients : d # c => up'[d] = up[d] /\ out'[d] = out[d]
      /\ up'[c] = up[c] \/ up'[c] = Append(up[c], p)
  <2>1. up[c] \in Seq(Stuff)
      BY <1>1, FlowTypes
  <2> QED BY <1>1, <1>2, <2>1 DEF TypeOK
<1>6. \A d \in Clients : \A x : In(x, up'[d]) => In(x, up[d]) \/ (x = p /\ d = c)
  <2> SUFFICES ASSUME NEW d \in Clients, NEW x, In(x, up'[d]) PROVE In(x, up[d]) \/ (x = p /\ d = c)
      OBVIOUS
  <2>1. In(x, Append(up[c], p)) => In(x, up[c]) \/ x = p
      BY <1>3, <1>5, InAppend, Zenon
  <2>2. CASE d = c
      BY <1>5, <2>1, <2>2
  <2>3. CASE d # c
      BY <1>5, <2>3
  <2> QED BY <2>2, <2>3
<1>7. RouteInv'
  <2>1. \A d \in Clients, t \in Threads :
          out'[d][t] # None => out'[d][t].from = nodeid[d] /\ out'[d][t].by = t
      BY <1>1, <1>4 DEF RouteInv
  <2>2. \A d \in Clients, x \in Packets : In(x, up'[d]) => x.from = nodeid[d]
      BY <1>1, <1>3, <1>6 DEF RouteInv
  <2> QED BY <1>1, <1>2, <2>1, <2>2 DEF RouteInv
<1>8. AckInv'
  <2>1. \A x \in Packets : Around(x)' => Around(x)
    <3> SUFFICES ASSUME NEW x \in Packets, Around(x)', x # p PROVE Around(x)
        BY <1>3
    <3>1. \A d \in Clients : In(x, up'[d]) => In(x, up[d])
        BY <1>6
    <3> QED BY <1>2, <1>4, <3>1 DEF Around
  <2> QED BY <1>1, <1>2, <2>1, AckKeeps
<1>9. OrderInv'
  <2> SUFFICES ASSUME NEW s \in Clients, NEW t \in Threads, NEW d \in Clients
               PROVE  Ordered(Own(s, t), Line(s, t, d))'
      BY DEF OrderInv
  <2>1. Thin(Own(s, t), Pending(out[s][t]), Pending(out'[s][t]))
    <3>1. out'[s][t] = None \/ out'[s][t] = out[s][t]
        BY <1>4
    <3>2. out'[s][t] = None => Pending(out'[s][t]) = <<>>
        BY DEF Pending
    <3> QED BY <3>1, <3>2, ThinFacts
  <2>2. CASE up'[s] = up[s]
      BY <1>1, <1>2, <2>1, <2>2, LineThins, ThinFacts
  <2>3. CASE s = c /\ t # w /\ up'[s] = Append(up[s], p)
    <3>1. p \notin Own(s, t)
        BY <1>3, <2>3 DEF Own
    <3>2. Thin(Own(s, t), up[s], up'[s])
        BY <1>3, <2>3, <3>1, ThinFacts
    <3> QED BY <1>1, <1>2, <2>1, <3>2, LineThins, ThinFacts
  <2>4. CASE s = c /\ t = w /\ up'[s] = Append(up[s], p)
    <3>1. Pending(out[s][t]) = <<p>> /\ Pending(out'[s][t]) = <<>>
        BY <1>2, <1>4, <2>4 DEF Pending
    <3>2. /\ Line(s, t, d)[1] = treated[d] /\ Line(s, t, d)[2] = down[d]
          /\ Line(s, t, d)[3] = queue[Home[s]] /\ Line(s, t, d)[4] = up[s]
          /\ Line(s, t, d)[5] = <<p>>
      <4>1. /\ Line(s, t, d)[1] = treated[d] /\ Line(s, t, d)[2] = down[d]
            /\ Line(s, t, d)[3] = queue[Home[s]] /\ Line(s, t, d)[4] = up[s]
            /\ Line(s, t, d)[5] = Pending(out[s][t])
          BY <1>1, LineIs
      <4> QED BY <3>1, <4>1, Zenon
    <3>3. /\ Line(s, t, d)'[1] = treated[d] /\ Line(s, t, d)'[2] = down[d]
          /\ Line(s, t, d)'[3] = queue[Home[s]] /\ Line(s, t, d)'[4] = Append(up[s], p)
          /\ Line(s, t, d)'[5] = <<>>
      <4>1. /\ Line(s, t, d)'[1] = treated'[d] /\ Line(s, t, d)'[2] = down'[d]
            /\ Line(s, t, d)'[3] = queue'[Home[s]] /\ Line(s, t, d)'[4] = up'[s]
            /\ Line(s, t, d)'[5] = Pending(out'[s][t])
          BY <1>1, LineIsNext
      <4>2. UNCHANGED <<treated, down, queue>>
          BY <1>2
      <4> QED BY <2>4, <3>1, <4>1, <4>2
    <3>4. <<p>> # <<>> /\ Head(<<p>>) = p /\ Tail(<<p>>) = <<>>
        OBVIOUS
    <3>5. /\ Line(s, t, d)[5] # <<>>
          /\ Line(s, t, d)'[4] = Append(Line(s, t, d)[4], Head(Line(s, t, d)[5]))
          /\ Line(s, t, d)'[5] = Tail(Line(s, t, d)[5])
        BY <3>2, <3>3, <3>4, Zenon
    <3>6. \A k \in 1..5 : k \notin {4, 5} => Line(s, t, d)'[k] = Line(s, t, d)[k]
      <4> SUFFICES ASSUME NEW k \in 1..5, k \notin {4, 5} PROVE Line(s, t, d)'[k] = Line(s, t, d)[k]
          OBVIOUS
      <4>1. k = 1 \/ k = 2 \/ k = 3
          OBVIOUS
      <4> QED BY <3>2, <3>3, <4>1, Zenon
    <3>7. 4 \in 1..5 /\ 5 \in 1..5 /\ 5 = 4 + 1 /\ nodeid'[s] = nodeid[s]
        BY <1>2
    <3> QED BY <1>1, <3>5, <3>6, <3>7, LineMoves, Zenon
  <2> QED BY <1>5, <2>2, <2>3, <2>4
<1> QED BY <1>7, <1>8, <1>9

\* A node without id has sent nothing, and nobody else has its id.
LEMMA SetIdFlow ==
  ASSUME FlowInv, N2NPInv', NEW c \in Clients, SetId(c)
  PROVE  RouteInv' /\ AckInv' /\ OrderInv'
<1>1. TypeOK /\ TypeOK' /\ OwnPacketsOnly /\ RouteInv /\ AckInv /\ OrderInv
    BY DEF FlowInv, N2NPInv
<1>2. /\ CanTreat(c) /\ Taken(c) /\ nodeid[c] = None /\ nodeid' = [nodeid EXCEPT ![c] = First(c).to]
      /\ UNCHANGED <<up, queue, transit, rsocketId, curId, sentMap, out, calling, treated, acked>>
    BY DEF SetId, relayVars
<1>3. /\ In(First(c), down[c]) /\ \A d \in Clients : \A x : In(x, down'[d]) => In(x, down[d])
      /\ \A d \in Clients : \A X : Thin(X, down[d], down'[d])
    BY <1>1, <1>2, TakenFlow
<1>4. /\ nodeid'[c] = rsocketId[c] /\ \A d \in Clients : d # c => nodeid'[d] = nodeid[d]
  <2>1. First(c).to = rsocketId[c]
      BY <1>1, <1>3 DEF OwnPacketsOnly, In
  <2> QED BY <1>1, <1>2, <2>1 DEF TypeOK
<1>5. \A x \in Packets : x.from # None /\ x.to # None
    BY IdsOf
<1>6. \A x \in Packets : Around(x) \/ Done(x) => x.from # nodeid'[c]
  <2> SUFFICES ASSUME NEW x \in Packets, NEW e \in Clients, nodeid[e] = x.from, x.from = nodeid'[c]
               PROVE  FALSE
      BY <1>1 DEF AckInv, Counted
  <2>1. rsocketId[e] = rsocketId[c] /\ rsocketId[e] # None
      BY <1>1, <1>4, <1>5 DEF RouteInv
  <2>2. e = c
      BY <1>1, <2>1 DEF OwnPacketsOnly
  <2> QED BY <1>2, <1>5, <2>2
<1>7. \A x : Around(x)' => Around(x)
    BY <1>2, <1>3 DEF Around
<1>8. \A x : Done(x)' <=> Done(x)
    BY <1>2 DEF Done
<1>9. RouteInv'
  <2>1. \A t \in Threads : out[c][t] = None
      BY <1>1, <1>2, <1>5, FlowTypes DEF RouteInv
  <2>2. \A x \in Packets : ~In(x, up[c])
      BY <1>1, <1>2, <1>5 DEF RouteInv
  <2>3. \A x \in Packets : ~In(x, treated[c])
      BY <1>1, <1>2, <1>5 DEF RouteInv
  <2>4. \A d \in Clients, t \in Threads :
          out'[d][t] # None => out'[d][t].from = nodeid'[d] /\ out'[d][t].by = t
      BY <1>1, <1>2, <1>4, <2>1 DEF RouteInv
  <2>5. \A d \in Clients, x \in Packets : In(x, up'[d]) => x.from = nodeid'[d]
      BY <1>1, <1>2, <1>4, <2>2 DEF RouteInv
  <2>6. \A d \in Clients, x \in Packets :
          In(x, treated'[d]) => x.to = nodeid'[d] /\ x.method \in Methods
      BY <1>1, <1>2, <1>4, <2>3 DEF RouteInv
  <2>7. \A d \in Clients : nodeid'[d] # None => nodeid'[d] = rsocketId'[d]
      BY <1>1, <1>2, <1>4 DEF RouteInv
  <2> QED BY <1>1, <1>2, <2>4, <2>5, <2>6, <2>7 DEF RouteInv
<1>10. AckInv'
  <2>1. \A f, i : WasTreated(f, i)' <=> WasTreated(f, i)
      BY <1>8 DEF WasTreated
  <2>2. \A x \in Packets : Counted(x) => Counted(x)'
    <3> SUFFICES ASSUME NEW x \in Packets, NEW e \in Clients, nodeid[e] = x.from, x.id < curId[e]
                 PROVE  nodeid'[e] = x.from /\ x.id < curId'[e]
        BY DEF Counted
    <3>1. e # c
        BY <1>2, <1>5
    <3> QED BY <1>2, <1>4, <3>1
  <2>3. acked[c] = {}
    <3> SUFFICES ASSUME NEW i \in acked[c] PROVE FALSE
        OBVIOUS
    <3> QED BY <1>1, <1>2, <1>5 DEF AckInv, WasTreated
  <2>4. \A d \in Clients : \A i \in acked'[d] : WasTreated(nodeid[d], i) /\ nodeid'[d] = nodeid[d]
      BY <1>1, <1>2, <1>4, <2>3 DEF AckInv
  <2>5. \A d \in Clients : \A i \in acked'[d] : WasTreated(nodeid[d], i)'
    <3> SUFFICES ASSUME NEW d \in Clients, NEW i \in acked'[d] PROVE WasTreated(nodeid[d], i)'
        OBVIOUS
    <3>1. nodeid'[d] = nodeid[d] /\ WasTreated(nodeid[d], i)
        BY <2>4
    <3> QED BY <1>8, <3>1 DEF WasTreated
  <2>6. \A x \in Packets : Around(x)' \/ Done(x)' => Counted(x)'
      BY <1>1, <1>7, <1>8, <2>2 DEF AckInv
  <2>7. \A x \in Packets : Around(x)' /\ x.method = "ACK" => WasTreated(x.to, x.acks)'
      BY <1>1, <1>7, <2>1 DEF AckInv
  <2>8. \A d \in Clients : acked'[d] \cap sentMap'[d] = {}
      BY <1>1, <1>2 DEF AckInv
  <2>9. \A d \in Clients : calling'[d] # None => In(calling'[d], treated'[d])
      BY <1>1, <1>2 DEF AckInv
  <2> QED BY <2>5, <2>6, <2>7, <2>8, <2>9 DEF AckInv
<1>11. OrderInv'
  <2> SUFFICES ASSUME NEW s \in Clients, NEW t \in Threads, NEW d \in Clients
               PROVE  Ordered(Own(s, t), Line(s, t, d))'
      BY DEF OrderInv
  <2>1. CASE s # c
      BY <1>1, <1>2, <1>3, <1>4, <2>1, LineThins, ThinFacts
  <2>2. CASE s = c
    <3> DEFINE X == Own(s, t)'
               G == Line(s, t, d)'
    <3>1. \A k \in 1..5 : \A i \in 1..Len(G[k]) : Around(G[k][i]) \/ Done(G[k][i])
      <4>1. /\ G[1] = treated[d] /\ G[2] = down'[d] /\ G[3] = queue[Home[s]] /\ G[4] = up[s]
            /\ G[5] = Pending(out[s][t])
          BY <1>1, <1>2, LineIsNext
      <4> HIDE DEF G
      <4>2. \A x : In(x, G[2]) => In(x, down[d])
          BY <1>3, <4>1
      <4> QED BY <4>1, <4>2, LineAround, Zenon
    <3>2. \A x \in X : ~Around(x) /\ ~Done(x)
        BY <1>6, <2>2 DEF Own
    <3> HIDE DEF X, G
    <3>3. Ordered(X, G)
        BY <3>1, <3>2 DEF Ordered
    <3> QED BY <3>3 DEF X, G, Ordered
  <2> QED BY <2>1, <2>2
<1> QED BY <1>9, <1>10, <1>11

\* A packet nobody treats is lost.
LEMMA DiscardFlow ==
  ASSUME FlowInv, N2NPInv', NEW c \in Clients, Discard(c)
  PROVE  RouteInv' /\ AckInv' /\ OrderInv'
<1>1. TypeOK /\ TypeOK' /\ RouteInv /\ AckInv /\ OrderInv
    BY DEF FlowInv, N2NPInv
<1>2. /\ CanTreat(c) /\ Taken(c)
      /\ UNCHANGED <<up, queue, transit, rsocketId, nodeid, curId, sentMap, out, calling, treated, acked>>
    BY DEF Discard, relayVars, nodeVars
<1>3. /\ \A d \in Clients : \A x : In(x, down'[d]) => In(x, down[d])
      /\ \A d \in Clients : \A X : Thin(X, down[d], down'[d])
    BY <1>1, <1>2, TakenFlow
<1>4. RouteInv'
    BY <1>1, <1>2 DEF RouteInv
<1>5. AckInv'
  <2>1. \A x \in Packets : Around(x)' => Around(x)
      BY <1>2, <1>3 DEF Around
  <2> QED BY <1>1, <1>2, <2>1, AckKeeps
<1>6. OrderInv'
  <2> SUFFICES ASSUME NEW s \in Clients, NEW t \in Threads, NEW d \in Clients
               PROVE  Ordered(Own(s, t), Line(s, t, d))'
      BY DEF OrderInv
  <2> QED BY <1>1, <1>2, <1>3, LineThins, ThinFacts
<1> QED BY <1>4, <1>5, <1>6

\* What an ACK says was treated is forgotten.
LEMMA TreatAckFlow ==
  ASSUME FlowInv, N2NPInv', NEW c \in Clients, TreatAck(c)
  PROVE  RouteInv' /\ AckInv' /\ OrderInv'
<1> PICK h : h = First(c)
    OBVIOUS
<1>1. TypeOK /\ TypeOK' /\ RouteInv /\ AckInv /\ OrderInv
    BY DEF FlowInv, N2NPInv
<1>2. /\ CanTreat(c) /\ Taken(c) /\ h.method = "ACK" /\ h.to = nodeid[c]
      /\ sentMap' = [sentMap EXCEPT ![c] = @ \ {h.acks}]
      /\ acked' = [acked EXCEPT ![c] = @ \cup {h.acks}]
      /\ UNCHANGED <<up, queue, transit, rsocketId, nodeid, curId, out, calling, treated>>
    BY DEF TreatAck, ForMe, relayVars
<1>3. /\ In(h, down[c]) /\ h \in DownPackets
      /\ \A d \in Clients : \A x : In(x, down'[d]) => In(x, down[d])
      /\ \A d \in Clients : \A X : Thin(X, down[d], down'[d])
    BY <1>1, <1>2, TakenFlow
<1>4. h \in Packets /\ Around(h)
    BY <1>2, <1>3, PacketKinds DEF DownPackets, Around
<1>5. /\ sentMap'[c] = sentMap[c] \ {h.acks} /\ acked'[c] = acked[c] \cup {h.acks}
      /\ \A d \in Clients : d # c => sentMap'[d] = sentMap[d] /\ acked'[d] = acked[d]
    BY <1>1, <1>2 DEF TypeOK
<1>6. RouteInv'
    BY <1>1, <1>2 DEF RouteInv
<1>7. AckInv'
  <2>1. \A x : Around(x)' => Around(x)
      BY <1>2, <1>3 DEF Around
  <2>2. \A x : Done(x)' <=> Done(x)
      BY <1>2 DEF Done
  <2>3. \A f, i : WasTreated(f, i)' <=> WasTreated(f, i)
      BY <2>2 DEF WasTreated
  <2>4. \A x : Counted(x)' <=> Counted(x)
      BY <1>2 DEF Counted
  <2>5. WasTreated(nodeid[c], h.acks)
      BY <1>1, <1>2, <1>4 DEF AckInv
  <2>6. \A d \in Clients : \A i \in acked'[d] : WasTreated(nodeid[d], i)'
    <3> SUFFICES ASSUME NEW d \in Clients, NEW i \in acked'[d] PROVE WasTreated(nodeid[d], i)
        BY <1>2, <2>3
    <3>1. i \in acked[d] \/ (d = c /\ i = h.acks)
        BY <1>5
    <3> QED BY <1>1, <2>5, <3>1 DEF AckInv
  <2>7. \A d \in Clients : acked'[d] \cap sentMap'[d] = {}
    <3> TAKE d \in Clients
    <3>1. acked[d] \cap sentMap[d] = {}
        BY <1>1 DEF AckInv
    <3>2. CASE d = c
        BY <1>5, <3>1, <3>2
    <3>3. CASE d # c
        BY <1>5, <3>1, <3>3
    <3> QED BY <3>2, <3>3
  <2>8. \A d \in Clients : calling'[d] # None => In(calling'[d], treated'[d])
      BY <1>1, <1>2 DEF AckInv
  <2> QED BY <1>1, <1>2, <2>1, <2>2, <2>3, <2>4, <2>6, <2>7, <2>8 DEF AckInv
<1>8. OrderInv'
  <2> SUFFICES ASSUME NEW s \in Clients, NEW t \in Threads, NEW d \in Clients
               PROVE  Ordered(Own(s, t), Line(s, t, d))'
      BY DEF OrderInv
  <2> QED BY <1>1, <1>2, <1>3, LineThins, ThinFacts
<1> QED BY <1>6, <1>7, <1>8

\* A module is called with a packet after those its thread sent before.
LEMMA CallModuleFlow ==
  ASSUME FlowInv, N2NPInv', NEW c \in Clients, CallModule(c)
  PROVE  RouteInv' /\ AckInv' /\ OrderInv'
<1> PICK h : h = First(c)
    OBVIOUS
<1>1. TypeOK /\ TypeOK' /\ RouteInv /\ AckInv /\ OrderInv
    BY DEF FlowInv, N2NPInv
<1>2. /\ CanTreat(c) /\ Taken(c) /\ h.method \in Methods /\ h.to = nodeid[c]
      /\ treated' = [treated EXCEPT ![c] = Append(@, h)]
      /\ calling' = [calling EXCEPT ![c] = h]
      /\ UNCHANGED <<up, queue, transit, rsocketId, nodeid, curId, sentMap, out, acked>>
    BY MethodsAssumption DEF CallModule, ForMe, relayVars
<1>3. /\ down[c] # <<>> /\ h = Head(down[c]) /\ down'[c] = Tail(down[c])
      /\ In(h, down[c]) /\ h \in Stuff /\ h \in DownPackets
      /\ \A d \in Clients : d # c => down'[d] = down[d]
      /\ \A d \in Clients : \A x : In(x, down'[d]) => In(x, down[d])
      /\ \A d \in Clients : \A X : Thin(X, down[d], down'[d])
    BY <1>1, <1>2, TakenFlow
<1>4. h \in Packets /\ Around(h)
    BY <1>2, <1>3, PacketKinds, MethodsAssumption DEF DownPackets, Around
<1>5. /\ treated[c] \in Seq(Stuff) /\ treated'[c] = Append(treated[c], h)
      /\ \A d \in Clients : d # c => treated'[d] = treated[d]
  <2>1. treated[c] \in Seq(Stuff)
      BY <1>1, FlowTypes
  <2> QED BY <1>1, <1>2, <2>1 DEF TypeOK
<1>6. /\ \A d \in Clients : \A x : In(x, treated[d]) => In(x, treated'[d])
      /\ \A d \in Clients : \A x : In(x, treated'[d]) => In(x, treated[d]) \/ (d = c /\ x = h)
      /\ In(h, treated'[c])
  <2>1. \A x : In(x, Append(treated[c], h)) <=> In(x, treated[c]) \/ x = h
      BY <1>3, <1>5, InAppend, Zenon
  <2>2. ASSUME NEW d \in Clients, NEW x
        PROVE  /\ In(x, treated[d]) => In(x, treated'[d])
               /\ In(x, treated'[d]) => In(x, treated[d]) \/ (d = c /\ x = h)
    <3>1. CASE d = c
        BY <1>5, <2>1, <3>1
    <3>2. CASE d # c
        BY <1>5, <3>2
    <3> QED BY <3>1, <3>2
  <2> QED BY <1>5, <2>1, <2>2
<1>7. RouteInv'
  <2>1. \A d \in Clients, x \in Packets :
          In(x, treated'[d]) => x.to = nodeid[d] /\ x.method \in Methods
    <3> TAKE d \in Clients, x \in Packets
    <3>1. In(x, treated[d]) => x.to = nodeid[d] /\ x.method \in Methods
        BY <1>1 DEF RouteInv
    <3>2. In(x, treated'[d]) => In(x, treated[d]) \/ (d = c /\ x = h)
        BY <1>6, Zenon
    <3> QED BY <1>2, <3>1, <3>2, Zenon
  <2> QED BY <1>1, <1>2, <2>1 DEF RouteInv
<1>8. AckInv'
  <2>1. \A x \in Packets : Around(x)' => Around(x)
      BY <1>2, <1>3 DEF Around
  <2>2. \A x : (Done(x) => Done(x)') /\ (Done(x)' => Done(x) \/ x = h)
      BY <1>6 DEF Done
  <2>3. \A f, i : WasTreated(f, i) => WasTreated(f, i)'
      BY <2>2 DEF WasTreated
  <2>4. \A x : Counted(x)' <=> Counted(x)
      BY <1>2 DEF Counted
  <2>5. \A x \in Packets : Around(x)' \/ Done(x)' => Counted(x)'
      BY <1>1, <1>4, <2>1, <2>2, <2>4 DEF AckInv
  <2>6. \A x \in Packets : Around(x)' /\ x.method = "ACK" => WasTreated(x.to, x.acks)'
      BY <1>1, <2>1, <2>3 DEF AckInv
  <2>7. \A d \in Clients : calling'[d] # None => In(calling'[d], treated'[d])
    <3> TAKE d \in Clients
    <3>1. CASE d = c
      <4>1. calling'[c] = h
          BY <1>1, <1>2 DEF TypeOK
      <4> QED BY <1>6, <3>1, <4>1
    <3>2. CASE d # c
      <4>1. calling'[d] = calling[d]
          BY <1>1, <1>2, <3>2 DEF TypeOK
      <4> QED BY <1>1, <1>6, <4>1 DEF AckInv
    <3> QED BY <3>1, <3>2
  <2>8. \A d \in Clients : \A i \in acked'[d] : WasTreated(nodeid[d], i)'
      BY <1>1, <1>2, <2>3 DEF AckInv
  <2>9. \A d \in Clients : acked'[d] \cap sentMap'[d] = {}
      BY <1>1, <1>2 DEF AckInv
  <2> QED BY <1>2, <2>5, <2>6, <2>7, <2>8, <2>9 DEF AckInv
<1>9. OrderInv'
  <2> SUFFICES ASSUME NEW s \in Clients, NEW t \in Threads, NEW d \in Clients
               PROVE  Ordered(Own(s, t), Line(s, t, d))'
      BY DEF OrderInv
  <2>1. CASE d # c
    <3>1. treated'[d] = treated[d]
        BY <1>5, <2>1
    <3> QED BY <1>1, <1>2, <1>3, <3>1, LineThins, ThinFacts
  <2>2. CASE d = c
    <3>1. /\ Line(s, t, d)[1] = treated[c] /\ Line(s, t, d)[2] = down[c]
          /\ Line(s, t, d)[3] = queue[Home[s]] /\ Line(s, t, d)[4] = up[s]
          /\ Line(s, t, d)[5] = Pending(out[s][t])
        BY <1>1, <2>2, LineIs
    <3>2. /\ Line(s, t, d)'[1] = Append(treated[c], h) /\ Line(s, t, d)'[2] = Tail(down[c])
          /\ Line(s, t, d)'[3] = queue[Home[s]] /\ Line(s, t, d)'[4] = up[s]
          /\ Line(s, t, d)'[5] = Pending(out[s][t])
      <4>1. /\ Line(s, t, d)'[1] = treated'[d] /\ Line(s, t, d)'[2] = down'[d]
            /\ Line(s, t, d)'[3] = queue'[Home[s]] /\ Line(s, t, d)'[4] = up'[s]
            /\ Line(s, t, d)'[5] = Pending(out'[s][t])
          BY <1>1, LineIsNext
      <4> QED BY <1>2, <1>3, <1>5, <2>2, <4>1
    <3>3. /\ Line(s, t, d)[2] # <<>>
          /\ Line(s, t, d)'[1] = Append(Line(s, t, d)[1], Head(Line(s, t, d)[2]))
          /\ Line(s, t, d)'[2] = Tail(Line(s, t, d)[2])
        BY <1>3, <3>1, <3>2
    <3>4. \A k \in 1..5 : k \notin {1, 2} => Line(s, t, d)'[k] = Line(s, t, d)[k]
      <4> SUFFICES ASSUME NEW k \in 1..5, k \notin {1, 2} PROVE Line(s, t, d)'[k] = Line(s, t, d)[k]
          OBVIOUS
      <4>1. k = 3 \/ k = 4 \/ k = 5
          OBVIOUS
      <4> QED BY <3>1, <3>2, <4>1, Zenon
    <3>5. 1 \in 1..5 /\ 2 \in 1..5 /\ 2 = 1 + 1 /\ nodeid'[s] = nodeid[s]
        BY <1>2
    <3> QED BY <1>1, <3>3, <3>4, <3>5, LineMoves, Zenon
  <2> QED BY <2>1, <2>2
<1> QED BY <1>7, <1>8, <1>9

\* The packet of an answer is of no method of users; an ACK tells of a packet that
\* was treated.
LEMMA AnswerFlow ==
  ASSUME FlowInv, N2NPInv', NEW c \in Clients, NEW p, Prepare(c, "reader", p),
         p.from = nodeid[c], p.by = "reader", p.id = curId[c],
         p.method = "ACK" => WasTreated(p.to, p.acks),
         \A d \in Clients : \A x : In(x, down'[d]) => In(x, down[d]),
         \A d \in Clients : \A X : Thin(X, down[d], down'[d]),
         \A d \in Clients : calling'[d] = calling[d] \/ calling'[d] = None,
         UNCHANGED <<up, queue, transit, rsocketId, nodeid, sentMap, treated, acked>>
  PROVE  RouteInv' /\ AckInv' /\ OrderInv'
<1>1. /\ RouteInv' /\ OrderInv'
      /\ \A x \in Packets : Around(x)' => Around(x) \/ x = p
      /\ \A x \in Packets : Around(x)' \/ Done(x)' => Counted(x)'
  <2>1. "reader" \in Threads
      BY DEF Threads
  <2> QED BY <2>1, PrepareFlow
<1>2. \A f, i : WasTreated(f, i)' <=> WasTreated(f, i)
    BY DEF WasTreated, Done
<1>3. \A x \in Packets : Around(x)' /\ x.method = "ACK" => WasTreated(x.to, x.acks)'
    BY <1>1, <1>2 DEF FlowInv, AckInv
<1>4. \A d \in Clients : calling'[d] # None => In(calling'[d], treated'[d])
    BY DEF FlowInv, AckInv
<1>5. \A d \in Clients : \A i \in acked'[d] : WasTreated(nodeid[d], i)'
    BY <1>2 DEF FlowInv, AckInv
<1>6. \A d \in Clients : acked'[d] \cap sentMap'[d] = {}
    BY DEF FlowInv, AckInv
<1> QED BY <1>1, <1>3, <1>4, <1>5, <1>6 DEF AckInv

\* What is acknowledged is the packet a module was called with.
LEMMA AcknowledgeFlow ==
  ASSUME FlowInv, N2NPInv', NEW c \in Clients, Acknowledge(c)
  PROVE  RouteInv' /\ AckInv' /\ OrderInv'
<1> PICK p : p = Packet(c, "reader", "ACK", calling[c].from, calling[c].id)
    OBVIOUS
<1>1. TypeOK /\ AckInv
    BY DEF FlowInv, N2NPInv
<1>2. /\ calling[c] # None /\ Prepare(c, "reader", p) /\ calling' = [calling EXCEPT ![c] = None]
      /\ UNCHANGED <<up, down, queue, transit, rsocketId, nodeid, sentMap, treated, acked>>
    BY DEF Acknowledge, relayVars, connVars
<1>3. /\ p.from = nodeid[c] /\ p.by = "reader" /\ p.id = curId[c]
      /\ p.to = calling[c].from /\ p.acks = calling[c].id
    BY DEF Packet
<1>4. WasTreated(p.to, p.acks)
  <2>1. calling[c] \in Packets /\ Done(calling[c])
      BY <1>1, <1>2 DEF AckInv, Done, TypeOK
  <2> QED BY <1>3, <2>1 DEF WasTreated
<1>5. \A d \in Clients : calling'[d] = calling[d] \/ calling'[d] = None
    BY <1>1, <1>2 DEF TypeOK
<1> QED BY <1>2, <1>3, <1>4, <1>5, AnswerFlow, ThinFacts

\* The packet that no module is for is lost, and the answer says so.
LEMMA NoModuleFlow ==
  ASSUME FlowInv, N2NPInv', NEW c \in Clients, NoModule(c)
  PROVE  RouteInv' /\ AckInv' /\ OrderInv'
<1> PICK p : p = Packet(c, "reader", "ERR", First(c).from, First(c).id)
    OBVIOUS
<1>1. TypeOK
    BY DEF FlowInv, N2NPInv
<1>2. /\ CanTreat(c) /\ Taken(c) /\ Prepare(c, "reader", p)
      /\ UNCHANGED <<up, queue, transit, rsocketId, nodeid, sentMap, calling, treated, acked>>
    BY DEF NoModule, ForMe, RefusedWith, relayVars
<1>3. p.from = nodeid[c] /\ p.by = "reader" /\ p.id = curId[c] /\ p.method # "ACK"
    BY DEF Packet
<1>4. /\ \A d \in Clients : \A x : In(x, down'[d]) => In(x, down[d])
      /\ \A d \in Clients : \A X : Thin(X, down[d], down'[d])
    BY <1>1, <1>2, TakenFlow
<1> QED BY <1>2, <1>3, <1>4, AnswerFlow

\* What a node that ends was about to write is lost.
LEMMA EndFlow ==
  ASSUME FlowInv, N2NPInv', NEW c \in Clients, End(c)
  PROVE  RouteInv' /\ AckInv' /\ OrderInv'
<1>1. TypeOK /\ TypeOK' /\ RouteInv /\ AckInv /\ OrderInv
    BY DEF FlowInv, N2NPInv
<1>2. /\ out' = [out EXCEPT ![c] = [t \in Threads |-> None]]
      /\ calling' = [calling EXCEPT ![c] = None]
      /\ UNCHANGED <<up, down, queue, transit, rsocketId, nodeid, curId, sentMap, treated, acked>>
    BY DEF End, relayVars
<1>3. \A d \in Clients, t \in Threads : out'[d][t] = None \/ out'[d][t] = out[d][t]
    BY <1>1, <1>2 DEF TypeOK
<1>4. \A d \in Clients : calling'[d] = calling[d] \/ calling'[d] = None
    BY <1>1, <1>2 DEF TypeOK
<1>5. RouteInv'
  <2>1. \A d \in Clients, t \in Threads :
          out'[d][t] # None => out'[d][t].from = nodeid[d] /\ out'[d][t].by = t
      BY <1>1, <1>3 DEF RouteInv
  <2> QED BY <1>1, <1>2, <2>1 DEF RouteInv
<1>6. AckInv'
  <2>1. \A x \in Packets : Around(x)' => Around(x)
      BY <1>2, <1>3 DEF Around
  <2> QED BY <1>1, <1>2, <1>4, <2>1, AckKeeps
<1>7. OrderInv'
  <2> SUFFICES ASSUME NEW s \in Clients, NEW t \in Threads, NEW d \in Clients
               PROVE  Ordered(Own(s, t), Line(s, t, d))'
      BY DEF OrderInv
  <2>1. out'[s][t] = out[s][t] \/ Pending(out'[s][t]) = <<>>
      BY <1>3 DEF Pending
  <2>2. Thin(Own(s, t), Pending(out[s][t]), Pending(out'[s][t]))
      BY <2>1, ThinFacts
  <2> QED BY <1>1, <1>2, <2>2, LineThins, ThinFacts
<1> QED BY <1>5, <1>6, <1>7

-----------------------------------------------------------------------------
(* Theorems *)

LEMMA FlowInvInit == Init => FlowInv
<1> SUFFICES ASSUME Init PROVE FlowInv
    OBVIOUS
<1>1. N2NPInv
    BY N2NPInvInit
<1>2. /\ \A c \in Clients : /\ up[c] = <<IdRequest(c)>> /\ down[c] = <<>> /\ treated[c] = <<>>
                            /\ nodeid[c] = None /\ acked[c] = {} /\ calling[c] = None
                            /\ \A t \in Threads : out[c][t] = None
      /\ \A r \in Relays : queue[r] = <<>> /\ transit[r] = {}
    BY DEF Init
<1>3. \A x : ~In(x, <<>>)
    BY DEF In
<1>4. \A c \in Clients, x \in Packets : ~In(x, up[c])
  <2> SUFFICES ASSUME NEW c \in Clients, NEW x \in Packets, In(x, <<IdRequest(c)>>) PROVE FALSE
      BY <1>2
  <2>1. x = IdRequest(c)
      BY DEF In
  <2> QED BY <2>1, PacketKinds
<1>5. \A x \in Packets : ~Around(x) /\ ~Done(x)
    BY <1>2, <1>3, <1>4 DEF Around, Done
<1>6. RouteInv
    BY <1>2, <1>3, <1>4 DEF RouteInv
<1>7. AckInv
    BY <1>2, <1>5 DEF AckInv
<1>8. OrderInv
  <2> SUFFICES ASSUME NEW s \in Clients, NEW t \in Threads, NEW d \in Clients
               PROVE  Ordered(Own(s, t), Line(s, t, d))
      BY DEF OrderInv
  <2> DEFINE F == Line(s, t, d)
  <2>1. /\ F[1] = treated[d] /\ F[2] = down[d] /\ F[3] = queue[Home[s]] /\ F[4] = up[s]
        /\ F[5] = Pending(out[s][t])
      BY <1>1, LineIs DEF N2NPInv
  <2> HIDE DEF F
  <2>2. \A k \in 1..5 : \A i \in 1..Len(F[k]) : Around(F[k][i]) \/ Done(F[k][i])
      BY <2>1, LineAround, Zenon
  <2>3. Ordered(Own(s, t), F)
      BY <1>5, <2>2 DEF Ordered, Own
  <2> QED BY <2>3 DEF F
<1> QED BY <1>1, <1>6, <1>7, <1>8 DEF FlowInv

LEMMA FlowInvStep == FlowInv /\ [Next]_vars => FlowInv'
<1> SUFFICES ASSUME FlowInv, [Next]_vars PROVE RouteInv' /\ AckInv' /\ OrderInv'
    BY N2NPInvStep DEF FlowInv
<1>1. N2NPInv'
    BY N2NPInvStep DEF FlowInv
<1> DEFINE Goal == RouteInv' /\ AckInv' /\ OrderInv'
<1>2. CASE RelayNext
  <2>1. ASSUME NEW c \in Clients, Attach(c) PROVE Goal
      BY <1>1, <2>1, AttachFlow
  <2>2. ASSUME NEW c \in Clients, SendID(c) PROVE Goal
      BY <1>1, <2>2, SendIDFlow
  <2>3. ASSUME NEW c \in Clients, PostUp(c) PROVE Goal
      BY <1>1, <2>3, PostUpFlow
  <2>4. ASSUME NEW c \in Clients, Destroy(c) PROVE Goal
      BY <1>1, <2>4, DestroyFlow
  <2>5. ASSUME NEW c \in Clients, RecvThrows(c) PROVE Goal
      BY <1>1, <2>5, RecvThrowsFlow
  <2>6. ASSUME NEW r \in Relays, Treat(r) PROVE Goal
      BY <1>1, <2>6, TreatFlow
  <2>7. ASSUME NEW r \in Relays, DetachAllNodes(r) PROVE Goal
      BY <1>1, <2>7, DetachAllNodesFlow
  <2>8. ASSUME NEW r \in Relays, NEW p \in transit[r], PostTransit(r, p) PROVE Goal
      BY <1>1, <2>8, PostTransitFlow
  <2> HIDE DEF Goal
  <2>9. Goal
      BY <1>2, <2>1, <2>2, <2>3, <2>4, <2>5, <2>6, <2>7, <2>8 DEF RelayNext
  <2> QED BY <2>9 DEF Goal
<1>3. CASE NodeNext
  <2>1. ASSUME NEW c \in Clients, NEW w \in Threads, NEW to \in Known, NEW m \in Methods,
               Send(c, w, to, m)
        PROVE  Goal
      BY <1>1, <2>1, SendFlow
  <2>2. ASSUME NEW c \in Clients, NEW w \in Threads, Write(c, w) PROVE Goal
      BY <1>1, <2>2, WriteFlow
  <2>3. ASSUME NEW c \in Clients, NEW id \in Offered, OfferDirectConn(c, id) PROVE Goal
      BY <1>1, <2>3, OfferDirectConnFlow
  <2>4. ASSUME NEW c \in Clients, SetId(c) PROVE Goal
      BY <1>1, <2>4, SetIdFlow
  <2>5. ASSUME NEW c \in Clients, Discard(c) PROVE Goal
      BY <1>1, <2>5, DiscardFlow
  <2>6. ASSUME NEW c \in Clients, TreatAck(c) PROVE Goal
      BY <1>1, <2>6, TreatAckFlow
  <2>7. ASSUME NEW c \in Clients, CallModule(c) PROVE Goal
      BY <1>1, <2>7, CallModuleFlow
  <2>8. ASSUME NEW c \in Clients, NoModule(c) PROVE Goal
      BY <1>1, <2>8, NoModuleFlow
  <2>9. ASSUME NEW c \in Clients, End(c) PROVE Goal
      BY <1>1, <2>9, EndFlow
  <2>10. ASSUME NEW c \in Clients, Acknowledge(c) PROVE Goal
      BY <1>1, <2>10, AcknowledgeFlow
  <2> HIDE DEF Goal
  <2>11. Goal
      BY <1>3, <2>1, <2>2, <2>3, <2>4, <2>5, <2>6, <2>7, <2>8, <2>9, <2>10 DEF NodeNext
  <2> QED BY <2>11 DEF Goal
<1>4. CASE UNCHANGED vars
    BY <1>1, <1>4, SameFlow DEF vars, relayVars, connVars, nodeVars
<1> QED BY <1>2, <1>3, <1>4 DEF Next

\* Every step keeps the whole invariant: where packets can be, from whom, and in
\* which order.
THEOREM FlowHolds == Spec => []FlowInv
BY FlowInvInit, FlowInvStep, PTL DEF Spec

\* Through a thread of a node, which other threads may overtake in Node::send, a
\* connection, the only worker of Relay and another connection, packets of one
\* thread to a node of the same relay never overtake each other.
THEOREM InOrderHolds == Spec => []InOrder
<1>1. FlowInv => InOrder
  <2> SUFFICES ASSUME FlowInv, NEW d \in Clients, NEW i \in 1..Len(treated[d]),
                      NEW j \in 1..Len(treated[d]), i < j, treated[d][i].from = treated[d][j].from,
                      treated[d][i].by = treated[d][j].by, treated[d][i].from[1] = treated[d][i].to[1]
               PROVE  treated[d][i].id < treated[d][j].id
      BY DEF InOrder
  <2> DEFINE p == treated[d][i]
             q == treated[d][j]
  <2>1. TypeOK /\ RouteInv /\ AckInv /\ OrderInv
      BY DEF FlowInv, N2NPInv
  <2>2. p \in Packets /\ q \in Packets /\ In(p, treated[d]) /\ In(q, treated[d])
      BY <2>1 DEF TypeOK, In
  <2>3. p.to = nodeid[d] /\ q.to = nodeid[d] /\ p.method \in Methods /\ q.method \in Methods
      BY <2>1, <2>2 DEF RouteInv
  <2>4. PICK s \in Clients : nodeid[s] = p.from
      BY <2>1, <2>2 DEF AckInv, Done, Counted
  <2>5. nodeid[s][1] = Home[s]
      BY <2>2, <2>4, IdsOf
  <2>6. PICK t \in Threads : p.by = t /\ q.by = t
      BY <2>2 DEF Packets
  <2>7. p \in Own(s, t) /\ q \in Own(s, t)
      BY <2>2, <2>3, <2>4, <2>5, <2>6 DEF Own
  <2>8. Ordered(Own(s, t), Line(s, t, d)) /\ Line(s, t, d)[1] = treated[d] /\ 1 \in 1..5
      BY <2>1, LineIs DEF OrderInv
  <2> QED BY <2>7, <2>8 DEF Ordered
<1> QED BY <1>1, FlowHolds, PTL

\* Node::treat acknowledges what it gave to a module, so that a sender forgets a
\* packet only when its destination had it, whatever was lost on the way.
THEOREM AckedMeansTreatedHolds == Spec => []AckedMeansTreated
<1>1. FlowInv => AckedMeansTreated
  <2> SUFFICES ASSUME FlowInv, NEW c \in Clients
               PROVE  /\ acked[c] \cap sentMap[c] = {}
                      /\ \A i \in acked[c] : \E d \in Clients : \E j \in 1..Len(treated[d]) :
                           treated[d][j].from = nodeid[c] /\ treated[d][j].id = i
      BY DEF AckedMeansTreated
  <2>1. acked[c] \cap sentMap[c] = {} /\ \A i \in acked[c] : WasTreated(nodeid[c], i)
      BY DEF FlowInv, AckInv
  <2> QED BY <2>1 DEF WasTreated, Done, In
<1> QED BY <1>1, FlowHolds, PTL
=============================================================================
