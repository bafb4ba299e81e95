---------------------------- MODULE RoutingTable ----------------------------
(***************************************************************************)
(* dht/kbucket.cpp over dht/id.cpp: the peers a DHT node knows, in one     *)
(* bucket per length of the prefix they share with the node's own Id.      *)
(*                                                                         *)
(* An Id is the set of its bits that are one, 0 being the most significant *)
(* bit; a Distance is an Id.  A Peer is what its shared_ptr gives access   *)
(* to, and a bucket the list of its peers, the one seen last at the end.   *)
(***************************************************************************)
EXTENDS Sequences, Integers, FiniteSets, FiniteSetsExt, SequencesExt

CONSTANTS LENGTH,               \* Id::LENGTH, the number of bits
          Self,                 \* ownId
          NODES_PER_BUCKET, MAX_INACTIVE_PERIOD,
          N2NPIds

ASSUME LengthAssumption == LENGTH \in Nat \ {0}
ASSUME SelfAssumption   == Self \subseteq 0..(LENGTH - 1)
ASSUME LimitsAssumption == NODES_PER_BUCKET \in Nat \ {0} /\ MAX_INACTIVE_PERIOD \in Nat

Ids   == SUBSET (0..(LENGTH - 1))
PeerRecords == [id : Ids, n2npId : N2NPIds, lastReceiveTime : Nat]

VARIABLES buckets, now

tableVars == <<buckets, now>>

-----------------------------------------------------------------------------
(* Id and Distance *)

Distance(a, b) == (a \ b) \cup (b \ a)

FirstActiveBit(d) == IF d = {} THEN LENGTH - 1 ELSE CHOOSE i \in d : \A j \in d : i <= j

\* operator<: the first bit that differs decides
Less(a, b) == a # b /\ FirstActiveBit(Distance(a, b)) \in b

-----------------------------------------------------------------------------
(* KBucket *)

TableInit ==
  /\ buckets = [i \in 0..(LENGTH - 1) |-> <<>>]
  /\ now = 0

BucketOf(id) == FirstActiveBit(Distance(Self, id))

Known(bucket, id) == \E k \in 1..Len(bucket) : bucket[k].id = id

\* Mutant: the oldest peer makes room for a newcomer, active or not.
AlwaysTooOld(bucket) == TRUE

\* The peer at the front has not been heard of for too long.
TooOld(bucket) == now - Head(bucket).lastReceiveTime > MAX_INACTIVE_PERIOD

Position(bucket, id) == CHOOSE k \in 1..Len(bucket) : bucket[k].id = id

\* Mutant: the peer is put at the end and left where it was.
NotErased(bucket, k) == bucket

Erase(bucket, k) == [j \in 1..(Len(bucket) - 1) |-> bucket[IF j < k THEN j ELSE j + 1]]

\* The bucket after seenPeer: the peer goes to the end if it was there, or if
\* there is room for it.
Seen(bucket, p) ==
  IF Known(bucket, p.id)
    THEN Append(Erase(bucket, Position(bucket, p.id)), p)
  ELSE IF Len(bucket) < NODES_PER_BUCKET
    THEN Append(bucket, p)
  ELSE IF TooOld(bucket)
    THEN Append(Tail(bucket), p)
  ELSE bucket

SeenPeer(id, n2npId) ==
  /\ buckets' = [buckets EXCEPT ![BucketOf(id)] =
                   Seen(@, [id |-> id, n2npId |-> n2npId, lastReceiveTime |-> now])]
  /\ UNCHANGED now

Tick == now' = now + 1 /\ UNCHANGED buckets

-----------------------------------------------------------------------------
(* findNearestNodes: the priority queue holds at most n candidates, the one  *)
(* farthest from id on top.                                                  *)

Farther(id, p, q) == Less(Distance(id, q.id), Distance(id, p.id))

Top(id, queue) == CHOOSE p \in queue : \A q \in queue \ {p} : Farther(id, p, q)

\* Mutant: a candidate pushes out a nearer one.
Replaced(id, p, q) == Farther(id, p, q)

Replaces(id, p, q) == Farther(id, q, p)

Offer(id, n, p, queue) ==
  LET left == IF Cardinality(queue) >= n /\ Replaces(id, p, Top(id, queue))
              THEN queue \ {Top(id, queue)} ELSE queue
  IN  IF Cardinality(left) < n THEN left \cup {p} ELSE left

AllPeers == FlattenSeq([i \in 1..LENGTH |-> buckets[i - 1]])

\* n > 0: of 0 the code would read the top of an empty queue.
FindNearestNodes(id, n) == FoldLeft(LAMBDA queue, p : Offer(id, n, p, queue), {}, AllPeers)

-----------------------------------------------------------------------------
(* Safety *)

\* Every peer is in the bucket of its distance, once, the buckets are not too
\* long and ordered by the time their peers were last heard of, which is what
\* makes the front the peer to replace.
TableInv ==
  \A i \in 0..(LENGTH - 1) :
    LET b == buckets[i] IN
    /\ b \in Seq(PeerRecords) /\ Len(b) <= NODES_PER_BUCKET
    /\ \A k \in 1..Len(b) : BucketOf(b[k].id) = i /\ b[k].lastReceiveTime <= now
    /\ \A k, l \in 1..Len(b) :
         k < l => b[k].id # b[l].id /\ b[k].lastReceiveTime <= b[l].lastReceiveTime

TableOK ==
  /\ buckets \in [0..(LENGTH - 1) -> Seq(PeerRecords)]
  /\ now \in Nat
  /\ TableInv

InTable(id) == \E i \in 0..(LENGTH - 1) : Known(buckets[i], id)

\* The answer to a search for n of the peers there are is n of them, and no peer
\* left out is nearer than one of them, whatever buckets they are in.
NearestAreNearest ==
  LET all == Range(AllPeers) IN
  \A n \in 1..Cardinality(all), id \in Ids :
    LET near == FindNearestNodes(id, n) IN
    /\ near \subseteq all /\ Cardinality(near) = n
    /\ \A p \in near, q \in all \ near : Farther(id, q, p)

\* A newcomer never takes the place of a peer heard of recently: a peer leaves
\* the table only when it was silent for longer than MAX_INACTIVE_PERIOD.
ActiveStays ==
  [][\A i \in 0..(LENGTH - 1) : \A p \in Range(buckets[i]) :
       (~InTable(p.id))' => now - p.lastReceiveTime > MAX_INACTIVE_PERIOD]_tableVars
=============================================================================
