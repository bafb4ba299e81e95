--------------------------- MODULE KeyValueProofs ---------------------------
(***************************************************************************)
(* Theorems about KeyValue, for any finite set of nodes, any calls, rounds *)
(* and values, and any redundancy and threshold.                           *)
(***************************************************************************)
EXTENDS KeyValue, TLAPS, FiniteSetTheorems

\* The states before the first call satisfy the inductive invariant.
LEMMA KeyValueInvInit == Init => KeyValueInv
<1> SUFFICES ASSUME Init PROVE KeyValueInv
    OBVIOUS
<1> USE DEF Init
<1>1. TypeOK
    BY DEF TypeOK, Setters
<1>2. CallInv /\ CountInv /\ SetIsQuorate /\ StorageInv
    BY DEF CallInv, CountInv, SetIsQuorate, StorageInv, Setters, Ops
<1>3. GetInv
    BY DEF GetInv, Ops
<1>4. ChainInv
    BY DEF ChainInv, ActiveRound, Alive, Ops, Setters
<1> QED BY <1>1, <1>2, <1>3, <1>4 DEF KeyValueInv

-----------------------------------------------------------------------------
(* The calls *)

\* What CallSet, CallGet and Replicate leave to show of each other conjunct.
LEMMA CallKeeps ==
  ASSUME KeyValueInv, NEW o \in Ops, NEW v \in Values \cup {None}, Call(o, v),
         o \in Setters => v \in Values
  PROVE  CallInv' /\ CountInv' /\ SetIsQuorate' /\ StorageInv' /\ GetInv'
<1> USE DEF KeyValueInv, TypeOK, Call, own, ghosts
<1>1. CallInv'
    BY DEF CallInv, Setters, Ops
<1>2. CountInv'
    BY DEF CountInv, Setters, Ops
<1>3. SetIsQuorate' /\ StorageInv'
    BY DEF SetIsQuorate, StorageInv
<1>4. GetInv'
    BY DEF GetInv, CallInv, Ops
<1> QED BY <1>1, <1>2, <1>3, <1>4

LEMMA CallSetInv ==
  ASSUME KeyValueInv, NEW o \in Ops, NEW v \in Values, CallSet(o, v)
  PROVE  KeyValueInv'
<1> USE DEF KeyValueInv, CallSet, Call, own, ghosts
<1>1. TypeOK'
    BY DEF TypeOK
<1>2. ChainInv'
    BY OpsAssumption DEF TypeOK, ChainInv, ActiveRound, Alive
<1> QED BY <1>1, <1>2, CallKeeps

LEMMA CallGetInv ==
  ASSUME KeyValueInv, NEW o \in Ops, CallGet(o)
  PROVE  KeyValueInv'
<1> USE DEF KeyValueInv, CallGet, Call, own, ghosts
<1>1. TypeOK'
    BY DEF TypeOK
<1>2. ChainInv'
    BY OpsAssumption DEF TypeOK, ChainInv, ActiveRound, Alive
<1>3. o \notin Setters
    BY OpsAssumption DEF Setters
<1> QED BY <1>1, <1>2, <1>3, CallKeeps

LEMMA ReplicateInv ==
  ASSUME KeyValueInv, NEW n \in Nodes, NEW o \in Ops, Replicate(n, o)
  PROVE  KeyValueInv'
<1> USE DEF KeyValueInv, Replicate, Call, own, ghosts
<1>1. storage[n] \in Values
    BY DEF TypeOK, ChainInv
<1>2. TypeOK'
    BY <1>1 DEF TypeOK
<1>3. ChainInv'
    BY <1>1, NoneAssumption DEF TypeOK, ChainInv, ActiveRound, Alive, Setters
<1> QED BY <1>1, <1>2, <1>3, CallKeeps

-----------------------------------------------------------------------------
(* Counting *)

\* A set of peers is finite, and a part of it has fewer.
LEMMA PeersAreFinite ==
  ASSUME NEW S \in SUBSET Nodes
  PROVE  /\ IsFiniteSet(S) /\ Cardinality(S) \in Nat
         /\ \A T \in SUBSET S : Cardinality(T) <= Cardinality(S)
<1>1. IsFiniteSet(S)
    BY NodesAssumption, FS_Subset
<1> QED BY <1>1, FS_CardinalityType, FS_Subset

\* What a setter's handler does to its counters keeps CountInv: an error more, or
\* an answer to a query whose flag is true, moves one of the pending requests.
LEMMA Recount ==
  ASSUME KeyValueInv, NEW o \in Setters, actor[o] = "asking", NEW n \in Nodes, NEW e \in Nat,
         \/ e = nErrors[o] + 1
         \/ e = nErrors[o] /\ n \in queries[o] \cap wrote[o]
  PROVE  \E confirmed \in SUBSET (asked[o] \cap wrote[o]) :
           /\ confirmed \cap (queries[o] \ {n}) = {}
           /\ Cardinality(asked[o] \ confirmed) = pendingRequests[o] - 1 + e
<1>1. PICK c \in SUBSET (asked[o] \cap wrote[o]) :
        c \cap queries[o] = {} /\ Cardinality(asked[o] \ c) = pendingRequests[o] + nErrors[o]
    BY DEF KeyValueInv, CountInv
<1>2. pendingRequests[o] \in Nat /\ nErrors[o] \in Nat /\ asked[o] \subseteq Nodes
    BY DEF KeyValueInv, TypeOK, Ops
<1>3. CASE e = nErrors[o] + 1
  <2>1. Cardinality(asked[o] \ c) = pendingRequests[o] - 1 + e
      BY <1>1, <1>2, <1>3
  <2>2. c \cap (queries[o] \ {n}) = {}
      BY <1>1
  <2> QED BY <2>1, <2>2
<1>4. CASE e = nErrors[o] /\ n \in queries[o] \cap wrote[o]
  <2>1. n \in asked[o] \ c
      BY <1>1, <1>4 DEF KeyValueInv, CallInv, Ops
  <2>2. (asked[o] \ c) \ {n} = asked[o] \ (c \cup {n})
      OBVIOUS
  <2>3. IsFiniteSet(asked[o] \ c)
      BY <1>2, PeersAreFinite
  <2>4. Cardinality((asked[o] \ c) \ {n}) = Cardinality(asked[o] \ c) - 1
      BY <2>1, <2>3, FS_RemoveElement
  <2>5. Cardinality((asked[o] \ c) \ {n}) = pendingRequests[o] - 1 + e
      BY <1>1, <1>2, <1>4, <2>4
  <2>6. /\ c \cup {n} \in SUBSET (asked[o] \cap wrote[o])
        /\ (c \cup {n}) \cap (queries[o] \ {n}) = {}
      BY <1>1, <1>4, <2>1
  <2> QED BY <2>2, <2>5, <2>6
<1> QED BY <1>3, <1>4

\* With no request pending, fewer errors than the threshold mean that fewer peers
\* than the threshold did not store the value.
LEMMA FewMissed ==
  ASSUME KeyValueInv, NEW o \in Setters, actor[o] = "asking", NEW n \in Nodes, NEW e \in Nat,
         \/ e = nErrors[o] + 1
         \/ e = nErrors[o] /\ n \in queries[o] \cap wrote[o],
         pendingRequests[o] - 1 = 0, e < ErrorThreshold
  PROVE  Cardinality(asked[o] \ wrote[o]) < ErrorThreshold
<1>1. PICK c \in SUBSET (asked[o] \cap wrote[o]) : Cardinality(asked[o] \ c) = e
    BY Recount
<1>2. asked[o] \ c \in SUBSET Nodes /\ asked[o] \ wrote[o] \in SUBSET (asked[o] \ c)
    BY <1>1 DEF KeyValueInv, TypeOK, Ops
<1>3. asked[o] \ wrote[o] \in SUBSET Nodes
    BY <1>2
<1>4. Cardinality(asked[o] \ wrote[o]) \in Nat
    BY <1>3, PeersAreFinite
<1>5. Cardinality(asked[o] \ wrote[o]) <= Cardinality(asked[o] \ c)
    BY <1>2, PeersAreFinite
<1> QED BY <1>1, <1>4, <1>5, LimitsAssumption

-----------------------------------------------------------------------------
(* The handlers of the caller *)

\* The end of a call, whatever ends it, with the value v and the answers of A.
LEMMA EndInv ==
  ASSUME KeyValueInv, NEW o \in Ops, Alive(o), NEW result \in {"set", "got", "error"},
         End(o, result), UNCHANGED <<asked, requests, keeping, wrote, earlier, holders>>,
         NEW v \in Values \cup {None}, value' = [value EXCEPT ![o] = v],
         NEW A \in SUBSET Nodes, answered' = [answered EXCEPT ![o] = A],
         o \in Setters => v = value[o],
         o \in Setters /\ result = "set" => Cardinality(asked[o] \ wrote[o]) < ErrorThreshold,
         o \in Gets /\ A \cap holders[o] # {} => result = "got" /\ v \in Values
  PROVE  KeyValueInv'
<1> USE DEF KeyValueInv, End, keeping
<1>1. TypeOK'
  <2>1. due' \in [Nodes -> Nat]
    <3>1. CASE due' = due
        BY <3>1 DEF TypeOK
    <3>2. CASE due' = [due EXCEPT ![owner[o]] = @ + 1]
      <4>1. owner[o] \in Nodes => due[owner[o]] + 1 \in Nat
          BY DEF TypeOK
      <4>2. DOMAIN due' = Nodes /\ \A n \in Nodes : due'[n] \in Nat
          BY <3>2, <4>1 DEF TypeOK
      <4>3. due' = [n \in Nodes |-> due'[n]]
          BY <3>2, <4>2 DEF TypeOK
      <4> QED BY <4>2, <4>3
    <3> QED BY <3>1, <3>2
  <2>2. /\ outcome' \in [Ops -> {"none", "set", "got", "error"}]
        /\ value' \in [Ops -> Values \cup {None}]
      BY DEF TypeOK
  <2>3. {asked, queries, wrote, holders, answered}' \subseteq [Ops -> SUBSET Nodes]
      BY DEF TypeOK
  <2> QED BY <2>1, <2>2, <2>3 DEF TypeOK
<1>2. CallInv'
    BY DEF TypeOK, CallInv, Alive, Setters, Ops
<1>3. CountInv'
    BY DEF TypeOK, CountInv, Setters, Ops
<1>4. SetIsQuorate'
    BY DEF TypeOK, SetIsQuorate, Setters, Ops
<1>5. StorageInv'
    BY DEF StorageInv
<1>6. GetInv'
    BY DEF TypeOK, GetInv, CallInv, Alive, Ops
<1>7. ChainInv'
    BY DEF TypeOK, ChainInv, ActiveRound, Alive, Setters, Ops
<1> QED BY <1>1, <1>2, <1>3, <1>4, <1>5, <1>6, <1>7

\* A handler that leaves requests pending, for a message of the peer n.
LEMMA ContinueInv ==
  ASSUME KeyValueInv, NEW o \in Ops, actor[o] = "asking", NEW n \in Nodes, NEW e \in Nat,
         pendingRequests[o] - 1 # 0,
         pendingRequests' = [pendingRequests EXCEPT ![o] = @ - 1],
         nErrors' = [nErrors EXCEPT ![o] = e],
         queries' = [queries EXCEPT ![o] = @ \ {n}],
         answers' \subseteq answers, timers' \subseteq timers,
         UNCHANGED <<actor, value, outcome, due, asked, requests>>,
         UNCHANGED <<keeping, wrote, earlier, holders>>,
         NEW A \in SUBSET Nodes, answered' = [answered EXCEPT ![o] = A],
         o \in Setters => \/ e = nErrors[o] + 1
                          \/ e = nErrors[o] /\ n \in queries[o] \cap wrote[o],
         o \in Gets => (A \ answered[o]) \cap holders[o] = {}
  PROVE  KeyValueInv'
<1>r. o \in Setters =>
        \E confirmed \in SUBSET (asked[o] \cap wrote[o]) :
          /\ confirmed \cap (queries[o] \ {n}) = {}
          /\ Cardinality(asked[o] \ confirmed) = pendingRequests[o] - 1 + e
  <2> HAVE o \in Setters
  <2>1. \/ e = nErrors[o] + 1
        \/ e = nErrors[o] /\ n \in queries[o] \cap wrote[o]
      OBVIOUS
  <2> QED BY <2>1, Recount
<1> USE DEF KeyValueInv, keeping
<1>1. TypeOK'
  <2>1. pendingRequests[o] \in Nat /\ pendingRequests[o] > 0
      BY DEF TypeOK, CallInv
  <2>2. pendingRequests' \in [Ops -> Nat]
      BY <2>1 DEF TypeOK
  <2> QED BY <2>2 DEF TypeOK
<1>2. CallInv'
    BY DEF TypeOK, CallInv, Setters, Ops
<1>3. CountInv'
  <2>1. /\ queries'[o] = queries[o] \ {n} /\ nErrors'[o] = e
        /\ pendingRequests'[o] = pendingRequests[o] - 1
        /\ \A p \in Ops : p # o => /\ queries'[p] = queries[p] /\ nErrors'[p] = nErrors[p]
                                 /\ pendingRequests'[p] = pendingRequests[p]
      BY DEF TypeOK
  <2>2. ASSUME NEW p \in Setters, actor[p] = "asking"
        PROVE  \E confirmed \in SUBSET (asked[p] \cap wrote[p]) :
                 /\ confirmed \cap queries'[p] = {}
                 /\ Cardinality(asked[p] \ confirmed) = pendingRequests'[p] + nErrors'[p]
    <3>1. CASE p = o
        BY <1>r, <2>1, <2>2, <3>1
    <3>2. CASE p # o
      <4>1. PICK c \in SUBSET (asked[p] \cap wrote[p]) :
              /\ c \cap queries[p] = {}
              /\ Cardinality(asked[p] \ c) = pendingRequests[p] + nErrors[p]
          BY <2>2 DEF CountInv
      <4> QED BY <2>1, <3>2, <4>1 DEF Ops
    <3> QED BY <3>1, <3>2
  <2>3. \A a \in answers' : a.op \in Setters => a.node \in wrote[a.op]
      BY DEF CountInv
  <2> QED BY <2>2, <2>3 DEF CountInv
<1>4. SetIsQuorate' /\ StorageInv'
    BY DEF SetIsQuorate, StorageInv
<1>5. GetInv'
    BY DEF TypeOK, GetInv, Ops
<1>6. ChainInv'
    BY DEF ChainInv, ActiveRound, Alive
<1> QED BY <1>1, <1>2, <1>3, <1>4, <1>5, <1>6

\* "find failure" and the deadline
LEMMA FailInv ==
  ASSUME KeyValueInv, NEW o \in Ops, Fail(o)
  PROVE  KeyValueInv'
<1>1. /\ value[o] \in Values \cup {None} /\ value' = [value EXCEPT ![o] = value[o]]
      /\ answered[o] \in SUBSET Nodes /\ answered' = [answered EXCEPT ![o] = answered[o]]
    BY DEF KeyValueInv, TypeOK, Fail, ghosts
<1>2. o \in Gets => answered[o] \cap holders[o] = {}
    BY DEF KeyValueInv, GetInv, CallInv, Fail, Alive
<1> QED BY <1>1, <1>2, EndInv DEF Fail, ghosts

\* SetResponse, for an answer or a timeout of the peer m.node
LEMMA SetResponseInv ==
  ASSUME KeyValueInv, NEW o \in Setters, actor[o] = "asking",
         NEW m, m.node \in Nodes, NEW e \in Nat,
         \/ e = nErrors[o] + 1
         \/ e = nErrors[o] /\ m.node \in queries[o] \cap wrote[o],
         SetResponse(o, m, e), UNCHANGED <<value, asked, requests, keeping, ghosts>>
  PROVE  KeyValueInv'
<1>1. /\ o \in Ops /\ o \notin Gets /\ Alive(o)
      /\ value[o] \in Values \cup {None} /\ value' = [value EXCEPT ![o] = value[o]]
      /\ answered[o] \in SUBSET Nodes /\ answered' = [answered EXCEPT ![o] = answered[o]]
    BY OpsAssumption DEF KeyValueInv, TypeOK, Alive, Setters, Ops, ghosts
<1>2. CASE pendingRequests[o] - 1 = 0 /\ e < ErrorThreshold
  <2>1. End(o, "set")
      BY <1>2 DEF SetResponse, Respond, LastOne, Enough
  <2>2. Cardinality(asked[o] \ wrote[o]) < ErrorThreshold
      BY <1>2, FewMissed
  <2> QED BY <1>1, <2>1, <2>2, EndInv DEF ghosts
<1>3. CASE pendingRequests[o] - 1 = 0 /\ ~(e < ErrorThreshold)
  <2>1. End(o, "error")
      BY <1>3 DEF SetResponse, Respond, LastOne, Enough
  <2> QED BY <1>1, <2>1, EndInv DEF ghosts
<1>4. CASE pendingRequests[o] - 1 # 0
  <2>1. /\ pendingRequests' = [pendingRequests EXCEPT ![o] = @ - 1]
        /\ nErrors' = [nErrors EXCEPT ![o] = e]
        /\ queries' = [queries EXCEPT ![o] = @ \ {m.node}]
        /\ answers' \subseteq answers /\ timers' \subseteq timers
        /\ UNCHANGED <<actor, outcome, due>>
      BY <1>4 DEF SetResponse, Respond, LastOne
  <2> QED BY <1>1, <1>4, <2>1, ContinueInv DEF ghosts
<1> QED BY <1>2, <1>3, <1>4

\* GetResponse, for a timeout or for an answer without a value
LEMMA GetResponseInv ==
  ASSUME KeyValueInv, NEW o \in Gets, actor[o] = "asking", NEW m, m.node \in Nodes,
         NEW A \in SUBSET Nodes, answered' = [answered EXCEPT ![o] = A],
         (A \ answered[o]) \cap holders[o] = {},
         GetResponse(o, m), UNCHANGED <<value, asked, requests, keeping, wrote, earlier, holders>>
  PROVE  KeyValueInv'
<1>1. /\ o \in Ops /\ o \notin Setters /\ Alive(o)
      /\ value[o] \in Values \cup {None} /\ value' = [value EXCEPT ![o] = value[o]]
    BY OpsAssumption DEF KeyValueInv, TypeOK, Alive, Setters, Ops
<1>2. A \cap holders[o] = {}
    BY DEF KeyValueInv, CallInv, GetInv, Ops
<1>3. CASE pendingRequests[o] - 1 = 0
  <2>1. End(o, "error")
      BY <1>3 DEF GetResponse, Respond, LastOne
  <2> QED BY <1>1, <1>2, <2>1, EndInv
<1>4. CASE pendingRequests[o] - 1 # 0
  <2>1. /\ pendingRequests' = [pendingRequests EXCEPT ![o] = @ - 1]
        /\ nErrors' = [nErrors EXCEPT ![o] = 0]
        /\ queries' = [queries EXCEPT ![o] = @ \ {m.node}]
        /\ answers' \subseteq answers /\ timers' \subseteq timers
        /\ UNCHANGED <<actor, outcome, due>>
      BY <1>4 DEF GetResponse, Respond, LastOne
  <2> QED BY <1>1, <1>4, <2>1, ContinueInv
<1> QED BY <1>3, <1>4

LEMMA TreatStoredInv ==
  ASSUME KeyValueInv, NEW o \in Ops, NEW a \in answers, TreatStored(o, a)
  PROVE  KeyValueInv'
<1>1. /\ o \in Setters /\ actor[o] = "asking"
      /\ a.node \in Nodes /\ a.node \in queries[o] \cap wrote[o] /\ nErrors[o] \in Nat
    BY DEF KeyValueInv, TypeOK, CallInv, CountInv, TreatStored
<1> QED BY <1>1, SetResponseInv DEF TreatStored

LEMMA TreatGotInv ==
  ASSUME KeyValueInv, NEW o \in Ops, NEW a \in answers, TreatGot(o, a)
  PROVE  KeyValueInv'
<1> DEFINE A == answered[o] \cup {a.node}
<1>1. /\ o \in Gets /\ o \notin Setters /\ actor[o] = "asking" /\ Alive(o)
      /\ a.node \in Nodes /\ a.value \in Values \cup {None}
    BY OpsAssumption DEF KeyValueInv, TypeOK, CallInv, TreatGot, Setters, Alive
<1>2. A \in SUBSET Nodes /\ answered' = [answered EXCEPT ![o] = A]
    BY <1>1 DEF KeyValueInv, TypeOK, TreatGot
<1>3. CASE a.value = None /\ GetResponse(o, a) /\ UNCHANGED value
  <2>1. a.node \notin holders[o]
      BY <1>1, <1>3 DEF KeyValueInv, GetInv, TreatGot
  <2>2. (A \ answered[o]) \cap holders[o] = {}
      BY <2>1
  <2> HIDE DEF A
  <2> QED BY <1>1, <1>2, <1>3, <2>2, GetResponseInv DEF TreatGot
<1>4. CASE a.value # None /\ End(o, "got") /\ value' = [value EXCEPT ![o] = a.value]
  <2> HIDE DEF A
  <2> QED BY <1>1, <1>2, <1>4, EndInv DEF TreatGot
<1> QED BY <1>3, <1>4 DEF TreatGot

LEMMA TreatTimeoutInv ==
  ASSUME KeyValueInv, NEW o \in Ops, NEW t \in timers, TreatTimeout(o, t)
  PROVE  KeyValueInv'
<1>1. t.node \in Nodes /\ actor[o] = "asking"
    BY DEF KeyValueInv, TypeOK, Query, CallInv, TreatTimeout
<1>2. CASE o \in Setters /\ SetResponse(o, t, OneError(o))
  <2>1. OneError(o) \in Nat /\ OneError(o) = nErrors[o] + 1
      BY DEF KeyValueInv, TypeOK, OneError
  <2> QED BY <1>1, <1>2, <2>1, SetResponseInv DEF TreatTimeout
<1>3. CASE o \in Gets /\ GetResponse(o, t)
  <2>1. /\ answered[o] \in SUBSET Nodes /\ answered' = [answered EXCEPT ![o] = answered[o]]
        /\ (answered[o] \ answered[o]) \cap holders[o] = {}
      BY DEF KeyValueInv, TypeOK, TreatTimeout, ghosts
  <2> QED BY <1>1, <1>3, <2>1, GetResponseInv DEF TreatTimeout, ghosts
<1> QED BY <1>2, <1>3 DEF TreatTimeout

-----------------------------------------------------------------------------
(* The queries *)

\* A new query is pending for each peer, and confirmed by none; a get sees every
\* node that stored a value of a set that succeeded.
LEMMA FindSuccessInv ==
  ASSUME KeyValueInv, NEW o \in Ops, NEW S \in SUBSET Nodes, FindSuccess(o, S)
  PROVE  KeyValueInv'
<1>1. Cardinality(S) \in Nat /\ Cardinality(S) > 0
  <2>1. IsFiniteSet(S) /\ Cardinality(S) \in Nat /\ S # {}
      BY PeersAreFinite DEF FindSuccess
  <2> QED BY <2>1, FS_EmptySet
<1>2. \A s \in Setters : outcome[s] = "set" =>
        Cardinality(asked[s] \ {n \in Nodes : storage[n] # None}) < ErrorThreshold
  <2> SUFFICES ASSUME NEW s \in Setters, outcome[s] = "set"
               PROVE  Cardinality(asked[s] \ {n \in Nodes : storage[n] # None}) < ErrorThreshold
      OBVIOUS
  <2> DEFINE H == {n \in Nodes : storage[n] # None}
  <2>1. wrote[s] \subseteq H /\ asked[s] \subseteq Nodes
      BY DEF KeyValueInv, TypeOK, StorageInv, Ops
  <2>2. asked[s] \ wrote[s] \in SUBSET Nodes /\ asked[s] \ H \in SUBSET (asked[s] \ wrote[s])
      BY <2>1
  <2> HIDE DEF H
  <2>3. Cardinality(asked[s] \ H) <= Cardinality(asked[s] \ wrote[s])
      BY <2>2, PeersAreFinite
  <2>4. Cardinality(asked[s] \ wrote[s]) < ErrorThreshold
      BY DEF KeyValueInv, SetIsQuorate
  <2>5. Cardinality(asked[s] \ H) \in Nat /\ Cardinality(asked[s] \ wrote[s]) \in Nat
      BY <2>2, PeersAreFinite
  <2>6. Cardinality(asked[s] \ H) < ErrorThreshold
      BY <2>3, <2>4, <2>5, LimitsAssumption
  <2> QED BY <2>6 DEF H
<1> USE DEF KeyValueInv, FindSuccess
<1>3. TypeOK'
    BY <1>1 DEF TypeOK, Query, Setters
<1>4. CallInv'
    BY <1>1 DEF TypeOK, CallInv, Setters, Ops
<1>5. CountInv'
  <2>1. ASSUME NEW p \in Setters, actor'[p] = "asking"
        PROVE  \E confirmed \in SUBSET (asked'[p] \cap wrote'[p]) :
                 /\ confirmed \cap queries'[p] = {}
                 /\ Cardinality(asked'[p] \ confirmed) = pendingRequests'[p] + nErrors'[p]
    <3>1. CASE p = o
      <4>1. /\ asked'[o] \ {} = S /\ pendingRequests'[o] = Cardinality(S)
            /\ nErrors'[o] = 0
          BY DEF TypeOK, CallInv
      <4>2. Cardinality(asked'[o] \ {}) = pendingRequests'[o] + nErrors'[o]
          BY <1>1, <4>1
      <4>3. {} \in SUBSET (asked'[o] \cap wrote'[o]) /\ {} \cap queries'[o] = {}
          OBVIOUS
      <4> QED BY <3>1, <4>2, <4>3, Zenon
    <3>2. CASE p # o
      <4>1. PICK c \in SUBSET (asked[p] \cap wrote[p]) :
              /\ c \cap queries[p] = {}
              /\ Cardinality(asked[p] \ c) = pendingRequests[p] + nErrors[p]
          BY <2>1, <3>2 DEF TypeOK, CountInv, Ops
      <4>2. /\ asked'[p] = asked[p] /\ wrote'[p] = wrote[p] /\ queries'[p] = queries[p]
            /\ pendingRequests'[p] = pendingRequests[p] /\ nErrors'[p] = nErrors[p]
          BY <3>2 DEF TypeOK, Ops
      <4> QED BY <4>1, <4>2
    <3> QED BY <3>1, <3>2
  <2> QED BY <2>1 DEF CountInv
<1>6. outcome[o] = "none" /\ asked[o] = {} /\ answered[o] = {}
      /\ \A p \in Ops : p # o => asked'[p] = asked[p] /\ holders'[p] = holders[p]
                              /\ earlier'[p] = earlier[p]
    BY DEF TypeOK, CallInv
<1>7. SetIsQuorate'
    BY <1>6 DEF SetIsQuorate, Ops
<1>8. StorageInv'
    BY DEF TypeOK, StorageInv
<1>9. GetInv'
  <2>1. ASSUME NEW g \in Gets, NEW s \in earlier'[g]
        PROVE  Cardinality(asked'[s] \ holders'[g]) < ErrorThreshold
    <3>1. s \in Setters /\ outcome[s] = "set" /\ asked'[s] = asked[s]
        BY <1>6, <2>1 DEF TypeOK, GetInv, Ops
    <3>2. CASE g = o
      <4>1. holders'[g] = {n \in Nodes : storage[n] # None}
          BY <3>2, OpsAssumption DEF TypeOK, Setters
      <4> QED BY <1>2, <3>1, <4>1
    <3>3. CASE g # o
        BY <1>6, <2>1, <3>1, <3>3 DEF GetInv, Ops
    <3> QED BY <3>2, <3>3
  <2>2. (\A p \in Ops : \A s \in earlier[p] : outcome[s] = "set")'
      BY <1>6 DEF TypeOK, GetInv
  <2>3. (\A a \in answers : a.op \in Gets /\ a.value = None => a.node \notin holders[a.op])'
      BY <1>6 DEF TypeOK, CallInv, GetInv, Ops
  <2>4. (\A g \in Gets :
           answered[g] \cap holders[g] # {} => outcome[g] = "got" /\ value[g] \in Values)'
      BY <1>6 DEF GetInv, Ops
  <2> QED BY <2>1, <2>2, <2>3, <2>4 DEF GetInv
<1>10. ChainInv'
    BY NoneAssumption DEF TypeOK, ChainInv, ActiveRound, Alive
<1> QED BY <1>3, <1>4, <1>5, <1>7, <1>8, <1>9, <1>10

\* A node stores the value of a setter, and tells its replicater if it had none.
LEMMA StoreInv ==
  ASSUME KeyValueInv, NEW o \in Ops, NEW n \in Nodes, Store(o, n)
  PROVE  KeyValueInv'
<1> USE DEF KeyValueInv, Store, Serve
<1>1. value[o] \in Values /\ actor[o] \in {"asking", "killed"}
    BY DEF CallInv
<1>2. TypeOK'
    BY <1>1 DEF TypeOK, NewKey
<1>3. CallInv'
    BY <1>1 DEF TypeOK, CallInv, Alive, Ops
<1>4. CountInv'
  <2>1. ASSUME NEW p \in Setters, actor[p] = "asking"
        PROVE  \E confirmed \in SUBSET (asked[p] \cap wrote'[p]) :
                 /\ confirmed \cap queries[p] = {}
                 /\ Cardinality(asked[p] \ confirmed) = pendingRequests[p] + nErrors[p]
    <3>1. PICK c \in SUBSET (asked[p] \cap wrote[p]) :
            /\ c \cap queries[p] = {}
            /\ Cardinality(asked[p] \ c) = pendingRequests[p] + nErrors[p]
        BY <2>1 DEF CountInv
    <3>2. wrote[p] \subseteq wrote'[p]
        BY DEF TypeOK, Setters, Ops
    <3> QED BY <3>1, <3>2
  <2>2. (\A a \in answers : a.op \in Setters => a.node \in wrote[a.op])'
      BY DEF TypeOK, CountInv, Setters, Ops
  <2> QED BY <2>1, <2>2 DEF CountInv
<1>5. SetIsQuorate'
  <2> SUFFICES ASSUME NEW p \in Setters, outcome[p] = "set"
               PROVE  Cardinality(asked[p] \ wrote'[p]) < ErrorThreshold
      BY DEF SetIsQuorate
  <2>1. /\ asked[p] \ wrote[p] \in SUBSET Nodes
        /\ asked[p] \ wrote'[p] \in SUBSET (asked[p] \ wrote[p])
      BY DEF TypeOK, Setters, Ops
  <2>2. /\ Cardinality(asked[p] \ wrote'[p]) <= Cardinality(asked[p] \ wrote[p])
        /\ Cardinality(asked[p] \ wrote'[p]) \in Nat /\ Cardinality(asked[p] \ wrote[p]) \in Nat
      BY <2>1, PeersAreFinite
  <2>3. Cardinality(asked[p] \ wrote[p]) < ErrorThreshold
      BY DEF SetIsQuorate
  <2> QED BY <2>2, <2>3, LimitsAssumption
<1>6. StorageInv'
    BY <1>1, NoneAssumption DEF TypeOK, StorageInv, Setters, Ops
<1>7. GetInv'
  <2>1. \A a \in answers' : a.op \in Gets => a \in answers
      BY OpsAssumption DEF Setters
  <2> QED BY <2>1 DEF GetInv
<1>8. ChainInv'
    BY <1>1, NoneAssumption DEF TypeOK, ChainInv, ActiveRound, Alive, NewKey
<1> QED BY <1>2, <1>3, <1>4, <1>5, <1>6, <1>7, <1>8

\* A node answers a getter.
LEMMA ReadInv ==
  ASSUME KeyValueInv, NEW o \in Ops, NEW n \in Nodes, Read(o, n)
  PROVE  KeyValueInv'
<1> USE DEF KeyValueInv, Read, Serve
<1>1. TypeOK'
    BY DEF TypeOK
<1>2. CallInv'
    BY DEF CallInv, Alive
<1>3. CountInv'
  <2>1. UNCHANGED <<actor, asked, queries, wrote, pendingRequests, nErrors>>
      OBVIOUS
  <2>2. \A a \in answers' : a.op \in Setters => a \in answers
      BY OpsAssumption DEF Setters
  <2>3. CountInv
      OBVIOUS
  <2> HIDE DEF KeyValueInv, Read, Serve
  <2> QED BY <2>1, <2>2, <2>3 DEF CountInv
<1>4. SetIsQuorate' /\ StorageInv' /\ ChainInv'
    BY DEF SetIsQuorate, StorageInv, ChainInv, ActiveRound, Alive
<1>5. GetInv'
    BY DEF GetInv, StorageInv
<1> QED BY <1>1, <1>2, <1>3, <1>4, <1>5

-----------------------------------------------------------------------------
\* Every step of the calls, the nodes and the replicaters preserves the invariant.
LEMMA KeyValueInvStep == KeyValueInv /\ [Next]_vars => KeyValueInv'
<1> SUFFICES ASSUME KeyValueInv, [Next]_vars PROVE KeyValueInv'
    OBVIOUS
<1>1. CASE UNCHANGED vars
  <2> USE <1>1 DEF vars, own, keeping, ghosts, KeyValueInv
  <2>1. TypeOK' /\ CallInv' /\ CountInv'
      BY DEF TypeOK, CallInv, CountInv
  <2>2. SetIsQuorate' /\ StorageInv' /\ GetInv'
      BY DEF SetIsQuorate, StorageInv, GetInv
  <2>3. ChainInv'
      BY DEF ChainInv, ActiveRound, Alive
  <2> QED BY <2>1, <2>2, <2>3
<1>2. ASSUME NEW o \in Ops, CallGet(o) \/ \E v \in Values : CallSet(o, v) PROVE KeyValueInv'
    BY <1>2, CallGetInv, CallSetInv
<1>3. ASSUME NEW o \in Ops, Fail(o) PROVE KeyValueInv'
    BY <1>3, FailInv
<1>4. ASSUME NEW o \in Ops, Treat(o) PROVE KeyValueInv'
    BY <1>4, TreatStoredInv, TreatGotInv, TreatTimeoutInv DEF Treat
<1>5. ASSUME NEW o \in Ops, NEW S \in SUBSET Nodes, FindSuccess(o, S) PROVE KeyValueInv'
    BY <1>5, FindSuccessInv
<1>6. ASSUME NEW o \in Ops, NEW n \in Nodes, Replicate(n, o) \/ Store(o, n) \/ Read(o, n)
      PROVE  KeyValueInv'
    BY <1>6, ReplicateInv, StoreInv, ReadInv
<1> QED BY <1>1, <1>2, <1>3, <1>4, <1>5, <1>6 DEF Next

\* Counters, ghosts and messages agree with what the peers did: the inductive invariant.
THEOREM Typing == Spec => []KeyValueInv
  BY KeyValueInvInit, KeyValueInvStep, PTL DEF Spec

\* A set that reports success was stored by all its peers but fewer than the threshold.
THEOREM SetIsQuorateHolds == Spec => []SetIsQuorate
<1>1. KeyValueInv => SetIsQuorate
    BY DEF KeyValueInv
<1> QED BY <1>1, Typing, PTL

\* A get that asks enough peers of a set that had succeeded finds a value, if they
\* all answer: one of them held a value, and did not answer that it has none.
THEOREM GetFindsSetHolds == Spec => []GetFindsSet
<1>1. ASSUME KeyValueInv, NEW g \in Gets, NEW s \in earlier[g],
             Cardinality(asked[g] \cap asked[s]) >= ErrorThreshold, answered[g] = asked[g]
      PROVE  outcome[g] = "got" /\ value[g] \in Values
  <2>1. asked[s] \ holders[g] \in SUBSET Nodes /\ asked[g] \cap asked[s] \in SUBSET Nodes
      BY <1>1 DEF KeyValueInv, TypeOK, Ops
  <2>2. Cardinality(asked[s] \ holders[g]) < ErrorThreshold
      BY <1>1 DEF KeyValueInv, GetInv
  <2>3. Cardinality(asked[s] \ holders[g]) \in Nat /\ Cardinality(asked[g] \cap asked[s]) \in Nat
      BY <2>1, PeersAreFinite
  <2>4. CASE asked[g] \cap asked[s] \subseteq asked[s] \ holders[g]
    <3>1. Cardinality(asked[g] \cap asked[s]) <= Cardinality(asked[s] \ holders[g])
        BY <2>1, <2>4, PeersAreFinite
    <3> QED BY <1>1, <2>2, <2>3, <3>1, LimitsAssumption
  <2>5. CASE ~(asked[g] \cap asked[s] \subseteq asked[s] \ holders[g])
    <3>1. answered[g] \cap holders[g] # {}
        BY <1>1, <2>5
    <3> QED BY <1>1, <3>1 DEF KeyValueInv, GetInv
  <2> QED BY <2>4, <2>5
<1>2. KeyValueInv => GetFindsSet
    BY <1>1 DEF GetFindsSet
<1> QED BY <1>2, Typing, PTL

\* Each node has at most one replication of the key under way or planned.
THEOREM OneChainHolds == Spec => []OneChain
<1>1. ASSUME KeyValueInv, NEW n \in Nodes
      PROVE  due[n] + Cardinality({o \in Rounds : owner[o] = n /\ Alive(o)}) <= 1
  <2> DEFINE A == {o \in Rounds : owner[o] = n /\ Alive(o)}
  <2>1. due[n] \in Nat /\ due[n] <= 1
      BY <1>1 DEF KeyValueInv, TypeOK, ChainInv
  <2>2. CASE A = {}
      BY <2>1, <2>2, FS_EmptySet
  <2>3. CASE A # {}
    <3>1. PICK o \in Rounds : ActiveRound(o, n)
        BY <2>3 DEF ActiveRound
    <3>2. due[n] = 0 /\ A = {o}
        BY <1>1, <3>1 DEF KeyValueInv, ChainInv, ActiveRound
    <3>3. Cardinality({o}) = 1
        BY FS_Singleton
    <3> QED BY <3>2, <3>3
  <2> QED BY <2>2, <2>3
<1>2. KeyValueInv => OneChain
    BY <1>1 DEF OneChain
<1> QED BY <1>2, Typing, PTL

-----------------------------------------------------------------------------
(* Why a call does not need its deadline *)

\* A step that leaves the calls under way with their requests and timeouts
LEMMA PendingKept ==
  ASSUME KeyValueInv, PendingInv, NEW o \in Ops,
         \A p \in Ops \ {o} : /\ actor'[p] = actor[p] /\ pendingRequests'[p] = pendingRequests[p]
                             /\ \A t \in timers : t.op = p => t \in timers',
         actor'[o] = "asking" => pendingRequests'[o] <= Cardinality(Awaited(o)')
  PROVE  PendingInv'
<1> SUFFICES ASSUME NEW p \in Ops, p # o, actor'[p] = "asking"
             PROVE  pendingRequests'[p] <= Cardinality(Awaited(p)')
    BY DEF PendingInv
<1>1. /\ pendingRequests'[p] = pendingRequests[p] /\ pendingRequests[p] \in Nat
      /\ pendingRequests[p] <= Cardinality(Awaited(p))
    BY DEF PendingInv, KeyValueInv, TypeOK
<1>2. Awaited(p) \in SUBSET Awaited(p)' /\ Awaited(p)' \in SUBSET Nodes
    BY DEF Awaited
<1>3. /\ Cardinality(Awaited(p)) <= Cardinality(Awaited(p)')
      /\ Cardinality(Awaited(p)) \in Nat /\ Cardinality(Awaited(p)') \in Nat
    BY <1>2, PeersAreFinite
<1> QED BY <1>1, <1>3

\* onFoundPeers sets a timeout for each query it counts.
LEMMA FindSuccessPending ==
  ASSUME KeyValueInv, PendingInv, NEW o \in Ops, NEW S \in SUBSET Nodes, FindSuccess(o, S)
  PROVE  PendingInv'
<1>1. S \in SUBSET Awaited(o)' /\ Awaited(o)' \in SUBSET Nodes
    BY DEF Awaited, FindSuccess
<1>2. Cardinality(S) <= Cardinality(Awaited(o)')
    BY <1>1, PeersAreFinite
<1>3. pendingRequests'[o] = Cardinality(S)
    BY DEF FindSuccess, KeyValueInv, TypeOK
<1>4. \A p \in Ops \ {o} : /\ actor'[p] = actor[p] /\ pendingRequests'[p] = pendingRequests[p]
                           /\ \A t \in timers : t.op = p => t \in timers'
    BY DEF FindSuccess, KeyValueInv, TypeOK
<1> QED BY <1>2, <1>3, <1>4, PendingKept

\* A call that ended waits for nobody.
LEMMA EndPending ==
  ASSUME KeyValueInv, PendingInv, NEW o \in Ops, NEW result, End(o, result)
  PROVE  PendingInv'
<1>1. actor'[o] = "killed"
    BY DEF End, KeyValueInv, TypeOK
<1>2. \A p \in Ops \ {o} : /\ actor'[p] = actor[p] /\ pendingRequests'[p] = pendingRequests[p]
                           /\ \A t \in timers : t.op = p => t \in timers'
    BY DEF End, KeyValueInv, TypeOK
<1> QED BY <1>1, <1>2, PendingKept

\* A message that is treated is one request less, and at most one timeout less.
LEMMA RespondPending ==
  ASSUME KeyValueInv, PendingInv, NEW o \in Ops, actor[o] = "asking",
         NEW m, m.op = o, NEW e, NEW result, Respond(o, m, e, result)
  PROVE  PendingInv'
<1>1. CASE End(o, result)
    BY <1>1, EndPending
<1>2. CASE /\ pendingRequests' = [pendingRequests EXCEPT ![o] = @ - 1]
           /\ timers' = timers \ {m} /\ actor' = actor
  <2>1. \A p \in Ops \ {o} : /\ actor'[p] = actor[p] /\ pendingRequests'[p] = pendingRequests[p]
                             /\ \A t \in timers : t.op = p => t \in timers'
      BY <1>2 DEF KeyValueInv, TypeOK
  <2>2. /\ pendingRequests'[o] = pendingRequests[o] - 1 /\ pendingRequests[o] \in Nat
        /\ pendingRequests[o] <= Cardinality(Awaited(o))
      BY <1>2 DEF PendingInv, KeyValueInv, TypeOK
  <2>3. PICK n : Awaited(o) \ {n} \in SUBSET Awaited(o)'
    <3>1. \A n \in Awaited(o) : n # m.node => n \in Awaited(o)'
        BY <1>2 DEF Awaited
    <3> QED BY <3>1
  <2>4. Awaited(o) \in SUBSET Nodes /\ Awaited(o)' \in SUBSET Nodes /\ IsFiniteSet(Awaited(o))
    <3>1. Awaited(o) \in SUBSET Nodes /\ Awaited(o)' \in SUBSET Nodes
        BY DEF Awaited
    <3> QED BY <3>1, PeersAreFinite
  <2>5. /\ Cardinality(Awaited(o) \ {n}) <= Cardinality(Awaited(o)')
        /\ Cardinality(Awaited(o)) \in Nat /\ Cardinality(Awaited(o)') \in Nat
      BY <2>3, <2>4, PeersAreFinite
  <2>6. Cardinality(Awaited(o) \ {n}) >= Cardinality(Awaited(o)) - 1
    <3>1. CASE n \in Awaited(o)
      <4>1. Cardinality(Awaited(o) \ {n}) = Cardinality(Awaited(o)) - 1
          BY <2>4, <3>1, FS_RemoveElement
      <4> QED BY <2>5, <4>1
    <3>2. CASE n \notin Awaited(o)
      <4>1. Awaited(o) \ {n} = Awaited(o)
          BY <3>2
      <4> QED BY <2>5, <4>1
    <3> QED BY <3>1, <3>2
  <2>7. Cardinality(Awaited(o) \ {n}) \in Nat
      BY <2>4, PeersAreFinite, Awaited(o) \ {n} \in SUBSET Nodes
  <2>8. pendingRequests'[o] <= Cardinality(Awaited(o)')
      BY <2>2, <2>5, <2>6, <2>7
  <2> QED BY <2>1, <2>8, PendingKept
<1> QED BY <1>1, <1>2 DEF Respond

\* No other step takes a request, or its timeout, away.
LEMMA PendingStep == CallsInv /\ [Next]_vars => PendingInv'
<1> SUFFICES ASSUME KeyValueInv, PendingInv, [Next]_vars PROVE PendingInv'
    BY DEF CallsInv
<1>1. CASE UNCHANGED vars
    BY <1>1 DEF vars, PendingInv, Awaited
<1>2. ASSUME NEW o \in Ops, NEW v, Call(o, v) PROVE PendingInv'
  <2>1. actor'[o] = "searching" /\ UNCHANGED <<pendingRequests, timers>>
        /\ \A p \in Ops \ {o} : actor'[p] = actor[p]
      BY <1>2 DEF Call, own, KeyValueInv, TypeOK
  <2> QED BY <2>1, PendingKept
<1>3. ASSUME NEW o \in Ops, Fail(o) PROVE PendingInv'
    BY <1>3, EndPending DEF Fail
<1>4. ASSUME NEW o \in Ops, Treat(o) PROVE PendingInv'
  <2>1. ASSUME NEW a \in answers, TreatStored(o, a) \/ TreatGot(o, a) PROVE PendingInv'
    <3>1. a.op = o /\ actor[o] = "asking"
        BY <2>1 DEF TreatStored, TreatGot, KeyValueInv, CallInv
    <3>2. CASE TreatStored(o, a)
        BY <3>1, <3>2, RespondPending DEF TreatStored, SetResponse
    <3>3. CASE TreatGot(o, a)
      <4>1. Respond(o, a, 0, "error") \/ End(o, "got")
          BY <3>3 DEF TreatGot, GetResponse
      <4> QED BY <3>1, <4>1, RespondPending, EndPending
    <3> QED BY <2>1, <3>2, <3>3
  <2>2. ASSUME NEW t \in timers, TreatTimeout(o, t) PROVE PendingInv'
    <3>1. t.op = o /\ actor[o] = "asking"
        BY <2>2 DEF TreatTimeout, KeyValueInv, CallInv
    <3> QED BY <2>2, <3>1, RespondPending DEF TreatTimeout, SetResponse, GetResponse
  <2> QED BY <1>4, <2>1, <2>2 DEF Treat
<1>5. ASSUME NEW o \in Ops, NEW S \in SUBSET Nodes, FindSuccess(o, S) PROVE PendingInv'
    BY <1>5, FindSuccessPending
<1>6. ASSUME NEW o \in Ops, NEW n \in Nodes, Store(o, n) \/ Read(o, n) PROVE PendingInv'
  <2>1. UNCHANGED <<actor, pendingRequests, timers>>
      BY <1>6 DEF Store, Read, Serve
  <2> QED BY <2>1 DEF PendingInv, Awaited
<1> QED BY <1>1, <1>2, <1>3, <1>4, <1>5, <1>6 DEF Next, CallSet, CallGet, Replicate

\* What a call counts, and what its timeouts will make up for, agree.
THEOREM CallsInvHolds == Spec => []CallsInv
<1>1. Init => CallsInv
    BY KeyValueInvInit DEF CallsInv, Init, PendingInv
<1>2. CallsInv /\ [Next]_vars => CallsInv'
    BY KeyValueInvStep, PendingStep DEF CallsInv
<1> QED BY <1>1, <1>2, PTL DEF Spec

\* A call that asked its peers and did not end has a timeout to come, whatever
\* answers were lost: the fact that AskingEnds adds fairness to.
THEOREM CallIsNeverStuck ==
  Spec => [](\A o \in Ops : actor[o] = "asking" => \E t \in timers : t.op = o)
<1>1. ASSUME CallsInv, NEW o \in Ops, actor[o] = "asking" PROVE \E t \in timers : t.op = o
  <2>1. /\ pendingRequests[o] \in Nat /\ pendingRequests[o] > 0
        /\ pendingRequests[o] <= Cardinality(Awaited(o))
      BY <1>1 DEF CallsInv, KeyValueInv, TypeOK, CallInv, PendingInv
  <2>2. Awaited(o) # {}
      BY <2>1, FS_EmptySet
  <2>3. PICK n \in Nodes : [op |-> o, node |-> n] \in timers
      BY <2>2 DEF Awaited
  <2> QED BY <2>3
<1>2. CallsInv => \A o \in Ops : actor[o] = "asking" => \E t \in timers : t.op = o
    BY <1>1
<1> QED BY <1>2, CallsInvHolds, PTL
=============================================================================
