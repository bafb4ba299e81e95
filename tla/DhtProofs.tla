------------------------------ MODULE DhtProofs ------------------------------
(***************************************************************************)
(* Theorems about Finder, for any finite set of peers and any limits, and  *)
(* about DhtNode over RoutingTable, for any length of the ids and any size *)
(* of the buckets.                                                         *)
(*                                                                         *)
(* Heaps, queues and tables are folds over sets and sequences.  What a     *)
(* fold computes is proved by induction on the sets it was given, with a   *)
(* set of good subsets, or of good numbers, in the place of the property.  *)
(***************************************************************************)
EXTENDS Finder, DhtNode, FiniteSetTheorems, SequenceTheorems, WellFoundedInduction, TLAPS

-----------------------------------------------------------------------------
(* Induction, and folds *)

\* A set of numbers has a least one.
LEMMA LeastNat ==
  ASSUME NEW T \in SUBSET Nat, T # {}
  PROVE  \E n \in T : \A m \in T : n <= m
<1>1. PICK n \in T : \A m \in T : <<m, n>> \notin OpToRel(<, Nat)
    BY NatLessThanWellFounded, WFMin
<1>2. \A m \in T : ~(m < n)
    BY <1>1 DEF OpToRel
<1> QED BY <1>2

\* Induction over the subsets of a finite set. G stands for the property: the sets
\* that have it.
LEMMA SetInduction ==
  ASSUME NEW S, IsFiniteSet(S), NEW G,
         \A s \in SUBSET S : (\A t \in SUBSET s : t # s => t \in G) => s \in G
  PROVE  S \in G
<1> SUFFICES ASSUME S \notin G PROVE FALSE
    OBVIOUS
<1> DEFINE Bad == {s \in SUBSET S : s \notin G}
<1> DEFINE Sizes == {Cardinality(s) : s \in Bad}
<1>1. \A s \in Bad : IsFiniteSet(s) /\ Cardinality(s) \in Nat
    BY FS_Subset, FS_CardinalityType
<1>2. Sizes \in SUBSET Nat /\ Sizes # {}
    BY <1>1
<1>3. PICK n \in Sizes : \A m \in Sizes : n <= m
    BY <1>2, LeastNat
<1>4. PICK s \in Bad : n = Cardinality(s)
    BY <1>3
<1>5. ASSUME NEW t \in SUBSET s, t # s PROVE t \in G
  <2>1. Cardinality(t) < Cardinality(s)
      BY <1>1, <1>4, <1>5, FS_Subset, FS_CardinalityType
  <2>2. SUFFICES ASSUME t \notin G PROVE FALSE
      OBVIOUS
  <2>3. t \in Bad
      BY <2>2
  <2>4. Cardinality(t) \in Sizes
      BY <2>3
  <2> HIDE DEF Bad, Sizes
  <2> QED BY <2>1, <2>3, <2>4, <1>1, <1>3, <1>4
<1> QED BY <1>4, <1>5

\* Induction over the numbers, with the set of the good ones for the property
LEMMA NatStepInduction ==
  ASSUME NEW G, 0 \in G, \A n \in Nat : n \in G => n + 1 \in G
  PROVE  \A n \in Nat : n \in G
<1> SUFFICES ASSUME NEW k \in Nat, k \notin G PROVE FALSE
    OBVIOUS
<1> DEFINE Bad == {m \in Nat : m \notin G}
<1>1. PICK n \in Bad : \A m \in Bad : n <= m
    BY LeastNat
<1>2. n # 0 /\ n - 1 \in Nat /\ n - 1 \notin Bad
    BY <1>1
<1>3. n - 1 \in G
    BY <1>2
<1>4. (n - 1) + 1 \in G
    BY <1>2, <1>3
<1> QED BY <1>1, <1>4

\* pick takes from every set one of its elements.
Chooses(pick, S) == \A s \in SUBSET S : s # {} => pick[s] \in s

\* What MapThenFoldSet computes with the choice pick, a set at a time
IsFold(g, base, op, pick, S) ==
  \A s \in SUBSET S : g[s] = IF s = {} THEN base ELSE op[<<pick[s], g[s \ {pick[s]}]>>]

\* The recursion of a fold has a solution.
LEMMA FoldExists ==
  ASSUME NEW S, IsFiniteSet(S), NEW V, NEW base \in V, NEW op \in [S \X V -> V],
         NEW pick, Chooses(pick, S)
  PROVE  \E g \in [SUBSET S -> V] : IsFold(g, base, op, pick, S)
<1> USE DEF Chooses, IsFold
<1> DEFINE Eq(g, s) == g[s] = IF s = {} THEN base ELSE op[<<pick[s], g[s \ {pick[s]}]>>]
<1> DEFINE Small(n) == {s \in SUBSET S : Cardinality(s) <= n}
<1> DEFINE Done == {n \in Nat : \E g \in [Small(n) -> V] : \A s \in Small(n) : Eq(g, s)}
<1>1. \A s \in SUBSET S : IsFiniteSet(s) /\ Cardinality(s) \in Nat
    BY FS_Subset, FS_CardinalityType
<1>2. \A s \in SUBSET S : s # {} => Cardinality(s \ {pick[s]}) = Cardinality(s) - 1
    BY <1>1, FS_RemoveElement
<1>3. \A s \in SUBSET S : s # {} => s \ {pick[s]} \in SUBSET S /\ pick[s] \in S
    OBVIOUS
<1>4. \A s \in SUBSET S : Cardinality(s) = 0 <=> s = {}
    BY <1>1, FS_EmptySet
<1>5. 0 \in Done
  <2>1. Small(0) = {{}}
      BY <1>1, <1>4
  <2>2. \A s \in Small(0) : Eq([s0 \in Small(0) |-> base], s)
      BY <2>1
  <2>3. [s0 \in Small(0) |-> base] \in [Small(0) -> V]
      OBVIOUS
  <2> QED BY <2>2, <2>3
<1>6. ASSUME NEW n \in Nat, n \in Done PROVE n + 1 \in Done
  <2>1. PICK g \in [Small(n) -> V] : \A s \in Small(n) : Eq(g, s)
      BY <1>6
  <2> DEFINE h == [s \in Small(n + 1) |->
                     IF s = {} THEN base ELSE op[<<pick[s], g[s \ {pick[s]}]>>]]
  <2>2. \A s \in Small(n + 1) : s # {} => s \ {pick[s]} \in Small(n)
      BY <1>1, <1>2, <1>3
  <2>3. h \in [Small(n + 1) -> V]
    <3>1. \A s \in Small(n + 1) : s # {} => op[<<pick[s], g[s \ {pick[s]}]>>] \in V
        BY <2>1, <2>2, <1>3
    <3> QED BY <3>1
  <2>4. \A s \in Small(n) : s \in Small(n + 1) /\ h[s] = g[s]
      BY <2>1, <1>1
  <2>5. \A s \in Small(n + 1) : Eq(h, s)
      BY <2>2, <2>4
  <2>6. \E f \in [Small(n + 1) -> V] : \A s \in Small(n + 1) : Eq(f, s)
    <3> HIDE DEF h, Small, Eq
    <3> QED BY <2>3, <2>5
  <2> HIDE DEF h, Small, Eq
  <2> QED BY <2>6
<1>7. Cardinality(S) \in Done
  <2> HIDE DEF Done
  <2> QED BY <1>1, <1>5, <1>6, NatStepInduction
<1>8. Small(Cardinality(S)) = SUBSET S
    BY <1>1, FS_Subset
<1> QED BY <1>7, <1>8

\* The greatest element of a finite set of numbers
LEMMA GreatestExists ==
  ASSUME NEW S \in SUBSET Nat, IsFiniteSet(S), S # {}
  PROVE  Max(S) \in S /\ \A x \in S : x <= Max(S)
<1> DEFINE G == {s \in SUBSET S : s # {} => \E x \in s : \A y \in s : y <= x}
<1>1. ASSUME NEW s \in SUBSET S, \A t \in SUBSET s : t # s => t \in G PROVE s \in G
  <2>1. SUFFICES ASSUME s # {} PROVE \E x \in s : \A y \in s : y <= x
      OBVIOUS
  <2>2. PICK z \in s : TRUE
      BY <2>1
  <2>3. CASE s = {z}
      BY <2>3
  <2>4. CASE s # {z}
    <3>1. s \ {z} # {} /\ s \ {z} \in G
        BY <1>1, <2>2, <2>4
    <3>2. PICK x \in s \ {z} : \A y \in s \ {z} : y <= x
        BY <3>1
    <3>3. x \in Nat /\ z \in Nat
        BY <2>2, <3>2
    <3>4. CASE z <= x
        BY <3>2, <3>4
    <3>5. CASE x < z
        BY <2>2, <3>2, <3>5
    <3> QED BY <3>3, <3>4, <3>5
  <2> QED BY <2>3, <2>4
<1>2. S \in G
  <2> HIDE DEF G
  <2> QED BY <1>1, SetInduction
<1>3. \E x \in S : \A y \in S : x >= y
    BY <1>2
<1> QED BY <1>3 DEF Max

\* The n nearest peers are known by this: nobody nearer is left out, and there are n
\* of them, or all.
LEMMA NearestIs ==
  ASSUME NEW S \in SUBSET Nat, IsFiniteSet(S), NEW n \in Nat, NEW T \in SUBSET S,
         \A x \in T, q \in S : q < x => q \in T,
         Cardinality(T) <= n,
         Cardinality(T) = n \/ T = S
  PROVE  T = Nearest(n, S)
<1> DEFINE Below(x) == {q \in S : q < x}
<1>1. \A x \in S : IsFiniteSet(Below(x)) /\ Cardinality(Below(x)) \in Nat
    BY FS_Subset, FS_CardinalityType
<1>2. IsFiniteSet(T) /\ Cardinality(T) \in Nat
    BY FS_Subset, FS_CardinalityType
<1>3. ASSUME NEW x \in T PROVE Cardinality(Below(x)) < n
  <2>1. \A q \in Below(x) : q \in T /\ q # x
      BY <1>3
  <2>2. IsFiniteSet(T \ {x}) /\ Cardinality(T \ {x}) = Cardinality(T) - 1
      BY <1>2, FS_RemoveElement
  <2>3. Cardinality(Below(x)) <= Cardinality(T \ {x})
      BY <2>1, <2>2, FS_Subset
  <2> HIDE DEF Below
  <2> QED BY <1>1, <1>2, <2>2, <2>3
<1>4. ASSUME NEW x \in S \ T PROVE ~(Cardinality(Below(x)) < n)
  <2>1. Cardinality(T) = n
      BY <1>4
  <2>2. T \subseteq Below(x)
      OBVIOUS
  <2>3. Cardinality(T) <= Cardinality(Below(x))
      BY <1>1, <2>2, FS_Subset
  <2> HIDE DEF Below
  <2> QED BY <1>1, <2>1, <2>3
<1> QED BY <1>3, <1>4 DEF Nearest

\* Nearest is what its name says.
LEMMA NearestFacts ==
  ASSUME NEW S \in SUBSET Nat, IsFiniteSet(S), NEW n \in Nat \ {0}
  PROVE  LET T == Nearest(n, S) IN
         /\ T \subseteq S /\ IsFiniteSet(T) /\ Cardinality(T) \in Nat
         /\ \A x \in T, q \in S : q < x => q \in T
         /\ Cardinality(T) <= n
         /\ Cardinality(T) = n \/ T = S
<1> DEFINE Below(x) == {q \in S : q < x}
<1> DEFINE T == Nearest(n, S)
<1>1. \A x \in S : IsFiniteSet(Below(x)) /\ Cardinality(Below(x)) \in Nat
    BY FS_Subset, FS_CardinalityType
<1>2. T \subseteq S /\ \A x \in S : x \in T <=> Cardinality(Below(x)) < n
    BY DEF Nearest
<1> HIDE DEF T
<1>3. IsFiniteSet(T) /\ Cardinality(T) \in Nat
    BY <1>2, FS_Subset, FS_CardinalityType
<1>4. ASSUME NEW x \in T, NEW q \in S, q < x PROVE q \in T
  <2>1. ASSUME NEW r \in Below(q) PROVE r \in Below(x)
      BY <1>2, <1>4, r \in Nat, q \in Nat, x \in Nat
  <2>2. Cardinality(Below(q)) <= Cardinality(Below(x))
      BY <1>1, <1>2, <2>1, FS_Subset
  <2> HIDE DEF Below
  <2> QED BY <1>1, <1>2, <2>2
<1>5. Cardinality(T) <= n
  <2>1. CASE T = {}
      BY <2>1, FS_EmptySet
  <2>2. CASE T # {}
    <3>1. PICK m \in T : \A x \in T : x <= m
        BY <1>2, <1>3, <2>2, GreatestExists
    <3>2. T \ {m} \subseteq Below(m)
        BY <1>2, <3>1
    <3>3. Cardinality(T \ {m}) <= Cardinality(Below(m))
        BY <1>1, <1>2, <3>2, FS_Subset
    <3>4. Cardinality(T \ {m}) = Cardinality(T) - 1
        BY <1>3, FS_RemoveElement
    <3> HIDE DEF Below
    <3> QED BY <1>1, <1>2, <1>3, <3>3, <3>4
  <2> QED BY <2>1, <2>2
<1>6. Cardinality(T) = n \/ T = S
  <2>1. SUFFICES ASSUME T # S PROVE Cardinality(T) >= n
      BY <1>3, <1>5
  <2>2. PICK x \in S \ T : \A y \in S \ T : x <= y
      BY <1>2, <2>1, LeastNat
  <2>3. ASSUME NEW q \in Below(x) PROVE q \in T
      BY <2>2, q \in Nat, x \in Nat
  <2>4. Cardinality(Below(x)) <= Cardinality(T)
      BY <1>3, <2>3, FS_Subset
  <2> HIDE DEF Below
  <2> QED BY <1>1, <1>2, <1>3, <2>4
<1> QED BY <1>2, <1>3, <1>4, <1>5, <1>6 DEF T

\* A heap that is cut at its size loses nothing by forgetting the rest: addToHeaps of
\* dht/finder-actor.cpp keeps the n nearest of all the peers it was given.
LEMMA AddToNearest ==
  ASSUME NEW H \in SUBSET Nat, IsFiniteSet(H), NEW p \in Nat, NEW n \in Nat \ {0}
  PROVE  AddTo(Nearest(n, H), p, n) = Nearest(n, H \cup {p})
<1> DEFINE L == Nearest(n, H)
<1> DEFINE K == H \cup {p}
<1> DEFINE U == L \cup {p}
<1>1. /\ L \subseteq H /\ IsFiniteSet(L) /\ Cardinality(L) \in Nat
      /\ \A x \in L, q \in H : q < x => q \in L
      /\ Cardinality(L) <= n /\ (Cardinality(L) = n \/ L = H)
    BY NearestFacts
<1> HIDE DEF L
<1>2. IsFiniteSet(K) /\ K \in SUBSET Nat
    BY FS_AddElement
<1>3. IsFiniteSet(U) /\ U \in SUBSET K
      /\ Cardinality(U) = IF p \in L THEN Cardinality(L) ELSE Cardinality(L) + 1
    BY <1>1, FS_AddElement
<1>4. CASE Cardinality(U) <= n
  <2>1. U = K \/ (U = L /\ K = H /\ Cardinality(U) = n)
      BY <1>1, <1>3, <1>4
  <2>2. \A x \in U, q \in K : q < x => q \in U
      BY <1>1, <2>1
  <2>3. Cardinality(U) = n \/ U = K
      BY <2>1
  <2>4. U = Nearest(n, K)
    <3> HIDE DEF U, K
    <3> QED BY <1>2, <1>3, <1>4, <2>2, <2>3, NearestIs
  <2>5. ~(Cardinality(U) > n)
      BY <1>1, <1>3, <1>4
  <2>6. AddTo(L, p, n) = U
      BY <2>5 DEF AddTo
  <2> QED BY <2>4, <2>6 DEF L
<1>5. CASE Cardinality(U) > n
  <2>1. p \notin L /\ Cardinality(L) = n /\ Cardinality(U) = n + 1
      BY <1>1, <1>3, <1>5
  <2> DEFINE m == Max(U)
  <2>2. m \in U /\ \A x \in U : x <= m
      BY <1>1, <1>3, GreatestExists
  <2> HIDE DEF m
  <2> DEFINE T == U \ {m}
  <2>3. Cardinality(T) = n
      BY <1>3, <2>1, <2>2, FS_RemoveElement
  <2>4. ASSUME NEW x \in T, NEW q \in K, q < x PROVE q \in T
    <3>1. x \in Nat /\ q \in Nat /\ m \in Nat /\ x <= m /\ q # m
        BY <1>1, <2>2, <2>4
    <3>2. q \in U
      <4>1. CASE q = p
          BY <4>1
      <4>2. CASE q \in H /\ x \in L
          BY <1>1, <2>4, <4>2
      <4>3. CASE q \in H /\ x = p
        <5>1. m \in L /\ q < m
            BY <2>2, <2>4, <3>1, <4>3
        <5> QED BY <1>1, <4>3, <5>1
      <4> QED BY <4>1, <4>2, <4>3
    <3> QED BY <3>1, <3>2
  <2>5. T \in SUBSET K
      BY <1>3
  <2>6. T = Nearest(n, K)
    <3> HIDE DEF T, K
    <3> QED BY <1>2, <2>3, <2>4, <2>5, NearestIs
  <2> QED BY <1>5, <2>6 DEF AddTo, Farthest, L, m
<1> QED BY <1>1, <1>3, <1>4, <1>5

\* The same of a whole answer, one peer after the other in any order
LEMMA AddAllNearest ==
  ASSUME NEW H \in SUBSET Nat, IsFiniteSet(H), NEW S \in SUBSET Nat, IsFiniteSet(S),
         NEW n \in Nat \ {0}
  PROVE  AddAll(Nearest(n, H), S, n) = Nearest(n, H \cup S)
<1> DEFINE base == Nearest(n, H)
<1> DEFINE pick(s) == CHOOSE x \in s : TRUE
<1> DEFINE Eq(g) == g = [s \in SUBSET S |-> IF s = {} THEN base
                                            ELSE AddTo(g[s \ {pick(s)}], pick(s), n)]
<1> DEFINE f == CHOOSE g : Eq(g)
<1>1. AddAll(base, S, n) = f[S]
    BY DEF AddAll, FoldSet, MapThenFoldSet
<1>2. base \in SUBSET Nat
    BY DEF Nearest
<1>3. \A s \in SUBSET S : s # {} => pick(s) \in s
    OBVIOUS
<1>4. \E g : Eq(g)
  <2> DEFINE V == SUBSET Nat
  <2> DEFINE op == [z \in S \X V |-> AddTo(z[2], z[1], n)]
  <2> DEFINE choice == [s \in SUBSET S |-> pick(s)]
  <2>1. op \in [S \X V -> V]
      BY DEF AddTo
  <2>2. Chooses(choice, S)
      BY <1>3 DEF Chooses
  <2> HIDE DEF op, choice, V, base
  <2>3. base \in V
      BY <1>2 DEF V
  <2>4. PICK g \in [SUBSET S -> V] : IsFold(g, base, op, choice, S)
      BY <2>1, <2>2, <2>3, FoldExists
  <2>5. ASSUME NEW s \in SUBSET S, s # {}
        PROVE  op[<<choice[s], g[s \ {choice[s]}]>>] = AddTo(g[s \ {pick(s)}], pick(s), n)
    <3>1. choice[s] = pick(s) /\ pick(s) \in S /\ g[s \ {pick(s)}] \in V
        BY <1>3, <2>4, <2>5 DEF choice
    <3> QED BY <3>1 DEF op
  <2>6. Eq(g)
    <3> HIDE DEF pick
    <3> QED BY <2>4, <2>5 DEF IsFold
  <2> QED BY <2>6
<1>5. Eq(f)
    BY <1>4
<1> HIDE DEF f, base
<1> DEFINE G == {s \in SUBSET S : f[s] = Nearest(n, H \cup s)}
<1>6. ASSUME NEW s \in SUBSET S, \A t \in SUBSET s : t # s => t \in G PROVE s \in G
  <2>1. CASE s = {}
      BY <1>5, <2>1 DEF base
  <2>2. CASE s # {}
    <3>1. PICK x \in s : x = pick(s)
        BY <1>3, <2>2
    <3>2. s \ {x} \in G
        BY <1>6
    <3>3. f[s] = AddTo(Nearest(n, H \cup (s \ {x})), x, n)
        BY <1>5, <2>2, <3>1, <3>2
    <3>4. IsFiniteSet(H \cup (s \ {x})) /\ H \cup (s \ {x}) \in SUBSET Nat /\ x \in Nat
        BY FS_Subset, FS_Union
    <3>5. f[s] = Nearest(n, (H \cup (s \ {x})) \cup {x})
        BY <3>3, <3>4, AddToNearest
    <3>6. (H \cup (s \ {x})) \cup {x} = H \cup s
        OBVIOUS
    <3> QED BY <3>5, <3>6
  <2> QED BY <2>1, <2>2
<1>7. S \in G
  <2> HIDE DEF G
  <2> QED BY <1>6, SetInduction
<1> QED BY <1>1, <1>7 DEF base

\* Before the search starts nothing is sent, registered or reported.
LEMMA FinderInvInit == Init => FinderInv
  BY DEF Init, FinderInv, TypeOK, EndInv, QueryInv, NoStaleConnection

-----------------------------------------------------------------------------
(* What the handlers are built from *)

\* After one query is resolved, at most one is sent, which becomes one of queries
\* and one of registered; if none is sent the search may end.
LEMMA RespondInv ==
  ASSUME FinderInv, actor = "alive", NEW p, Respond(p),
         heard' \subseteq Peers, inbox' \subseteq inbox, deadline' = deadline
  PROVE  FinderInv'
<1> USE DEF FinderInv
<1>1. PICK S : SendTo(S, ForgetId(p)) /\ queries' = (queries \ {p}) \cup S
  <2>1. CASE \E q \in Fresh : SendTo({q}, ForgetId(p)) /\ queries' = (queries \ {p}) \cup {q}
      BY <2>1
  <2>2. CASE SendTo({}, ForgetId(p)) /\ queries' = queries \ {p}
      BY <2>2
  <2> QED BY <2>1, <2>2 DEF Respond
<1>2. \/ UNCHANGED <<actor, calls, outcome>>
      \/ Finish("found")
    BY DEF Respond
<1>3. EndInv'
    BY <1>2 DEF EndInv, Finish, Killed
<1>4. QueryInv'
  <2>1. registered = queries /\ actor' # "deleted"
      BY <1>2 DEF QueryInv, NoStaleConnection, Finish, Killed
  <2> QED BY <1>1, <2>1 DEF QueryInv, NoStaleConnection, SendTo, ForgetId
<1>5. TypeOK'
  <2>1. contactedPeers \subseteq contactedPeers'
      BY <1>1 DEF SendTo
  <2>2. network' \subseteq contactedPeers' /\ timers' \subseteq contactedPeers'
      BY <1>1 DEF SendTo, TypeOK
  <2>3. inbox' \subseteq Messages'
      BY <2>1 DEF TypeOK, Messages
  <2>4. actor' \in {"alive", "killed"} /\ calls' \in Nat /\ outcome' \in {"none", "found", "error"}
      BY <1>2 DEF TypeOK, Finish, Killed
  <2> QED BY <2>2, <2>3, <2>4 DEF TypeOK
<1> QED BY <1>3, <1>4, <1>5

\* What is posted is about a peer that was contacted.
LEMMA PostToInv ==
  ASSUME FinderInv, NEW m \in Messages, PostTo(m),
         network' \subseteq network, timers' \subseteq timers, deadline' \in BOOLEAN,
         UNCHANGED <<actor, search, queries, registered, calls, outcome>>
  PROVE  FinderInv'
<1> USE DEF FinderInv, search
<1>1. inbox' \subseteq Messages'
    BY DEF TypeOK, PostTo, Messages
<1>2. TypeOK'
    BY <1>1 DEF TypeOK
<1>3. EndInv' /\ QueryInv'
    BY DEF EndInv, QueryInv, NoStaleConnection
<1> QED BY <1>2, <1>3

-----------------------------------------------------------------------------
(* The actions *)

\* start() sends a query to each peer of the shortlist, of an actor that had none.
LEMMA StartInv ==
  ASSUME FinderInv, NEW S \in SUBSET Peers, Start(S)
  PROVE  FinderInv'
<1> USE DEF FinderInv, Start
<1>1. heard' \subseteq Peers
    BY DEF TypeOK, Learn
<1>2. contactedPeers = {} /\ registered = queries /\ queries = {}
    BY DEF EndInv, QueryInv, NoStaleConnection
<1>3. contactedPeers' = shortlist' /\ registered' = shortlist' /\ queries' = shortlist'
    BY <1>2 DEF SendTo
<1>4. inbox' = inbox /\ inbox \subseteq {Deadline}
    BY <1>2 DEF TypeOK, Messages
<1>5. network' \subseteq contactedPeers' /\ timers' \subseteq contactedPeers'
    BY <1>2 DEF SendTo, TypeOK
<1>6. TypeOK'
    BY <1>1, <1>4, <1>5 DEF TypeOK, Messages
<1>7. EndInv' /\ QueryInv'
    BY <1>3 DEF EndInv, QueryInv, NoStaleConnection
<1> QED BY <1>6, <1>7

\* An answer counts only for a query whose flag is true.
LEMMA TreatAnswerInv ==
  ASSUME FinderInv, NEW m \in inbox, TreatAnswer(m)
  PROVE  FinderInv'
<1> USE DEF FinderInv, TreatAnswer, Treat
<1>1. m.peers \subseteq Peers
    BY DEF TypeOK, Messages, Answer, Timeout, Deadline, Answers
<1>2. CASE Learn(m.peers) /\ Respond(m.query)
  <2>1. heard' \subseteq Peers /\ inbox' \subseteq inbox /\ deadline' = deadline
      BY <1>1, <1>2 DEF Learn, TypeOK
  <2> QED BY <1>2, <2>1, RespondInv
<1>3. CASE UNCHANGED <<actor, search, queries, registered, network, timers, calls, outcome>>
  <2>1. TypeOK'
      BY <1>3 DEF TypeOK, Messages, search
  <2>2. EndInv' /\ QueryInv'
      BY <1>3 DEF EndInv, QueryInv, NoStaleConnection, search
  <2> QED BY <2>1, <2>2
<1> QED BY <1>2, <1>3

\* A timeout counts whatever the flag, also for a query that was answered.
LEMMA TreatTimeoutInv ==
  ASSUME FinderInv, NEW m \in inbox, TreatTimeout(m)
  PROVE  FinderInv'
<1>1. heard' \subseteq Peers /\ inbox' \subseteq inbox /\ deadline' = deadline
    BY DEF FinderInv, TreatTimeout, Treat, Learn, TypeOK
<1> QED BY <1>1, RespondInv DEF TreatTimeout, Treat

\* The deadline of the search reports an error to the end of it.
LEMMA TreatDeadlineInv ==
  ASSUME FinderInv, NEW m \in inbox, TreatDeadline(m)
  PROVE  FinderInv'
<1> USE DEF FinderInv, TreatDeadline, Treat, Finish, Killed, search
<1>1. TypeOK'
    BY DEF TypeOK, Messages
<1>2. EndInv' /\ QueryInv'
    BY DEF EndInv, QueryInv, NoStaleConnection
<1> QED BY <1>1, <1>2

\* The destructor unregisters every id the search ever used.
LEMMA DeleteInv ==
  ASSUME FinderInv, Delete
  PROVE  FinderInv'
<1> USE DEF FinderInv, Delete, search
<1>1. TypeOK'
    BY DEF TypeOK, Messages
<1>2. EndInv' /\ QueryInv'
    BY DEF EndInv, QueryInv, NoStaleConnection
<1> QED BY <1>1, <1>2

\* An answer that finds its connection id is posted to the actor.
LEMMA ArriveInv ==
  ASSUME FinderInv, NEW p \in Peers, NEW S \in Answers, Arrive(p, S)
  PROVE  FinderInv'
<1> USE DEF FinderInv, Arrive
<1>1. Answer(p, S) \in Messages /\ deadline' \in BOOLEAN
    BY DEF TypeOK, Messages
<1>2. CASE PostTo(Answer(p, S))
    BY <1>1, <1>2, PostToInv
<1>3. CASE UNCHANGED inbox
  <2>1. TypeOK'
      BY <1>3 DEF TypeOK, Messages, search
  <2>2. EndInv' /\ QueryInv'
      BY <1>3 DEF EndInv, QueryInv, NoStaleConnection, search
  <2> QED BY <2>1, <2>2
<1> QED BY <1>2, <1>3

\* The timeout of a request answers in its place, or does nothing.
LEMMA FireTimerInv ==
  ASSUME FinderInv, NEW p \in Peers, FireTimer(p)
  PROVE  FinderInv'
<1>1. Timeout(p) \in Messages /\ deadline' \in BOOLEAN
    BY DEF FinderInv, FireTimer, TypeOK, Messages
<1> QED BY <1>1, PostToInv DEF FireTimer

\* The deadline of the search ends it.
LEMMA FireDeadlineInv ==
  ASSUME FinderInv, FireDeadline
  PROVE  FinderInv'
<1>1. Deadline \in Messages
    BY DEF Messages
<1>2. deadline' \in BOOLEAN
    BY DEF FireDeadline
<1>3. /\ PostTo(Deadline)
      /\ network' \subseteq network /\ timers' \subseteq timers
      /\ UNCHANGED <<actor, search, queries, registered, calls, outcome>>
    BY DEF FireDeadline
<1> QED BY <1>1, <1>2, <1>3, PostToInv

-----------------------------------------------------------------------------
(* The theorems *)

\* Every step of the program keeps the invariant.
LEMMA FinderInvStep == FinderInv /\ [Next]_vars => FinderInv'
<1> SUFFICES ASSUME FinderInv, [Next]_vars PROVE FinderInv'
    OBVIOUS
<1>1. CASE UNCHANGED vars
    BY <1>1 DEF vars, FinderInv, TypeOK, Messages, EndInv, QueryInv, NoStaleConnection
<1>2. CASE \E S \in SUBSET Peers : Start(S)
    BY <1>2, StartInv
<1>3. CASE Handle
    BY <1>3, TreatAnswerInv, TreatTimeoutInv, TreatDeadlineInv, DeleteInv DEF Handle
<1>4. CASE \E p \in Peers : FireTimer(p) \/ \E S \in Answers : Arrive(p, S)
    BY <1>4, FireTimerInv, ArriveInv
<1>5. CASE FireDeadline
    BY <1>5, FireDeadlineInv
<1> QED BY <1>1, <1>2, <1>3, <1>4, <1>5 DEF Next

\* The end of a search, its queries and its connection ids agree: the inductive
\* invariant.
THEOREM Typing == Spec => []FinderInv
  BY FinderInvInit, FinderInvStep, PTL DEF Spec

\* One result is reported, however answers, timeouts and the deadline cross.
THEOREM OneResultHolds == Spec => []OneResult
<1>1. FinderInv => OneResult
    BY DEF FinderInv, TypeOK, EndInv, OneResult
<1> QED BY <1>1, Typing, PTL

\* No connection id outlives its query or its actor.
THEOREM NoStaleConnectionHolds == Spec => []NoStaleConnection
<1>1. FinderInv => NoStaleConnection
    BY DEF FinderInv, QueryInv
<1> QED BY <1>1, Typing, PTL

\* An actor that was not started has heard of nobody.
LEMMA ClosestInit == Init => FoundIsClosest
<1> SUFFICES ASSUME Init PROVE FoundIsClosest
    OBVIOUS
<1>1. \A n : Nearest(n, {}) = {}
    BY DEF Nearest
<1> QED BY <1>1 DEF Init, FoundIsClosest

\* The peers of an answer go into both heaps.
LEMMA LearnClosest ==
  ASSUME FinderInv, FoundIsClosest, NEW S \in SUBSET Peers, Learn(S)
  PROVE  foundPeers' = Nearest(Count, heard') /\ shortlist' = Nearest(Parallel, heard')
<1>1. heard \in SUBSET Nat /\ IsFiniteSet(heard) /\ S \in SUBSET Nat /\ IsFiniteSet(S)
    BY PeersAssumption, FS_Subset DEF FinderInv, TypeOK
<1>2. \A n \in Nat \ {0} : AddAll(Nearest(n, heard), S, n) = Nearest(n, heard \cup S)
    BY <1>1, AddAllNearest
<1>3. Count \in Nat \ {0} /\ Parallel \in Nat \ {0}
    BY CountAssumption
<1> QED BY <1>2, <1>3 DEF Learn, FoundIsClosest

\* What an answer does after it was learned leaves the heaps alone.
LEMMA RespondClosest ==
  ASSUME FinderInv, actor = "alive", FoundIsClosest, NEW S \in SUBSET Peers, Learn(S),
         NEW p, Respond(p)
  PROVE  FoundIsClosest'
<1>1. foundPeers' = Nearest(Count, heard') /\ shortlist' = Nearest(Parallel, heard')
    BY LearnClosest
<1>2. outcome = "none"
    BY DEF FinderInv, EndInv
<1>3. outcome' = "found" => shortlist' \subseteq contactedPeers'
    BY <1>2 DEF Respond, SendTo, Fresh
<1>4. QED BY <1>1, <1>3 DEF FoundIsClosest, Nearest

\* Only answers change the heaps, and they hold the nearest again after each.
LEMMA FoundIsClosestStep == FinderInv /\ FoundIsClosest /\ [Next]_vars => FoundIsClosest'
<1> SUFFICES ASSUME FinderInv, FoundIsClosest, [Next]_vars PROVE FoundIsClosest'
    OBVIOUS
<1>1. ASSUME UNCHANGED <<foundPeers, shortlist, heard>>, contactedPeers \subseteq contactedPeers',
             outcome' = "found" => outcome = "found"
      PROVE  FoundIsClosest'
    BY <1>1 DEF FoundIsClosest, Nearest
<1>2. CASE UNCHANGED vars
    BY <1>1, <1>2 DEF vars
<1>3. ASSUME NEW S \in SUBSET Peers, Start(S) PROVE FoundIsClosest'
  <2>1. foundPeers' = Nearest(Count, heard') /\ shortlist' = Nearest(Parallel, heard')
      BY <1>3, LearnClosest DEF Start
  <2>2. outcome' # "found"
      BY <1>3 DEF Start, FinderInv, EndInv
  <2> QED BY <2>1, <2>2 DEF FoundIsClosest, Nearest
<1>4. ASSUME NEW m \in inbox, TreatAnswer(m) PROVE FoundIsClosest'
  <2>1. m.peers \in SUBSET Peers
      BY DEF FinderInv, TypeOK, Messages, Answer, Timeout, Deadline, Answers
  <2>2. CASE Learn(m.peers) /\ Respond(m.query)
      BY <1>4, <2>1, <2>2, RespondClosest DEF TreatAnswer, Treat
  <2>3. CASE UNCHANGED <<search, outcome>>
      BY <1>1, <2>3 DEF search
  <2> QED BY <1>4, <2>2, <2>3 DEF TreatAnswer
<1>5. ASSUME NEW m \in inbox, TreatTimeout(m) PROVE FoundIsClosest'
    BY <1>5, {} \in SUBSET Peers, RespondClosest DEF TreatTimeout, Treat
<1>6. ASSUME NEW m \in inbox, TreatDeadline(m) PROVE FoundIsClosest'
    BY <1>1, <1>6 DEF TreatDeadline, Finish, search
<1>7. CASE Delete
    BY <1>1, <1>7 DEF Delete, search
<1>8. ASSUME NEW p \in Peers, FireTimer(p) PROVE FoundIsClosest'
    BY <1>1, <1>8 DEF FireTimer, search
<1>9. ASSUME NEW p \in Peers, NEW S \in Answers, Arrive(p, S) PROVE FoundIsClosest'
    BY <1>1, <1>9 DEF Arrive, search
<1>10. CASE FireDeadline
    BY <1>1, <1>10 DEF FireDeadline, search
<1> QED BY <1>2, <1>3, <1>4, <1>5, <1>6, <1>7, <1>8, <1>9, <1>10 DEF Next, Handle

\* However answers come, late ones and those to a search without a timer included, the
\* peers that a search found are the nearest of those it heard of, and so are those it
\* asks next.
THEOREM FoundIsClosestHolds == Spec => []FoundIsClosest
  BY ClosestInit, FoundIsClosestStep, Typing, PTL DEF Spec

-----------------------------------------------------------------------------
(* Why a search does not need its deadline *)

\* What was asked is finite, and so is what is still awaited.
LEMMA AwaitedFinite ==
  ASSUME FinderInv, PendingInv
  PROVE  /\ IsFiniteSet(contactedPeers) /\ IsFiniteSet(Awaited)
         /\ Cardinality(Awaited) \in Nat /\ Awaited \subseteq contactedPeers
<1>1. contactedPeers \subseteq Peers /\ Awaited \subseteq contactedPeers
    BY DEF FinderInv, TypeOK, PendingInv, Awaited
<1>2. IsFiniteSet(contactedPeers)
    BY <1>1, PeersAssumption, FS_Subset
<1>3. IsFiniteSet(Awaited)
    BY <1>1, <1>2, FS_Subset
<1> QED BY <1>1, <1>2, <1>3, FS_CardinalityType

\* The peers that a search asks next are of those it was told of.
LEMMA ShortlistIsHeard ==
  ASSUME FinderInv, FoundIsClosest, NEW S \in SUBSET Peers, Learn(S)
  PROVE  /\ shortlist' \subseteq heard' /\ heard \subseteq heard'
         /\ IsFiniteSet(shortlist') /\ Cardinality(shortlist') \in Nat
<1>1. shortlist' = Nearest(Parallel, heard') /\ heard' = heard \cup S
    BY LearnClosest DEF Learn
<1>2. shortlist' \subseteq heard' /\ heard' \subseteq Peers
    BY <1>1 DEF Nearest, FinderInv, TypeOK
<1>3. IsFiniteSet(shortlist')
    BY <1>2, PeersAssumption, FS_Subset
<1> QED BY <1>1, <1>2, <1>3, FS_CardinalityType

\* start() sets a timeout for each query it counts.
LEMMA StartPending ==
  ASSUME FinderInv, FoundIsClosest, PendingInv, NEW S \in SUBSET Peers, Start(S)
  PROVE  PendingInv'
<1>1. /\ shortlist' \subseteq heard' /\ IsFiniteSet(shortlist')
      /\ Cardinality(shortlist') \in Nat
    BY ShortlistIsHeard DEF Start
<1>2. contactedPeers = {} /\ timers = {}
    BY DEF FinderInv, TypeOK, EndInv, Start
<1>3. contactedPeers' = shortlist' /\ timers' = shortlist'
    BY <1>2 DEF Start, SendTo
<1>4. Awaited' = shortlist'
    BY <1>3 DEF Awaited
<1>5. contactedPeers' # {} => Cardinality(shortlist') > 0
    BY <1>1, <1>3, FS_EmptySet
<1>6. pendingRequests' = Cardinality(shortlist')
    BY DEF Start
<1> QED BY <1>1, <1>3, <1>4, <1>5, <1>6 DEF PendingInv

\* After a query is over either another is sent, with a timeout, or one request less
\* is pending: it is enough that no other timeout is lost.
LEMMA RespondPending ==
  ASSUME FinderInv, FoundIsClosest, PendingInv, actor = "alive",
         NEW S \in SUBSET Peers, Learn(S), NEW p \in contactedPeers, Respond(p),
         \/ \A q \in contactedPeers : Timeout(q) \in inbox => Timeout(q) \in inbox'
         \/ /\ p \in Awaited
            /\ \A q \in contactedPeers \ {p} : Timeout(q) \in inbox => Timeout(q) \in inbox'
  PROVE  PendingInv'
<1> DEFINE n == Cardinality(Awaited)
<1>1. /\ pendingRequests \in Nat /\ pendingRequests > 0 /\ pendingRequests <= n
      /\ n \in Nat /\ IsFiniteSet(Awaited) /\ Awaited \subseteq contactedPeers
    BY AwaitedFinite DEF PendingInv
<1>2. shortlist' \subseteq heard' /\ heard \subseteq heard' /\ heard' \subseteq Peers
    BY ShortlistIsHeard DEF Learn, FinderInv, TypeOK
<1>3. PICK Q : /\ SendTo(Q, ForgetId(p))
               /\ \/ \E q \in Fresh : Q = {q} /\ UNCHANGED <<pendingRequests, actor>>
                  \/ /\ Q = {}
                     /\ pendingRequests' = pendingRequests - 1
                     /\ pendingRequests' = 0 => actor' = "killed"
  <2>1. CASE \E q \in Fresh : SendTo({q}, ForgetId(p)) /\ UNCHANGED <<pendingRequests, actor>>
      BY <2>1
  <2>2. CASE /\ SendTo({}, ForgetId(p)) /\ pendingRequests' = pendingRequests - 1
             /\ pendingRequests' = 0 => actor' = "killed"
      BY <2>2
  <2> QED BY <2>1, <2>2 DEF Respond, LastOne, Finish, Killed
<1>4. /\ contactedPeers' = contactedPeers \cup Q /\ timers' = timers \cup Q
      /\ Q \subseteq shortlist' /\ Q \cap contactedPeers = {}
    BY <1>3 DEF SendTo, Fresh
<1>5. contactedPeers' \subseteq heard'
    BY <1>2, <1>4 DEF PendingInv
<1>6. IsFiniteSet(Awaited')
  <2>1. contactedPeers' \subseteq Peers
      BY <1>2, <1>5
  <2>2. Awaited' \subseteq Peers
      BY <1>4, <2>1 DEF Awaited, FinderInv, TypeOK
  <2> QED BY <2>2, PeersAssumption, FS_Subset
<1>7. Cardinality(Awaited') \in Nat
    BY <1>6, FS_CardinalityType
<1>8. CASE Awaited \cup Q \subseteq Awaited'
  <2>1. n <= Cardinality(Awaited')
      BY <1>6, <1>8, FS_Subset
  <2>2. actor' = "alive" => /\ pendingRequests' \in Nat /\ pendingRequests' > 0
                            /\ pendingRequests' <= pendingRequests
      BY <1>1, <1>3
  <2> QED BY <1>1, <1>5, <1>7, <2>1, <2>2 DEF PendingInv
<1>9. CASE p \in Awaited /\ (Awaited \ {p}) \cup Q \subseteq Awaited'
  <2>1. IsFiniteSet(Awaited \ {p}) /\ Cardinality(Awaited \ {p}) = n - 1
      BY <1>1, <1>9, FS_RemoveElement
  <2>2. CASE Q = {}
    <3>1. n - 1 <= Cardinality(Awaited')
        BY <1>6, <1>9, <2>1, FS_Subset
    <3>2. pendingRequests' = pendingRequests - 1 /\ (pendingRequests' = 0 => actor' = "killed")
        BY <1>3, <2>2
    <3> QED BY <1>1, <1>5, <1>7, <3>1, <3>2 DEF PendingInv
  <2>3. CASE Q # {}
    <3>1. PICK q : Q = {q} /\ UNCHANGED <<pendingRequests, actor>>
        BY <1>3, <2>3
    <3>2. q \notin Awaited \ {p}
        BY <1>1, <1>4, <3>1
    <3>3. /\ IsFiniteSet((Awaited \ {p}) \cup {q})
          /\ Cardinality((Awaited \ {p}) \cup {q}) = n - 1 + 1
        BY <2>1, <3>2, FS_AddElement
    <3>4. n <= Cardinality(Awaited')
        BY <1>1, <1>6, <1>9, <3>1, <3>3, FS_Subset
    <3> QED BY <1>1, <1>5, <1>7, <3>1, <3>4 DEF PendingInv
  <2> QED BY <2>2, <2>3
<1> QED
  <2>1. ASSUME NEW q \in Awaited, Timeout(q) \in inbox => Timeout(q) \in inbox'
        PROVE  q \in Awaited'
      BY <1>4, <2>1 DEF Awaited
  <2>2. Q \subseteq Awaited'
      BY <1>4 DEF Awaited
  <2>3. CASE \A q \in contactedPeers : Timeout(q) \in inbox => Timeout(q) \in inbox'
      BY <1>1, <1>8, <2>1, <2>2, <2>3
  <2>4. CASE /\ p \in Awaited
             /\ \A q \in contactedPeers \ {p} : Timeout(q) \in inbox => Timeout(q) \in inbox'
      BY <1>1, <1>9, <2>1, <2>2, <2>4
  <2> QED BY <2>3, <2>4

\* No other step of a live search takes a timeout away: a timer that fires is posted.
LEMMA PendingStep == SearchInv /\ [Next]_vars => PendingInv'
<1> SUFFICES ASSUME FinderInv, FoundIsClosest, PendingInv, [Next]_vars PROVE PendingInv'
    BY DEF SearchInv
<1>1. ASSUME UNCHANGED <<contactedPeers, heard, pendingRequests>>,
             actor' = "alive" => actor = "alive" /\ Awaited' = Awaited
      PROVE  PendingInv'
    BY <1>1 DEF PendingInv
<1>2. CASE UNCHANGED vars
    BY <1>1, <1>2 DEF vars, Awaited
<1>3. ASSUME NEW S \in SUBSET Peers, Start(S) PROVE PendingInv'
    BY <1>3, StartPending
<1>4. ASSUME NEW m \in inbox, TreatAnswer(m) PROVE PendingInv'
  <2>1. m.peers \in SUBSET Peers /\ m.kind = "answer" /\ inbox' = inbox \ {m} /\ actor = "alive"
      BY <1>4 DEF FinderInv, TypeOK, Messages, Answer, Timeout, Deadline, Answers, TreatAnswer, Treat
  <2>2. \A q \in contactedPeers : Timeout(q) \in inbox <=> Timeout(q) \in inbox'
      BY <2>1 DEF Timeout
  <2>3. CASE m.query \in queries /\ Learn(m.peers) /\ Respond(m.query)
    <3>1. m.query \in contactedPeers
        BY <2>3 DEF FinderInv, QueryInv
    <3> QED BY <2>1, <2>2, <2>3, <3>1, RespondPending
  <2>4. CASE UNCHANGED <<actor, search, timers>>
      BY <1>1, <2>2, <2>4 DEF search, Awaited
  <2> QED BY <1>4, <2>3, <2>4 DEF TreatAnswer
<1>5. ASSUME NEW m \in inbox, TreatTimeout(m) PROVE PendingInv'
  <2>1. /\ m.query \in contactedPeers /\ m = Timeout(m.query)
        /\ inbox' = inbox \ {m} /\ actor = "alive"
      BY <1>5 DEF FinderInv, TypeOK, Messages, Answer, Timeout, Deadline, TreatTimeout, Treat
  <2>2. m.query \in Awaited
      BY <2>1 DEF Awaited
  <2>3. \A q \in contactedPeers \ {m.query} : Timeout(q) \in inbox => Timeout(q) \in inbox'
      BY <2>1 DEF Timeout
  <2> QED BY <1>5, <2>1, <2>2, <2>3, {} \in SUBSET Peers, RespondPending DEF TreatTimeout
<1>6. ASSUME NEW m \in inbox, TreatDeadline(m) PROVE PendingInv'
    BY <1>1, <1>6 DEF TreatDeadline, Finish, Killed, search
<1>7. CASE Delete
    BY <1>1, <1>7 DEF Delete, search
<1>8. ASSUME NEW p \in Peers, FireTimer(p) PROVE PendingInv'
  <2>1. actor = "alive" => Awaited' = Awaited
    <3> HAVE actor = "alive"
    <3>1. /\ p \in contactedPeers /\ timers' = timers \ {p} /\ inbox' = inbox \cup {Timeout(p)}
          /\ p \in timers /\ contactedPeers' = contactedPeers
        BY <1>8 DEF FireTimer, PostTo, FinderInv, TypeOK, search
    <3>2. \A q \in contactedPeers : Timeout(q) \in inbox' <=> Timeout(q) \in inbox \/ q = p
        BY <3>1 DEF Timeout
    <3> QED BY <3>1, <3>2 DEF Awaited
  <2> QED BY <1>1, <1>8, <2>1 DEF FireTimer, search
<1>9. ASSUME NEW p \in Peers, NEW S \in Answers, Arrive(p, S) PROVE PendingInv'
  <2>1. \A q : Timeout(q) \in inbox' <=> Timeout(q) \in inbox
      BY <1>9 DEF Arrive, PostTo, Timeout, Answer
  <2> QED BY <1>1, <1>9, <2>1 DEF Arrive, search, Awaited
<1>10. CASE FireDeadline
  <2>1. \A q : Timeout(q) \in inbox' <=> Timeout(q) \in inbox
      BY <1>10 DEF FireDeadline, PostTo, Timeout, Deadline
  <2> QED BY <1>1, <1>10, <2>1 DEF FireDeadline, search, Awaited
<1> QED BY <1>2, <1>3, <1>4, <1>5, <1>6, <1>7, <1>8, <1>9, <1>10 DEF Next, Handle

\* The heaps, the queries, the end of a search and what it waits for agree.
THEOREM SearchInvHolds == Spec => []SearchInv
<1>1. Init => PendingInv
    BY DEF Init, PendingInv
<1>2. SearchInv /\ [Next]_vars => SearchInv'
    BY FinderInvStep, FoundIsClosestStep, PendingStep DEF SearchInv
<1>3. Init => SearchInv
    BY <1>1, FinderInvInit, ClosestInit DEF SearchInv
<1> QED BY <1>2, <1>3, PTL DEF Spec

\* A search that asked somebody and did not end has the timeout of a query to come,
\* whatever answers were lost: the fact that SearchEnds adds fairness to.
THEOREM SearchIsNeverStuck ==
  Spec => [](actor = "alive" /\ contactedPeers # {} => Awaited # {})
<1>1. ASSUME SearchInv, actor = "alive", contactedPeers # {} PROVE Awaited # {}
  <2>1. pendingRequests \in Nat /\ pendingRequests > 0 /\ pendingRequests <= Cardinality(Awaited)
      BY <1>1 DEF SearchInv, PendingInv
  <2>2. Cardinality({}) = 0
      BY FS_EmptySet
  <2> QED BY <2>1, <2>2
<1>2. SearchInv => (actor = "alive" /\ contactedPeers # {} => Awaited # {})
    BY <1>1
<1> QED BY <1>2, SearchInvHolds, PTL

\* firstActiveBit gives the least bit that is set.
LEMMA FirstBit ==
  ASSUME NEW d \in Ids, d # {}
  PROVE  FirstActiveBit(d) \in d /\ \A j \in d : FirstActiveBit(d) <= j
<1>1. d \in SUBSET Nat
    BY LengthAssumption DEF Ids
<1>2. \E i \in d : \A j \in d : i <= j
    BY <1>1, LeastNat
<1> QED BY <1>2 DEF FirstActiveBit

\* Every id has a bucket.
LEMMA BucketOfIn ==
  ASSUME NEW id \in Ids
  PROVE  BucketOf(id) \in 0..(LENGTH - 1)
<1>1. Distance(Self, id) \in Ids
    BY SelfAssumption DEF Ids, Distance
<1>2. CASE Distance(Self, id) = {}
    BY <1>2, LengthAssumption DEF BucketOf, FirstActiveBit
<1>3. CASE Distance(Self, id) # {}
    BY <1>1, <1>3, FirstBit DEF BucketOf, Ids
<1> QED BY <1>2, <1>3

\* A bucket of TableOK
BucketOK(b, i, t) ==
  /\ b \in Seq(PeerRecords) /\ Len(b) <= NODES_PER_BUCKET
  /\ \A k \in 1..Len(b) : BucketOf(b[k].id) = i /\ b[k].lastReceiveTime <= t
  /\ \A k, l \in 1..Len(b) :
       k < l => b[k].id # b[l].id /\ b[k].lastReceiveTime <= b[l].lastReceiveTime

\* What a bucket holds
LEMMA BucketTimes ==
  ASSUME NEW b \in Seq(PeerRecords)
  PROVE  /\ Len(b) \in Nat
         /\ \A k \in 1..Len(b) : b[k] \in PeerRecords /\ b[k].lastReceiveTime \in Nat
<1>1. Len(b) \in Nat /\ \A k \in 1..Len(b) : b[k] \in PeerRecords
    OBVIOUS
<1>2. \A p \in PeerRecords : p.lastReceiveTime \in Nat
    BY DEF PeerRecords
<1> QED BY <1>1, <1>2

\* erase takes out one entry and keeps the order of the others.
LEMMA EraseFacts ==
  ASSUME NEW b \in Seq(PeerRecords), NEW k \in 1..Len(b)
  PROVE  /\ Erase(b, k) \in Seq(PeerRecords) /\ Len(Erase(b, k)) = Len(b) - 1
         /\ \A j \in 1..(Len(b) - 1) : Erase(b, k)[j] = b[IF j < k THEN j ELSE j + 1]
<1>1. \A j \in 1..(Len(b) - 1) : b[IF j < k THEN j ELSE j + 1] \in PeerRecords
    BY BucketTimes
<1>2. Len(b) - 1 \in Nat
    OBVIOUS
<1> QED BY <1>1, <1>2 DEF Erase

\* A bucket without one of its entries is a bucket.
LEMMA EraseOK ==
  ASSUME NEW i, NEW t, NEW b, BucketOK(b, i, t), NEW k \in 1..Len(b)
  PROVE  BucketOK(Erase(b, k), i, t) /\ ~Known(Erase(b, k), b[k].id)
<1> DEFINE e == Erase(b, k)
<1> DEFINE at(j) == IF j < k THEN j ELSE j + 1
<1>1. b \in Seq(PeerRecords)
    BY DEF BucketOK
<1>2. /\ e \in Seq(PeerRecords) /\ Len(e) = Len(b) - 1 /\ Len(b) \in Nat
      /\ \A j \in 1..Len(e) : e[j] = b[at(j)]
    BY <1>1, EraseFacts
<1>3. \A j \in 1..Len(e) : at(j) \in 1..Len(b) /\ at(j) # k
    BY <1>2
<1>4. \A j, l \in 1..Len(e) : j < l => at(j) < at(l)
    BY <1>2
<1> HIDE DEF e, at
<1>5. BucketOK(e, i, t)
    BY <1>2, <1>3, <1>4, LimitsAssumption DEF BucketOK
<1>6. \A j \in 1..Len(b) : j # k => b[j].id # b[k].id
    BY <1>2 DEF BucketOK
<1>7. ~Known(e, b[k].id)
    BY <1>2, <1>3, <1>6 DEF Known
<1> QED BY <1>5, <1>7 DEF e

\* A bucket without its oldest entry is a bucket.
LEMMA TailOK ==
  ASSUME NEW i, NEW t, NEW b, BucketOK(b, i, t), b # <<>>
  PROVE  /\ BucketOK(Tail(b), i, t) /\ Len(Tail(b)) = Len(b) - 1
         /\ \A j \in 1..Len(Tail(b)) : Tail(b)[j] = b[j + 1]
<1>1. b \in Seq(PeerRecords) /\ Len(b) \in Nat /\ Len(b) > 0
    BY DEF BucketOK
<1>2. /\ Tail(b) \in Seq(PeerRecords) /\ Len(Tail(b)) = Len(b) - 1
      /\ \A j \in 1..Len(Tail(b)) : Tail(b)[j] = b[j + 1]
    BY <1>1
<1>3. \A j \in 1..Len(Tail(b)) : j + 1 \in 1..Len(b)
    BY <1>1, <1>2
<1>4. BucketOK(Tail(b), i, t)
    BY <1>1, <1>2, <1>3, LimitsAssumption DEF BucketOK
<1> QED BY <1>2, <1>4

\* A peer that is not in the bucket goes to its end.
LEMMA AppendOK ==
  ASSUME NEW i, NEW t, NEW b, BucketOK(b, i, t), Len(b) < NODES_PER_BUCKET,
         NEW p \in PeerRecords, ~Known(b, p.id), BucketOf(p.id) = i, p.lastReceiveTime = t
  PROVE  BucketOK(Append(b, p), i, t)
<1> DEFINE a == Append(b, p)
<1>1. b \in Seq(PeerRecords) /\ Len(b) \in Nat /\ t \in Nat
    BY DEF BucketOK, PeerRecords
<1>2. /\ a \in Seq(PeerRecords) /\ Len(a) = Len(b) + 1 /\ a[Len(a)] = p
      /\ \A j \in 1..Len(b) : a[j] = b[j]
    BY <1>1, AppendProperties
<1> HIDE DEF a
<1>3. \A j \in 1..Len(a) : j \in 1..Len(b) \/ (j = Len(a) /\ a[j] = p)
    BY <1>1, <1>2
<1>4. Len(a) <= NODES_PER_BUCKET
    BY <1>1, <1>2, LimitsAssumption
<1>5. \A k \in 1..Len(a) : BucketOf(a[k].id) = i /\ a[k].lastReceiveTime <= t
    BY <1>1, <1>2, <1>3 DEF BucketOK
<1>6. ASSUME NEW k \in 1..Len(a), NEW l \in 1..Len(a), k < l
      PROVE  a[k].id # a[l].id /\ a[k].lastReceiveTime <= a[l].lastReceiveTime
  <2>1. k \in 1..Len(b) /\ a[k] = b[k]
      BY <1>1, <1>2, <1>6
  <2>2. CASE l \in 1..Len(b)
      BY <1>2, <1>6, <2>1, <2>2 DEF BucketOK
  <2>3. CASE l = Len(a) /\ a[l] = p
      BY <2>1, <2>3 DEF BucketOK, Known
  <2> QED BY <1>3, <2>2, <2>3
<1> QED BY <1>2, <1>4, <1>5, <1>6 DEF BucketOK, a

\* seenPeer of a bucket: the peer moves to its end, joins it, takes the place of the
\* oldest, or is left out.
LEMMA SeenOK ==
  ASSUME now \in Nat, NEW i, NEW b, BucketOK(b, i, now),
         NEW p \in PeerRecords, BucketOf(p.id) = i, p.lastReceiveTime = now
  PROVE  BucketOK(Seen(b, p), i, now)
<1>1. b \in Seq(PeerRecords) /\ Len(b) \in Nat /\ Len(b) <= NODES_PER_BUCKET
    BY DEF BucketOK
<1>2. NODES_PER_BUCKET \in Nat \ {0}
    BY LimitsAssumption
<1>3. CASE Known(b, p.id)
  <2>1. Position(b, p.id) \in 1..Len(b) /\ b[Position(b, p.id)].id = p.id
      BY <1>3 DEF Known, Position
  <2>2. PICK k \in 1..Len(b) : k = Position(b, p.id) /\ b[k].id = p.id
      BY <2>1
  <2>3. BucketOK(Erase(b, k), i, now) /\ ~Known(Erase(b, k), p.id)
      BY <2>2, EraseOK
  <2>4. Len(Erase(b, k)) < NODES_PER_BUCKET
      BY <1>1, <1>2, EraseFacts
  <2>5. BucketOK(Append(Erase(b, k), p), i, now)
      BY <2>3, <2>4, AppendOK
  <2> QED BY <1>3, <2>2, <2>5 DEF Seen
<1>4. CASE ~Known(b, p.id) /\ Len(b) < NODES_PER_BUCKET
    BY <1>4, AppendOK DEF Seen
<1>5. CASE ~Known(b, p.id) /\ ~(Len(b) < NODES_PER_BUCKET) /\ TooOld(b)
  <2>1. Len(b) = NODES_PER_BUCKET /\ b # <<>>
      BY <1>1, <1>2, <1>5
  <2>2. BucketOK(Tail(b), i, now) /\ Len(Tail(b)) < NODES_PER_BUCKET
      BY <1>1, <1>2, <2>1, TailOK
  <2>3. ~Known(Tail(b), p.id)
      BY <1>1, <1>5, <2>1, TailOK DEF Known
  <2> QED BY <1>5, <2>2, <2>3, AppendOK DEF Seen
<1>6. CASE ~Known(b, p.id) /\ ~(Len(b) < NODES_PER_BUCKET) /\ ~TooOld(b)
    BY <1>6 DEF Seen
<1> QED BY <1>3, <1>4, <1>5, <1>6

\* A bucket that a peer was offered to is not empty.
LEMMA SeenNonempty ==
  ASSUME NEW i, NEW b, BucketOK(b, i, now), NEW p \in PeerRecords
  PROVE  Seen(b, p) # <<>>
<1>1. b \in Seq(PeerRecords) /\ Len(b) \in Nat
    BY DEF BucketOK
<1>2. \A c \in Seq(PeerRecords) : Append(c, p) # <<>>
    BY AppendProperties
<1>3. CASE Known(b, p.id)
  <2>1. PICK m \in 1..Len(b) : m = Position(b, p.id)
      BY <1>3 DEF Known, Position
  <2> QED BY <1>1, <1>2, <1>3, <2>1, EraseFacts DEF Seen
<1>4. CASE ~Known(b, p.id) /\ Len(b) < NODES_PER_BUCKET
    BY <1>1, <1>2, <1>4 DEF Seen
<1>5. CASE ~Known(b, p.id) /\ ~(Len(b) < NODES_PER_BUCKET)
  <2>1. b # <<>> /\ Tail(b) \in Seq(PeerRecords)
      BY <1>1, <1>5, LimitsAssumption
  <2> QED BY <1>2, <1>5, <2>1 DEF Seen
<1> QED BY <1>3, <1>4, <1>5

\* No bucket loses a peer but for one that was silent for too long.
LEMMA SeenKeeps ==
  ASSUME now \in Nat, NEW i, NEW b, BucketOK(b, i, now),
         NEW p \in PeerRecords, NEW k \in 1..Len(b),
         ~(now - b[k].lastReceiveTime > MAX_INACTIVE_PERIOD)
  PROVE  Known(Seen(b, p), b[k].id)
<1>1. b \in Seq(PeerRecords) /\ Len(b) \in Nat /\ Len(b) <= NODES_PER_BUCKET
    BY DEF BucketOK
<1>2. \A c \in Seq(PeerRecords) :
         /\ Len(Append(c, p)) = Len(c) + 1 /\ Append(c, p)[Len(c) + 1] = p
         /\ \A j \in 1..Len(c) : Append(c, p)[j] = c[j]
    BY AppendProperties
<1>3. \A c \in Seq(PeerRecords) : Known(Append(c, p), p.id)
    BY <1>2 DEF Known
<1>4. ASSUME NEW c \in Seq(PeerRecords), NEW id, Known(c, id) PROVE Known(Append(c, p), id)
    BY <1>2, <1>4 DEF Known
<1>5. CASE Known(b, p.id)
  <2>1. Position(b, p.id) \in 1..Len(b) /\ b[Position(b, p.id)].id = p.id
      BY <1>5 DEF Known, Position
  <2>2. PICK m \in 1..Len(b) : m = Position(b, p.id) /\ b[m].id = p.id
      BY <2>1
  <2>3. /\ Erase(b, m) \in Seq(PeerRecords) /\ Len(Erase(b, m)) = Len(b) - 1
        /\ \A j \in 1..(Len(b) - 1) : Erase(b, m)[j] = b[IF j < m THEN j ELSE j + 1]
      BY <1>1, EraseFacts
  <2>4. CASE k = m
      BY <1>3, <1>5, <2>2, <2>3, <2>4 DEF Seen
  <2>5. CASE k # m
    <3> DEFINE j == IF k < m THEN k ELSE k - 1
    <3>1. j \in 1..(Len(b) - 1) /\ k = IF j < m THEN j ELSE j + 1
        BY <1>1, <2>5
    <3>2. Known(Erase(b, m), b[k].id)
        BY <2>3, <3>1 DEF Known
    <3> QED BY <1>4, <1>5, <2>2, <2>3, <3>2 DEF Seen
  <2> QED BY <2>4, <2>5
<1>6. Known(b, b[k].id)
    BY DEF Known
<1>7. CASE ~Known(b, p.id) /\ Len(b) < NODES_PER_BUCKET
    BY <1>1, <1>4, <1>6, <1>7 DEF Seen
<1>8. CASE ~Known(b, p.id) /\ ~(Len(b) < NODES_PER_BUCKET) /\ TooOld(b)
  <2>1. b # <<>> /\ Head(b) = b[1]
      BY <1>1
  <2>2. k # 1
      BY <1>8, <2>1 DEF TooOld
  <2>3. /\ Tail(b) \in Seq(PeerRecords) /\ Len(Tail(b)) = Len(b) - 1
        /\ \A j \in 1..Len(Tail(b)) : Tail(b)[j] = b[j + 1]
      BY <2>1, TailOK DEF BucketOK
  <2>4. k - 1 \in 1..Len(Tail(b)) /\ Tail(b)[k - 1] = b[k]
      BY <1>1, <2>2, <2>3
  <2>5. Known(Tail(b), b[k].id)
      BY <2>4 DEF Known
  <2> QED BY <1>4, <1>8, <2>3, <2>5 DEF Seen
<1>9. CASE ~Known(b, p.id) /\ ~(Len(b) < NODES_PER_BUCKET) /\ ~TooOld(b)
    BY <1>6, <1>9 DEF Seen
<1> QED BY <1>5, <1>7, <1>8, <1>9

-----------------------------------------------------------------------------
\* TableOK, a bucket at a time
LEMMA TableOKIs ==
  TableOK <=> /\ buckets \in [0..(LENGTH - 1) -> Seq(PeerRecords)] /\ now \in Nat
              /\ \A i \in 0..(LENGTH - 1) : BucketOK(buckets[i], i, now)
  BY DEF TableOK, TableInv, BucketOK

\* The first table is empty.
LEMMA TableInitOK == TableInit => TableOK
<1> SUFFICES ASSUME TableInit PROVE TableOK
    OBVIOUS
<1>1. BucketOK(<<>>, 0, 0) /\ \A i : BucketOK(<<>>, i, 0)
    BY LimitsAssumption DEF BucketOK
<1>2. buckets \in [0..(LENGTH - 1) -> Seq(PeerRecords)] /\ now = 0
    BY DEF TableInit
<1>3. \A i \in 0..(LENGTH - 1) : buckets[i] = <<>>
    BY DEF TableInit
<1> QED BY <1>1, <1>2, <1>3, TableOKIs

\* A packet from a peer keeps the table in order, and takes out nobody who is active.
LEMMA SeenPeerStep ==
  ASSUME TableOK, NEW id \in Ids, NEW n2npId \in N2NPIds, SeenPeer(id, n2npId)
  PROVE  /\ TableOK'
         /\ buckets'[BucketOf(id)] # <<>>
         /\ \A i \in 0..(LENGTH - 1) : buckets[i] # <<>> => buckets'[i] # <<>>
         /\ \A i \in 0..(LENGTH - 1) : \A k \in 1..Len(buckets[i]) :
              \/ now - buckets[i][k].lastReceiveTime > MAX_INACTIVE_PERIOD
              \/ Known(buckets'[i], buckets[i][k].id)
<1> DEFINE p == [id |-> id, n2npId |-> n2npId, lastReceiveTime |-> now]
<1> DEFINE c == BucketOf(id)
<1>1. /\ buckets \in [0..(LENGTH - 1) -> Seq(PeerRecords)] /\ now \in Nat
      /\ \A i \in 0..(LENGTH - 1) : BucketOK(buckets[i], i, now)
    BY TableOKIs
<1>2. p \in PeerRecords /\ BucketOf(p.id) = c /\ p.lastReceiveTime = now
    BY <1>1 DEF PeerRecords
<1>3. c \in 0..(LENGTH - 1)
    BY BucketOfIn
<1>4. buckets' = [buckets EXCEPT ![c] = Seen(@, p)] /\ now' = now
    BY DEF SeenPeer
<1> HIDE DEF p, c
<1>5. buckets'[c] = Seen(buckets[c], p)
    BY <1>1, <1>3, <1>4
<1>6. \A i \in 0..(LENGTH - 1) : i # c => buckets'[i] = buckets[i]
    BY <1>1, <1>4
<1>7. BucketOK(Seen(buckets[c], p), c, now)
    BY <1>1, <1>2, <1>3, SeenOK
<1>8. Seen(buckets[c], p) \in Seq(PeerRecords)
    BY <1>7 DEF BucketOK
<1>9. TableOK'
  <2>1. buckets' \in [0..(LENGTH - 1) -> Seq(PeerRecords)]
      BY <1>1, <1>3, <1>4, <1>8
  <2>2. \A i \in 0..(LENGTH - 1) : BucketOK(buckets'[i], i, now)
      BY <1>1, <1>5, <1>6, <1>7
  <2>3. /\ buckets' \in [0..(LENGTH - 1) -> Seq(PeerRecords)] /\ now' \in Nat
        /\ \A i \in 0..(LENGTH - 1) : BucketOK(buckets'[i], i, now')
      BY <1>1, <1>4, <2>1, <2>2
  <2> QED BY <2>3 DEF TableOK, TableInv, BucketOK
<1>10. \A i \in 0..(LENGTH - 1) : \A k \in 1..Len(buckets[i]) :
         \/ now - buckets[i][k].lastReceiveTime > MAX_INACTIVE_PERIOD
         \/ Known(buckets'[i], buckets[i][k].id)
  <2> TAKE i \in 0..(LENGTH - 1)
  <2> TAKE k \in 1..Len(buckets[i])
  <2>1. CASE i = c
      BY <1>1, <1>2, <1>3, <1>5, <2>1, SeenKeeps
  <2>2. CASE i # c
      BY <1>6, <2>2 DEF Known
  <2> QED BY <2>1, <2>2
<1>11. Seen(buckets[c], p) # <<>>
    BY <1>1, <1>2, <1>3, SeenNonempty
<1>12. \A i \in 0..(LENGTH - 1) : buckets[i] # <<>> => buckets'[i] # <<>>
    BY <1>5, <1>6, <1>11
<1> QED BY <1>5, <1>9, <1>10, <1>11, <1>12 DEF c

\* Time passes, and the times in the table are still past.
LEMMA TickOK == TableOK /\ Tick => TableOK'
<1> SUFFICES ASSUME TableOK, Tick PROVE TableOK'
    OBVIOUS
<1>1. /\ buckets \in [0..(LENGTH - 1) -> Seq(PeerRecords)] /\ now \in Nat
      /\ \A i \in 0..(LENGTH - 1) : BucketOK(buckets[i], i, now)
    BY TableOKIs
<1>2. buckets' = buckets /\ now' = now + 1
    BY DEF Tick
<1>3. ASSUME NEW i \in 0..(LENGTH - 1) PROVE BucketOK(buckets[i], i, now + 1)
  <2> DEFINE b == buckets[i]
  <2>1. BucketOK(b, i, now) /\ b \in Seq(PeerRecords)
      BY <1>1
  <2> HIDE DEF b
  <2>2. \A k \in 1..Len(b) : b[k].lastReceiveTime \in Nat
      BY <2>1, BucketTimes
  <2>3. \A k \in 1..Len(b) : b[k].lastReceiveTime <= now + 1
      BY <1>1, <2>1, <2>2 DEF BucketOK
  <2>4. BucketOK(b, i, now + 1)
      BY <2>1, <2>3 DEF BucketOK
  <2> QED BY <2>4 DEF b
<1>4. /\ buckets' \in [0..(LENGTH - 1) -> Seq(PeerRecords)] /\ now' \in Nat
      /\ \A i \in 0..(LENGTH - 1) : BucketOK(buckets'[i], i, now')
    BY <1>1, <1>2, <1>3
<1> QED BY <1>4 DEF TableOK, TableInv, BucketOK

-----------------------------------------------------------------------------
\* Less is a strict total order.
LEMMA DistanceFacts ==
  ASSUME NEW a \in Ids, NEW b \in Ids
  PROVE  /\ Distance(a, b) \in Ids /\ Distance(a, b) = Distance(b, a)
         /\ Distance(a, b) = {} <=> a = b
         /\ \A i : i \in Distance(a, b) <=> ~(i \in a <=> i \in b)
  BY DEF Ids, Distance

\* Two ids are compared one way.
LEMMA LessTotal ==
  ASSUME NEW a \in Ids, NEW b \in Ids
  PROVE  /\ a # b => Less(a, b) \/ Less(b, a)
         /\ ~(Less(a, b) /\ Less(b, a))
         /\ ~Less(a, a)
<1> DEFINE i == FirstActiveBit(Distance(a, b))
<1>1. a # b => ~(i \in a <=> i \in b)
    BY DistanceFacts, FirstBit
<1>2. FirstActiveBit(Distance(b, a)) = i
    BY DistanceFacts
<1> HIDE DEF i
<1>3. Less(a, b) <=> a # b /\ i \in b
    BY DEF Less, i
<1>4. Less(b, a) <=> a # b /\ i \in a
    BY <1>2 DEF Less
<1>5. ~Less(a, a)
    BY DEF Less
<1> QED BY <1>1, <1>3, <1>4, <1>5

\* The order of the ids is one: the first bit that differs decides.
LEMMA LessTransitive ==
  ASSUME NEW a \in Ids, NEW b \in Ids, NEW c \in Ids, Less(a, b), Less(b, c)
  PROVE  Less(a, c)
<1> DEFINE i == FirstActiveBit(Distance(a, b))
<1> DEFINE j == FirstActiveBit(Distance(b, c))
<1> DEFINE k == FirstActiveBit(Distance(a, c))
<1>1. a # b /\ b # c /\ i \in b /\ j \in c
    BY DEF Less
<1>2. /\ ~(i \in a <=> i \in b)
      /\ \A x : ~(x \in a <=> x \in b) => i <= x
    BY <1>1, DistanceFacts, FirstBit
<1>3. /\ ~(j \in b <=> j \in c)
      /\ \A x : ~(x \in b <=> x \in c) => j <= x
    BY <1>1, DistanceFacts, FirstBit
<1> HIDE DEF i, j
<1>4. i \in Nat /\ j \in Nat /\ i # j
    BY <1>1, <1>2, <1>3, LengthAssumption DEF Ids
<1>5. a # c
  <2>1. CASE i < j
      BY <1>1, <1>2, <1>3, <1>4, <2>1
  <2>2. CASE j < i
      BY <1>1, <1>2, <1>3, <1>4, <2>2
  <2> QED BY <1>4, <2>1, <2>2
<1>6. /\ ~(k \in a <=> k \in c)
      /\ \A x : ~(x \in a <=> x \in c) => k <= x
    BY <1>5, DistanceFacts, FirstBit
<1> HIDE DEF k
<1>7. k \in Nat
  <2>1. a \subseteq Nat /\ c \subseteq Nat
      BY LengthAssumption DEF Ids
  <2>2. k \in a \/ k \in c
      BY <1>6
  <2> QED BY <2>1, <2>2
<1>8. k \in c
  <2>1. CASE i < j
    <3>1. i \in c /\ i \notin a
        BY <1>1, <1>2, <1>3, <1>4, <2>1
    <3>2. k <= i
        BY <1>6, <3>1
    <3>3. k < i => (k \in a <=> k \in c)
        BY <1>2, <1>3, <1>4, <1>7, <2>1
    <3> QED BY <1>4, <1>6, <1>7, <3>1, <3>2, <3>3
  <2>2. CASE j < i
    <3>1. j \in c /\ j \notin a
        BY <1>1, <1>2, <1>3, <1>4, <2>2
    <3>2. k <= j
        BY <1>6, <3>1
    <3>3. k < j => (k \in a <=> k \in c)
        BY <1>2, <1>3, <1>4, <1>7, <2>2
    <3> QED BY <1>4, <1>6, <1>7, <3>1, <3>2, <3>3
  <2> QED BY <1>4, <2>1, <2>2
<1> QED BY <1>5, <1>8 DEF Less, k

\* The peers with different ids are ordered by how far they are.
Distinct(S) == \A p, q \in S : p.id = q.id => p = q

\* Being farther from an id orders the peers that are told apart by their ids.
LEMMA FartherOrder ==
  ASSUME NEW id \in Ids, NEW S \in SUBSET PeerRecords, Distinct(S)
  PROVE  /\ \A p, q \in S : p # q => Farther(id, p, q) \/ Farther(id, q, p)
         /\ \A p, q \in S : ~(Farther(id, p, q) /\ Farther(id, q, p))
         /\ \A p \in S : ~Farther(id, p, p)
         /\ \A p, q, r \in S : Farther(id, p, q) /\ Farther(id, q, r) => Farther(id, p, r)
<1>1. \A p \in S : p.id \in Ids /\ Distance(id, p.id) \in Ids
  <2> TAKE p \in S
  <2>1. p.id \in Ids
      BY DEF PeerRecords
  <2> QED BY <2>1, DistanceFacts
<1>2. ASSUME NEW p \in S, NEW q \in S, p # q PROVE Distance(id, p.id) # Distance(id, q.id)
  <2>1. p.id # q.id
      BY <1>2 DEF Distinct
  <2> QED BY <1>1, <2>1 DEF Distance
<1>3. ASSUME NEW p \in S, NEW q \in S PROVE
        /\ p # q => Farther(id, p, q) \/ Farther(id, q, p)
        /\ ~(Farther(id, p, q) /\ Farther(id, q, p))
        /\ ~Farther(id, p, p)
    BY <1>1, <1>2, LessTotal DEF Farther
<1>4. ASSUME NEW p \in S, NEW q \in S, NEW r \in S, Farther(id, p, q), Farther(id, q, r)
      PROVE  Farther(id, p, r)
    BY <1>1, <1>4, LessTransitive DEF Farther
<1> QED BY <1>3, <1>4

\* The top of the heap is the farthest of its peers.
LEMMA TopExists ==
  ASSUME NEW id \in Ids, NEW S \in SUBSET PeerRecords, Distinct(S), IsFiniteSet(S), S # {}
  PROVE  Top(id, S) \in S /\ \A q \in S \ {Top(id, S)} : Farther(id, Top(id, S), q)
<1> DEFINE G == {s \in SUBSET S : s # {} => \E p \in s : \A q \in s \ {p} : Farther(id, p, q)}
<1>1. ASSUME NEW s \in SUBSET S, \A t \in SUBSET s : t # s => t \in G PROVE s \in G
  <2>1. SUFFICES ASSUME s # {} PROVE \E p \in s : \A q \in s \ {p} : Farther(id, p, q)
      OBVIOUS
  <2>2. PICK z \in s : TRUE
      BY <2>1
  <2>3. CASE s = {z}
      BY <2>3
  <2>4. CASE s # {z}
    <3>1. s \ {z} # {} /\ s \ {z} \in G
        BY <1>1, <2>2, <2>4
    <3>2. PICK p \in s \ {z} : \A q \in (s \ {z}) \ {p} : Farther(id, p, q)
        BY <3>1
    <3>3. p \in S /\ z \in S /\ p # z
        BY <2>2, <3>2
    <3>4. CASE Farther(id, p, z)
        BY <3>2, <3>4
    <3>5. CASE Farther(id, z, p)
      <4>1. \A q \in s \ {z} : q # p => Farther(id, z, q)
        <5>1. \A a, b, c \in S : Farther(id, a, b) /\ Farther(id, b, c) => Farther(id, a, c)
            BY FartherOrder
        <5> QED BY <3>2, <3>3, <3>5, <5>1
      <4> QED BY <2>2, <3>5, <4>1
    <3>6. Farther(id, p, z) \/ Farther(id, z, p)
        BY <3>3, FartherOrder
    <3> QED BY <3>4, <3>5, <3>6
  <2> QED BY <2>3, <2>4
<1>2. S \in G
  <2> HIDE DEF G
  <2> QED BY <1>1, SetInduction
<1>3. \E p \in S : \A q \in S \ {p} : Farther(id, p, q)
    BY <1>2
<1> QED BY <1>3 DEF Top

-----------------------------------------------------------------------------
\* findNearestNodes after the peers of seen: as many of them as fit, and nobody
\* left out is nearer than one of them.
NearestOf(id, n, seen, queue) ==
  /\ queue \subseteq seen
  /\ Cardinality(queue) = IF Cardinality(seen) < n THEN Cardinality(seen) ELSE n
  /\ \A q \in queue, r \in seen \ queue : Farther(id, r, q)

\* One more peer offered to the queue of findNearestNodes
LEMMA OfferNearest ==
  ASSUME NEW id \in Ids, NEW n \in Nat \ {0}, NEW seen \in SUBSET PeerRecords,
         IsFiniteSet(seen), NEW p \in PeerRecords \ seen, Distinct(seen \cup {p}),
         NEW queue, NearestOf(id, n, seen, queue)
  PROVE  NearestOf(id, n, seen \cup {p}, Offer(id, n, p, queue))
<1> DEFINE both == seen \cup {p}
<1>1. both \in SUBSET PeerRecords /\ queue \subseteq both /\ p \notin queue /\ Distinct(queue)
    BY DEF NearestOf, Distinct
<1>2. IsFiniteSet(seen) /\ Cardinality(seen) \in Nat /\ Cardinality(both) = Cardinality(seen) + 1
    BY FS_CardinalityType, FS_AddElement
<1>3. IsFiniteSet(queue) /\ Cardinality(queue) \in Nat /\ Cardinality(queue) <= n
      /\ (Cardinality(seen) < n => queue = seen)
  <2>1. queue \subseteq seen
      BY DEF NearestOf
  <2>2. IsFiniteSet(queue) /\ Cardinality(queue) \in Nat
        /\ (Cardinality(seen) = Cardinality(queue) => queue = seen)
      BY <1>2, <2>1, FS_Subset, FS_CardinalityType
  <2> QED BY <1>2, <2>2 DEF NearestOf
<1>4. \A a, b, c \in both : Farther(id, a, b) /\ Farther(id, b, c) => Farther(id, a, c)
    BY <1>1, FartherOrder
<1>5. \A a, b \in both : a # b => Farther(id, a, b) \/ Farther(id, b, a)
    BY <1>1, FartherOrder
<1>6. \A q \in queue, r \in seen \ queue : Farther(id, r, q)
    BY DEF NearestOf
<1>7. CASE Cardinality(queue) < n
  <2>1. Cardinality(seen) < n /\ queue = seen
      BY <1>2, <1>3, <1>7 DEF NearestOf
  <2>2. ~(Cardinality(queue) >= n)
      BY <1>3, <1>7
  <2>3. Offer(id, n, p, queue) = both
      BY <1>7, <2>1, <2>2 DEF Offer
  <2>4. Cardinality(both) = IF Cardinality(both) < n THEN Cardinality(both) ELSE n
      BY <1>2, <2>1
  <2> HIDE DEF both
  <2> QED BY <2>3, <2>4 DEF NearestOf, both
<1>8. CASE Cardinality(queue) = n
  <2>1. queue # {} /\ Cardinality(seen) >= n
      BY <1>2, <1>3, <1>8, FS_EmptySet DEF NearestOf
  <2>2. n = IF Cardinality(both) < n THEN Cardinality(both) ELSE n
      BY <1>2, <2>1
  <2> DEFINE t == Top(id, queue)
  <2>3. t \in queue /\ \A q \in queue \ {t} : Farther(id, t, q)
      BY <1>1, <1>3, <2>1, TopExists
  <2> HIDE DEF both
  <2>4. CASE Replaces(id, p, t)
    <3>1. Cardinality(queue \ {t}) = n - 1 /\ IsFiniteSet(queue \ {t})
        BY <1>3, <1>8, <2>3, FS_RemoveElement
    <3>2. Offer(id, n, p, queue) = (queue \ {t}) \cup {p}
        BY <1>8, <2>4, <3>1 DEF Offer
    <3>3. Cardinality((queue \ {t}) \cup {p}) = n
      <4>1. p \notin queue \ {t}
          BY <1>1
      <4>2. Cardinality((queue \ {t}) \cup {p}) = Cardinality(queue \ {t}) + 1
          BY <3>1, <4>1, FS_AddElement
      <4> QED BY <3>1, <4>2
    <3>4. ASSUME NEW q \in (queue \ {t}) \cup {p}, NEW r \in both \ ((queue \ {t}) \cup {p})
          PROVE  Farther(id, r, q)
      <4>1. r \in seen /\ r \in both /\ q \in both /\ t \in both
          BY <1>1, <2>3 DEF both
      <4>2. Farther(id, t, p)
          BY <2>4 DEF Replaces
      <4>3. Farther(id, t, q)
          BY <2>3, <4>2
      <4>4. r = t \/ Farther(id, r, t)
          BY <1>6, <2>3, <4>1
      <4> QED BY <1>4, <4>1, <4>3, <4>4
    <3>5. (queue \ {t}) \cup {p} \subseteq both
        BY <1>1 DEF both
    <3> QED BY <2>2, <3>2, <3>3, <3>4, <3>5 DEF NearestOf, both
  <2>5. CASE ~Replaces(id, p, t)
    <3>1. Offer(id, n, p, queue) = queue
        BY <1>8, <2>5 DEF Offer
    <3>2. ASSUME NEW q \in queue, NEW r \in both \ queue PROVE Farther(id, r, q)
      <4>1. q \in both /\ t \in both /\ p \in both /\ t # p
          BY <1>1, <2>3 DEF both
      <4>2. Farther(id, p, t)
          BY <1>5, <2>5, <4>1 DEF Replaces
      <4>3. Farther(id, p, q)
          BY <1>4, <2>3, <4>1, <4>2
      <4>4. r = p \/ r \in seen \ queue
          BY DEF both
      <4> QED BY <1>6, <4>3, <4>4
    <3> QED BY <1>1, <1>8, <2>2, <3>1, <3>2 DEF NearestOf, both
  <2> QED BY <2>4, <2>5
<1> QED BY <1>3, <1>7, <1>8

-----------------------------------------------------------------------------
\* The greatest of the first k positions, where FoldLeft takes the next element
LEMMA MaxOfPrefix ==
  ASSUME NEW k \in Nat \ {0}
  PROVE  Max(1..k) = k /\ (1..k) \ {k} = 1..(k - 1)
<1>1. 1..k \in SUBSET Nat /\ IsFiniteSet(1..k) /\ k \in 1..k
    BY FS_Interval
<1>2. Max(1..k) \in 1..k /\ \A x \in 1..k : x <= Max(1..k)
    BY <1>1, GreatestExists
<1>3. Max(1..k) <= k /\ k <= Max(1..k)
    BY <1>1, <1>2
<1> QED BY <1>2, <1>3

\* The choice of a fold that takes the last index first
LEMMA MaxChooses ==
  ASSUME NEW n \in Nat
  PROVE  /\ IsFiniteSet(1..n)
         /\ \A s \in SUBSET (1..n) : s # {} => Max(s) \in s
<1>1. IsFiniteSet(1..n)
    BY FS_Interval
<1>2. ASSUME NEW s \in SUBSET (1..n), s # {} PROVE Max(s) \in s
  <2>1. IsFiniteSet(s)
      BY <1>1, FS_Subset
  <2>2. s \in SUBSET Nat
      OBVIOUS
  <2> QED BY <1>2, <2>1, <2>2, GreatestExists
<1> QED BY <1>1, <1>2

\* FlattenSeq puts one sequence after the other.
Flattens(f, seqs, n) ==
  /\ FlattenSeq(seqs) = f[n] /\ f[1] = seqs[1]
  /\ \A i \in 2..n : f[i] = f[i - 1] \o seqs[i]

\* What FlattenSeq computes, a sequence at a time
LEMMA FlattenSteps ==
  ASSUME NEW R, NEW n \in Nat \ {0}, NEW seqs \in [1..n -> Seq(R)]
  PROVE  \E f \in [1..n -> Seq(R)] : Flattens(f, seqs, n)
<1> DEFINE Eq(g) == g = [i \in 1..n |-> IF i = 1 THEN seqs[i] ELSE g[i - 1] \o seqs[i]]
<1>1. Len(seqs) = n /\ seqs \in Seq(Seq(R))
    OBVIOUS
<1>2. FlattenSeq(seqs) = (CHOOSE g : Eq(g))[n]
    BY <1>1 DEF FlattenSeq
<1>3. \E g \in [1..n -> Seq(R)] : Eq(g)
  <2> DEFINE V == Seq(R)
  <2> DEFINE base == <<>>
  <2> DEFINE op == [z \in (1..n) \X V |-> z[2] \o seqs[z[1]]]
  <2> DEFINE choice == [s \in SUBSET (1..n) |-> Max(s)]
  <2>1. op \in [(1..n) \X V -> V] /\ base \in V
      OBVIOUS
  <2>2. Chooses(choice, 1..n) /\ IsFiniteSet(1..n)
      BY MaxChooses DEF Chooses
  <2>3. \A i \in 1..n : \A v \in V : op[<<i, v>>] = v \o seqs[i]
      OBVIOUS
  <2>4. \A i \in 1..n : choice[1..i] = i /\ (1..i) \ {i} = 1..(i - 1)
      BY MaxOfPrefix
  <2>5. \A v \in V : base \o v = v
      OBVIOUS
  <2> HIDE DEF V, base, op, choice
  <2>6. PICK h \in [SUBSET (1..n) -> V] : IsFold(h, base, op, choice, 1..n)
      BY <2>1, <2>2, FoldExists
  <2> DEFINE g == [i \in 1..n |-> h[1..i]]
  <2>7. \A i \in 1..n : h[1..i] \in V /\ h[1..i] = h[1..(i - 1)] \o seqs[i]
    <3> TAKE i \in 1..n
    <3>1. 1..i \in SUBSET (1..n) /\ 1..(i - 1) \in SUBSET (1..n) /\ 1..i # {}
      <4>1. \A x \in 1..i : x \in 1..n
          OBVIOUS
      <4>2. \A x \in 1..(i - 1) : x \in 1..n
          OBVIOUS
      <4>3. i \in 1..i
          OBVIOUS
      <4> QED BY <4>1, <4>2, <4>3
    <3>2. h[1..i] = op[<<i, h[1..(i - 1)]>>]
        BY <2>4, <2>6, <3>1 DEF IsFold
    <3> QED BY <2>3, <2>6, <3>1, <3>2
  <2>8. h[1..0] = base
      BY <2>6, 1..0 = {} DEF IsFold
  <2>9. seqs[1] \in V
      BY DEF V
  <2>10. g \in [1..n -> V] /\ Eq(g)
    <3>1. h[1..1] = seqs[1]
      <4>1. h[1..1] = h[1..(1 - 1)] \o seqs[1]
          BY <2>7, 1 \in 1..n
      <4>2. 1..(1 - 1) = 1..0
          OBVIOUS
      <4> QED BY <2>5, <2>8, <2>9, <4>1, <4>2
    <3>2. \A i \in 1..n : i # 1 => i - 1 \in 1..n
        OBVIOUS
    <3> QED BY <2>7, <3>1, <3>2
  <2> HIDE DEF g
  <2> QED BY <2>10 DEF V
<1>4. PICK f : f = CHOOSE g : Eq(g)
    OBVIOUS
<1>5. Eq(f)
    BY <1>3, <1>4
<1>6. f = [i \in 1..n |-> f[i]] /\ f[1] = seqs[1]
      /\ \A i \in 2..n : f[i] = f[i - 1] \o seqs[i]
  <2>1. f = [i \in 1..n |-> f[i]]
      BY <1>5
  <2>2. \A i \in 1..n : f[i] = IF i = 1 THEN seqs[i] ELSE f[i - 1] \o seqs[i]
      BY <1>5
  <2>3. 1 \in 1..n /\ \A i \in 2..n : i \in 1..n /\ i # 1
      OBVIOUS
  <2> QED BY <2>1, <2>2, <2>3
<1>7. \A i \in 1..n : f[i] \in Seq(R)
  <2> DEFINE G == {i \in Nat : i + 1 \in 1..n => f[i + 1] \in Seq(R)}
  <2>1. 0 \in G
      BY <1>6
  <2>2. ASSUME NEW i \in Nat, i \in G PROVE i + 1 \in G
    <3>1. SUFFICES ASSUME (i + 1) + 1 \in 1..n PROVE f[(i + 1) + 1] \in Seq(R)
        OBVIOUS
    <3>2. i + 1 \in 1..n /\ (i + 1) + 1 \in 2..n /\ ((i + 1) + 1) - 1 = i + 1
        BY <3>1
    <3>3. f[(i + 1) + 1] = f[i + 1] \o seqs[(i + 1) + 1]
        BY <1>6, <3>2
    <3> QED BY <2>2, <3>1, <3>2, <3>3
  <2>3. \A i \in Nat : i \in G
    <3> HIDE DEF G
    <3> QED BY <2>1, <2>2, NatStepInduction
  <2>4. ASSUME NEW i \in 1..n PROVE f[i] \in Seq(R)
    <3>1. i - 1 \in Nat /\ (i - 1) + 1 = i
        OBVIOUS
    <3> QED BY <2>3, <3>1
  <2> QED BY <2>4
<1>8. f \in [1..n -> Seq(R)]
    BY <1>6, <1>7
<1> QED BY <1>2, <1>4, <1>6, <1>8 DEF Flattens

\* The peers of all buckets come one after the other, each once.
LEMMA AllPeersFacts ==
  ASSUME TableOK
  PROVE  /\ AllPeers \in Seq(PeerRecords)
         /\ \A k, l \in 1..Len(AllPeers) : k # l => AllPeers[k].id # AllPeers[l].id
         /\ \A i \in 0..(LENGTH - 1) : \A k \in 1..Len(buckets[i]) :
              \E j \in 1..Len(AllPeers) : AllPeers[j] = buckets[i][k]
<1> DEFINE seqs == [i \in 1..LENGTH |-> buckets[i - 1]]
<1>1. /\ buckets \in [0..(LENGTH - 1) -> Seq(PeerRecords)] /\ now \in Nat
      /\ \A i \in 0..(LENGTH - 1) : BucketOK(buckets[i], i, now)
    BY TableOKIs
<1>2. LENGTH \in Nat \ {0}
    BY LengthAssumption
<1>3. /\ seqs \in [1..LENGTH -> Seq(PeerRecords)]
      /\ \A i \in 1..LENGTH : seqs[i] = buckets[i - 1] /\ BucketOK(seqs[i], i - 1, now)
    BY <1>1, <1>2
<1>4. AllPeers = FlattenSeq(seqs)
    BY DEF AllPeers
<1> HIDE DEF seqs
<1>5. PICK f \in [1..LENGTH -> Seq(PeerRecords)] :
         /\ FlattenSeq(seqs) = f[LENGTH] /\ f[1] = seqs[1]
         /\ \A i \in 2..LENGTH : f[i] = f[i - 1] \o seqs[i]
  <2>1. \E f \in [1..LENGTH -> Seq(PeerRecords)] : Flattens(f, seqs, LENGTH)
      BY <1>2, <1>3, FlattenSteps
  <2> QED BY <2>1 DEF Flattens
<1> DEFINE Good(m) ==
      /\ \A k \in 1..Len(f[m]) : BucketOf(f[m][k].id) <= m - 1
      /\ \A k, l \in 1..Len(f[m]) : k # l => f[m][k].id # f[m][l].id
      /\ \A i \in 1..m : \A k \in 1..Len(seqs[i]) : \E j \in 1..Len(f[m]) : f[m][j] = seqs[i][k]
<1>6. ASSUME NEW i \in 1..LENGTH
      PROVE  /\ seqs[i] \in Seq(PeerRecords)
             /\ \A k \in 1..Len(seqs[i]) : BucketOf(seqs[i][k].id) = i - 1
             /\ \A k, l \in 1..Len(seqs[i]) : k # l => seqs[i][k].id # seqs[i][l].id
  <2>1. BucketOK(seqs[i], i - 1, now)
      BY <1>3
  <2>2. \A k, l \in 1..Len(seqs[i]) : k # l => k < l \/ l < k
      OBVIOUS
  <2> QED BY <2>1, <2>2 DEF BucketOK
<1>7. Good(1)
  <2>1. 1 \in 1..LENGTH
      BY <1>2
  <2> QED BY <1>5, <1>6, <2>1
<1>8. ASSUME NEW m \in 1..LENGTH, m + 1 \in 1..LENGTH, Good(m) PROVE Good(m + 1)
  <2>1. m + 1 \in 2..LENGTH /\ (m + 1) - 1 = m
      BY <1>8
  <2> DEFINE a == f[m]
  <2> DEFINE b == seqs[m + 1]
  <2> DEFINE c == f[m + 1]
  <2>2. c = a \o b
      BY <1>5, <2>1
  <2>3. a \in Seq(PeerRecords) /\ b \in Seq(PeerRecords)
      BY <1>3, <1>5, <1>8
  <2>4. /\ \A k \in 1..Len(a) : BucketOf(a[k].id) <= m - 1
        /\ \A k, l \in 1..Len(a) : k # l => a[k].id # a[l].id
        /\ \A i \in 1..m : \A k \in 1..Len(seqs[i]) : \E j \in 1..Len(a) : a[j] = seqs[i][k]
      BY <1>8
  <2>5. /\ \A k \in 1..Len(b) : BucketOf(b[k].id) = m
        /\ \A k, l \in 1..Len(b) : k # l => b[k].id # b[l].id
      BY <1>6, <1>8, <2>1
  <2> HIDE DEF a, b, c
  <2>6. Len(c) = Len(a) + Len(b) /\ Len(a) \in Nat /\ Len(b) \in Nat
      BY <2>2, <2>3
  <2>7. /\ \A k \in 1..Len(a) : k \in 1..Len(c) /\ c[k] = a[k]
        /\ \A k \in 1..Len(b) : Len(a) + k \in 1..Len(c) /\ c[Len(a) + k] = b[k]
      BY <2>2, <2>3
  <2>8. ASSUME NEW k \in 1..Len(c), k \notin 1..Len(a)
        PROVE  k - Len(a) \in 1..Len(b) /\ c[k] = b[k - Len(a)]
      BY <2>2, <2>3, <2>6, <2>8
  <2>9. \A k \in 1..Len(c) : BucketOf(c[k].id) <= m
    <3> TAKE k \in 1..Len(c)
    <3>1. CASE k \in 1..Len(a)
      <4>1. BucketOf(a[k].id) <= m - 1 /\ a[k].id \in Ids
          BY <2>3, <2>4, <3>1, BucketTimes DEF PeerRecords
      <4>2. BucketOf(a[k].id) \in Int
          BY <4>1, BucketOfIn
      <4> QED BY <2>7, <3>1, <4>1, <4>2
    <3>2. CASE k \notin 1..Len(a)
        BY <2>5, <2>8, <3>2
    <3> QED BY <3>1, <3>2
  <2>10. ASSUME NEW k \in 1..Len(a), NEW l \in 1..Len(b) PROVE a[k].id # b[l].id
    <3>1. BucketOf(a[k].id) <= m - 1 /\ BucketOf(b[l].id) = m
        BY <2>4, <2>5
    <3> QED BY <3>1
  <2>11. \A k, l \in 1..Len(c) : k # l => c[k].id # c[l].id
    <3> TAKE k, l \in 1..Len(c)
    <3> HAVE k # l
    <3>1. CASE k \in 1..Len(a) /\ l \in 1..Len(a)
        BY <2>4, <2>7, <3>1
    <3>2. CASE k \in 1..Len(a) /\ l \notin 1..Len(a)
      <4>1. l - Len(a) \in 1..Len(b) /\ c[l] = b[l - Len(a)] /\ c[k] = a[k]
          BY <2>7, <2>8, <3>2
      <4> QED BY <2>10, <3>2, <4>1
    <3>3. CASE k \notin 1..Len(a) /\ l \in 1..Len(a)
      <4>1. k - Len(a) \in 1..Len(b) /\ c[k] = b[k - Len(a)] /\ c[l] = a[l]
          BY <2>7, <2>8, <3>3
      <4> QED BY <2>10, <3>3, <4>1
    <3>4. CASE k \notin 1..Len(a) /\ l \notin 1..Len(a)
      <4>1. k - Len(a) \in 1..Len(b) /\ l - Len(a) \in 1..Len(b) /\ k - Len(a) # l - Len(a)
            /\ c[k] = b[k - Len(a)] /\ c[l] = b[l - Len(a)]
          BY <2>6, <2>8, <3>4
      <4> QED BY <2>5, <4>1
    <3> QED BY <3>1, <3>2, <3>3, <3>4
  <2>12. \A i \in 1..(m + 1) : \A k \in 1..Len(seqs[i]) : \E j \in 1..Len(c) : c[j] = seqs[i][k]
    <3> TAKE i \in 1..(m + 1)
    <3> TAKE k \in 1..Len(seqs[i])
    <3>1. CASE i = m + 1
        BY <2>7, <3>1 DEF b
    <3>2. CASE i \in 1..m
      <4>1. PICK j \in 1..Len(a) : a[j] = seqs[i][k]
          BY <2>4, <3>2
      <4>2. j \in 1..Len(c) /\ c[j] = a[j]
          BY <2>7
      <4> QED BY <4>1, <4>2
    <3>3. m \in Nat
        BY <1>8, <1>2
    <3> QED BY <3>1, <3>2, <3>3
  <2> QED BY <2>1, <2>9, <2>11, <2>12 DEF c
<1>9. Good(LENGTH)
  <2> DEFINE G == {i \in Nat : i + 1 \in 1..LENGTH => Good(i + 1)}
  <2> HIDE DEF Good
  <2>1. 0 \in G
      BY <1>7
  <2>2. ASSUME NEW i \in Nat, i \in G PROVE i + 1 \in G
    <3>1. SUFFICES ASSUME (i + 1) + 1 \in 1..LENGTH PROVE Good((i + 1) + 1)
        OBVIOUS
    <3>2. i + 1 \in 1..LENGTH
        BY <1>2, <3>1
    <3>3. Good(i + 1)
        BY <2>2, <3>2
    <3> QED BY <1>8, <3>1, <3>2, <3>3
  <2>3. \A i \in Nat : i \in G
    <3> HIDE DEF G
    <3> QED BY <2>1, <2>2, NatStepInduction
  <2>4. LENGTH - 1 \in Nat /\ (LENGTH - 1) + 1 = LENGTH /\ LENGTH \in 1..LENGTH
      BY <1>2
  <2> QED BY <2>3, <2>4
<1>10. AllPeers = f[LENGTH] /\ LENGTH \in 1..LENGTH
    BY <1>2, <1>4, <1>5
<1>11. ASSUME NEW i \in 0..(LENGTH - 1), NEW k \in 1..Len(buckets[i])
       PROVE  \E j \in 1..Len(AllPeers) : AllPeers[j] = buckets[i][k]
  <2>1. i + 1 \in 1..LENGTH /\ seqs[i + 1] = buckets[i]
      BY <1>2, <1>3
  <2>2. \A h \in 1..LENGTH : \A m \in 1..Len(seqs[h]) :
          \E j \in 1..Len(f[LENGTH]) : f[LENGTH][j] = seqs[h][m]
      BY <1>9
  <2> HIDE DEF Good
  <2> QED BY <1>10, <2>1, <2>2
<1> QED BY <1>5, <1>9, <1>10, <1>11

\* findNearestNodes gives as many peers as it can, and the nearest ones.
LEMMA FindIsNearest ==
  ASSUME TableOK, NEW id \in Ids, NEW n \in Nat \ {0}
  PROVE  /\ NearestOf(id, n, Range(AllPeers), FindNearestNodes(id, n))
         /\ Range(AllPeers) \in SUBSET PeerRecords /\ Distinct(Range(AllPeers))
         /\ IsFiniteSet(Range(AllPeers))
<1>1. PICK seq \in Seq(PeerRecords) :
         /\ seq = AllPeers
         /\ \A k, l \in 1..Len(seq) : k # l => seq[k].id # seq[l].id
    BY AllPeersFacts
<1> DEFINE N == Len(seq)
<1> DEFINE Eq(g) == g = [s \in SUBSET (1..N) |->
                           IF s = {} THEN {} ELSE Offer(id, n, seq[Max(s)], g[s \ {Max(s)}])]
<1>2. DOMAIN seq = 1..N /\ N \in Nat /\ \A k \in 1..N : seq[k] \in PeerRecords
    BY <1>1
<1>3. FindNearestNodes(id, n) = (CHOOSE g : Eq(g))[1..N]
    BY <1>1, <1>2 DEF FindNearestNodes, FoldLeft, MapThenFoldSet
<1> HIDE DEF N
<1>4. \E g : Eq(g)
  <2> DEFINE V == SUBSET PeerRecords
  <2> DEFINE op == [z \in (1..N) \X V |-> Offer(id, n, seq[z[1]], z[2])]
  <2> DEFINE choice == [s \in SUBSET (1..N) |-> Max(s)]
  <2>1. op \in [(1..N) \X V -> V]
      BY <1>2 DEF Offer
  <2>2. Chooses(choice, 1..N) /\ IsFiniteSet(1..N)
      BY <1>2, MaxChooses DEF Chooses
  <2>3. {} \in V
      OBVIOUS
  <2> HIDE DEF V, op, choice
  <2>4. PICK g \in [SUBSET (1..N) -> V] : IsFold(g, {}, op, choice, 1..N)
      BY <2>1, <2>2, <2>3, FoldExists
  <2>5. ASSUME NEW s \in SUBSET (1..N), s # {}
        PROVE  op[<<choice[s], g[s \ {choice[s]}]>>] = Offer(id, n, seq[Max(s)], g[s \ {Max(s)}])
    <3>1. choice[s] = Max(s) /\ Max(s) \in 1..N /\ g[s \ {Max(s)}] \in V
        BY <2>2, <2>4, <2>5 DEF choice, Chooses
    <3> QED BY <3>1 DEF op
  <2>6. Eq(g)
      BY <2>4, <2>5 DEF IsFold
  <2> QED BY <2>6
<1>5. PICK f : f = CHOOSE g : Eq(g)
    OBVIOUS
<1>6. Eq(f)
    BY <1>4, <1>5
<1> DEFINE seen(k) == {seq[j] : j \in 1..k}
<1> DEFINE Q(k) == f[1..k]
<1>7. ASSUME NEW k \in 0..N PROVE 1..k \in SUBSET (1..N)
  <2>1. \A j \in 1..k : j \in 1..N
      BY <1>2
  <2> QED BY <2>1
<1>8. Q(0) = {}
    BY <1>6, <1>7, 1..0 = {}
<1>9. \A k \in 1..N : Q(k) = Offer(id, n, seq[k], Q(k - 1))
  <2> TAKE k \in 1..N
  <2>1. 1..k \in SUBSET (1..N) /\ k \in 1..k /\ Max(1..k) = k /\ (1..k) \ {k} = 1..(k - 1)
      BY <1>7, MaxOfPrefix
  <2> QED BY <1>6, <2>1
<1>10. \A k \in 0..N : seen(k) \in SUBSET PeerRecords
    BY <1>2, <1>7
<1>11. \A k \in 1..N : seq[k] \notin seen(k - 1) /\ seen(k) = seen(k - 1) \cup {seq[k]}
  <2> TAKE k \in 1..N
  <2>1. \A j \in 1..(k - 1) : j \in 1..N /\ j # k /\ j \in 1..k
      BY <1>2
  <2>2. seq[k] \notin seen(k - 1)
      BY <1>1, <2>1 DEF N
  <2>3. \A j \in 1..k : j \in 1..(k - 1) \/ j = k
      OBVIOUS
  <2> QED BY <2>1, <2>2, <2>3
<1>12. \A k \in 0..N : Distinct(seen(k))
    BY <1>1, <1>7 DEF Distinct, N
<1> DEFINE G == {k \in Nat : k \in 0..N => IsFiniteSet(seen(k)) /\ NearestOf(id, n, seen(k), Q(k))}
<1> HIDE DEF Q, seen
<1>13. seen(0) = {}
    BY DEF seen
<1>14. 0 \in G
  <2>1. NearestOf(id, n, {}, {})
      BY FS_EmptySet DEF NearestOf
  <2> QED BY <1>8, <1>13, <2>1, FS_EmptySet
<1>15. ASSUME NEW k \in Nat, k \in G PROVE k + 1 \in G
  <2>1. SUFFICES ASSUME k + 1 \in 0..N 
                PROVE  IsFiniteSet(seen(k + 1)) /\ NearestOf(id, n, seen(k + 1), Q(k + 1))
      OBVIOUS
  <2>2. k \in 0..N /\ k + 1 \in 1..N /\ (k + 1) - 1 = k
      BY <1>2, <2>1
  <2>3. seq[k + 1] \in PeerRecords \ seen(k) /\ seen(k + 1) = seen(k) \cup {seq[k + 1]}
      BY <1>2, <1>11, <2>2
  <2>4. Q(k + 1) = Offer(id, n, seq[k + 1], Q(k)) /\ NearestOf(id, n, seen(k), Q(k))
      BY <1>9, <1>15, <2>2
  <2>5. /\ Distinct(seen(k) \cup {seq[k + 1]})
        /\ IsFiniteSet(seen(k)) /\ seen(k) \in SUBSET PeerRecords
      BY <1>10, <1>12, <1>15, <2>1, <2>2, <2>3
  <2>6. IsFiniteSet(seen(k + 1))
      BY <2>3, <2>5, FS_AddElement
  <2> QED BY <2>3, <2>4, <2>5, <2>6, OfferNearest
<1>16. N \in G
  <2> HIDE DEF G
  <2> QED BY <1>2, <1>14, <1>15, NatStepInduction
<1>17. Range(AllPeers) = seen(N)
    BY <1>1, <1>2 DEF Range, seen
<1>18. FindNearestNodes(id, n) = Q(N)
    BY <1>3, <1>5 DEF Q
<1>19. N \in 0..N
    BY <1>2
<1> QED BY <1>10, <1>12, <1>16, <1>17, <1>18, <1>19, <1>2

-----------------------------------------------------------------------------
(* The node: what is in the pool finds somebody in the table *)

\* A node starts with an empty table and nothing sent.
LEMMA DhtInitInv == DhtInit => DhtInv
<1> SUFFICES ASSUME DhtInit PROVE DhtInv
    OBVIOUS
<1>1. TableOK
    BY TableInitOK DEF DhtInit
<1>2. AnswersAreReadable
    BY DEF DhtInit, AnswersAreReadable, Readable
<1>3. waiting = {}
    BY DEF DhtInit
<1> QED BY <1>1, <1>2, <1>3 DEF DhtInv, FindsFindPeers

\* Whoever sent the packet is in the table, or the bucket it belongs to is full.
LEMMA ProcessPacketInv ==
  ASSUME DhtInv, NEW p \in Finds \cup Rest, ProcessPacket(p)
  PROVE  DhtInv'
<1>1. p.from \in Ids /\ Address[p.from] \in N2NPIds
  <2>1. p.from \in Others
      BY DEF Finds, Rest
  <2> QED BY <2>1, OthersAssumption
<1>2. SeenPeer(p.from, Address[p.from])
    BY DEF ProcessPacket, SeenSender
<1>3. TableOK' /\ buckets'[BucketOf(p.from)] # <<>>
    BY <1>1, <1>2, SeenPeerStep DEF DhtInv
<1>4. FindsFindPeers'
    BY <1>1, <1>3, BucketOfIn DEF FindsFindPeers
<1>5. waiting' \subseteq {q \in Finds \cup Rest : q.method \in RequestMethods}
    BY DEF ProcessPacket, DhtInv
<1>6. AnswersAreReadable'
    BY DEF ProcessPacket, DhtInv, AnswersAreReadable
<1> QED BY <1>3, <1>4, <1>5, <1>6 DEF DhtInv

\* The search in a table that is not empty finds somebody.
LEMMA FindFindsSomebody ==
  ASSUME TableOK, NEW id \in Ids, NEW n \in Nat \ {0},
         NEW i \in 0..(LENGTH - 1), buckets[i] # <<>>
  PROVE  FindNearestNodes(id, n) # {}
<1> DEFINE near == FindNearestNodes(id, n)
<1> DEFINE all == Range(AllPeers)
<1>1. NearestOf(id, n, all, near) /\ IsFiniteSet(all)
    BY FindIsNearest
<1>2. all # {}
  <2>1. buckets[i] \in Seq(PeerRecords)
      BY DEF TableOK
  <2>2. 1 \in 1..Len(buckets[i])
      BY <2>1
  <2>3. PICK j \in 1..Len(AllPeers) : AllPeers[j] = buckets[i][1]
      BY <2>2, AllPeersFacts
  <2>4. AllPeers \in Seq(PeerRecords)
      BY AllPeersFacts
  <2> QED BY <2>3, <2>4 DEF Range
<1> HIDE DEF near, all
<1>3. Cardinality(all) \in Nat /\ Cardinality(all) # 0
    BY <1>1, <1>2, FS_CardinalityType, FS_EmptySet
<1>4. Cardinality(near) # 0
    BY <1>1, <1>3 DEF NearestOf
<1>5. near # {}
    BY <1>4, FS_EmptySet
<1> QED BY <1>5 DEF near

\* A request is answered from a table that knows at least its sender.
LEMMA TreatRequestInv ==
  ASSUME DhtInv, NEW p \in waiting, TreatRequest(p)
  PROVE  DhtInv'
<1>1. buckets' = buckets /\ now' = now /\ waiting' = waiting \ {p}
    BY DEF TreatRequest, tableVars
<1>2. TableOK'
    BY <1>1 DEF DhtInv, TableOK, TableInv
<1>3. FindsFindPeers'
    BY <1>1 DEF DhtInv, FindsFindPeers
<1>4. AnswersAreReadable'
  <2>1. p \in Finds \cup Rest /\ p.method \in RequestMethods
      BY DEF DhtInv
  <2>2. CASE p.method = "FIND"
    <3>1. p \in Finds
        BY <2>1, <2>2 DEF Rest
    <3>2. p.target \in Ids /\ p.count \in Nat \ {0}
        BY <3>1, FindsAssumption DEF Finds
    <3>3. PICK i \in 0..(LENGTH - 1) : buckets[i] # <<>>
        BY DEF DhtInv, FindsFindPeers
    <3>4. FindNearestNodes(p.target, p.count) # {}
        BY <3>2, <3>3, FindFindsSomebody DEF DhtInv
    <3>5. answer'.peers = {q.id : q \in FindNearestNodes(p.target, p.count)}
        BY <2>2 DEF TreatRequest
    <3>6. answer'.peers # {}
        BY <3>4, <3>5
    <3> QED BY <3>6 DEF AnswersAreReadable, Readable
  <2>3. CASE p.method # "FIND"
    <3>1. answer'.method # "FOUND"
        BY <2>1, <2>3 DEF TreatRequest, AnswerTo, RequestMethods
    <3> QED BY <3>1 DEF AnswersAreReadable, Readable
  <2> QED BY <2>2, <2>3
<1> QED BY <1>1, <1>2, <1>3, <1>4 DEF DhtInv

\* Time passes, within the bound of the model.
LEMMA WaitInv == DhtInv /\ Wait => DhtInv'
<1> SUFFICES ASSUME DhtInv, Wait PROVE DhtInv'
    OBVIOUS
<1>1. TableOK'
    BY TickOK DEF DhtInv, Wait
<1>2. buckets' = buckets /\ waiting' = waiting /\ answer' = answer
    BY DEF Wait, Tick
<1> QED BY <1>1, <1>2 DEF DhtInv, FindsFindPeers, AnswersAreReadable

\* The table is in order as long as nobody touches it.
LEMMA TableStays == UNCHANGED tableVars => (TableOK' <=> TableOK)
  BY DEF tableVars, TableOK, TableInv

\* Every step of the node keeps the invariant.
LEMMA DhtNextInv == DhtInv /\ [DhtNext]_nodeVars => DhtInv'
<1> SUFFICES ASSUME DhtInv, [DhtNext]_nodeVars PROVE DhtInv'
    OBVIOUS
<1>1. ASSUME NEW p \in Finds \cup Rest, ProcessPacket(p) PROVE DhtInv'
    BY <1>1, ProcessPacketInv
<1>2. ASSUME NEW p \in waiting, TreatRequest(p) PROVE DhtInv'
    BY <1>2, TreatRequestInv
<1>3. CASE UNCHANGED <<tableVars, waiting, answer>>
  <2>1. TableOK'
      BY <1>3, TableStays DEF DhtInv
  <2>2. FindsFindPeers' /\ AnswersAreReadable'
      BY <1>3 DEF DhtInv, FindsFindPeers, AnswersAreReadable, tableVars
  <2> QED BY <1>3, <2>1, <2>2 DEF DhtInv
<1>4. CASE Terminate
    BY <1>3, <1>4 DEF Terminate
<1>5. CASE UNCHANGED nodeVars
    BY <1>3, <1>5 DEF nodeVars
<1>6. CASE Wait
    BY <1>6, WaitInv
<1> QED BY <1>1, <1>2, <1>4, <1>5, <1>6 DEF DhtNext

\* Always: the table is in order, what waits in the pool finds somebody in it, and
\* the last answer sent can be read.
THEOREM DhtInvHolds == DhtSpec => []DhtInv
<1>1. DhtInit => DhtInv
    BY DhtInitInv
<1>2. DhtInv /\ [DhtNext]_nodeVars => DhtInv'
    BY DhtNextInv
<1> QED BY <1>1, <1>2, PTL DEF DhtSpec

\* Every peer is in the bucket of its distance, once, and the front of a bucket is
\* the peer heard of the longest ago: seenPeer of dht/kbucket.cpp.
THEOREM TableInvHolds == DhtSpec => []TableInv
<1>1. DhtInv => TableInv
    BY DEF DhtInv, TableOK
<1> QED BY <1>1, DhtInvHolds, PTL

\* No answer of the static actors is a FOUND without a body, which the Packet
\* constructor of the node that receives it would throw on.
THEOREM AnswersAreReadableHolds == DhtSpec => []AnswersAreReadable
<1>1. DhtInv => AnswersAreReadable
    BY DEF DhtInv
<1> QED BY <1>1, DhtInvHolds, PTL

\* findNearestNodes of dht/kbucket.cpp answers with the nearest of all the peers, for
\* every table, target and count.
LEMMA TableOKNearest == TableOK => NearestAreNearest
<1> SUFFICES ASSUME TableOK PROVE NearestAreNearest
    OBVIOUS
<1> DEFINE all == Range(AllPeers)
<1>1. IsFiniteSet(all) /\ \A id \in Ids, n \in Nat \ {0} :
        NearestOf(id, n, all, FindNearestNodes(id, n))
  <2>1. {} \in Ids /\ 1 \in Nat \ {0}
      BY DEF Ids
  <2> QED BY <2>1, FindIsNearest
<1> HIDE DEF all
<1>2. ASSUME NEW n \in 1..Cardinality(all), NEW id \in Ids, NEW near,
             NearestOf(id, n, all, near)
      PROVE  /\ near \subseteq all /\ Cardinality(near) = n
             /\ \A p \in near, q \in all \ near : Farther(id, q, p)
  <2>1. Cardinality(all) \in Nat
      BY <1>1, FS_CardinalityType
  <2>2. ~(Cardinality(all) < n)
      BY <2>1
  <2> QED BY <1>2, <2>2 DEF NearestOf
<1>3. \A n \in 1..Cardinality(all) : n \in Nat \ {0}
    OBVIOUS
<1> QED BY <1>1, <1>2, <1>3 DEF NearestAreNearest, all

\* findNearestNodes of dht/kbucket.cpp gives as many peers as it is asked for, if the
\* table has as many, and nobody it leaves out is nearer.
THEOREM NearestAreNearestHolds == DhtSpec => []NearestAreNearest
<1>1. DhtInv => NearestAreNearest
    BY TableOKNearest DEF DhtInv
<1> QED BY <1>1, DhtInvHolds, PTL

\* A packet takes no peer out of the table that was heard of recently.
LEMMA SeenPeerKeepsActive ==
  ASSUME TableOK, NEW id \in Ids, NEW n2npId \in N2NPIds, SeenPeer(id, n2npId),
         NEW i \in 0..(LENGTH - 1), NEW p \in Range(buckets[i]), ~InTable(p.id)'
  PROVE  now - p.lastReceiveTime > MAX_INACTIVE_PERIOD
<1>1. buckets[i] \in Seq(PeerRecords)
    BY DEF TableOK
<1>2. PICK k \in 1..Len(buckets[i]) : p = buckets[i][k]
    BY <1>1 DEF Range
<1>3. \/ now - buckets[i][k].lastReceiveTime > MAX_INACTIVE_PERIOD
      \/ Known(buckets'[i], buckets[i][k].id)
    BY SeenPeerStep
<1> QED BY <1>2, <1>3 DEF InTable

\* seenPeer of dht/kbucket.cpp replaces nobody who was heard of within
\* MAX_INACTIVE_PERIOD.
THEOREM ActiveStaysHolds == DhtSpec => ActiveStays
<1> DEFINE Stays ==
      \A i \in 0..(LENGTH - 1) : \A p \in Range(buckets[i]) :
        (~InTable(p.id))' => now - p.lastReceiveTime > MAX_INACTIVE_PERIOD
<1>1. DhtInv /\ [DhtNext]_nodeVars => [Stays]_tableVars
  <2> SUFFICES ASSUME DhtInv, [DhtNext]_nodeVars, ~UNCHANGED tableVars PROVE Stays
      OBVIOUS
  <2>1. CASE \E p \in Finds \cup Rest : ProcessPacket(p)
    <3>1. PICK p \in Finds \cup Rest : ProcessPacket(p)
        BY <2>1
    <3>2. p.from \in Ids /\ Address[p.from] \in N2NPIds
      <4>1. p.from \in Others
          BY DEF Finds, Rest
      <4> QED BY <4>1, OthersAssumption
    <3>3. SeenPeer(p.from, Address[p.from])
        BY <3>1 DEF ProcessPacket, SeenSender
    <3> QED BY <3>2, <3>3, SeenPeerKeepsActive DEF DhtInv
  <2>2. CASE Wait
    <3>1. buckets' = buckets /\ \A i \in 0..(LENGTH - 1) : buckets[i] \in Seq(PeerRecords)
        BY <2>2 DEF Wait, Tick, DhtInv, TableOK
    <3>2. ASSUME NEW i \in 0..(LENGTH - 1), NEW p \in Range(buckets[i]) PROVE InTable(p.id)'
      <4>1. PICK k \in 1..Len(buckets[i]) : p = buckets[i][k]
          BY <3>1 DEF Range
      <4> QED BY <3>1, <4>1 DEF InTable, Known
    <3> QED BY <3>2
  <2> QED BY <2>1, <2>2 DEF DhtNext, TreatRequest, Terminate, nodeVars
<1> QED BY <1>1, DhtInvHolds, PTL DEF ActiveStays, DhtSpec
=============================================================================
