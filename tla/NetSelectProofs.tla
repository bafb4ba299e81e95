-------------------------- MODULE NetSelectProofs ---------------------------
(***************************************************************************)
(* Theorems about NetSelect, for any finite set of connections and any     *)
(* workers, descriptors and data.                                          *)
(***************************************************************************)
EXTENDS NetSelect, SequenceTheorems, FiniteSetTheorems, TLAPS

-----------------------------------------------------------------------------
(* Sequences *)

\* SetToSeq gives each element of the set once.
LEMMA SetToSeqIs ==
  ASSUME NEW S, IsFiniteSet(S)
  PROVE  /\ SetToSeq(S) \in Seq(S)
         /\ \A i, j \in 1..Len(SetToSeq(S)) : SetToSeq(S)[i] = SetToSeq(S)[j] => i = j
         /\ \A x \in S : \E i \in 1..Len(SetToSeq(S)) : SetToSeq(S)[i] = x
<1> DEFINE n == Cardinality(S)
           s == SetToSeq(S)
<1>1. n \in Nat /\ ExistsBijection(1..n, S)
    BY FS_CardinalityType
<1>2. \E f \in [1..n -> S] : IsInjective(f)
  <2>1. PICK f : f \in Bijection(1..n, S)
      BY <1>1 DEF ExistsBijection
  <2>2. f \in [1..n -> S] /\ \A i, j \in 1..n : f[i] = f[j] => i = j
      BY <2>1 DEF Bijection, Injection, IsInjective
  <2> QED BY <2>2 DEF IsInjective
<1>3. s \in [1..n -> S] /\ IsInjective(s)
    BY <1>2 DEF SetToSeq
<1>4. s \in Injection(1..n, S)
    BY <1>3 DEF Injection, IsInjective
<1>5. IsFiniteSet(1..n) /\ Cardinality(1..n) = n
    BY <1>1, FS_Interval
<1> HIDE DEF s
<1>6. s \in Surjection(1..n, S)
    BY <1>4, <1>5, FS_Injection
<1>7. s \in Seq(S) /\ Len(s) = n
    BY <1>1, <1>3
<1>8. \A i, j \in 1..n : s[i] = s[j] => i = j
    BY <1>3 DEF IsInjective
<1>9. \A x \in S : \E i \in 1..n : s[i] = x
    BY <1>6 DEF Surjection
<1> QED BY <1>7, <1>8, <1>9 DEF s

LEMMA StreamIs ==
  ASSUME NEW c \in Conns, NEW n \in Nat
  PROVE  LET s == [i \in 1..n |-> <<c, i>>] IN
         /\ s \in Seq(Bytes) /\ Len(s) = n /\ \A i \in 1..n : s[i] = <<c, i>>
<1> DEFINE s == [i \in 1..n |-> <<c, i>>]
<1>1. s \in [1..n -> Bytes]
    BY DEF Bytes
<1>2. s \in Seq(Bytes) /\ Len(s) = n
    BY <1>1
<1> QED BY <1>2

\* One piece more
LEMMA StreamGrows ==
  ASSUME NEW c \in Conns, NEW n \in Nat
  PROVE  Append([i \in 1..n |-> <<c, i>>], <<c, n + 1>>) = [i \in 1..(n + 1) |-> <<c, i>>]
<1> DEFINE s == [i \in 1..n |-> <<c, i>>]
           t == [i \in 1..(n + 1) |-> <<c, i>>]
           a == Append(s, <<c, n + 1>>)
<1>1. s \in Seq(Bytes) /\ Len(s) = n /\ \A i \in 1..n : s[i] = <<c, i>>
    BY StreamIs
<1>2. t \in Seq(Bytes) /\ Len(t) = n + 1 /\ \A i \in 1..(n + 1) : t[i] = <<c, i>>
  <2>1. n + 1 \in Nat
      OBVIOUS
  <2> QED BY <2>1, StreamIs
<1>3. <<c, n + 1>> \in Bytes
    BY DEF Bytes
<1> HIDE DEF s, t
<1>4. /\ a \in Seq(Bytes) /\ Len(a) = n + 1
      /\ \A i \in 1..n : a[i] = s[i]
      /\ a[n + 1] = <<c, n + 1>>
    BY <1>1, <1>3, AppendProperties
<1>5. \A i \in 1..(n + 1) : a[i] = t[i]
  <2> SUFFICES ASSUME NEW i \in 1..(n + 1) PROVE a[i] = t[i]
      OBVIOUS
  <2>1. t[i] = <<c, i>>
      BY <1>2
  <2>2. CASE i = n + 1
      BY <1>4, <2>1, <2>2
  <2>3. CASE i \in 1..n
      BY <1>1, <1>4, <2>1, <2>3
  <2>4. i = n + 1 \/ i \in 1..n
      OBVIOUS
  <2> QED BY <2>2, <2>3, <2>4
<1> HIDE DEF a
<1>6. a = t
    BY <1>2, <1>4, <1>5, SeqEqual
<1> QED BY <1>6 DEF s, t, a

\* What is before the end of a sequence stays there.
LEMMA AppendAfter ==
  \A s, t \in Seq(Bytes), e \in Bytes : s \o Append(t, e) = Append(s \o t, e)
<1> SUFFICES ASSUME NEW s \in Seq(Bytes), NEW t \in Seq(Bytes), NEW e \in Bytes
             PROVE  s \o Append(t, e) = Append(s \o t, e)
    OBVIOUS
<1>1. <<e>> \in Seq(Bytes)
    OBVIOUS
<1>2. Append(t, e) = t \o <<e>>
    BY AppendIsConcat
<1>3. s \o t \in Seq(Bytes)
    BY ConcatProperties
<1>4. Append(s \o t, e) = (s \o t) \o <<e>>
    BY <1>3, AppendIsConcat
<1> QED BY <1>1, <1>2, <1>4, ConcatAssociative

LEMMA ConcatBytes ==
  \A s, t, u \in Seq(Bytes) : (s \o t) \o u = s \o (t \o u)
BY ConcatAssociative

-----------------------------------------------------------------------------
(* What steps leave alone *)

LEMMA FreshKeeps ==
  ASSUME TypeOK, FreshInv, readers' \subseteq readers, closed' \subseteq closed \cup readers,
         \A c \in Conns : sockfd'[c] \in {sockfd[c], None},
         \A c \in Conns : InLine(c)' => InLine(c) \/ c \in readers,
         \A w \in Workers : job'[w] \in {job[w], None} \/ InLine(job'[w]),
         UNCHANGED <<backlog, connected>>
  PROVE  FreshInv'
<1>1. backlog' \subseteq connected'
    BY DEF FreshInv
<1>2. ASSUME NEW c \in Conns, Unaccepted(c)'
      PROVE  /\ c \notin readers' \cup closed' /\ sockfd'[c] = None /\ ~InLine(c)'
             /\ \A w \in Workers : job'[w] # c
  <2>1. /\ c \notin readers \cup closed /\ sockfd[c] = None /\ ~InLine(c)
        /\ \A w \in Workers : job[w] # c
      BY <1>2 DEF FreshInv, Unaccepted
  <2>2. \A w \in Workers : job'[w] # c
      BY <2>1, NamesAssumption
  <2> QED BY <2>1, <2>2
<1> QED BY <1>1, <1>2 DEF FreshInv

LEMMA JobSame ==
  ASSUME JobInv, UNCHANGED <<queue, job, readers, inQueue>>,
         \A w \in Workers : Busy(w)' <=> Busy(w)
  PROVE  JobInv'
<1>1. \A c : (InLine(c)' <=> InLine(c)) /\ (InJob(c)' <=> InJob(c))
    BY DEF InLine, InJob
<1> QED BY <1>1 DEF JobInv

LEMMA FdKeeps ==
  ASSUME FdInv, UNCHANGED <<foreign, readers, sockfd, table, closed>>,
         \A w \in Workers : Holds(w)' => (Holds(w) /\ job'[w] = job[w]) \/ job'[w] \in readers
  PROVE  FdInv'
BY DEF FdInv

LEMMA StreamKeeps ==
  ASSUME StreamInv, foreign => foreign', UNCHANGED <<eaten, unread, written>>,
         \A w \in Workers : wpc'[w] = "eat" <=> wpc[w] = "eat",
         \A w \in Workers : wpc[w] = "eat" => job'[w] = job[w] /\ buffer'[w] = buffer[w]
  PROVE  StreamInv'
<1>1. \A w \in Workers, c \in Conns : Eats(w, c)' <=> Eats(w, c)
    BY DEF Eats
<1>2. \A c \in Conns : Stream(c)' = Stream(c)
    BY DEF Stream
<1>3. SUFFICES ASSUME ~foreign', NEW c \in Conns
      PROVE /\ \A w \in Workers : Eats(w, c)' => eaten'[c] \o (buffer'[w] \o unread'[c]) = Stream(c)'
            /\ (\A w \in Workers : ~Eats(w, c)') => eaten'[c] \o unread'[c] = Stream(c)'
    BY DEF StreamInv
<1>4. ~foreign
    BY <1>3
<1>5. ASSUME NEW w \in Workers, Eats(w, c)'
      PROVE  eaten'[c] \o (buffer'[w] \o unread'[c]) = Stream(c)'
  <2>1. Eats(w, c) /\ buffer'[w] = buffer[w]
      BY <1>1, <1>5 DEF Eats
  <2>2. eaten[c] \o (buffer[w] \o unread[c]) = Stream(c)
      BY <1>4, <2>1 DEF StreamInv
  <2> QED BY <1>2, <2>1, <2>2
<1>6. (\A w \in Workers : ~Eats(w, c)') => eaten'[c] \o unread'[c] = Stream(c)'
    BY <1>1, <1>2, <1>4 DEF StreamInv
<1> QED BY <1>5, <1>6

\* Closing the socket of d, whatever its number stands for, leaves the other
\* readers their descriptors, or is seen in foreign.
LEMMA ClosedFd ==
  ASSUME TypeOK, FdInv, NEW d \in Conns, sockfd[d] # None,
         table' = [table EXCEPT ![sockfd[d]] = None],
         foreign' = (foreign \/ table[sockfd[d]] \notin {d, None}),
         ~foreign'
  PROVE  \A c \in readers \ {Server, d} : sockfd[c] # None => table'[sockfd[c]] = c
<1> SUFFICES ASSUME NEW c \in readers \ {Server, d}, sockfd[c] # None
             PROVE  table'[sockfd[c]] = c
    OBVIOUS
<1>1. c \in Conns /\ sockfd[c] \in Fds /\ sockfd[d] \in Fds
    BY DEF TypeOK, Readers
<1>2. table[sockfd[c]] = c
    BY DEF FdInv
<1>3. c # d /\ c # None
    BY <1>1, NamesAssumption
<1>4. sockfd[c] # sockfd[d]
    BY <1>2, <1>3
<1> QED BY <1>1, <1>2, <1>4 DEF TypeOK

LEMMA NetSelectInvInit == Init => NetSelectInv
<1> SUFFICES ASSUME Init PROVE NetSelectInv
    OBVIOUS
<1>1. TypeOK
  <2>1. readers \subseteq Readers /\ inQueue \subseteq readers /\ queue \in Seq(Readers)
        /\ sockfd \in [Conns -> Fds \cup {None}] /\ attached \subseteq Conns
      BY DEF Init, Readers
  <2>2. /\ wpc \in [Workers -> {"idle", "read", "eat", "kill", "clear", "release"}]
        /\ job \in [Workers -> Readers \cup {None}] /\ buffer \in [Workers -> Seq(Bytes)]
      BY DEF Init
  <2>3. /\ npc \in {"build", "select", "dispatch", "kill"}
        /\ rfds \subseteq Fds \cup {Server} /\ closed \subseteq Conns
        /\ eaten \in [Conns -> Seq(Bytes)]
      BY DEF Init
  <2>4. /\ table \in [Fds -> Conns \cup {None}] /\ connected \subseteq Conns /\ backlog \subseteq Conns
        /\ unread \in [Conns -> Seq(Bytes)] /\ written \in [Conns -> Nat]
        /\ ended \subseteq Conns
      BY DEF Init
  <2>5. crashed \in BOOLEAN /\ detached \in BOOLEAN /\ foreign \in BOOLEAN
      BY Zenon DEF Init
  <2> QED BY <2>1, <2>2, <2>3, <2>4, <2>5 DEF TypeOK
<1>2. WorkerInv /\ FdInv
    BY NamesAssumption DEF Init, WorkerInv, FdInv, Holds
<1>3. JobInv
    BY DEF Init, JobInv, InLine, InJob, Busy
<1>4. FreshInv
    BY NamesAssumption DEF Init, FreshInv, Unaccepted, InLine
<1>5. StreamInv
  <2> SUFFICES ASSUME NEW c \in Conns
               PROVE  /\ \A w \in Workers : ~Eats(w, c)
                      /\ eaten[c] \o unread[c] = Stream(c)
      BY DEF StreamInv
  <2>1. eaten[c] = <<>> /\ unread[c] = <<>> /\ written[c] = 0
      BY DEF Init
  <2>2. Stream(c) = <<>>
    <3>1. Stream(c) \in Seq(Bytes) /\ Len(Stream(c)) = 0
        BY <2>1, StreamIs DEF Stream
    <3> QED BY <3>1
  <2> QED BY <2>1, <2>2 DEF Init, Eats
<1> QED BY <1>1, <1>2, <1>3, <1>4, <1>5 DEF NetSelectInv

-----------------------------------------------------------------------------
(* The peers *)

LEMMA ConnectInv ==
  ASSUME NetSelectInv, NEW c \in Conns, Connect(c)
  PROVE  NetSelectInv'
<1>1. TypeOK /\ WorkerInv /\ JobInv /\ FreshInv /\ FdInv /\ StreamInv
    BY DEF NetSelectInv
<1>2. /\ c \notin connected /\ connected' = connected \cup {c} /\ backlog' = backlog \cup {c}
      /\ UNCHANGED <<procVars, table, unread, written, ended, detached, foreign>>
    BY DEF Connect
<1>3. UNCHANGED <<readers, inQueue, queue, sockfd, wpc, job, buffer, closed, eaten>>
    BY <1>2 DEF procVars, netVars
<1>4. TypeOK'
    BY <1>1, <1>2 DEF TypeOK, procVars
<1>5. WorkerInv'
    BY <1>1, <1>3 DEF WorkerInv
<1>6. JobInv'
    BY <1>1, <1>3, JobSame DEF Busy
<1>7. FreshInv'
  <2>1. \A d \in Conns : Unaccepted(d)' => Unaccepted(d)
      BY <1>2 DEF Unaccepted
  <2>2. \A d : InLine(d)' <=> InLine(d)
      BY <1>3 DEF InLine
  <2> QED BY <1>1, <1>2, <1>3, <2>1, <2>2 DEF FreshInv
<1>8. FdInv'
    BY <1>1, <1>2, <1>3, FdKeeps DEF Holds
<1>9. StreamInv'
    BY <1>1, <1>2, <1>3, StreamKeeps
<1> QED BY <1>4, <1>5, <1>6, <1>7, <1>8, <1>9 DEF NetSelectInv

LEMMA PeerWritesInv ==
  ASSUME NetSelectInv, NEW c \in Conns, PeerWrites(c)
  PROVE  NetSelectInv'
<1>1. TypeOK /\ WorkerInv /\ JobInv /\ FreshInv /\ FdInv /\ StreamInv
    BY DEF NetSelectInv
<1>2. /\ c \in connected /\ written' = [written EXCEPT ![c] = @ + 1]
      /\ unread' = [unread EXCEPT ![c] = Append(@, <<c, written[c] + 1>>)]
      /\ UNCHANGED <<procVars, table, connected, backlog, ended, detached, foreign>>
  <2>1. written'[c] = written[c] + 1
      BY <1>1 DEF PeerWrites, TypeOK
  <2>2. c \in connected
      BY DEF PeerWrites
  <2>3. unread' = [unread EXCEPT ![c] = Append(@, <<c, written'[c]>>)]
      BY DEF PeerWrites
  <2>4. unread' = [unread EXCEPT ![c] = Append(@, <<c, written[c] + 1>>)]
      BY <2>1, <2>3, Zenon
  <2>5. /\ written' = [written EXCEPT ![c] = @ + 1]
        /\ UNCHANGED <<procVars, table, connected, backlog, ended, detached, foreign>>
      BY DEF PeerWrites
  <2> QED BY <2>2, <2>4, <2>5
<1>3. UNCHANGED <<readers, inQueue, queue, sockfd, wpc, job, buffer, closed, eaten>>
    BY <1>2 DEF procVars, netVars
<1>4. written[c] \in Nat /\ <<c, written[c] + 1>> \in Bytes
  <2>1. written[c] \in Nat /\ written[c] + 1 \in Nat
      BY <1>1 DEF TypeOK
  <2> QED BY <2>1 DEF Bytes
<1>5. TypeOK'
  <2>1. unread' \in [Conns -> Seq(Bytes)]
    <3>1. unread \in [Conns -> Seq(Bytes)]
        BY <1>1 DEF TypeOK
    <3>2. Append(unread[c], <<c, written[c] + 1>>) \in Seq(Bytes)
        BY <1>4, <3>1
    <3> QED BY <1>2, <3>1, <3>2
  <2>2. written' \in [Conns -> Nat]
      BY <1>1, <1>2 DEF TypeOK
  <2> QED BY <1>1, <1>2, <2>1, <2>2 DEF TypeOK, procVars
<1>6. WorkerInv'
    BY <1>1, <1>3 DEF WorkerInv
<1>7. JobInv'
    BY <1>1, <1>3, JobSame DEF Busy
<1>8. FreshInv'
  <2>1. \A d : InLine(d)' <=> InLine(d)
      BY <1>3 DEF InLine
  <2> QED BY <1>1, <1>2, <1>3, <2>1, FreshKeeps
<1>9. FdInv'
    BY <1>1, <1>2, <1>3, FdKeeps DEF Holds
<1>10. StreamInv'
  <2>1. SUFFICES ASSUME ~foreign, NEW d \in Conns
        PROVE  /\ \A w \in Workers : Eats(w, d) =>
                    eaten[d] \o (buffer[w] \o unread'[d]) = Stream(d)'
               /\ (\A w \in Workers : ~Eats(w, d)) => eaten[d] \o unread'[d] = Stream(d)'
      BY <1>2, <1>3 DEF StreamInv, Eats
  <2>2. CASE d # c
    <3>1. unread'[d] = unread[d] /\ written'[d] = written[d]
        BY <1>1, <1>2, <2>2 DEF TypeOK
    <3> QED BY <1>1, <2>1, <3>1 DEF StreamInv, Stream
  <2>3. CASE d = c
    <3> DEFINE e == <<c, written[c] + 1>>
    <3>1. unread'[c] = Append(unread[c], e) /\ written'[c] = written[c] + 1
        BY <1>1, <1>2 DEF TypeOK
    <3>2. Stream(c)' = Append(Stream(c), e)
        BY <1>4, <3>1, StreamGrows DEF Stream
    <3>3. /\ eaten[c] \in Seq(Bytes) /\ unread[c] \in Seq(Bytes) /\ e \in Bytes
          /\ \A w \in Workers : buffer[w] \in Seq(Bytes)
        BY <1>1, <1>4 DEF TypeOK
    <3> HIDE DEF e
    <3>4. ASSUME NEW w \in Workers, Eats(w, c)
          PROVE  eaten[c] \o (buffer[w] \o unread'[c]) = Stream(c)'
      <4>1. buffer[w] \o Append(unread[c], e) = Append(buffer[w] \o unread[c], e)
          BY <3>3, AppendAfter
      <4>2. buffer[w] \o unread[c] \in Seq(Bytes)
          BY <3>3, ConcatProperties
      <4>3. eaten[c] \o Append(buffer[w] \o unread[c], e)
            = Append(eaten[c] \o (buffer[w] \o unread[c]), e)
          BY <3>3, <4>2, AppendAfter
      <4>4. eaten[c] \o (buffer[w] \o unread[c]) = Stream(c)
          BY <1>1, <2>1, <3>4 DEF StreamInv
      <4> QED BY <3>1, <3>2, <4>1, <4>3, <4>4
    <3>5. ASSUME \A w \in Workers : ~Eats(w, c)
          PROVE  eaten[c] \o unread'[c] = Stream(c)'
      <4>1. eaten[c] \o Append(unread[c], e) = Append(eaten[c] \o unread[c], e)
          BY <3>3, AppendAfter
      <4>2. eaten[c] \o unread[c] = Stream(c)
          BY <1>1, <2>1, <3>5 DEF StreamInv
      <4> QED BY <3>1, <3>2, <4>1, <4>2
    <3> QED BY <2>3, <3>4, <3>5
  <2> QED BY <2>2, <2>3
<1> QED BY <1>5, <1>6, <1>7, <1>8, <1>9, <1>10 DEF NetSelectInv

-----------------------------------------------------------------------------
(* Steps that leave readers, their sockets and their jobs alone *)

LEMMA QuietInv ==
  ASSUME NetSelectInv, TypeOK',
         UNCHANGED <<readers, inQueue, queue, sockfd, wpc, job, buffer, closed, eaten, table,
                     backlog, connected, unread, written, foreign>>
  PROVE  NetSelectInv'
<1>1. TypeOK /\ WorkerInv /\ JobInv /\ FreshInv /\ FdInv /\ StreamInv
    BY DEF NetSelectInv
<1>2. WorkerInv'
    BY <1>1 DEF WorkerInv
<1>3. JobInv'
    BY <1>1, JobSame DEF Busy
<1>4. FreshInv'
  <2>1. \A d : InLine(d)' <=> InLine(d)
      BY DEF InLine
  <2> QED BY <1>1, <2>1, FreshKeeps
<1>5. FdInv'
    BY <1>1, FdKeeps DEF Holds
<1>6. StreamInv'
    BY <1>1, StreamKeeps
<1> QED BY <1>2, <1>3, <1>4, <1>5, <1>6 DEF NetSelectInv

LEMMA PeerEndsInv ==
  ASSUME NetSelectInv, NEW c \in Conns, PeerEnds(c)
  PROVE  NetSelectInv'
<1>1. /\ ended' = ended \cup {c}
      /\ UNCHANGED <<procVars, table, connected, backlog, unread, written, detached, foreign>>
    BY DEF PeerEnds
<1>2. TypeOK'
    BY <1>1 DEF NetSelectInv, TypeOK, procVars
<1> QED BY <1>1, <1>2, QuietInv DEF procVars, netVars

LEMMA BuildInv == ASSUME NetSelectInv, Build PROVE NetSelectInv'
<1>1. /\ rfds' = {Fd(c) : c \in Watched} \ {None} /\ npc' = "select"
      /\ UNCHANGED <<readers, inQueue, queue, sockfd, attached, wpc, job, buffer, closed, eaten,
                     crashed, kernelVars>>
    BY DEF Build, Goto
<1>2. rfds' \subseteq Fds \cup {Server}
    BY <1>1 DEF NetSelectInv, TypeOK, Fd, Readers, Watched
<1>3. TypeOK'
    BY <1>1, <1>2 DEF NetSelectInv, TypeOK, kernelVars
<1> QED BY <1>1, <1>3, QuietInv DEF kernelVars

LEMMA SelectInv == ASSUME NetSelectInv, Select PROVE NetSelectInv'
<1>1. /\ rfds' \subseteq rfds /\ npc' = "dispatch"
      /\ UNCHANGED <<readers, inQueue, queue, sockfd, attached, wpc, job, buffer, closed, eaten,
                     crashed, kernelVars>>
    BY DEF Select, Goto
<1>2. TypeOK'
    BY <1>1 DEF NetSelectInv, TypeOK, kernelVars
<1> QED BY <1>1, <1>2, QuietInv DEF kernelVars

LEMMA LoopAgainInv == ASSUME NetSelectInv, LoopAgain PROVE NetSelectInv'
<1>1. /\ npc' = "build"
      /\ UNCHANGED <<readers, inQueue, queue, sockfd, attached, wpc, job, buffer, rfds, closed,
                     eaten, crashed, kernelVars>>
    BY DEF LoopAgain, Goto
<1>2. TypeOK'
    BY <1>1 DEF NetSelectInv, TypeOK, kernelVars
<1> QED BY <1>1, <1>2, QuietInv DEF kernelVars

-----------------------------------------------------------------------------
(* The selecting thread *)

LEMMA DispatchInv == ASSUME NetSelectInv, Dispatch PROVE NetSelectInv'
<1> DEFINE ready == {c \in readers \ inQueue : Fd(c) \in rfds}
           s     == SetToSeq(ready)
<1>1. TypeOK /\ WorkerInv /\ JobInv /\ FreshInv /\ FdInv /\ StreamInv
    BY DEF NetSelectInv
<1>2. /\ inQueue' = inQueue \cup ready /\ queue' = queue \o s /\ rfds' = {}
      /\ closed' = {c \in readers : Fd(c) = None} /\ npc' = "kill"
      /\ UNCHANGED <<readers, sockfd, attached, wpc, job, buffer, eaten, crashed, kernelVars>>
    BY DEF Dispatch, Goto
<1>3. UNCHANGED <<table, backlog, connected, unread, written, ended, detached, foreign>>
    BY <1>2 DEF kernelVars
<1>4. ready \subseteq readers /\ ready \cap inQueue = {} /\ readers \subseteq Readers
    BY <1>1 DEF TypeOK
<1>5. IsFiniteSet(ready)
  <2>1. IsFiniteSet(Conns \cup {Server})
      BY BoundsAssumption, FS_AddElement
  <2> QED BY <1>4, <2>1, FS_Subset DEF Readers
<1> HIDE DEF ready
<1>6. /\ s \in Seq(ready)
      /\ \A i, j \in 1..Len(s) : s[i] = s[j] => i = j
      /\ \A x \in ready : \E i \in 1..Len(s) : s[i] = x
    BY <1>5, SetToSeqIs
<1> HIDE DEF s
<1>7. closed' = {c \in Conns \cap readers : sockfd[c] = None}
    BY <1>2, <1>4, NamesAssumption DEF Fd, Readers
<1>8. s \in Seq(Readers) /\ queue \in Seq(Readers)
    BY <1>1, <1>4, <1>6 DEF TypeOK
<1>9. /\ queue' \in Seq(Readers) /\ Len(queue') = Len(queue) + Len(s)
      /\ Len(queue) \in Nat /\ Len(s) \in Nat
      /\ \A i \in 1..Len(queue) : queue'[i] = queue[i]
      /\ \A i \in 1..Len(s) : queue'[Len(queue) + i] = s[i]
    BY <1>2, <1>8, ConcatProperties
<1>10. \A i \in 1..Len(queue') :
         \/ i \in 1..Len(queue) /\ queue'[i] = queue[i]
         \/ \E k \in 1..Len(s) : i = Len(queue) + k /\ queue'[i] = s[k]
  <2> SUFFICES ASSUME NEW i \in 1..Len(queue'), i \notin 1..Len(queue)
               PROVE  \E k \in 1..Len(s) : i = Len(queue) + k /\ queue'[i] = s[k]
      BY <1>9
  <2>1. i - Len(queue) \in 1..Len(s) /\ i = Len(queue) + (i - Len(queue))
      BY <1>9
  <2> QED BY <1>9, <2>1
<1>11. \A i \in 1..Len(s) : s[i] \in ready
    BY <1>6
<1>12. \A c : InLine(c)' <=> InLine(c) \/ c \in ready
  <2> SUFFICES ASSUME NEW c PROVE InLine(c)' <=> InLine(c) \/ c \in ready
      OBVIOUS
  <2>1. InLine(c)' => InLine(c) \/ c \in ready
      BY <1>10, <1>11 DEF InLine
  <2>2. InLine(c) => InLine(c)'
      BY <1>9 DEF InLine
  <2>3. c \in ready => InLine(c)'
    <3> SUFFICES ASSUME c \in ready PROVE InLine(c)'
        OBVIOUS
    <3>1. PICK i \in 1..Len(s) : s[i] = c
        BY <1>6
    <3>2. Len(queue) + i \in 1..Len(queue') /\ queue'[Len(queue) + i] = c
        BY <1>9, <3>1
    <3> QED BY <3>2 DEF InLine
  <2> QED BY <2>1, <2>2, <2>3
<1>13. \A c \in ready : ~InLine(c) /\ ~InJob(c)
    BY <1>1, <1>4 DEF JobInv
<1>14. TypeOK'
  <2>1. inQueue' \subseteq readers' /\ closed' \subseteq Conns
      BY <1>1, <1>2, <1>4, <1>7 DEF TypeOK
  <2> QED BY <1>1, <1>2, <1>3, <1>9, <2>1 DEF TypeOK
<1>15. WorkerInv'
    BY <1>1, <1>2 DEF WorkerInv
<1>16. JobInv'
  <2>1. \A i, j \in 1..Len(queue') : queue'[i] = queue'[j] => i = j
    <3> SUFFICES ASSUME NEW i \in 1..Len(queue'), NEW j \in 1..Len(queue'), queue'[i] = queue'[j]
                 PROVE  i = j
        OBVIOUS
    <3>1. CASE i \in 1..Len(queue) /\ j \in 1..Len(queue)
        BY <1>1, <1>9, <3>1 DEF JobInv
    <3>2. CASE i \in 1..Len(queue) /\ j \notin 1..Len(queue)
        BY <1>9, <1>10, <1>11, <1>13, <3>2 DEF InLine
    <3>3. CASE i \notin 1..Len(queue) /\ j \in 1..Len(queue)
        BY <1>9, <1>10, <1>11, <1>13, <3>3 DEF InLine
    <3>4. CASE i \notin 1..Len(queue) /\ j \notin 1..Len(queue)
        BY <1>6, <1>10, <3>4
    <3> QED BY <3>1, <3>2, <3>3, <3>4
  <2>2. \A w \in Workers : Busy(w)' => ~InLine(job[w])'
      BY <1>1, <1>2, <1>12, <1>13 DEF JobInv, Busy, InJob
  <2>3. \A v, w \in Workers : Busy(v)' /\ Busy(w)' /\ job'[v] = job'[w] => v = w
      BY <1>1, <1>2 DEF JobInv, Busy
  <2>4. \A c \in readers' : c \in inQueue' <=> InLine(c)' \/ InJob(c)'
    <3>1. \A c : InJob(c)' <=> InJob(c)
        BY <1>2 DEF InJob, Busy
    <3> QED BY <1>1, <1>2, <1>12, <3>1 DEF JobInv
  <2> QED BY <2>1, <2>2, <2>3, <2>4 DEF JobInv
<1>17. FreshInv'
    BY <1>1, <1>2, <1>3, <1>4, <1>7, <1>12, FreshKeeps
<1>18. FdInv'
    BY <1>1, <1>2, <1>3, <1>7 DEF FdInv, Holds
<1>19. StreamInv'
    BY <1>1, <1>2, <1>3, StreamKeeps
<1> QED BY <1>14, <1>15, <1>16, <1>17, <1>18, <1>19 DEF NetSelectInv

\* A reader that goes takes its mark with it, whatever its job.
LEMMA JobWithout ==
  ASSUME JobInv, NEW d, UNCHANGED <<queue, job>>,
         readers' = readers \ {d}, inQueue' = inQueue \ {d},
         \A w \in Workers : Busy(w)' => Busy(w),
         \A w \in Workers : Busy(w) /\ job[w] # d => Busy(w)'
  PROVE  JobInv'
<1>1. \A c : InLine(c)' <=> InLine(c)
    BY DEF InLine
<1>2. \A c : c # d => (InJob(c)' <=> InJob(c))
    BY DEF InJob
<1>3. \A i, j \in 1..Len(queue') : queue'[i] = queue'[j] => i = j
    BY DEF JobInv
<1>4. \A w \in Workers : Busy(w)' => ~InLine(job[w])'
    BY <1>1 DEF JobInv
<1>5. \A v, w \in Workers : Busy(v)' /\ Busy(w)' /\ job'[v] = job'[w] => v = w
    BY DEF JobInv
<1>6. \A c \in readers' : c \in inQueue' <=> InLine(c)' \/ InJob(c)'
    BY <1>1, <1>2 DEF JobInv
<1> QED BY <1>1, <1>3, <1>4, <1>5, <1>6 DEF JobInv

LEMMA KillClosedInv ==
  ASSUME NetSelectInv, NEW c \in closed, KillClosed(c)
  PROVE  NetSelectInv'
<1>1. TypeOK /\ WorkerInv /\ JobInv /\ FreshInv /\ FdInv /\ StreamInv
    BY DEF NetSelectInv
<1>2. c \in Conns /\ sockfd[c] = None
    BY <1>1 DEF TypeOK, FdInv
<1>3. /\ closed' = closed \ {c} /\ readers' = readers \ {c} /\ inQueue' = inQueue \ {c}
      /\ attached' \subseteq attached
      /\ UNCHANGED <<table, foreign, queue, sockfd, wpc, job, buffer, npc, rfds, eaten, crashed,
                     backlog, connected, written, ended, detached, unread>>
    BY <1>2 DEF KillClosed, Killed, Detach, peerVars
<1>4. TypeOK'
    BY <1>1, <1>3 DEF TypeOK
<1>5. WorkerInv'
    BY <1>1, <1>2, <1>3, NamesAssumption DEF WorkerInv
<1>6. JobInv'
  <2>1. \A w \in Workers : Busy(w)' <=> Busy(w)
      BY <1>3 DEF Busy
  <2> QED BY <1>1, <1>3, <2>1, JobWithout
<1>7. FreshInv'
  <2>1. \A d : InLine(d)' <=> InLine(d)
      BY <1>3 DEF InLine
  <2> QED BY <1>1, <1>3, <2>1, FreshKeeps
<1>8. FdInv'
    BY <1>1, <1>2, <1>3 DEF FdInv, Holds
<1>9. StreamInv'
    BY <1>1, <1>3, StreamKeeps
<1> QED BY <1>4, <1>5, <1>6, <1>7, <1>8, <1>9 DEF NetSelectInv

LEMMA NetThreadInv == ASSUME NetSelectInv, NetThread PROVE NetSelectInv'
BY BuildInv, SelectInv, DispatchInv, KillClosedInv, LoopAgainInv DEF NetThread

-----------------------------------------------------------------------------
(* The workers *)

LEMMA GetReaderInv ==
  ASSUME NetSelectInv, NEW w \in Workers, GetReader(w)
  PROVE  NetSelectInv'
<1> DEFINE h == Head(queue)
<1>1. TypeOK /\ WorkerInv /\ JobInv /\ FreshInv /\ FdInv /\ StreamInv
    BY DEF NetSelectInv
<1>2. /\ wpc[w] = "idle" /\ queue # <<>> /\ queue' = Tail(queue) /\ inQueue' = inQueue
      /\ \/ /\ h \in readers /\ job' = [job EXCEPT ![w] = h] /\ wpc' = [wpc EXCEPT ![w] = "read"]
         \/ h \notin readers /\ UNCHANGED <<job, wpc>>
      /\ UNCHANGED <<readers, sockfd, attached, buffer, netVars, eaten, crashed, kernelVars>>
    BY DEF GetReader, At, WGoto, Marks
<1>3. UNCHANGED <<npc, rfds, closed, table, backlog, connected, unread, written, ended, detached, foreign>>
    BY <1>2 DEF kernelVars, netVars
<1>4. queue \in Seq(Readers) /\ readers \subseteq Readers
    BY <1>1 DEF TypeOK
<1>5. /\ h \in Readers /\ h = queue[1] /\ queue' \in Seq(Readers)
      /\ Len(queue) \in Nat \ {0} /\ Len(queue') = Len(queue) - 1
      /\ \A i \in 1..Len(queue') : i + 1 \in 1..Len(queue) /\ queue'[i] = queue[i + 1]
    BY <1>2, <1>4
<1> HIDE DEF h
<1>6. InLine(h)
    BY <1>5 DEF InLine
<1>7. \A c : InLine(c)' <=> InLine(c) /\ c # h
  <2> SUFFICES ASSUME NEW c PROVE InLine(c)' <=> InLine(c) /\ c # h
      OBVIOUS
  <2>1. ASSUME InLine(c)' PROVE InLine(c) /\ c # h
    <3>1. PICK i \in 1..Len(queue') : queue'[i] = c
        BY <2>1 DEF InLine
    <3>2. i + 1 \in 1..Len(queue) /\ queue[i + 1] = c /\ i + 1 # 1 /\ 1 \in 1..Len(queue)
        BY <1>5, <3>1
    <3>3. queue[i + 1] # queue[1]
        BY <1>1, <3>2 DEF JobInv
    <3> QED BY <1>5, <3>2, <3>3 DEF InLine
  <2>2. ASSUME InLine(c), c # h PROVE InLine(c)'
    <3>1. PICK i \in 1..Len(queue) : queue[i] = c
        BY <2>2 DEF InLine
    <3>2. i # 1
        BY <1>5, <2>2, <3>1
    <3>3. i - 1 \in 1..Len(queue') /\ (i - 1) + 1 = i
        BY <1>5, <3>2
    <3>4. queue'[i - 1] = c
        BY <1>5, <3>1, <3>3
    <3> QED BY <3>3, <3>4 DEF InLine
  <2> QED BY <2>1, <2>2
<1>8. \A v \in Workers : v # w => wpc'[v] = wpc[v] /\ job'[v] = job[v]
    BY <1>1, <1>2 DEF TypeOK
<1>9. \/ h \in readers /\ job'[w] = h /\ wpc'[w] = "read"
      \/ h \notin readers /\ job'[w] = job[w] /\ wpc'[w] = "idle"
    BY <1>1, <1>2 DEF TypeOK
<1>10. TypeOK'
  <2>1. job' \in [Workers -> Readers \cup {None}]
      BY <1>1, <1>2, <1>5 DEF TypeOK
  <2>2. wpc' \in [Workers -> {"idle", "read", "eat", "kill", "clear", "release"}]
      BY <1>1, <1>2 DEF TypeOK
  <2> QED BY <1>1, <1>2, <1>3, <1>5, <2>1, <2>2 DEF TypeOK
<1>11. WorkerInv'
  <2>1. h # None
      BY <1>5, NamesAssumption DEF Readers
  <2> QED BY <1>1, <1>2, <1>8, <1>9, <2>1 DEF WorkerInv
<1>12. JobInv'
  <2>1. \A i, j \in 1..Len(queue') : queue'[i] = queue'[j] => i = j
    <3> SUFFICES ASSUME NEW i \in 1..Len(queue'), NEW j \in 1..Len(queue'), queue'[i] = queue'[j]
                 PROVE  i = j
        OBVIOUS
    <3>1. i + 1 = j + 1
        BY <1>1, <1>5 DEF JobInv
    <3> QED BY <1>5, <3>1
  <2>2. ~Busy(w)
      BY <1>2 DEF Busy
  <2>3. \A v \in Workers : Busy(v)' <=> Busy(v) \/ (v = w /\ h \in readers)
      BY <1>8, <1>9, <2>2 DEF Busy
  <2>4. \A v \in Workers : Busy(v) => job'[v] = job[v] /\ job[v] # h
      BY <1>1, <1>6, <1>8, <2>2 DEF JobInv
  <2>5. \A v \in Workers : Busy(v)' => ~InLine(job[v])'
      BY <1>1, <1>7, <1>9, <2>3, <2>4 DEF JobInv
  <2>6. \A u, v \in Workers : Busy(u)' /\ Busy(v)' /\ job'[u] = job'[v] => u = v
      BY <1>1, <1>9, <2>3, <2>4 DEF JobInv
  <2>7. \A c \in readers' : c \in inQueue' <=> InLine(c)' \/ InJob(c)'
    <3> SUFFICES ASSUME NEW c \in readers
                 PROVE  c \in inQueue <=> InLine(c)' \/ InJob(c)'
        BY <1>2
    <3>1. CASE c = h
        BY <1>1, <1>6, <1>9, <2>3, <3>1 DEF JobInv, InJob
    <3>2. CASE c # h
      <4>1. InJob(c)' <=> InJob(c)
          BY <1>9, <2>3, <2>4, <3>2 DEF InJob
      <4> QED BY <1>1, <1>7, <3>2, <4>1 DEF JobInv
    <3> QED BY <3>1, <3>2
  <2> QED BY <2>1, <2>5, <2>6, <2>7 DEF JobInv
<1>13. FreshInv'
  <2>1. \A v \in Workers : job'[v] \in {job[v], None} \/ InLine(job'[v])
      BY <1>6, <1>8, <1>9
  <2> QED BY <1>1, <1>2, <1>3, <1>7, <2>1, FreshKeeps
<1>14. FdInv'
  <2>1. \A v \in Workers : Holds(v)' => (Holds(v) /\ job'[v] = job[v]) \/ job'[v] \in readers
      BY <1>8, <1>9 DEF Holds
  <2> QED BY <1>1, <1>2, <1>3, <2>1, FdKeeps
<1>15. StreamInv'
  <2>1. \A v \in Workers : wpc'[v] = "eat" <=> wpc[v] = "eat"
      BY <1>2, <1>8, <1>9
  <2>2. \A v \in Workers : wpc[v] = "eat" => job'[v] = job[v] /\ buffer'[v] = buffer[v]
      BY <1>2, <1>8
  <2> QED BY <1>1, <1>2, <1>3, <2>1, <2>2, StreamKeeps
<1> QED BY <1>10, <1>11, <1>12, <1>13, <1>14, <1>15 DEF NetSelectInv

LEMMA AcceptInv ==
  ASSUME NetSelectInv, NEW w \in Workers, NEW c \in Conns, NEW f \in Fds, Accept(w, c, f)
  PROVE  NetSelectInv'
<1>1. TypeOK /\ WorkerInv /\ JobInv /\ FreshInv /\ FdInv /\ StreamInv
    BY DEF NetSelectInv
<1>2. /\ wpc[w] = "read" /\ job[w] = Server /\ c \in backlog /\ table[f] = None
      /\ backlog' = backlog \ {c} /\ table' = [table EXCEPT ![f] = c]
      /\ sockfd' = [sockfd EXCEPT ![c] = f] /\ readers' = readers \cup {c}
      /\ wpc' = [wpc EXCEPT ![w] = "clear"]
      /\ UNCHANGED <<inQueue, queue, attached, job, buffer, npc, rfds, closed, eaten, crashed,
                     connected, unread, written, ended, detached, foreign>>
    BY DEF Accept, At, WGoto, netVars
<1>3. /\ c \notin readers \cup closed /\ sockfd[c] = None /\ ~InLine(c) /\ c \in connected
      /\ \A v \in Workers : job[v] # c
    BY <1>1, <1>2 DEF FreshInv, Unaccepted
<1>4. wpc'[w] = "clear" /\ \A v \in Workers : v # w => wpc'[v] = wpc[v]
    BY <1>1, <1>2 DEF TypeOK
<1>5. sockfd'[c] = f /\ \A d \in Conns : d # c => sockfd'[d] = sockfd[d]
    BY <1>1, <1>2 DEF TypeOK
<1>6. table'[f] = c /\ \A g \in Fds : g # f => table'[g] = table[g]
    BY <1>1, <1>2 DEF TypeOK
<1>7. \A d : InLine(d)' <=> InLine(d)
    BY <1>2 DEF InLine
<1>8. \A v \in Workers : Busy(v)' <=> Busy(v)
    BY <1>2, <1>4 DEF Busy
<1>9. TypeOK'
  <2>1. sockfd' \in [Conns -> Fds \cup {None}] /\ table' \in [Fds -> Conns \cup {None}]
      BY <1>1, <1>2 DEF TypeOK
  <2>2. wpc' \in [Workers -> {"idle", "read", "eat", "kill", "clear", "release"}]
      BY <1>1, <1>2 DEF TypeOK
  <2>3. readers' \subseteq Readers /\ inQueue' \subseteq readers' /\ backlog' \subseteq Conns
      BY <1>1, <1>2 DEF TypeOK, Readers
  <2> QED BY <1>1, <1>2, <2>1, <2>2, <2>3 DEF TypeOK
<1>10. WorkerInv'
    BY <1>1, <1>2, <1>4 DEF WorkerInv
<1>11. JobInv'
  <2>1. \A d : InJob(d)' <=> InJob(d)
      BY <1>2, <1>8 DEF InJob
  <2>2. c \notin inQueue /\ ~InLine(c) /\ ~InJob(c)
      BY <1>1, <1>3 DEF TypeOK, InJob
  <2>3. \A d \in readers' : d \in inQueue' <=> InLine(d)' \/ InJob(d)'
      BY <1>1, <1>2, <1>7, <2>1, <2>2 DEF JobInv
  <2> QED BY <1>1, <1>2, <1>7, <1>8, <2>3 DEF JobInv
<1>12. FreshInv'
  <2>1. \A d \in Conns : Unaccepted(d)' => Unaccepted(d) /\ d # c
      BY <1>1, <1>2, <1>3 DEF Unaccepted, TypeOK
  <2> QED BY <1>1, <1>2, <1>5, <1>7, <2>1 DEF FreshInv
<1>13. FdInv'
  <2>1. ASSUME ~foreign', NEW d \in readers' \ {Server}, sockfd'[d] # None
        PROVE  table'[sockfd'[d]] = d
    <3>1. CASE d = c
        BY <1>5, <1>6, <3>1
    <3>2. CASE d # c
      <4>1. d \in readers \ {Server} /\ d \in Conns /\ sockfd'[d] = sockfd[d]
          BY <1>1, <1>2, <1>5, <2>1, <3>2 DEF TypeOK, Readers
      <4>2. sockfd[d] \in Fds /\ table[sockfd[d]] = d
          BY <1>1, <1>2, <2>1, <4>1 DEF FdInv, TypeOK
      <4>3. sockfd[d] # f
          BY <1>2, <4>1, <4>2, NamesAssumption
      <4> QED BY <1>6, <4>1, <4>2, <4>3
    <3> QED BY <3>1, <3>2
  <2>2. \A d \in closed' : sockfd'[d] = None
      BY <1>1, <1>2, <1>3, <1>5 DEF FdInv, TypeOK
  <2>3. \A v \in Workers : Holds(v)' /\ job'[v] \in Conns \ readers' => sockfd'[job'[v]] = None
      BY <1>1, <1>2, <1>3, <1>4, <1>5 DEF FdInv, Holds
  <2> QED BY <2>1, <2>2, <2>3 DEF FdInv
<1>14. StreamInv'
  <2>1. \A v \in Workers : wpc'[v] = "eat" <=> wpc[v] = "eat"
      BY <1>2, <1>4
  <2> QED BY <1>1, <1>2, <2>1, StreamKeeps
<1> QED BY <1>9, <1>10, <1>11, <1>12, <1>13, <1>14 DEF NetSelectInv

\* A worker that holds a connection goes on, or drops it, and nothing else changes.
LEMMA WorkerMoves ==
  ASSUME NetSelectInv, NEW w \in Workers, wpc[w] = "read", job[w] \in Conns,
         wpc' = [wpc EXCEPT ![w] = "kill"],
         UNCHANGED <<readers, inQueue, queue, sockfd, attached, job, buffer, netVars, eaten,
                     crashed, kernelVars>>
  PROVE  NetSelectInv'
<1>1. TypeOK /\ WorkerInv /\ JobInv /\ FreshInv /\ FdInv /\ StreamInv
    BY DEF NetSelectInv
<1>2. UNCHANGED <<npc, rfds, closed, table, backlog, connected, unread, written, ended, detached, foreign>>
    BY DEF netVars, kernelVars
<1>3. wpc'[w] = "kill" /\ \A v \in Workers : v # w => wpc'[v] = wpc[v]
    BY <1>1 DEF TypeOK
<1>4. TypeOK'
  <2>1. wpc' \in [Workers -> {"idle", "read", "eat", "kill", "clear", "release"}]
      BY <1>1 DEF TypeOK
  <2> QED BY <1>1, <1>2, <2>1 DEF TypeOK
<1>5. WorkerInv'
    BY <1>1, <1>3 DEF WorkerInv
<1>6. JobInv'
  <2>1. \A v \in Workers : Busy(v)' <=> Busy(v)
      BY <1>3 DEF Busy
  <2> QED BY <1>1, <2>1, JobSame
<1>7. FreshInv'
  <2>1. \A d : InLine(d)' <=> InLine(d)
      BY DEF InLine
  <2> QED BY <1>1, <1>2, <2>1, FreshKeeps
<1>8. FdInv'
  <2>1. \A v \in Workers : Holds(v)' => Holds(v) /\ job'[v] = job[v]
      BY <1>3 DEF Holds
  <2> QED BY <1>1, <1>2, <2>1, FdKeeps
<1>9. StreamInv'
  <2>1. \A v \in Workers : wpc'[v] = "eat" <=> wpc[v] = "eat"
      BY <1>3
  <2> QED BY <1>1, <1>2, <2>1, StreamKeeps
<1> QED BY <1>4, <1>5, <1>6, <1>7, <1>8, <1>9 DEF NetSelectInv

\* Nobody else eats the bytes of the connection a worker is busy with.
LEMMA OneEater ==
  ASSUME JobInv, NEW w \in Workers, Busy(w), NEW v \in Workers, Eats(v, job[w])
  PROVE  v = w
BY DEF JobInv, Busy, Eats

\* recv() gives a worker all the bytes that arrived.
LEMMA TakeInv ==
  ASSUME NetSelectInv, NEW w \in Workers, wpc[w] = "read", job[w] \in Conns,
         NEW fd, fd = sockfd[job[w]], fd # None, table[fd] # None,
         buffer' = [buffer EXCEPT ![w] = unread[table[fd]]],
         unread' = [unread EXCEPT ![table[fd]] = <<>>],
         wpc' = [wpc EXCEPT ![w] = "eat"],
         UNCHANGED <<readers, inQueue, queue, sockfd, attached, job, netVars, eaten, crashed,
                     table, peerVars, foreign>>
  PROVE  NetSelectInv'
<1> DEFINE c == job[w]
           o == table[fd]
<1>1. TypeOK /\ WorkerInv /\ JobInv /\ FreshInv /\ FdInv /\ StreamInv
    BY DEF NetSelectInv
<1>2. UNCHANGED <<npc, rfds, closed, backlog, connected, written, ended, detached>>
    BY DEF netVars, peerVars
<1>3. fd \in Fds /\ o \in Conns /\ unread[o] \in Seq(Bytes)
    BY <1>1 DEF TypeOK
<1>4. wpc'[w] = "eat" /\ \A v \in Workers : v # w => wpc'[v] = wpc[v]
    BY <1>1 DEF TypeOK
<1>5. buffer'[w] = unread[o] /\ \A v \in Workers : v # w => buffer'[v] = buffer[v]
    BY <1>1 DEF TypeOK
<1>6. unread'[o] = <<>> /\ \A d \in Conns : d # o => unread'[d] = unread[d]
    BY <1>1, <1>3 DEF TypeOK
<1>7. TypeOK'
  <2>1. wpc' \in [Workers -> {"idle", "read", "eat", "kill", "clear", "release"}]
      BY <1>1 DEF TypeOK
  <2>2. buffer' \in [Workers -> Seq(Bytes)]
      BY <1>1, <1>3 DEF TypeOK
  <2>3. unread' \in [Conns -> Seq(Bytes)]
    <3>1. <<>> \in Seq(Bytes) /\ unread \in [Conns -> Seq(Bytes)]
        BY <1>1 DEF TypeOK
    <3> QED BY <3>1
  <2> QED BY <1>1, <1>2, <2>1, <2>2, <2>3 DEF TypeOK
<1>8. WorkerInv'
    BY <1>1, <1>4 DEF WorkerInv
<1>9. JobInv'
  <2>1. \A v \in Workers : Busy(v)' <=> Busy(v)
      BY <1>4 DEF Busy
  <2> QED BY <1>1, <2>1, JobSame
<1>10. FreshInv'
  <2>1. \A d : InLine(d)' <=> InLine(d)
      BY DEF InLine
  <2> QED BY <1>1, <1>2, <2>1, FreshKeeps
<1>11. FdInv'
  <2>1. \A v \in Workers : Holds(v)' => Holds(v) /\ job'[v] = job[v]
      BY <1>4 DEF Holds
  <2> QED BY <1>1, <1>2, <2>1, FdKeeps
<1>12. StreamInv'
  <2>1. SUFFICES ASSUME ~foreign, NEW d \in Conns
        PROVE  /\ \A v \in Workers : Eats(v, d)' =>
                    eaten[d] \o (buffer'[v] \o unread'[d]) = Stream(d)
               /\ (\A v \in Workers : ~Eats(v, d)') => eaten[d] \o unread'[d] = Stream(d)
      BY <1>2 DEF StreamInv, Stream
  <2>2. o = c
    <3>1. c \in readers \ {Server}
      <4>1. c \in readers
          BY <1>1, <2>1 DEF FdInv, Holds
      <4> QED BY <4>1, NamesAssumption
    <3> QED BY <1>1, <2>1, <3>1 DEF FdInv
  <2>3. Busy(w)
      BY DEF Busy
  <2>4. CASE d = c
    <3>1. \A v \in Workers : ~Eats(v, c)
        BY <1>1, <2>3, OneEater DEF Eats
    <3>2. eaten[c] \o unread[c] = Stream(c)
        BY <1>1, <2>1, <3>1 DEF StreamInv
    <3>3. \A v \in Workers : Eats(v, c)' => v = w
        BY <1>4, <3>1 DEF Eats
    <3>4. Eats(w, c)'
        BY <1>4 DEF Eats
    <3>5. buffer'[w] \o unread'[c] = unread[c]
      <4>1. unread[c] \in Seq(Bytes) /\ buffer'[w] = unread[c] /\ unread'[c] = <<>>
          BY <1>3, <1>5, <1>6, <2>2
      <4>2. unread[c] \o <<>> = unread[c]
          BY <4>1, ConcatEmptySeq
      <4> QED BY <4>1, <4>2, Zenon
    <3> QED BY <2>4, <3>2, <3>3, <3>4, <3>5
  <2>5. CASE d # c
    <3>1. \A v \in Workers : Eats(v, d)' <=> Eats(v, d)
        BY <1>4, <2>5 DEF Eats
    <3>2. \A v \in Workers : Eats(v, d) => buffer'[v] = buffer[v]
        BY <1>5, <2>5 DEF Eats
    <3>3. unread'[d] = unread[d]
        BY <1>6, <2>2, <2>5
    <3> QED BY <1>1, <2>1, <3>1, <3>2, <3>3 DEF StreamInv
  <2> QED BY <2>4, <2>5
<1> QED BY <1>7, <1>8, <1>9, <1>10, <1>11, <1>12 DEF NetSelectInv

LEMMA RecvInv ==
  ASSUME NetSelectInv, NEW w \in Workers, Recv(w)
  PROVE  NetSelectInv'
<1> DEFINE fd == sockfd[job[w]]
<1>1. TypeOK /\ WorkerInv
    BY DEF NetSelectInv
<1>2. wpc[w] = "read" /\ job[w] # Server
    BY DEF Recv, At
<1>3. job[w] \in Conns
    BY <1>1, <1>2 DEF WorkerInv, TypeOK, Readers
<1>4. UNCHANGED <<readers, inQueue, queue, sockfd, attached, job, netVars, eaten, table, peerVars,
                 foreign>>
    BY DEF Recv
<1>5. \/ /\ fd # None /\ table[fd] # None
         /\ buffer' = [buffer EXCEPT ![w] = unread[table[fd]]]
         /\ unread' = [unread EXCEPT ![table[fd]] = <<>>]
         /\ wpc' = [wpc EXCEPT ![w] = "eat"] /\ UNCHANGED crashed
      \/ wpc' = [wpc EXCEPT ![w] = "kill"] /\ UNCHANGED <<buffer, unread, crashed>>
      \/ crashed' = TRUE /\ UNCHANGED <<buffer, unread, wpc>>
    BY DEF Recv, WGoto
<1>6. CASE /\ fd # None /\ table[fd] # None
           /\ buffer' = [buffer EXCEPT ![w] = unread[table[fd]]]
           /\ unread' = [unread EXCEPT ![table[fd]] = <<>>]
           /\ wpc' = [wpc EXCEPT ![w] = "eat"] /\ UNCHANGED crashed
    BY <1>2, <1>3, <1>4, <1>6, TakeInv
<1>7. CASE wpc' = [wpc EXCEPT ![w] = "kill"] /\ UNCHANGED <<buffer, unread, crashed>>
  <2>1. UNCHANGED kernelVars
      BY <1>4, <1>7 DEF kernelVars, peerVars
  <2> QED BY <1>2, <1>3, <1>4, <1>7, <2>1, WorkerMoves
<1>8. CASE crashed' = TRUE /\ UNCHANGED <<buffer, unread, wpc>>
  <2>1. TypeOK'
      BY <1>1, <1>4, <1>8 DEF TypeOK, netVars, peerVars
  <2> QED BY <1>4, <1>8, <2>1, QuietInv DEF netVars, peerVars
<1> QED BY <1>5, <1>6, <1>7, <1>8

\* The data goes to the RelaySocket, whatever it makes of it.
LEMMA EatenInv ==
  ASSUME NetSelectInv, NEW w \in Workers, wpc[w] = "eat",
         eaten' = [eaten EXCEPT ![job[w]] = @ \o buffer[w]],
         buffer' = [buffer EXCEPT ![w] = <<>>],
         attached' \subseteq attached \cup {job[w]},
         \/ wpc' = [wpc EXCEPT ![w] = "clear"]
         \/ wpc' = [wpc EXCEPT ![w] = "kill"],
         UNCHANGED <<readers, inQueue, queue, sockfd, job, netVars, crashed, kernelVars>>
  PROVE  NetSelectInv'
<1> DEFINE c == job[w]
<1>1. TypeOK /\ WorkerInv /\ JobInv /\ FreshInv /\ FdInv /\ StreamInv
    BY DEF NetSelectInv
<1>2. /\ wpc[w] = "eat" /\ eaten' = [eaten EXCEPT ![c] = @ \o buffer[w]]
      /\ buffer' = [buffer EXCEPT ![w] = <<>>]
      /\ attached' \subseteq attached \cup {c}
      /\ \/ wpc' = [wpc EXCEPT ![w] = "clear"]
         \/ wpc' = [wpc EXCEPT ![w] = "kill"]
      /\ UNCHANGED <<readers, inQueue, queue, sockfd, job, netVars, crashed, kernelVars>>
    OBVIOUS
<1>3. UNCHANGED <<npc, rfds, closed, table, backlog, connected, unread, written, ended, detached, foreign>>
    BY <1>2 DEF netVars, kernelVars
<1>4. c \in Conns /\ Busy(w) /\ Holds(w) /\ Eats(w, c)
    BY <1>1, <1>2 DEF WorkerInv, Busy, Holds, Eats
<1>5. wpc'[w] \in {"clear", "kill"} /\ \A v \in Workers : v # w => wpc'[v] = wpc[v]
    BY <1>1, <1>2 DEF TypeOK
<1>6. \A v \in Workers : v # w => buffer'[v] = buffer[v]
    BY <1>1, <1>2 DEF TypeOK
<1>7. /\ eaten[c] \in Seq(Bytes) /\ buffer[w] \in Seq(Bytes) /\ unread[c] \in Seq(Bytes)
      /\ eaten[c] \o buffer[w] \in Seq(Bytes)
    BY <1>1, <1>4 DEF TypeOK
<1> HIDE DEF c
<1>8. eaten'[c] = eaten[c] \o buffer[w] /\ \A d \in Conns : d # c => eaten'[d] = eaten[d]
    BY <1>1, <1>2, <1>4 DEF TypeOK
<1>9. TypeOK'
  <2>1. wpc' \in [Workers -> {"idle", "read", "eat", "kill", "clear", "release"}]
      BY <1>1, <1>2 DEF TypeOK
  <2>2. buffer' \in [Workers -> Seq(Bytes)]
    <3>1. <<>> \in Seq(Bytes) /\ buffer \in [Workers -> Seq(Bytes)]
        BY <1>1 DEF TypeOK
    <3> QED BY <1>2, <3>1
  <2>3. eaten' \in [Conns -> Seq(Bytes)]
      BY <1>1, <1>2, <1>7 DEF TypeOK
  <2>4. attached' \subseteq Conns
      BY <1>1, <1>2, <1>4 DEF TypeOK
  <2> QED BY <1>1, <1>2, <1>3, <2>1, <2>2, <2>3, <2>4 DEF TypeOK
<1>10. WorkerInv'
    BY <1>1, <1>2, <1>4, <1>5 DEF WorkerInv, c
<1>11. JobInv'
  <2>1. \A v \in Workers : Busy(v)' <=> Busy(v)
      BY <1>2, <1>5 DEF Busy
  <2> QED BY <1>1, <1>2, <2>1, JobSame
<1>12. FreshInv'
  <2>1. \A d : InLine(d)' <=> InLine(d)
      BY <1>2 DEF InLine
  <2> QED BY <1>1, <1>2, <1>3, <2>1, FreshKeeps
<1>13. FdInv'
  <2>1. \A v \in Workers : Holds(v)' => Holds(v) /\ job'[v] = job[v]
      BY <1>2, <1>4, <1>5 DEF Holds
  <2> QED BY <1>1, <1>2, <1>3, <2>1, FdKeeps
<1>14. StreamInv'
  <2>1. SUFFICES ASSUME ~foreign, NEW d \in Conns
        PROVE  /\ \A v \in Workers : Eats(v, d)' =>
                    eaten'[d] \o (buffer'[v] \o unread[d]) = Stream(d)
               /\ (\A v \in Workers : ~Eats(v, d)') => eaten'[d] \o unread[d] = Stream(d)
      BY <1>3 DEF StreamInv, Stream
  <2>2. ~Eats(w, d)'
      BY <1>5 DEF Eats
  <2>3. CASE d = c
    <3>1. \A v \in Workers : ~Eats(v, d)'
        BY <1>1, <1>2, <1>4, <1>5, <2>2, <2>3, OneEater DEF Eats, c
    <3>2. eaten[c] \o (buffer[w] \o unread[c]) = Stream(c)
        BY <1>1, <1>4, <2>1 DEF StreamInv
    <3>3. (eaten[c] \o buffer[w]) \o unread[c] = eaten[c] \o (buffer[w] \o unread[c])
        BY <1>7, ConcatBytes
    <3>4. eaten'[d] \o unread[d] = Stream(d)
        BY <1>4, <1>8, <2>3, <3>2, <3>3
    <3> QED BY <3>1, <3>4
  <2>4. CASE d # c
    <3>1. \A v \in Workers : Eats(v, d)' <=> Eats(v, d)
        BY <1>2, <1>5, <2>2, <2>4 DEF Eats, c
    <3>2. \A v \in Workers : Eats(v, d) => buffer'[v] = buffer[v]
        BY <1>6, <2>4 DEF Eats, c
    <3>3. eaten'[d] = eaten[d]
        BY <1>8, <2>4
    <3> QED BY <1>1, <2>1, <3>1, <3>2, <3>3 DEF StreamInv
  <2> QED BY <2>3, <2>4
<1> QED BY <1>9, <1>10, <1>11, <1>12, <1>13, <1>14 DEF NetSelectInv

LEMMA EatInv ==
  ASSUME NetSelectInv, NEW w \in Workers, Eat(w)
  PROVE  NetSelectInv'
<1>1. wpc[w] = "eat" /\ UNCHANGED <<readers, inQueue, queue, sockfd, job, netVars, kernelVars>>
    BY DEF Eat, At
<1>2. \/ crashed' = TRUE /\ UNCHANGED <<eaten, buffer, attached, wpc>>
      \/ /\ eaten' = [eaten EXCEPT ![job[w]] = @ \o buffer[w]]
         /\ buffer' = [buffer EXCEPT ![w] = <<>>]
         /\ attached' \subseteq attached \cup {job[w]}
         /\ \/ wpc' = [wpc EXCEPT ![w] = "clear"]
            \/ wpc' = [wpc EXCEPT ![w] = "kill"]
         /\ UNCHANGED crashed
    BY DEF Eat, WGoto
<1>3. CASE crashed' = TRUE /\ UNCHANGED <<eaten, buffer, attached, wpc>>
  <2>1. TypeOK'
      BY <1>1, <1>3 DEF NetSelectInv, TypeOK, netVars, kernelVars
  <2> QED BY <1>1, <1>3, <2>1, QuietInv DEF netVars, kernelVars
<1>4. CASE ~(crashed' = TRUE /\ UNCHANGED <<eaten, buffer, attached, wpc>>)
    BY <1>1, <1>2, <1>4, EatenInv
<1> QED BY <1>3, <1>4

LEMMA KillInv ==
  ASSUME NetSelectInv, NEW w \in Workers, Kill(w)
  PROVE  NetSelectInv'
<1>1. TypeOK /\ WorkerInv /\ JobInv /\ FreshInv /\ FdInv /\ StreamInv
    BY DEF NetSelectInv
<1>2. wpc[w] = "kill"
    BY DEF Kill, At
<1> PICK c \in Conns : c = job[w]
    BY <1>1, <1>2 DEF WorkerInv
<1>3. /\ readers' = readers \ {c} /\ inQueue' = inQueue \ {c}
      /\ wpc' = [wpc EXCEPT ![w] = "release"]
      /\ \/ /\ c \in readers /\ sockfd[c] # None
            /\ table' = [table EXCEPT ![sockfd[c]] = None]
            /\ foreign' = (foreign \/ table[sockfd[c]] \notin {c, None})
         \/ UNCHANGED <<table, foreign>>
      /\ UNCHANGED <<queue, sockfd, attached, job, buffer, netVars, eaten, crashed, peerVars,
                     unread>>
    BY DEF Kill, Killed, WGoto
<1>4. UNCHANGED <<npc, rfds, closed, backlog, connected, written, ended, detached>>
    BY <1>3 DEF netVars, peerVars
<1>5. wpc'[w] = "release" /\ \A v \in Workers : v # w => wpc'[v] = wpc[v]
    BY <1>1, <1>3 DEF TypeOK
<1>6. Busy(w) /\ \A v \in Workers : Busy(v) /\ job[v] = c => v = w
    BY <1>1, <1>2 DEF JobInv, Busy
<1>7. foreign' \in BOOLEAN /\ (foreign => foreign')
    BY <1>1, <1>3, Zenon DEF TypeOK
<1>8. TypeOK'
  <2>1. wpc' \in [Workers -> {"idle", "read", "eat", "kill", "clear", "release"}]
      BY <1>1, <1>3 DEF TypeOK
  <2>2. table' \in [Fds -> Conns \cup {None}]
      BY <1>1, <1>3 DEF TypeOK
  <2>3. readers' \subseteq Readers /\ inQueue' \subseteq readers'
      BY <1>1, <1>3 DEF TypeOK
  <2> QED BY <1>1, <1>3, <1>4, <1>7, <2>1, <2>2, <2>3 DEF TypeOK
<1>9. WorkerInv'
    BY <1>1, <1>3, <1>5, NamesAssumption DEF WorkerInv
<1>10. JobInv'
  <2>1. \A v \in Workers : Busy(v)' => Busy(v)
      BY <1>5 DEF Busy
  <2>2. \A v \in Workers : Busy(v) /\ job[v] # c => Busy(v)'
      BY <1>5 DEF Busy
  <2> QED BY <1>1, <1>3, <2>1, <2>2, JobWithout
<1>11. FreshInv'
  <2>1. \A d : InLine(d)' <=> InLine(d)
      BY <1>3 DEF InLine
  <2> QED BY <1>1, <1>3, <1>4, <2>1, FreshKeeps
<1>12. FdInv'
  <2>1. ASSUME ~foreign', NEW d \in readers' \ {Server}, sockfd'[d] # None
        PROVE  table'[sockfd'[d]] = d
    <3>1. d \in readers \ {Server, c} /\ sockfd'[d] = sockfd[d] /\ sockfd[d] # None /\ ~foreign
        BY <1>3, <1>7, <2>1
    <3>2. CASE /\ sockfd[c] # None
               /\ table' = [table EXCEPT ![sockfd[c]] = None]
               /\ foreign' = (foreign \/ table[sockfd[c]] \notin {c, None})
        BY <1>1, <2>1, <3>1, <3>2, ClosedFd
    <3>3. CASE UNCHANGED <<table, foreign>>
        BY <1>1, <3>1, <3>3 DEF FdInv
    <3> QED BY <1>3, <3>2, <3>3
  <2>2. \A d \in closed' : sockfd'[d] = None
      BY <1>1, <1>3, <1>4 DEF FdInv
  <2>3. ASSUME NEW v \in Workers, Holds(v)', job'[v] \in Conns \ readers'
        PROVE  sockfd'[job'[v]] = None
    <3>1. v # w /\ Holds(v) /\ Busy(v)
        BY <1>5, <2>3 DEF Holds, Busy
    <3>2. job[v] # c
        BY <1>6, <3>1
    <3> QED BY <1>1, <1>3, <2>3, <3>1, <3>2 DEF FdInv
  <2> QED BY <2>1, <2>2, <2>3 DEF FdInv
<1>13. StreamInv'
  <2>1. \A v \in Workers : wpc'[v] = "eat" <=> wpc[v] = "eat"
      BY <1>2, <1>5
  <2> QED BY <1>1, <1>3, <1>4, <1>7, <2>1, StreamKeeps
<1> QED BY <1>8, <1>9, <1>10, <1>11, <1>12, <1>13 DEF NetSelectInv

LEMMA ClearInv ==
  ASSUME NetSelectInv, NEW w \in Workers, Clear(w)
  PROVE  NetSelectInv'
<1>1. TypeOK /\ WorkerInv /\ JobInv /\ FreshInv /\ FdInv /\ StreamInv
    BY DEF NetSelectInv
<1>2. /\ wpc[w] = "clear" /\ wpc' = [wpc EXCEPT ![w] = "release"]
      /\ inQueue' = inQueue \ {job[w]}
      /\ UNCHANGED <<readers, queue, sockfd, attached, job, buffer, netVars, eaten, crashed,
                     kernelVars>>
    BY DEF Clear, At, WGoto, Unmark
<1>3. UNCHANGED <<npc, rfds, closed, table, backlog, connected, unread, written, ended, detached, foreign>>
    BY <1>2 DEF netVars, kernelVars
<1>4. wpc'[w] = "release" /\ \A v \in Workers : v # w => wpc'[v] = wpc[v]
    BY <1>1, <1>2 DEF TypeOK
<1>5. /\ Busy(w) /\ ~InLine(job[w])
      /\ \A v \in Workers : Busy(v) /\ job[v] = job[w] => v = w
    BY <1>1, <1>2 DEF JobInv, Busy
<1>6. \A v \in Workers : Busy(v)' <=> Busy(v) /\ v # w
    BY <1>4 DEF Busy
<1>7. \A d : InLine(d)' <=> InLine(d)
    BY <1>2 DEF InLine
<1>8. TypeOK'
  <2>1. wpc' \in [Workers -> {"idle", "read", "eat", "kill", "clear", "release"}]
      BY <1>1, <1>2 DEF TypeOK
  <2> QED BY <1>1, <1>2, <1>3, <2>1 DEF TypeOK
<1>9. WorkerInv'
    BY <1>1, <1>2, <1>4 DEF WorkerInv
<1>10. JobInv'
  <2>1. \A d : InJob(d)' <=> InJob(d) /\ d # job[w]
      BY <1>2, <1>5, <1>6 DEF InJob
  <2>2. \A d \in readers' : d \in inQueue' <=> InLine(d)' \/ InJob(d)'
      BY <1>1, <1>2, <1>5, <1>7, <2>1 DEF JobInv
  <2>3. \A i, j \in 1..Len(queue') : queue'[i] = queue'[j] => i = j
      BY <1>1, <1>2 DEF JobInv
  <2>4. \A v \in Workers : Busy(v)' => ~InLine(job[v])'
      BY <1>1, <1>2, <1>6, <1>7 DEF JobInv
  <2>5. \A u, v \in Workers : Busy(u)' /\ Busy(v)' /\ job'[u] = job'[v] => u = v
      BY <1>1, <1>2, <1>6 DEF JobInv
  <2> QED BY <2>2, <2>3, <2>4, <2>5 DEF JobInv
<1>11. FreshInv'
    BY <1>1, <1>2, <1>3, <1>7, FreshKeeps
<1>12. FdInv'
  <2>1. \A v \in Workers : Holds(v)' => Holds(v) /\ job'[v] = job[v]
      BY <1>2, <1>4 DEF Holds
  <2> QED BY <1>1, <1>2, <1>3, <2>1, FdKeeps
<1>13. StreamInv'
  <2>1. \A v \in Workers : wpc'[v] = "eat" <=> wpc[v] = "eat"
      BY <1>2, <1>4
  <2> QED BY <1>1, <1>2, <1>3, <2>1, StreamKeeps
<1> QED BY <1>8, <1>9, <1>10, <1>11, <1>12, <1>13 DEF NetSelectInv

LEMMA ReleaseInv ==
  ASSUME NetSelectInv, NEW w \in Workers, Release(w)
  PROVE  NetSelectInv'
<1>1. TypeOK /\ WorkerInv /\ JobInv /\ FreshInv /\ FdInv /\ StreamInv
    BY DEF NetSelectInv
<1> PICK c : c = job[w]
    OBVIOUS
<1>2. /\ wpc[w] = "release" /\ job' = [job EXCEPT ![w] = None]
      /\ wpc' = [wpc EXCEPT ![w] = "idle"]
      /\ UNCHANGED <<readers, inQueue, queue, buffer, netVars, eaten, crashed, peerVars, unread>>
    BY DEF Release, At, WGoto
<1>3. UNCHANGED <<npc, rfds, closed, backlog, connected, written, ended, detached>>
    BY <1>2 DEF netVars, peerVars
<1>4. \/ UNCHANGED <<attached, sockfd, table, foreign>>
      \/ /\ c \notin readers /\ attached' \subseteq attached
         /\ sockfd' = [sockfd EXCEPT ![c] = None]
         /\ \/ /\ sockfd[c] # None
               /\ table' = [table EXCEPT ![sockfd[c]] = None]
               /\ foreign' = (foreign \/ table[sockfd[c]] \notin {c, None})
            \/ UNCHANGED <<table, foreign>>
    BY DEF Release, Destroyed, Detach
<1>5. c \in Readers
    BY <1>1, <1>2 DEF WorkerInv, TypeOK
<1>6. c \in Conns \/ c \in readers
    BY <1>1, <1>5 DEF WorkerInv, Readers
<1>7. wpc'[w] = "idle" /\ \A v \in Workers : v # w => wpc'[v] = wpc[v]
    BY <1>1, <1>2 DEF TypeOK
<1>8. job'[w] = None /\ \A v \in Workers : v # w => job'[v] = job[v]
    BY <1>1, <1>2 DEF TypeOK
<1>9. \A d \in Conns : sockfd'[d] \in {sockfd[d], None} /\ (d \in readers => sockfd'[d] = sockfd[d])
    BY <1>1, <1>4 DEF TypeOK
<1>10. foreign' \in BOOLEAN /\ (foreign => foreign')
    BY <1>1, <1>4, Zenon DEF TypeOK
<1>11. \A v \in Workers : Busy(v)' <=> Busy(v)
    BY <1>2, <1>7 DEF Busy
<1>12. \A d : InLine(d)' <=> InLine(d)
    BY <1>2 DEF InLine
<1>13. TypeOK'
  <2>1. wpc' \in [Workers -> {"idle", "read", "eat", "kill", "clear", "release"}]
      BY <1>1, <1>2 DEF TypeOK
  <2>2. job' \in [Workers -> Readers \cup {None}]
      BY <1>1, <1>2 DEF TypeOK
  <2>3. sockfd' \in [Conns -> Fds \cup {None}] /\ attached' \subseteq Conns
      BY <1>1, <1>4 DEF TypeOK
  <2>4. table' \in [Fds -> Conns \cup {None}]
      BY <1>1, <1>4 DEF TypeOK
  <2> QED BY <1>1, <1>2, <1>3, <1>10, <2>1, <2>2, <2>3, <2>4 DEF TypeOK
<1>14. WorkerInv'
    BY <1>1, <1>2, <1>7, <1>8 DEF WorkerInv
<1>15. JobInv'
  <2>1. \A v \in Workers : Busy(v) => v # w /\ job'[v] = job[v]
      BY <1>2, <1>8 DEF Busy
  <2>2. \A d : InJob(d)' <=> InJob(d)
      BY <1>11, <2>1 DEF InJob
  <2>3. \A i, j \in 1..Len(queue') : queue'[i] = queue'[j] => i = j
      BY <1>1, <1>2 DEF JobInv
  <2>4. \A v \in Workers : Busy(v)' => ~InLine(job[v])'
      BY <1>1, <1>11, <1>12, <2>1 DEF JobInv
  <2>5. \A u, v \in Workers : Busy(u)' /\ Busy(v)' /\ job'[u] = job'[v] => u = v
      BY <1>1, <1>11, <2>1 DEF JobInv
  <2>6. \A d \in readers' : d \in inQueue' <=> InLine(d)' \/ InJob(d)'
      BY <1>1, <1>2, <1>12, <2>2 DEF JobInv
  <2> QED BY <2>3, <2>4, <2>5, <2>6 DEF JobInv
<1>16. FreshInv'
    BY <1>1, <1>2, <1>3, <1>8, <1>9, <1>12, FreshKeeps
<1>17. FdInv'
  <2>1. ASSUME ~foreign', NEW d \in readers' \ {Server}, sockfd'[d] # None
        PROVE  table'[sockfd'[d]] = d
    <3>1. d \in readers \ {Server} /\ d \in Conns
        BY <1>1, <1>2, <2>1 DEF TypeOK, Readers
    <3>2. sockfd'[d] = sockfd[d] /\ sockfd[d] # None /\ ~foreign
        BY <1>9, <1>10, <2>1, <3>1
    <3>3. CASE /\ c \notin readers /\ sockfd[c] # None
               /\ table' = [table EXCEPT ![sockfd[c]] = None]
               /\ foreign' = (foreign \/ table[sockfd[c]] \notin {c, None})
      <4>1. c \in Conns /\ d # c
          BY <1>6, <3>1, <3>3
      <4> QED BY <1>1, <2>1, <3>1, <3>2, <3>3, <4>1, ClosedFd
    <3>4. CASE UNCHANGED <<table, foreign>>
        BY <1>1, <3>1, <3>2, <3>4 DEF FdInv
    <3> QED BY <1>4, <3>3, <3>4
  <2>2. \A d \in closed' : sockfd'[d] = None
      BY <1>1, <1>3, <1>9 DEF FdInv, TypeOK
  <2>3. ASSUME NEW v \in Workers, Holds(v)', job'[v] \in Conns \ readers'
        PROVE  sockfd'[job'[v]] = None
    <3>1. v # w /\ Holds(v) /\ job'[v] = job[v]
        BY <1>7, <1>8, <2>3 DEF Holds
    <3> QED BY <1>1, <1>2, <1>9, <2>3, <3>1 DEF FdInv
  <2> QED BY <2>1, <2>2, <2>3 DEF FdInv
<1>18. StreamInv'
  <2>1. \A v \in Workers : wpc'[v] = "eat" <=> wpc[v] = "eat"
      BY <1>2, <1>7
  <2>2. \A v \in Workers : wpc[v] = "eat" => job'[v] = job[v] /\ buffer'[v] = buffer[v]
      BY <1>2, <1>8
  <2> QED BY <1>1, <1>2, <1>3, <1>10, <2>1, <2>2, StreamKeeps
<1> QED BY <1>13, <1>14, <1>15, <1>16, <1>17, <1>18 DEF NetSelectInv

LEMMA TreatInv ==
  ASSUME NetSelectInv, NEW w \in Workers, Treat(w)
  PROVE  NetSelectInv'
BY GetReaderInv, AcceptInv, RecvInv, EatInv, KillInv, ClearInv, ReleaseInv DEF Treat

LEMMA DetachAllNodesInv ==
  ASSUME NetSelectInv, DetachAllNodes
  PROVE  NetSelectInv'
<1>1. TypeOK /\ WorkerInv /\ JobInv /\ FreshInv /\ FdInv /\ StreamInv
    BY DEF NetSelectInv
<1>2. /\ attached' = {} /\ detached' = TRUE
      /\ sockfd' = [c \in Conns |-> IF c \in attached THEN None ELSE sockfd[c]]
      /\ table' = [f \in Fds |-> IF \E c \in attached : sockfd[c] = f THEN None ELSE table[f]]
      /\ UNCHANGED <<readers, inQueue, queue, wpc, job, buffer, netVars, eaten, crashed, connected,
                     backlog, written, ended, unread>>
    BY DEF DetachAllNodes
<1>3. foreign' = (foreign \/ \E c \in attached :
                               sockfd[c] # None /\ table[sockfd[c]] \notin {c, None})
    BY DEF DetachAllNodes
<1>4. UNCHANGED <<npc, rfds, closed, backlog, connected, written, ended>>
    BY <1>2 DEF netVars
<1>5. \A c \in Conns : sockfd'[c] \in {sockfd[c], None} /\ (sockfd'[c] # None => c \notin attached)
    BY <1>2
<1>6. foreign' \in BOOLEAN /\ (foreign => foreign')
    BY <1>1, <1>3, Zenon DEF TypeOK
<1>7. \A d : InLine(d)' <=> InLine(d)
    BY <1>2 DEF InLine
<1>8. TypeOK'
  <2>1. sockfd' \in [Conns -> Fds \cup {None}]
      BY <1>1, <1>2 DEF TypeOK
  <2>2. table' \in [Fds -> Conns \cup {None}]
      BY <1>1, <1>2 DEF TypeOK
  <2> QED BY <1>1, <1>2, <1>4, <1>6, <2>1, <2>2 DEF TypeOK
<1>9. WorkerInv'
    BY <1>1, <1>2 DEF WorkerInv
<1>10. JobInv'
    BY <1>1, <1>2, JobSame DEF Busy
<1>11. FreshInv'
    BY <1>1, <1>2, <1>4, <1>5, <1>7, FreshKeeps
<1>12. FdInv'
  <2>1. ASSUME ~foreign', NEW d \in readers' \ {Server}, sockfd'[d] # None
        PROVE  table'[sockfd'[d]] = d
    <3>1. d \in readers \ {Server} /\ d \in Conns
        BY <1>1, <1>2, <2>1 DEF TypeOK, Readers
    <3>2. sockfd'[d] = sockfd[d] /\ sockfd[d] # None /\ d \notin attached /\ ~foreign
        BY <1>5, <1>6, <2>1, <3>1
    <3>3. sockfd[d] \in Fds /\ table[sockfd[d]] = d
        BY <1>1, <3>1, <3>2 DEF FdInv, TypeOK
    <3>4. ASSUME NEW c \in attached, sockfd[c] = sockfd[d] PROVE FALSE
      <4>1. table[sockfd[c]] \in {c, None}
          BY <1>3, <2>1, <3>2, <3>4
      <4> QED BY <3>1, <3>2, <3>3, <3>4, <4>1, NamesAssumption
    <3> QED BY <1>2, <3>2, <3>3, <3>4
  <2>2. \A d \in closed' : sockfd'[d] = None
      BY <1>1, <1>4, <1>5 DEF FdInv, TypeOK
  <2>3. \A v \in Workers : Holds(v)' /\ job'[v] \in Conns \ readers' => sockfd'[job'[v]] = None
      BY <1>1, <1>2, <1>5 DEF FdInv, Holds
  <2> QED BY <2>1, <2>2, <2>3 DEF FdInv
<1>13. StreamInv'
    BY <1>1, <1>2, <1>4, <1>6, StreamKeeps
<1> QED BY <1>8, <1>9, <1>10, <1>11, <1>12, <1>13 DEF NetSelectInv

-----------------------------------------------------------------------------
(* The theorems *)

LEMMA NetSelectInvStep == NetSelectInv /\ [Next]_vars => NetSelectInv'
<1> SUFFICES ASSUME NetSelectInv, [Next]_vars PROVE NetSelectInv'
    OBVIOUS
<1>1. CASE \E c \in Conns : Connect(c) \/ PeerWrites(c) \/ PeerEnds(c)
    BY <1>1, ConnectInv, PeerWritesInv, PeerEndsInv
<1>2. CASE NetThread
    BY <1>2, NetThreadInv
<1>3. CASE \E w \in Workers : Treat(w)
    BY <1>3, TreatInv
<1>4. CASE DetachAllNodes
    BY <1>4, DetachAllNodesInv
<1>5. CASE UNCHANGED vars
  <2>1. UNCHANGED <<procVars, kernelVars>>
      BY <1>5 DEF vars
  <2>2. TypeOK'
      BY <2>1 DEF NetSelectInv, TypeOK, procVars, kernelVars
  <2> QED BY <2>1, <2>2, QuietInv DEF procVars, kernelVars
<1> QED BY <1>1, <1>2, <1>3, <1>4, <1>5 DEF Next

\* The readers, their marks, their jobs, their sockets and the bytes on their
\* way stay consistent, whatever the peers, the threads and the relay do.
THEOREM Consistent == Spec => []NetSelectInv
<1>1. NetSelectInv /\ [Next]_vars => NetSelectInv'
    BY NetSelectInvStep
<1> QED BY <1>1, NetSelectInvInit, PTL DEF Spec

LEMMA OneJobEachFollows == NetSelectInv => OneJobEach
<1> SUFFICES ASSUME NetSelectInv, NEW c \in readers
             PROVE  Cardinality(Queued(c)) + Cardinality(Reading(c))
                    = IF c \in inQueue THEN 1 ELSE 0
    BY DEF OneJobEach
<1>1. JobInv
    BY DEF NetSelectInv
<1>2. \A x : Cardinality({x}) = 1
    BY FS_Singleton
<1>3. Cardinality({}) = 0
    BY FS_EmptySet
<1>4. Reading(c) = {w \in Workers : Busy(w) /\ job[w] = c}
    BY DEF Reading, Busy
<1>5. CASE InLine(c)
  <2>1. PICK i \in 1..Len(queue) : queue[i] = c
      BY <1>5 DEF InLine
  <2>2. Queued(c) = {i}
      BY <1>1, <2>1 DEF JobInv, Queued
  <2>3. Reading(c) = {}
      BY <1>1, <1>4, <1>5 DEF JobInv
  <2>4. c \in inQueue
      BY <1>1, <1>5 DEF JobInv
  <2>5. Cardinality(Queued(c)) = 1 /\ Cardinality(Reading(c)) = 0
      BY <1>2, <1>3, <2>2, <2>3
  <2> QED BY <2>4, <2>5
<1>6. CASE ~InLine(c) /\ InJob(c)
  <2>1. PICK w \in Workers : Busy(w) /\ job[w] = c
      BY <1>6 DEF InJob
  <2>2. Reading(c) = {w}
      BY <1>1, <1>4, <2>1 DEF JobInv
  <2>3. Queued(c) = {}
      BY <1>6 DEF InLine, Queued
  <2>4. c \in inQueue
      BY <1>1, <1>6 DEF JobInv
  <2> QED BY <1>2, <1>3, <2>2, <2>3, <2>4
<1>7. CASE ~InLine(c) /\ ~InJob(c)
  <2>1. Queued(c) = {} /\ Reading(c) = {}
      BY <1>4, <1>7 DEF InLine, InJob, Queued
  <2>2. c \notin inQueue
      BY <1>1, <1>7 DEF JobInv
  <2> QED BY <1>3, <2>1, <2>2
<1> QED BY <1>5, <1>6, <1>7

\* No reader is ever read by two threads, or forgotten with its mark set.
THEOREM OneJobEachHolds == Spec => []OneJobEach
BY Consistent, OneJobEachFollows, PTL

LEMMA BytesInOrderFollows == NetSelectInv => BytesInOrder
<1> SUFFICES ASSUME NetSelectInv, ~foreign, NEW c \in Conns
             PROVE  eaten[c] = [i \in 1..Len(eaten[c]) |-> <<c, i>>]
    BY DEF BytesInOrder
<1>1. TypeOK /\ StreamInv
    BY DEF NetSelectInv
<1>2. eaten[c] \in Seq(Bytes) /\ unread[c] \in Seq(Bytes) /\ written[c] \in Nat
    BY <1>1 DEF TypeOK
<1>3. \E rest \in Seq(Bytes) : eaten[c] \o rest = Stream(c)
  <2>1. CASE \E w \in Workers : Eats(w, c)
    <3>1. PICK w \in Workers : Eats(w, c)
        BY <2>1
    <3>2. eaten[c] \o (buffer[w] \o unread[c]) = Stream(c)
        BY <1>1, <3>1 DEF StreamInv
    <3>3. buffer[w] \in Seq(Bytes)
        BY <1>1 DEF TypeOK
    <3>4. buffer[w] \o unread[c] \in Seq(Bytes)
        BY <1>2, <3>3, ConcatProperties
    <3> QED BY <3>2, <3>4
  <2>2. CASE \A w \in Workers : ~Eats(w, c)
      BY <1>1, <1>2, <2>2 DEF StreamInv
  <2> QED BY <2>1, <2>2
<1>4. PICK rest \in Seq(Bytes) : eaten[c] \o rest = Stream(c)
    BY <1>3
<1> DEFINE n == Len(eaten[c])
           s == [i \in 1..n |-> <<c, i>>]
<1>5. n \in Nat /\ Len(rest) \in Nat
    BY <1>2
<1>6. s \in Seq(Bytes) /\ Len(s) = n /\ \A i \in 1..n : s[i] = <<c, i>>
    BY <1>5, StreamIs
<1>7. Len(Stream(c)) = written[c] /\ \A i \in 1..written[c] : Stream(c)[i] = <<c, i>>
    BY <1>2, StreamIs DEF Stream
<1>8. /\ Len(eaten[c] \o rest) = n + Len(rest)
      /\ \A i \in 1..n : (eaten[c] \o rest)[i] = eaten[c][i]
    BY <1>2, ConcatProperties
<1>9. \A i \in 1..n : eaten[c][i] = <<c, i>>
    BY <1>2, <1>4, <1>5, <1>7, <1>8
<1> HIDE DEF s
<1>10. eaten[c] = s
    BY <1>2, <1>6, <1>9, SeqEqual
<1> QED BY <1>10 DEF s

\* A RelaySocket is given the bytes its own peer wrote, in order and without a
\* gap, for as long as no close() hit another connection's descriptor.
THEOREM BytesInOrderHolds == Spec => []BytesInOrder
BY Consistent, BytesInOrderFollows, PTL

-----------------------------------------------------------------------------
(* Readers with data *)

\* A reader's descriptor is readable when the reader has data.
LEMMA ReadableIs ==
  ASSUME TypeOK, FdInv, ~foreign, NEW c \in readers, Fd(c) # None
  PROVE  Readable(Fd(c)) <=> HasData(c)
<1>1. CASE c = Server
    BY <1>1 DEF Fd, Readable, HasData
<1>2. CASE c # Server
  <2>1. c \in Conns /\ Fd(c) = sockfd[c] /\ sockfd[c] \in Fds
      BY <1>2 DEF TypeOK, Readers, Fd
  <2>2. table[sockfd[c]] = c
      BY <1>2, <2>1 DEF FdInv
  <2>3. sockfd[c] # Server /\ c # None
      BY <2>1, NamesAssumption
  <2> QED BY <1>2, <2>1, <2>2, <2>3 DEF Readable, HasData
<1> QED BY <1>1, <1>2

\* Two readers have two descriptors.
LEMMA FdOnce ==
  ASSUME TypeOK, FdInv, ~foreign, NEW c \in readers, NEW d \in readers, Fd(c) = Fd(d), Fd(c) # None
  PROVE  c = d
<1>1. \A r \in readers : r = Server \/ (r \in Conns /\ Fd(r) = sockfd[r])
    BY DEF TypeOK, Readers, Fd
<1>2. CASE c = Server \/ d = Server
  <2>1. Fd(c) = Server
      BY <1>2 DEF Fd
  <2>2. \A r \in readers : Fd(r) = Server => r = Server
      BY <1>1, NamesAssumption DEF TypeOK
  <2> QED BY <2>1, <2>2
<1>3. CASE c # Server /\ d # Server
    BY <1>1, <1>3 DEF FdInv
<1> QED BY <1>2, <1>3

\* A step that takes no data from a reader that is watched, or still to be read
LEMMA ReadyKeeps ==
  ASSUME TypeOK, ReadyInv, foreign => foreign', detached => detached', inQueue' \subseteq inQueue,
         npc' \in {"select", "dispatch"} => UNCHANGED <<npc, rfds>> /\ Watched \subseteq Watched',
         \A c : ToRead(c)' => ToRead(c),
         \A c \in readers : Fd(c)' = Fd(c),
         \A c \in readers : (c \in Watched \/ ToRead(c)') /\ HasData(c) => HasData(c)'
  PROVE  ReadyInv'
<1> SUFFICES ASSUME ~foreign', ~detached' PROVE WatchInv' /\ MarkInv'
    BY DEF ReadyInv
<1>1. WatchInv /\ MarkInv
    BY DEF ReadyInv
<1>2. WatchInv'
  <2> SUFFICES ASSUME npc' \in {"select", "dispatch"}, NEW f \in rfds'
               PROVE  \E c \in Watched' : Fd(c)' = f /\ (npc' = "dispatch" => HasData(c)')
      BY DEF WatchInv
  <2>1. PICK c \in Watched : Fd(c) = f /\ (npc = "dispatch" => HasData(c))
      BY <1>1 DEF WatchInv
  <2>2. c \in readers
      BY <2>1 DEF Watched
  <2> QED BY <2>1, <2>2
<1>3. MarkInv'
  <2> SUFFICES ASSUME NEW c \in inQueue', ToRead(c)', Fd(c)' # None PROVE HasData(c)'
      BY DEF MarkInv
  <2>1. c \in readers /\ c \in inQueue
      BY DEF TypeOK
  <2>2. HasData(c)
      BY <1>1, <2>1 DEF MarkInv
  <2> QED BY <2>1, <2>2
<1> QED BY <1>2, <1>3

LEMMA PeersReady ==
  ASSUME NetSelectInv, ReadyInv, NEW c \in Conns, Connect(c) \/ PeerWrites(c) \/ PeerEnds(c)
  PROVE  ReadyInv'
<1>1. TypeOK
    BY DEF NetSelectInv
<1>2. UNCHANGED <<procVars, table, detached, foreign>>
    BY DEF Connect, PeerWrites, PeerEnds
<1>3. UNCHANGED <<readers, inQueue, queue, sockfd, wpc, job, npc, rfds>>
    BY <1>2 DEF procVars
<1>4. backlog \subseteq backlog' /\ ended \subseteq ended'
    BY DEF Connect, PeerWrites, PeerEnds
<1>5. \A d \in Conns : unread[d] # <<>> => unread'[d] # <<>>
  <2>1. CASE UNCHANGED unread
      BY <2>1
  <2>2. CASE PeerWrites(c)
    <3>1. PICK e : unread' = [unread EXCEPT ![c] = Append(@, e)]
        BY <2>2 DEF PeerWrites
    <3>2. unread[c] \in Seq(Bytes)
        BY <1>1 DEF TypeOK
    <3>3. Append(unread[c], e) # <<>>
        BY <3>2
    <3> QED BY <1>1, <3>1, <3>3 DEF TypeOK
  <2> QED BY <2>1, <2>2 DEF Connect, PeerEnds
<1>6. \A d \in readers : HasData(d) => HasData(d)'
    BY <1>1, <1>4, <1>5 DEF HasData, TypeOK, Readers
<1>7. \A d : (ToRead(d)' <=> ToRead(d)) /\ Fd(d)' = Fd(d)
    BY <1>3 DEF ToRead, InLine, Fd
<1>8. Watched' = Watched
    BY <1>3 DEF Watched
<1> QED BY <1>1, <1>2, <1>3, <1>6, <1>7, <1>8, ReadyKeeps

\* The steps of the selecting thread change what it watches, and the marks.
LEMMA BuildReady == ASSUME NetSelectInv, ReadyInv, Build PROVE ReadyInv'
<1>1. /\ rfds' = {Fd(c) : c \in Watched} \ {None} /\ npc' = "select"
      /\ UNCHANGED <<readers, inQueue, queue, sockfd, wpc, job, backlog, unread, ended, detached,
                     foreign>>
    BY DEF Build, Goto, kernelVars
<1>2. \A c : (ToRead(c)' <=> ToRead(c)) /\ Fd(c)' = Fd(c) /\ (HasData(c)' <=> HasData(c))
    BY <1>1 DEF ToRead, InLine, Fd, HasData
<1>3. Watched' = Watched
    BY <1>1 DEF Watched
<1>4. WatchInv'
    BY <1>1, <1>2, <1>3 DEF WatchInv
<1>5. MarkInv => MarkInv'
    BY <1>1, <1>2 DEF MarkInv
<1> QED BY <1>1, <1>4, <1>5 DEF ReadyInv

LEMMA SelectReady == ASSUME NetSelectInv, ReadyInv, Select PROVE ReadyInv'
<1>1. /\ npc = "select" /\ npc' = "dispatch"
      /\ rfds' = IF \E f \in rfds \ {Server} : table[f] = None THEN rfds
                 ELSE {f \in rfds : Readable(f)}
      /\ UNCHANGED <<readers, inQueue, queue, sockfd, wpc, job, backlog, unread, ended, detached,
                     foreign>>
    BY DEF Select, Goto, kernelVars
<1> SUFFICES ASSUME ~foreign, ~detached PROVE WatchInv' /\ MarkInv'
    BY <1>1 DEF ReadyInv
<1>2. TypeOK /\ FdInv /\ WatchInv /\ MarkInv
    BY DEF NetSelectInv, ReadyInv
<1>3. \A c : (ToRead(c)' <=> ToRead(c)) /\ Fd(c)' = Fd(c) /\ (HasData(c)' <=> HasData(c))
    BY <1>1 DEF ToRead, InLine, Fd, HasData
<1>4. Watched' = Watched /\ Watched \subseteq readers
    BY <1>1 DEF Watched
<1>5. \A f \in rfds : f # None /\ \E c \in Watched : Fd(c) = f
    BY <1>1, <1>2, NamesAssumption DEF WatchInv, TypeOK
<1>6. ASSUME NEW f \in rfds \ {Server} PROVE table[f] # None
  <2>1. PICK c \in Watched : Fd(c) = f
      BY <1>5
  <2>2. c \in readers \ {Server} /\ sockfd[c] = f /\ c \in Conns
      BY <1>2, <1>4, <1>6, <2>1 DEF Fd, TypeOK, Readers
  <2> QED BY <1>2, <1>5, <2>2, NamesAssumption DEF FdInv
<1>7. rfds' = {f \in rfds : Readable(f)}
    BY <1>1, <1>6
<1>8. WatchInv'
  <2> SUFFICES ASSUME NEW f \in rfds' PROVE \E c \in Watched' : Fd(c)' = f /\ HasData(c)'
      BY <1>1 DEF WatchInv
  <2>1. PICK c \in Watched : Fd(c) = f
      BY <1>5, <1>7
  <2>2. c \in readers /\ Fd(c) # None /\ Readable(Fd(c))
      BY <1>4, <1>5, <1>7, <2>1
  <2>3. HasData(c)
      BY <1>2, <2>2, ReadableIs
  <2> QED BY <1>3, <1>4, <2>1, <2>3
<1>9. MarkInv'
    BY <1>1, <1>2, <1>3 DEF MarkInv
<1> QED BY <1>8, <1>9

LEMMA DispatchReady ==
  ASSUME NetSelectInv, NetSelectInv', ReadyInv, Dispatch
  PROVE  ReadyInv'
<1> DEFINE ready == {c \in readers \ inQueue : Fd(c) \in rfds}
<1>1. /\ npc = "dispatch" /\ npc' = "kill" /\ inQueue' = inQueue \cup ready
      /\ UNCHANGED <<readers, sockfd, wpc, job, backlog, unread, ended, detached, foreign>>
    BY DEF Dispatch, Goto, kernelVars
<1> SUFFICES ASSUME ~foreign, ~detached PROVE WatchInv' /\ MarkInv'
    BY <1>1 DEF ReadyInv
<1>2. TypeOK /\ FdInv /\ JobInv /\ JobInv' /\ WatchInv /\ MarkInv
    BY DEF NetSelectInv, ReadyInv
<1>3. WatchInv'
    BY <1>1 DEF WatchInv
<1>4. \A c : Fd(c)' = Fd(c) /\ (HasData(c)' <=> HasData(c))
    BY <1>1 DEF Fd, HasData
<1>5. ASSUME NEW c \in ready PROVE HasData(c)
  <2>1. PICK d \in Watched : Fd(d) = Fd(c) /\ HasData(d)
      BY <1>1, <1>2, <1>5 DEF WatchInv
  <2>2. Fd(c) # None
      BY <1>2, <1>5, NamesAssumption DEF TypeOK
  <2>3. c = d
      BY <1>2, <1>5, <2>1, <2>2, FdOnce DEF Watched
  <2> QED BY <2>1, <2>3
<1>6. ASSUME NEW c \in inQueue, ToRead(c)' PROVE ToRead(c)
  <2>1. InLine(c) \/ InJob(c)
      BY <1>2, <1>6 DEF JobInv, TypeOK
  <2>2. CASE InLine(c)
      BY <2>2 DEF ToRead
  <2>3. CASE InJob(c)
    <3>1. PICK w \in Workers : Busy(w) /\ job[w] = c
        BY <2>3 DEF InJob
    <3>2. Busy(w)' /\ job'[w] = c
        BY <1>1, <3>1 DEF Busy
    <3>3. ~InLine(c)'
        BY <1>2, <3>2 DEF JobInv
    <3> QED BY <1>1, <1>6, <3>3 DEF ToRead
  <2> QED BY <2>1, <2>2, <2>3
<1>7. MarkInv'
    BY <1>1, <1>2, <1>4, <1>5, <1>6 DEF MarkInv
<1> QED BY <1>3, <1>7

LEMMA NetThreadReady ==
  ASSUME NetSelectInv, NetSelectInv', ReadyInv, NetThread
  PROVE  ReadyInv'
<1>1. TypeOK
    BY DEF NetSelectInv
<1>2. ASSUME NEW c \in closed, KillClosed(c) PROVE ReadyInv'
  <2>1. c \in Conns /\ sockfd[c] = None
      BY DEF NetSelectInv, TypeOK, FdInv
  <2>2. /\ npc = "kill" /\ readers' = readers \ {c} /\ inQueue' = inQueue \ {c}
        /\ UNCHANGED <<queue, sockfd, wpc, job, npc, backlog, unread, ended, detached, foreign>>
      BY <1>2, <2>1 DEF KillClosed, Killed, peerVars
  <2>3. \A d : (ToRead(d)' <=> ToRead(d)) /\ Fd(d)' = Fd(d) /\ (HasData(d)' <=> HasData(d))
      BY <2>2 DEF ToRead, InLine, Fd, HasData
  <2> QED BY <1>1, <2>2, <2>3, ReadyKeeps
<1>3. ASSUME LoopAgain PROVE ReadyInv'
  <2>1. /\ npc' = "build"
        /\ UNCHANGED <<inQueue, queue, sockfd, wpc, job, backlog, unread, ended, detached, foreign>>
      BY <1>3 DEF LoopAgain, Goto, kernelVars
  <2>2. \A d : (ToRead(d)' <=> ToRead(d)) /\ Fd(d)' = Fd(d) /\ (HasData(d)' <=> HasData(d))
      BY <2>1 DEF ToRead, InLine, Fd, HasData
  <2> QED BY <1>1, <2>1, <2>2, ReadyKeeps
<1> QED BY <1>2, <1>3, BuildReady, SelectReady, DispatchReady DEF NetThread

LEMMA GetReaderReady ==
  ASSUME NetSelectInv, ReadyInv, NEW w \in Workers, GetReader(w)
  PROVE  ReadyInv'
<1> DEFINE h == Head(queue)
<1>1. TypeOK
    BY DEF NetSelectInv
<1>2. /\ wpc[w] = "idle" /\ queue # <<>> /\ queue' = Tail(queue) /\ inQueue' = inQueue
      /\ \/ job' = [job EXCEPT ![w] = h] /\ wpc' = [wpc EXCEPT ![w] = "read"]
         \/ UNCHANGED <<job, wpc>>
      /\ UNCHANGED <<readers, sockfd, npc, rfds, backlog, unread, ended, detached, foreign>>
    BY DEF GetReader, At, WGoto, Marks, kernelVars, netVars
<1>3. queue \in Seq(Readers)
    BY <1>1 DEF TypeOK
<1>4. /\ h = queue[1] /\ Len(queue) \in Nat \ {0} /\ Len(queue') = Len(queue) - 1
      /\ \A i \in 1..Len(queue') : i + 1 \in 1..Len(queue) /\ queue'[i] = queue[i + 1]
    BY <1>2, <1>3
<1> HIDE DEF h
<1>5. InLine(h) /\ \A c : InLine(c)' => InLine(c)
    BY <1>4 DEF InLine
<1>6. \A v \in Workers : wpc'[v] = "read" => (wpc[v] = "read" /\ job'[v] = job[v]) \/ job'[v] = h
    BY <1>1, <1>2 DEF TypeOK
<1>7. \A c : ToRead(c)' => ToRead(c)
    BY <1>5, <1>6 DEF ToRead
<1>8. \A c : Fd(c)' = Fd(c) /\ (HasData(c)' <=> HasData(c))
    BY <1>2 DEF Fd, HasData
<1>9. Watched' = Watched
    BY <1>2 DEF Watched
<1> QED BY <1>1, <1>2, <1>7, <1>8, <1>9, ReadyKeeps

\* What a worker is about to read, it alone is.
LEMMA OneToRead ==
  ASSUME JobInv, NEW w \in Workers, wpc[w] = "read", UNCHANGED <<queue, job>>,
         wpc'[w] # "read", \A v \in Workers : v # w => wpc'[v] = wpc[v]
  PROVE  ~ToRead(job[w])' /\ \A c : ToRead(c)' => ToRead(c)
<1>1. Busy(w) /\ ~InLine(job[w])
    BY DEF JobInv, Busy
<1>2. \A v \in Workers : wpc[v] = "read" /\ job[v] = job[w] => v = w
    BY <1>1 DEF JobInv, Busy
<1> QED BY <1>1, <1>2 DEF ToRead, InLine

LEMMA AcceptReady ==
  ASSUME NetSelectInv, ReadyInv, NEW w \in Workers, NEW c \in Conns, NEW f \in Fds, Accept(w, c, f)
  PROVE  ReadyInv'
<1>1. TypeOK /\ WorkerInv /\ JobInv /\ FreshInv
    BY DEF NetSelectInv
<1>2. /\ wpc[w] = "read" /\ job[w] = Server /\ c \in backlog
      /\ sockfd' = [sockfd EXCEPT ![c] = f] /\ readers' = readers \cup {c}
      /\ wpc' = [wpc EXCEPT ![w] = "clear"]
      /\ UNCHANGED <<inQueue, queue, job, npc, rfds, unread, ended, detached, foreign>>
    BY DEF Accept, At, WGoto, netVars
<1>3. c \notin readers
    BY <1>1, <1>2 DEF FreshInv, Unaccepted
<1>4. wpc'[w] = "clear" /\ \A v \in Workers : v # w => wpc'[v] = wpc[v]
    BY <1>1, <1>2 DEF TypeOK
<1>5. Server \in inQueue
    BY <1>1, <1>2 DEF JobInv, WorkerInv, InJob, Busy
<1>6. ~ToRead(Server)' /\ \A d : ToRead(d)' => ToRead(d)
    BY <1>1, <1>2, <1>4, OneToRead
<1>7. \A d \in readers : Fd(d)' = Fd(d)
    BY <1>1, <1>2, <1>3 DEF Fd, TypeOK, Readers
<1>8. \A d \in readers : (d \in Watched \/ ToRead(d)') /\ HasData(d) => HasData(d)'
    BY <1>2, <1>5, <1>6 DEF Watched, HasData
<1>9. Watched \subseteq Watched'
    BY <1>2 DEF Watched
<1> QED BY <1>1, <1>2, <1>6, <1>7, <1>8, <1>9, ReadyKeeps

LEMMA RecvReady ==
  ASSUME NetSelectInv, ReadyInv, NEW w \in Workers, Recv(w)
  PROVE  ReadyInv'
<1> DEFINE fd == sockfd[job[w]]
<1>1. TypeOK /\ WorkerInv /\ JobInv /\ FdInv
    BY DEF NetSelectInv
<1>2. /\ wpc[w] = "read" /\ job[w] # Server
      /\ UNCHANGED <<readers, inQueue, queue, sockfd, job, npc, rfds, backlog, ended, detached,
                     foreign>>
    BY DEF Recv, At, netVars, peerVars
<1>3. job[w] \in Conns
    BY <1>1, <1>2 DEF WorkerInv, TypeOK, Readers
<1>4. \/ /\ fd # None /\ table[fd] # None
         /\ unread' = [unread EXCEPT ![table[fd]] = <<>>]
         /\ wpc' = [wpc EXCEPT ![w] = "eat"]
      \/ wpc' = [wpc EXCEPT ![w] = "kill"] /\ UNCHANGED unread
      \/ UNCHANGED <<unread, wpc>>
    BY DEF Recv, WGoto
<1>5. \A c : Fd(c)' = Fd(c)
    BY <1>2 DEF Fd
<1>6. Watched' = Watched
    BY <1>2 DEF Watched
<1>7. CASE UNCHANGED <<unread, wpc>>
  <2>1. \A c : (ToRead(c)' <=> ToRead(c)) /\ (HasData(c)' <=> HasData(c))
      BY <1>2, <1>7 DEF ToRead, InLine, HasData
  <2> QED BY <1>1, <1>2, <1>5, <1>6, <2>1, ReadyKeeps
<1>8. ASSUME wpc' = [wpc EXCEPT ![w] = "eat"] \/ wpc' = [wpc EXCEPT ![w] = "kill"]
      PROVE  ~ToRead(job[w])' /\ \A c : ToRead(c)' => ToRead(c)
  <2>1. wpc'[w] # "read" /\ \A v \in Workers : v # w => wpc'[v] = wpc[v]
      BY <1>1, <1>8 DEF TypeOK
  <2> QED BY <1>1, <1>2, <2>1, OneToRead
<1>9. CASE wpc' = [wpc EXCEPT ![w] = "kill"] /\ UNCHANGED unread
  <2>1. \A c : HasData(c)' <=> HasData(c)
      BY <1>2, <1>9 DEF HasData
  <2> QED BY <1>1, <1>2, <1>5, <1>6, <1>8, <1>9, <2>1, ReadyKeeps
<1>10. CASE /\ fd # None /\ table[fd] # None
            /\ unread' = [unread EXCEPT ![table[fd]] = <<>>]
            /\ wpc' = [wpc EXCEPT ![w] = "eat"]
  <2>1. CASE foreign \/ detached
      BY <1>2, <2>1 DEF ReadyInv
  <2>2. CASE ~foreign /\ ~detached
    <3>1. job[w] \in readers \ {Server}
        BY <1>1, <1>2, <1>3, <1>10, <2>2, NamesAssumption DEF FdInv, Holds
    <3>2. table[fd] = job[w]
        BY <1>1, <1>10, <2>2, <3>1 DEF FdInv
    <3>3. job[w] \in inQueue
        BY <1>1, <1>2, <3>1 DEF JobInv, InJob, Busy
    <3>4. \A c \in Conns : c # job[w] => unread'[c] = unread[c]
        BY <1>1, <1>3, <1>10, <3>2 DEF TypeOK
    <3>5. \A c \in readers : (c \in Watched \/ ToRead(c)') /\ HasData(c) => HasData(c)'
        BY <1>1, <1>2, <1>8, <1>10, <3>3, <3>4 DEF Watched, HasData, TypeOK, Readers
    <3> QED BY <1>1, <1>2, <1>5, <1>6, <1>8, <1>10, <3>5, ReadyKeeps
  <2> QED BY <2>1, <2>2
<1> QED BY <1>4, <1>7, <1>9, <1>10

\* A worker past recv() touches the marks and the sockets of its own reader.
LEMMA AfterReadReady ==
  ASSUME NetSelectInv, ReadyInv, NEW w \in Workers, Eat(w) \/ Kill(w) \/ Clear(w) \/ Release(w)
  PROVE  ReadyInv'
<1>1. TypeOK /\ WorkerInv /\ JobInv
    BY DEF NetSelectInv
<1>2. UNCHANGED <<queue, npc, rfds, backlog, unread, ended, detached>>
    BY DEF Eat, Kill, Clear, Release, netVars, peerVars, kernelVars
<1>3. /\ inQueue' \in {inQueue, inQueue \ {job[w]}}
      /\ \/ readers' = readers
         \/ wpc[w] = "kill" /\ readers' = readers \ {job[w]} /\ inQueue' = inQueue \ {job[w]}
    BY DEF Eat, Kill, Killed, Clear, Unmark, Release, At
<1>4. foreign => foreign'
    BY DEF Eat, Kill, Killed, Clear, Release, Destroyed, kernelVars
<1>5. \A c : ToRead(c)' => ToRead(c)
  <2>1. \A v \in Workers : wpc'[v] = "read" => wpc[v] = "read" /\ job'[v] = job[v]
      BY <1>1 DEF Eat, Kill, Clear, Release, At, WGoto, TypeOK
  <2> QED BY <1>2, <2>1 DEF ToRead, InLine
<1>6. \A c \in readers : Fd(c)' = Fd(c)
  <2>1. sockfd' = sockfd \/ (job[w] \notin readers /\ sockfd' = [sockfd EXCEPT ![job[w]] = None])
      BY DEF Eat, Kill, Clear, Release, Destroyed
  <2> QED BY <1>1, <2>1 DEF Fd, TypeOK, Readers
<1>7. Watched \subseteq Watched'
  <2>1. wpc[w] = "kill" /\ job[w] \in readers => job[w] \in inQueue
      BY <1>1 DEF JobInv, InJob, Busy
  <2> QED BY <1>3, <2>1 DEF Watched
<1>8. \A c : HasData(c)' <=> HasData(c)
    BY <1>2 DEF HasData
<1> QED BY <1>1, <1>2, <1>3, <1>4, <1>5, <1>6, <1>7, <1>8, ReadyKeeps

LEMMA ReadyInvStep ==
  ASSUME NetSelectInv, NetSelectInv', ReadyInv, [Next]_vars
  PROVE  ReadyInv'
<1>1. CASE \E c \in Conns : Connect(c) \/ PeerWrites(c) \/ PeerEnds(c)
    BY <1>1, PeersReady
<1>2. CASE NetThread
    BY <1>2, NetThreadReady
<1>3. ASSUME NEW w \in Workers, Treat(w) PROVE ReadyInv'
    BY <1>3, GetReaderReady, AcceptReady, RecvReady, AfterReadReady DEF Treat
<1>4. CASE DetachAllNodes
    BY <1>4 DEF DetachAllNodes, ReadyInv
<1>5. CASE UNCHANGED vars
  <2>1. UNCHANGED <<readers, inQueue, queue, sockfd, wpc, job, npc, rfds, backlog, unread, ended,
                    detached, foreign>>
      BY <1>5 DEF vars, procVars, kernelVars
  <2> QED BY <2>1 DEF ReadyInv, WatchInv, MarkInv, Watched, ToRead, InLine, Fd, HasData
<1> QED BY <1>1, <1>2, <1>3, <1>4, <1>5 DEF Next

LEMMA ReadersDoNotBlockFollows == NetSelectInv /\ ReadyInv => ReadersDoNotBlock
<1> SUFFICES ASSUME NetSelectInv, ReadyInv, ~detached, ~foreign,
                    NEW c \in inQueue, ToRead(c), Fd(c) # None
             PROVE  Readable(Fd(c))
    BY DEF ReadersDoNotBlock, MarkedHasData
<1>1. TypeOK /\ FdInv /\ MarkInv
    BY DEF NetSelectInv, ReadyInv
<1>2. c \in readers /\ HasData(c)
    BY <1>1 DEF TypeOK, MarkInv
<1> QED BY <1>1, <1>2, ReadableIs

\* No worker is sent to a reader that has nothing to read, in which recv() or
\* accept() would hold it, however many peers stay silent, as long as the relay
\* does not detach its nodes and no close() hit another connection.
THEOREM ReadersDoNotBlockHolds == Spec => []ReadersDoNotBlock
<1>1. Init => ReadyInv
    BY DEF Init, ReadyInv, WatchInv, MarkInv
<1>2. NetSelectInv /\ NetSelectInv' /\ ReadyInv /\ [Next]_vars => ReadyInv'
    BY ReadyInvStep
<1>3. NetSelectInv /\ ReadyInv => ReadersDoNotBlock
    BY ReadersDoNotBlockFollows
<1> QED BY <1>1, <1>2, <1>3, Consistent, PTL DEF Spec
=============================================================================
