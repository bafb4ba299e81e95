----------------------------- MODULE NetSelect ------------------------------
(***************************************************************************)
(* net/netselect.cpp with the readers it serves in a relay: a listening    *)
(* NetSelectTCPServer, and one RelaySocket per accepted connection, whose  *)
(* Socket is shared with the NodeInfo of the relay.  One thread selects, a *)
(* pool of workers reads.                                                  *)
(*                                                                         *)
(* The kernel is external: a table of file descriptors, the connections    *)
(* behind them, the bytes that arrived.  Closing a descriptor frees its    *)
(* number for the next accept(); select() on a closed one fails and leaves *)
(* its set as it was; recv() on one throws.  An exception in a worker ends *)
(* the process (crashed).                                                  *)
(***************************************************************************)
EXTENDS Sequences, Naturals, FiniteSets, FiniteSetsExt, SequencesExt

CONSTANTS Conns,     \* the connections of the run
          Workers,   \* the threads of the pool
          Fds,       \* bound: the descriptors the process may use
          Pieces,    \* bound: how many pieces of data each peer sends
          Detaching, \* whether the relay may detach all its nodes
          Server,    \* the id of the listening reader
          None

ASSUME NamesAssumption == Server \notin Conns \cup Fds /\ None \notin Conns \cup {Server} \cup Fds
ASSUME BoundsAssumption ==
  IsFiniteSet(Conns) /\ Fds \subseteq Nat /\ Pieces \in [Conns -> Nat] /\ Detaching \in BOOLEAN

Readers == Conns \cup {Server}

VARIABLES
  \* the process
  readers, inQueue,  \* the map of readers, and the mark of each of them
  queue,             \* the ids posted to the pool
  sockfd,            \* Socket::sock of each accepted connection, None for -1
  attached,          \* whether the relay holds a NodeInfo with this socket
  wpc, job, buffer,  \* each worker: where it is, the reader it got, what it received
  npc, rfds, closed, \* the selecting thread
  eaten,             \* what each RelaySocket was given
  crashed,
  \* the kernel and the peers
  table,             \* the connection behind each descriptor
  connected, backlog, \* the connections, those not accepted yet
  unread, written, ended,
  \* history
  detached,          \* whether the relay was made to detach all its nodes
  foreign            \* whether a close() hit another connection's descriptor

procVars   == <<readers, inQueue, queue, sockfd, attached, wpc, job, buffer, npc, rfds, closed,
                eaten, crashed>>
kernelVars == <<table, connected, backlog, unread, written, ended, detached, foreign>>
vars       == <<procVars, kernelVars>>
netVars    == <<npc, rfds, closed>>
peerVars   == <<connected, backlog, written, ended, detached>>

Bytes == Conns \X Nat

TypeOK ==
  /\ readers \subseteq Readers /\ inQueue \subseteq readers
  /\ queue \in Seq(Readers)
  /\ sockfd \in [Conns -> Fds \cup {None}] /\ attached \subseteq Conns
  /\ wpc \in [Workers -> {"idle", "read", "eat", "kill", "clear", "release"}]
  /\ job \in [Workers -> Readers \cup {None}] /\ buffer \in [Workers -> Seq(Bytes)]
  /\ npc \in {"build", "select", "dispatch", "kill"}
  /\ rfds \subseteq Fds \cup {Server} /\ closed \subseteq Conns
  /\ eaten \in [Conns -> Seq(Bytes)] /\ crashed \in BOOLEAN
  /\ table \in [Fds -> Conns \cup {None}] /\ connected \subseteq Conns /\ backlog \subseteq Conns
  /\ unread \in [Conns -> Seq(Bytes)] /\ written \in [Conns -> Nat]
  /\ ended \subseteq Conns /\ detached \in BOOLEAN /\ foreign \in BOOLEAN

\* One listening reader, add()ed before the thread starts
Init ==
  /\ readers = {Server} /\ inQueue = {} /\ queue = <<>>
  /\ sockfd = [c \in Conns |-> None] /\ attached = {}
  /\ wpc = [w \in Workers |-> "idle"] /\ job = [w \in Workers |-> None]
  /\ buffer = [w \in Workers |-> <<>>]
  /\ npc = "build" /\ rfds = {} /\ closed = {}
  /\ eaten = [c \in Conns |-> <<>>] /\ crashed = FALSE
  /\ table = [f \in Fds |-> None] /\ connected = {} /\ backlog = {}
  /\ unread = [c \in Conns |-> <<>>] /\ written = [c \in Conns |-> 0] /\ ended = {}
  /\ detached = FALSE /\ foreign = FALSE

-----------------------------------------------------------------------------
(* The peers *)

\* A peer may stay silent as long as it likes, or for ever.
Connect(c) ==
  /\ c \notin connected
  /\ connected' = connected \cup {c}
  /\ backlog' = backlog \cup {c}
  /\ UNCHANGED <<procVars, table, unread, written, ended, detached, foreign>>

PeerWrites(c) ==
  /\ c \in connected \ ended /\ written[c] < Pieces[c]
  /\ written' = [written EXCEPT ![c] = @ + 1]
  /\ unread' = [unread EXCEPT ![c] = Append(@, <<c, written'[c]>>)]
  /\ UNCHANGED <<procVars, table, connected, backlog, ended, detached, foreign>>

PeerEnds(c) ==
  /\ c \in connected \ ended
  /\ ended' = ended \cup {c}
  /\ UNCHANGED <<procVars, table, connected, backlog, unread, written, detached, foreign>>

-----------------------------------------------------------------------------
(* Closing *)

\* NetSelect::kill: NetSelectReader::close() closes the descriptor without the
\* knowledge of the Socket.
Killed(c) ==
  /\ readers' = readers \ {c} /\ inQueue' = inQueue \ {c}
  /\ IF c \in readers /\ sockfd[c] # None
     THEN /\ table' = [table EXCEPT ![sockfd[c]] = None]
          /\ foreign' = (foreign \/ table[sockfd[c]] \notin {c, None})
     ELSE UNCHANGED <<table, foreign>>

Detach(c) == attached \ {c}

\* ~RelaySocket and ~Socket: detachNode(), whose NodeInfo closes the socket, or
\* else the socket closes itself: the second close() of this number.
Destroyed(c) ==
  /\ attached' = Detach(c)
  /\ sockfd' = [sockfd EXCEPT ![c] = None]
  /\ IF sockfd[c] # None
     THEN /\ table' = [table EXCEPT ![sockfd[c]] = None]
          /\ foreign' = (foreign \/ table[sockfd[c]] \notin {c, None})
     ELSE UNCHANGED <<table, foreign>>

\* Relay::detachAllNodes(), called by API::destroyRelay when nodes stay attached
\* for too long: closes the shared sockets, whatever the threads do with them
DetachAllNodes ==
  /\ Detaching /\ ~crashed /\ attached # {}
  /\ attached' = {} /\ detached' = TRUE
  /\ sockfd' = [c \in Conns |-> IF c \in attached THEN None ELSE sockfd[c]]
  /\ table' = [f \in Fds |-> IF \E c \in attached : sockfd[c] = f THEN None ELSE table[f]]
  /\ foreign' = (foreign \/ \E c \in attached :
                              sockfd[c] # None /\ table[sockfd[c]] \notin {c, None})
  /\ UNCHANGED <<readers, inQueue, queue, wpc, job, buffer, netVars, eaten, crashed, connected,
                 backlog, written, ended, unread>>

-----------------------------------------------------------------------------
(* NetSelect::run *)

Goto(pc) == npc' = pc

\* fd of a reader, None once its Socket is closed
Fd(c) == IF c = Server THEN Server ELSE sockfd[c]

\* Mutant: a reader that is posted already is watched again.
WatchAll == readers

Watched == readers \ inQueue

Build ==
  /\ npc = "build" /\ ~crashed
  /\ rfds' = {Fd(c) : c \in Watched} \ {None}
  /\ Goto("select")
  /\ UNCHANGED <<readers, inQueue, queue, sockfd, attached, wpc, job, buffer, closed, eaten,
                 crashed, kernelVars>>

Readable(f) ==
  IF f = Server THEN backlog # {}
  ELSE table[f] # None /\ (unread[table[f]] # <<>> \/ table[f] \in ended)

Select ==
  /\ npc = "select" /\ ~crashed
  /\ rfds' = IF \E f \in rfds \ {Server} : table[f] = None THEN rfds
             ELSE {f \in rfds : Readable(f)}
  /\ Goto("dispatch")
  /\ UNCHANGED <<readers, inQueue, queue, sockfd, attached, wpc, job, buffer, closed, eaten,
                 crashed, kernelVars>>

\* The second loop, with readersMutex: it posts the ids in their order, which
\* nothing relies on.
Dispatch ==
  /\ npc = "dispatch" /\ ~crashed
  /\ LET ready == {c \in readers \ inQueue : Fd(c) \in rfds} IN
     /\ inQueue' = inQueue \cup ready
     /\ queue' = queue \o SetToSeq(ready)
  /\ rfds' = {}
  /\ closed' = {c \in readers : Fd(c) = None}
  /\ Goto("kill")
  /\ UNCHANGED <<readers, sockfd, attached, wpc, job, buffer, eaten, crashed, kernelVars>>

\* A reader no worker holds is destroyed with its entry.
KillClosed(c) ==
  /\ npc = "kill" /\ ~crashed /\ c \in closed
  /\ closed' = closed \ {c}
  /\ Killed(c)
  /\ attached' = IF \E w \in Workers : job[w] = c THEN attached ELSE Detach(c)
  /\ UNCHANGED <<queue, sockfd, wpc, job, buffer, npc, rfds, eaten, crashed, peerVars, unread>>

LoopAgain ==
  /\ npc = "kill" /\ ~crashed /\ closed = {}
  /\ Goto("build")
  /\ UNCHANGED <<readers, inQueue, queue, sockfd, attached, wpc, job, buffer, rfds, closed, eaten,
                 crashed, kernelVars>>

NetThread == Build \/ Select \/ Dispatch \/ (\E c \in closed : KillClosed(c)) \/ LoopAgain

-----------------------------------------------------------------------------
(* NetSelect::Workers::treat *)

At(w, pc)      == wpc[w] = pc /\ ~crashed
WGoto(w, pc)   == wpc' = [wpc EXCEPT ![w] = pc]

\* Mutant: the mark is removed before the reader is read.
UnmarkEarly(c) == inQueue \ {c}

Marks(c) == inQueue

GetReader(w) ==
  /\ At(w, "idle") /\ queue # <<>>
  /\ queue' = Tail(queue)
  /\ inQueue' = Marks(Head(queue))
  /\ IF Head(queue) \in readers
     THEN job' = [job EXCEPT ![w] = Head(queue)] /\ WGoto(w, "read")
     ELSE UNCHANGED <<job, wpc>>
  /\ UNCHANGED <<readers, sockfd, attached, buffer, netVars, eaten, crashed, kernelVars>>

\* NetSelectTCPServer::read: accept() gives the first free number
Accept(w, c, f) ==
  /\ At(w, "read") /\ job[w] = Server
  /\ c \in backlog /\ table[f] = None /\ f = Min({g \in Fds : table[g] = None})
  /\ backlog' = backlog \ {c}
  /\ table' = [table EXCEPT ![f] = c]
  /\ sockfd' = [sockfd EXCEPT ![c] = f]
  /\ readers' = readers \cup {c}
  /\ WGoto(w, "clear")
  /\ UNCHANGED <<inQueue, queue, attached, job, buffer, netVars, eaten, crashed, connected, unread,
                 written, ended, detached, foreign>>

\* NetSelectSocket::read up to recv(), which blocks on an open connection with
\* nothing to read; on a socket closed meanwhile it fails an assertion, unless
\* recv() was already waiting, and ends.
Recv(w) ==
  /\ At(w, "read") /\ job[w] # Server
  /\ LET fd == sockfd[job[w]] IN
     \/ /\ fd # None /\ table[fd] # None /\ unread[table[fd]] # <<>>
        /\ buffer' = [buffer EXCEPT ![w] = unread[table[fd]]]
        /\ unread' = [unread EXCEPT ![table[fd]] = <<>>]
        /\ WGoto(w, "eat") /\ UNCHANGED crashed
     \/ /\ fd # None /\ table[fd] \in ended /\ unread[table[fd]] = <<>>
        /\ WGoto(w, "kill") /\ UNCHANGED <<buffer, unread, crashed>>
     \/ /\ fd # None /\ table[fd] = None
        /\ crashed' = TRUE /\ UNCHANGED <<buffer, unread, wpc>>
     \/ /\ fd = None
        /\ \/ crashed' = TRUE /\ UNCHANGED wpc
           \/ WGoto(w, "kill") /\ UNCHANGED crashed
        /\ UNCHANGED <<buffer, unread>>
  /\ UNCHANGED <<readers, inQueue, queue, sockfd, attached, job, netVars, eaten, table, peerVars,
                 foreign>>

\* RelaySocket::eat.  The data may complete the peer's request for an id: the
\* relay attaches a node and sends the id over the socket, which an assertion
\* wants open.  Read() returns false after a malformed packet, or if the socket
\* is closed by then.
Eat(w) ==
  /\ At(w, "eat")
  /\ \E id \in BOOLEAN :
       /\ id => job[w] \notin attached
       /\ IF id /\ sockfd[job[w]] = None
          THEN crashed' = TRUE /\ UNCHANGED <<eaten, buffer, attached, wpc>>
          ELSE /\ eaten' = [eaten EXCEPT ![job[w]] = @ \o buffer[w]]
               /\ buffer' = [buffer EXCEPT ![w] = <<>>]
               /\ attached' = IF id THEN attached \cup {job[w]} ELSE attached
               /\ \/ sockfd[job[w]] # None /\ WGoto(w, "clear")
                  \/ WGoto(w, "kill")
               /\ UNCHANGED crashed
  /\ UNCHANGED <<readers, inQueue, queue, sockfd, job, netVars, kernelVars>>

Kill(w) ==
  /\ At(w, "kill")
  /\ Killed(job[w])
  /\ WGoto(w, "release")
  /\ UNCHANGED <<queue, sockfd, attached, job, buffer, netVars, eaten, crashed, peerVars, unread>>

\* Mutant: the mark is never removed.
KeepMark(c) == inQueue

Unmark(c) == inQueue \ {c}

Clear(w) ==
  /\ At(w, "clear")
  /\ inQueue' = Unmark(job[w])
  /\ WGoto(w, "release")
  /\ UNCHANGED <<readers, queue, sockfd, attached, job, buffer, netVars, eaten, crashed,
                 kernelVars>>

\* The worker's shared_ptr goes: the reader is destroyed if it was the last one
Release(w) ==
  /\ At(w, "release")
  /\ job' = [job EXCEPT ![w] = None]
  /\ WGoto(w, "idle")
  /\ IF job[w] \in readers \/ \E v \in Workers \ {w} : job[v] = job[w]
     THEN UNCHANGED <<attached, sockfd, table, foreign>>
     ELSE Destroyed(job[w])
  /\ UNCHANGED <<readers, inQueue, queue, buffer, netVars, eaten, crashed, peerVars, unread>>

Treat(w) ==
  \/ GetReader(w) \/ Recv(w) \/ Eat(w) \/ Kill(w) \/ Clear(w) \/ Release(w)
  \/ \E c \in Conns, f \in Fds : Accept(w, c, f)

Next ==
  \/ \E c \in Conns : Connect(c) \/ PeerWrites(c) \/ PeerEnds(c)
  \/ NetThread \/ (\E w \in Workers : Treat(w)) \/ DetachAllNodes

Spec == Init /\ [][Next]_vars

\* The selecting thread and the workers run.
FairSpec == Spec /\ WF_vars(NetThread) /\ \A w \in Workers : WF_vars(Treat(w))

-----------------------------------------------------------------------------
(* Safety *)

InLine(c)  == \E i \in 1..Len(queue) : queue[i] = c
Queued(c)  == {i \in 1..Len(queue) : queue[i] = c}
Reading(c) == {w \in Workers : job[w] = c /\ wpc[w] \in {"read", "eat", "kill", "clear"}}

\* The mark inQueue says exactly that the reader has one job, in the queue or
\* with one worker: a reader is never read by two threads, and never forgotten.
OneJobEach ==
  \A c \in readers :
    Cardinality(Queued(c)) + Cardinality(Reading(c)) = IF c \in inQueue THEN 1 ELSE 0

\* Each RelaySocket is given the bytes of its own connection, all of them up to
\* some point and in order, as long as no close() hit another connection.
BytesInOrder ==
  ~foreign => \A c \in Conns : eaten[c] = [i \in 1..Len(eaten[c]) |-> <<c, i>>]

\* A reader that is posted "has data to be read" (netselect.h:100), until its
\* worker is done with it: one that has none holds its worker in recv() or in
\* accept(), and another reader's data waits for a worker.
ToRead(c) == InLine(c) \/ \E w \in Workers : wpc[w] = "read" /\ job[w] = c
MarkedHasData ==
  ~foreign => \A c \in inQueue : ToRead(c) /\ Fd(c) # None => Readable(Fd(c))

\* The same as long as the relay does not detach its nodes: no worker blocks.
ReadersDoNotBlock == detached \/ MarkedHasData

\* Socket::close() does "nothing if the socket is already closed"
\* (socket.cpp:106): a descriptor is closed by its own socket only, once.
NoForeignClose == ~foreign

-----------------------------------------------------------------------------
(* The inductive invariant *)

\* With a job, and with a job that may still touch the socket
Busy(w)  == wpc[w] \in {"read", "eat", "kill", "clear"}
Holds(w) == wpc[w] \in {"read", "eat", "kill"}
InJob(c) == \E w \in Workers : Busy(w) /\ job[w] = c

WorkerInv ==
  /\ Server \in readers
  /\ \A w \in Workers : wpc[w] = "idle" <=> job[w] = None
  /\ \A w \in Workers : wpc[w] \in {"eat", "kill"} => job[w] \in Conns

\* No id is posted twice, or treated twice at once, or both, and marks tell.
JobInv ==
  /\ \A i, j \in 1..Len(queue) : queue[i] = queue[j] => i = j
  /\ \A w \in Workers : Busy(w) => ~InLine(job[w])
  /\ \A v, w \in Workers : Busy(v) /\ Busy(w) /\ job[v] = job[w] => v = w
  /\ \A c \in readers : c \in inQueue <=> InLine(c) \/ InJob(c)

\* A connection that was not accepted is nowhere in the process.
Unaccepted(c) == c \notin connected \/ c \in backlog
FreshInv ==
  /\ backlog \subseteq connected
  /\ \A c \in Conns : Unaccepted(c) =>
       /\ c \notin readers \cup closed /\ sockfd[c] = None /\ ~InLine(c)
       /\ \A w \in Workers : job[w] # c

\* The descriptor of a reader is that of its connection, unless its socket is
\* closed, and who reads one that was killed has a closed socket.
FdInv ==
  /\ ~foreign => \A c \in readers \ {Server} : sockfd[c] # None => table[sockfd[c]] = c
  /\ \A c \in closed : sockfd[c] = None
  /\ \A w \in Workers :
       Holds(w) /\ job[w] \in Conns \ readers => sockfd[job[w]] = None

\* The bytes of a connection are with its RelaySocket, with the one worker that
\* reads it, and with the kernel, in this order.
Stream(c) == [i \in 1..written[c] |-> <<c, i>>]
Eats(w, c) == wpc[w] = "eat" /\ job[w] = c
StreamInv ==
  ~foreign => \A c \in Conns :
    /\ \A w \in Workers : Eats(w, c) => eaten[c] \o (buffer[w] \o unread[c]) = Stream(c)
    /\ (\A w \in Workers : ~Eats(w, c)) => eaten[c] \o unread[c] = Stream(c)

\* What select() is given, and gives back, are descriptors of readers no worker
\* has, which it finds open and which stay readable until they are posted; and a
\* reader that is posted stays readable until it is read.
HasData(c) == IF c = Server THEN backlog # {} ELSE unread[c] # <<>> \/ c \in ended
WatchInv ==
  npc \in {"select", "dispatch"} =>
    \A f \in rfds : \E c \in Watched : Fd(c) = f /\ (npc = "dispatch" => HasData(c))
MarkInv == \A c \in inQueue : ToRead(c) /\ Fd(c) # None => HasData(c)
ReadyInv == foreign \/ detached \/ (WatchInv /\ MarkInv)

NetSelectInv == TypeOK /\ WorkerInv /\ JobInv /\ FreshInv /\ FdInv /\ StreamInv

-----------------------------------------------------------------------------
(* Liveness *)

\* Data that arrived for a reader is read, or the reader is killed, however many
\* others stay silent, unless the relay detached its nodes, the process ended or
\* a close() hit another connection.
DataIsRead ==
  \A c \in Conns :
    c \in readers /\ unread[c] # <<>>
      ~> unread[c] = <<>> \/ c \notin readers \/ detached \/ crashed \/ foreign
=============================================================================
