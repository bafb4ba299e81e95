# Epyx, modelled in TLA+

Epyx is a C++11 library for peer-to-peer programs: actors on a pool of threads
(`src/src/core`), sockets and a select loop (`net`), a protocol that relays
packets between nodes behind NATs (`n2np`), a distributed hash table over it
(`dht`), and parsers and NAT punching around them. This directory holds TLA+
models of its concurrent core, the TLC configurations that check them on small
instances, and TLAPS proofs of their main properties for every instance.

1. [The system](#1-the-system): components, state, interactions, hazards
2. [The modules](#2-the-modules): what each models, and how it maps to the code
3. [The runs](#3-the-runs): what each checks and shows, bounds and fairness
4. [The disagreements](#4-the-disagreements) between code and documentation
5. [The proofs](#5-the-proofs)
6. [What is not covered](#6-what-is-not-covered)
7. [The plan](#7-the-plan)

Paths below are relative to `src/src/`.

## 1. The system

Layers, each calling the ones below it:

    api, demos                   owns one of each of what follows
    dht       Node, InternalNode, FinderActor, GetterActor, SetterActor,
              ReplicaterActor, static actors, Storage, KBucket
    n2np      Node, Relay, RelaySocket, modules (natpunching is one)
    net       NetSelect and its readers, sockets, NetQuery     parser   GTT, lines, HTTP
    core      ActorManager, WorkerPool, BlockingQueue, timeouts, log, Atom::Map

**BlockingQueue** (`core/blocking-queue*.h`). State: the deque, its mutex and
condition variable, the flag `opened`, which is written without the mutex.
Operations: `push`, `tryPush`, three pops, three flushes, `close`. Every pool,
the log and the timeout thread wait on one. Hard: the notification is sent after
the unlock; waits can wake spuriously; close races with a thread that is about
to sleep. Correct when elements come out once and in order, nobody sleeps beside
an element, and NULL means closed.

**WorkerPool** (`core/worker-pool*.h`). State: a map of workers under
`workers_mutex`, the atomic `worker_count`, the message queue, and a second
queue of the ids of workers that ended. Operations: `post`, which first joins
one ended worker (`bookKeep`), `setNumWorkers`, `stop`, and the loop of the
workers. Hard: four kinds of callers take ids from the same queue; `stop` counts
on receiving one for each worker it counts.

**ActorManager, Actor, ActorId** (`core/actor*.h/.cpp`). State: the map of actors
under `actorsLock`, the flag `alive` and the mutex of each actor, a WorkerPool
whose messages are closures. Operations: `add`, `post`, `kill` of the manager, of
the actor by itself and of an id, and `treat`, which runs one message or deletes
a dead actor. Hard: two locks taken in an order that handlers can reverse, and
memory freed while other workers look for it.

**TimeoutLauncher, Timeout** (`core/actor-manager.cpp`, `core/timeout.*`). A
thread with a priority queue of deadlines; it posts each to its actor when it
passes. Hard: the destructor, and the arithmetic of the time that remains.

**Log** (`core/log*`). A queue of messages per level, a worker thread that
writes them, `flush(wait)`, `quit`. Hard: `flush(wait)` and the worker signal
each other without a predicate.

**Atom::Map** (`core/atom`). A map behind a mutex with lock-and-iterate calls.

**DHT InternalNode** (`dht/internal-node.*`). State: an ActorManager of five
workers, the KBucket, the Storage, four static actors, and `processActors`, the
table that maps connection ids to the actor that waits for an answer. It
dispatches packets to actors and starts one actor per search, get or set.

**FinderActor over ProcessActor** (`dht/finder-actor.*`, `dht/process-actor.*`).
State: two bounded heaps (`shortlist`, `foundPeers`), the peers contacted, the
count of pending requests, the queries and their flags. It queries the closest
peers it knows, a few at once, until no close peer is left to query. Hard:
answers, timeouts of each query and the deadline of the search cross each other.

**GetterActor, SetterActor** (`dht/getter-actor.*`, `dht/setter-actor.*`). They
run a search, then query all the peers it gave; the first value found, or a
count of errors below a threshold, is the result. Hard: the same races, and the
count of errors.

**Storage, ReplicaterActor, static actors** (`dht/storage.*`,
`dht/replicater-actor.*`, `dht/static-actors.*`). Each node stores keys, answers
queries, and sets again each key it has, periodically. Hard: replication must
survive a failed round.

**KBucket, Id, packets, public Node** (`dht/kbucket.*`, `id.*`, `packet.*`,
`node.*`). Routing table and distance: pure algorithms with boundaries. The
synchronous calls of Node wait for callbacks on a condition variable.

**N2NP Node and Relay** (`n2np/`). A node connects to a relay, asks for its id,
and sends packets that carry numbers and are acknowledged; the relay keeps a map
from names to sockets and forwards, to its own nodes or to another relay. Many threads
send through one node: users, the workers of the DHT, and the reader's thread, which
calls the modules. Hard: names that are used before their node was told, nodes that leave
at any moment, packets that are never acknowledged, numbers taken by one thread and
written after those of another, and exceptions on broken sockets that nobody catches.
Correct when packets reach only the node they name, those of one thread in the order it
sent them, and what was acknowledged was treated.

**NetSelect** (`net/netselect*`). One thread in `select`, a pool that reads from
the ready descriptors, and readers that end meanwhile. Hard: descriptors closed
and reused under the feet of others, a `select()` that fails, workers that block on
readers without data. Correct when a reader is read by one thread at a time, with its
bytes in order, and is not forgotten while others stay silent.

**Parsers** (`parser/`). GTT, lines, HTTP: bytes arrive in arbitrary chunks.

**NAT punching, UPnP, NetQuery, sockets, crypto, api**: negotiation of a direct
connection, wrappers of system calls, and the facade that creates everything.

`PROJECT.json` lists every component with its status, and under `hazards` every
behaviour above that a test would hardly reach, at the line where it bites.

## 2. The modules

    ClosableFifo          what a queue promises
      ^ implemented by
    BlockingQueue         MCBlockingQueue     BlockingQueueProofs
      ^ taken as a FIFO by
    WorkerPool            MCWorkerPool        WorkerPoolProofs
    ActorManager          MCActorManager      ActorManagerProofs
    Timeouts, Logging     MCServices          ServicesProofs
      ^ whose atomic handlers are taken by
    Finder                MCServices          DhtProofs
      ^ whose results are taken by
    KeyValue              MCKeyValue          KeyValueProofs

    NetSelect             MCNetSelect         NetSelectProofs
      ^ whose one reader at a time is taken by
    N2NP                  MCN2NP              N2NPProofs
      ^ over streams that are cut by
    Parsers               MCServices          ServicesProofs

    RoutingTable < DhtNode    MCServices      DhtProofs

The layers are composed through what the lower one was shown to give: the pool
and the manager use the queue as a FIFO (`ImplementsFifo`), and the search uses
handlers that run one at a time (`OneHandlerPerActor`), with messages that
arrive in any order, since several workers take them and race for the mutex of
the actor. A get or set starts from any result a search may have. A RelaySocket of N2NP
is read by one thread at a time, as `OneJobEach` of NetSelect says, and gets whole
packets, as `CutsDoNotMatter` of Parsers says. What a lower layer was shown *not* to give
is left out above it and said so: WorkerPool assumes a sleeping `pop()` is woken by
`close()`, and N2NP gives each connection a descriptor that nobody else closes.

**BlockingQueue.** A step is what a thread does between two points where another
can interfere. `mut` is the mutex, `waiters` the threads asleep on the condition
variable, `pc` the point each thread is at: `CallPush` reads `opened` before the
mutex is taken, `Lock`/`TryLock` take it, `PushBack` pushes and unlocks,
`NotifyOne` is the `notify_one` after it; `Test`, `Sleep`, `Wake`, `Relock` are the
loop around `cond.wait`, where `Wake` is a spurious wakeup or a deadline;
`SwapFront` and `PopFront` are the two steps of a pop, between which the front of
the deque is an empty pointer; `CallClose` and `NotifyAll` are `close()`. Elements
are distinct model values, `accepted` and `delivered` are history variables.

**ClosableFifo.** The abstract queue: admit, put, take one, take all, shut. The
refinement maps the deque without its swapped-out front to the abstract queue,
and the pushes that passed the test of `opened` to the admitted ones.

**WorkerPool.** Workers are their ids. `Run` is the loop of `Worker::run`; `Post`,
`BkErase`, `BkJoin`, `BkCount`, `PostTest`, `PostPush` are `post` with `bookKeep`, called
by users or by a worker inside `treat`; `Resize` to `LoopEnds` are `setNumWorkers`, which
reads `worker_count` twice and then adds or tells one worker at a time; `Close` to
`StJoin` is `stop`, which joins with `workers_mutex` held (`lock`). Sections of
`workers_mutex` without a wait in them are one step.

**ActorManager.** `actorsLock` and the `mutex` of each actor are explicit, and so is
memory: unborn, new, live, freed. `TakeMessage`, `TreatLock`, `Find`, `LockActor`,
`TestAlive`, `Delete`, `Erase`, `FinishHandler` are `treat`; a handler is the time a
worker is at `home`, from which it may call what `HandlerCalls` allows: post, kill
its own actor, kill another one, add one. `Posters` are all other threads, the
timeout thread included. Each `kill` clears the flag first and posts the empty
function second, and other threads run in between.

**Finder.** Handlers are atomic. A peer is its distance to the Id that is
searched; distances are different, as those of different ids are. A search
queries each peer at most once, so the peer also names the connection id of its
query. `Start` is `findClosest` with `start`; `TreatAnswer`, `TreatTimeout`, `TreatDeadline`
are the three handlers; `Delete` is the destructor with its `unregisterConnectionId`;
`Arrive` is `dispatchToProcessActor` for an answer, `FireTimer` and `FireDeadline` are
posts of the timeout thread. The heaps are sets that drop their farthest peer;
the heap's array order, which decides the next peer to query, is a choice.

**KeyValue.** One key, calls of users (`Sets`, `Gets`), and calls that replicaters make
(`Rounds`). `CallSet`, `CallGet`, `Replicate` add the actor; `FindSuccess` and `Fail` are the
results of its search and its deadline; `Store` and `Read` are StoreActor and GetActor
with the Storage of the node that was asked; `TreatStored`, `TreatGot`, `TreatTimeout` are
the handlers of the caller. `requests`, `answers` and `timers` hold what has not arrived,
was not treated or did not fire; a lost message stays there. `due` counts the messages
"new key" and timeouts "replicate" of each node. Unlike in Finder, posting an answer
and treating it are one step: the flag of the query, tested in the handler, decides
as the table of connection ids does. An actor that ended loses its messages at once,
which is what the manager does with the messages of a dead actor. `wrote`, `earlier`,
`holders` and `answered` are ghosts. Nodes do not crash; a node that stops is one that never answers.

**N2NP.** `nodes` and `nodeNextId` are the members of Relay; `queue` is what is posted to its
pool, which has one thread; `rsocket` and `rsocketId` are the state of each RelaySocket.
`Attach` and `SendID` are the two halves of `attachNode`, with and without `nodesMutex`, and
others run in between. `PostUp` is `eat` on any other packet, `PostTransit` the arrival of a
packet that another relay sent on a connection of its own, `Treat` is `Relay::treat`, `Destroy`
the destructor of RelaySocket with `detachNode`. `SendDown` is what `send` does to a node that
has gone: the first packet is lost and answered by a reset, the second ends the process,
as `RecvThrows` does. On the other side, `Send` takes a number and `Write` writes, the halves of
`Node::send`, between which any of the other threads of the node (`Users`, and its reader) does
the same; `Direct` is the choice of the socket, by the destination or its relay. `SetId`,
`Discard`, `TreatAck`, `CallModule`, `Acknowledge` and `NoModule` are `Node::treat`: a module is called
(`calling`), may send as often as it likes from the reader's thread, and its packet is
acknowledged after it. `End` is the end of a node, which resets the connection if it left
data unread. `treated`, `acked` and the thread `by` of a packet are histories.

**NetSelect.** Each critical section of `readersMutex` is a step. `Build`, `Select`, `Dispatch`,
`KillClosed` and `LoopAgain` are the loop; `GetReader`, `Recv` or `Accept`, `Eat`, `Kill`, `Clear` and
`Release` are a worker on one id, the last one with the destructor that runs when the
worker had the last pointer. The kernel is external: `table` maps descriptors to
connections, `Accept` gives the first free one, and a `close()` frees a number for the
next `accept()`. A peer that connects need not send anything: `Recv` and `Accept` wait for
data and for a connection, which is what blocking is. `Select` on a set with a closed
descriptor leaves the set as it is, and the loop goes on with it. `Eat` attaches a node if
the data completes the request for an id. `foreign` records that a `close()` hit a descriptor
which meanwhile was another connection's, `detached` that `DetachAllNodes` happened.

**RoutingTable, DhtNode.** Ids are sets of bits, so that distance, prefix and order are
those of the code. `Seen` is `seenPeer` on one bucket; `FindNearestNodes` folds `Offer`, the
body of the loop, over the peers in the order of the table. DhtNode adds what arrives
(`ProcessPacket`), the static actors that answer later and in any order (`TreatRequest`), and the
packets that end the process, because the code executes `throw` outside of a handler.

**Timeouts.** The clock is in units of a `timeval`, of which a second has `MSEC * MSEC`:
`RemainingMsec` takes the remainder by `MSEC` that the code takes by 1000. `Turn` is one turn of
the loop of the thread, from the return of `pop()` to the next call.

**Logging.** A line is its writer and its number. `FlushWait`, `StartWait`, `SpuriousWakeup` and
`FlushReturns` are the steps of `flush(true)`, `Notify` what the logging thread does with the
condition of the caller, which may be waiting, not waiting yet, or gone (`dangling`).

**Parsers.** `Eat(n)` is the arrival of a chunk of any length, and each case of the switch of
`getPacket` is an action; `Reject` is the exception, with which `eat` resets the parser.
A character stands for a piece of text that the parser tells apart; `LengthOf` gives those that
stand for a content-length, and the lengths that bodies may have.

## 3. The runs

| run | instance | shows |
|---|---|---|
| `bq_safety` | 2 pushers, 2 consumers, 1 closer, 2 elements, all nine operations | `QueueInv`, `ExactlyOnceInOrder`, `ImplementsFifo` |
| `bq_notify` | 2 pushers, 2 untimed consumers | `NoLostNotification`, `SleepersAreServed` |
| `bq_close` | pusher, consumer, closer | violates `PendingPopsReturn` |
| `am_plain` | 2 workers, 1 other thread, 2 actors, 3 posts or kills, handlers post and kill themselves | `ManagerInv`, `OneHandlerPerActor`, `NoUseAfterFree`, `NoLockCycle`, `KilledIsDeleted` |
| `am_deadlock` | the same, handlers also add | violates `NoLockCycle` |
| `wp_stop` | poster, resizer, stopper; 2 workers at first, 4 at most, sizes 1 and 3, 2 posts, 2 resizes | `StoppingInv`, `CountIsExact`, `JoinedOnce`, `StoppedMeansGone`, `StopReturns` |
| `kv_calls` | 2 nodes, one set, one get, one round, threshold 2 | `CallsInv`, `SetIsQuorate`, `GetFindsSet`, `OneChain`, `AskingEnds` |
| `n2np_relay` | 3 nodes on 2 relays: one sends 2 packets with 2 users and a module, one leaves, one has no module; a direct socket, a relay that detaches all | `InOrder`, `AckedMeansTreated`, `OwnPacketsOnly`, `NoStaleEntry` |
| `net_read` | 2 connections, one of 2 pieces and a silent one, 2 workers, 2 descriptors, a relay that detaches | `OneJobEach`, `BytesInOrder`, `ReadersDoNotBlock`, `DataIsRead` |
| `net_close` | the same | violates `NoForeignClose` |
| `net_block` | the same | violates `MarkedHasData` |
| `services` | see below | `SearchInv`, `OneResult`, `FoundIsClosest`, `NoStaleConnection`, `SearchEnds`, `TableInv`, `ActiveStays`, `NearestAreNearest`, `AnswersAreReadable`, `NeverASecondLate`, `DoneMeansFlushed`, `CutsDoNotMatter` |

`services` explores five components that share no state, each on its own (MCServices adds
their state spaces): a search for 3 of 4 peers, with 2 queries at once and answers of at most
one peer; a table of buckets of 2 over ids of 3 bits, with 4 peers of which 3
share a bucket; a thread with three timeouts, in a second of 3 milliseconds of 3 units;
two threads with a line each and three flushes or ends; and all pairs of 11 packets,
whose bodies of at most two characters look like first lines, headers, lengths and ends of
lines, cut anywhere (the theorem is about bodies of any lengths).

**Bounds.** Two elements and four threads are the smallest queue in which a
second element can overtake, a notification can go to the wrong sleeper, and two
takers can meet a half-popped front. Two workers and two actors make one worker
wait for the actor of the other with the map locked; three posts leave room for
two kills of one actor around a message. The bound `MaxPosts` of ActorManager
counts posts and kills, `MaxIds`, `MaxPosts` and `MaxResizes` of WorkerPool count
workers born, posts and calls of `setNumWorkers`: with four ids a pool of two can
shrink to one and grow to three. Four peers with room for three and for two in
the heaps make both heaps drop a peer that a later answer brings back. Answers
are limited to one peer; a heap adds the peers of an answer one by one. In KeyValue
the threshold is 2, not 3, so that with two nodes a set can fail, succeed with one
missing, or succeed with both; two nodes are enough for the get to ask fewer, or
others, than the set did. Two packets (`MaxSends`) are the fewest that can overtake each
other; three nodes let a packet go to a node of the same relay, to one of another relay,
and to one that has left. Two users are the fewest whose numbers can overtake each other
between `Send` and `Write`; the reader of the same node acknowledges meanwhile, and sends when
its module is called. Two connections for two descriptors let a number be closed
twice around an `accept()`; one of them sends two pieces (`Pieces`), so that a second job
can meet the first. There are as many workers as readers that could hold one for ever, the
server and the silent connection: data would wait if both were posted without any. Timeouts of 1, 2 and 7 milliseconds are in one second and in several,
and can be added in any order while the thread sleeps; `MaxClock` lets the last come due.
`MaxTime`, `MaxWaiting` and `MaxFinds` bound the clock, the waiting requests and the counts of
DhtNode: one request that waits while peers are replaced is enough, since answers do not
depend on each other.

**Deadlock** is not checked (`CHECK_DEADLOCK FALSE`) because callers may stop calling:
an idle system stops. What must not get stuck is stated instead, as `NoLockCycle`
or as a liveness property.

**Fairness.** The code has no scheduler of its own. The models assume that the
operating system runs each thread: weak fairness of the steps of a thread inside
a call. Where threads compete for a mutex (`Lock`, `Relock`, `Treat`, `Continue` of the
manager) fairness is strong: a thread that keeps asking is served at last. No
thread has to call an operation, except that deadlines of timed waits pass.
In Finder, posted messages are treated and the timeouts of queries fire; the
network owes nothing, and neither does the deadline of the search, so that
`SearchEnds` shows the end does not depend on it; `AskingEnds` of KeyValue is likewise.
WorkerPool needs no strong fairness, and neither does NetSelect: its selecting thread
and each of its workers run, and peers need do nothing. N2NP and the parts
of `services` other than the search state safety only.

**What passes and is not obvious.** `StopReturns` holds although handlers that post
during `stop()` take ids that `stop()` waits for: each lowers the count it tests.
It takes users that are quiet during `stop()`, which the destructors of this repository do
not see to: `~NetSelect` stops its workers before it tells the selecting thread to end, and
`~ActorManager` stops its pool while others can still post. With `LateCalls` true (an outside
thread posts while `stop()` runs) the last id can be taken after the test of the count,
and `stop()` waits for ever, as TLC finds in the instance of `wp_stop` at once. That no worker
is forgotten holds for late callers too (`NoWorkerIsLost`).
`SearchEnds` holds although `pendingRequests` goes down twice for an answered query,
because each further query has a timeout of its own. `NoStaleEntry` holds although nothing
orders the end of a connection and `attachNode`: a RelaySocket is not destroyed by other
threads while it reads, which NetSelect shows. `AnswersAreReadable` holds because the
sender of a request is put into the table before the request is treated, and a table
that has had a peer always has one. `ReadersDoNotBlock` holds although readers are killed, and
their numbers given to others, between the building of the set and `select()`: until the
relay detaches its nodes, who is in the set is not posted, and who is not posted is not
closed. `NeverASecondLate` is as much as the arithmetic of
`remainingMsec` allows. `DoneMeansFlushed` is about callers that were notified, `BytesInOrder` about executions without the close that `net_close` finds, `DataIsRead` and
`ReadersDoNotBlock` about those in which the relay does not detach its nodes either, which
`net_block` is about; several of their behaviours end with the process (`crashed`), where they hold to the end.

## 4. The disagreements

Four runs check what a comment says, and find it violated by what the code does;
`findings` in `PROJECT.json` quotes the lines.

- `bq_close`: `close()` "makes all the pending pop() return NULL"
  (`core/blocking-queue.h:66`). It notifies without the mutex, and misses a thread
  between its test and its wait.
- `am_deadlock`: "there won't be deadlocks as we always acquire actor before
  unlocking actorsLock" (`core/actor-manager.cpp:86`). A handler that adds an actor to its
  own manager, as `ReplicaterActor::timeout` does, closes a cycle.
- `net_block`: a reader with the mark `inQueue` "has data to be read" (`net/netselect.h:100`).
  A failed `select()` leaves its set as it was, `status < -1` never tells, and all open
  readers are posted: workers block in `accept()` and `recv()`.
- `net_close`: closing does "nothing if the socket is already closed"
  (`net/socket.cpp:106`). `NetSelect::kill` closes the descriptor without telling the
  Socket, which closes the number again later, when it may be another connection's.

Others are told under `hazards`. No run is about them, since a model would only restate a line,
or since the properties are stated for what remains: the size of a pool resized twice; a
pool that is stopped while others post to it; late timeouts of answered queries; sets that
succeed, although no peer stored the value, when fewer peers were found than the three errors
it takes to fail; replication that stops after a failed round; waits without a predicate; a
relay that ends with one of its nodes.

## 5. The proofs

The proof modules hold for every value of the constants that the named ASSUMEs allow:
any sets of threads, elements, actors, workers, peers, nodes and relays, finite or not
where nothing is counted, and any bounds.

| theorem | says |
|---|---|
| `BlockingQueueProofs!Typing` | `Spec => []QueueInv` |
| `...!NullMeansClosedHolds`, `ExactlyOnceInOrderHolds`, `NoLostNotificationHolds` | the safety properties of the queue |
| `...!ImplementsFifoHolds` | the queue implements ClosableFifo |
| `WorkerPoolProofs!Typing` | `Spec => []PoolInv` |
| `...!CountIsExactHolds`, `JoinedOnceHolds`, `StoppedMeansGoneHolds` | the safety properties of the pool |
| `...!StoppingInvHolds`, `NoWorkerIsLost` | `Spec => []StoppingInv`; every worker that was not joined ends, has its id queued, or is with one thread that joins it |
| `ActorManagerProofs!Typing` | `Spec => []ManagerInv`, whatever handlers call |
| `...!OneHandlerPerActorHolds`, `NoUseAfterFreeHolds`, `EmptyMessageNeverRunsHolds` | the safety properties of the manager |
| `...!KilledIsDoomed` | a killed actor is deleted or something on its way deletes it |
| `...!NoLockCycleHolds` | no cycle, when handlers only post and kill their own actor |
| `DhtProofs!Typing` | `Spec => []FinderInv` |
| `...!OneResultHolds`, `NoStaleConnectionHolds`, `FoundIsClosestHolds` | the safety properties of a search |
| `...!SearchInvHolds`, `SearchIsNeverStuck` | `Spec => []SearchInv`; a search that waits has a timeout to come |
| `DhtProofs!DhtInvHolds` | `DhtSpec => []DhtInv` |
| `...!TableInvHolds`, `NearestAreNearestHolds`, `AnswersAreReadableHolds` | the routing table, what is read from it, and what a node answers |
| `...!ActiveStaysHolds` | `DhtSpec => ActiveStays`: no step takes an active peer out |
| `KeyValueProofs!Typing` | `Spec => []KeyValueInv` |
| `...!SetIsQuorateHolds`, `GetFindsSetHolds`, `OneChainHolds` | the safety properties of a key's calls |
| `...!CallsInvHolds`, `CallIsNeverStuck` | `Spec => []CallsInv`; a call that waits has a timeout to come |
| `N2NPProofs!Typing` | `Spec => []N2NPInv` |
| `...!OwnPacketsOnlyHolds`, `NoStaleEntryHolds` | names and entries of relays |
| `...!FlowHolds` | `Spec => []FlowInv` |
| `...!InOrderHolds`, `AckedMeansTreatedHolds` | the order of each thread's packets, and their acknowledgement |
| `NetSelectProofs!Consistent` | `Spec => []NetSelectInv` |
| `...!OneJobEachHolds`, `BytesInOrderHolds` | one thread per reader, and its own bytes in order |
| `...!ReadersDoNotBlockHolds` | a reader that is posted has data, until the relay detaches its nodes |
| `ServicesProofs!NeverASecondLateHolds` | `TimeoutsSpec => []NeverASecondLate` |
| `...!DoneMeansFlushedHolds` | `LogSpec => []DoneMeansFlushed` |
| `...!CutsDoNotMatterHolds` | `ParsersSpec => []CutsDoNotMatter` |

Assumptions: the named ASSUMEs of the modules, that no thread or element is the
value None, that a worker is not a poster. `NoLockCycleHolds` also assumes what
`am_deadlock` shows to be necessary, `NoLostNotificationHolds` finitely many threads,
which it counts, and `StoppedMeansGoneHolds` that nobody calls the pool during `stop()`
(`~LateCalls`): a worker that is being joined by a late poster may outlive `stop()`.
`NoWorkerIsLost` and all other theorems of the pool hold with late callers too.
`NullMeansClosed` and `EmptyMessageNeverRuns` are proved and not among the properties of
a run, since they follow from `QueueInv` and `ManagerInv`, which are.

*The queue.* `QueueInv` is inductive. `HolderInv` says which labels own the mutex, from
which mutual exclusion follows; `SleepInv` that a thread about to sleep saw an empty
deque that is still empty, because it holds the mutex; `SwappedInv` that the empty
pointer is only ever at the front, and only while its taker stands at `erasing`.
`ExactlyOnceInOrder` alone is not inductive: it needs `SwappedInv` to know that
`PopFront` erases what `SwapFront` took. `NoLostNotification` is proved by counting:
each push adds an element and a helper, a sleeper leaves the helpers only when the
deque is empty, and a taker leaves them with its element. The refinement maps each
action to one abstract step or to a stutter.

*The manager.* `ManagerInv` ties labels to locks (`HolderInv`, `MutexInv`), labels to memory
(`MemoryInv`: who follows a pointer sees a live actor, and a dead actor is in the map
only while its eraser holds the lock) and messages to flags (`NullInv`: an empty
message is always about an actor whose flag is down, so `TestAlive` never lets it
run). There is one lemma per action, and one leaf per conjunct it can disturb.

*The key.* `SetIsQuorate` is about peers that stored the value, of which the code knows
only counters. `CountInv` of `KeyValueInv` ties them: some of the peers that stored the
value, none of whose queries still has its flag, are *confirmed*, and the peers asked
and not confirmed are exactly as many as the pending requests and the errors.
`Recount` keeps this whether a timeout or an answer comes first, or both; when nothing
is pending, the errors bound the peers that did not store (`FewMissed`). `GetFindsSet`
follows, since fewer peers than the threshold had no value when the get began
(`GetInv`), so among enough common peers one had it, and nodes keep what they store
(`StorageInv`). `ChainInv` says that a node with no value has no replication, so that
`Store` starts one only where there is none. `EndInv` and `ContinueInv` are the two ends
of a handler, shared by the lemmas of the actions.

*The pool.* `CountIsExact` and `JoinedOnce` need each other, and both need to know where
the id of a worker is. `HandInv` of `PoolInv` says so: once in the queue of ended workers,
or with one thread that took it from there, never both; `bookKeep` takes it out of the map,
which lowers the one and raises the other summand of the count, and `stop` leaves it there
until it has joined. `IdsInv` says that ids are given in order, so that a new worker is new,
and that a worker whose loop is over was told to stop. `StopInv` says who can still be in a
call after `Close`: nobody but handlers, unless `LateCalls`.

*The search.* `EndInv` of `FinderInv` says that the end was reported exactly when the actor
was killed, so that no later message reports another; `QueryInv` that the table of
connections has an id exactly while the query has its flag and the actor exists.

`FoundIsClosest` is about what the heaps keep. `Nearest(n, S)` is known by three facts: it
leaves out nobody nearer than a member, it has at most n members, and it has n or is all
of S (`NearestIs`, `NearestFacts`). From them `AddToNearest` shows that a heap cut at its
size loses nothing by forgetting the rest: adding a peer to the nearest of what was heard
gives the nearest of what is heard now. An answer adds a set of peers, by a fold, hence
`AddAllNearest` by induction over that set.

*Folds.* The induction theorems of the library take an operator, which the provers
cannot instantiate. `SetInduction` and `NatStepInduction` take instead a set G of the good
subsets, or of the good numbers, and follow from `WFMin` and the well-foundedness of <.
`FoldExists` builds the function that the recursion of a fold defines, on the subsets of
a finite set, and so gives access to `MapThenFoldSet`, `FoldLeft` and `FlattenSeq`: `AddAll`,
`FindNearestNodes` and the streams of Parsers are all reached in this way. What an
operator that is declared RECURSIVE computes stays out of reach; the models have none.

*The routing table.* `TableInv` is inductive with its types (`TableOK`): `Seen` only appends a
peer heard of now, that is not in the bucket any more, to a bucket that has room, which
keeps the order by times, and the front is the oldest because of that order. This is
also why `ActiveStays` holds: the one that is replaced was tested, and the test is false of
any peer that is active. `Less` orders the ids because the bit at which two of them first
differ decides (`LessTotal`, `LessTransitive`), and so does `Farther`; `Distinct` peers
have a top (`TopExists`), and `OfferNearest` keeps the n nearest of the peers offered so far,
in whatever order the buckets are read. `AnswersAreReadable` needs that the table is not
empty whenever a request waits (`FindsFindPeers`): the sender of every request was put
into a bucket, or found it full, and no step empties a bucket.

*Names.* `OwnPacketsOnly` alone is not inductive. `NameInv` says that a connection asks for
an id only in its first packet and only before it has one, that names are below
`nodeNextId`, and that each entry has the id of its RelaySocket: so a new name is new,
`Relay::treat`, which looks a name up, sends to the id it looked for, and `detachNode`
removes the entry of the connection, of which there is one.

*Packets on their way.* Between two nodes of one relay a packet goes through five stages:
the thread that sends it, the stream to the relay, the queue of the relay's only worker, the
stream to the other node, and its modules. Threads of a node overtake each other at the
first of these stages, so order is a matter of one thread. `OrderInv` of `FlowInv` says that along
the stages, laid end to end, the ids of its packets for modules only grow, and every action either
takes from a stage (`ThinOrdered`), or moves the first packet of a stage to the end of the
next one (`MoveOrdered`), or adds a packet with a greater id than all the others
(`NewOrdered`). That the id is greater is `AckInv`: a packet comes from a node that has its
id, of which there is one, and that counted past it. That packets of the same node do not
also come another way is `RouteInv`: what goes between relays is from a node of another
relay, and acknowledgements, which the reader's thread sends between the packets of its
modules, are not for modules. `AckInv` also says that what an ACK under way tells was treated,
by a node that may have ended since, and that the packet of a call of a module was, too. TLC finds
`N2NPInv` to hold on the instance of `n2np_relay`; as for the readers below, the run lists what
the invariants are for.

*The readers.* `OneJobEach` counts; `JobInv` of `NetSelectInv` says what it counts: an id is in
the queue at most once, with one worker at most, never both, and a mark tells which
readers have such a job. `BytesInOrder` needs it, since `StreamInv` says that what a
RelaySocket was given, what the one worker that reads it holds, and what the kernel has
left are, one after the other, all that the peer wrote. It also needs `FdInv`, that the
descriptor of a reader in the map is that of its connection: this is what a `close()` of a
number that was given away breaks, hence `~foreign`, and `net_close` shows that it happens.
A worker whose reader was killed under it can only be one whose socket was closed before,
so it reads nothing more; `FreshInv` says that a connection not yet accepted is nowhere in
the process. `ReadersDoNotBlock` needs two facts more (`ReadyInv`): `WatchInv`, that what
`select()` is given are descriptors of readers nobody has a job on, so that nobody closes them
under it and its answer stays true until it is used; and `MarkInv`, that a reader which is
posted keeps its data until its one worker reads it. Both end when the relay detaches its
nodes. TLC finds `NetSelectInv` and `ReadyInv` to hold on the instance of `net_read`; they are not
among the properties of the run, since the theorems are about what they are for.

*The timeouts.* `NeverASecondLate` speaks of what was posted and of what is in the queue, and
both depend on what `TimeoutsInv` says of the sleep: an entry that was added and not
popped holds the clock where it is, the clock does not pass `wakeup`, and `wakeup` is at most
a second and Epsilon after any entry in the queue is due. The last is arithmetic:
`RemainingMsecBound` bounds what the mistaken units of `remainingMsec` add to the time that
remains, for any value of MSEC.

*The log.* `LogInv` follows every line from `write()` to the streams: what was pushed and
not treated is `Pending`, and what was written before a request in it is in front of it, or
printed (`OrderIsKept`). A request in it is one that was made, by a caller that waits under
its number or by a thread that quits (`RequestsAreTold`). When the logging thread comes to
the request, all of these lines are printed, and `FlushStreams` comes before `EntryDone`.

*The parser.* `CutsDoNotMatter` says nothing of the middle of a packet. `ParsersInv` does: as
long as the stream is sound, buffer and wire together are what remains of the packet that is
being read, which depends on `datapos`, the headers read so far and the length
(`Reading`), followed by the packets after it (`Suffix`). So it does not matter where the
cut between buffer and wire is: the next line is the same (`FrontOfLine`, `HeaderLine`), a
line is only taken when its end has come, and a body only when all of it has
(`TakeFront`). The loop stops for want of characters (`HungryOK`), and the rest of a packet
would have a line or its body (`ReadingWaits`): when nothing is on its way and the loop
has stopped, nothing is left to be parsed.

*What liveness rests on.* A liveness property holds by fairness and by a fact about every
state: that whoever waits has something on its way to end it. The second part is safety, and
is proved for every instance.

- `KilledInv` of `ManagerInv`: an actor whose flag is down is in memory only while a message
  to it waits, a worker is between taking one and deleting it, or a `kill()` that put the
  flag down is about to post (`Doomed`). It is inductive because a message can be dropped
  only for an actor that is not in the map, and the flag is put down before the post.
- `PendingInv` of `SearchInv` and of `CallsInv`: `pendingRequests` is at most the number of
  timeouts that are still to be treated. The code takes one off for an answer and one more
  for the timeout of the answered query, so equality fails, and it could seem that the
  count jumps over zero; the bound holds because a timeout takes one off both sides, and
  an answer one off the smaller side only.
- `KeptInv` and `WaitInv` of `StoppingInv`: the id of a worker that left its loop is in
  `workers_to_destroy` or with a thread that is about to join it, and while `stop()` waits
  for an id there is one there, or a worker that was told to stop and has yet to push its
  own. Handlers that post take ids from `stop()`, but a handler runs on a worker, whose id
  comes after. With `LateCalls` the last id may go to a thread that brings none; what remains
  then is `NoWorkerIsLost`, that no worker is forgotten: it ends, its id is queued, or one
  thread is about to join it.

`NoLostNotification` is this fact for `SleepersAreServed`, and for `DataIsRead` it is `JobInv` of
`NetSelectInv`, that a marked reader has a job, with `ReadersDoNotBlock`, that its worker returns.

TLC finds `DhtInv`, `TimeoutsInv`, `LogInv` and `ParsersInv` to hold on the instance of
`services`; the run lists what they are for.

Liveness itself (`SleepersAreServed`, `KilledIsDeleted`, `StopReturns`, `SearchEnds`,
`AskingEnds`, `DataIsRead`) is only model-checked: it is out of reach of the prover. Every
other property of the passing runs is a theorem.

## 6. What is not covered

- Exceptions out of handlers and `treat()`: they end the process. Where the code throws
  on a broken socket or on a packet it cannot read, the models have that step
  (`crashed`, `alive`) and nothing after it.
- The time of timeouts outside of Timeouts: a deadline may pass at any moment after it
  was set. In Finder the deadline of the search does not fire before `start()`, which
  follows `add()` by far less than five seconds.
- Destructors of ActorManager, NetSelect and the API, which stop threads in an order
  that only the end of a program uses; the hazards name what they get wrong.
- Calls of `NetSelect::kill` from outside of the loop and the workers, by `API::destroyNode` and
  `API::destroyRelay`; a `send` that blocks because its peer does not read; a second request
  for an id on one connection. A packet is written in one step, also by two threads that
  send over one socket without a lock.
- The synchronous `get` and `set` of the DHT node: their wait has the defect that Logging
  models, and nothing else.
- NAT punching: the negotiation cannot run, because `askForDirectConnectionIds` gives no
  ids and a listener follows a null pointer; N2NP has the direct sockets it would offer.
- `Atom::Map`, one mutex around each call, which N2NP uses as such; NetQuery and the HTTP
  parser, which only UPnP uses; UPnP, crypto, addresses, demos, tests and third-party
  code (tinyxml, a quarter of the lines of the repository): input, output, text, or calls
  of a library, without state of a protocol.

## 7. The plan

Everything planned at first is done: BlockingQueue with ClosableFifo, WorkerPool,
ActorManager, Finder, KeyValue, N2NP, NetSelect, the routing table and the node around
it, the timeout thread, the log, and the parser; and proofs of the safety properties of all of
them. What would add most next: a composition of NetSelect with N2NP in which a descriptor closed twice
reaches another node.
