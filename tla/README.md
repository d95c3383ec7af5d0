# A TLA+ model of portico

portico is a C library that serves HTTP/1.1 and WebSocket, with TLS, from one
acceptor thread and a fixed number of event threads. This directory holds TLA+
modules that model its concurrent and stateful parts and its error-prone pure
functions, TLC configurations that check them on small instances, and TLAPS proofs
of the properties that matter most. `PROJECT.json` has the exact correspondence
between definitions and source lines, the runs, the mutants and the hazards. Paths
below are relative to `src/src/`.

## 1. The system

| Part | Source | State | Operations |
|---|---|---|---|
| Message queue | `ws/ws_mpsc.c` | node pool, `head`, `tail`, eventfd | send (get node, enqueue, wake), dequeue, process |
| Connection table | `ws/ws_connection.c`, `ws/ws_connection_handler.c`, `ws/ws_message_processor.c` | slots with generation and `ref_count`, free stack, fd map, global fd hash, `active_connections` | register, look up and reference, close, reap |
| Event loop | `ws/ws_event_thread.c` | epoll set, batch of events, `running` | wakeup, timeout, read, write, hang-up, reaper, cleanup |
| Acceptor, public calls | `ws/ws_server.c` | listening socket, next thread, thread handles | accept, choose a thread, send, ping, close, start, stop, wait, destroy |
| File reads | `aio/*.c` | completion queue, coalescing flag, eventfd, task queue or ring | submit, complete, drain, destroy |
| HTTP connection | `http/connection.c` | receive buffer, backlog, parked flag, stream, read contexts | dispatch, process, serve a file, stream, upgrade, completions, writable |
| HTTP parser, static files | `http/request.c`, `http/response.c`, parts of `http/connection.c` | none that outlives a request | frame a body, choose a file, ranges |
| WebSocket connection | `ws/ws_connection_handler.c`, `ws/ws_message_processor.c` | receive buffer, fragments, backlog | read frames, process each kind, send, close |
| Frame codec, UTF-8, handshake | `ws/ws_frame.c`, `ws/ws_utf8.c`, `ws/ws_handshake.c` | none | parse, encode, unmask, validate |
| TLS contexts | `ws/ws_tls.c`, `ws/ws_server.c` | current and retired context group, added certificates | build, swap, free, choose by server name |
| Configuration, router | `config/*.c` | route table, retired table | parse, set, match |
| ACME | `acme/*.c` | order, challenge table, key and certificate file, renewal thread | obtain, respond, renew |
| Server process | `../examples/portico_server.c` | server, manager, router | start, reload, stop |

How the parts meet. The acceptor queues a "new connection" message for an event
thread and wakes it through an eventfd. The event thread gives the socket a slot,
enters it in its own fd map and in the global hash, and adds it to its epoll.
Application threads find a connection by fd in the hash, take a reference, queue
a message for its thread, wake the thread and drop the reference. All work on a
connection's buffers is done by its own event thread, so HTTP and WebSocket
handling meet concurrency only through the socket, edge-triggered epoll, and file
reads that complete later, perhaps when the slot already belongs to someone else.
The certificate manager writes files that the server loads, and its renewal thread
calls back into the server, which replaces its TLS contexts under the handshakes
that use them; a reload of the configuration does the same, and replaces the route
table under the handlers that read it.

What is hard here, and hard to test:

- the window between the exchange of `tail` and the store of the link in the queue;
- wakeups that are coalesced, edge-triggered and drained before the work;
- file descriptors and slots that are reused while a message, an event, a hash
  entry or a file read still names their former owner;
- several steps of setting up a connection, or of starting the server, each of which
  can fail;
- output that stops at a full socket and must be resumed, and closes that wait for it;
- pipelined requests that must wait while a file is read, and input that arrives
  together with a handshake or on top of a full buffer;
- messages cut into fragments, frames and requests cut into segments, bounds computed
  with arithmetic that could wrap;
- shutdown while threads work or sleep, by two threads at once;
- a renewal that fails or crashes between key, order, file and reload.

Section 4 says which property is about which of these; the `hazards` of
`PROJECT.json` list them line by line.

## 2. The modules

**`MpscQueue`** models `ws_mpsc.c` with the part of `ws_event_thread_worker` that
consumes the queue. One action is one access to memory that another thread sees:
`ExchangeTail` and `Link` are the two halves of `ws_mpsc_queue_enqueue`;
`LoadHead`, `LoadNext`, `LoadTail`, `SpinForLink`, `Advance`, `ClearHead`,
`SwapTail`, `Republish` are the steps of `ws_mpsc_queue_dequeue`. The free list is
under a mutex, so `GetNode` and `ReturnNode` are atomic. `EpollWakeup`,
`DrainEventfd` and `EpollTimeout` are the branches of the event loop. Accesses are
sequentially consistent in the model: what the acquire and release orders of the
code would allow beyond that is not explored. `order` is
auxiliary: the queued nodes in the order of their exchanges. The pool does not
grow, as in the code: `should_expand_pool` returns false and nothing calls
`ws_mpsc_queue_expand_pool_safe`.

**`MessageFifo`** is what the queue promises: a bounded FIFO whose consumer holds
one message at a time. `MpscQueue!ImplementsFifo` states the refinement.

**`ConnLifecycle`** models the connection table under the acceptor, all event
threads and application threads. A slot is `<<thread, index>>`. An action is the
code between two points where another thread can interfere; `close(2)` is one such
point, since the kernel may hand the number out at once. `close_connection` is
`CloseConnection`, `CountDown`, `Unhash`, `Release`; `process_close_message` is
`ProcessClose`, `MsgCloseFd`, `MsgRelease`, `MsgCount`; `process_new_connection` is
`NoFreeSlot`, `TlsInitFails` or `RegisterConnection` followed by `AddToEpoll` or
`AddToEpollFails`. The acceptor reads `active_connections` (`ChooseThread`) before it
sends the fd (`HandOff`), so the thread it chose may be full by then. The queue is the
FIFO that `MpscQueue` implements. All fds are in one hash bucket, the worst case for the
search by fd.

**`ServerLifecycle`** models `ws_server_start`, `_stop`, `_wait` and `_destroy`, the
threads they create and join, and the memory they free. A call walks through the
threads one step at a time; start may fail in the set-up of a thread or in
`pthread_create`, and then unwinds. An event thread ends when its flag is down or its
`epoll_wait` fails, the acceptor when `running` is cleared. A join is four steps, between
which another caller may act: the test of the handle (`JoinTest`), the call (`JoinEnter`),
its return (`JoinReturn`) and the clearing of the handle (`JoinClear`). Joining a thread
that somebody else joins, that was joined before, or that was never created is undefined;
the model takes the outcome of the build, that the join fails at once and nobody looks
(`JoinRefused`). The unwinding of a failed start joins without a test and leaves the
handle, so its cleanup comes to that case. A thread whose initialisation failed may be
left `"dangling"`: freed, with its pointers in place.

**`Aio`** models the frontend and its three backends (blocking, thread pool,
io_uring) in one state space; the backend is chosen in `Init`. `uring_reap` goes entry
by entry (`ReapBegins`, `ReapEntry`, `CallbackReturns`, `ReapEnds`), because a callback
that fires on the spot, for want of memory, may submit again before the entry is counted
down and before the entries are released. The kernel side of io_uring (its completion
ring has twice the entries of the submission ring), the eventfd and epoll are external
and modelled from their use.
**`ReadService`** is the contract with the caller: a refused read never fires, an
accepted one fires once unless destroy drops it. `Aio!ImplementsService` states the
refinement.

**`HttpConnection`** models one slot that serves HTTP clients one after the other.
It uses file reads by the contract of `ReadService`. A request is a kind, a
keep-alive flag and a number of units of input; a response is a number of items.
`pc` walks through the handlers, because the client acts between their steps;
`mode` is what the caller makes of a -1. A client may begin with a WebSocket handshake,
which may arrive in two pieces, and send frames behind it; `stuck` notes input that the
last read left and that no event announces.

**`WsConnection`** models one WebSocket connection from the end of its handshake.
Payloads are real byte sequences, so that fragments, UTF-8 (**`Utf8`**, the decoder
table and loop of `ws_utf8.c`) and close codes are computed as in the code. Frames
that the server sends have two units each, so that a write can end inside one.

**`HttpCodec`** and **`FrameCodec`** are pure functions: body framing
(`resolve_body_framing`), ranges (`parse_range`, the multi-range builder), the choice
of the file that is served, frame headers both ways, and the versions of
`ws_unmask_payload`. Numbers keep a width: digits are summed up to `LongMax`, lengths
in bytes wrap at `2^(8*ExtBytes)`. **`Codec`** feeds them: requests and frames arrive in
pieces and are parsed after every piece.

**`HotSwap`** is a table that is replaced under its readers, with a grace of one
swap: the router (`portico_router_set`), and the abstract specification of the next
module. **`TlsGroups`** models the TLS context groups: build, exchange, free the one
retired before, retire; certificates added at run time; handshakes that refer to a
group; the choice of a certificate by `host_match`, with `Wild` as the relation of `"*."`
hosts to the names they cover. Main and the renewal thread have a call each, and their
steps interleave freely, since nothing in the process keeps them apart. A build reads the
list of added certificates; while the other thread changes it that is undefined, and the
model lets the build find the list as it is or was, or fail. Three auxiliary variables
say what happened: `added`, what the successful adds asked for; `blended`, the call that
published the live group was not alone; `clashed`, two threads were in `swap_tls_group`
at a time. `SwapsLikeHotSwap` relates it to `HotSwap`. **`Acme`** models the
manager, the ACME flow with its challenge table, and the files; the CA is external.
**`Portico`** composes `Acme` and `TlsGroups` into the process of
`examples/portico_server.c`. A write of the certificate file may be reported as failed
after all of it was written (`close`), and then nobody is told (`missed`).

**`MpscQueueProofs`**, **`ConnLifecycleProofs`**, **`WsConnectionProofs`**,
**`AioProofs`**, **`HttpConnectionProofs`**, **`HotSwapProofs`**, **`PorticoProofs`**
and **`ServerLifecycleProofs`** hold the proofs. The `MC*` modules give TLC its instances.

Definitions whose comment begins with "Mutant:" are not part of the model. Each is
a plausible mistake in the definition it precedes or varies; replacing the
definition by it makes TLC report the property that `PROJECT.json` names, which
shows that the property depends on that code.

## 3. Runs

`tlc -workers 2 -config <cfg> <module>` in this directory. Times are for two
workers.

| Run | Module, config | Instance | Distinct states | Time |
|---|---|---|---|---|
| `mpsc` | `MCMpscQueue` | 3 nodes, 2 producers, 2 messages, batches of 2 and 1 | 136,050 | 12 s |
| `conn` | `MCConnLifecycle` | 2 threads with 1 slot each, 2 fds, 1 sender, 1 event per wait, all faults, 2 accepts | 4,659,472 | 130 s |
| `aio` | `MCAio` | 3 backends, 2 workers, queue and ring of 2, 4 reads, failing allocations | 48,223 | 10 s |
| `http` | `MCHttpConnection` | 8 requests (plain, final, file, stream, malformed, oversized, handshake, frame), 3 of them over 2 clients, 2 chunks, buffers of 2, socket 1, all failures | 771,513 | 35 s |
| `codecs` | `MCCodec` | inputs around every limit: 17 as the largest long, 200 as the largest payload, 3 bytes for the 64 bit length | 215,193 | 5 s |
| `ws` | `MCWsConnection` | 12 frames, 3 frames and requests in all, messages of 2 bytes, backlog 3, socket 2 | 319,677 | 30 s |
| `server` | `MCServerLifecycle` | 2 event threads, main and one other caller, 2 starts, all failures | 7,802 | 3 s |
| `certs` | `MCPortico` | 2 names, 2 challenge slots, 2 orders, 1 fault, 2 sites of which one is a `"*."` host that covers the other, adds up to the third group, reloads up to the fourth, 1 handshake at a time | 889,726 | 100 s |

Why these bounds are enough for the cases of interest:

- `mpsc`: three nodes and two producers let one producer be between exchange and
  link while the other has linked behind it, the consumer empties the queue, and
  the pool runs out; a batch of 2 and a timeout batch of 1 are both reached. The
  proofs of section 5 remove the bound for the safety properties.
- `conn`: two accepts with two fds let an fd and a slot be reused once while a sender, a
  message or an event still has the old one; two threads let one fd number move between
  them. It has one event per `epoll_wait`, because `SocketNotStolen` and what rests on it
  do not hold otherwise: `conn_stale_event` shows that. Its results therefore are about an
  event loop that asks for one event at a time; the theorems of section 5 say what holds
  beyond that, for more senders too.
- `aio`: four reads fill a queue or ring of two, have one refused and one more in
  the hands of a worker.
- `http`: a request of each kind can wait behind a parked one, in a first or second
  life of the slot; one item of socket and two of backlog are exceeded by a header
  and two chunks; a receive buffer of two units is filled by three requests.
- `codecs`: every comparison in the functions has inputs on both sides and at
  equality; payloads to unmask have the lengths around multiples of 4, 8, 16 and 32.
  The limits are small numbers in place of `LONG_MAX` and `PORTICO_FILE_MAX`.
- `ws`: a message of three frames, or of two with a control frame between, a
  character split between fragments, a message one byte too long. A backlog of 3 units
  holds a frame and a half, so that a frame can be queued behind another one, be refused,
  and be written in two parts with a control frame between. Messages of
  at most 2 bytes and a buffer that starts at 1 make the buffer grow to its limit.
- `server`: a start can fail at the first and at a later thread, be undone and be
  followed by another; a stop can come at any point of a wait.
- `certs`: one fault at any point, followed by an undisturbed attempt; a certificate
  that is due once more after it was renewed; a table that is full with one order; a
  configuration that grows by a name between two lives of the process; adds and a reload
  that overlap at every step; groups enough for a handshake to be overtaken twice, and for
  two adds and a reload to follow one another.

Symmetry (of fds) is used in `conn`, which checks invariants only. `mpsc` and
`certs` check for deadlock: there somebody can always go on. The other models
stop where their bounds are used up or everything is closed.

Fairness. `mpsc`: a thread inside a send goes on, and the consumer goes on; that
anybody sends, that a malloc succeeds for ever, or that the 100 ms timeout fires is
not assumed. `aio`: event thread, workers and kernel make progress and a begun
destroy goes on; nobody has to submit or destroy. `http`: the event thread goes on,
reads complete (shown in `aio`), and a client finishes a request it began and reads
its socket; an unread socket rightly blocks its connection until the reaper comes.
`ws`: the event thread goes on, and nothing is asked of the client. `server`: a thread
that is not blocked runs, an event thread looks at its flag again after `epoll_wait`'s
100 ms and the acceptor after its sleep; nobody has to call anything. `certs`: the
manager, the renewal thread and its calls into the server go on, the renewal period ends,
and the CA validates a challenge it was told of; nothing has to fail, expire, start, stop
or be added, and a call that main has begun need not go on. These are weak fairness of
threads that the operating system schedules; no strong fairness is used.

## 4. What the runs show

Message queue (`mpsc`). `NodeConserved`: every node is in one place. `ChainIntact`:
a queued node is reachable or a thread is on its way to link it. `NoLostWakeup`: the
consumer never sleeps on a non-empty queue without a wakeup coming. `ImplementsFifo`,
`EveryMessageTaken`.

Connections (`conn`). `SocketAccounted`: no open socket without somebody responsible, on
any failure path. `SocketNotStolen`: nobody closes a socket that another connection owns.
`ActiveExact`: `active_connections` counts exactly. `DataReachesItsTarget`: a queued send
is delivered to the connection it was meant for or not at all, also after the hash went
wrong. `RefCountExact`: the count is the number of references. `SlotAccounted`: every slot
is free once, or in use, or lost in one of the two ways that the comment names. These two
hold until a teardown removes the hash entry of another connection (`Undisturbed`), which
`conn_shared_hash` shows to happen.

File reads (`aio`). `NoLostWakeup`: a completion never waits without a signal coming.
`ImplementsService`: one outcome per read. `EveryReadEnds`, `DestroyEnds`.

HTTP (`http`). `ResponsesInOrder`: whatever is pipelined, parked, streamed, backlogged
or left over from another client, a client gets the responses to its own requests, in
order. `ParkedHasWaker`: nothing is parked without somebody to wake it.
`ContextOwned`: what a read owns is freed once. `EveryRequestAnswered`.

Pure functions (`codecs`). `FramingExact`: a request is taken exactly when its length is
beyond doubt, and then in that length. `RangesExact`: a 206 has the bytes that were
asked for. `ServedFromDocroot`: what is served is a file of the docroot within the
limits, whatever took the place of the path. `FrameExact`: frames are parsed whole or
not at all, and no length wraps. `UnmaskExact`: every version unmasks every byte once.

WebSocket (`ws`). `MessagesExact`: the application is given exactly the messages that
the frames make up, in any segmentation. `DataInOrder`, `NothingAfterClose`,
`InputServed`, `SlowConsumerGoes`.

Start and stop (`server`). `FreedAfterEndUnlessClash`: the memory of an event thread
outlives the threads that use it. `QuietWhenStopped`: after a failed start or a stop
nothing runs and nothing is left to be joined. Both hold until two callers are in
`pthread_join` for one thread at a time. `StopReturns`: stop ends, if it comes when the event
threads have reached their loops; one that comes earlier has its flag overwritten and
waits for ever.

Certificates (`certs`). `ChallengesAnswered`: the challenge table has room for every
order, since each attempt takes its tokens away. `CurrentLoads`: what is left alone as
current can be loaded. `ServedIsCurrent`: it is what new handshakes are shown, unless its
write was reported as failed, the reload failed, or the call that published the live group
was not alone. `AddedIsPresented`: so is an added certificate, unless the configuration or
an earlier add covers its host, or again the call was not alone. `SwapsLikeHotSwap`: the
groups are swapped, read and freed as `HotSwap` says, until two threads are in
`swap_tls_group` at a time. `RenewalCompletes`: whatever failed or crashed before,
a certificate that is missing, due or short of a name is replaced.

### Disagreements between code and comments

Four runs are expected to end in a violation. Each checks one property that a comment
in the source states, and TLC's trace shows how the code departs from it. `findings`
in `PROJECT.json` quotes the comments.

- `conn_stale_event`, `SocketNotStolen`: with two events in one batch, the wakeup
  event processes a queued close, the acceptor reuses the number, and the second,
  stale event closes the new client's socket.
- `conn_shared_hash`, `HashCurrent`: a teardown closes the fd before it removes the hash
  entry by number. Another thread gets the number, registers its connection and tears it
  down in between: it removes the first thread's entry, and its own stays when its slot is
  free again, to be found by a sender.
- `ws_interleave`, `WireIsFrames`: control frames are written past the backlog and may
  land between the two halves of a data frame.
- `certs_swap`, `FreedIsUnused`: one reload of the configuration swaps the TLS group once
  per site, and the second swap frees the group of a handshake that began before the
  first. Without a handshake the property fails by a group that is freed twice, when main
  and the renewal thread swap at a time.

The instances are small, and each run ends within seconds.
Others show as an exception that a property of a passing run has to make, or as a
property that fails when it is added to a run:

- `ws_server_stop` of another thread joins the thread that `ws_server_wait` is joining; the
  join fails, and the thread's memory is freed while it runs (`clash` in
  `FreedAfterEndUnlessClash`);
- the unwinding of a failed start joins the threads it had created and leaves their
  handles, so that its cleanup joins them again (`JoinRefused`); a thread whose
  initialisation failed is freed a second time by destroy (`Free` of what is `"dangling"`);
- a slot kept back at close because a sender holds a reference is not returned to the
  free stack by the sender that drops it last (`Stranded` in `SlotAccounted`);
- after a failed `epoll_ctl` the wiped slot stays in fd map and hash (`NoneRefused`);
- a queued close carries no generation and closes whatever connection has the fd when
  it is processed (`ProcessClose`);
- input on top of a full receive buffer, and frames that came with their handshake, are
  not looked at until more arrives (`stuck` in `EveryRequestAnswered`);
- a list of ranges that comes down to one is answered with the whole file, and a
  compressed sibling may be larger than the largest file (`RangesExact`,
  `ServedFromDocroot`);
- a certificate file cut short behind its leaf counts as current and is not replaced,
  and neither is one whose new key could not be saved (`CurrentLoads`);
- an added certificate does not replace one of the configuration for the same host
  (`AddedIsPresented`), and a reload that fails after a renewal is not repeated, nor is the
  server told of a certificate whose file was written and whose `close` failed (`missed` in
  `ServedIsCurrent`);
- renewal and reload of the configuration swap the TLS group from two threads, which
  `swap_tls_group` forbids: a group is freed twice or never (`clashed` in
  `SwapsLikeHotSwap`), and a group that main built before a renewal and published after it
  puts the old certificate back (`blended` in `ServedIsCurrent`);
- a comment says that a frame past the cap of the backlog is dropped and a disconnect to
  follow later; the code disconnects (`SlowConsumerGoes`).

## 5. What is proved

`tlapm <module>.tla` checks a proof module. The theorems hold for every value of the
constants that satisfies the named assumption of the module, and for the specification
without fairness. No property is inductive as it stands; what follows is what had to be
added, and why.

**The queue** (`MpscQueueProofs`), from `MpscAssumption` (NULL is neither a node nor a
message; the batch sizes are positive), for any pool, producers and messages. `IndInv`
is the conjunction of

- `Typed`: the types, and where `node` and `chead` are not NULL;
- `Owned`: no node has two owners and none is lost;
- `Linked`: the tail is the last queued node; each missing link is owed by exactly one
  producer, which knows its predecessor (`LinkedOrOwed`, `LinkerPlaced`, `OneLinker`).
  This is what makes the consumer's wait for a link, and its failed compare-and-swap,
  end well;
- `AtFront`: what the consumer may rely on at each of its steps: `chead` is the oldest
  node, nobody is still linking it, and where it waits or republishes there is a second;
- `Woken`: outside the wakeup branch a queued message has a wakeup coming.

One lemma per action shows that it preserves `IndInv`; the three ways to take a node
share `PoppedInd`. `TypeCorrect`, `NodesConserved`, `ChainStaysIntact` and
`WakeupNeverLost` follow.

`QueueIsFifo`, for a finite pool, is the refinement of `MessageFifo`. `Filled` says that
every queued node, and the one in the consumer's hands, has its message; so the mapped
queue is the messages of `order`, and the message in hand that of `chead`. Each step then
puts (`ExchangeTail`), takes (the three ways out of a dequeue, by `Popped`), finishes
(`HandleMessage`) or leaves both alone: links, wakeups and the free list
cannot be seen. That the queue is never longer than its capacity is the pigeonhole
principle on `order`, which has no node twice.

**Connections** (`ConnLifecycleProofs`), from `ConnAssumption` (positive sizes, NULL and
the wakeup are no fds), for any number of threads, slots, fds, senders, accepts and events
per wait, with every fault. The code does not keep all of its properties in all runs
(section 4), so `Inv` has three layers, each on a condition on what has happened so far,
recorded in `mishaps`:

- always: the types; which task a thread has at which of its steps (`Held`); and
  `SocketAccounted`;
- `NoneStolen`, no `epoll_ctl(ADD)` failed and no thread closed an fd that it did not have
  in its map: `Owned`, which says that fd maps and messages own their sockets, each one
  alone, that what is on a free stack is not in use and there once, and that the counts
  are exact;
- `Undisturbed`, and no teardown removed the hash entry of another connection: `Counted`,
  which says that references, hash entries, the jobs of senders and the generations of
  queued sends agree with the slots.

One lemma per step shows that each layer is kept as long as its condition is.
`SocketsAccounted` has no condition. `SocketsNotStolen` and `ActiveIsExact` have the second,
`RefsCounted`, `HashIsCurrent`, `SlotsAccounted` and `DataReachesTarget` the third: as long
as none of the named accidents has happened, nothing else goes wrong, in any interleaving.
What brings the accidents about is proved too. `Calm` says that a thread watches only what
it serves and that the event in its hand is about such a connection. It is kept as long as
no `epoll_wait` reports two events (`Lone`) and no `epoll_ctl(ADD)` fails (`NoneRefused`).
So in such a run no socket is stolen (`LoneEventsSpareSockets`) and no count drifts
(`LoneEventsKeepCount`), with any number of threads: in the model the list of events that
a thread holds while it closes connections, up to 1024 in the code, is the only cause
besides a failing `epoll_ctl`. `Lone` is a hypothesis about the run, which the code does
not ensure; it is the setting of run `conn`. `HashIsCurrent`, `RefsCounted` and
`SlotsAccounted` have no version under `Lone`, and cannot: two threads do not keep
`Undisturbed`. Nor has `DataReachesTarget`, whose proof needs it, although `conn` finds the
property to hold all the same.

**The WebSocket connection** (`WsConnectionProofs`), from `WsAssumption` (the shape of a
frame; the slack of the receive buffer is at least a header), for any set of frames and
any limits. The two directions have an invariant each:

- `InputInv`, with the step `OnePart`: whenever the thread is not parsing, the buffer
  holds part of one frame only, and of one whose header was accepted. A full buffer at
  its limit would contradict this, which gives `BufferSuffices`; `FragmentBounded` is a
  conjunct, since the bound must hold before a continuation is checked against it;
- `OutputInv`: the backlog holds data frames only, and once a Close has been sent the
  connection is closed or the thread is about to close it, with nothing else to send
  on the way. From it `CloseIsLast` and `CloseCodes`.

`DataKeepsItsOrder` counts: the n-th unit of data on the wire, by its rank among the data
units there, is the n-th the application sent, the backlog goes on from there, and while the
connection is open both together are all that was sent. It is
inductive with the two invariants above: control
frames change no rank, `portico_conn_send` writes past the backlog only when there is none,
and a flush moves units from the front of the one to the end of the other.

**File reads** (`AioProofs`), from `AioAssumption` (sizes are natural numbers, there is
a worker, a ring has an entry). `WakeInv`: while the coalescing flag is set, the eventfd
is readable, or a worker is about to write it, or the drain is about to reset the flag
(`Signalled`); a worker that skips its write therefore relies on something real.
`PoolInv`: while tasks are queued a worker is awake, because a worker sleeps only on
an empty queue and each submission wakes one. `RingInv`: the counter of reads in flight
is the number of reads with the kernel or in the completion ring, and one more while a
callback runs inside `uring_reap`; what that one submits is bounded by the counter, and
the entries it has not released fit beside it. From them `WakeupNeverLost`,
`TasksHaveAWorker`, `RingHoldsItsReads` and `FreedAlone`.

`NoReadLost` and the refinement `KeepsReadService` rest on a ledger: a function that says
for each read in which one of nine places it is (`Ledger`), and `Single`, that it is there
once. Each action moves the reads along `Ways`, the fourteen transitions from submission to
an end. The outcome that `ReadService` sees is the place, with the five places on the way
taken as one; so a step of the ledger is a step of the service.

**The HTTP connection** (`HttpConnectionProofs`), from `HttpAssumption` (kinds and sizes
of requests, positive buffers), for any requests and any number of lives of the slot.
`Inv` is

- `Shapes`: types, written so that an update of one field is one equation;
- `Places`: where the event thread can be in which state of the connection; it processes
  input only when the connection is not parked;
- `Reading`: a read of this life is the chunk of the connection's stream or the one file
  it is parked for, and there is at most one; reads of earlier lives have a smaller
  generation. `ContextOwned` alone is not inductive, since a completion must know that
  the connection is still its own;
- `Waking`: a parked connection has such a read, or a stream with a backlog, or is about
  to advance.

`ReleasedOnce` and `ParkedIsWoken` follow. `Output` adds what the write side knows
between its steps (`Sending`, `Turning`, `Closing`) and gives `OutputIsWatched`: between
two events a backlog has EPOLLOUT armed, and a close that is deferred has a backlog.

`ResponsesKeepOrder` follows the data. `Carried` types the buffers, and `Data` has two
halves. `Aligned`: the input that was not consumed yet (receive buffer, socket and what the
client has still to send) is the rest of the requests, each with all its units, beginning
with the one that is due. `InOrder` with `Answering`: the answers (wire and backlog) follow
one another as the property says, and they are as far as the state of the connection says:
a stream is at its offset, a parked file is the next to be answered, else the request that
is due is. So whatever a handler appends continues the answers, and a completion for an
earlier life appends nothing, by the generation guard of `Inv`. Once a connection is about
to end nothing is claimed of the input. Each handler is one lemma.

**Tables replaced under readers** (`HotSwapProofs`), from `Sensible` (the first table has
number 0 or 1, there may be tables), for any readers and any number of swaps. `Chained`
and `FreedOnce` say which tables are current, retired, in the hands of a swap or freed;
with `ReadersBehind` and `ClosedQuiet` they give `OneSwapIsSafe` and `NoTableLeaks`.

**The server process** (`PorticoProofs`), from `TlsAssumption` (bounds; the configured
certificates are a sequence) and `AcmeAssumption` (a configuration has no more names than
the responder has slots: `portico_acme_obtain` refuses more than `ACME_MAX_DOMAINS`, 64, and
`RESP_MAX_SLOTS` is 64 as well), for any sites, handshakes, orders and failures:

- `GroupsSwapLikeTables` is the refinement: with `CallsFit`, which ties the calls under
  way to what they hold, every step of the process is a step of `HotSwap` or leaves its
  variables alone, until two threads are in `swap_tls_group` at a time.
  `HandshakesKeepTheirGroup` has the invariant of `HotSwapProofs` for the groups, and its
  consequences, on the same condition;
- `ListsFit` and `GroupsFit` (`GroupInvariance`) say that the list of added certificates
  and its copy in a call agree with what was asked for, and that the live group, and one
  that is built, were made from them if their call was alone; from them
  `AddedHostsAreServed`, for every relation `Wild`, and `LiveGroupIsComplete`. A call that
  was not alone may have read the list while it changed, so the condition cannot be
  dropped;
- `FilesFit` relates key, chain and what the manager knows of them at each step of an
  order, also across a crash: `CurrentCanBeLoaded`. `ServedFits` says that a group about to
  be published was made from the certificate on disk, for main as long as it is alone and
  no renewal waits to be announced, and that the live group was: `RenewedIsServed`;
- `TableFits` and `TokensFit` say that the challenge table holds tokens of this attempt
  only, none twice, and that each belongs to a name that was dealt with. A name that is
  still to be prepared finds a free slot by the pigeonhole principle (`RoomForName`): a
  full table would have a different other name for every slot, and an order has no more
  names than there are slots. What an earlier attempt left would break this, so cleanup is
  part of the argument. From them `ChallengesFindRoom`.

**Start and stop** (`ServerLifecycleProofs`), from `ServerAssumption` (there is an event
thread; the main thread is not one of the others), for any number of event threads,
callers and restarts and with every failure. The theorems need to know, at each point of
each call, which threads are over. `Past` is that
set: a loop of joins has finished with those it has passed, a failed start knows those
it has not created. `Settled` says that threads in `Past`, and threads without a handle,
are over; that a server which is not running has a stop under way or no threads; and
that a start has set up the memory of what it creates. `Calls` adds that only the main
thread starts and destroys, with nobody else inside. Every join adds its target to
`Past`: the handle was clear, the join returned, or it was refused because there was nobody
left to wait for. A refusal because somebody else waits is where two callers at one thread
must be excluded; every other step only moves within what is known. `MemoryOutlivesThreads`
and `StoppedIsQuiet` follow. `FreedAfterEnd`, without the exclusion, is violated when it is
put in the place of `FreedAfterEndUnlessClash` in `MCServerLifecycle.cfg`.

## 6. What is only model-checked

- Liveness (`EveryMessageTaken`, `EveryReadEnds`, `DestroyEnds`, `EveryRequestAnswered`,
  `InputServed`, `SlowConsumerGoes`, `StopReturns`, `RenewalCompletes`): reasoning about
  fairness and ENABLED is outside the prover.
- `MessagesExact`: it rests on what concatenating fragments and the loop of the UTF-8
  decoder compute for sequences of any length, which needs an induction over data that the
  installed provers cannot do.
- The pure functions of `codecs` (`FramingExact`, `RangesExact`, `ServedFromDocroot`,
  `FrameExact`, `UnmaskExact`), for the same reason; they are checked over the whole range
  of their bounded inputs.
- What holds of connections when `epoll_wait` reports several events is proved only up to
  the first accident that `mishaps` records; what the code does after one is left open.

## 7. What is not modelled

Left out, because it is sequential, has no state that outlives a call, or belongs to
another program: OpenSSL; signatures, encodings and transport of ACME; the configuration
loader; virtual hosts, the client address and conditional GET (304), which only choose
what is answered; the text of HTTP requests and responses where no property looks at it;
the header checks and the hash of the WebSocket handshake; logging, socket options,
statistics, CPU affinity, signals and the command line; the buffer pools, which are
allocated and never used; the legacy frame senders, which the server does not call.

Abstracted:

- TLS takes the place of `recv` and `send` and is left out of the HTTP and WebSocket
  models; a failing TLS set-up is a fault in `ConnLifecycle`;
- the user data of a connection, which is set without a reference (`ws_server.c:840`):
  what can go wrong is in the memory behind the pointer;
- the keepalive ping of the reaper, which is one more control frame;
- the slots that the cleanup of an event thread visits (`ws_event_thread.c:352`):
  `ServerLifecycle` frees a thread as a whole;
- relaxed memory orders of the queue and of the thread flags: accesses are sequentially
  consistent;
- what a build finds in a list of certificates that another thread changes: undefined in
  the code, here one of the two lists or a failure;
- what a group that was freed twice, or freed under a handshake, does to the memory behind
  it: the model counts the frees and goes on;
- the statistics of the queue (`queue_depth` may wrap, `ws_mpsc.c:803`), which nothing in
  the library acts on;
- the state after a stale event has closed a socket: several events per `epoll_wait` are
  modelled, but nothing is claimed beyond the first such accident (sections 5 and 6).
