# A TLA+ model of the GameSparks C++ SDK

The GameSparks C++ SDK is a client library. A game links it, calls
`GS::Update` from its main loop, and sends requests to a server over a websocket;
some requests are *durable* and survive disconnections, log-outs and restarts. A second,
independent part opens *real-time sessions* over TCP and UDP.

The modules here model the code under `src/base`. They are written from the source, at
the lines `PROJECT.json` ("map") gives for every definition, and are checked with TLC;
the most important safety properties are proved with TLAPS for every value of the
constants.

## 1. Inventory

### 1.1 The components

| Component | State | Operations | Modelled by |
|---|---|---|---|
| **Request path**: `GS`, `GSConnection` (`GS.cpp`, `GSConnection.cpp`) | `m_Connections` (newest first), `m_SendQueue`, `m_Ready`, `m_Paused`, `m_Initialized`, `m_mustBeConnectedIn`; per connection the websocket, `m_Stopped`, `m_Initialized`, `m_PendingRequests` | `Initialise`, `ShutDown`, `Send`, `Disconnect`, `Reconnect`, `Reset`, `NetworkChange`; `Update` = `UpdateConnections` + `ProcessQueues` (`ConnectIfRequired`, `TrimOldConnections`, `ProcessSendQueue`, `ProcessPersistentQueue`, `ProcessPendingQueue`) | `GSClient`, and what it promises, `Service`; from inside callbacks, `Callbacks` |
| **Durable requests**: the rest of `GS.cpp` | `m_PersistentQueue`, `m_sendNextDurableRequestIn`, `m_durableQueueRunning`, `m_durableQueuePaused`; one queue file per user | `SendDurable`, `RemoveDurableQueueEntry`, `SetDurableQueueRunning`, `ProcessPersistentQueue`, `SetUserId`, `WritePersistentQueue`, `InitialisePersistentQueue` | `DurableQueue`, and what it promises, `Outbox` |
| **Requests and data**: `GSRequest`, `GSRequestData`, `GSData`, `GSObject` | a cJSON tree, time-out, durable flag, callbacks | `Send`, `Complete`, accessors | the parts with state, in both modules |
| **Configuration**: `GSClientConfig` | retry base and maximum, time-out, drain interval, limit, a linear congruential generator | `setFromObject`, `ComputeSleepPeriod` | `Backoff`; its values are constants of the other modules |
| **Platform**: `IGSPlatform` | user id, auth token, device id, files | `StoreValue`, `LoadValue`, `SetUserId`, `DurableInit` | its files, in `DurableQueue` |
| **WebSocket**: `easywsclient` | `readyState`, `rxbuf`, `txbuf`, `ipLookup` and the DNS thread | `from_url`, `poll`, `dispatch`, `send`, `close` | `WebSocket`; its outcomes, in `GSClient` |
| **Real-time session**: `RTSessionImpl` | connect state, action queue, two connections, `running`, `Ready`, sequence numbers, `sendMutex` | `Start`, `Stop`, `Update`, `SendData`, `SubmitAction`, `SetConnectState`, `ShouldExecute` | `RTSession`; the sequence numbers, in `RTDelivery` |
| **Real-time connections**: `ReliableConnection`, `FastConnection` | socket, thread, session pointer, `stopped`, `sessionMutex` | `Send`, `ConnectCallback`, `DoLogin`, `Recv`, `StopInternal` | `RTSession`, `RTDelivery` |
| **Commands and results** | the decoded packet | `LoginResult`, `UDPConnectMessage`, `PlayerConnectMessage`, `CustomCommand`: `Execute` | what they do to the session, in `RTSession` and `RTDelivery` |
| **Codec**: `Proto` | stream position and limit | varint, zig-zag, length-delimited packets, data in data | `RTStream` |
| **Sockets, threads, streams**: `System` | socket state, connect thread, tear-down flag | `BeginConnect`, `Receive`, `Send`, `Close`, `teardown` | what the session's threads do with a socket, in `RTSession`; the streams, in `RTStream` |
| Generated API, dates, strings, containers, mbedtls, cJSON, samples, tests | none that matters here, or third party | | not modelled |

### 1.2 How they interact

* The game calls `GS::Update(dt)`. Update polls the websocket of every connection
  through `GSConnection::Update`; the websocket reports errors
  (`OnWebSocketError`) and one frame per call (`OnWebSocketCallback`), and both call
  back into `GS`, which may change `m_Connections` while the loop runs over it.
* A frame is a handshake message (nonce, session id), a response that completes a pending request, a log-in that changes the
  user, or a message for a listener of the game. Any of them may also have a `connectUrl`, which redirects the client: the connection is
  replaced first, and the rest of the frame is then handled for the connection it came by, which is stopped by now (`GS.cpp:149-175`).
* `m_Connections[0]` is the connection in use. The older ones are stopped and are
  kept only for the requests pending on them, until those time out.
* A durable request is in the persistent queue and its file until it is
  answered; what is sent is a copy, which is pending on a connection like any request.
* A real-time session runs a thread for TCP and one for UDP. They decode packets,
  execute some results at once, and queue the others for `RTSession::Update`, which
  the game calls. `sendMutex`, a `sessionMutex` per connection and `actionQueueMutex`
  protect parts of this.

### 1.3 What is hard, and what makes each component correct

The single-threaded part is hard because of *order*: errors, redirects, time-outs,
trims and application calls meet in one Update. The durable part is hard because of
*identity over time*: copies outlive their user, their connection and their process.
The real-time part is hard because of *threads and locks*. `PROJECT.json` ("hazards") has the
list, line by line, with the property that covers each one.

* Request path: one connection at most is running; a request is called back once and
  is never held forever; Disconnect is final; availability means something; old
  connections do not pile up.
* Durable requests: nothing is lost, mixed between users, called back twice or sent
  again after its answer; the limit holds; the queue drains.
* Real-time session: a connection that is stopped begins nothing with its session any more (the reliable one may still end what it
  had begun, as it takes no lock), the connect state follows the connections, no thread waits forever, a packet is executed once and in order.
* Sequenced packets: what is discarded was overtaken, and what is delivered is in order.
* Codec: what was written is what is read, however the bytes come, and nothing read takes a byte too few or too many.
* WebSocket: frames and messages keep their order however the bytes come, every end is reported, the socket
  has one user at a time, and its destructor returns.
* Configuration: the generator computes what it should, on every thread, and a period stays within its bound.

## 2. The modules

| Module | Purpose |
|---|---|
| `GSClient` | the request path: specification and properties |
| `Service` | what the request path promises the application, without connections, queues or time |
| `Composition` | the connections of `GSClient` are those `DurableQueue` assumes |
| `MCGSClient` | the instance of `GSClient` and `Composition` for TLC, with two configurations |
| `GSClient_proofs` | the theorems about `GSClient`, that it implements `Service`, and about `Composition` |
| `DurableQueue` | the durable queue: specification and properties |
| `MCDurableQueue` | its instance for TLC, with three configurations |
| `DurableQueue_proofs` | the theorems about `DurableQueue`, and that it implements `Outbox` |
| `Outbox` | what durable requests promise, without connections, copies or files |
| `RTSession` | a real-time session and its threads: specification and properties |
| `MCRTSession` | its instance for TLC, with two configurations |
| `RTSession_proofs` | the inductive invariant of `RTSession` and its theorems |
| `RTDelivery`, `MCRTDelivery` | the sequence filter of the two receiving threads: specification, properties, instance |
| `RTDelivery_proofs` | the inductive invariant of `RTDelivery` and its theorems |
| `RTStream` | reading the bytes of packets, over TCP and in datagrams: specification and properties |
| `RTPackets`, `MCRTStream` | the bytes that are written for a packet; the instance of `RTStream` that reads them |
| `RTStream_proofs` | the inductive invariant of `RTStream` and its theorem |
| `WebSocket`, `MCWebSocket` | a websocket, its thread and its user: specification, properties, instance |
| `WebSocket_proofs` | the inductive invariant of `WebSocket` and its theorems |
| `Backoff`, `MCBackoff` | the shared generator and the retry settings: specification, properties, instance |
| `Backoff_proofs` | the inductive invariant of `Backoff` and its theorems |
| `Callbacks`, `MCCallbacks` | calls of the application from inside callbacks: specification, properties, instance |
| `Callbacks_proofs` | the inductive invariant of `Callbacks` and its theorems |

The modules overlap where components meet. `GSClient` takes a poll and a dispatch of a websocket as one
outcome each; `WebSocket` has what happens inside. `Callbacks` has the connections of `GSClient` without their requests, but
with the C++ stack. `DurableQueue` has the connections of `GSClient` without what they carry; that `GSClient` gives it the connections it assumes is stated in
`Composition`. `RTDelivery` looks at two of the threads of `RTSession` inside the step in which a packet is read, and `RTStream` at
one of them, byte by byte; neither has the locks and failures of `RTSession`.

### 2.1 GSClient

State. `conns` is `m_Connections`, a sequence of records with the state of the
websocket, `stopped`, `greeted` (the nonce was answered), `handshaken`
(`GSConnection::m_Initialized`), `pending` (the keys of `m_PendingRequests`) and `sent`, what the server
has got and not answered. `timer` is `m_expiresInSeconds` of a request, which is in
`sendQueue` or pending somewhere. `deadline` is `m_mustBeConnectedIn`, of which the code asks for the sign
only, so that it is floored at -1. `submitted`, `callbacks` and
`dangling` are history.

Control. `Update` is taken apart: `pc` names the part that runs next, `cursor` the
connection a loop is at, `dt` the time step.

```
idle -> poll <-> dispatch [-> redirected] -> connect -> trim -> send -> expire -> idle
              (UpdateConnections)                   (ProcessQueues)
```

The application acts at `idle` only. `PollClosed`, `DispatchResponse` and the other
actions of `poll` and `dispatch` are the outcomes an iteration of the loop can have, each with all that the
callbacks do. A frame with a `connectUrl` takes two steps: `DispatchRedirect` makes the new connection, and at `redirected` one of the
other frames, or nothing, is handled for the old one, whose place `cursor` has followed. A connection that is stopped ends the loop, as `GSConnection::Update`
returns false. `ProcessPersistentQueue`, between `send` and `expire`, is the other module's.

What the code does and the model therefore does: one frame is dispatched per
connection and Update; a stopped connection dispatches no frame, so that the requests
pending on it can only time out; the rest of a frame that redirects the client is the exception, and may answer a request on the connection
it has just stopped, send a handshake by it, or make it ready and the service available while the new front has no handshake behind it; a request sent by `ProcessSendQueue` is aged again by
`ProcessPendingQueue` in the same Update; only the head of the send queue ages. The
undefined behaviour at `GS.cpp:411-421` is a choice between the two outcomes it can
have (`SendQueueDangles`): a crash, or the stale request is sent and another is lost.

Left out. URLs, session ids, tokens and the number of attempts; the keep-alive of an
idle connection; `from_url` failing on a malformed URL; `NetworkChange`, which stops or restarts
connections as `Disconnect` and `Reconnect` do (`GS.cpp:694`: it disconnects when the network is *available*); calls the application makes from
inside a callback, which `Callbacks` has; a `GSRequest` object that is sent twice. After `ShutDown` nothing may be called (`GS.h:124`), and
the model stops.

`Service` is the abstract specification. The application sees which of its requests wait, how often each was called back, and whether the service
is available. `Send` makes a request wait, `Complete` calls waiting requests back, `Lose` drops them, `Overtake` is the double pop; nothing else
touches them, and nothing at all happens after `ShutDown`. `BecomeAvailable` asks that the application has not disconnected; its own calls can only
end availability. `GSClient` implements it with `waiting` the requests in the send queue or pending on any connection: queueing, sending, redirects, the death
of a socket and everything else an Update does are stuttering steps of it, or change `available` alone. `Service` is as weak as the code: `Lose`
may happen at any time, and availability does not mean that a connection is there.

### 2.2 DurableQueue

State. `queue` is `m_PersistentQueue`, each entry with the time left and whether it
still has the callback it was sent with; `store` has the queue file of every user.
`conns` has what matters of a connection: whether it is ready, whether it is stopped, and the copies pending on
it. `owner`, `answered`, `astray` (answered when another user
was logged in), `withdrawn`, `torn` (lost in a write cut short) and `callbacks` are history.

Every action changes queue and file together, as `WritePersistentQueue` follows every
change; `CrashInWrite` is the process ending between the truncation and the
write. `Initialise` is what a new process does. `Loaded` makes every entry due and
drops the callbacks, unless the application attaches them again in
`OnPersistentQueueLoadedCallback` (`Reattach`).

An Update is one step (`UpdateQuiet` or `UpdateSends`): `ProcessPersistentQueue` and then
`ProcessPendingQueue`, between which nothing else sees a durable request. As the drain interval is positive
(`setFromObject` refuses others), one request at most is sent in an Update. The copy
gets the new time-out of its entry, is inserted only when no copy is pending on
that connection under its id (`map::insert`), and ages in the same Update, one time step ahead of its
entry.

The connections are an abstraction of those of `GSClient`: each may become
ready, stop, close and be deleted between any two steps (`Connections`), in any way `GSClient`
allows and some it does not. A connection that is stopped and behind another may become ready, too (`ConnectionReady`), as it does by a frame that redirects the client. That `GSClient` allows nothing else is checked and proved: `Composition` puts the connections of `GSClient` in place of
those of `DurableQueue`, and `ConnectionsAsAssumed` says that each step of `GSClient` then is one of `Connections` or is not seen. The two are composed at the
connections only; a run of both together would have too many states. A response that finds no pending copy is dropped and
changes nothing; it is no action.

`Outbox` is the abstract specification. Every user has a box of requests: `Submit` puts one into the box of the current user,
`End` takes it out of that box, `Login` changes the user, `Tear` is a crash inside a write. `DurableQueue` implements it with
`box` the contents of the files and `ended` what is answered, withdrawn or torn. Sending, retrying, time-outs and restarts
are stuttering steps of it. `End` is deliberately as weak as the code: an answer that comes when another user is logged in
ends the request and leaves it in its box.

Left out. Requests with equal ids; changes of the configuration while requests are in
flight; `m_durableQueuePaused`, which is true inside `SetUserId` only.

### 2.3 RTSession

Three threads: the application's, which calls `Update`, `SendData` and `Stop`, and one for
each connection. `app` and `todo` say where the application is, `conn[c].pc` where the
thread of connection `c` is:

```
app         idle -> check -> execute -> poll -> idle                    (Update)
            idle -> send -> idle                                        (SendData)
            idle | check -> lock -> stop -> detach -> teardown -> join  (Stop, CheckConnection)
tcp         connect -> login [-> report] -> read -> packet -> execute -> read -> ... -> done
udp         connect -> lock -> wait -> begin -> read -> packet -> read -> ... -> done
tcp, udp    execute | packet -> answer -> read                          (UDPConnectMessage)
```

State. `running`, `ready`, `state` (`internalState`) and `queue` (`actionQueue`) are members of
`RTSessionImpl`; a record of `conn` holds what `Connection` and `Socket` do (`attached` is
`session != nullptr`, `tearing` is `isTearingDown`). `received` and `executed`, the last data packet
that came in and that the listener got, are history, and `crashed` marks the use of a null session.

Locks. A step ends where the thread has to wait or where another thread can make a
difference, so that most critical sections are one step. Two locks are held for longer. `sendMutex`
is held by the application while it stops connections and by the UDP thread during `DoLogin`; the
`sessionMutex` of the `FastConnection` is held during `DoLogin` and while the answer to a
`UDPConnectMessage` waits for `sendMutex`. Who holds them follows from the program
counters (`AppHoldsSendMutex`, `LoggingIn`, `FastMutexFree`). `FastConnection` looks at its session pointer and uses it under `sessionMutex`, in one step.
`ReliableConnection` has no lock there, in two places, so that looking and using are two steps each with `StopInternal` free to come in between.
`OnPacketReceived` (`Connection.cpp:30`) asserts that there is a session and copies the pointer, for a result into the result (`AbstractResult.hpp:12`): `TcpPacket`,
which crashes when it is null. `TcpExecute` then goes on with the copy, whatever has become of the connection: a `LoginResult` of a connection that has been stopped still
raises the state and makes a `FastConnection`. `Send` (`ReliableConnection.cpp:52`), when it cannot write the log-in, looks for a session and then reports to it:
`LogIn` and `Report`, which finds it as it was, or null.

What the code does and the model therefore does:

* `SetConnectState` ignores a lower state, so that `OnReady(false)` never takes the session back to
  `Disconnected`, and `CheckConnection` never reconnects a session that has been connected.
* The thread of a `FastConnection` ends when nothing arrives for 100 ms at `BeginReceive` (`Socket.cpp:386`).
* `DoLogin` holds `sendMutex` until the server has answered over TCP: `Update`, `SendData` and
  `Stop` block in the meantime.
* `Stop` leaves `queue` alone. A `LoginResult` that is handled while `Stop` is between its two
  connections leaves a `FastConnection` behind that may log in and set `ready` after `Stop`; this is
  why `StopIsFinal` is about the reliable connection only.
* A `ReliableConnection` that is opened when the state already is `ReliableAndFastSend` does not send another log-in over UDP.

Left out. `Start` after `Stop`; the destructors of the session and of the members of a
`FastConnection`; several packets in a datagram, and packets that cannot be decoded;
sequence numbers (`RTDelivery`) and the list of peers; `WebSocketConnection`, of the builds without
sockets. The server is external (`MayArrive`): it answers one log-in per TCP connection, accepts a log-in over UDP
when one was sent, and sends data to whom it knows.

### 2.4 RTDelivery

A player sends packets `UNRELIABLE_SEQUENCED`. They reach this client over UDP, in any order, any number of times or never,
or over TCP, where the server passes them on in an order of its choice (it does so for a client whose state is
`ReliableOnly`). `thread` is the receiving thread of each route, `max` is `peerMaxSequenceNumbers`, `queue` is `actionQueue`.
A player may connect again (`Rejoin`): the numbers start from 0, and the server's `PlayerConnectMessage`, executed in `Update`,
resets `max`. `epoch`, `highest`, `used` and `heard` are history.

`ShouldExecute` takes no lock. `Take` and `Discard` are its comparison, `Store` its assignment, `Submit` the way to the queue;
the other thread and `ExecuteConnect` come in between. A number can therefore be stored after a reset it precedes, and a lower
one after a higher one.

What the code does and the model therefore does: a number that equals the highest is let pass, so that a packet
that comes twice is delivered twice; a packet without a payload is decoded on another path that never asks
`ShouldExecute` (`Filtered`); `GetCommand` returns nothing for a packet it discards and leaves its payload in the stream
(`Discard`), which drops the rest of a datagram and ends the thread of the reliable connection, unless
the payload reads as fields (`Fields`).

Left out. The insertion of a new peer into the map by two threads at once, which is undefined; several packets in a
datagram; log-ins, reconnections and `Stop`, which `RTSession` has.

### 2.5 WebSocket

Three actors: the connecting thread (`dns` is where it is: `_s_dns_Lookup`, `doConnect2`), the application's thread (`app`), which polls and
dispatches once per Update, sends, stops and deletes, and the peer. The bytes of a frame are two halves, the first for its
header, as what matters of a cut is whether a header or a frame is whole. `PollTraffic` is one call of `poll` with all of its
outcomes: what `recv` and `send` return before they would block, and how each loop ends. `stopped` is
`GSConnection::m_Stopped`. `ipLookup` and the join of the thread are the hand-over: `poll` sees a result, joins, and only then
uses the socket.

What the code does and the model therefore does: a failed `recv` is followed by the send loop all the same; a connection that was closed in the
poll that brought its last frames never dispatches them; once a websocket is `OPEN` its thread has been joined, so that
the destructor neither aborts nor deletes the socket, which is leaked; the loop over the header lines looks at a `recv` of 0 but not at an error, so
that the thread spins when the connection breaks there, and a destructor that joins it never returns. `DestructorReturns` has this
as its exception.

Left out. The builds without a thread or with blocking handshakes; masks, lengths and continuation frames; parsing the URL; the TLS records
below `recv`; the assertion of `set_blocking` (`WinImplSockets.cpp:90`), which an abort at the end of the handshake violates.
The application may delete the websocket from a callback (`DeletedInside`); what is used afterwards is undefined, and the model ends there.

### 2.6 Backoff

`x` is the state of `GSClientConfig`'s generator, Lehmer's by Schrage's method, `task` what each thread is at: drawing a period
(`ComputeSleepPeriod`), which is taken apart into its reads and writes of `x`, or, for the application, setting the two
retry settings (`setFromObject`), which are assigned first and checked afterwards. The singleton has no lock; the UDP
thread of every session draws from it in `DoLogin`. Unsigned arithmetic wraps modulo `W`. `seed` and `raced`, whether a state was
computed from two different ones, are history.

`A`, `M` and `W` are constants; the assumptions about them say what Schrage's method needs, that `M` does not divide a product
`A * y`, and that no wrapped difference can come out on the wrong side. The code's values satisfy them.

Left out. The rounding of floats, of which the largest fractions become 1 (`GSClientConfig.h:122`); the
other settings; the atomicity the compiler may add, which takes away interleavings only.

### 2.7 Callbacks

`stack` is the C++ stack: each frame is the rest of a function, the connection it works for (`c`, a place in `conns` that is shifted when
a connection is put in front) and the index its loop is at (`i`, which is not). `Return` ends a callback, the other actions of `Client` continue the
innermost function. Every loop, `TrimOldConnections` included, is one step per iteration. The application calls `Disconnect`, `Reconnect`, `Reset`, `ShutDown` and `Send` between two Updates or
in any callback, `MaxDepth` deep; `GS::Stop` and with it `GameSparksAvailable` come in the middle of `NewConnection`, whose rest is
the frame `push`. Below it, when a `connectUrl` asked for the connection, is the frame `redirected`: the rest of `OnMessageReceived`, for the connection the frame came by. `fault` marks the use of a deleted websocket or of an iterator of a vector that has grown, `overlaps` is history: the calls that
were made in the middle of something they disturb.

What the code does and the model therefore does: a `Disconnect` from the callback of a `NewConnection` stops every connection but the one that is
about to be made, which then runs although the client is paused, and a `Reset`, a `Reconnect` or even a `Send` there makes a connection of its own,
after which two are running; what goes on after such a `Disconnect` in a frame that has redirected the client can make the service available once more (both
are `late` in `overlaps`, after a call below one of `Reviving`); a redirect with a session id makes the service available by the connection it has stopped; `ShutDown` in any callback below a websocket deletes it; `Reset` or `Reconnect` in the callback of a request that timed
out leaves the loop of `ProcessPendingQueue` with an invalid iterator.

Left out. An `Update` called from a callback; the send queue and the durable queue, whose callbacks interrupt none of these functions; more than one
request per connection; time but for the sign of `m_mustBeConnectedIn`.

### 2.8 RTStream

`wire` is all that the server writes, `Serialized` the bytes it writes for each packet, `arrived` how much of it has come, `pos` the position of the stream that is read: a `PositionStream` over the
TCP socket, or, when `datagram`, the `MemoryStream` of `FastConnection::ReadBuffer`, which has as many bytes as have come and then ends. `stack` is
the functions that read one message inside of another, each with what it has read and its limit: `DeserializeLengthDelimited`, `ReadRTData`,
`ReadRTVal` and the `Deserialize` of a result. A step reads one field, with all the bytes that takes, and waits as long as `recv` would block; the set of what a call may come
to has a value and a position (`Ok`), an exception (`Failed`), the -1 of an ended stream (`AtEnd`), or nothing while `recv` blocks (`Blocked`). `Then` is `GS_ASSIGN_OR_THROW` (`Failable.hpp:107`). When a call fails, the thread or the datagram ends (`alive`). `RTPackets` has
the writing side, and is the value of `Serialized` in the run: `Serialize`
writes what the SDK writes; the payload of a result (`WriteResult`) and fields of later versions are the server's. The theorem is about any `Serialized`. `astray` is history: a payload was
read in part.

What the code does and the model therefore does: a payload is read by a single `Read`, of which the result is dropped (`CustomCommand.cpp:12`), where strings
and floats are read in a loop; only `MemoryStream` has a `Seek`, so that an unknown field can be skipped when it is a varint or stands in a packet that came
in a datagram; the end of the stream ends `ReadRTData` and the results like their limit does, but a packet fails there; vectors keep four of their floats.

Left out. Sequenced packets, which `RTDelivery` has; numbers of 2^31 and more and the casts of `uint64_t` to `int`; the wrap of a position after two
gigabytes (`PositionStream.cpp:10`); what floats and UTF-8 mean; a slot that occurs twice, into whose value the second is merged; the bytes the client writes,
but for what the server passes on; a payload read in part by accident of `mbedtls`, which here happens because its bytes have not come.

## 3. The runs

All bounds are constants of the configurations, named in the modules. Deadlock is not checked: a client may be shut down or have
crashed (`GSClient`, `Callbacks`), a session may crash or have threads that wait for each other (`RTSession`), which `CallsReturn` and
`NoDeadlock` are about, a websocket is deleted at last, and a thread that reads may fail or have read everything (`RTStream`).

| Run | Checks | Shows |
|---|---|---|
| `client` | `TypeOK`, `LiveAsWanted`, `AtMostOneCallback`, `NoOverdueRequest`, `ConnectionsBounded`, `LostOnlyTwoWays`, `ImplementsService`, `ConnectionsAsAssumed`, `NothingHeldForever`, `Reconnects` | the request path keeps its promises, with the exceptions the properties name, implements `Service`, and has the connections `DurableQueue` assumes |
| `client_dangling` | `NoDanglingUse`, violated | the send queue uses a request it has popped |
| `durable` | `TypeOK`, `NoDurableLost`, `QueuesSeparate`, `DoneOnce`, `InFlightBounded`, `ImplementsOutbox` | the persistent queues lose, mix and repeat nothing, with the exceptions the properties name, and implement `Outbox` |
| `durable_drains` | `QueueDrains` | a client that stays connected works off its queue |
| `durable_answered` | `AnsweredIsRemoved`, violated | a request answered after a change of user is sent again |
| `session` | `TypeOK`, `InOrder`, `ReadyMeansFast`, `FastIsReplacedByNone`, `DetachedIsSilent`, `CallsReturn` | the threads of a session keep order and begin nothing with it once stopped; a call hangs for three known reasons only |
| `session_deadlock` | `NoDeadlock`, violated | `Stop` joins a thread that waits for the lock `Stop` holds |
| `delivery` | `TypeOK`, `DiscardJustified`, `InSequence` | the unlocked filter discards what was overtaken and nothing else, and lets order be lost between the routes only |
| `backoff` | `TypeOK`, `ZeroOnlyByRace`, `Successor` | the generator is Lehmer's on every thread; a race or the seed may spoil it |
| `stream` | `TypeOK`, `DeliveredAsSent`, `EventuallyDelivered` | packets come out of the bytes as they were put in, from a stream that blocks and a datagram that is cut anywhere, and a thread ends for known reasons only |
| `websocket` | `TypeOK`, `FramesInOrder`, `SocketHandedOver`, `DestructorReturns` | frames, ends and the socket are handled right however the bytes and the calls come |
| `callbacks` | `TypeOK`, `LiveAsWanted`, `NothingUsedAfterItsEnd`, `AvailableIsFront` | what calls from callbacks can disturb, and that nothing else does |

Bounds. `client` has two requests with time-outs of one and two ticks, time steps of
one tick, and deadlines of one and two ticks. Two requests are what the double pop,
the ageing of a second entry and requests pending on different connections need;
the time-outs and deadlines let each of them run out before the other. The number of connections is not
bounded by the model: `ConnectionsBounded` shows that the code bounds it, to five. `durable`
has two requests, three user ids (nobody, and two to switch between), two
connections, a limit of two copies in flight and a retry period of three ticks. An entry is due one tick before its copy times out, so that with the limit of two a
retry meets its own copy: on the same connection, where `map::insert` keeps the first, and on the one that has replaced it, so that two copies of one
request are in flight, age and are answered in either order; the limit is reached by one request twice as well as by two.
Requests, and the two users, are symmetric, and callbacks are always attached again (`Reattach`), as a request without them is never called back. `durable_drains` has two users, a limit of
two and a retry period of two ticks, without symmetry.

`session` has two packets over UDP, the least that can be swapped or repeated, and one over
TCP between them; a queue in which one action waits when the next is provoked; and two reliable connections,
the second made by `CheckConnection`, so that each thread runs beside the stop of its connection, beside
`Stop`, and against its successor. `MaxQueue` bounds provoked actions: one that the code adds by itself (`OnReady`) is always queued.

`delivery` has one player with two sessions of three packets each, one of them without a payload and one whose payload reads as fields, so that
every path of the filter is taken before and after a reset; both threads may have a packet of either session in their hands. Players do not share
anything but the queue, whose length is one. `backoff` has `A = 3`, `M = 7`, `W = 16`: 3 is a primitive root of 7 as 48271 is of
2^31 - 1, and `W = 2M + 2` as in the code; every seed from 0 to 15, those not below `M` included, is an initial state. The server sends a setting of 0, which is replaced, or none; the other values it may send
differ in the bound of a period only, which `BoundsPositive` is about for all of them. Two threads suffice to
tear a state. `websocket` has two frames from the peer and two messages of the application, of two halves each, plus pongs and close frames: a cut may
fall inside a frame, between two, and behind a close. `stream` has seven packets: one with a long,
a float and a double in place, a slot with a key of two bytes, two target players and a payload of which the end reads as a field; one with data in data, a string and a vector; results with
every kind of field, with none, and with an unknown varint or string; and one with an unknown field of fixed size. Any two of them may follow each other, so that what the
first leaves behind meets the second, and the bytes come one by one. There are 20 slots instead of 128: 16 is the first whose key has two bytes.
`callbacks` allows a call in a callback of a call in a callback, which each overlap
needs at most, and one old connection with a waiting request beside the front. Its number of connections is not bounded by the model.

Fairness. `GSClient` assumes `WF(Update)`: the application keeps calling Update ("as
often as possible", `GS.h`), and each part of an Update ends. Nothing is assumed of the
server or the network: `NothingHeldForever` and `Reconnects` hold even when nothing
is ever answered. `DurableQueue` also assumes `SF(Response)`, that the server answers a request which is in
flight on a running connection again and again; without an answer no durable request can ever
leave the queue. `QueueDrains` asks, in its premise, that the connection stays up and the user the same.
It needs a retry period of at least one time step, as the code's defaults have (a time-out of
seconds against frames of milliseconds): a copy with a shorter one would be cancelled in the Update that sends it.
`RTSession` assumes that a call goes on once it was made and that each thread is scheduled (weak fairness), except
that a thread may wait for the network for ever, and that a log-in that is not answered need not fail.
No call has to be made.
`WebSocket` assumes weak fairness of the thread's steps that need nothing from the peer (a `recv` may block for ever), of Update, and of a
destructor that can go on. `RTStream` assumes that bytes which were sent come and that the thread that reads is scheduled. The others have safety properties only.

Divergences found. The violated properties state what a comment or a header says, and the run's trace shows the code do otherwise:

1. `GS.cpp:414` "needs to be called, before it's popped from the queue". The request
   is used after the pop, and the queue is popped twice (`client_dangling`).
2. `GS.cpp:524` "remove from persistent queue". `RemoveDurableQueueEntry` looks in the
   current user's queue only (`durable_answered`).
3. `FastConnection.cpp:22` "we need to lock sessionSendMutex first to avoid ABA deadlock".
   `Stop` (`RTSessionImpl.cpp:144`) and `CheckConnection` join a thread while they hold `sendMutex`, and the thread may be
   waiting for it, at the start of `DoLogin` or to answer a `UDPConnectMessage` (`session_deadlock`).

Others are exceptions in properties that hold, and have no run of their own. What a property excepts is in the model, and its run reaches it, but the property does not speak
against it: of a file torn in a write (`torn`), a payload read in part (`astray`) and an unknown field that cannot be skipped (`Unskippable`) the runs show that nothing *else*
goes wrong.

* `rt_delivery_and_parsing.cpp:86` "ASSERT_EQ(packet.Payload, test_payload)". Over TCP, of a payload that has come in part the listener gets the beginning and
  zeros; the rest, when it comes, is read as fields of the packet, which mostly ends the connection (`CustomCommand.cpp:12`): `astray` in
  `DeliveredAsSent` and `EventuallyDelivered`.
* `ProtocolParser.hpp:80` "Seek past the Value for the previously read key." The stream of a reliable connection and those of results cannot seek
  (`Stream.hpp:22`, `LimitedPositionStream.cpp:13`), so that an unknown field which is not a varint ends the connection: `Unskippable` in `EventuallyDelivered`.
* `GameSparksRT.hpp:155` "Send over UDP, discard out of sequence packets". A packet discarded on the TCP route leaves its payload in the
  stream (`CommandFactory.cpp:43`), which ends the reliable connection unless the payload reads as fields: the state `dead` of `RTDelivery`.
* `GS.h:136` "True if a connection to the service is available for use." An orderly close (`GSConnection.cpp:135`) and a trim
  leave `m_Ready` true, in `GSClient` and `Callbacks` alike; no property says otherwise. A frame with a `connectUrl` and a session id makes the
  service available (`GS.cpp:214`) by a connection that `NewConnection` has stopped: the exception of `AvailableIsFront`.
* `GSTypedRequest.h:81` "callback will be called in case of success and error." `TrimOldConnections` (`GS.cpp:485`) deletes a connection that is not
  ready in time with its pending requests: the first way of `LostOnlyTwoWays`.
* `GS.h:144` "Durable requests are persisted automatically." `StoreValue` (`IGSPlatform.cpp:310`) truncates the file before it
  writes it: `torn` in `NoDurableLost`, `Tear` in `Outbox`.
* `Connection.cpp:30` "assert(session);" The thread of a reliable connection comes here without a lock, and `StopInternal` may have made the pointer null: `crashed` in `RTSession`.
* `GS.h:127` "Stops all connections." not when it is called from the callback of a `NewConnection`: `late` in `LiveAsWanted`.
* `rt_session_close.cpp:81` "OnPacket() should no longer be called after the session was closed." `Stop` leaves the action queue, and `Update`
  (`RTSessionImpl.cpp:209`) executes it whether the session runs or not.
* `GSClientConfig.h:118` "in the interval [a, b)": with the seed 0 the fraction is about 2 for ever, and a seed not below the modulus is as bad:
  the premise of `PeriodsProper`.
* The header loop of `doConnect2` (`easywsclient.cpp:706`) does not look at errors: the exception of `DestructorReturns`.

## 4. The theorems

Assumptions are those the modules name: time-outs, steps, periods, intervals, limits and bounds are
positive (the packets and the queue of a session may be bounded by zero); `Anonymous` is a user; `Serialized` is some sequence of bytes for each packet. `Request` and `User` are any sets; only
`FewConnections`, which counts requests, and `ConnectionsAssumed`, which uses it, ask that there are finitely many. Those of
`Backoff` are in section 2.6. Each inductive invariant was checked by TLC, as an invariant of the component's passing run, before it was proved.

### 4.1 GSClient_proofs

`Inv` is `TypeOK` and `Running`, the conjunction of
`OneLiveConnection`, `DisconnectIsFinal` and `DispatchesRunning`. The last one is what
makes the first two (`LiveAsWanted`) inductive: a frame is dispatched only to a connection
whose websocket is open or closing and that is running, or was until this frame redirected the client, and never while the client is paused,
so that a session or a redirect that comes in changes nothing it must not. Theorems:
`TypeCorrect`, `RunsAsWanted`, and the action property `RunningConnectionKept`.

`RequestInv` says where a request can be: in the send queue once, or pending on one
connection, or in neither (`OnePlace`), also after a dangling reference was used; and, as long as none was, that a request which
is held has not been called back, one that was not submitted is nowhere, and none was called back twice
(`Accounted`). Theorems: `CalledBackOnce`, `NoneOverdue`.

`Crowd` bounds the number of connections in each part of Update; `ConnectionsBounded` alone is not inductive, since nothing in it keeps
the next connection from being one too many. The argument: the loop of `TrimOldConnections` leaves only connections with a pending request, and
the one that runs. As a request is pending on one connection (`OnePlace`) and one connection runs (`OneLiveConnection`), there is an injection of the others
into the requests (`SparedAreFew`). Until the next trim a connection is added three times at most (the application, a redirect, the deadline), and the
first and the last of these exclude each other, because a new connection has its deadline ahead. Theorem: `FewConnections`.

`NoOtherLoss` (`LostOnlyTwoWays`) is an action property: every step but `TrimDelete` and the double pop keeps what is held, or calls back what it lets go.

`ServiceImplemented` maps every step of `GSClient` to one of `Service` or a stutter. Three lemmas say what has to be shown of a step:
that the requests of a set wait no more and were called back (`CompletedPromise`), or were not (`LostPromise`), or that all wait as before
(`QuietPromise`). A response or a deletion takes away exactly the requests of one connection, and a time-out exactly those that are overdue, because a request
waits in one place (`OnePlace`); without it a request that was called back could still wait elsewhere. That the service does not become available while the
client is paused is `Running`: no frame is dispatched then, not even the rest of one. `Working` (an Update is under way only in a client that was not shut
down) is what makes `ShutDown` the last step.

`ConnectionsAssumed` (`ConnectionsAsAssumed`) takes every step of `GSClient` to one of `DurableQueue`'s `Connections` or to a stutter. Three invariants carry it.
`Running`: `DurableQueue` has a stopped connection do nothing but become ready, lose its socket and be deleted. A redirecting frame is two steps, in which the new connection comes
before the old one becomes ready; `DurableQueue` lets it become ready wherever it is. `Shaken`: a connection whose
handshake is answered has left the state connecting, so that it does not become ready by its socket opening, which `DurableQueue` does not have.
`ConnectionsBounded`: there is room for the connection that is made next, as `DurableQueue` makes one only below its bound, here the one `FewConnections` proves.

### 4.2 DurableQueue_proofs

`Inv` is `TypeOK`, `Persisted` (the current user's file is the
queue in memory), `Files` (each file has a request once, and only requests of its
owner) and `Past` (what is neither answered nor withdrawn nor torn is in its owner's file;
what is withdrawn is in none). `Persisted` carries the proof: a change of user saves nothing and loses
nothing because the file was up to date. Theorems: `TypeCorrect`, `NothingLost`,
`QueuesStaySeparate`, `WithdrawnStaysGone`.

`InFlightStaysBounded`: the set of copies in flight is finite and has
at most `Limit` members; each step but a send maps the new set into the old one, and a send
happens below the limit. `CalledBackOnce` (`DoneOnce`) rests on `Once`: a connection has one copy of a
request at most, of requests that were sent only, and of one that is over (`Done`: answered, and not astray) only when it is stopped and will dispatch no
frame (`Held`); a request that is not answered has not been called back, and one that is over was called back once at most and is in no file (`Account`).
`OutboxImplemented` maps every step of `DurableQueue`
to a step or a stutter of `Outbox`; that the mapped box changes as a set when the queue changes as a sequence rests on `QueuesSeparate`, by which a request
is in a file once.

### 4.3 RTSession_proofs

`Inv` adds to `TypeOK` and `ReadyMeansFast` five facts about who does what when. `Plans`: what the application
still has to stop is one of seven lists, and goes with where it is. `Gone`: which connections no longer exist at each point of
a list, and that one that does not exist has no thread. `Locks`: the application and `DoLogin` never both have
`sendMutex`, and a session pointer is null only while the application, with the mutex, is destroying that
connection; hence an `Answer` of a detached connection, which would touch the session, cannot be under way.
`LogsInOnce`: a `LoginResult` comes once by each `ReliableConnection` and finds no `FastConnection`, although it may be handled when its connection has
been detached: nothing else makes a `FastConnection`, and the next `ReliableConnection` is made only when both connections are gone.
`Counted`: a packet is counted before it is queued. The threads' actions are first reduced to two cases, `ThreadMoves` and
`LogsIn`, so that the control part is proved once for all of them. Theorems: `TypeCorrect`, `ReadyStaysFast`,
`NoneReplaced`, `StopHolds` and the action property `DetachedStaysSilent`: no thread comes to `execute` or `report` without a session, and one that is
there already, of the reliable connection only, is the only one that changes the session.

`PacketsInOrder` (`InOrder`) is inductive on top of it. It is stated by the places of the packets of a route in the queue (`Waiting`), without `SelectSeq`,
so that what an append at the back and a removal at the front do to it are two lemmas (`OrderAppended`, `OrderTail`).

### 4.4 RTDelivery_proofs

Three chains of facts. `TypeCorrect` needs `ConnectsCounted`, as `epoch` is bounded only because the
sessions of a peer are those whose `PlayerConnectMessage` is on its way, waits in the queue, or was executed. `DiscardsJustified` rests on `MaxWasStored`: the number
in the map was let pass since the peer connected last, whoever stored it and whichever session it belongs to: a number of the last session that is stored just after the reset counts.

`DeliveredInSequence` follows a number along its way: in the hand of a thread about to store it (`Storing`), about to submit it (`Submitting`), in the queue (`Ordered`),
heard (`HeardInEpoch`). At each point, a number of this epoch is not above the one in the map and not below those ahead of it, as long as
one route only has stored numbers of the peer in this epoch (`OneRoute`). The second route must have stored one before a thread can lower the map,
which is the disjunct of `Storing`.

### 4.5 WebSocket_proofs

`Handover` is what makes the socket change hands once: it is aborted only when the application is done with it, poll joins the thread before `readyState` leaves
`CONNECTING` for `OPEN`, and an end is reported in the step that finds it. Theorems: `HandedOver` and, of its last conjunct, `EndIsReported`; `TypeCorrect`.

For `FramesKeepOrder`, `Written`, `Buffered` and `Given` say of each buffer which part of the stream it has, place by place: the wire and `txbuf` the halves of the queued
frames up to and from a point; `rxbuf` the last halves received, from the start of a frame; `delivered` the text frames before that. `CloseIsLast` says when a close frame is
queued. They do not speak of `misused`: what is delivered is right until the websocket is deleted inside a callback and the model ends.

### 4.6 Callbacks_proofs

Every step works on the top of the stack, so that what a function finds when its turn comes has to be said while others are above it. `FrameOK` says of each
frame what it relies on: its connection exists, has its websocket unless `ShutDown` was called below, was polled and is open before a frame is dispatched, is the one the
loop over the requests is at unless a connection was added, and, for the rest of a `NewConnection`, that all others are stopped. `Above` says what may be above what: `Update`'s last functions are
at the bottom, and nothing below a frame that was left by a call disturbs it unless the call is in `overlaps`. `Silent` is the second half of `LiveAsWanted` at every depth: while the client is paused nothing is `Astir`, no connection runs, the service is not available
and no frame of the stack is going to change that.
With them, all that an action does to the frames below is shift the places when a connection is put in front (`StackKept`).
Theorems: `TypeCorrect`, `RunsAsWanted`, `NoUseAfterEnd` and the action property `AvailableAtFront`, which excepts the rest of a frame that has redirected the client, as
`AvailableIsFront` does.

### 4.7 Backoff_proofs

`Schrage` is the arithmetic: for a state below `M` the wrapped combination of the two products is `A * y % M`, from
`M = A * Quotient + Remainder`, on integers of any size. `Sides` is the inductive invariant: the products a thread holds come from states on the side of `M` the seed
is on, and for both sides the combination comes out on the same side, so that the test `x >= m` in the last line is the same whichever state
it looks at. `NotZero` adds that, as long as nothing was torn, neither `x` nor a value on its way to `x` is zero. `Settings` says which of the two
settings may be unchecked at each point of `setFromObject`. Theorems: `TypeCorrect`, `SidesHold`, `SuccessorWritten`, `ZeroIsRaced`, `PeriodsStayProper`,
`BoundsStayPositive`.

### 4.8 RTStream_proofs

Nothing is assumed of the bytes, so that the theorem is about what a broken server, a later version and a cut datagram can do to the functions that
read. `Inv` has three parts. `Position`: a stream that cannot seek is nowhere past what has come (a datagram's may be, `Stream::Seek` looks at no end). `StackOK`: the
outermost function reads a packet, each other was called by one that calls it, and what it has read so far is of the kind it reads, with the result's
fields those of its packet's `OpCode`. `GotOK` is about the commands that are made of it.

The functions of the codec come first (`ByteRead` to `FieldSkipped`): a call that comes to a value (`Yields`) comes to one of its type and to a `Position`. Then a field of
each message comes to a stack that is well formed (`Moves`), from three facts about stacks alone (`StackGrown`, `StackShortened`, `StackReplaced`), and each step of the
thread follows. The hard places are the lengths: a varint must end within what has come before its number is used (`UIntAt`), a payload is filled
to the length that was announced although fewer bytes were read (`PayloadMoves`), a vector keeps four floats of however many
(`VectorMoves`), and a slot outside of the array is refused before it is read (`DataSlotMoves`). Theorem: `TypeCorrect`.

### 4.9 What is not proved

Some theorems are about definitions in no run: `ReconnectSparesLive` (`RunningConnectionKept`), `WithdrawnIsGone` (`WithdrawnStaysGone`), `StopIsFinal`
(`StopHolds`), `SidesKept` (`SidesHold`), `BoundsPositive` (`BoundsStayPositive`) and, for itself, `ClosedIsReported` (`EndIsReported`).

Checked by TLC only:

* the liveness properties (`NothingHeldForever`, `Reconnects`, `QueueDrains`, `CallsReturn`, `DestructorReturns`, `EventuallyDelivered`): the prover has no rules for
  fairness over `ENABLED`;
* `DeliveredAsSent`, that the readers of `RTStream` undo the writers of `RTPackets`: these are recursive operators, and what they compute for every packet needs
  induction over the data.

## 5. Plan

Done: `GSClient` with `Service` and `Composition`, `DurableQueue` with `Outbox`, `RTSession`, `RTDelivery`, `RTStream`, `WebSocket`, `Backoff` and `Callbacks`, their runs, and
the theorems of section 4, which state every safety property of a passing run but `DeliveredAsSent`. What could come next:

1. Durable requests through the whole of `GSClient`: a composition of the pending tables as well as of the connections, so that `DurableQueue`'s copies age and are answered
   in the Updates of `GSClient`.
2. requestIds: a request object that is sent again, and two processes within a second.
3. The bytes the client writes, with a `Send` that takes a part of them.

### Not modelled

* mbedtls, cJSON, the time support of Google and the classes generated from the API's schema: third-party or generated code, and about seven tenths of
  the repository's lines of C and C++. Samples, tests and wrappers of platforms make up most of the rest. Counted over all of them the
  share that is modelled is small and cannot be otherwise; of the SDK's own stateful code (`GS.cpp`, `GSConnection.cpp`, `GSClientConfig.h`, `easywsclient.cpp`,
  `RTSessionImpl.cpp`, the connections and commands) most functions that change state are modelled.
* The data classes (`GSData`, `GSRequestData`): trees without a state that outlives a call.
* `System`: apart from what `RTSession` has of `Socket` and `RTStream` of the streams, I/O over the C library and mbedtls. A partial `mbedtls_net_send` (`Socket.cpp:456`), which
  tears the stream the client writes, is left out: the client's own bytes are not modelled.
* `WebSocketConnection`, Marmalade, iOS, Nintendo and Unreal variants behind the preprocessor: other programs than the one modelled.
* Dates, HMAC, base64, containers, samples and tests.

## 6. Running it

`tlc -config MCGSClient.cfg MCGSClient` checks a run (about half a minute, as do the others; `MCDurableQueue.cfg`
takes a minute and a half, and `MCRTSession.cfg` two to three); `tlapm GSClient_proofs.tla` checks a module of proofs.
