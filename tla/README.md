# A TLA+ model of bcos-gateway

bcos-gateway connects the nodes of a FISCO-BCOS chain. Every agency runs a
gateway. Front services (the nodes' network ends) register with it, and the
gateways connect to each other over TLS, tell each other which nodes they serve,
and forward messages. On top of that, AMOP lets clients exchange messages by
topic. This directory holds TLA+ modules for the parts of the gateway whose
correctness depends on interleavings and failures, the TLC runs that check them
and the proofs TLAPS checks.

## 1. Inventory

| Component | State | Operations | Interacts with |
|---|---|---|---|
| Node manager (`GatewayNodeManager`) | `m_statusSeq`, `m_frontServiceInfos`, `m_peerGatewayNodes`, `m_p2pID2Seq`, `m_nodeIDInfo` under three locks | register, unregister; version test, list request and reply, update and removal of a peer's list; queries | called by Service's pool tasks and by Gateway |
| Dynamic node manager | a timer and the lock of the registrations, upgradable | removes unreachable front services, registers those of a group notice | the node manager's registrations |
| P2P service (`Service`, `P2PSession`) | `m_sessions`, `m_staticNodes`, one heartbeat timer per session | dial and status heartbeats, onConnect, onDisconnect, onMessage, send | Host, Session, Gateway, node manager |
| Session | `m_actived`, write queue and `m_writing`, `m_seq2Callback`, idle timers | send/write/onWrite, doRead/onMessage, onTimeout, drop | io_service thread, thread pool |
| Host | acceptor, `m_pendingConns` | accept, connect, handshake, start, stop | ASIO, Service::onConnect |
| Gateway | none of its own | send by node with `Retry`, broadcast, deliver to front services | node manager, Service |
| AMOP (`AMOPImpl`, `TopicManager`) | topics of the clients, topics and versions of the peers, `m_topicSeq` | subscribe, gossip of topics, send by topic with `RetrySender`, broadcast | Service, RPC clients |
| Codecs | none | `P2PMessage`, `AMOPMessage`, options | Session::doRead |
| Configuration, certificates, scripts | none at run time | parsing | factory |

Threads: the io_service has one thread (timers, reads, completions of writes).
The pool "P2P" has 16 by default; every decoded packet and every callback is a
task of it, so two packets of one connection may be executed in either order.
Clients and front services call in on threads of their own.

What makes each component correct:

* node list synchronisation: versions and lists stay together; routes end up
  equal to the registrations of connected peers; a gone peer has no routes;
* sessions: one running session per peer, and it is the one in `m_sessions`;
* write path: one asynchronous write at a time, in order, none left behind;
* read path: messages come out as they were written, however reads cut them;
* front services: none misses a change of the nodes, and nobody waits for ever on the
  lock of the registrations;
* callbacks: a request is always answered; nothing waits in a dead session;
* sending with retry: each candidate once, and the caller always learns the result;
* topics: as for the node lists, and a client's subscription lasts as long as the
  client is connected;
* connecting: an endpoint that can be reached is connected again and again, and
  nothing bars it from being dialled for good; after a stop no session is left in `m_sessions`.

The behaviours that are hard to test are listed as `hazards` in `PROJECT.json`,
each at its line with the properties aimed at it.

## 2. Modules

| Module | Models |
|---|---|
| `GatewayNodeManager` | the maps of a node manager and each critical section on them, as operators |
| `DynamicGatewayNodeManager` | the registrations as actions: API calls, the group notice and the timer's pass |
| `NodeIDSync` | all gateways together: sessions, heartbeats, the three node-list packets, disconnects, pool tasks |
| `NodeIDSyncProofs` | type correctness, `NoSilentStaleness`, `NoOrphanSession` |
| `MCNodeIDSync` | the instance for TLC, with a scenario of registrations and one of reconnections |
| `SharedMutex` | `boost::shared_mutex` as the guards of the code use it (external) |
| `FrontNotify` | `notifyNodeIDs2FrontService`, its callers, and who holds `x_frontServiceInfos` meanwhile |
| `FrontNotifyProofs` | type, `UpdaterListIsCurrent`, `SomebodyRuns` |
| `WriteChannel` | the abstract FIFO channel |
| `SessionWrite` | `Session::send`, `write`, `onWrite` |
| `SessionWriteProofs` | type, `OneWriteAtATime`, `SomebodyWrites`, refinement of `WriteChannel` |
| `SessionCallbacks` | `m_seq2Callback` with responses, timers, drop and pool |
| `P2PMessage` | the codec: header, options and payload as sequences of bytes |
| `SessionRead` | `doRead`, `onMessage` and the idle timers, composed with `SessionCallbacks` and `P2PMessage` |
| `SessionReadProofs` | types and `NoCallbackLost` of `SessionCallbacks`; the codec is a round trip; types, `GotIsPrefix`, `NothingLeftBehind`, `OnlyResponsesAnswer`; `SessionRead` implements `SessionCallbacks` |
| `MCSessionRead` | the messages of the peer for TLC |
| `AMOPRetry` | `asyncSendMessageByTopic` and `RetrySender`, `onReceiveAMOPMessage` at the other end, the status of `AMOPMessage` |
| `AMOPRetryProofs` | type, `SuccessIsHandled`, `AnsweredOnce`, `TriesBounded` |
| `TopicSync` | `TopicManager` and the topic messages of `AMOPImpl`: clients, timer, gossip |
| `TopicSyncProofs` | type correctness, `NoSilentStaleness`, `TopicsAreWatched` |
| `GatewayRetry` | `Gateway::asyncSendMessageByNodeID`, its class `Retry`, and the peer's `onReceiveP2PMessage` |
| `GatewayRetryProofs` | type, `SuccessIsDispatched`, `AnsweredOnce`, `FailureIsFinal`, `SomebodyAnswers` |
| `HostConnect` | `Service::heartBeat` (dialling), `Host::asyncConnect`, both handshakes, the connect timer, static nodes, `Service::stop` and `Host::stop` |
| `HostConnectProofs` | type, `PendingIsHandshaking`, `StopIsFinal` |
| `MCHostConnect` | an instance with a static node and an endpoint of this gateway itself, in a scenario that lasts and one that is stopped |

Definitions that carry the comment *Mutant* are not part of any specification:
each is a plausible wrong version of the definition that follows it, used to
confirm that a property can fail (`mutants` in `PROJECT.json`).

### Node lists

A `Node` is a (groupID, nodeID) pair, so the two nested maps of the code are one
function. `NoSeq` stands for a missing entry of `m_p2pID2Seq`. `onReceiveNodeIDs`
has two critical sections and is two steps of a task (`UpdateNodeIDs`,
`UpdateNodeIDInfo`); the error task of `Session::drop` is three
(`HandleDisconnect` = `P2PSession::stop`, `RemoveNodeIDs` = the disconnect
handler of `GatewayFactory`, `EraseSession` = the rest of `onDisconnect`). Other
handlers have one critical section and are one step.

A connection is a number, and each end has its own session state: `running` is
`P2PSession::m_run`, `actived` is `Session::m_actived`, `session` is
`m_sessions`. `pending` holds what is on the wire or in the pool's queue; it is a
set, which loses no behaviour since identical packets have identical effects.
Packets are lost when a session is dropped, at either end, and tasks when their
weak pointer cannot be locked. Json encoding and the network byte order of the
version are left out: a packet carries the version and the set of nodes.
`Followed` restricts whose heartbeats and registrations happen. What g learns of
p and what p learns of g share only the sessions, so the runs follow one
direction; the theorems hold for every `Followed`.

### Front services

`FrontNotify` looks at one gateway and one group. A thread is inside a notification, an
update of the registrations, or a call that registers or unregisters, and each access to
the mutex is a step. `SharedMutex` has the two flags that matter: a thread that waits for
exclusive ownership keeps new readers out (`blocked`), a thread that waits for its upgrade
does not. `localMode` is the choice `GatewayFactory::buildGateway` makes: the plain node
manager is changed under write locks only, the dynamic one by the timer and group notices
under upgradable locks only. That `registerFrontService` is not called outside local mode
is an assumption about the callers of the library (nothing in the repository does it, and
nothing prevents it); `OperationsEnd` and `SomebodyRuns` rest on it, and their mutant shows the
deadlock without it. What is known of the peers is a version number; `due` is a history variable,
the version a front service is still owed.

### Write path

`Push`, `WriteCheck`, `TestWriting`, `Pop` and `PopNothing` split `send` and
`write` at every access to shared state. `lock` is `x_writeQueue`; `OnWrite`
clears `m_writing` without it. `posted` are the functions `asyncWrite` has posted
to the io_service, `flying` the writes boost has started. A message is its number
in the order of pushing.

### Callbacks

The four ways in which a callback is queued are the four outcomes. The tasks of
`onMessage` and `onTimeout` call the callback first and remove it afterwards, so
that a drop may come in between. A cancelled timer whose handler is already
queued still runs. The timer is assumed not to expire before the callback has
been added, a few instructions after it was started.

### Reading

The peer runs the same program: it responds to the requests of `SessionCallbacks` and
sends messages of its own, whose numbers may be those of pending requests. What it writes
is what `encode` leaves in the buffer, the bare header of a message that could not be
encoded included, because `asyncSendMessage` ignores the result. A read takes any number
of bytes out of `Piece`, or all; then the loop of `doRead` takes one message per step, and
the callers, timers, pool and drops interleave with it. `P2PMessage` writes integers with
bytes of a `Radix` (256 in the code), so that fields can be filled to their last value:
with three byte values an identifier has at most 8 bytes and a message 2 receivers. All
node IDs of a message are assumed to be equally long, which the decoder needs and
identifiers of one key type have.

### AMOP retry

`choosed` records the gateways tried. `request` follows the message to the client of the
chosen gateway and `response` is what comes back: the packet type tells a client's
response from an error, and an error code goes through the `uint16_t` of the status at
both ends (`Unsigned`, with 2^16 replaced by `Width`). A client may report any code: one
whose low 16 bits are zero does become SUCCESS in `setStatus`, which the history variable
`truncated` records and `SuccessIsHandled` excepts; the run has such a code. An error that a client or gateway
returns is final for the caller, only network errors are retried; that is the code's
choice and no property judges it. A session may call the callback of a request twice, in
either order (`again`): the response first, and then the drop's error makes `RetrySender` go
on although it is done (`CalledAgain`); or the error first, and then the response answers
the caller while `RetrySender` goes on or after it has answered (`LateResponse`). `stuck` is the state in which no callback
will come: `asyncSendMessageByNodeID` did not find the session that `connected`
had found, or the session was dropped before the callback was registered.

### Topics

One gateway serves clients and its peers record its topics. `subTopic` is two steps,
because the client's service is created after `x_clientTopics` has been released;
a pass of the timer starts (`checkClientConnection`), asks tars for the endpoints of one client
after the other (`tars_endpointsAll`), and then takes `x_clientTopics` and removes
(`removeTopicsByClients`), holding `x_clientInfo` (`checking`) all the while. A pass removes topics
and increases `m_topicSeq` even when no client has gone. `createAndGetServiceByClient` finds
the service, creates it, or fails: then the callers ignore the nullptr, and a client with
topics has no entry in `m_clientInfo`. The history variable `unwatched` holds these clients
until a service is created for them. In local mode (`localMode`) the gateway has a
`LocalTopicManager`, which keeps no services and has no timer. In both cases nobody removes
the topics of a client that has gone: `TopicsAreWatched` and `DeadClientsForgotten` except
them, and say that there is no third case. `pending` holds the topic
messages on the wire or in a dispatcher's queue, in no order. `wanted` is a history
variable: what a client asked for since its endpoint came up.

### Sending to a node

`routes` is the snapshot of gateways that serve the node. A try registers the callback
in the peer's session (`waiting`), and the response, the timer and a drop each queue it
in the pool (`calls`); two of them may. `repeated` records that a session has called one
callback twice, `silent` that a session had gone and `asyncSendMessageByNodeID`
returned without calling back. Once callbacks are repeated, two threads may be inside
`randomChooseP2pID`, which has no lock: the data race is a choice over what is left of
the list. A message for a node of this gateway (`trySendLocalMessage`) is answered in one
step, while the code hands the caller's callback to the front service, which is not part of
the repository.

### Connecting

A socket goes through connecting, handshake and connected to session, and one timer runs
over all of it. An endpoint is pending only from connect to handshake, so that several
sockets may be under way for one endpoint. `open` is `isConnected()`. A timer that has
expired cannot be cancelled. Sessions the peer has dialled (`handshakeServer`,
`onConnectAccepted`) have no socket of ours. `status` is where the session in `m_sessions` is:
`isConnected` is `P2PSession::m_run`, which a drop leaves alone and only the error task of
the pool clears (`stopP2PSession`, then `onDisconnect`); until then a second connection is
still rejected as a duplicate. A session whose socket the connect timer has closed is
dropped when its read fails. Names are not resolved for longer than the timer,
because the configuration admits addresses only. `running` holds what `Service::stop` has
not stopped yet: the flags of Service and Host, then the io_service thread, then the pool,
then the sessions, each awaited before the next. A session set up after the flags were
cleared is kept in `m_sessions` without being started. When `Service::stop` comes to its
sessions the host has no network, so `Session::actived()` is false and `P2PSession::stop`
disconnects nothing: `clearSessions` empties `m_sessions` and closes no socket. A session
that nothing refers to any more is destroyed and closes its socket (`destroySession`), but one
that a waiting callback or a handler in the stopped io_service refers to never is, and its
socket stays open. `StopIsFinal` therefore speaks of `m_sessions` only.

### Simplifications

* `Session::drop` tests and clears `m_actived` in one step (`Deactivate`); in the code two
  threads that drop at the same time may both pass the test. They would both go through the
  callbacks, which is one more way to call a callback twice.
* A ProtocolError task stops a session that is still active, whose drop queues a second error
  task. `NodeIDSync` has one error task per drop (`HandleDisconnect`); the second finds
  the P2PSession destroyed and returns, or stopped and removes the peer's routes once more, as
  the late task of a replaced session does in the model.
* In the comments of `P2PMessage.h` the groupID has a length of 1 byte (lines 33 and 43) and
  a message has at most 127 receivers (line 55). The code writes 2 bytes and admits 255
  (`MAX_DST_NODEID_COUNT`); `P2PMessage` follows the code.

## 3. Runs

| Run | Bounds | Shows |
|---|---|---|
| `node_sync` | 2 gateways, 1 node, 1 pending packet per type and connection, 2 pool threads; either 3 versions over 1 connection, or 2 connections, the second dropped only once its other end is closed, with the node registered from the start | `NoSilentStaleness`, `NoOrphanSession`, `Converges`: register, then unregister or removal by the timer; drops, replacements and crossed connections |
| `late_response` | 1 connection | `ForgetsGonePeers` is violated |
| `front_notify` | 2 pool threads, 1 caller, the timer, 2 front services, 2 changes of the peers' nodes, 2 calls, both modes | `OperationsEnd`, `FrontsLearn`, `UpdaterListIsCurrent`, `SomebodyRuns` |
| `session_write` | 3 senders, 4 messages | one write at a time, nobody forgotten, FIFO refinement, `EventuallyWritten` |
| `session_read` | one request with and one without a timeout, 1 message of the peer's own out of 3 kinds, reads of 15 bytes or all | `SessionTypeOK`, `GotIsPrefix`, `NothingLeftBehind`, `OnlyResponsesAnswer`, `MessagesArrive`, `StalledIsDropped`, `NoCallbackLost`, `TimedAreAnswered` |
| `callback_after_drop` | the same requests, without the read path | `DropErasesAll` is violated |
| `amop_retry` | 3 gateways, an error code that fits into the status and one that is truncated to 0, both timeouts of tars, 16 values of a status | `SuccessIsHandled`, `AnsweredOnce`, `TriesBounded`, `Answered` |
| `amop_retry_same_node` | 2 gateways | `NeverSelectedTwice` is violated |
| `topic_sync` | 1 peer, 1 client, 1 topic, 3 versions, 2 lists and 1 announcement in flight; either topic manager | `NoSilentStaleness`, `TopicsAreWatched`, `TopicsConverge`, `DeadClientsForgotten` |
| `subscription_removed` | 1 client | `ConnectedClientsServed` is violated |
| `gateway_retry` | 2 gateways | `SuccessIsDispatched`, `AnsweredOnce`, `FailureIsFinal`, `SomebodyAnswers`, `Answered` |
| `host_connect` | 2 endpoints (a peer and this gateway), 2 sockets; either without a stop, or with one at any time | `PendingIsHandshaking`, `StopIsFinal`, `NotPendingForever`, `StaysConnected`, `DiallingCeases` |

The bounds suffice for the cases of interest: two pool threads are what it takes
to apply two responses, or a response and a disconnect, in either order; two
connections give a replaced, a crossed and a rejected session; three versions let
a list grow and shrink again. Three senders make one thread find `m_writing` set
while a second is inside the lock and a third has just pushed. Two topic lists in
flight overtake each other. Two gateways are enough for a late response of the first
while the second is tried, and for two threads on one list. Two sockets may be under
way for the same endpoint or for both. Two pool threads, the timer and a caller give every
pair of holder and waiter of the mutex with a third thread behind them. A read of 15 bytes
ends inside a header, inside the options, or inside the next message, since messages have
14 to 34 bytes; the three kinds are a plain one, one whose options fill their fields, and
one whose options cannot be encoded. The models stop at
their bounds and a session may simply stay idle, so deadlock is not checked.

Fairness. In `NodeIDSync` the session timers fire, pool threads execute their
tasks (one condition per packet type: the pool's queue is FIFO, so none is passed
over for ever), an updater pass ends, handshakes are reported, and a session whose
other end is closed is noticed (read error or idle timeout). Registrations,
dialling and failures are not fair. In `SessionWrite` threads make progress and a
started write completes, with an error if the stream has failed. In
`SessionCallbacks` timers expire and tasks run; the peer need not answer. `SessionRead`
adds that the io_service thread runs the handlers that are ready, a read of a closed socket
fails, and the pool calls the default handler; nothing makes the peer send or the
connection fail. In `FrontNotify` a thread inside an operation goes on whenever the mutex
lets it, and no operation need start. In
`AMOPRetry` a peer that was reached answers or its session is dropped: with
`Options(0)` nothing else ends the wait. In `TopicSync` both timers fire, handlers run
and messages arrive unless the session is lost; a request of topics is not passed over
for ever by messages of clients, since the dispatcher's queue is FIFO (strong
fairness); clients and sessions are not fair. In `GatewayRetry` threads make
progress and timers expire; peers need not answer. In `HostConnect` the heartbeat dials
every endpoint it may dial (strong, since the bound on sockets interrupts it), timers
expire, handlers run, operations on a closed socket end (the read of a session included, so
that it is dropped), and attempts made again and
again succeed before their timer expires now and then; any single attempt may hang. Once
`Service::stop` has been called it goes on. Under this fairness `StaysConnected` says that a
static node is connected again and again in the sense of `isConnected`, and that a dead session
does not pass for connected for good. That it has a session with an open socket again and
again does not follow: TLC shows two overlapping attempts that thwart each other for ever.
The session of the first is closed by its timer, which expired too late to be cancelled; the
second, which would have lasted, was rejected as its duplicate before.

## 4. What the violated properties show

* `NeverSelectedTwice`: `RetrySender` erases the first node of its list and not the
  chosen one, against the comment on that very line.
* `ForgetsGonePeers`: a node list that a pool thread started to apply before the
  disconnect is applied after it. The routes of the gone peer are back until it
  connects again. `Converges` is not affected: it speaks of connected peers.
* `DropErasesAll`: `asyncSendMessage` may register a callback after `drop` has
  called and erased them all. With a timeout the caller is still answered
  (`TimedAreAnswered`); without one it never is.
* `ConnectedClientsServed`: the timer decides that a client has gone, the client
  returns and subscribes, and then its topics are removed.

## 5. Proofs

All theorems hold for every value of the constants; the assumptions are the named
`ASSUME`s (`MaxStatusSeq` at least 1, bounds natural, `Followed` a set of gateways,
`Timed` a set of requests, the io thread not a sender, finitely many gateways, error codes
of clients other than SUCCESS, at least 9 values of a status so that the codes of tars
and SUCCESS differ, at least one static endpoint, this gateway not its own peer). For the
read path: at least two byte values; the numbers of requests fit into the 32 bits of the
field; a response has no options; and the peer's own messages are no responses and are
`WellFormed`, that is, have fields of the declared widths, options only where the packet
type has them, node IDs of one length, and a total length that can be written. They may
have options that `encode` refuses.

* `NodeIDSyncProofs`. `NoSilentStaleness` is not inductive, because responses on
  their way will be stored. `ListsAreSnapshots` says of every list - pending, in a
  task, or stored - that it is older than the peer's registrations or has their
  version and is equal to them (unless an updater pass is under way). Registrations
  only make lists older; a response copies both under one lock; `updateNodeIDs`
  stores both under one lock; `onRemoveNodeIDs` forgets both. `NoOrphanSession` needs
  `SessionInv`: at one gateway a connection is awaited, then runs, then has its error task
  queued, then handled, and never two of these that would let a late task stop or erase a
  successor (`StagesInOrder`); it has one peer (`AwaitedOnce`), and a number that has not
  been given out is used nowhere (`NumbersAreFresh`).
* `FrontNotifyProofs`. Four invariants: `MutexInv` (who owns the mutex excludes whom, as
  `boost::shared_mutex` promises), `HoldersInv` (the owners are exactly the threads at the
  places of the code that hold the lock), `ModeInv` (the plain manager has no updater, the
  dynamic one no writer) and `ListInv` (an updater's list is the one it made). From
  them `UpdaterListIsCurrent`, and `SomebodyRuns` for any number of threads: an
  owner, a reader and, as no writer is waiting in its mode, the thread with the upgradable
  lock can each go on, and a mutex that nobody holds lets everybody go on.
* `SessionWriteProofs`. `WritingInv`: a posted or started write, a handler that has
  not cleared the flag, and a thread about to pop exclude each other and imply
  `m_writing`; and in an active session the flag implies one of them. `OrderInv`:
  queue, outstanding message and delivered ones are consecutive numbers. From them
  follow `OneWriteAtATime`, `SomebodyWrites` and the refinement of `WriteChannel`
  (pushing accepts, a successful completion transmits, closing or failing breaks).
* `SessionReadProofs`. The callbacks alone: `NoCallbackLost` with the invariant that a task
  about to remove a callback has called it. The codec: `DecodeInverse` says that `decode`
  gives back a message and its length from `encode` of it followed by anything; it is put
  together field by field, from what `Short` and `Long` write (division and remainder by
  the radix) and from where each field of the options begins. Its companions say that a
  proper prefix of an encoding is reported incomplete and a bare header is never taken for
  a message. The read path: `GotIsPrefix` says nothing of the bytes that are still
  in the buffer or under way, so it is not inductive. `FramingInv` does: `m_data` followed by
  the stream is what `encode` has left of the messages not yet taken, one behind the other,
  which is stated by the positions at which they end. `DrainedInv` adds that
  outside the loop `m_data` begins with no complete message, which gives
  `NothingLeftBehind`; `QueuedResponses` that a response queued in the pool was taken,
  which gives `OnlyResponsesAnswer`. With these, every step of `SessionRead` is a step of
  `SessionCallbacks` (`onMessage` of a response that was really given) or leaves its
  variables alone: `ReadImplementsCallbacks`. `NoCallbackLost` carries over.
* `TopicSyncProofs`. `NoSilentStaleness` with the invariant that every topic list,
  stored or on its way, is older than the present `m_topicSeq` or has it and is equal
  to the present topics. A pass of the timer changes topics and counter in one step.
  `TopicsAreWatched` with the invariant that between two passes nobody is left to be looked
  at or removed: a client leaves `m_clientInfo` only into the set that the same pass removes.
* `GatewayRetryProofs`. `SuccessIsDispatched`: a SUCCESS on its way back, queued or
  told stems from a peer that has dispatched, however often callbacks are called.
  `AnsweredOnce` and `FailureIsFinal`: while no callback has been repeated there is one
  token - the choosing thread, one uncalled try, or an answer - and the gateways that
  were called, that are being tried and that are left make up the routes.
  `SomebodyAnswers` is inductive with the types and needs no such assumption.
* `AMOPRetryProofs`. `SuccessIsHandled` with the invariant that a response that will be
  taken for success comes from a gateway whose client has handled the message, and lemmas
  on codes: whatever tars or the gateway reports, what is left after both conversions is not
  SUCCESS, and of a client's codes only what the first conversion makes 0. A response that
  will be taken for success may also wait as the second call of a callback (`late`). `AnsweredOnce`: as long as no callback was called twice the number of answers
  is 1 when the call is done and 0 before. `TriesBounded`: the list is filled once, names
  each gateway once, and every choice costs one of its elements.
* `HostConnectProofs`. `PendingIsHandshaking` needs to know which socket belongs to whom:
  `drop` closes the socket of an active session, so this must be used for nothing else
  (`SessionSocket`) and by no other session (`OneSession`). `StopIsFinal` needs `StopOrder`:
  the parts stop one after the other, so that nothing that could set up a session runs when
  the sessions are cleared.

Every invariant and every refinement that a passing run checks is also proved. The type
invariants are proved for every component; the runs check those whose conjuncts say
something of the code (`node_sync`, `host_connect`, `amop_retry`, `session_read`). Only
model-checked are the liveness properties (`Converges`, `EventuallyWritten`,
`TimedAreAnswered`, `MessagesArrive`, `StalledIsDropped`, `Answered`, `TopicsConverge`,
`DeadClientsForgotten`, `OperationsEnd`, `FrontsLearn`, `NotPendingForever`,
`StaysConnected`, `DiallingCeases`), which need fairness and `ENABLED`, out of reach of
the prover. For several of them the safety half is a theorem: `SomebodyWrites`,
`SomebodyRuns`, `SomebodyAnswers`, `TriesBounded`, `NothingLeftBehind` and
`TopicsAreWatched` say that whoever is waited for exists and can go on. Induction over
data is not available as a rule that takes an operator; where the codec needs it (`FlattenSeq`
puts the receivers of a message together recursively) the proof takes the least
counterexample of a set of numbers instead (`Smallest`, from the well-foundedness of
the naturals).

## 6. Not modelled, and the plan

The modules above were written in the order of importance: node lists, sessions,
callbacks, retries, topics, connecting, front services, reading. What is left:

1. Broadcasts to a group or a topic and the blocking `Service::sendMessageByNodeID`. They
   loop over sessions, keep no state of their own and report nothing to their callers; the
   wait of `sendMessageByNodeID` is the case `stuck` of `AMOPRetry`.
2. Restarts. `m_statusSeq` and `m_topicSeq` start from 1 again and nothing in a message
   tells one incarnation from the next. Disconnects clear what peers store of the node
   lists, but late responses do not (section 4), and what they store of topics is never
   cleared (`notifyNodeIDs` has no caller): while the counter of the new incarnation is
   equal to the stored one, `NoSilentStaleness` does not hold. Nothing in the repository
   promises more, so there is no property to check; the hazards say so.

Left out for good: configuration and certificate parsing, the ASIO wrappers beyond what
other modules use, scripts (sequential input and output), and logging. The numeric wrap of
versions and sequence numbers after 2^32 steps is beyond the bounds. The growth of
`m_seq2Callback` by callbacks that are never answered (topic messages with `Options(0)`)
needs many messages on one session, while `SessionCallbacks` has two.
