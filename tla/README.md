# ratingcalculator: models, checks and proofs

ratingcalculator is a service that rates traders by the deals they win within
a week. Clients send messages over WebSocket or gRPC; the service keeps a sorted
table of totals and pushes to every connected user its position, the best users
and its neighbours, when it connects and then periodically. These modules model
the service, its test client and the two transports between them, wherever order,
concurrency and boundaries decide whether they are right. Paths below are relative to `src/`.

## The system

| Component | State | Operations | Hard behaviour |
|---|---|---|---|
| `MultiKeyVolatileContainer` (core) | a vector sorted by total, a hash table by user | `insert`, `clear`, four queries | moving one node keeps the whole vector sorted; lookups by `lower_bound` and a walk; windows at both ends |
| `TimeHelper` (core) | none | previous and next Monday | wrap-around of week days, ends of month, agreement with a window that was moved by adding weeks |
| `UserRatingProvider` (tempstore) | the period's two ends, the container, a thread | `addDeal`, `updatePeriod`, queries, destructor | the period moves while callers read it without a lock; the thread oversleeps; a call checked against the old period |
| `UserDataStore`, `UserDealDataStore` (tempstore) | registered users; a signal | `addUser`, `renameUser`, `getUserInformation`; `addDeal` | no lock; a user may deal before it registers |
| `UserRatingWatcher` (service) | connected users, a thread | `userConnected`, `userDisconnected`, `start`, `stop`, the broadcast loop | lost wakeups, stale snapshots, starvation, a join |
| `ApplicationService` (service) | none of its own | `dispatchMessage`, `run` | exceptions are caught for a message, not for the broadcaster |
| `WsProtocol` (webapi) | a counter, the resend store, a thread | `sendMessage`, `parseMessage`, resending, `stop` | acknowledgements race with storing; identifiers wrap; bounded attempts; draining |
| `WsTransportServer` (webapi) | two routing tables | the four handlers, `sendToUser`, `start`, `run`, `stop` | users that share, change and lose connections while a push is under way |
| `GrpcTransportServer` (grpcapi) | maps of streams and users | `Connect`, `sendToUser` | the same over streams, and one writer per stream |
| SimpleWeb's sockets (webapi, vendored) | per connection: the read under way, the fragments so far, the queue of writes, a request timer | handshake, reading and writing of frames, close, stop | fragments with control frames in between, writes of several threads, a timer that fires late, either end hanging up at any point |
| `WsTransportClient` (webapi), `GrpcTransportClient` (grpcapi) | a thread, a connection or a stream, a stop flag | `connect`, `waitForConnection`, `disconnect` | a stop from within the thread, notifications without the mutex, a refused or silent server |
| serialization (webapi, grpcapi) | none | a serializer and a deserializer per message, two conversions per event | two halves written apart |
| test client (testClient) | the simulated users, two threads | registering, waiting for users, making requests | a wait that few users never end, requests that overtake registrations |
| `Application` (service) | none that changes | chooses a transport, builds the objects | the choice only is modelled |
| Kafka and RabbitMQ transports | | | not in the repository, see below |

How they interact: a transport's thread calls `dispatchMessage` for every client
message. A registration goes to `UserDataStore`; a deal to `UserDealDataStore`,
whose signal calls `UserRatingProvider::addDeal` in the same thread; a connect or
disconnect to `UserRatingWatcher`. A connect answers in the same thread through
`sendUserRelativeRating`: `isUserPresent`, perhaps a deal of zero, four queries,
`sendToUser`. The watcher's own thread calls the same function for every user of
a snapshot of the connected users, sleeps, and begins again. The provider's thread
clears the table when the week ends and then moves the period. `sendToUser` looks
up the connection and hands the message to `WsProtocol`, or writes it to a stream.
At the far end the test client has one thread that registers users and one that
makes requests for those there are, both sending over the transport's client.
Of the locks that exist, each covers one call: what needs two calls is not atomic.

## The modules

| Module | Models | State and actions |
|---|---|---|
| `RatingTable` | the algorithms of the container as operators on a vector and a hash table | `Position` is `findInSortContainer`, `Target` where the swaps of `insert` stop, `HeadPositions`, `HighPositions`, `LowPositions` the queries |
| `MultiKeyVolatileContainer` | the container | `sortData`, `accessData`; `UpdateItem` and `InsertItem` are the two branches of `insert`; `Clear` |
| `Leaderboard` | what the container promises, with neither vector nor hash table | totals and a ranking; `Add`, `Reset` |
| `TimeHelper` | the week day before and after a time | operators: `gmtime` and `timegm` by what they do, `ShiftDays`, `MidnightBefore`, `getPreviousWeekDay`, `getNextWeekDay` |
| `UserRatingProvider` | the period, its thread and concurrent calls of `addDeal` | `PeriodOver`, `WatcherStops`, `ClearTable`, `WriteStartTime` and `WriteEndTime` (the two writes of `updatePeriod`, in the order of the source), `PeriodUpdated`; `CheckStartTime` and `CheckEndTime`, which take no lock, and the locked `InsertDeal` of `addDeal` |
| `UserRatingWatcher` | the broadcaster and the threads that connect and disconnect users | `connectedUsers`, the round's `snapshot`, where the broadcaster is; one action per critical section |
| `RatingPeriod` | the period as a caller can tell it, in four phases: open, over, table cleared, start moved | `window`, what the table holds; implemented by `UserRatingProvider` and by `RatingService` |
| `RatingService` | the whole service as its threads run it: dispatching, both stores, the table and `sendUserRelativeRating` call by call | composes `MultiKeyVolatileContainer`, whose actions and queries its threads call; the zero deal of a push is made, compared with `startTime_`, with `endTime_`, and inserted in steps of their own; a lookup in the user store, which has no lock, may miss a user while another thread inserts one; an exception drops a worker's message and ends the process when it leaves the broadcaster |
| `WsProtocol` | numbering, sending, acknowledging, resending | `outCounter`, `resendStore`, the resend thread; `SendMessage` in its four steps, a pass over the store in its critical section |
| `WsTransportServer` | routing tables, handlers and the life of the server's thread | one action per handler; lookup and sending of `sendToUser` apart |
| `GrpcTransportServer` | `Connect`, its maps and `sendToUser` | reading, routing, answering and cleaning up of a stream; lookup, locking and writing apart |
| `TransportServers` | `ITransportServer` as the application has it: the one of the two that `--transport` names | composes the two modules above; their properties, and one mapping to `Routing` for both |
| `Routing` | what the application is promised of a transport server, either of them | one routing table; `Arrive`, `Leave`, `End`, and `LookUp` and `Send` of a push; implemented by either server |
| `WsFrames` | what the two ends of SimpleWeb share: frames and the TCP connection | a frame crosses as a header and a content, since it is written in two operations and read in several |
| `SocketServer`, `SocketClient` | one connection of `server_ws.hpp` and of `client_ws.hpp` | one action per completion handler; the chain of reads, the strand's chain of writes, the request timer and its late handler, `stop` |
| `WsLink` | the two composed, and each with another implementation of RFC 6455 | `link` says who is who; `Foreign...` are what a browser or another server may do; `Break` is a reset |
| `Serialization` | `JsonSerializer...`, `JsonDeserializer...`, `EnumConverter`, the conversions of gRPC's events | operators: property trees and events as records and sequences |
| `WsTransportClient`, `GrpcTransportClient` | the clients' threads and the wait for a connection | one record each; the call of `connect` and its return, callbacks, stop, timeout, channel and stream |
| `RequestGenerator` | the simulated users and `waitForUsersToRegister` | `Register`, `Notifies`, the messages that are generated |
| `TestClient` | `main`, over either transport, with what its messages are on the wire | the main thread, the registering thread, and a server that need not answer |

`X_proofs` holds the theorems about `X`, except that `Wire_proofs` is about `WsLink` and
`TestClient`; `MCX` and `MCX.cfg` are its instance for TLC. `MCTransportServers` is the
instance of both servers. Four more configurations put another question to the same
instance: `MCLowPositions.cfg` to that of the container, `MCStaleDeals.cfg` to that of
the provider, `MCRolloverCrash.cfg` and `MCNewcomerCrash.cfg` to that of the service.

In the modules a definition whose comment calls it a slip is a plausible mistake in
the code next to it. No specification uses them; putting one in place of the
definition that follows makes TLC report the property it is meant for, so that
each property is known to depend on the code.

What is abstracted: logging, the text of JSON (a tree stands for it), protobuf's
encoding and user names outside `Serialization`; amounts are
integers with a bounded merge (floats add and compare, nothing else is asked of
them); time is counted in seconds of a calendar of which
the instances give a few weeks. Adding to a total is a constant operator `Modify`, of which the
container assumes that it yields an amount and the service also that zero changes
nothing. `RatingService` reduces the period to
four phases, since its calls can tell no more (`ImplementsPeriod` of the provider,
which is proved), and `UserRatingProvider` and
`UserRatingWatcher` treat the container and a push as what their callers see of
them. `std::unordered_map` is a function; unlocked reads are steps of their own
where the value read can differ. `WsTransportServer` and `WsTransportClient`
take of SimpleWeb what `WsLink` shows in detail: messages of one connection are
handled one at a time, an end is told once and nothing comes after it, `stop` has
no effect before the server listens and `start` returns when running handlers have.

## The runs

| Run | Question | Bounds |
|---|---|---|
| `container` | Are vector and hash table in step and sorted, do lookups stay in the table, are the users above the nearest ones and those below too where a list can be filled, and does it implement `Leaderboard`? | four users, amounts -1..2 with saturating addition: a node can move past none, one or all others in either direction, tie with several and be updated without change; lists of 0 to 4 |
| `provider` | Is the first window that of the calendar, does it move by whole weeks and never ahead, agree with what a new process would compute, catch up, keep deals of the current week, ignore deals for a reason only, and stop? | two calls of `addDeal`; a clock that shows the first, a middle and the last second of weeks around the leap day of 1972 and may leave any out, starting at each, and timestamps at both sides of every boundary: a call can be overtaken by two rotations, the thread can oversleep a whole period, the first period can begin in another month than the clock shows |
| `watcher` | Is a wakeup ever lost, is anybody starved, is anybody pushed to twice after leaving, does `stop` return? | three users, two threads: one connects while another leaves and a third is served |
| `service` | Of orderly clients, who each register before they deal or connect while others are already served, and with no end of period: does every push that begins succeed, but while a newcomer is being inserted? Of clients that do anything, with periods that end at any step, too: is nobody unknown named, does a push leave others' amounts and places alone, is everybody who stays pushed again and again? | two users, one worker besides the broadcaster, lists of one: every query can meet a changed table, and a newcomer can register, deal and connect at every step of the other's push |
| `ws_protocol` | Are attempts bounded, does the thread sleep through work, is anything given up without reason or kept for ever? | two messages on two connections, two identifiers so that the counter wraps and can be shared, two resends; acknowledgements delayed at will |
| `transport_servers` | Of either transport: do keys and routes outlive connections, is a message sent where its user never was, has a stream one writer, does a user that keeps to one connection keep its route, does `Connect` return, do the tables implement `Routing`? | two users, two connections, one pushing thread: sharing, moving and leaving between lookup and sending |
| `ws_link` | Do messages arrive whole and in order, is every end told, once, and does nobody wait for a handshake for ever? | two requests and a push against each other; a foreign end sends up to three frames, one of them a control frame, in every way to cut three parts into messages; lengths of each of the three forms |
| `test_client` | Is what crosses the wire read as what was sent, what can overtake a registration, does the client get to its loop or exit, and with enough users do requests cross? | one user (for whom nobody is notified) and five (the fewest for whom somebody is), two requests, two ratings with lists of different lengths, either transport, a server that refuses, hangs up or is silent |
| `stale_deals` | Are only deals of the period rated, as the Readme says? | No. See below |
| `rollover_crash` | Does the service survive the end of a period with orderly clients? | No. See below |
| `newcomer_crash` | Does it survive a registration beside a push, with no end of period? | No. See below |
| `low_positions` | Are the users below the nearest ones when they are fewer than the list may hold? | No. See below |

The properties have no state they need more elements for: each speaks of at most
two deals, users or threads, and the bounds give every run one more actor than a
counterexample would take, or (`service`, `transport_servers`) every interleaving of a pair.
What does depend on sizes is proved for all of them, see below.

`CHECK_DEADLOCK FALSE` stands where the program really stops: the provider and the
protocol end after `stop` or after their calls, connections and servers close
(`ws_link`, `transport_servers`), the test client exits, and a crash of the process ends
`service`, `rollover_crash`, `newcomer_crash` and `transport_servers`.

### Fairness

Weak fairness of a thread says that it is scheduled, and that is all that is
assumed of the provider's thread, the broadcaster, the thread that calls
the watcher's `start`, and the handlers of gRPC; in `ws_link` also of the completion
handlers of an io_service that runs, and in `test_client` that a timeout passes and an
attempt to connect ends. Clients, the clock, whoever calls `stop`, and the network
promise nothing, nor do the foreign ends of `ws_link` and the server of `test_client`.
Nothing is assumed of the WebSocket server, about which no liveness is stated. Two runs assume
more. In `ws_protocol` an entry is not for ever found younger than its timeout, as the
thread sleeps for that timeout between two passes. In `transport_servers` a call of
`Connect` that waits for a mutex gets it in the end (strong fairness): its rival, the
broadcaster, sleeps between two rounds. Liveness of the watcher holds for a user that
stays connected, that of the service while no exception ends the process.

### Where the code disagrees with what is said of it

Runs that end in a violation, with the steps that lead to it:

* `stale_deals`: `addDeal` compares the timestamp with both ends of the window without
  the lock and inserts under it. A rotation in between clears the table and moves the
  window, and the deal of the old week is rated in the new one, against Readme.md:7.
* `rollover_crash`: when the clock has passed `endTime_` and the thread has not moved it,
  the zero deal of a user without a place is ignored, and the query that follows throws.
  The table may also be cleared between two of the calls that collect a rating. Nothing
  in the broadcaster catches the exception, and the process ends; `test/smoke.sh`
  calls a crash a failure. The clients are orderly.
* `newcomer_crash`: `UserDataStore` has no lock, although `ITransportServer.hpp:33` asks
  handlers to be thread-safe. While a newcomer is being inserted the broadcaster's
  lookup of another user's name may miss it, and throws. The clients are orderly and no period
  ends. What else a torn hash table may do to a reader is not modelled.
* `low_positions`: `getLowPositions` takes `end() - 1` for the end when fewer than
  `nPositions` users are below, and leaves the last user of the table out, although
  `UserRatingProvider.hpp:79-86` speaks of the lower users without exception.
  `NeighboursNearest` of the passing run therefore asks for a complete lower list only
  where there are `nPositions` users below.

Seen while modelling and left to the reader, since they are consequences of what
the models already show or lie beyond them:

* A deal of the first moments of Monday is ignored until the thread has moved the
  period (the last case of `IgnoredForAReason`).
* One client that connects or deals without having registered makes a query throw
  in the broadcaster: `PushesSucceed` speaks of orderly clients only.
* `isUserPresent` does not take the provider's lock either; its answer may be out of date
  when it is used, which `ZeroDealIsHarmless` shows to do no harm.
* A pushed rating puts lists together that are read in four critical sections, so
  it can mix two states of the table.
* An acknowledgement may arrive before its message is stored; the message is then
  sent again, up to its number of attempts.
* A user that reconnects before its old connection is closed loses its new route
  when the old one goes, over WebSocket and gRPC alike; `LoyalUserRouted` speaks of
  users that keep to one connection.
* Any error of one WebSocket connection, also of one that was never opened, stops the
  server of all, so `run` returns, although `ITransportServer.hpp:51` says that it
  blocks until `stop` is called. A `stop` before the server listens is lost, and its join never
  returns. `WsTransportServer` has both; no property asks for either.
* A gRPC push may write to a stream whose `Connect` has returned since the lookup;
  `GrpcTransportServer` lets this end the process. Its tables never lead there.
* The generator of the test client notifies of the fifth and later users only, so a
  wait entered before the first registration never ends with fewer users, but for
  a spurious wakeup. `GetsGoing` therefore promises that requests cross to the server
  for more than four users only; for fewer, that the client gets as far as its loop or exits.
* `GrpcTransportClient::waitForConnection` says true once the channel is ready, also
  when an earlier failed attempt has ended the call: the client then makes requests
  that nobody receives, although `ITransportClient.hpp:53-54` says that true means
  connected. `GetsGoing` asks for requests on the wire only while something can be sent,
  and says nothing of such a client. `WsTransportClient` keeps its `connection_` after a close.
* The request timer's handler, once queued, cannot be cancelled and closes a
  connection that has been opened meanwhile; a failed write is told to nobody but
  the read that fails after it; the idle timeout is 0, so a peer that falls silent
  is never noticed.
* `client_ws.hpp` counts the bytes it read with the handshake's response before it
  takes the response's own rest away. This service's server never sends anything
  with its response (`FramesWhole`); a server that speaks first is not modelled.

## The proofs

TLAPS proves the following for every value of the constants. Each is an
invariant, an action property or a refinement of the whole specification, derived
from an inductive invariant `IInv` of the same module: it holds initially, every
action keeps it, and it implies the property.

* `MultiKeyVolatileContainer_proofs`: lemmas about a sorted vector, the swaps and
  lookups, then types, `TableWellFormed`, `LookupEndsInTable`,
  `NeighboursNearest` (the users above, and those below when there are enough), and
  that the container implements `Leaderboard` under the mapping of a node to its rank. `IInv` is types, same keys and sorted together:
  the walk of a lookup is only known to find its node when the vector is sorted and
  holds the key once, and the move only keeps the order when the lookup found the
  right node. Assumed: `Modify` yields an amount; amounts are integers.
* `RatingService_proofs`: `NamedUsersRegistered`, `ZeroDealIsHarmless`,
  `PushesSucceed`, and that the table stays well-formed under every interleaving.
  The lemmas of the container are cited through an instance, `P!...`, after the
  service's parameters are shown to meet what the container assumes and its
  operators to be the same. `IInv` is types, the container's invariant and
  `NamedUsersRegistered`. `PushesSucceed` needs `QuietInv`: with orderly clients
  and no end of period the window is open, whoever is connected, in the table or served is
  registered, though others register meanwhile, a zero deal under way is not
  refused, and whoever is asked about is in the table. Then a query lists registered
  users only, and can throw only if the lookup of a name runs beside an insertion.
  `ZeroDealIsHarmless` is the container's refinement of `Leaderboard` put to use:
  adding zero is an `Add` that moves nobody.
* `UserRatingProvider_proofs`: types, `WindowCurrent`,
  `NoFutureDeals`, `CurrentDealsKept`, `IgnoredForAReason`. The calendar is arbitrary,
  any function from days to the first of their month, and the clock shows any instants; that
  `TimeHelper` reaches the midnight of the right day within a week is a lemma. `IInv` adds
  `RotationIsDue` (the thread clears and updates only when the clock has passed the
  window's end) and `CheckedDeals` (a call that has passed its checks carries a
  deal before the end the window has by now): without the first the window might
  run ahead, without the second a rotation might let a future deal in. That a window which
  has caught up agrees with that of a new process follows: both contain the
  clock and begin whole weeks apart.
* `UserRatingWatcher_proofs`: types, `BlockedWithNothingToDo`, `AtMostOneLatePush`, where
  `IInv` adds that a user still to be served by a round has had no late push.
* `TransportServers_proofs`: types, `KeysPointToConnections`, `SentToOwnConnection`,
  `OneWriterPerStream`, `NoRouteToEndedStream`, `LoyalUserRouted`. `IInv` has a part per
  server, each of which every step of its own server keeps while the other stands still.
  `WsInv` says that keys and routes are over connections their users came over; the
  close of a connection therefore drops the route of a user that has used that
  connection. `GrpcInv` says that a stream that can be written to has one handle, that
  every route leads to a stream that has noted its user, and that held mutexes are
  distinct.
* `WsProtocol_proofs`: types, `SendsBounded`, `BlockedWithNothingToDo`,
  `GivenUpForAReason`. `IInv` adds that an entry belongs to a message that is done
  and counts its sends, and that what is acknowledged was received.
* `Wire_proofs`, of `WsLink`: types, `FramesWhole`, `EndsOnce`, `InOrder`. The
  argument has two layers.
  `LinkInv` is types, `Control` and `Shape`. `Control` says in which phase of its life
  an end can be, given its socket: nothing is read, queued or told before both ends
  are connected, and nothing but a writing thread survives the end. `Shape` says
  that the bytes to each end are a handshake, or part of one, and then whole
  frames, of which the last may lack its content while its writer is between its two
  operations or the connection is severed, and that what an end is in the middle of
  reading is what comes next. `FramesWhole` and `EndsOnce` follow from it.
  `Flows` is for `InOrder`. Each piece on the wire is taken for a step of its
  reader (`Moves`), which goes on with the fragments so far or delivers a message;
  `Leads` says that the wire leads a reader in one state to another. While nothing
  is severed, the wire, the frames of the writer's queue that are not written and the
  frames posted to its strand lead the reader from what it has been told to exactly
  what the writer was given (`Pipe`); after that, the wire leads it to some prefix.
  Neither needs induction over the wire: an existing run of reader states is shortened
  at the front when a piece is read and lengthened at the back when one is written.
  The `Takes` and `Gives` lemmas say this of each action of an end once, and both
  ends and the foreign end cite them.
  Assumed (`PartsAssumption`): the messages that are sent are sequences of parts.
* `Wire_proofs`, of `TestClient`: `WireMeansMessage`, `OnlyNewestUnannounced`. One
  lemma per type says that what its serializer writes is read back as it was; the
  numerals carry them, since different numbers are written differently
  (`NumeralsAssumption`) and the numbers of the instances are among them
  (`ClientAssumption`). `ClientInv` adds what the threads have registered and
  announced: users are numbered in the order in which they are added, a user is added
  only when all before it are announced while anything can be sent (`Announced`),
  and what waits to be sent is a message about one of them (`Registered`, `Waiting`).
  `Announced` survives the loss of a connection since a transport that has lost its
  connection never sends again (`LinkUp`).

Refinements tie the modules together. For each, the initial states map to initial
states and every step to a step or a stutter, from the `IInv` above:

* `ImplementsLeaderboard` of `MultiKeyVolatileContainer`, and of `RatingService`, in
  which the same table stands among workers, broadcaster and rotation.
* `ImplementsPeriod` of `UserRatingProvider` and of `RatingService`, to `RatingPeriod`.
  For the provider the phase is computed from the clock, `endTime_` and the writes
  `updatePeriod` has yet to make; `RotationIsDue` and types make every step of the
  thread and of the clock one of the four phase changes or none. It is what
  allows `RatingService` its four phases. The thread may have overslept the new
  end too, so `WriteEndTime` goes to "open" or to "over".
* `ImplementsRouting` of `TransportServers`, to `Routing`, with either transport:
  a route is moved by events of its user only, or ends with a connection that its
  user came over, and a push goes where a lookup led it. That only users of an
  ending connection lose routes is where the `IInv` of both servers is needed.

`ImplementsLeaderboard` of the container and `ImplementsRouting` are also checked by runs.
The others are stated by theorems only.

All invariants and action properties that a passing run checks are proved. Only
model-checked is every liveness property (`CatchesUp`, `StopCompletes`,
`ServedAgainAndAgain`, `PushedAgainAndAgain`, `StoreDrains`, `ConnectReturns`,
`GetsGoing`, `EndsAreTold`), since the prover does not do fairness and `ENABLED`.
No module declares a `RECURSIVE` operator, and no theorem needs
induction over data, which the installed provers cannot instantiate. The type
invariants of the proved modules are left to the proofs.

## Not modelled

Of the command lines only the choice of a transport and the number of the test client's
users are modelled; the construction of the objects has no state that changes.
The Kafka and RabbitMQ transports that `Application.cpp` names are not in the
repository. Of SimpleWeb: the digest of a handshake's key (a response is right or
wrong), TLS, the idle timeout, which nobody sets, and the size limit of messages,
whose default no message reaches. Of the deserializers: what they throw for trees
that no serializer here makes. The test client's thread is assumed to start within
the ten seconds of the wait, and a gRPC write not to block. A `stop` of the WebSocket
server before it listens is described above; no run looks for it, as the application
never stops its transport. The
provider's destruction is modelled as far as the join of its thread: the slot it
leaves in the static deal store is not, as the application never destroys it.

## Plan

Done, in this order: the container and its abstract specification; the provider;
the watcher; the service that composes them with the container; the calendar under the
provider; the protocol; the two transport servers and the choice between them; the sockets under the WebSocket
transport; serialization; the transport clients and the test client; the proofs of
every invariant and action property, and the refinements.

What would come next:

1. `WsProtocol` over `WsLink` instead of connections that may close: how many of the
   attempts it makes can be lost between a write and the peer's read.
2. `WsLink` under an abstract specification of a connection (each end is told a prefix
   of what the other was given), and `WsTransportServer` over that.
