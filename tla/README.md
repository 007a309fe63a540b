# Ryklys: a verification project

Ryklys is a live-streaming platform: a C++20 backend (its own HTTP/WebSocket
server on epoll, PostgreSQL, Redis, WebRTC in, HLS out), StreamPocket (a small
HTTP server that stores HLS segments) and a React front end. This directory
holds TLA+ modules that model the parts of it whose correctness depends on
interleavings, ordering, failures and bounds, TLC configurations that check
them on small instances, and proofs that TLAPS checks for every instance.

## Inventory

| Component | State | Operations | Talks to |
|---|---|---|---|
| PostgreSQL pool (`pg-connection-pool/`) | queue of connections, mutex, condition variable | `connection`, `freeConnection`, RAII `Lease` | every repository |
| Redis pool and client (`RedisPool.h`, `services/RedisClient.h`) | queue of clients, each a socket that may be dead | `Get`, release, one command per lock | viewer, stream and chat handlers |
| HTTP connection (`zvejys-rest-api/HttpConnection.cpp`) | read buffer, response queue, epoll mask | `OnReadable`, `HandleRead`, `OnWritable` | event loop, routes |
| WebSocket connection (`WebSocketConnection.h`, `WebSocketFrame.h`) | state, read buffer, write queue and offset, callbacks | `OnReadable`, `OnWritable`, `SendText`, `Close` | registry, handlers, epoll |
| Event loops (`main.cpp`, `stream-pocket/main.cpp`), `ZvejysServer` | connection maps, epoll, task queue | accept, dispatch, upgrade, hang-up | connections |
| Viewer registry and count (`ViewerRegistry.h`, `VIewerRoutes.cpp`, `StreamCleanup.h`) | per-node set of sockets, shared Redis key | join, leave, broadcast, close all | Redis, WebSockets |
| Chat (`VIewerRoutes.cpp`, `ChatRelay.h`, `ChatRepository.h`, `StreamView.tsx`) | table, pub/sub channel, client message list | insert, publish, relay, history | PostgreSQL, Redis, registry |
| Stream session (`StreamerRoutes.cpp`, `StreamRepository.cpp`) | DB row, PeerConnection, FFmpeg, uploader thread, early candidates | offer, candidate, close, start, kill | repositories, StreamPocket |
| StreamPocket storage (`stream-pocket/`) | directories and files | PUT, GET, DELETE, cleanup | uploader, viewers |
| Users and sessions (`UserRoutes.cpp`, `UserRepository.cpp`, `utils/`) | users table, JWT cookie | register, login, logout, verify | PostgreSQL |
| Front end (`frontend/src`) | React state of pages and hooks | go live, watch, chat, edit scene | all of the above |

### What is hard in it

* **Two levels of threads.** `main.cpp` hands every epoll event to a worker pool
  without `EPOLLONESHOT`. Events of one connection, the handler that upgrades a
  connection, the callbacks of a WebSocket, the relay thread, libdatachannel's
  threads and the uploader threads all run at once, and share the registry, the
  pools and the write queues.
* **Handlers that take several steps.** `/ws/view` registers, counts, broadcasts
  and only then sets its callbacks; `/sig` inserts a row and builds a peer
  connection before it sets them; the close callback counts down in three Redis
  commands; `CleanupStream` closes viewers and then resets the key.
* **Edge-triggered readiness.** A connection that is registered for the wrong
  event, or whose leftover bytes nobody looks at, is silent for ever.
* **Ends without a goodbye.** A FIN or a reset runs no close callback; a relay
  thread that loses Redis ends for good; a Redis client that broke goes back
  into its pool.
* **Processes and files without an owner.** FFmpeg, the uploader thread and the
  database row of a broadcast are stopped by three different callbacks, nodes
  crash between them, and the files are shared with a cleanup thread in another
  process.
* **Asynchronous pages.** A history answer and live frames race for one list;
  the handlers for the SDP answer and for candidates interleave at every `await`;
  two refreshes of the session can overtake each other.

### What makes each component correct

| Component | Correctness |
|---|---|
| PostgreSQL pool | a connection has one user, none is lost, no waiter sleeps beside a free one, every borrow ends |
| Redis pool | the same, and a broken client does not silently swallow commands |
| HTTP connection | requests are framed exactly however they are split; responses are whole, in order and never forgotten |
| WebSocket connection | frames go out whole and in order; the close callback runs once for every end; a queued frame always has an `EPOLLOUT` coming |
| Event loop, server | every ready connection is served; a broken one is closed and forgotten; a descriptor number is never used for two connections |
| Viewer count | at rest the number in Redis is the number of viewers; never negative; the end of a stream closes its viewers |
| Chat | what is shown is stored, once, in one order; what is published reaches every viewer of every node |
| Stream session | no candidate is dropped or used too early; an accepted offer leads to a live page; a row is live exactly while there is a session |
| Segment pipeline, StreamPocket | a listed segment can be fetched and is complete; cleanup deletes nothing that is in use |
| Users and sessions | one account per name and mail; a request acts for the user its token names |

`PROJECT.json` lists the hazards line by line, with the property that covers each
one or the reason why none does yet.

## Modules

| Module | Models | Status |
|---|---|---|
| `LeasePool` | abstract: a fixed stock of connections, each free or with one holder | checked, proved |
| `PgPool` (`PgPoolProofs`, `MCPgPool`) | `pgPool.cpp`, `PGPool::Lease` | checked, proved, implements `LeasePool` |
| `ViewerCount` (`ViewerCountProofs`, `MCViewerCount`) | `/ws/view`, registry, Redis key, `CleanupStream` on several nodes | checked, proved |
| `HttpServing` (`HttpServingProofs`, `MCHttpServing`) | `HttpConnection` with its socket, epoll and event loop, in both loops | checked, proved |
| `Chat` (`ChatProofs`, `MCChat`) | message callback, table, pub/sub, relay threads, history, the page's list | checked, proved |
| `Signalling` (`SignallingProofs`, `MCSignalling`) | goLive and the `/sig` handler | checked, proved |
| `WebSocketServing` (`WebSocketServingProofs`, `MCWebSocketServing`) | `WebSocketConnection` between workers, senders and epoll | checked, proved |
| `StreamSession` (`StreamProofs`, `MCStreamSession`) | broadcasts of a user over nodes that crash and start: rows, peer connection, FFmpeg, uploader | checked, proved |
| `SegmentPipeline` (`StreamProofs`, `MCSegmentPipeline`) | FFmpeg's files, the uploader thread, StreamPocket's PUT and its cleanup thread | checked, proved |
| `Accounts` (`AccountsProofs`, `MCAccounts`) | registration, login, logout, the token cookie, the page's session | checked, proved |

How they fit together: a WebSocket connection (`WebSocketServing`) carries the
frames of `Signalling`, `Chat` and `ViewerCount`. A `/sig` connection that
`Signalling` brings up is one session of `StreamSession`; its uploader's inner life
is `SegmentPipeline`, whose files `HttpServing` serves; its end runs
`CleanupStream`, which is `ViewerCount`'s. Repositories borrow from `PgPool`. Each
module has the others' part as an atomic step or as an action of the environment.

Every name in a module that exists in the code has the code's name (`m_pool`,
`viewers_`, `read_buffer_`, `response_queue_`, `earlyCandidates`...). An operator
whose comment begins "Mutated form of" is a plausible mistake in the definition
that follows it. It is not part of any specification: it is there so that one can
put it in the place of that definition and see the property fail that
`PROJECT.json` names beside it.

### PgPool and LeasePool

State: the queue `m_pool`, what each thread holds in `conn_`, where each thread
is. Each critical section of `m_mutex` is a step: `Wait` (the queue is empty, the
thread blocks), `Pop`, `freeConnection`. What happens outside the mutex is a step
of its own: `IsOpen`, `Reconnect`, `ReconnectFails` (the constructor throws and the
dead connection goes back), `NotifyOne`, which runs after the unlock. `Die` and
`SpuriousWakeup` are the environment. Connections are numbered as they are made,
so that a reconnect is visible as a new number. `LeasePool` says what users rely
on: `Take`, `Give`, `Swap`. The refinement mapping is the queue as a set and `conn`
as the holder.

### ViewerCount

One channel, its viewers spread over nodes, several endings of its streams. The
handler is `Upgrade`, `Reject` (no channel given), `Add`, `Incr`, `Snapshot`, `Tell`,
`Told`; the close callback is `OnClose`, `Remove`, `Decr`, `Reset`, then `Snapshot`,
`Tell`, `Told` again; `CleanupStream` is `CloseAll`, `CloseOne`, `AllClosed`, `Zero`.
Each is one registry critical section, one Redis command or one send, so every
order of threads between them is explored. `Vanish` is a client that ends without
a Close frame. `OnReadable` runs the callback for every Close frame it reads, in
whatever state the connection is, so `OnClose` may follow `OnClose` and a viewer is
counted down again. `before` (who was registered on the ending's node when the
ending began) and `repeated` (whose callback ran again) are history variables.

A repeated Close can only make the count too low, and `CountMatchesRegistry` says so;
it is exact without one. Both are about the time until a stream of the channel ends:
`CleanupStream` then reaches the viewers of its own node only, and zeroes the key of
all nodes, so that the viewers of the others stay and are no longer counted.

Further known limits that the model shows and no property forbids: the `SET 0`
overwrites the `INCR` of a viewer that joins in between, who is then not counted; two
broadcasts may arrive in the order opposite to that of their numbers, and viewers
keep the older number until somebody joins or leaves. Who disappears without a
Close frame, or whose Close frame is read before `SetOnClose`, is counted until a
stream of the channel ends, although README.md:35 calls the count "real-time".

### HttpServing

The socket's two buffers, the epoll registration (`mask`) and ready list (`edge`),
the task queue, and the handler thread. A request is a sequence of units: a
header line (with or without a Content-Length), the blank line, body bytes; the
network splits it anywhere. `Input` is the requests' units one after the other and
`Start[i]` the number of units before request i: both follow from `Bodies`
(`InputAssumption` says how, and TLC evaluates it for each instance), and are
constants so that one can reason about any number of requests without flattening a
sequence. A response is `ResponseLen` units. `inline` chooses
between the loop of StreamPocket, which calls handlers itself, and that of the
backend with one worker, where an event can be handled late; `pipelining` chooses
whether the client waits. `Recv`, `Incomplete`, `HandleRead` are the three phases of
`OnReadable`; `Send`, `SendFails`, `AllSent` are `OnWritable`; `Arm` is `EPOLL_CTL_MOD`,
which looks at readiness at once. A handler that throws answers 500, so every
request has a response. Two workers on one connection are a data race on the
buffers and are left out here (see the hazards).

Known limits: `OnReadable` handles one request, and what is left in `read_buffer_` waits
for the next byte from the client, although HttpConnection.cpp:84 says "supports
pipelining". A client that sends two requests together and then waits is not answered,
so `EveryRequestAnswered` is about clients that wait. And a client that closes its side
right behind its request (`ClientFin` may come at any time) is not answered if `recv`
sees the end of the stream before the request was handled (HttpConnection.cpp:42-47,
`RecvEnd`). `EveryRequestAnswered` excepts these requests, and only these (`CutOff`).

### Chat

`CallbackStep` is the message callback: `Ignore`, `Insert`, `Commit`, `InsertFails`
(with the commit in doubt), `Publish`, `PublishFails`. `RelayStep` is the subscriber
thread of a node around `Broadcast`, which copies the registry entry and then
sends; `RelayExits` is its end when Redis goes. On the page, `GetRecent` is the
server's query, `ShowHistory` the replacement of the list, `Receive` the merge of a
live message. Ids and `created_at` are one number: both grow with the inserts and
neither need agree with the order of commits. `Fresh` are the pages opened during
the run; the others are registered and have their history.

### Signalling

The page, the two directions of the WebSocket, the upgrade and the reading worker.
The upgrade goes `Send101`, `Register` (epoll), `Create` (row), `CreatePeerConnection`,
`SetOnMessage`, `SetOnClose`, or ends in `Refuse` or `SetupThrows`. Meanwhile frames
may be read: `Unhandled` if the callback for them is not set (or the old
`HttpConnection` still owned the descriptor), `HandleOffer`, `HandleCandidate`,
`HandleEnd`, `HandleClose`, their exceptions (`OfferThrows`; `FlushThrows`, where
`addRemoteCandidate` throws at some candidate of the flush; `CandidateThrows`), or
`Crash` when the callback is being assigned at that
moment: `on_message_` is a plain `std::function`, and a reader that sees its manager
and not yet its invoker calls a null pointer. On the page every `await` is a
boundary between steps: `SetLocalDescription`/`SendOffer`, and
`SetRemoteDescription`, `FlushOne`, `FlushDone` of the answer's handler, between
which `ReceiveCandidate` may run. libdatachannel is external: after an accepted
offer it sends an answer and candidates, in any order. `described` is its own state:
it has the offer, while `hasRemoteDescription` is the session's flag, set after the
flush. `sent`, `received`, `lost` and `refused` are history variables.

Known limits: the `catch` of the message callback only logs. After a flush that threw
the flag stays false, what was added stays in `earlyCandidates` as well, and every later
candidate is queued for ever; a candidate refused on its own (`refused`) is nowhere.
StreamerRoutes.cpp:482 flushes "any candidates that arrived before the
offer", but only those that were read after `SetOnMessage`; earlier ones, and an
early offer, are in `lost`.

### WebSocketServing

One connection with two workers that may handle two of its events at once, threads
that call `SendText`, and one that calls `Close`. `SendText` and `Close` are one step
each (a critical section of `write_mu_`). `OnReadable` runs under `conn_mutex_`:
`Recv` (or `RecvEnds` at the end of the stream, which returns before it parses),
then per frame `ParseText`, `ParsePing` and `PongArms`, `ParseClose` or
`ParseCloseAgain` and `OnClose`, then the unlocked look at the queue (`QueueEmpty`,
`QueueWaits`, `ReadArms`). `OnWritable` runs under `write_mu_`: `LockWrite`, `Send`,
`SendBlocks`, `AllSent`, `ArmForRead`. `mask` and `pending` are the epoll registration:
`EPOLL_CTL_MOD` looks at readiness again. Frames are `FrameLen` units long, so a
`send` can end inside one; the client's frames arrive in halves.

`PingRaces` is the data race of the PONG, which is pushed without `write_mu_`, with
whoever is inside the queue: nothing is said of the connection from then on. The
comment at WebSocketConnection.h:207 ("protects write_queue_") holds for all other
writers. Known limits: a PONG can stay in the queue until the next frame; frames
that arrive together with the FIN are not looked at. A reset is left out here.

### StreamSession

Sessions of one user on several nodes: `Create`, `createPeerConnection` or
`SetupThrows`; `FirstPacket`, `Popen` and `PopenFails` start FFmpeg; `Disconnect`,
`Connect` and `Closed` are the peer connection's state changes; `OnClose`, `SetEnded`
or `SetEndedThrows`, `PcClose` are the close callback, which a second Close frame
runs again; `Destroy` is the destructor, which runs when `ws_connections_` reuses the
descriptor; `Unnoticed` is an end that no callback sees (FIN, reset, a close code
outside 1000..4999). `Start`, `EndAll`, `EndAllThrows` and `Crash` are the nodes.
`overtaken` is a history variable: sessions whose row an `EndAll` has ended.

Known limits: after `Unnoticed`, `SetupThrows` or `SetEndedThrows` the row stays live
until some node starts, and after the first the uploader never ends. `EndAll` hides
the streams of the other nodes. An FFmpeg that has quit at a disconnection is not
started again when ICE recovers. A `popen` that is overtaken by the Closed callback
leaves an "orphan". The destructor removes `recordings/<user>` also when a newer
session of the user writes there (the files are not in this module).

### SegmentPipeline

FFmpeg (external, as its command line makes it behave: segments written in place,
the playlist replaced at once, old segments deleted), the uploader thread (`LoopHead`,
`ScanBegin`, `UploadSegment`, `ScanEnd`, `UploadPlaylist` or `NoPlaylist`, `Answered`,
`Failed`), StreamPocket's PUT handler (`MakeDirectory`, `OpenFile` or `OpenFails`,
`WriteFile` or `WriteFails`) and its cleanup thread (`FindExpired`, `RemoveFiles`, `RemoveDirectory`).
`Failed` is a lost request, a lost answer or a crash of StreamPocket at that moment.
`WriteFails` is a write that a full disk cuts short: the handler does not look and
answers 200. A file is empty when FFmpeg has opened it (`BeginSegment`), part after
the first packets (`WriteSegment`) and whole at its end (`EndSegment`), and a PUT
carries whichever of the three the uploader finds. `readAs` (what the PUT that marked a
segment carried), `spoiled` (files whose last write failed) and `swept` are history
variables.

Known limits: a segment that is uploaded while FFmpeg writes it stays a part, or
empty, at StreamPocket, since a 200 marks it whatever it carried; so does one whose
write failed there. `UploadedIsStored` therefore says that what is marked is stored as
it was sent, and `SegmentsArrive` that every segment is taken, and that one which is
complete when it is opened arrives complete, in both cases but for failed writes;
segments that the cleanup thread removes after they were uploaded do not come back.

### Accounts

`Invalid`, `IsUsernameTaken`, `IsEmailTaken`, `Create` or `UniqueViolation`, `Throws`,
`CommitInDoubt` and `Registered` are the register handler, one transaction per step;
`LoggedIn` and `Unauthorized` are the login handler. On the page, `Success` and
`Failure` (also: the answer is lost) end a form; `AnswerCut` is an answer whose headers
came and whose body did not: the browser has the cookie, the page shows an error and
refreshes nothing. Every other change of the cookie is
followed by a refresh, and answers to refreshes come in any order (`Refreshed`,
`RefreshFails`). `secret` and `sameSite` are the deployment. `settled` is a history
variable: the cookie did not change while a refresh was under way. One page per
browser.

Known limits: an answer to a refresh from before a login that comes after the
login's own logs the page out until the next refresh; when page and API are on
different sites, for which login sets `SameSite=None`, the logout's cookie has
`SameSite=Lax` and is refused by the browser, so the token stays. Two simplifications:
a browser has one form under way, which `submittingRef` ensures on the registration
page and nothing on the login page; a logout whose `fetch` is rejected is no step,
since it has set no cookie and refreshes nothing.

## Runs

All runs finish; "distinct" is the number of states TLC found.

| Run | Instance | Shows |
|---|---|---|
| `pg_pool` | 4 threads, 2 connections, each thread borrows once, 2 deaths; 40,708 distinct | `NoSharing`, `SizeConstant`, `NoLostWakeup`, `AllServed`, `ImplementsLeasePool` |
| `viewers` | 2 viewers on one of two nodes, one ending on each, 1 vanishes, Close frames repeat; 1,399,113 distinct | `DebtCovered`, `LeftStaysOut`, `CountMatchesRegistry`, `EndClosesViewers` |
| `http_serving` | 3 requests (with and without body), both loops, both kinds of client, early FINs, resets; 37,815 distinct | `FramingExact`, `NoResponseForgotten`, `ResponsesInOrder`, `EveryRequestAnswered`, `BrokenIsClosed` |
| `http_truncated` | violation | a response larger than the send buffer is cut |
| `chat` | 2 messages, 2 viewers on 2 nodes, history limit 1, one relay may be lost; 512,432 distinct | `ShownIsPersisted`, `ShownOnce`, `SentInPublishOrder`, `PublishedIsDelivered` |
| `chat_shown` | violation | the history answer can wipe a live message off the page |
| `signalling` | 2 candidates on each side, one session, refusals on both sides; 57,880 distinct | `ServerKeeps`, `NeverTooEarly`, `PageKeeps`, `AcceptedGoesLive`, `CloseEndsRow` |
| `websocket` | 2 workers, 1 sender, 1 closer, a message, a PING and a CLOSE from the client; 562,714 distinct | `FramesWhole`, `NobodyForgotten` |
| `stream_session` | 2 sessions, 2 nodes, 2 starts of nodes; 453,153 distinct | `ListingExact`, `CloseReleases` |
| `segments` | 2 segments, playlist of 1, 1 failure or removal; 315,386 distinct | `UploadedIsStored`, `SegmentsArrive`, `PlaylistCatchesUp` |
| `segments_final` | violation | the final pass can be over before FFmpeg has closed its last segment |
| `accounts` | 2 browsers, 3 forms or logouts, 2 names, addresses and passwords; 2,433,126 distinct | `AnsweredAsStored` |

### Bounds, and why they are enough

* `pg_pool`: the interesting cases need a waiter, a thread that overtakes it and
  two notifications at once: four threads for two connections. The proofs remove
  the bound.
* `viewers`: a repair of a negative count needs two leavers and an ending in
  between; a stream that ends while another of the same channel ended elsewhere
  needs two endings and two nodes. The proofs remove the bound.
* `http_serving`: chunks of 2 units split every request in every way (headers,
  blank line and body in different reads); three requests give a pipelined pair
  behind a body and a third one to be confused with; the send buffer of 6 holds
  all responses, so that truncation, which `http_truncated` shows with a smaller
  buffer, does not hide the rest.
* `chat`: two messages can commit in the order opposite to their ids and be
  published in a third; with limit 1 the history leaves one out; one viewer is
  there before, the other opens the page meanwhile, on the other node.
* `signalling`: two candidates let one be early and one late on each side, and let
  one arrive during a flush of the other. Sessions of one user are independent in
  this protocol, so there is one.
* `websocket`: a send buffer of 3 and frames of 2 units cut the second frame; three
  frames of the server (message, PONG, Close) queue behind one another; two workers
  are what it takes to read and write at once. One event of the connection waits
  for a worker at a time (`MaxTasks`), two more are being handled.
* `stream_session`: two starts are two nodes, the second of which overtakes the
  sessions of the first, or one node that crashes and comes back; two sessions are
  on one node or on two.
* `segments`: with a playlist of one, FFmpeg deletes the first segment when the
  second is complete; one failure can hit any step of any PUT, or one removal falls
  anywhere between them. They are bounded together (`MaxTroubles`), since a
  StreamPocket that always fails never gets a segment.
* `accounts`: two registrations race for one name or one address and a third form
  logs in, or logs out; two refreshes overtake each other. Safety only, so all four
  sets are symmetric.

### Fairness

* `PgPool`: weak fairness of each thread. The scheduler runs runnable threads,
  critical sections are short, a query ends or throws. `NotifyOne` picks any
  waiter, as `notify_one` may; nothing is assumed about which. Deaths and spurious
  wake-ups are not fair.
* `HttpServing`: the event loop and the handler thread go on; a client that has
  begun a request finishes it and reads what it gets. It need not begin one, close
  or break.
* `Chat`: relay threads and browsers go on; nobody must write, publish, join or
  leave.
* `Signalling`: the workers go on and the browser runs its handlers; libdatachannel
  answers an offer it has accepted. The page need not send anything.
* `WebSocketServing`: the loop and each worker go on, the client reads what it is
  sent. It need not send; nobody need call `SendText` or `Close`.
* `SegmentPipeline`: the uploader thread and StreamPocket's loop go on. FFmpeg, the
  callbacks and the cleanup thread may do nothing for ever; failures are bounded.
* `StreamSession`: a close callback that has begun goes on, libdatachannel reports
  the end of a connection it was told to close, `popen` returns, the uploader leaves
  its loop. Nobody need broadcast or close; nodes need not start.
* `ViewerCount` and `Accounts` have no liveness property and no fairness.

Deadlock is checked everywhere except in `Signalling`, whose exchange really ends;
in the others the state of rest is an explicit stuttering action, so that any
other stop is an error.

## Proofs

`PgPoolProofs`, from `PgPoolAssumption` (finitely many threads, a positive size):

* `Inv` = `TypeOK`, `HeldWhere` (a thread has a connection exactly at the places
  where `conn_` is set), `Numbered` (no connection has a number that is not given
  out yet) and `NoSharing`. `NoSharing` is not inductive alone: a reconnect is
  safe only because its number is new, a push only because the thread held the
  connection. `NoSharingHolds` follows.
* `SizeConstantHolds`: pop and push move one between the queue and the set of
  holders; the cardinalities come from `FiniteSetTheorems`.
* `NoLostWakeupHolds`: a push raises both sides of the inequality, because its
  thread goes to "notify"; `NotifyOne` turns a notifier into a woken thread, or
  there was no waiter; a woken thread leaves with a connection or finds the queue
  empty.
* `SomebodyRunsHolds`, the safety half of `AllServed`: while a thread waits, another one
  holds a connection, is about to look at the queue or is about to notify. Were all
  others idle, `SizeConstant` would make the pool full, and `NoLostWakeup` does not
  allow a full pool beside a waiting thread that nobody will wake.
* `Implements`: `Spec => ImplementsLeasePool`, step by step from `Inv`.

`ViewerCountProofs`, from `ViewerCountAssumption`:

* `LeftStaysOutHolds`: types and registry membership, inductive together, and
  `RepeatedLate`: who closed again has left the registry.
* `DebtCoveredHolds`: every DECR below zero adds a callback that resets, every
  write makes the key 0 or more.
* `CountMatchesRegistryHolds`: through `CountedBeforeEnd` (until an ending begins the
  key is at most the number of viewers between INCR and their first DECR, and is that
  number, with nobody resetting, if no callback ran again), which is stronger than the
  property: it also speaks of viewers that are on their way.
* `EndClosesViewersHolds`: through `ClosedOrKicked` (a connection that was
  registered when an ending began is closed, or the ending still has it on its
  list).

`ChatProofs`, from `ChatAssumption` (finitely many messages, every viewer on a node):

* `TypeOKHolds`, with the domain of `seen` added.
* `ShownIsPersistedHolds`: a page takes what it shows from an answer or a frame, a
  frame comes from a channel, a channel from the log. So `Stored` and `Published`
  say of all four that they hold committed rows, and no step uncommits a row.
* `SentInPublishOrderHolds`: through `Order`. Frames in log order are not inductive:
  the next frame is the head of the relay's channel, and must come after those
  sent. `Order` therefore compares a viewer's frames with what is still in its
  relay's channel, with one exception: the head, once the broadcast has served this
  viewer and not yet ended (`Served`).
* `ShownOnceHolds`: through `Once`, which says the same of answers; what `GetRecent`
  returns has no repetition because ids grow along it.
* `ReceivedIsShownHolds`, an action property: the page compares ids, so it is
  right only if two rows never have one id and no row has id 0 (`Numbers`).
* `NothingSkippedHolds`, the safety half of `PublishedIsDelivered`: through `Delivery`,
  which adds the place of the broadcast (the head of the channel still counts as to
  come only for a viewer the broadcast has not served) and that a viewer who was
  there and is gone never joins again.

`SignallingProofs`, from `SignallingAssumption` (finite sets of candidates,
none of which is a signal or the answer):

* `ServerInv` (`Kept`, which is `ServerKeeps` spelled out; `AddedLate`: nothing is handed
  to the peer connection before it has the offer; and `OnceUnderWay`: no candidate is in two
  frames, or reading the first would put it in two places), `PageInv` (`FlushedAdded`:
  the flush has added the front of `earlyCandidatesRef`; `OneAnswer`: the answer is
  under way only before it is received; `FromServer`) and `PlaceInv`.
* `ServerKeepsHolds`, `NeverTooEarlyHolds`, `PageKeepsHolds` and `TypeOKHolds` follow.
* `AnswerKeptHolds`, the safety half of `AcceptedGoesLive`: through `AnswerInv`, which says
  that only a page that has left can have a Close frame under way or a closed session
  (`ClosedByPage`), that whoever finds the message callback set finds a session
  (`SessionThere`), and that an answer once given is under way or taken up
  (`AnswerThere`).

`WebSocketServingProofs`, from `WebSocketAssumption`:

* `QueueInv`: `write_queue_` is the end of what was pushed (`Suffix`), and the wire
  has the popped frames and `write_offset_` units of the front, unit by unit
  (`OnWire`). It is `FramesWhole` with products for quotients, and with the queue in
  it: without `Suffix` nobody knows which frame the next unit is of.
* `OneClose`: a Close is queued in state OPEN only.
* `ReadInv`: a worker is between `recv` and the re-arming exactly while it holds
  `conn_mutex_`, so that the frame being answered is still first in `read_buffer_`.
* `FramesWholeHolds` and `TypeOKHolds` follow.
* `RestsWhenDoneHolds`, the safety half of `NobodyForgotten`: loop and workers come to
  rest, with room in the send buffer, only when every frame queued under `write_mu_`
  is sent and every complete frame of the client handled. Through `RestInv`:
  `WriteInv` (a worker is between the flush and the re-arming exactly while it holds
  `write_mu_`, and when it is about to arm for read only PONGs can be in the queue,
  since `SendText` and `Close` need the mutex), `Armed` (anything else in the queue
  has the mask set for write), `WriteDue` and `ReadDue` (with either mask there is an
  event, a task or a worker that will come, unless there is nothing to do), and
  `ParseDue` (a complete frame in `read_buffer_` is in the hands of the worker that
  parses). The tasks and places of workers have to be in it: `pending` is reset when
  the event becomes a task, and is overwritten by the next `EPOLL_CTL_MOD`.

`HttpServingProofs`, from `HttpServingAssumption` and `InputAssumption`:

* `EventInv`: `Dispatch` says which events the tasks carry that a handler is at work
  on, `Armed` that a response that waits has the mask set for write, and that with
  this mask there is an edge, a task for writing, or a full buffer.
  `NoResponseForgottenHolds` follows from it.
* `StreamInv`: `InStream` says that `read_buffer_`, the receive buffer and what the
  client has not sent are adjacent pieces of `Input`, the first of which begins at
  `Start[Len(handled) + 1]`. So the first blank line of `read_buffer_` is that of the
  next request, and `HandleRead` cuts out that request and no more. `FramingExact` is
  not inductive without it. `FramingExactHolds` follows, and with `QueueInv` (the
  queue has the numbers of the requests handled last) `TypeOKHolds`.
* `ResponsesInOrderHolds` and `RestsWhenAnsweredHolds` assume `AnswersFit`: the send
  buffer has room for one response, and for all of them if a client pipelines.
  Without it both are false, because `OnWritable` pops what it has sent in part
  (`http_truncated`). `OrderInv` adds `OnWire` (the wire has the responses taken from
  the queue, unit by unit) and `Waits` (a client that waits has at most one request
  that it has no response to, so the buffer is empty when the next response comes).
* `RestsWhenAnswered`, the safety half of `EveryRequestAnswered`: in `epoll_wait`, with
  everything read, a client that waits has the responses to all it has sent. Through
  `RestInv`: `ReadDue` (bytes that wait under the mask for read have an event) and
  `WholeIsRead` (nobody returns to the loop with a whole request in `read_buffer_`;
  this is where a pipelining client would fail).
* `RestsWhenClosedHolds`, the safety half of `BrokenIsClosed`: the backend does not wait
  in `epoll_wait` with a connection that broke and was not closed. Through `HupDue`: a
  broken connection has an edge or a task with EPOLLHUP, which `EPOLL_CTL_MOD` and the
  returns of both handlers keep. StreamPocket's loop, which drops an EPOLLHUP that
  comes with an EPOLLIN, is excepted.

`StreamProofs`, for `StreamSession`, from `StreamSessionAssumption`:

* `Inv` = `TypeOK`, `ListingExact` and `NoneYet` (no peer connection before
  `createPeerConnection`, so no callback can end a session that is only inserted).
  `ListingExactHolds` and `TypeOKHolds` follow.
* `ReleasedForGood`, an action property and the safety half of `CloseReleases`: no
  step of anybody makes a released session run again.

`StreamProofs`, for `SegmentPipeline`, from `SegmentAssumption`:

* `PipelineInv` = `PipelineTypeOK`, `Numbered`, `Carries` (a PUT carries content, and is of a segment
  that is not marked: truncating its file takes away nothing that was promised),
  `FileThere` (an opened file is there until the answer, and once written has what the
  PUT carries unless the write failed) and `UploadedIsStored`.
* `UploadedIsStoredHolds`, `PipelineTypeOKHolds`, and the action property
  `UploadedUntouchedHolds`.

`AccountsProofs`, from `AccountsAssumption`:

* Rows are told apart by the request that made them: `Numbered` (requests under way
  have different numbers, none above `count`; no id is above the number of rows) is
  what makes a new row somebody's and nobody else's. `Outcome` says for each phase
  of a handler whether its row is there; a token is of the right row because
  `Unique` leaves one row of that name. `Settled` says that all refreshes under way
  ask with the present cookie, else the last of them could bring back an old user.
* `AnsweredAsStoredHolds` and `TypeOKHolds` follow.

TLC finds no violation of any of these inductive invariants either, on the bounds of
the component's run (an MC module that extends the proof module instead), nor of
the safety halves that are stated in the proof modules (`RestsWhenDone`,
`RestsWhenAnswered`, `RestsWhenClosed`, `SomebodyRuns`, `AnswerKept`, `NothingSkipped`). In every module the bounds of the specification (`MaxCalls`,
`MaxLost`, `MaxRequests`...) are arbitrary: the theorems hold for each value of them.

Every invariant that a run checks, and the refinement of `LeasePool`, are proved.
Only model-checked are the liveness properties, which TLAPS cannot prove: `AllServed`,
`EveryRequestAnswered`, `BrokenIsClosed`, `PublishedIsDelivered`, `AcceptedGoesLive`,
`CloseEndsRow`, `NobodyForgotten`, `CloseReleases`, `SegmentsArrive`,
`PlaylistCatchesUp`. For all of them but the last two and `CloseEndsRow` a theorem
states the safety half: nothing that is owed is lost, or the system does not come to
rest while it is owed.

## Disagreements between the code and what is written about it

1. `http_truncated`: HttpConnection.cpp:248 "After sending all responses", but a
   response is popped after one `send`, however little that took.
2. `chat_shown`: StreamView.tsx:118 merges live messages by id into what is shown, and
   README.md:49 says "100% delivered", but `setMessages(data)` of the history replaces
   live messages that came first.
3. `segments_final`: StreamerRoutes.cpp:191 "upload anything written during
   shutdown", but `isLive` is cleared before FFmpeg is told to quit, and nothing lets
   the uploader wait for its exit.

The known limits above name further places where code and text differ: the comment on
pipelining at HttpConnection.cpp:84, and the count that README.md:35 calls "real-time"
and README.md:36 "multi-node ready".

## What could come next

Safety halves of the remaining liveness properties (`SegmentsArrive`, `CloseEndsRow`:
what is not yet done has somebody who will do it), on the inductive invariants that
are there. Accepting connections, with descriptor numbers and the lifetime of
connection objects, is the part of the server that no module models and several
hazards are about.

## Not modelled

* Canvas drawing, shaders, audio mixing and the pages' layout: no state that
  another part depends on.
* The vendored JSON library (three copies, nine tenths of the lines under
  `backend/`), thread pool and radix tree: third party, modelled by what the callers
  use.
* PostgreSQL, Redis, libdatachannel, FFmpeg and the browser themselves: external,
  modelled by what the code sees of them.
* `RedisPool`: the queue, mutex and condition variable of `PgPool` without its
  reconnect; a module would repeat `PgPool` and the loss of a client is permanent, so
  there is no property to hold.
* Accepting connections, descriptor numbers and the lifetime of connection objects:
  what can go wrong there is undefined behaviour or a write to another's socket
  (listed as hazards), which a model without memory and descriptors cannot tell
  from the rest.
* StreamPocket's DELETE route, which no part of the system calls; GET, which reads.
* JWT and hash arithmetic, Base64, the rules for names and addresses, CORS headers,
  route matching: functions of their input without shared state.
* Health and test routes (constant answers); start-up but for `EndAll`, which is
  straight-line code before the threads run.

`PROJECT.json` gives the reason for each component.
