# Verification of MangaHub

TLA+ models of MangaHub (Go: HTTP API, TCP sync server, UDP notification server,
WebSocket chat, gRPC service, in-process broker, SQLite), checked with TLC and, where
it matters most, proved with TLAPS. File and line references are to `src/`.

Contents: [the system](#the-system), [modules](#modules-and-how-they-read-the-code),
[runs](#runs), [fairness](#fairness), [findings](#what-the-violation-runs-show),
[proofs](#proofs), [not modelled](#what-is-not-modelled), [plan](#plan).

## The system

`cmd/api-server/main.go` starts five servers as goroutines of one process. They share the
SQLite database and one broker (`protocol.Default()`).

| Component | State | Operations | Interacts with |
|---|---|---|---|
| broker, `pkg/protocol/broker.go` | two maps of channels (buffer 64) under one `RWMutex` | Subscribe, Unsubscribe, Publish, for progress and for notifications | called by HTTP and gRPC handlers and TCP readers; read by the TCP and UDP broadcast loops |
| chat hub, `internal/websocket/hub.go` | rooms under an `RWMutex`, a `send` channel (32) per Client, rows of `chat_messages` | join, readPump, saveMessage, broadcastToRoom, writePump, leave | its connections and the database |
| TCP sync server, `internal/tcp/server.go` | sessions under an `RWMutex`, a mutex and writer per session | Start, Stop, handleConn, broadcastLoop, send | broker, both ways; its peers |
| UDP notification server, `internal/udp/server.go` | registered addresses under an `RWMutex` | register, unregister, ping, broadcastLoop, Stop | broker (reads); datagrams |
| HTTP API, `internal/httpapi/server.go` | none of its own | register, login, search, library, progress, rating, admin | repositories, auth, broker (publishes) |
| gRPC service, `internal/grpc` | none of its own | GetManga, SearchManga, UpdateProgress | manga repository, broker (publishes) |
| manga repository, `internal/manga` | tables `manga`, `user_progress` | Upsert, Search, AddToLibrary, UpdateProgress, UpdateRating, RemoveFromLibrary, reads | database |
| user repository, `internal/user` | table `users` | Create, lookups | database |
| auth, `internal/auth` | signing secret | hash, issue and parse tokens, middleware | HTTP, TCP, WebSocket |
| database, config, models | schema and constraints; settings; records | open | everything |
| CLI, `cmd/cli` | the file `~/.mangahub-session.json` | register, login, logout, commands for the session found, tcp:sync | HTTP, gRPC, TCP, UDP, WebSocket |
| mains, `cmd/*-server`, `cmd/seed` | the process: servers' goroutines, signal, deadline | start, stop, close the database, exit; a loop of Upsert | the servers |

What makes each of them correct, and what is hard about it:

- **Broker.** Any goroutine may publish while subscribers register and leave. No send may
  meet a closed channel, although the channel is closed after the lock is released; each
  publisher's updates stay in order; loss happens at a full channel only; a publication
  never blocks on a subscriber.
- **Chat hub.** Two goroutines per connection, and broadcasts that run in the goroutine of
  whoever causes the event, after the lock is released. Order per sender, no message lost
  between the replayed history and the live events, slow members delay nobody, no
  goroutine or member stays behind. Database calls, reads and writes can fail.
- **TCP server.** Handlers, one broadcast loop and Stop work on the session map and the
  sockets. A session is shown exactly its user's updates, from registration on; Stop gets
  through to what is stuck in a write; sockets are not written by two goroutines at once.
- **UDP server.** Datagrams are lost, repeated and reordered; registrations never expire;
  genres are stored and never read.
- **HTTP, gRPC and the repositories.** Handlers check, write and publish in separate steps:
  check-then-act on the chapter, write order against broadcast order, two registrations of
  one name, a foreign key between a lookup and an insert.
- **Accounts.** Registration is a SELECT and an INSERT that others may come between, and a
  read-back that may fail after the account is made; a login is matched against two
  columns. Names and addresses are given once, answers are true, owners get in.
- **CLI.** The session file is truncated and then written, without a lock, by any number of
  shells. A command acts for an account that exists or for nobody.
- **From end to end.** An update passes four goroutines between the stored row and the
  printed line. What a session was shown last should be what the library holds.
- **Lifecycle.** Servers start as goroutines, and a signal may stop them at any moment,
  also before they listen. The database must outlive the requests, and the process must
  end; hijacked WebSocket connections are not waited for.

`PROJECT.json` lists every hazard at its line with the properties that cover it.

## Modules and how they read the code

| Module | Is |
|---|---|
| `LossyFeeds` | the abstract promise of the broker to each subscriber |
| `Broker` | `broker.go`, one step per lock region and channel operation; refines `LossyFeeds` |
| `ChatRooms` | the abstract promise of the chat: what a connection is shown, and in which order |
| `ChatHub` | `hub.go`, two goroutines per connection; refines `ChatRooms` |
| `UserFeeds` | the abstract promise of the TCP server to the sessions of several users, who may be blurred an update while they are greeted |
| `TcpServer` | `tcp/server.go`: accept loop, handlers, broadcast loop, Stop, peers; refines `UserFeeds` |
| `MailingList` | the abstract promise of the UDP server: each notice goes once to those on the list at one moment, and only to a flaky reader may it fail to get through |
| `UdpServer` | `udp/server.go`: read loop, broadcast loop, Start, Stop, any datagrams; refines `MailingList` |
| `ProgressStore` | the abstract promise of the progress handlers: rows, what is owed to the sessions, what they saw last |
| `Library` | tables `manga` and `user_progress` with the HTTP, gRPC and TCP handlers that write them or publish progress; refines `ProgressStore` |
| `Directory` | the abstract promise of registration: accounts are added one at a time, under names and addresses no other has |
| `Accounts` | register and login over table `users`; refines `Directory` |
| `Cli` | `cmd/cli` in front of `Accounts`: shells and their session file |
| `Multicast` | the abstract promise of the sync: whoever joins is shown every later update, in order, once, up to one that is blurred to it while it is greeted |
| `ProgressSync` | handlers, the broker's channel, the broadcast loop and tcp:sync clients together; refines `Multicast`, and `ProgressStore` with one row |
| `Lifecycle` | the mains of `cmd/api-server` and of the four standalone servers |
| `MCBroker`, `MCChatHub`, `MCTcpServer`, `MCUdpServer`, `MCLibrary`, `MCCli` | model values, functions and symmetry for TLC |
| `BrokerProofs`, `ChatHubProofs`, `TcpServerProofs`, `UdpServerProofs`, `LibraryProofs`, `CliProofs`, `ProgressSyncProofs`, `LifecycleProofs` | the theorems |

Operators whose comment begins with "Mutant:" are plausible wrong versions of the action
that follows them. They belong to no specification; each shows that some property notices
the error (`mutants` in `PROJECT.json`).

**Broker.** The two halves of `broker.go` are the same code over two element types; the
model has one. `progressSubs` is the map; a subscriber owns one channel, so the two are
identified. `accepted[s]` is everything the channel of `s` ever took and `received[s]` how
much of it was read: their difference is the buffer. A publisher is `calling` (blocked in
`RLock`), `sending` (inside the range loop, one `Offer` or `Drop` per channel in any order,
as Go's map iteration) or `idle`. The `RWMutex` is Go's: a blocked `Lock` holds off new
readers. `UnsubscribeProgress` deletes under the lock and closes after it, in two steps.
`LossyFeeds` keeps of this only one feed per subscriber, absent, open or closed, to which
fresh updates are added while there is room. The mapping takes a feed to be open exactly
from the locked insertion to the locked deletion.

**ChatHub.** `pc[c]` is the serving goroutine of a connection: `entered` after join's locked
section, `publishing` while it replays (`replay`) and before the read-locked section of
`broadcastToRoom`, `sending` while it serves the collected `todo`, `reading` in readPump,
`leaving` and `removed` on the two sides of leave's locked section, `gone`. `pump[c]` is
writePump. `inbox`, `written` and `closed` are the `send` channel, `db` the rows of a room
in id order. A send on a closed channel is `Panic`; what it does depends on who broadcasts:
out of join net/http recovers it and the connection stays (`ghost`), out of readPump the
deferred leave runs, out of leave the goroutine ends. A message is its sender and its
number; upgrade and token check come before `Join`; a frame that readPump skips changes
nothing. `NewHub` starts over a database that may hold rows (`Past`) of connections of an
earlier run of the server (`Former`), which are gone. A write may fail for `Unwritable`
connections and, once leave has closed the connection, for any (`MayFail`). `base` and
`aborted` are history variables of the properties. `ChatRooms` keeps a guest's `stage`, what
it said, the rows and what each was shown. The mapping (`Stage`) takes a connection to be `in`
from join's locked section to leave's, `leaving` until its channel is closed, `left` after; a
panicked join changes nothing in it.

**TcpServer.** `pc[c]` is handleConn: `auth`, `registered` (in the map, welcome not yet
begun), `welcoming`, `serving` (in the read), `answering` (before the session's mutex),
`writing` (holding it), `leaving`, `closing`, `gone`. `loop` is broadcastLoop with the
update `taken` last, the collected `targets` and the session it serves (`current`). Of the
broker only the server's own channel appears: `log` is all it ever took. A publication
enters it if there is room and the server is subscribed, and is dropped otherwise
(that this is what the broker does is `Broker`'s subject). A write ends at once unless the peer has stopped
reading (`stalled`: the socket buffers are full), then only when the socket is closed,
because `send` sets no write deadline. handleConn writes the welcome without the session's
mutex, so a broadcast may use the session's `bufio.Writer` at the same time (`Overlapped`):
that line may then be written, torn, written twice or lost, and the writer may be left with an
error (`jammed`), after which every write to the session fails at once. The model says no more
of such a line than that it was `raced`; it is not in `got`. Lines that handleConn's reader
has buffered are still handled after the connection failed, so `ReadProgress` asks for no
sound connection. `raced`, `got`, `since` and `late` are history variables.
`UserFeeds` is mapped onto `log`, the map, `since`, `raced` and `got`: a reader has joined
while its session is in the map, is greeted until its welcome is written, and is blurred what
was raced. A session that registers while an update is received but not yet
collected may still be shown it, so `since` is then the update before.

**UdpServer.** A client may send what it likes and the network loses, repeats and reorders
it, so readLoop may read any datagram at any moment: the model enumerates them instead of a
network. `RegisterClient` and `UnregisterClient` are the two that change the map. `loop` is
broadcastLoop, `targets` the addresses collected under the read lock and served after it.
The broker appears as in TcpServer: `log` is what its channel ever took, `taken` how much
of it was received. What is sent is followed to the socket (`sent`), not to the client. A
WriteToUDP fails on the closed socket and, for the addresses in `Unreachable`, may fail at any
time: broadcast logs it and goes on (udp/server.go:171-173), and the notification is lost to
that address.
Of a notification only its manga's genre is kept. `since` and `gone` are history
variables: where the log stood when an address came, and how much of it had been received
when it left. A datagram is handled as it is read; one that Stop finds half handled only
changes a map that nobody reads any more. `MailingList` knows a notice as out once its
targets are collected, so `round` is one behind `taken` while the loop is collecting; its
`line` is the socket: not yet opened, open, closed.

**Library.** A worker is the goroutine of a request. `pc` is where it stands between its SQL
statements: `check` and `find` are `GetByID`, `update`, `insert`, `delete`, `rate`,
`upsert` the statements, `publish` the call of the broker. Each statement is atomic and may
`Fail`; requests of any user and kind interleave. `Accepted` is what a handler's
validation lets pass, `References` the foreign keys, which hold for an insert whatever the
lookup has found. A manga is its `total_chapters`, a row its chapter and rating; titles,
texts, the reading status and the time are left out. `Registered` are the users with a row:
a token, or a gRPC request, may name another id. Of the publications for a key the last one
is kept (`shown`). `disturbed`, `unchecked` and `relisted` are history
variables that hold the exceptions of the properties. No code deletes a manga or a user.
`ProgressStore` forgets the statements, the checks and the mangas: `chapter` is what the
rows hold, `owed` what workers have stored and are about to publish, `last` is `shown`,
`loose` is `disturbed`, and `Listable` are the keys of registered users. There an update
finds its row or does nothing, and whoever stored publishes what it stored, once.

**Accounts and Directory.** A worker is the goroutine of one request; `pc` is the statement it
comes to next, or the answer it is writing. `Normal` trims and lowers as `Create` does,
`Credentials` lowers as `GetByUsername` does, which trims nothing; both functions, and what
`ParseAddress` accepts, are constants. Names and addresses share one set, since a login may
give either and a name may be somebody's address. The password stands for its hash and the
name for the id, which is unique with it. `owners` is a history variable: whose password a
login gave when it came in. The mapping to `Directory` forgets the statements: a request is
`waiting` until its INSERT, `added` until it is answered.

**Cli.** The shells are the workers: a command that posts a request waits for its answer, or
is killed, and then the request runs on. A session's text is its account, and a file is the
text written last and its length, so that a torn write over a longer text shows as a
length that does not parse. `Open` is the truncation and `Write` the writing of
`os.WriteFile`; `handles` are the commands that have the present file open, for a removed
file is no longer the one they write. `last` and `disturbed` are history variables.

**ProgressSync and Multicast.** The composition: `UpdateProgress` and `Publish` are the two
steps of Library's handlers, `log` and `taken` the server's channel as in `TcpServer`,
`lines` what was written to each connection and `read` how much of it the client has
printed. A session is `greeted` from the locked insertion in the map until its welcome is
written, then `live`, until it is `closed`; the client's dial and token come before. A send to
a greeted session may share the writer with the welcome: the session is then `raced`, and from
that update on nothing is followed of it here, as the line may be lost or doubled and the
writer left with an error. `Multicast` says the same of a reader that is greeted and blurred.
It has one user and one manga, and clients that read; checks, the broker's lock and
stuck writes are the subject of the parts. `start` is where the feed begins for a session:
an update received but not yet collected is not over for it. `disturbed` holds the
exceptions of `LastLineIsRow`. To `ProgressStore` its one row is all there is, `owed` is what `Pending`
handlers wrote, and `last` the end of the log.

**Lifecycle.** A behaviour is one process of one `program`. `main` is where its shutdown
stands: the name of the server being stopped while one is. `server` is how far the goroutine
of each server has come: net/http looks for a shutdown, listens, and looks again
(`starting`, `binding`, `bound`), the others set the field that Stop reads when they bind.
`told` are servers whose Stop found them, `missed` the others. `open` are the requests that
net/http and grpc-go wait for, `chats` the connections that the hub has hijacked. In the
standalone programs `main` follows the goroutine that stops the server; main itself returns
when Start does. `s.grpcSrv`, `s.listener` and `s.conn` are written and read without
synchronisation: a Stop that reads the field too early is a Start that wrote it late.

## Runs

| Run | Module and cfg | Asks | States |
|---|---|---|---|
| `broker` | MCBroker, `MCBroker.cfg` | types, no send on a closed channel, bounded loss, refinement of `LossyFeeds` (which has the order per publisher in it), a publication returns although nobody receives | 0.5 million |
| `chat` | MCChatHub, `MCChatHub.cfg` | types, no closed channel in a room, refinement of `ChatRooms` (own room only, live events in order and once, nothing after the close), replay in order, nothing between replay and live events; broadcasts end, a connection's two goroutines end together | 296 thousand |
| `tcp` | MCTcpServer, `MCTcpServer.cfg` | types, refinement of `UserFeeds` (own updates only, in order, no gap but what was raced), none else missed; Stop ends sessions and the loop | 575 thousand |
| `udp_server` | MCUdpServer, `MCUdpServer.cfg` | types, refinement of `MailingList` (each notification once, in order, to those registered), none missed, none after leaving, Stop ends both goroutines | 105 thousand |
| `library` | MCLibrary, `MCLibrary.cfg` | types, foreign keys and the JOIN, chapter within the total, last chapter shown is the one stored, refinement of `ProgressStore` | 0.94 million |
| `cli` | MCCli, `MCCli.cfg` | types, refinement of `Directory`, owners get in, a command acts for an account, a login that had the file for itself stays | 1.2 million |
| `progress_sync` | ProgressSync, `MCProgressSync.cfg` | types, refinement of `Multicast` with its fairness, the last line printed is the row | 886 thousand |
| `lifecycle` | Lifecycle, `MCLifecycle.cfg` | types, the database outlives the requests, a signalled process ends | 215 thousand |
| `chat_ghost` | MCChatHub, `MCChatHubGhost.cfg` | violated: a member that nobody serves | |
| `tcp_stalled_peer` | MCTcpServer, `MCTcpServerStall.cfg` | violated: one silent peer stops the broadcasts of all | |
| `tcp_welcome_race` | MCTcpServer, `MCTcpServerWelcome.cfg` | violated: two goroutines write to one session | |
| `udp_genres` | MCUdpServer, `MCUdpServerGenres.cfg` | violated: a client is sent a genre it did not ask for | |

**Bounds.** Buffers of 64 and 32 become one or two slots, which makes them fill within a
few steps. Two publishers, one of which calls twice, and two subscribers give every
interleaving of a loop with a registration, an unregistration and another loop. The chat's
history of 20 becomes 2, over a database in which an earlier run left two rows: a newcomer's
replay has two rows, which could be in the wrong order, and the message of the speaker makes
one of them fall off. Two chat connections suffice for everything that happens between a sender
and a receiver: history against live events, a slot that is full, a writer that fails. One of
them speaks, once, and the other leaves; that a second live message could overtake, or a second
leaver disturb, is excluded by `ChatHubProofs`, and the ghost run has the leaver and the
newcomer that the panic takes. Two TCP sessions of two users and two updates give a broadcast
that is for one and not for the other, an update to miss before the one that is shown, a
welcome that meets either of them, a peer that talks and stalls (`Talkers`, `Stallers`) and one
that resets. There Stop comes after Start has opened the listener; that it may come before
(`EarlyStop`) is in the other TCP runs and in `lifecycle`.
Two UDP addresses and two notifications are the one under way and the next; a write may fail
for one of the addresses. In the library
two requests at a time meet on one manga, with a total of none or 1, chapters below zero,
within and beyond it, a rating at and beyond the limit, and a registered and an
unregistered user; as requests follow each other without bound, a row is added, updated,
removed and added again in every order. Two shells, two names that may be addresses, one
that trims to nothing, and two lengths of session give a registration that overtakes
another, two accounts that match one login, and a torn file; shells and passwords are
interchangeable (`Symmetry`), which is sound because the run checks no liveness. In
`progress_sync` two handlers overlap, two sessions come and go between two updates, either of
which may meet a welcome, and a channel of one is full. Three clients, of which one stalls, meet each of the five programs.
`Says`, `MaxPublish`, `MaxUpdates` and `MaxNotes` bound the number of messages; `Leavers`,
`Unwritable`, `Stallers`, `Resetters` and `Unreachable` name the connections and addresses that
may fail and `DbFails` the chat connections whose statements may. Three connections at a time are beyond TLC in reasonable time;
the theorems hold for any number. Deadlock is checked in `cli` and `progress_sync`; elsewhere publishers, peers, requests
and the process may stop for good, and their messages are bounded.

**What holds.** `NoSendOnClosed` holds in the broker because a publisher ranges under the
read lock, over channels that are still registered, and the deletion needs the write lock;
the close may then come late. The hub has no such lock around its sends, and there the
same pattern panics (below); the room itself never holds a closed channel (`OpenMembers`).
`NoGap` says what a member is spared: an item missing from its channel is still on its
way, was dropped by a full channel, or was the last message of a sender whose broadcast
panicked. `NoMissedUpdate` relies on registration preceding the collection, so that
an update that enters the channel after the one finds the session in the other. It counts a
session from its registration until its handler leaves, whether or not the map holds it, and
excepts what the welcome race can spoil: an update written together with the welcome, and a
session whose writer that left with an error. `FeedsSpec` has the same exception, and
`FeedSpec` of `ProgressSync` has it from the raced update on; that the case occurs is the run
`tcp_welcome_race`. `StopEndsSessions` includes sessions stuck in a write: Stop closes sockets under
the map's lock without taking a session's mutex. `NoMissedNotification` holds although a
client may register again while it is being served, except to an address that a write fails
for, and `GoneIsGone` although the targets
are served without the lock: at most the broadcast under way still reaches a client that
has left. `WithinTotal` names the ways around the check: addToLibrary and gRPC do not look at
the total, and adminAddManga may change it, also between a handler's check and its UPDATE.
`ShownIsStored` names what the two steps of an update cost: if two overlap on a key, or the row
is added again, or a TCP client reports a chapter of its own, the sessions may be left with
a chapter that is not the stored one; the next update that runs alone repairs it.

`DirectorySpec` holds by the UNIQUE constraints, not by the SELECT: two registrations may pass
it together, and the second is then answered 500 where 409 was meant; a failed read-back
leaves an account that its owner was not told of, and so does a killed command.
`OwnerGetsIn` names why an owner can be refused: the name of one account may be the address
of another, and `GetByUsername` takes either row. `ActsForAccount` and `LoginKept` say that
a session file may be empty or torn after overlapping or killed logins, that no command
takes it for somebody's, and that the next login alone repairs it. `FeedSpec` is the
promise of README.md:72 as far as it can be kept: what the channel takes, every session
prints, unless its welcome was in the way; `LastLineIsRow` adds when that is the stored chapter. `DbOutlivesRequests` and
`ShutdownEnds` name what the order of main.go:110-116 does not cover: an HTTP request past
the five seconds, a server bound after its Stop, a gRPC call that stalls, for which
`GracefulStop` has no deadline; and of hijacked chat connections they say nothing, for those
may meet a closed database. A standalone server told to stop before it was bound serves on
and has used up its signal.

## Fairness

Only the program's own steps are fair. Peers, publishers and clients owe nothing: they may
never connect, read, speak or leave.

- Broker: a goroutine past its call keeps running, and a free lock is granted. Receiving is
  not fair, which is the point of `PublishReturns`.
- Chat hub: the serving goroutine's steps that wait for nobody, and the writer's, which
  `SetWriteDeadline` (hub.go:227) bounds. `ReadDeadline` is strongly fair: once writePump
  has stopped there are no pings, so no pongs, and the 60 s deadline (hub.go:180), which
  only pongs move, passes. This is asked of `Leavers` only; a peer outside them may keep the
  deadline away, for instance with pongs that nobody asked for. `PumpsEndTogether` speaks of
  the same connections.
- TCP server: the handlers' and the loop's own steps; the 10 s deadline (server.go:91);
  a write, only while the peer is not stalled or the socket is closed. Strong fairness of
  three steps together, which is weaker than of each: `LoopStop`, because a `select` chooses at
  random among ready branches and takes the stop branch eventually; `Lock`, because Go's
  `sync.Mutex` hands the lock to the first waiter after a millisecond, so that the loop cannot
  be starved by a handler that answers one message after another; and `ReadError`, because
  the lines that a reader has buffered before its connection failed are few. Each of them is
  taken a bounded number of times in the run, so that all three come to pass.
- UDP server: the loops' own steps, Stop's second half, and the failing read on the closed
  socket. Strong fairness of `LoopStop`, as above. Clients, publishers and the network owe
  nothing.
- ProgressSync: the broadcast loop, and clients that read and print what they were sent.
- Lifecycle: every goroutine of the process, the clock of the deadline, and requests that can
  end: HTTP ones all do, by the server's timeouts (main.go:43-44), the others unless their
  client stalls. No signal has to come.
- Library, Accounts and Cli: safety only; a request or a command may stop anywhere.

The TCP server's `StopEndsLoop` names its exception: a connection that authenticates after Stop's locked
section registers in the fresh map, is closed by nobody, and can hold the loop in a write.

## What the violation runs show

- `chat_ghost`: `broadcastToRoom` sends after the lock (hub.go:142) to a channel that leave
  has closed (hub.go:117). When the broadcast announces a join, the recovered panic leaves
  the new connection a member without readPump and writePump, for ever.
- `tcp_stalled_peer`: under `FairSpec`, a peer that stays connected and stops reading holds
  the only broadcast loop in `send` (server.go:216-227); sessions behind it, of any
  user, wait until the server stops.
- `tcp_welcome_race`: the welcome (server.go:128) is written with the session already in
  the map and without its mutex, concurrently with a broadcast to it on one `bufio.Writer`.
  Bytes of both lines can be lost, doubled or mixed, and the writer can be left with an error
  that fails every later write; the other runs take all of this into account.
- `udp_genres`: a client's genres are stored (udp/server.go:110-114) and `broadcast` collects
  every address without them (udp/server.go:166). README.md:20 promises "connectionless client
  registration with genre-based subscription, broadcast notifications to all registered
  addresses": the code does the second and has no use for the first.

## Proofs

The theorems hold for all values of the constants, under the assumption each module states
(`BrokerAssumption`, `ChatHubAssumption`, `TcpServerAssumption`, `UdpServerAssumption`,
`LibraryAssumption`, `AccountsAssumption`, `ProgressSyncAssumption`,
`LifecycleAssumption` and the like): positive capacities, limits and lengths, bounds that are
naturals or subsets, and absent rows, sessions and files that are none.

**`BrokerProofs`.** `NoSendOnClosed`, `PublisherOrder`, `NoSilentLoss`, `NoCircularWait`,
`NothingOld` and the refinement `Spec => FeedsSpec`. None is inductive alone. `IInv` adds: a
publisher has channels ahead of it only while sending, and all of them are registered
(`LoopUnderLock`; here the lock is used); the map holds exactly the subscribers between
insertion and deletion (`Registered`); buffers are within bounds; no channel holds an update
its publisher has not published or has yet to offer to it (`NothingAhead`, which yields
order); and the loss bound for calls under way (`LossBound`). In the refinement every step
maps to a step of `LossyFeeds` or leaves its variables alone. `NoCircularWait` is the safety
half of `PublishReturns`: a call that waits for the read lock waits for a subscriber that can
take the write lock or for a loop, and a loop can always offer or drop. `NothingOld` needs
that a subscriber's channel is empty, and the calls known to it begun, before it is registered
(`Registering`).

**`ChatHubProofs`.** `OpenMembers`, `SenderOrder`, `HistoryOrder`, `NoGap`. `IInv` adds what
each program point implies (`Lifecycle`), that no channel holds a live event its sender has
yet to send there (`Behind`), that rows are in their authors' rooms (`DbRooms`), and that
what is left of a replay comes after what was replayed (`Replaying`). `RoomsInv` adds what
the refinement `Spec => RoomsSpec` and the writers need: who has a writer at which point,
what a connection's last act was, and that events meet their own room only. From it also
`WritersMatch` (a served connection has a writer, one that left has had one whose channel is
closed), `ClosedDrains` (a closed channel takes nothing any more and has ever less left to
write: with it, the safety half of `PumpsEndTogether`) and `GhostMet` (a member that nobody
serves was announcing its join when somebody of its room left in the same run of the server,
so that the finding
`chat_ghost` has this cause and no other).

**`TcpServerProofs`.** `MapIsExact`, `OnlyWelcomeRaces`, `StopReached`, `OwnUpdatesOnly`,
`NoMissedUpdate`, `Spec => FeedsSpec`, and `TypeOK`, which says that a session has only been
shown updates that were received. `IInv` adds that a connection being authenticated is open
and unknown to the map (`NotRegistered`), that the map misses no open session but those
about to enter or to close (`MapComplete`), and what the loop works on (`LoopState`). The
argument for `NoMissedUpdate` is that a session enters the map with `since` at what was
broadcast, that collection takes every session of the user, that a session whose handler has
not left and whose socket is open is in the map (`MapComplete`), and that its write, when it
comes, is either on its own and succeeds, or is `raced`, or finds the writer `jammed`, which
only a raced write leaves. `OnlyWelcomeRaces` says that the race of
`tcp_welcome_race` needs a welcome: any two other writes exclude each other by the mutex.
`StopReached` is the safety half of `StopEndsSessions` and `StopEndsLoop`: what Stop leaves
behind authenticates, closes, or registered after it. In the refinement a write to a session
is a `See` of its next update, and one that meets the welcome a `Greet` that blurs it; that none of its user's lies before it is the invariant of
`NoMissedUpdate`.

**`UdpServerProofs`.** `SentInOrder`, `NoMissedNotification`, `GoneIsGone`,
`Spec => ListSpec`. `IInv` adds that there are targets only during a broadcast (`LoopState`),
that what was sent was received, and that the notification under way has not been sent to
those still to be served (`SentBefore`), which gives order and once, for addresses that
writes fail for too; and that a target which
is not registered any more left during this broadcast (`GoneDuring`).

**`CliProofs`.** `OwnerGetsIn` and `DirectorySpec` of `Accounts`; that a client's steps are
steps of `Accounts` (`CliImplementsAccounts`), so that both hold behind the client;
`CliTypeOK`, `ActsForAccount`, `LoginKept`. The invariant of the handlers (`AccountsInv`) says
of a login what was found and whose password it has; for the refinement, each step of a
request is a step of `Directory` or none, and a refused INSERT is an answer `failed` that adds
nothing. The client's adds that sessions held or stored are those of accounts and that an
unwritten text has no length (`SessionInv`), and that an undisturbed file is open at most
once and empty while it is (`FileInv`).

**`ProgressSyncProofs`.** `TypeOK`, `LastLineIsRow`, and that `Spec` implements `Multicast!Spec`
and, with a single row, `ProgressStore`.
`LinesInv` is the heart: the lines of a session that has joined and is not raced are the log
from `start` on, up to the update the loop works on, which is there if the session is no target
any more; those of one that is raced are the beginning of that. The store's
part says that at rest the last of an undisturbed log is the row.

**`LifecycleProofs`.** `TypeOK`, `DbOutlivesRequests`. `StopInv` says what each stop leaves
behind: past HTTP's, no request but after the deadline; past gRPC's, none unless it was
missed; both stay so because a server that was told accepts nothing. `StopOrder` and
`ToldShut`: each server is told in main's order, once, or missed, none is passed over, and one
that was told does not serve again. `StopGoesOn` and `ToldDrain` are the safety half of
`ShutdownEnds`: a signalled process has a step to take unless one of the two named
exceptions holds it (`CanGoOn` lists the guards, as ENABLED cannot be reasoned about), and
the requests it waits for can only become fewer.

**`LibraryProofs`.** `NoOrphans`, `WithinTotal`, `ShownIsStored`, `RatingSurvives`,
`Spec => StoreSpec`. `IInv` adds
what each point of a handler says of its request (`Serving`), that a chapter past the check is
still within the total unless that has changed (`Checked`), and, for `ShownIsStored`, that
the chapter of an undisturbed row has been published or that exactly one handler is about
to publish it (`ShownOrPending`). `RatingSurvives` is an action property and follows from
`TypeOK` and `Serving`. For the refinement it has to be known besides that what a handler
carries is a chapter that a request may carry (`Carried`).

Proved and in no run: `PublisherOrder`, `SenderOrder`, `OwnUpdatesOnly` and `SentInOrder`,
because the refinement in the same run implies them; `RatingSurvives`; the `StoreSpec` of
`ProgressSync`; and the invariants that the proof modules define, such as `NoCircularWait`,
`WritersMatch`, `StopReached` and `StopOrder`.

**Model-checked only.** Liveness under fairness and ENABLED are out of the prover's reach: the
liveness properties of all runs, and `FeedSpec` as far as it says that a session is shown
all there is. Of most of them the safety half is proved, as said above; not of
`BroadcastReturns`, which says no more than that steps are taken, nor of the UDP server's `StopEndsReader` and `StopEndsLoop`.
Induction over data is too, as the library's induction theorems take an operator as a
parameter, which the installed provers cannot instantiate; and RECURSIVE operators cost
the SMT backend. The models therefore have none: queues are append-only sequences with an
index, and order is stated over indices.

## What is not modelled

- Searches and other reads: `Search` filters and pages with SQL's LIKE and LIMIT, reads one
  statement and changes nothing; nothing concurrent is decided by it.
- The life of a token: 24 hours, after which every request with it is refused; until then it
  stands for its account, which no code removes.
- The WebSocket and UDP commands of the CLI, which are the peers of `ChatHub` and `UdpServer`.
- The broker between processes: there is none. A standalone TCP or UDP server subscribes to
  a broker in its own process, on which nobody publishes what the API stores.
- What the UDP server answers to a client (registered, pong, error).
- The composition with more than one user and manga, or with peers that stop reading: the
  parts have them one by one.
- JSON, HTTP, JWT and bcrypt, SQL texts, logging, CLI output: libraries and formatting.
- The seeder's loop (each turn is `Upsert`) and the values of the configuration.
- Accept failing for another reason than Stop: TCP only logs it and goes on, net/http and
  grpc-go end on an error that lasts.
- The bytes that the data race on the shared writer leaves: a raced line may be whole, torn,
  doubled or missing, which the models do not tell apart, and a panic in `bufio` on indices that
  the race has spoilt, which would end the process, is left out.

## Plan

1. Done: `LossyFeeds`, `Broker`, `BrokerProofs`.
2. Done: `ChatHub`, `ChatHubProofs`.
3. Done: `TcpServer`, `TcpServerProofs`.
4. Done: `UdpServer`, `UdpServerProofs`.
5. Done: `Library`, `LibraryProofs`.
6. Done: `Multicast`, `ProgressSync`, `ProgressSyncProofs`.
7. Done: `Directory`, `Accounts`, `Cli`, `CliProofs`.
8. Done: `Lifecycle`, `LifecycleProofs`.
9. Done: `ChatRooms`, `UserFeeds`, `MailingList`, `ProgressStore`, each with the proof that
   its components implement it.
10. Open: proofs about the abstract specifications themselves (in `ProgressStore`, that a row
    that is not loose and of which nothing is owed agrees with its last publication; in
    `Directory`, that names stay unique), from which the components' invariants follow
    through the refinements; what Stop leaves behind in the UDP server.
11. Open: `Search`, limits and paging as pure operators against a reference definition, and
    what a reader sees who pages while manga are added.
