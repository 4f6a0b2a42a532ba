# Verification of go-ws

go-ws is a websocket server for chat messages. Several server processes share
an etcd, which knows on which server a client id is online, and a RabbitMQ,
which has one durable queue per server. This directory holds TLA+ models of the
server, the TLC runs that check them and machine-checked proofs.

## 1. Inventory

| part | code | state | operations |
|---|---|---|---|
| Hub | `hub/hub.go` | `Clients`, four unbuffered channels | `Run`, `ServeWs`, `RegisterClient`, `RemoveClient`, `SendMessage`, `ReceiveMessage` |
| Client (a session) | `hub/client.go` | two channels of 2048, `ToOffline`, the connection; the package's `unOnlineMutex` | `readPump`, `writePump`, `SendMessage`, `ReceiveMessage`, `Close` |
| etcd wrapper | `etcdService` | none; keys and leases in etcd | `SetLease`, `CancelLease` (`SetKeepLiveLease`, `Get`: no caller) |
| RabbitMQ wrapper | `rabbitMQService` | none; queues and unacknowledged deliveries in RabbitMQ | `PublishWorking`, `ReceiveWorking` (the other modes: no caller) |
| Engine | `engine`, `main.go` | handlers, `IsServerHandlerModel` | `runHandlers`, `SendHandler`, `ReceiveHandler` |
| Log file | `core/logx/rotatelogger.go` | the file, the backup's name, a channel, `done` | `Write`, worker, `rotate`, `postRotate`, `Close` |
| Log writers | `core/logx` (`logs.go`, `writer.go`, `limitedexecutor.go`, `richlogger.go`) | the atomic writer, `logLevel`, `disableStat`, `setupOnce`, the limiter's `lastTime` and `discarded` | `SetUp`, `SetWriter`, `AddWriter`, `Reset`, `Close`, `Disable`, `SetLevel`, the logging functions, `logOrDiscard` |
| Mapping | `core/mapping` | `optionsCache`, `defaultCache`, `structRequiredCache`, the shared `emptyMap` | `Unmarshal` with its tags, options, valuers, defaults |
| Configuration | `core/conf`, `core/encoding` | none of its own | `LoadFromJsonBytes`, `LoadFromYamlBytes`: field infos, lower-casing, `Unmarshal` |
| Helpers | `jsonx`, `lang`, `jwtHelper`, `config`, `wsContext`, `logtest` | none | conversions, dialling |

How the parts interact. `ServeWs` runs in a goroutine per request. It may call
`Close` on an earlier session with the id, makes a `Client`, hands it to
`Hub.Run` through `Register` and starts four goroutines. `Hub.Run` never blocks
for long: it starts a registrar (`RegisterClient`) per session, which inserts
the session into `Clients`, puts the route into etcd and renews it every 10
seconds until `ToOffline`, and a goroutine per message. `Close` holds a mutex
that all sessions of the process share while it meets first `Hub.Run`, then the
registrar, at unbuffered channels. A message goes from the peer through
`ReadChannel` to `Hub.Run`, by way of etcd to the queues of its targets'
servers, is taken and acknowledged there by the consumer of *any* session of
that server, and goes through `Hub.Run` and `WriteChannel` to the peer.

`core/logx` is used by whoever logs: a logging function reads the level, takes the
writer out of `atomicWriter`, or installs a console when there is none, and
writes; stacks pass a limiter first. The writer of `SetUp` has five rotating files
(`RotatingLog` is one of them). `core/conf` reads a file into a tree of maps,
lower-cases the keys its target type knows and gives it to `core/mapping`, whose
caches and whose empty map outlive the call.

What is hard: the handshakes of `Close` against a second `Close`, a login and a
registration; the map without a lock; channels closed under their senders; the
leases against the ticks; acknowledgements against crashes; a prefix lookup;
rotations that overlap their clean-up or fail half-way; a writer replaced while
others use or replace it; caches keyed by less than what their values depend on,
and maps that results share with them. The full list, with lines, is `hazards` in
`PROJECT.json`.

What makes each part correct:

* sessions: channels are closed once; a takeover waits for its predecessor; a
  session that went offline has no route and gets none back; the route of a session
  online never hangs on a lease older than its last; every end of a connection
  reaches the registrar.
* pumps: both directions are FIFO pipes; a clean end writes what was accepted;
  the sender and the writer end after `Close`; the reader notices the end of the
  connection.
* messages: only targets get one, no more often than copies exist; a copy in the
  queue of a server that consumes is handed on to its end; a server that does not
  end keeps what it took until a client gets it.
* log file: lines are stored in the order they were accepted and are deleted only
  by the rules of the configuration; `Close` writes what was accepted before it.
* log writers: set-up runs once and nobody waits for it for ever; a writer that was
  set stays until somebody replaces it; a disabled log stays shut; a discarded
  stack is justified by one that was written, and is reported.
* mapping and configuration: a result is what document, environment and defaults
  say, whatever was called before; values are within their options and ranges;
  two fields never share a key unnoticed.

## 2. Plan

| order | modules | state |
|---|---|---|
| A | `RouteDirectory`, `HubSessions`, `HubSessionsProofs` | written, checked, proved |
| B | `Pipe`, `ClientPumps`, `ClientPumpsProofs` | written, checked, proved |
| C | `DeliveryContract`, `MessageFlow`, `MessageFlowProofs`, `MessageContractProofs` | written, checked, proved |
| D | `RetainedLog`, `RotatingLog`, `RotatingLogProofs` | written, checked, proved |
| E | `LogWriters`, `LogWritersProofs`, `FoldLemmas` | written, checked, proved |
| F | `FieldTags`, `FieldTagsProofs`, `Mapping`, `DocumentMeaning`, `ConfLoad` | written, checked; the segments of tags proved, the rest is recursive, so out of the prover's reach |
| G | `HubSessions` with a clock | open: lease time against tick, when a session that stays online is unrouted |
| H | `MessageFlow` with the room in the channels of `ClientPumps` | written, checked, proved: the targets that wait behind a client whose channel is full |

Parts with state come first, and among them the server's own. "Proved" is said of
what is safety: liveness is left to TLC.

## 3. Modules and the code

**`RouteDirectory`** is abstract: what the sessions promise about etcd. A
session publishes its own id (`Publish`), retires once (`Retire`), and a route
nobody renews lapses (`Lapse`). After it retired it publishes nothing, and it
never removes the route of another session. A match message may take the key of
any id away from it (`Usurp`, `main.go:69`), until the next `Publish`.

**`HubSessions`** is the life of sessions at several servers. Each session has
two processes, `Serve(s)` (its `ServeWs` call) and `Pump(s)` (its reader), with
control points in `pc`, and a registrar with its control point in `reg`.

| state | code |
|---|---|
| `clients` | `Hub.Clients`; an absent entry and a nil one are the same for `ServeWs`, so both are `Nil` |
| `mutex` | `unOnlineMutex`, one per process |
| `run` | the session `Hub.Run` is removing: between the receive on `Unregister` and the write |
| `reg`, `leaseId`, `granted` | `RegisterClient`, its local `leaseId`, the lease `SetLease` got |
| `leases`, `route` | etcd; a key hangs on the lease of its last put, or holds the `Test` of a match message and hangs on none |
| `closes` | how often the two channels were closed |
| `up` | the process; `log.Fatal`, a panic in a goroutine and a detected map race clear it |

A rendezvous at an unbuffered channel is one action that needs both sides at
their places (`Register`, `CloseUnregister`, `CloseOffline`). `Close(p)` is the
disjunction of its seven steps, with `Target(p)` the receiver; `NilClose` is the
call on the nil client that the second read of the map may return: net/http
recovers the handler, nobody unlocks the mutex. `SetLease` is two actions
(`RegGrant`, `RegPut`), with the lapse of the new lease possible in between;
`CancelLease` succeeds (`RegRevoke`) or only prints (`RevokeFails`). `MatchPut` is
the put of `SendHandler` under the `SourceId` that a client wrote into a match
message, whosever id that is (`SourceIds`). The reader is `"reading"`, or `"stuck"` in
its send to a full `ReadChannel` (`PumpStuck`), from where it sees neither the end of
its connection nor anything else but the close of that channel (`StuckPanics`). That
channel fills after a frame that does not parse, which `ClientPumps` has; here it may
happen to any session at any time. A server does not start again here: its state is memory only, and what is left of it in
etcd is covered by the lapse of leases. Restarts are in `MessageFlow`.

**`ClientPumps`** is one session between the websocket and the hub. `inbox` is
`ReadChannel`, `outbox` is `WriteChannel`, `reader`, `sender` and `writer` are
three of the four goroutines of a session, `post` the hub's goroutines that send to
this client. The fourth, `Client.ReceiveMessage`, touches neither channel and does not
end with its session: it is a consumer of `MessageFlow`.
Frame number *n* is the *n*-th frame the peer sends. `Close` appears from the
point where it is past the mutex and the handshake on; whether it ever gets
there is the subject of `HubSessions`. **`Pipe`** is the abstract direction: out
comes a growing prefix of what went in, until the end stops.

**`MessageFlow`** is a message from the session that sends it to the clients of
its targets. `stage`, `looked` and `group` are the goroutine of
`Hub.SendMessage`: handlers, one `Lookup` per target, then one `PublishWorking`
per server in any order (Go's map order). `queue` is the durable queue of a
server, `consumer` and `held` one `Client.ReceiveMessage` per session ever
accepted (prefetch 1), `jobs` the goroutines of `Hub.ReceiveMessage`. Here
`entry` tells an absent entry from a nil one, since `ReceiveMessage` does.
`outbox` and `writing` are the room in a client's `WriteChannel` and its `writePump`: a
goroutine waits in `JobGive` while the channel is full (`hub.go:127`), the writer
makes room (`WriterTakes`) or is gone after a failed write or ping (`WriterFails`), and
a client that is closed meanwhile is the panic `JobClosedPanics`. A login inserts over
whatever entry is there, as two logins that met at `hub.go:189` do, and `RemoveClient`
may come before the insertion (`LoginRemoved`, `InsertRemoved`).
`Dies` is the end of a process: unacknowledged copies go back to the head of the queue.
It happens in the panics of this module, and in `Crash`, which stands for whatever
else ends a process: an end from outside, `log.Fatal` of `SetLease`, `failOnError`, the
panic of `readPump`, the race on the map. `route` is used as `RouteDirectory` has it; a
match message routes the id it names to `Nowhere`.
**`DeliveryContract`** is the abstract promise: a message is sent once, each
lost acknowledgement makes one more copy, and a client of an id gets the message
at most once per copy and occurrence among the targets.

**`RotatingLog`** is one log file of `core/logx`. `channel` and `closing` are the
channel and `done`; `worker` is the place of the worker in `startWorker`, `write`
and `rotate`, which are one action per file operation and per reading of the
clock: `ShallRotate`, `BackupFileName` and `MarkRotated` read it apart. `posts`
are the goroutines of `postRotate`, from `maybeCompressFile` (`PostOpen` to
`PostRemove`) to `maybeDeleteOutdatedFiles` (`PostList`, `PostDelete`). `dir`
leads from names to files, `logs` and `archives` hold the lines in a file, so
that renaming, removing by name and writing to an open file are what they are in
a file system. Every file operation may fail (`Fail`); the process may end
(`Crash`) and start on what is left (`NewLogger`). `Daily` chooses between the
two rules. **`RetainedLog`** is the abstract promise of the daily rule: lines are
stored in order and stay until they are old enough.

**`LogWriters`** is the writer behind the functions of `core/logx`. A process is a
goroutine in one call, with its place in `pc` and its variables in `local`; a step
is one operation of `sync/atomic` or one under the lock of `atomicWriter`.

| state | code |
|---|---|
| `writer` | `atomicWriter.writer`, as the sequence of writers a `comboWriter` calls; empty is nil |
| `level`, `disableStat`, `once` | `logLevel`, `disableStat`, `setupOnce` |
| `logs` | the five logs that `newFileWriter` opens and `concreteWriter.Close` closes, in their order |
| `lastTime`, `discarded`, `now` | the limiter of the file writer's stack log and its clock |
| `chain`, `shut` | history: which writers have to be in use, and whether a `Disable` still holds |
| `runs`, `dropped`, `announced`, `unannounced` | history: what the limiter let through, dropped and reported |

`SetWriter` is a read of the level (`Guard`) and a store (`Store`), also inside
`SetUp` and `AddWriter`; `AddWriter` first takes the old writer out. A log call is
`CallLog`, for a `Logger` a second look (`Recheck`), `Load`, perhaps `StoreIfNil`,
and a `Write` per writer, which for stacks goes through the limiter: `ReadClock`,
`Compare`, then `Discard` or `SetLastTime`, `SwapDiscarded`, for a count that is not
zero `Announce`, and `Execute`. `Announce` reads the level for the report, which is a log
call of its own inside that one.

**`FieldTags`** parses the tags of struct fields: segments, options, ranges, and what
an option means beside the other keys. A text is a sequence of tokens.
**`Mapping`** is `core/mapping` as a function of what it may read and change: a
record `m` of the heap and the three caches. Maps live in a heap because results,
caches and inputs share them; each has an id. `Fill` is the choice of a filler by
type and `Fields` the walk over the fields of a struct; every other operator is
the function of the same name. A slice that is nil (`NilList`) is not an empty one. A
result is `Done(m, v)`, an `Err`, or a `Boom` where
the code panics. **`DocumentMeaning`** says what a document means for a type with none
of that: no cache, no shared map, no order of fields. It is what results are
compared with. **`ConfLoad`** adds `core/conf` (field infos, their merge and
conflicts, lower-casing, YAML by way of JSON) and is the process: `CallUnmarshal`,
`CallAgain` with a map that was used before, `Load`, and `Write`, a caller that
writes into a map it got.

The MC modules hold the instances for TLC. Definitions marked *Mutant* are not
part of a model: each is the form an action would have with a plausible error,
and `PROJECT.json` names the property that finds it.

## 4. Runs

| run | specification | shows |
|---|---|---|
| `hub_same_id` | `Spec` | two logins with one id, one renewal: types, `ChannelsClosedOnce`, `RetiredUnrouted`, `TakeoverOrder`, refinement of `RouteDirectory` |
| `hub_distinct` | `FairSpec` | two ids at one server: `OnlineRoute`, `DisconnectedGoesOffline`, `UnservedRouteLapses` |
| `hub_lost_entry` | `Spec` | `RegisteredIsInHub` does not hold |
| `hub_stuck_close` | `FairSpec` | `DisconnectedGoesOffline` does not hold with one id in use twice |
| `pumps` | `FairSpec` | types, `ClosedAfterDrain`, both pipes, `PumpsEnd`, `ParsingSessionCloses` |
| `pumps_zombie` | `FairSpec` | `DisconnectCloses` does not hold |
| `flow` | `FairSpec` | types, `ContractSpec`, `KeptUntilGiven`, `HandedOn` |
| `flow_nil` | `Spec` | `OfflineTargetHarmless` does not hold |
| `log_daily` | `Spec` | daily rule with compression: types, `LogInOrder`, refinement of `RetainedLog` |
| `log_size` | `FairSpec` | size rule with a limit of backups: `DrainedOnClose`, `BackupsBounded`, `NewestKept`, `CloseReturns` |
| `log_writers` | `MCSpec` (`FairSpec` from two starts) | types, `SetUpOnce`, `ChainKept`, `DisabledShutsOut`, `FilesWhole`, `DiscardsAccounted`, `DiscardJustified`, `CallsReturn` |
| `conf` | `Spec` | `TypeOK` of heap and caches, `CallsIndependent`, `ResultFollowsInput`, `OnlyMerged`, `ValuesAllowed`, `SkippedStructsLoad`, `ConflictsFound` |

The last column names properties of the module of the run. Four runs end in a
counterexample:

* `hub_lost_entry`: two logins with one id meet at `hub.go:189`, see no earlier
  session and both register. The connection of one ends, its own reader calls `Close`,
  and `RemoveClient` does not look which session it removes: the entry it sets to nil
  is the other's, who stays connected and is no longer found by messages.
* `hub_stuck_close`: the reader of a session and a login both close it. The
  registrar takes one of the two sends on `ToOffline`; the other waits with the
  mutex, and no session of the process goes offline any more.
* `pumps_zombie`: a frame that is not JSON ends `Client.SendMessage`; when the
  peer goes on sending, `readPump` blocks in a full `ReadChannel` and never
  learns that the connection ended.
* `flow_nil`: `RemoveClient` leaves a nil entry, which the presence test in
  `Hub.ReceiveMessage` lets through; a message for an id that logged out ends
  the server.

For each of them there is a theorem on what it takes. `VainWait`: a `Close` that
waits for a registrar that has left is the second `Close` of its session, and
`VainWaitLasts`: nothing ends it. `RegisteredInHub` and `NobodyKeepsMutex`: with one
session per id and server neither of the first two happens. `ReaderServed`: a reader
blocked in `ReadChannel` has a running sender unless a frame did not parse.
`LeaversOnly`: the panics of `Hub.ReceiveMessage` wait only where a session of the target
has started to leave.

Some properties leave a case out because the code has it otherwise:

* `OnlineRoute` says what etcd holds, which is not always the route of the session:
  after a lease that ran out before its renewal there is nothing (the tick and the
  lease time are both ten seconds), and after a match message with this `SourceId` there
  is `"test"`, until the next renewal. `RouteDirectory` and `UnservedRouteLapses` are
  about routes that lead to sessions; the `"test"` of an id nobody renews stays for ever.
* `DisconnectedGoesOffline` leaves out a session whose reader is stuck in a full
  `ReadChannel`: it never goes offline, which is what run `pumps_zombie` shows, and for
  this it takes no second session of the id.
* `PumpsEnd` is about the sender and the writer. `Client.ReceiveMessage` goes on after its
  session, and so do its connection to RabbitMQ and, with one id in use twice, a second
  caller of `Close`.
* `HandedOn` leaves out a server all of whose consumers have lost their connection to
  RabbitMQ, since nobody dials again, and a goroutine that waits at a full channel whose
  writer is gone, until `Close` of that client ends the wait (and the server,
  `hub.go:127`). The targets behind such a client wait with it: `HeldUp`.
* `KeptUntilGiven`: a server that ends loses what it has acknowledged and not yet
  given; the acknowledgement comes before the hand-over.
* `NewestKept` and `RetainedLog` do not speak of names under the size rule: two
  rotations within one second give two backups one name, and the second replaces
  the first, although without a limit backups are to be kept for ever
  (`config.go:33`).
* `ChainKept` leaves out an `AddWriter` during which another call replaces the
  writer: of two overlapping calls one loses its writer, and `Close` misses the
  writer that an `AddWriter` holds.
* `DisabledShutsOut` leaves out a `SetWriter` that had read the level, a `SetUp` or
  `SetLevel` after `Disable` (set-up stores its level twice), and consoles: after
  `Disable` an `AddWriter` leaves no writer at all, so an `Alert` installs a console.
  It does not leave out `Reset`, and there the code and its comment disagree: "Reset
  clears the writer and resets the log level" (`logs.go:284`), but the function swaps the
  writer and does no more. After `Disable` and `Reset` every `SetWriter` and `AddWriter` is
  still refused; only `SetLevel` or `SetUp` ends a `Disable`.
* `SetUpOnce` and `CallsReturn`: after a `SetUp` that failed every later one returns
  nil with nothing set up.
* `CallsIndependent` names three leaks between calls (`Leaks`): a caller that writes
  into `emptyMap` or into a cached default, a default cached for elements of another
  kind, and a struct judged by the tags of another key. It compares all other calls
  and cannot find these three.
* `ValuesAllowed`: a range beside a condition counts for nothing.
* `ResultFollowsInput` leaves out optional embedded structs, to which defaults are
  not applied, and documents with a key in two cases, of which the order of a Go map
  chooses one. Of a load it says less of empty lists: where the type knows the key
  `toLowerCaseInterface` turns one into a nil slice (`config.go:318`), which leaves the
  field nil, elsewhere it stays empty (`config.go:347`). `Sparse` takes the two as one.
  For `Unmarshal` the comparison is exact.
* `ConflictsFound` has two fields share a key when both lead to structs there that have
  no key in common. One level deeper nothing is merged (`config.go:298`): `a.x.p` beside
  `a.x.q` is refused although the two do not meet, and the property says so too.

Met while modelling, with no property of its own: a number for a `time.Duration`
panics (`unmarshaler.go:625`), as do a null in a `map[string][]T` and a map of
pointers; an `int64` from the environment is parsed as a duration; a null in YAML
becomes the empty string; with a console `StackCooldownMillis` is ignored.

### Bounds

* `hub_*`: two sessions; every hazard of `Close`, of a takeover and of the map is between
  two processes, and either may be the reader or a login. `MaxGrants` = 2 gives
  one renewal, which is what tells the newest lease from an older one. Match messages
  name one of two ids in `hub_distinct`, and the only one in `hub_same_id`.
* `BufSize` = 2 stands for 2048: empty, partly filled and full occur, and a batch
  joins more messages while others arrive. Three messages and four frames
  overfill a channel. In `pumps_zombie` one place is enough.
* `flow`: a match message in the name of the other user, and a message with three
  targets at two servers, one of them named twice, so that it finds its client's channel,
  of capacity one, full; ids of which one is a prefix of the other; two sessions of one id
  at one server, one of which may leave or fail (`Unsteady`); one channel on the
  connection for two publishes; and one fault (a crash, a lost acknowledgement, a lost
  consumer or a failed write). A server may restart as often as it ends; panics are not
  counted as faults.
* `log_daily`: three midnights give three rotations whose goroutines overlap; the
  first backup becomes outdated, and at a limit of two days a backup that is
  named too early or deleted too early shows. One failure and one restart may
  fall anywhere. Three lines are what three rotations need. `Close` is left to
  `log_size`, where four lines of the maximal size give three rotations, two more
  than the limit of backups, with names that are equal or differ. One place in
  the channel makes it full and empty.
* `log_writers`: two goroutines and three calls in all, so that a call overlaps
  another and a third comes between or after; races of more callers are left to the
  proofs. The calls start before `SetUp` or after one. One writer of a caller, one
  fault, two ticks with a cool-down of one, so that a stack falls inside, at the end
  of and after a window; the kinds of log call are one limited (`stack`), one that
  ignores the level (`alert`) and one with a switch of its own (`stat`).
* `conf`: two calls in a row and one write between them, which is what a leak from
  one call to the next takes; some eighty calls, forty loads of documents and loads of
  every type made of two fields of a pool, over types like
  those in the tests of `core/mapping` and `core/conf`. `int8` stands for all bounded
  integers. Targets are fresh zero values. In a document a key comes in at most two
  cases, and both orders of the map that holds them are tried. Where several entries
  of a map are wrong, one order decides which error is returned.

Deadlock is checked in no run: sessions, calls and lines are finitely many, and a
system whose clients have all gone, whose process ended or whose calls are used up
stops.

### Fairness

* `HubSessions`: every goroutine that can step does (the Go scheduler), the mutex
  starves nobody (Go's mutexes hand over after a millisecond of waiting), and
  etcd ends a lease that nobody keeps alive. Nothing is assumed of logins, ticks,
  match messages, peers and failures. A reader that is stuck owes nothing either:
  `PumpStep` is the reader that sees its connection ended, and the panic of a stuck one
  at a closed channel.
* `ClientPumps`: the reader owes a step when it holds a frame or when its
  connection has ended, not when it waits for the peer. The sender, the writer
  and a `Close` past the handshake go on. For the writer this includes the ping
  that fails: the ticker fires.
* `MessageFlow`: the receiving half as a whole (`Receiving`: the broker, consumers,
  goroutines of `Hub.ReceiveMessage` and writers) is not at rest while one of its steps
  is possible. That is less than fairness to each goroutine, and a send to a full
  channel is not possible. A writer with a message writes it or fails, since each write
  has a deadline (`writeWait`). Nothing is assumed of senders, clients and etcd.
* `RotatingLog`: the worker goes on, and so does the caller that waits in
  `Close`. Nothing is assumed of writers, of the clock and of the goroutines of
  rotations.
* `LogWriters`: a goroutine inside a call goes on. Nothing is assumed of callers and
  of the clock.

## 5. Proofs

`HubSessionsProofs` proves, for any sets of sessions, ids and servers, any
assignment of sessions and any number of leases, under `SessionsAssumption`:

| theorem | statement |
|---|---|
| `Inductive` | `Spec => []IInv` |
| `TypeCorrect` | `Spec => []TypeOK` |
| `ClosedOnce` | `Spec => []ChannelsClosedOnce` |
| `NoRouteOfRetired` | `Spec => []RetiredUnrouted` |
| `TakeoverOrdered` | `Spec => []TakeoverOrder` |
| `ImplementsDirectory` | `Spec => DirectorySpec` |
| `AloneRouted` | `Spec => []AloneIsRouted` |
| `OnlineRouted` | `Spec => []OnlineRoute` |
| `OneToldIt` | `Spec => [](IInv /\ FoundInv /\ ToldInv)` |
| `VainWait` | `Spec => []VainWaitIsSecond` |
| `VainWaitLasts` | `Spec => VainWaitIsForEver` |
| `MutexHolder` | `Spec => []HolderInv` |
| `AloneAnswered` | `Spec => []AloneIsAnswered` |
| `AloneInHub` | `Spec => []AloneIsInHub` |
| `RegisteredInHub` | one session per id and server: `Spec => []RegisteredIsInHub` |
| `NobodyKeepsMutex` | one session per id and server: `Spec => []HolderGoesOn` |

None of the properties is inductive. `IInv` adds to the types:

* `GrantInv`: a registrar that is about to ask for a lease has not used up its
  grants, and one that has not inserted its session has none;
* `StartInv`: until a login has registered its session, the session has no reader
  and no registrar; a login that has not read the map twice has no victim;
* `HomeInv`: `Clients` holds sessions of its own server and a login closes only
  such sessions, so a process and its target share mutex and `Hub.Run`; past the
  point where a nil client panics there is a target;
* `MutexInv`: a process between lock and unlock holds the mutex;
* `CloseInv`: the target of a process past the handshake has a registrar that
  leaves; its channels are open until that process closes them, and the channels
  of a session whose registrar still waits are open; with `TakeoverOrder`;
* `RouteInv`: a key that hangs on a lease hangs on a live one, which is the one the registrar of its
  session knows, and the session has not retired with success.

`ClosedOnce` rests on the handshake: the registrar receives from `ToOffline`
once, so only one caller of `Close` gets past it, and the mutex is what makes the
caller at the close of the channels unique. `NoRouteOfRetired` is a part of
`RouteInv`: the lease that is revoked is the one the key hangs on. Each part has a lemma that
every step of `Next` preserves it, with one step per action.
`ImplementsDirectory` maps each action to `Publish`, `Retire`, `Lapse` or a
stutter.

`OnlineRouted` is about a session that shares its id with no other, whatever sessions
that do share one are at. Such a session is the only one that puts a lease under its key,
so the key changes by its own `RegPut`, after which it hangs on the lease the registrar
then knows, goes with that lease, or is taken by a match message. Where no client writes
the id as a `SourceId` the last is not possible: such a session is routed as long as its
lease lives (`AloneRouted`). With two sessions per id neither holds: both registrars put
the same key, and the later put hangs the key on the other's lease.

The rest is about who waits for whom. `FoundInv`: whom a login finds in the map has been
registered, under the login's own id, and is another session, so its registrar has
started. `ToldInv`: a registrar leaves if and only if a process told it so over
`ToOffline`, and one did. Hence `VainWait`: whoever waits for a registrar that is
leaving has been overtaken by another `Close` of the same session. `VainWaitLasts` is
an action property, since the wait ends by no step of the server, and with it goes
the mutex. The other half is about a single session. One that has its id at
its server for itself (`AloneHere`) is closed by its reader only, its login finds nobody,
and its entry becomes nil only for its own reader (`AloneInv`). So its `Close` meets a
registrar that will come to its select (`AloneIsAnswered`), and messages find it until its
reader takes it out (`AloneIsInHub`), whatever other sessions do, but for one thing:
another `Close` that waits in vain keeps the mutex from it. `HolderInv` says who may hold
it, a process in the critical section or a login that panicked there; without two
sessions of one id at a server, it is a reader whose registrar will come
(`HolderGoesOn`). These are the safety side of `DisconnectedGoesOffline`.

`ClientPumpsProofs` proves, for every capacity, number of frames, set of frames
that do not parse and set of messages, under `PumpsAssumption`:

| theorem | statement |
|---|---|
| `Inductive` | `Spec => []IInv` |
| `TypeCorrect` | `Spec => []TypeOK` |
| `Drained` | `Spec => []ClosedAfterDrain` |
| `ImplementsInbound` | `Spec => InboundPipe` |
| `ImplementsOutbound` | `Spec => OutboundPipe` |
| `FramesInPlace` | `Spec => [](IInv /\ FrameInv)` |
| `UpToMalformed` | `Spec => []ForwardedUpToMalformed` |
| `InboundDrained` | `Spec => []ForwardedAfterDrain` |
| `ReaderServed` | `Spec => []BlockedReaderServed` |
| `PostServed` | `Spec => []BlockedPostServed` |

Here `IInv` says where everything is. `InInv`: while the sender runs, the frames read
are, in order, those forwarded, the one it holds, those in `ReadChannel` and the one
the reader holds. `OutInv`: while `writePump` runs, what the channel accepted is what
was written, the batch and what is in the channel, one after the other; a batch is
never empty and never waits for more messages than the channel has; and who left
because the channel was closed had written everything. The last part needs that a
closed channel stays closed (`StaysClosed`), and that `WriterEnd` looks at both the
channel and the batch. For the refinements each action is `Accept`, `Emit` or `Stop` of
`Pipe`, or a stutter: `ReadFrame` and `PostPut` accept, `SenderSend` emits one frame and
`WriterFlush` a batch, and what ends the sender or `writePump` stops the pipe.

`InInv` says nothing once the sender is gone, which is when the reader may block for
good. `FrameInv` goes on: with the frame that did not parse counted as dealt with
(`Dealt`), the frames in `ReadChannel` are those that follow, and the reader holds the
last, whatever the sender is at. So the hub gets exactly the frames before the first
that does not parse (`UpToMalformed`), all of them when the sender ends because the
channel was closed (`InboundDrained`), and `ReaderServed` and `PostServed` tell who
waits at a full channel with nobody at its other end: the reader after a frame that does
not parse, a goroutine of the hub (`hub.go:127`) after the connection is gone. That
`writePump` runs does not mean that the peer takes what it writes: behind a slow peer
the goroutine waits as long as the peer does.

`MessageFlowProofs` proves, for any servers, finitely many sessions, any ids, messages
with their targets, channels and faults, under `FlowAssumption`:

| theorem | statement |
|---|---|
| `Inductive` | `Spec => []IInv` |
| `TypeCorrect` | `Spec => []TypeOK` |
| `NothingForgotten` | `Spec => KeptUntilGiven` |
| `ClientsAndServers` | `Spec => [](IInv /\ ClientInv /\ DownInv)` |
| `GivenRight` | `Spec => GivenToItsClient` |
| `LeaversOnly` | `Spec => []PanicsForLeaver` |
| `DeadServerQuiet` | `Spec => DeadIsQuiet` |

`TypeOK` is not inductive: `Head` of a copy's targets is an id only if there are some.
`IInv` adds that copies and goroutines have a target (`FullCopies`, `FullJobs`), that a
message is looked up only while it has a target left (`SendInv`), and that a consumer
holds a copy from its delivery to the hand-over and only then (`CopyInv`), which is what
makes the copies put back at the end of a server real ones. `NothingForgotten` follows a
copy through its places (`WherePending`): queue, consumer, goroutine. A consumer hands
it from one to the next (`ConsumerKeeps`), a goroutine gives up a target only to its
client or without an entry for it (`JobKeeps`), sending only appends to a queue, and the
end of a server puts back all that was not acknowledged (`DiesLoses`): every
unacknowledged copy is somewhere in the queue again, in whatever order.

`ClientInv` ties the map of a server to the life of its sessions: an entry that is a
session is one of that id there, which may be closed already, since the `RemoveClient` of
one of two sessions may precede the insertion of the other; an entry that is nil is left
by a session that has started to leave; and a client that a goroutine found has the id of
the target. The two are read at different steps, so a client may leave between the lookup
and the hand-over, also while the goroutine waits for room; if it is not closed by then it
still gets the message (`GivenRight`: never one that is closed, never one of another id
or server). `LeaversOnly` is the other case: a goroutine that is before one of its two
panics is there for a target one of whose sessions here has started to leave. It says
nothing of the other ends of a server, which are `PublishPanics` and `Crash`.
`DownInv` and `DeadServerQuiet`: with a server its sessions, consumers, sendings and
goroutines end, and nothing of them acts later, in particular after its next start.

`MessageContractProofs` proves for the same constants:

| theorem | statement |
|---|---|
| `WithinContract` | `Spec => []ContractInv` |
| `ImplementsContract` | `Spec => ContractSpec` |

The contract bounds what clients get by what exists, so the proof counts. A target of a
message that is not given yet stands at a *place*: among the targets `Hub.SendMessage` has
still to look up, in the group of a server, at a position of a queue, with a consumer, or
with a goroutine of `Hub.ReceiveMessage`. `Where(m)` is the layout of the message over
those places and `Tokens(W, i)` where an id stands in it. `ContractInv` says that, for
every message and id, the tokens and what was given are together at most
`(1 + lostAcks) * Wanted`; that a copy has an id no more often than the message has
(`Small`), so the copy that a lost acknowledgement leaves in the queue is covered by the
next factor; and that all targets are ahead before the message is sent (`OnlyAhead`). Most steps
only carry whole sequences from place to place: publishing, delivery, hand-over, and the
end of a server, which puts what was not acknowledged at the head of the queue in any
order. For those there is an injection of the new places into the old ones
(`Relocated`), from which an injection of tokens follows (`RelocatedTokens`) and
everything is kept (`CarriedKeeps`). The three other kinds of step have a lemma each:
`LookupKeeps`, where a target goes from ahead to a group or is lost, `TakenKeeps`, where a
client gets one, and `AckFailsKeeps`, where a copy stays and a goroutine has it too.
`ImplementsContract` reads the guard of `Give` off the invariant: the target that is
given was a token.

`RotatingLogProofs` proves, for any settings of either rule, any size of the channel and
any bounds, under `SettingAssumption` and `BoundAssumption`:

| theorem | statement |
|---|---|
| `Inductive` | `Spec => []IInv` |
| `TypeCorrect` | `Spec => []TypeOK` |
| `Drains` | `Spec => []DrainedOnClose` |
| `Newest` | `Spec => NewestKept` |
| `Bounded` | `Spec => []BackupsBounded` |
| `Ordered` | `ASSUME Daily PROVE Spec => []LogInOrder` |
| `Retains` | `ASSUME Daily PROVE Spec => RetainedSpec` |
| `NoUnpaidLoss` | `Spec => []LossesPaid` |
| `CloseWrites` | `Spec => []ClosedIsWritten` |
| `StaysReadable` | `ASSUME Daily PROVE Spec => []StoredIsReadable` |

`CloseInv` gives `Drains`: the channel always holds the lines accepted last, so an empty
channel, seen after `done`, means that all lines accepted before `Close` were taken.
`ListInv` gives `Newest`: a file on a list has `MaxBackups` younger ones, and if another
goroutine removes one of those, that one had `MaxBackups` younger ones too, which all
count for the first. `SurplusInv` gives `Bounded`: without failures and restarts, when every
goroutine has made its list, each backup with `MaxBackups` younger ones is on the list of
a goroutine that has still to remove it; a rotation adds a backup and, in the same step, a
goroutine without a list. When no goroutine is left there is no such backup, and all but
the oldest are younger than the oldest (`NoneTooMany`). The rest is about the daily rule.
`NameInv` is the heart: a file with a time in its name has a number, and
times and numbers have the same order; the time of the next backup is past every name and,
at a renaming, before the clock, so a backup never takes the place of another
(`TimeInv`; here the code needs that no two midnights fall into one rotation). `LineInv`:
lines are in the order of acceptance in the files in the order of their numbers, and an
archive has only lines of its file; with `NameInv` this is `Ordered`. `MainInv`: the open
file is the one created last, so `PutLine` writes after everything stored. `ZipInv`: one
goroutine at a time works on a backup, the backup stays until its archive has all its
lines, and the archive is then there unless it has become outdated, so the removal of the
backup takes away nothing young. `AgeInv`: a line is at most a day younger than the time
in the name of its file, a line that crossed midnight in the worker's hand; hence the bound of
`Expire` in `RetainedLog` when a file of a list goes. `LogInOrder` and `RetainedSpec` are
claimed for the daily rule only: under the size rule two rotations can fall into the one
second that names both backups.

`NoUnpaidLoss` counts the lines that are lost, under either rule: accepted by `Write`, in no
file that was ever written, and not with the logger any more. Each is paid by a failed file
operation, or by an end of the process, which costs at most what the channel holds and the
line in hand. The worker drops a line when it has no open file, and a failed rotation
leaves it without one; that it drops one line per failure, and not all that follow, is what
`PaidInv` adds: without an open file the rule still asks for a rotation (`Behind`, for
neither the date nor the size is reset before the rotation has succeeded), so the next line
tries it again, and a line that finds no file has a failure of its own (`Charge`).
`CloseWrites` joins this to `Drains`, and `StaysReadable` joins `Retains` to the disk: what is
written is not only in a file but in one that has a name.

`LogWritersProofs` proves, for any finite set of goroutines, any writers of callers,
levels, threshold, configuration and bounds, under `LogAssumption`:

| theorem | statement |
|---|---|
| `Inductive` | `Spec => []IInv` |
| `TypeCorrect` | `Spec => []TypeOK` |
| `OneSetUp` | `Spec => []SetUpOnce` |
| `WritersKept` | `Spec => []ChainKept` |
| `DisableHolds` | `Spec => []DisabledShutsOut` |
| `LogsTogether` | `Spec => []FilesWhole` |
| `DiscardsJustified` | `Spec => DiscardJustified` |
| `DiscardsCounted` | `Spec => []DiscardsAccounted` |

So the races of three and more callers, which the run does not reach, are covered
here. `SetUpOnce` and `ChainKept` are inductive with `PlaceInv` beside them: a goroutine
that replaces the writer has one to put in, one in the function of `setupOnce` runs
`SetUp`, and a stack on its way through the limiter still has its writer. `LimiterInv`:
what `Compare` reads is long ago or a time at which a stack was let through, and whoever
is about to discard has seen such a time. `ShutInv`: while a `Disable` holds, nobody is
between the read of the level and the store. `LogsInv`: the logs are opened in order, none
is closed before the last is open, and until then nobody has the file writer, in use or
in hand. `ClosingInv`: logs that are partly closed are being closed, or a fault stopped
that. Most steps concern one goroutine; `OthersUntouched` says what they leave alone of
the others: everything but the mark of an `AddWriter` that was raced. `DiscardsCounted` is
about a sum over all goroutines. A step changes what one of them carries, and what it
takes from the limiter or gives to the counters of reports is the same amount
(`CountsKept`); `TotalChanges` turns that into the change of the sum. That a goroutine
carries a count only on the way of a report (`CarriedInv`) is why none is dropped when a
call ends. Only here the set of goroutines has to be finite, as it is in a process.

`FoldLemmas` has what such proofs need and the libraries state only with operators as
parameters, which these provers do not instantiate. Here an induction is about a set that
has zero and every successor (`NumberInduction`) or the empty set and every set with a
member more (`SubsetInduction`), and a recursion about a function that says what one step
does. `Recursion`: for a finite set, an order in which to take its members and such a
function, there is a function on the subsets that solves the recursion. With it the sum
over a set is the sum it should be (`SumsAre`, `TotalType`, `TotalChanges`), and a fold
over a sequence is a loop with one round per element.

`FieldTagsProofs` uses this for `parseSegments` (`utils.go:441`), the loop over the runes
of a tag with its flags for brackets and escapes. A backslash takes itself and the next rune
out of the rule, except inside brackets, where it is a rune like others. So which
backslashes count depends on which brackets do, and the other way round: `Escapes` states
both at once, and `EscapesUnique` shows that the text determines the set. `SegmentsCut`: a
text of any length and over any tokens is cut at exactly the commas that no counting
backslash precedes and no bracket encloses, and nothing else is lost but those backslashes and
an empty last segment. The invariant of the loop (`LoopInv`): the flags say whether a bracket
is open and whether the last rune was a backslash that counts, and segments and buffer are
the pieces of what was read (`CutAt`).

Only model-checked: liveness (`DisconnectedGoesOffline`, `UnservedRouteLapses`,
`PumpsEnd`, `ParsingSessionCloses`, `HandedOn`, `CloseReturns`,
`CallsReturn`), which the proof system does not handle; and the properties of `ConfLoad`
(`TypeOK`, `CallsIndependent`, `ResultFollowsInput`, `OnlyMerged`, `ValuesAllowed`,
`SkippedStructsLoad`, `ConflictsFound`): `Mapping`, `DocumentMeaning` and `ConfLoad` have
operators that are recursive over documents and types, and a module that reaches one is
closed to the prover. Every other safety property that a run checks is a theorem.

## 6. Not modelled

* The token check, the upgrade, formats of messages, log output, dialling.
* Time. Ticks and lapses happen at any moment, which contains every timing of
  the code and also timings it does not have.
* `runHandlers`' reflection, and its panic when the handlers and their parameters
  differ in number: both are set once, in `main`.
* In `MessageFlow`, the batches of a writer and how it drains a closed channel; in
  `ClientPumps`, other clients and the consumer. In `HubSessions`, why the reader is
  stuck: `ClientPumps` has the frame that does not parse.
* In `RotatingLog`: bytes (a line has size one, and an archive that was not
  finished cannot be read); an error of `os.Stat` other than absence; a midnight
  between the two readings of the clock at start-up, after which two rotations
  would use one name; two goroutines that write one archive at the same time,
  which takes two rotations in one second.
* In `LogWriters`: what is written (fields, encodings, colours, `lesslogger.go`,
  whose limiter is the same code), and errors of a single write.
* In `Mapping`: `marshaler.go`; fields that unmarshal themselves (`TextUnmarshaler`,
  `json.Unmarshaler`); arrays, floats, unsigned integers, `[]byte`, pointers to slices
  and maps; the locks of the caches, under which each access is one step, as a call is
  here.
* In `ConfLoad`: reading files, the expansion of environment variables, TOML (which
  comes as JSON too), `Validate`, and `properties.go`, a parser of lines.
* `PublishRouting`, `ReceiveRouting`, `Destroy`, `SetKeepLiveLease`: no caller.
* `jsonx`, `lang`, `jwtHelper`, `config`, `wsContext`, `logtest`: stateless calls of
  libraries, plain data and a test helper.
