# Verification of superserver

superserver is a Go library for game servers: a TCP server built on epoll, a
client, the packet format and the key exchange they share, and a timing wheel
for their heartbeats. This directory holds TLA+ modules that model the code,
TLC configurations that check them on small instances, and proofs that TLAPS
checks for every size.

- `PROJECT.json` maps every definition to the lines it models and lists the
  runs, the mutants, the findings, the hazards and the theorems.
- `tlc -config X.cfg MCm.tla` checks an instance, `tlapm m.tla` the proofs.

## 1. Inventory

Paths are under `src/until/`. "Modelled" is what this directory covers today.

| component | source | modelled |
|---|---|---|
| Delay queue | `timingwheel/delayqueue/delayqueue.go` | yes |
| Timing wheel | `timingwheel/{timingwheel,bucket,utils}.go` | yes |
| Server | `socket/{server,connMap,epoll_linux}.go` | yes |
| Server connection | `socket/conn.go` | yes |
| Client | `socket/client.go` | yes |
| Client instance | `socket/clientManager.go` | all but a `Close` by the application |
| Packet codec | `socket/{codec,message,def}.go`, `src/cmd/cmd.go` | yes |
| Key exchange | `crypto/dh64/dh64.go` | yes |
| XXTEA | `crypto/xxtea/xxtea.go` | yes |
| Server registry | `socket/serverMap.go` | yes |
| Atomic counters | `common/atomic.go` | yes |
| Binary buffers | `binary/*.go` | no |
| Helpers | `common/*.go`, `conv/`, `log/` | no |
| Older client and packet code | `test_client/`, `test_packBase/` | no |
| Test programs | `src/server/test/` | no |

**Delay queue.** State: a heap of items under a mutex, the atomic flag
`sleeping`, the unbuffered channels `wakeupC` and `C`. Operations: `Offer`,
`Poll`, and `exitC`, which its owner closes. Hard: `Offer` looks at the heap
and at the flag outside the mutex, while `Poll`'s timeout, the wake-up and the
exit race. Correct: nothing is early, lost or delivered twice, no wake-up is
lost, and nobody blocks for ever.

**Timing wheel.** State: a chain of wheels, each with `currentTime` and
buckets; a bucket has a list under a mutex and an atomic `expiration`; a timer
has an atomic pointer `t.b` to its bucket. Operations: `AfterFunc`, `Stop` of a
timer, the goroutine of `Start` (receive a bucket, `advanceClock`, `Flush`), and
`Stop` of the wheel. It uses the delay queue for its buckets and is used by
server and client for heartbeats and reconnects. Hard: `currentTime` is read
without synchronisation while the wheel's goroutine writes it, a timer moves
between buckets in two steps, and a bucket is used again while it is flushed.
Correct: a task starts once, or is stopped and never starts; it is not early, it
is not forgotten, and `Stop` tells the truth.

**Server.** State: the map from descriptor to connection, the listener, the
epolls, the context, `MsgCh`. Per epoller there is an accept goroutine
(`startEpoll`) and an epoll goroutine (`Start`). Operations: `Run`, `Close`,
`CloseConn`, `Broadcast`, `SendClientMsg`, and the callbacks `OnConnect` and
`OnClose` to the application. Hard: everything is keyed by descriptor numbers,
which the kernel reuses; two accept goroutines share one listener field;
`Close` runs in several goroutines at once. Correct: the map never names a
stale connection, a live one is never forgotten, the application hears what is
so, and a shut-down ends.

**Server connection.** State: descriptor, receive cache, `hasRecvFlag`,
`hbTimer`, the once of `Close`. Operations: `NewTCPConn`, `DoRecv` with the
handshake (`BulidEncryptionConnction`) and the messages (`ProcessDoneMsg`),
`StartHeartbeatTimer`, `ProcessTimeOut`, `AsyncWrite`, `Close`. Hard: the epoll
goroutine, timers and the application close it concurrently, and only the body
of `Close` runs once. Correct: the order of `Close` never touches another
connection's descriptor; a silent connection is closed in the end.

**Client and client instance.** State: `isConnect`, the socket, two timers, the
reconnect counter; the map from descriptor to client, one epoll,
`clientOnConnectCh` (100), `clientReadCh`. Operations: `Connect`, `ReConnect`,
`DoRecv`, `Close`, `SendHeartbeatMsg`; `AddClientWith`, `WritePacket`,
`Close`, `Start`. Hard: nothing of a client is locked; `Close` releases the
descriptor before it leaves the map and has no once; a reconnect dials from a
goroutine of its own; the channels are bounded. Correct: the map names each
client under its own descriptor; a client that was added is received from; a
client has one socket; the one goroutine that receives for all of them is never
held up by one; a lost connection is dialled again, and the heartbeats of a
closed client end.

**Packet codec, key exchange, XXTEA.** State: per side the receive cache, the
key pair and the key. Operations: `Encode`, `EnBinaryPackage`, `ParsePacket`,
`OnPacketComplete`, the handshake packets; `KeyPair`, `Secret`; `Encrypt`,
`Decrypt`. Hard: TCP cuts the stream anywhere, so that a packet, its head or the
handshake arrives in pieces and together with what follows; arithmetic wraps
around in 64 bits next to the largest prime; lengths are 32 bits with a sign.
Correct: both sides derive one key; messages arrive unchanged, in order, once;
nothing that has arrived stays behind; a session closes for a reason.

**Server registry.** State: a tree of four kinds of managers, each with a
concurrent map. Operations: `InsertServer`, `Remove`, `GetConnId`. Hard: each
map is atomic and the tree is not: between looking a manager up and adding it
others may. Correct: the registry is one map, and every call takes effect at
one moment.

**Atomic counters.** State: one word. Operations: those of `AtomicUint64`,
`AtomicUint32`, `AtomicBoolean`. Hard: the loops read the word with a plain
load, which a 32-bit build does by halves. Correct: every operation takes effect
at one moment; some goroutine always gets on.

`hazards` in `PROJECT.json` lists the places that are hard to test, each at its
line, with the property that watches it or the reason why none does.

## 2. Modules

| module | what it is |
|---|---|
| `DelayedSet` | abstract specification: the promise in the comment above `DelayQueue` |
| `DelayQueue`, `MCDelayQueue`, `DelayQueueProofs` | the queue step by step; implements `DelayedSet` |
| `TimingWheel`, `MCTimingWheel`, `TimingWheelProofs` | the wheel on top of what `DelayedSet` promises |
| `Server`, `MCServer`, `ServerProofs` | connections of several epollers, from accept to close |
| `ServerHistory`, `MCServerHistory` | `Server` with a history of which connections have been taken for another one |
| `Lifecycle`, `MCLifecycle`, `LifecycleProofs` | `Run`, `startEpoll`, `Start` and `Close` of the server as a whole |
| `Client`, `MCClient`, `ClientProofs` | the clients of an instance and its goroutine, on descriptors the kernel reuses |
| `Codec`, `KeyExchange`, `XXTEA` | the pure functions of the protocol, as operators and recursive functions |
| `Session`, `MCSession`, `SessionProofs` | a client and a server connection that talk in bytes; composes the three |
| `FlatMap` | abstract specification: one map from place to connection |
| `Registry`, `MCRegistry`, `RegistryProofs` | the tree of managers; implements `FlatMap` |
| `Counter` | abstract specification: what the comments of `atomic.go` promise |
| `Atomics`, `AtomicsProofs` | the loads and compare-and-swap loops; implements `Counter` |

`MCKeptWheel` adds to `TimingWheel` a history variable: whether the wheel's
goroutine has kept up with the clock so far. `ServerHistory` adds two to
`Server`: `stale`, the descriptors of a batch whose socket has been closed since
`Wait` returned them, and `mixed`, the connections that were found under a stale
descriptor or registered by the goroutine that had accepted another one.

**How the modules fit together.** `DelayQueue` implements `DelayedSet`
(refinement mapping `Promise`, checked and proved). `TimingWheel` uses the queue
as that specification describes it: a bag of (bucket, priority) pairs, of which
the one that expired first is taken. `Server` uses a timer as `TimingWheel`
shows it: its task starts at most once, never after a `Stop` that returned true,
and `Stop` may miss it; `Client` uses its heartbeat and reconnect timers the same
way. `Lifecycle` keeps of a connection only that it is in the map or closed.
`Server` and `Client` count whole packets; what a packet is, and that both sides
cut the same ones out of the stream, is the subject of `Session`, which extends
`Codec` and `KeyExchange`, takes the cipher as an operator constant and is
checked with `XXTEA` for it.

**What is a step.** A section under a mutex is one action. Every access to
shared state outside one is an action of its own: `item.Index`,
compare-and-swap, channel operations, `currentTime`, `t.b`, `b.expiration`,
`s.listener`, the map, `hbTimer`, the descriptor. An unbuffered send and its
receive are one joint step. The local position of a goroutine is a program
counter (`poll`, `offer`; `pc`, `wpc`, `spc`; `apc`, `epc`, `closing`; `cpc`)
whose values are named for the call that comes next.

**Correspondence.** `DelayQueue`: `pq`/`root` are the heap and the item of index
0 (of equal priorities any one), `rcv` is the receiver's own `Offer`, which the
wheel makes while it flushes. `TimingWheel`: `timers`, `expiration`, `tb` are
`bucket.timers`, `bucket.expiration`, `Timer.b`; a caller of `add` walks up the
wheels in `lvl`. `Server`: `owner` and `reg` are the kernel's descriptors and
interest lists, `cfd`, `home`, `cache`, `hasRecv`, `hb` fields of `TCPConn`,
`greeted` the connections that have drawn a key pair, `stray` counts timers that
are armed although `hbTimer` does not name them, `closing` is the step of
`Close` that comes next, and `up`/`announced` are what the application has been
told. `Lifecycle`: a listener and an epoll are named after the goroutine that
makes them.

`Client`: `client[c]` is the record of a client's fields under the code's names;
a goroutine of `AddClientWith` has the name of its client, `I` is the goroutine
of `Start`, and a timer or its task is a triple of client, kind and number;
`owner`, `reg`, `inbox` are the kernel's side, `ready` is what is left of the
descriptors that `Wait` returned, `connectCh` and `readCh` count what is in the
channels; at "stuck" `I` waits for ever in `timerWheel.Stop`. `Session`: `wire`
holds the bytes on their way, `cache`, `hasRecvFlag`, `secertKey` are the fields
of either side, and `early` and `zero` remember that a message was written before
its sender's handshake was over and that a private key was 0; a server connection
at "lost" has closed itself and goes on with the packets it had read. `Registry`:
`manager[d]` are the maps of depth d; `at` and `depth` say where a call is.
`Atomics`: `low` and `high` are what `Get` has loaded so far, `half` the width
of a load.

**Abstractions.** In `Server` the bytes of packets are left out: packets are
whole and counted, and what one is shows when it is handled, where `DoRecv` and
`BulidEncryptionConnction` may take every branch, the error paths included. A
handshake packet that is too short for its head (5 bytes) or its key panics
(`conn.go:173`, `:231`, `client.go:408-455`); the sides send none, and no module
has it. `GetAll` is one snapshot although the map is sharded.
`StopHeartbeatTimer`'s two loads of the field are one, as in an optimised build.
A client's close and a failing write are seen at any moment after the client has
hung up. `epoll_wait` that times out or is interrupted is a stutter in `Server`,
whose context stays open. Two epoll goroutines that receive on one connection
race on its cache, a slice that nothing guards: the model counts packets, and a
cut of an empty cache is the panic it is in the code. In `Lifecycle` the
application calls `Close` only once the server listens. In `TimingWheel` the
store of `currentTime` and the load of `overflowWheel` behind it
(`timingwheel.go:128-131`) are one step, which loses nothing: an overflow wheel
that is made in between either has its time from before the store, and could as
well have been made before it, or from the stored one, and advancing it changes
nothing.

In `Client`, `WritePacket` and the finders change nothing and are left out, as
is `BulidConntinon`, which nothing calls. `Wait` returns what is readable, or
nothing when its 256 ms are over, so that a cancellation is noticed.
`timerWheel.Stop` returns or does not (`DelayQueue_exit.cfg` shows how it may
not), and after that no timer fires any more. `ReConnect`'s look at `isConnect`
and the one that `Connect` begins with are one step. A client whose
configuration has no secret sends no heartbeats and does not notify `OnConnect`,
and the cache is not emptied on a reconnect: both are the code's doing. Once
`Instance.Close` has closed the epoll, nothing is received any more; the loop of
`Start` has ended.

In `Session` each packet is handled in one step, timers are left out, and a
write is whole and does not fail before the other side has closed. An
application may send at any time, with the key that is there. Neither side sends
a packet of a length below four, so the loop of `DoRecv` on such a length does
not occur. The encoder makes packets longer than `MaxLength`, which the receiver
refuses: the run has such a message. A private key of 0, whose error `KeyPair`
drops, is among those drawn. In `Registry` managers are never removed: the code
prunes a manager when `len(serverMap)` is 0, which is the number of shards of a
concurrent map and never 0. In `Atomics` a load is whole or two halves in either
order; `String` only formats.

## 3. Runs

| run | instance | shows |
|---|---|---|
| `queue` | 2 offers, expirations -1, 1, 2, clock to 3 | `Handshake`, `NoLostWakeup`, `NeverEarly`, `ExactlyOnePlace`, `ImplementsDelayedSet`; with fairness `EventuallyDelivered` and `OfferReturnsWhileRunning` |
| `wheel` | 2 timers, 1 stop, 3 wheels of 2 slots; `Prompt` | `OneFate`, `NoTimerLost`, `NotForgotten`, `NoSelfDeadlock`, `EnqueuedOnce`; while the goroutine keeps up `PunctuallyNeverEarly`; with fairness `EventuallyRuns` |
| `wheel_forgotten` | 2 timers | **violated**: `EventuallyRuns` |
| `server` | 2 connections on 1 descriptor, 1 epoller, no handshake; `Timely` | `MapAgrees`, `Served`, `AppAgrees`; with fairness `EventuallyClosed`, `EpollReturns` |
| `server_history` | 2 connections on 1 descriptor, 2 epollers, handshake, 3 packets from one client; `Timely` | `OneReader`, `ReadIsReady`, `AnnouncedFirst`, `LiveIsKnown` |
| `lifecycle` | 2 epollers, 1 caller of `Close`, 1 client | `Serving`; with fairness `StartEnds` |
| `lifecycle_lost` | 2 epollers, 1 client | **violated**: `EventuallyAccepted` |
| `client` | 2 clients, one with `ReconnectFlag`, 2 descriptors, 2 packets, handshake; `Calm` | `MapAgrees`, `OneSocket`, `ReadIsReady` |
| `client_live` | 1 client with or without the flag, 1 descriptor, 3 packets, channels of one; `Calm` | with fairness `EventuallyReceived`, `LoopReturns`, `EventuallyReconnected`, `HeartbeatsEnd` |
| `session` | bytes of 4 values, words of 16, p = 13, one message per side, two of which fit a packet and one is overlong, sent at any time, private keys 0, 5, 15, with and without the secret | `InOrder`, `KeysAgree`, `ClosedForCause`, `NothingOwed` |
| `registry` | 2 goroutines, 3 servers, 2 connections; `Apart` | `OnTheWay`, `ImplementsFlatMap` |
| `atomics` | 2 goroutines, 4 values, loads whole and by halves, all ten operations; `Whole` | `ImplementsCounter`, `LockFree` |

The modules' `ASSUME`s are evaluated in these runs too: those of `MCSession`
compare `mul_mod_p` with multiplication modulo p for all words, and check that
`Decrypt` inverts `Encrypt` for data of one to nine bytes.

Type invariants are proved (section 4). `OneReader`, `ReadIsReady` and
`AnnouncedFirst` except the connections of `mixed`: with them they do not hold,
and that the code can take one connection for another is what the exception
says. The properties of `session` except the sessions in which a message has
been sent early, `ClosedForCause` by naming it as a cause.

**Bounds.** Three wheels of two slots make a timer pass through two overflow
wheels, wrap around the slots, and share a bucket with another one; delays 0, 1
and 3 are a task that runs at once, one tick, and beyond the first wheel's
interval. Two connections on one descriptor are what it takes to reuse a number,
and two epollers what it takes to see it from another goroutine; three packets
are the handshake and a message, or any other sequence that `DoRecv` tells
apart, and the other client, which sends none, may come before or after that one
on the same number, and hang up. `MsgCh` has room for one message, so that it is
full. `Horizon`, `Levels` and `Packets` bound counters that the code does not
bound; `LevelsSuffice` says that no expiration lies beyond the last wheel.

Two clients on two descriptors let a number go from one client to the other; one
of them reconnects, and two timers of a kind per client (`Slots`) let a new one
be armed while the old one's task is under way. In `client_live` three packets
are the handshake and two messages, the second of which finds `clientReadCh`, with
room for one, full; `clientOnConnectCh` takes the one descriptor there is, so that
a full one, on which the same goroutine would block in the same way, does not
occur. What cannot be decoded is there a second key; `Client_reconnect.cfg` has a
packet of refused length too. `Tries`
is where `reconnectCount` stops counting; the client goes on trying. In
`Session`, bytes of four values and words of sixteen keep the wrapping, the sign
and the width of the key that the code's sizes have: p is the largest prime
below the word, two decimal digits fit a byte, a length needs the low bytes of
the head only. `MaxLength` is 20: the longer of the two messages that fit has
exactly that length when it is encrypted. With an empty key the one is taken for
a key and the other for a greeting. In `Registry` two
servers share all managers and the third leaves them half way, so that every
kind of manager is made by one call and found by another.

Properties that are proved (section 4) hold without these bounds.

**Deadlock** is not checked: a server without clients, or one that has been
stopped, has nothing to do.

### Fairness and schedules

Weak fairness of every goroutine of the program, and of the clock: Go's
scheduler is fair to runnable goroutines. No client has to connect, send or go
away, nobody has to call `Stop` or `Close`, and the garbage collector need not
run. In `Server` armed timers fire in the end, and the application takes its
messages, without which a full `MsgCh` would rightly stop an epoller. In `Client`
the application takes from both channels, the wheel's `Stop` need not return,
and strong fairness of `Dial` says
that a server that is dialled again and again answers in the end; dialling may
fail any number of times. In `Atomics` every goroutine that has begun goes on.

Where the code holds its promises only on some schedules, the specification says
which, and a violated run shows what happens on the others:

- `Prompt` (wheel): a call of `AfterFunc` ends before the wheel's goroutine
  works on a bucket and before the millisecond is over. `KeepsUp`: the clock
  does not run ahead of expired buckets. Microseconds against milliseconds, but
  not guaranteed.
- `Timely` (server): a heartbeat does not time out, and the application does not
  close a connection, while the accept goroutine is still registering it.
  Heartbeats take seconds, `AddConn` and `epoll_ctl` microseconds.
- `Calm` (client): a descriptor is not handed out again while a call of `DoRecv`
  or of `Close` still has its number in hand, and a client's reconnect timer
  neither fires nor moves between buckets while `DoRecv` closes that client. A
  reconnect timer waits for seconds.
- `Apart` (registry): no two goroutines make the same manager at the same time.
- `Whole` (atomics): a build loads the value whole, or nobody calls `Get` itself;
  the loads of the loops may be split, and `CompareAndSet` tells.

## 4. What is proved

| theorem | says |
|---|---|
| `DelayQueueProofs`: `TypeCorrect`, `HandshakeCorrect`, `WakeupsAreNotLost`, `ElementsAreNeverEarly`, `ElementsAreInOnePlace` | the invariants of run `queue`, for any number of callers, any expirations, any horizon |
| `DelayQueueProofs`: `Refinement` | `DelayQueue` implements `DelayedSet` |
| `TimingWheelProofs`: `TypeCorrect`, `BucketsAgree`, `TimersHaveOneFate`, `TimersAreNotLost` | `TypeOK`, `BucketAgrees` (`t.b` and the lists of the buckets agree), `OneFate` and `NoTimerLost`, for any number of timers and stops, any tick, size, delays, and every schedule |
| `TimingWheelProofs`: `TimersAreNotForgotten`, `FlushDoesNotDeadlock`, `BucketsAreEnqueuedOnce`, `PunctualTasksAreNotEarly` | `NotForgotten`, `NoSelfDeadlock` and `EnqueuedOnce` under `Prompt`, and `PunctuallyNeverEarly` of the specification of run `wheel`, for the same constants |
| `ServerProofs`: `TypeCorrect`, `MapIsNeverStale`, `LiveConnectionsAreServed`, `LiveConnectionsAreKnown` | `TypeOK`, `MapAgrees`, `Served` and `LiveIsKnown` under `Timely`, for any number of connections, descriptors and epollers, with and without the handshake |
| `ServerProofs`: `ConnectionsHaveOneReader`, `ReadsDoNotBlock`, `ConnectComesBeforeMessages`, `PanicsNeedAMixUp` | `OneReader`, `ReadIsReady`, `AnnouncedFirst` and `PanicIsMixed` (`CutCache` panics only on a connection of `mixed`) under `Timely`, for the same constants |
| `ServerProofs`: `ApplicationAgreesWithoutHandshake` | `AppAgrees` on every `Timely` schedule when there is no handshake |
| `LifecycleProofs`: `LifeTypeOK`, `ServesUntilCancelled` | `TypeOK` and `Serving`, for any number of epollers, callers of `Close` and clients |
| `RegistryProofs`: `RegistryTypeOK`, `RegistryOnTheWay` | `TypeOK` and `OnTheWay`, for any goroutines, servers and managers, under `Apart` |
| `RegistryProofs`: `RegistryImplements` | `Registry` implements `FlatMap` under `Apart` |
| `AtomicsProofs`: `AtomicsTypeOK`, `AtomicsImplement` | the counter keeps within its width, and `Atomics` implements `Counter` under `Whole`, for any number of goroutines and any width |
| `ClientProofs`: `ClientTypeOK`, `ClientMapAgrees`, `ClientHasOneSocket`, `ClientReadIsReady` | `TypeOK` and the invariants of run `client`, for any number of clients, descriptors, packets, tries and timers, under `Calm` |
| `SessionProofs`: `MultipliesModuloP`, `SecretsAgree` | `mul_mod_p` is multiplication modulo p, and both sides derive the same secret, which is an error only for a zero key: for words of any size, any prime above half of them and any generator |
| `SessionProofs`: `SessionTypeOK` | `TypeOK` of `Session`: until a message is sent early only bytes are on their way, and the key has sixteen bytes however short the secret |
| `SessionProofs`: `MessagesArriveInOrder`, `SidesShareTheKey`, `SidesCloseForCause`, `NothingRemainsOwed` | `InOrder`, `KeysAgree`, `ClosedForCause` and `NothingOwed` of run `session`, for any bytes, longest packet, messages, private keys and number of messages, sent at any time |

The assumptions are those the modules state of their constants (`DQAssumption`,
`WheelAssumption`, `ServerAssumption`, `LifecycleAssumption`,
`RegistryAssumption`, `AtomicsAssumption`, `ClientAssumption`, and those of
`Codec`, `KeyExchange` and `Session`); TLC evaluates them in every run. Those of
`Session` are that p is a prime between half a word and a word, as 2^64 - 59 is;
that a message is one that fits its packet: an `int32` uid, and a length whose
sum with the head fits four bytes (`MessageAssumption`); and that `Decrypt` of
xxtea undoes its `Encrypt` (`CipherAssumption`), which `MCSession` checks of the
functions in `XXTEA`. Each proof is an inductive invariant (`IInv`, `HInv` or
`Inv`), a lemma that `Init` implies it, a lemma that every step keeps it (one
step per action), and the theorems as consequences. A refinement adds that the
mapped initial state is one of the abstract specification and that every step
maps to a step of it or to a stutter.

- *Queue.* `IInv` adds to the invariants that the root is minimal
  (`HeadIsMinimal`) and where an element can be (`Placement`). `NoLostWakeup`
  needs the former: a new root smaller than the one Poll slept on is that of a
  caller that has yet to look at the flag.
- *Wheel.* `IInv` adds that a goroutine on its way is at a wheel that exists
  (`Chain`), so that an index stays in range, and that `Stop` and `Flush` work
  on timers that `AfterFunc` has inserted (`Control`). `OneFate` and
  `NoTimerLost` hold only together: a timer runs once because it is held once.
- *Server.* `IInv` adds that the kernel and the connections agree on
  descriptors up to `rawConn.Close` (`Owners`), that the map has exactly the
  connections that have entered and not left it (`Mapped`), that what is not
  being closed is registered and watched (`Watched`), and that only a
  connection in the map is received on or closed (`Accepting`, `Receiving`,
  `Closing`). The last is where `Timely` is used. `MapAgrees` alone is not
  inductive: that `RemovConn` removes nobody else's entry follows from `Owners`,
  since two connections cannot both be short of `rawConn.Close` on one number.
- *Server and application.* `Known` says that an announced connection that is
  not being closed has a descriptor of its own, which is among those the
  application believes connected: whose `OnClose` comes has that number no more
  in common with a live connection (`OwnDescriptor`). `Told` is the converse,
  which holds without the handshake, where the accept goroutine calls back
  before anybody can close.
- *Server with history.* `HInv` holds on every schedule, since it excepts what
  has been mixed up and says what has not: a connection is registered with its
  own epoller only (`Registered`), a descriptor of a batch that is not stale is
  still the readable socket it was (`Batched`), the goroutine attends to
  connections of its own epoller (`Attending`), has them where the call demands
  (`Handling`), and `hasRecvFlag` and the callback belong together (`Shaken`).
  A mix-up is then the only step that can give a connection a second reader.
- *Wheel under `Prompt`.* `PInv` is inductive together with `IInv`. It says what
  an interval check in `add` means for the slot: every bucket in use holds one
  window of its wheel, and two expirations of one bucket that its wheel spans at
  once are equal (`Queued`, `Fresh`). For that the clocks of the wheels must be
  nested and no goroutine may act on an old one (`Clocks`, `Walking`), which is
  where `Prompt` is used: while a caller adds, the receiver has no bucket
  (`Exclusive`). From it follow that a timer's bucket is in the queue or with the
  receiver (`Covered`, hence `NotForgotten`), and that `Flush` never puts a timer
  back into the bucket it has locked (`Flushing`, hence `NoSelfDeadlock`).
  `PunctuallyNeverEarly` adds what holds while the receiver has kept up: a
  bucket is handed over in its own tick (`OnTime`, `Due`, `Handed`).
- *Lifecycle.* `Serving` is not inductive: an accept goroutine stays in its loop
  because its listener is open. `AtWork` says so: until the context is done, no
  `Close` has come past the cancellation, and the listeners and epolls that the
  goroutines use are open.
- *Registry.* A goroutine on its way has read its manager in the past; `Inv` says
  that it is still where a fresh look-up would lead, because an `Add` only fills
  a place that is empty (which is where `Apart` is used), and that a manager has
  one place, so that an `Add` on one path changes no other server.
- *Atomics.* What is in `low` and `high` of a loop may be stale or torn; that
  `CompareAndSet` succeeds means that the number they make is the value now.
  Only a whole `Get` takes effect at its load.
- *Client.* `IInv` says in which order the goroutines that work on a client
  follow each other: the caller of `AddClientWith`, then the goroutine of
  `Start`, then one reconnect task at a time (`OneConnector`, where `Calm` keeps
  a timer from firing into a `Close`). From that follows that a descriptor is
  the socket of the client whose `conn` it is (`Sockets`), and what the map
  names (`Mapped`). `Batch` is about the descriptors that `Wait` returned: none
  is handed out again before it is looked up, which is what `Read` relies on.
- *Key exchange.* The functions are recursive, and the provers have no induction
  over operators: `Fixpoint` shows once, for functions, that a recursion whose
  arguments get smaller defines a function, and each induction is by the least
  counterexample (`Least`). A turn of the loop of `mul_mod_p` keeps `m + a * b`
  modulo p and both registers below p (`TurnKeepsProduct`), whichever of its
  sums wrap. `pow_mod_p` is then the power in the units modulo p, in which
  exponents commute; p being prime, no power is 0 (`PIsPrime`).
- *Session.* `Spells` says that the bytes a side has received and those on their
  way to it are, one after the other, the packets of a sequence; the invariant
  names that sequence for each side in each phase of the handshake (`Greeted`,
  `Offered`, `Replied`, `Failed`, `Talking`). Read moves bytes between the two
  parts and changes no packet, what is written comes behind those pending
  (`Sending`), and `ParsePacket` cuts off exactly the first one, asks for more
  or refuses a length above `MaxLength` (`Cutting`). In `Talking` the packets
  are those of the messages sent and not handed on, whence `InOrder`; that
  nothing is left when both sides wait needs that DoRecv has cut off all it
  could (`Resting`). `IInv` holds until a message is sent early, and every
  property but `ClosedForCause` ends there; that one has it as a cause.
  `Decoded` and `Packed` are about the codec: reading a message from its packet
  gives the message, the sign of its uid included.

**Only model-checked:** all liveness (`EventuallyDelivered`,
`OfferReturnsWhileRunning`, `EventuallyRuns`, `EventuallyClosed`,
`EpollReturns`, `StartEnds`, `LockFree`, and those of `client_live`), which needs
fairness and ENABLED; and that xxtea's decryption inverts its encryption, which
is an induction over the rounds and the words of the data.

## 5. Findings

1. **A timer can be forgotten** (`bucket.go:126`). `SetExpiration(-1)` comes
   after the unlock: a timer added in between, with the expiration the bucket
   still has, does not enqueue the bucket. Run `wheel_forgotten`.
2. **A listener is lost** (`server.go:88`). Every `startEpoll` assigns its
   listener to the one field; with two epollers the clients of the first
   listener are never accepted. Run `lifecycle_lost`.

More behaviours have a configuration of their own beside the runs (each ends
with the violation named):

| configuration | behaviour |
|---|---|
| `DelayQueue_exit.cfg` | `Poll` leaves on `exitC` while a caller is about to send on `wakeupC`: that `Offer` never returns (`delayqueue.go:168`), and a `TimingWheel.Stop` that waits for it does not either ("stuck" in `Client`). `OfferAlwaysReturns` |
| `TimingWheel_stop.cfg` | `Flush` removes a timer, which sets `t.b` to nil, and inserts it again: a `Stop` in between returns false for a timer that runs later (`bucket.go:120`). `StopTellsTheTruth` |
| `TimingWheel_stale.cfg` | `add` reads a stale `currentTime` and then a fresh one of the overflow wheel: the task is early (`timingwheel.go:69`). `NeverEarly` |
| `TimingWheel_prefetch.cfg` | a bucket is used again between its delivery and `b.Expiration()`: the clock jumps ahead (`timingwheel.go:151`). `NeverEarly` |
| `TimingWheel_twice.cfg` | two callers enqueue the same bucket with the same expiration (`timingwheel.go:82-86`). `EnqueuedOnce` |
| `Server_late.cfg` | a connection that is closed between `hasRecvFlag = true` and the callback is reported closed first and connected afterwards (`conn.go:275`); so is one whose key is still in the cache when `Close` resets the flag (`conn.go:157`). `AppAgrees` |
| `Session_early.cfg` | `Broadcast` or `WritePacket` with `SendAll` write a message in mid-handshake with an empty key; the other side takes it for a packet of the handshake and closes (`conn.go:281`, `client.go:507`). `NeverClosedByMessages` |
| `Lifecycle_panic.cfg` | `Server.Close` makes the accept goroutine leave, whose deferred `Close` closes `exitC` again and panics (`server.go:82`, `:257`). `NoPanic` |
| `Client_reconnect.cfg` | a client that has connected again has a new descriptor, which `ReConnect` enters neither into the epoll nor into the map: what its server sends is never received (`client.go:185`). `ReconnectedServed` |
| `Client_reuse.cfg` | without `Calm`: `Close` releases the descriptor and then takes its number out of the map, which may be another client's by then (`client.go:537`). `MapAgrees` |
| `Registry_race.cfg` | without `Apart`: two goroutines make the same manager, and the second `Add` replaces the first one with every server below it (`serverMap.go`). `ImplementsFlatMap` |

Larger or narrower instances on which everything holds: `Server_plain.cfg` (two
epollers), `TimingWheel_safety.cfg` (two calls of `Stop`, every schedule)
and `TimingWheel_punctual.cfg` (three timers, two wheels of three slots).

## 6. Not modelled

The binary buffers are cursors over byte slices that no other package imports:
sequential code without state that another part depends on, whose properties are
those of its arithmetic. The older client and packet code imports a package that
is not in the repository and does not build. The helpers convert, log and draw
random numbers; no other part depends on their state. The test programs start
the parts above with fixed parameters. Of the client instance, a `Close` that the
application calls while `Start` runs is left out: it closes the channels under
the goroutine that sends on them, and the listed hazard says what follows.

## 7. What could come next

`Session` and `Client` could be joined, so that a reconnect meets what is left
in the cache. That xxtea's decryption inverts its encryption could be proved in
the way of `mul_mod_p`. A `Close` of the client instance by the application
would add the panic on a closed channel to the table above.
