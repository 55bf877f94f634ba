# A TLA+ model of ShadowsocksQt

ShadowsocksQt is a shadowsocks proxy in C++ on Qt 5. In client mode it is a
SOCKS5 proxy that encrypts what a local application sends and passes it to a
shadowsocks server; in server mode it decrypts and passes the bytes on to the
destination the client named. This directory holds TLA+ modules for the parts
of it that have a behaviour worth checking, TLC configurations that check them
on small instances, and TLAPS proofs of what must hold on every instance.

Paths and line numbers below are those of the repository under `src/`.

## 1. The system

| Component | State | Operations | Talks to |
| --- | --- | --- | --- |
| `TcpRelay` (lib/tcprelay) | `stage`, `dataToWrite`, two sockets, a timer, an `Encryptor`, two `Address`es | slots for reads, errors, connection, lookup and timer; `close()` | `TcpServer` through queued signals, `Encryptor`, `Address`, the ban list |
| `TcpServer` (lib/tcpserver) | `conList`, the worker threads, a round-robin index | `incomingConnection`, `onConnectionFinished`, `listen`, `close`, destructor | one `TcpRelay` per connection, moved to a worker thread |
| `UdpRelay` (lib/udprelay) | the listening socket, `cache` (a socket per client), an `Encryptor` | two read slots, `listen`, `close` | `Encryptor`, `Address::blockingLookUp`, the ban list |
| `Encryptor` (lib/encryptor) | `enCipher`, `deCipher`, `enCipherIV` | `encrypt`/`decrypt` on a stream, `encryptAll`/`decryptAll` on datagrams, `reset` | `Cipher`; reads the Controller's `ep` by reference |
| `Address` (lib/address) | a name, its IP addresses | `lookUp` (asynchronous), `blockingLookUp` | `QHostInfo` |
| `Common` (lib/common) | the ban list, behind a mutex | `parseHeader`, `packAddress`, `banAddress`, `isAddressBanned` | |
| `Controller` (lib/controller) | `profile`, `ep`, `serverAddress`, `valid`, byte counters | `setup`, `start`, `stop`, destructor | owns `TcpServer` and `UdpRelay` |
| `AddressTester` (lib/addresstester) | a socket, a single-shot timer | connectivity and lag tests | `Client` |
| `ChaCha` (lib/chacha) | a block of key stream, the position in it, the block counter | `update` | used by `Cipher` with Botan older than 2 (cipher.cpp:21) |
| `Cipher`, `EncryptorPrivate` | method tables | `update`, construction | Botan, `ChaCha` |
| `Client`, `main` (client, main.cpp) | the profile, the Controller in use | `start`, `headerTest`, the slot for a test's verdict | `Controller`, `AddressTester` |

Who runs where: the Controller, the TCP server object, the UDP relay and the
tester live in the main thread; each TCP relay lives in one of the worker
threads and reports to the server by signals queued to the main thread. There
is no lock but the ban list's.

What is hard about it:

- **Re-entrancy.** Qt reports inside a call: `QAbstractSocket::close()` emits
  `disconnected()`, which runs `TcpRelay::close()` again before `stage` is
  DESTROYED; `connectToHost()` may succeed or fail before it returns; a lookup
  of an IP address answers inside `lookUp()`.
- **Results that come late.** A lookup or a connection may end after the relay
  was closed, and before it is deleted.
- **Queued signals and deletes.** `finished()` is emitted several times per
  relay and handled later, in another thread, and deletion is deferred.
- **Threads that stop.** `TcpServer::close()` ends the worker threads and
  leaves relays and queued events behind.
- **Segmentation.** A TCP segment may hold a part of the IV or of the header,
  and the two sides cut the key stream at different places.
- **Timers against answers.** A test's timer, its socket's errors and its answer
  each end it, and one of them must.
- **Boundaries.** `update()` hands a do-while loop a length of zero; the block
  counter carries into a word of the IV; a header's length check forgets the port.
- **Reconfiguration.** `setup()` changes the encryption method under encryptors
  that already hold an IV, and closes one of the two servers only.
- **Bans that race with their check.** The ban list's mutex is free again when
  `isAddressBanned()` returns (common.cpp:138). A worker thread may ban a peer
  while the main thread still makes its relay, or waits in `blockingLookUp()`
  with its datagram in hand.

What makes each component correct: a TCP relay passes on each byte once, in
order and encrypted under one IV, answers its client in order, and ends; the
server frees every relay once, when it is finished, and a ban stops every
connection but the one in hand; the UDP relay gives each client a socket of its
own, sends nothing while closed and never reuses an IV; the controller serves
the profile in force and nothing once it was stopped; a test gives one result.

## 2. The modules

### TcpRelay.tla

One relay, for both modes (`IsLocal`). The variables are the members of
tcprelay.h and what the model needs of Qt: the two socket states, the pending
lookup, whether the deferred delete was carried out, how often `finished()` was
emitted, and the streams written so far. A segment is its number and its form
(plain, encrypted, or encrypted behind the IV); no byte is modelled.

An action is one slot with everything that runs inside it:

| Action | Code |
| --- | --- |
| `OnLocalTcpSocketReadyRead` with `LocalStream`, `LocalGreeting`, `LocalHold`, `HandleStageAddr`, `LocalIgnored` | tcprelay.cpp:179-223, 79-132 |
| `OnRemoteTcpSocketReadyRead` | 225-235 |
| `OnDNSResolved`, `ConnectToHost` | 144-154, inside `LookUp` when the address is an IP |
| `OnRemoteConnected`, `Flush` | 160-167 |
| `OnLocalTcpSocketError`, `OnRemoteTcpSocketError`, `OnTimeout` | 134-142, 169-177, 237-240 |
| `LocalDisconnected`, `RemoteDisconnected` | the `disconnected` connections, 36 and 48 |
| `OnLookUpFinished` | address.cpp:96-103 |
| `Delete` | the `deleteLater()` of tcpserver.cpp:74 |

`Close(s, l, r)` is `close()` called with stage `s` while the sockets are in
states `l` and `r`; the re-entered calls are counted in `finished`. What the
header parser can answer is `HeadersSeen`: a well-formed header that arrives
whole is accepted; one that is cut, malformed or decrypted from the wrong IV
may or may not parse (the length check at common.cpp:78 leaves out the port).

### OrderedChannel.tla

The abstract specification of a direction of a relay: segments are accepted,
held or passed on, and leave in order, once each, the first behind the IV on
the encrypting side; a channel that holds something passes it on or closes.
`TcpRelay` implements it with `accepted <- nUp`, `delivered <- toRemote` and
`closed <- finished > 0` (`Up`, property `UpstreamChannel`).

### RelayLife.tla

What `TcpRelay` and `TcpServer` count on of each other, as the life of one
relay: made, `finished()` at most `MaxFinished` times, deleted, and not before
it has finished unless the server goes away. `TcpRelay` implements it for the
relay it describes (`alive <- ~deleted`, `emitted <- finished`, `MaxFinished`
4), `TcpServer` for every address a relay can live at (`Life(a)`, with
`stopping` once the destructor runs). This is what allows `TcpServer` to see of
a relay no more than its emissions: it lets a relay emit whenever the contract
does, and `TcpRelay` never does more. Property `LivesAsPromised` of both.

### TcpServer.tla

The server, its worker threads and the event queues. A relay is an address;
what it does is reduced to emitting `finished()` and banning its peer. `phase`
says where the main thread is: idle, or blocked in `QThread::wait()` inside
`close()` or the destructor while the threads run on. A thread that leaves its
loop carries out the deferred deletes posted to it, as Qt does.
`incomingConnection()` is two actions: the check of the ban list (lines 41-50)
and the making of the relay (`newTcpRelay`, 52-67), with the peer in `accepting`
in between, when the main thread does nothing else (`MainLoop`) and the worker
threads go on, also banning. `ReusesAddress`
says whether the allocator may give a new relay an address that a queued
`finished()` still names.

### UdpRelay.tla

Both read slots, `listen`, `close`, and the calls the Controller makes:
`setup()` and `stop()`. The slot that forwards a client's datagram is two
actions: all up to `blockingLookUp()` (lines 79-149), and `writeDatagram`; in
between the datagram is `sending`, the main thread does nothing else, and a TCP
relay's thread may ban the client (`banAddress`). `isListening` is
`listenSocket.isOpen()` (udprelay.cpp:39). It is FALSE, and no test of
`listening`: in Qt 5 `bind()` puts a `QUdpSocket` in `BoundState` and leaves the
open mode of the `QIODevice` as it was, closed. So `setup()` assigns the method
and never closes the relay. Qt is not in the repository; should a version of it
open the device in `bind()`, this is the one definition to change.
`out` is the last datagram sent together with what it should have been (the
client its socket was made for, the IV length in force), so that properties of
all datagrams are properties of single states. A method is its IV length. When
a cipher is given an IV of another length, some libraries' ciphers refuse it,
which ends the program, and some do not mind: `aborted` may become TRUE. It also
may when `deCipher` is used after its cipher was deleted: `decryptAll()` leaves
the pointer behind when a datagram is too short to hold an IV, and what the next
call does with it is undefined. `valid` is `ep.isValid()`: `setup()` may name a
method the library lacks.

### Sessions.tla

What the UDP relay promises, without sockets and ciphers: a client that sends
to the open relay, and is not banned, has a session until the relay closes; a
datagram comes back only to a session; each datagram that leaves encrypted has
an IV no other had; and a ban stops all datagrams but the one that was `taken`
before it. `UdpRelay` implements it with `session` the clients that have a cache
entry, `taken` the client of the datagram in `sending`, `nextIV` the number of
the IV that the next datagram to leave gets and `last` what `out` says of the
last one (`Outside`, property `KeepsSessions`).

### Controller.tla

The composition: `TcpServer` and `UdpRelay`, instantiated with their variables
under other names where they clash, one ban list for both, and what
controller.cpp does to them.

- A call of `Controller` that closes the TCP server blocks the main thread in
  `QThread::wait()`. It is two actions, and `task` says which call is under way:
  `setup` and `setupClosed`, `stop` and `stopClosed`, `destructor`, `stopClosed`
  and `deleteChildren`. In between only worker threads move (`Worker`,
  `threadFinished`); the slots of the two servers (`TcpSlot`, `UdpSlot`), the
  resolver's answer and the application's calls need an idle main thread
  (`MainLoop`). With the TCP server closed, `setup` is one action. The two slots
  that check the ban list are under way until `newTcpRelay` or `writeDatagram`
  ends them.
- `start` listens with the TCP server first and then with the UDP relay. The
  second may fail, and does so when the relay is still bound.
- `serverAddress` is `ip`. `lookups` counts lookups by the name asked for; the
  answers come in any order, or fail.
- `openedFor` and `boundFor` record with which profile the TCP server and the UDP
  relay were last opened, `announced` the last `runningStateChanged()`.

### Proxy.tla

What the Controller is to the application: a proxy in two halves, one for
connections and one for datagrams, each closed or open for a profile, and
nothing moves through a half that is closed. `stop()` closes both. `setup()`
changes the profile and closes the first only; the second stays open for the
profile it was opened for, and a `start()` that finds it open opens the first
and announces nothing. `Controller` implements it (`Outside`, property
`ActsAsProxy`): while `setup()` has assigned the new profile and still waits for
the threads, the mapping takes the profile the TCP server was opened for, since
that is the one relays go on for.

### ChaCha.tla, Header.tla

Operators, not machines. `ChaCha`: a cipher is a record (`m_state` reduced to
its two counter words, `m_buffer` to the counter of the block it holds,
`m_position`), and `update()` is taken apart into its call, one round of its
loop (`Round`, while `Loops`) and what follows the loop (`Rest`). `xored` and
`total` record which key bytes were used. A key byte is known by its block and
its place in it. The reference is `KeyByte(h, i)`, byte i of the stream whose
first block has the high word h. `BLOCK` and `WORD` are constants, 64 and 2^32
in the code. `Header`: `packAddress` and `parseHeader` on sequences of bytes. A
host name is taken to be one that `setAddress()` keeps: its decoding from UTF-8
and its trimming (address.cpp:57) are not modelled.

### Tunnel.tla, MCTunnel.tla

One encrypted connection, byte by byte: `encrypt()` at the client (the
`TcpRelay` of a client, or an `AddressTester`, which sends header and request in
one call), TCP, `decrypt()` at the server, and the header parser and the stages
INIT and DNS of its `TcpRelay`. A call of `update()` is `encrypt` or
`ReadyRead`, then a step per round, then `EncryptReturns` or `DecryptReturns`,
in which the slot goes on with what it got; both sides interleave. Where the
server lost the IV, what it decrypts is noise and the parser may answer
anything (`Garbage`). `TcpRelay` treats the same code by segments: it has the
sockets, this has the bytes. `MCTunnel` gives the instance its destinations.

### AddressTester.tla, Client.tla

`AddressTester`: for each tester its socket, its timer and what it has reported
of the current test; an action is a slot. `connectToHost()` may answer before
`connectToServer()` returns. A host name's address is null, and connecting to it
never succeeds. `Client`: `start()` makes a Controller and (in client mode) a
tester; the old Controller and a tester with a verdict wait for the event loop
to delete them. A Controller is the port it listens on. `AppTesters` are those
of another application of the library, which uses a tester for both tests, one
after the other; the header (addresstester.h:33) forbids both at a time.

### The proof modules

`TcpRelayProofs`, `TcpServerProofs`, `UdpRelayProofs`, `ControllerProofs`,
`ChaChaProofs`, `TunnelProofs` and `ClientProofs`, section 4.

## 3. What TLC checks

| Run | Instance | Shows |
| --- | --- | --- |
| `relay_local` | client mode, 3 segments up, 2 down | see below |
| `relay_server` | server mode with autoban, 3 up, 2 down | see below |
| `server` | 2 addresses, 2 peers, 2 threads, 3 emissions each | accounting, deletion, bans, reaping |
| `udp` | both modes, 2 clients, 3 sockets, IV lengths 8 and 16, 4 IVs | cache, routing, IVs, sessions, bans |
| `controller` | server mode with autoban, 2 peers, 1 relay, 1 thread, 1 UDP socket, a server by name and one by IP | the composition, see below |
| `tunnel` | a host name and an IPv4 destination, 2 bytes of payload, blocks of 3 bytes, counter words of 1 bit, an IV of 2 bytes | the key stream, decryption and the header, under every cut |
| `client` | 2 starts, their testers and one of another application, 2 ports | one verdict a test, one Controller, every test answered |
| `relay_ban`, `server_reuse`, `udp_iv`, `controller_lookup`, `controller_setup` | as small as the case allows | section 5 |

Properties of the relay: `UpstreamIntact` (nothing lost, doubled or reordered
between the stages), `StageMatchesSockets` (also for a relay that a late lookup
revives), `ClientStreamWellFormed` (the SOCKS5 answers, then the data; one IV),
`ClosedToClient` (after `finished()` nothing passes on the client's side),
`BannedNeverConnected`, `UpstreamChannel` (the refinement, with liveness),
`LivesAsPromised` and `SilentConnectionCloses`. `relay_local` checks the
invariants and the channel; `relay_server` the ban, which only a server makes,
the stream to the client with its IV, which a server sends with the first
answer, the contract with the server and, again, that a relay ends. That the
other invariants hold in server mode too is a matter of the proofs, which treat both
modes. Of the server: `NoOrphan`, `LiveRelayKept`, `LivesAsPromised`,
`DestroyedLeavesNothing`, `BanHolds` (a ban is for good and, whenever a thread
makes it, spares one connection at most, the one that had passed the check) and
`FinishedRelayFreed`. Of the UDP relay: `CacheSound`, `OwnSocket`,
`ClosedIsQuiet`, `IVUsedOnce` and `KeepsSessions`, which has the bans: with the
check and `writeDatagram()` apart, "no banned client is served" is false. Of the
Controller: `ListensForProfile` (a TCP server that listens was opened with the
profile in force and a usable method, and what was announced last is what the
UDP relay does, whichever step of `start()` failed), `StoppedIsQuiet` (nothing
happens to a connection while the TCP server is closed, and no datagram leaves
after `runningStateChanged(false)`), `BannedEverywhere` (a ban made for one
protocol holds for the other, also while a call is half done, and spares one
connection or one datagram, not one of each), `ActsAsProxy` and `CallsReturn`.
Of the tunnel: `KeysInOrder` (byte i meets byte i of the key stream on both
sides), `KeyUsedOnce` (no two bytes sent share a byte of the key stream, across
overflows of the counter's words), `StaysInBuffer` (no round, not even one for
no byte, leaves the block), `Deciphered` and `HeaderUnderstood`: a whole header
is never refused and gives the destination that was packed and the payload
behind it; of cut ones only a host header passes, and only without bytes of its
port, which then go to the destination ahead of the payload. Of the client:
`OneVerdict` (and the socket closed and no timer left when it is in),
`TestAnswered` (a started test reports a latency or an error, and a verdict,
unless its server has accepted and keeps silent) and `OnlyTheLastProxy` (the
others are due for deletion, and the last listens if `start()` said so). Each
module has one type invariant; the relay's also bounds the number of
`finished()` emissions, the server's keeps the round-robin index in range, the
UDP relay's keeps deferred deletes to living sockets.

**Bounds.** Three upstream segments are a first one (with the IV, or the header),
one that is held with it and one that follows when remote is connected; a
fourth adds no new case, and the proofs hold for any number. Two downstream
segments tell the one that carries the IV from the others. Two addresses are
enough for one relay to be mistaken for another, three emissions for a repeat
to wait while another is handled (a relay emits at most four times, by
`TypeCorrect`; the proofs hold for any number); the queue bound is never
reached. Three UDP sockets let one wait for its delete while both clients have
another; four IVs allow a use, a reset and two more. `controller` checks how the
parts meet, not again what each does alone, so one relay, thread and socket
suffice; two peers tell the banned one from another, and the two servers give two
profiles, so that the profile in force may differ from the one opened with.
`tunnel`: with blocks of 3 bytes and words of 1 bit a stream of 8 or 9 bytes
crosses three blocks, the low word overflows within it, and from an IV whose
word is 1 the high one too; calls and segments end inside blocks, on their ends
and inside the IV and the header. The proofs hold for the code's 64 and 2^32.
`client`: two starts are one Controller replacing another; the third tester is
the one that is used again. In client mode a start is followed by every order of
connection, answer, error and timeout.

**Fairness.** `TcpRelay`: the event loop delivers timer events, lookup results
and the end of a connection attempt (Qt gives one up after 30 s); no traffic is
assumed. A read restarts the timer, but the bounds make every behaviour fall
silent, so the timer's fairness is that of a silent connection. `TcpServer`:
the main loop handles queued events, a thread carries out deferred deletes and
obeys `quit()`. Nothing is assumed about clients, destinations, or when the
server is closed. `UdpRelay` and `Tunnel` have safety properties only. `Client`:
the event loop fires a running timer and carries out deferred deletes; neither
an answer nor the end of a connection attempt is assumed, since the timer is
there for that. `Controller`:
a thread told to quit does, and `wait()` returns once all have; that the
application calls anything is not assumed.

Deadlock is checked for `TcpServer`, whose only final states are the destroyed
ones. A relay stops when it is deleted, and the UDP relay when the cipher
library ends the program, so those configurations switch the check off; so does
the Controller's, for both reasons: it ends destroyed, or aborted. `tunnel` ends
when all is sent and read, `client` when the bound on starts is reached and no
test is under way.

## 4. What is proved

TLAPS proves, for any value of the constants:

- **TcpRelay**, from `RelayAssumption` (the modes are Booleans, the bounds
  naturals): `TypeCorrect`, `StageAgrees`, `UpstreamIsIntact`,
  `ClosedMeansClosed`, `BannedMeansUnconnected`, `ClientIsAnswered`,
  `ImplementsChannel` (the safety part of `UpstreamChannel`) and `PromisesKept`
  (the contract with the server, both from the same invariant). The inductive
  invariant `IInv` adds to the properties where upstream data can be
  (`UpstreamHeld`: all held, all written, or thrown away by a relay that has
  closed) and how many runs of `close()` are still possible (`FinishedSoFar`).
  Neither property is inductive alone: a relay that has closed and is revived by
  a late lookup passes through CONNECTING and STREAM again, and only
  `FinishedSoFar` tells that it cannot do so twice. `ClientIsAnswered` adds
  `Answers`: while the relay is open, how long the stream to the client is
  follows from the stage (client mode) or from what remote has sent (server
  mode), and with it which segment comes next. `BanPrecedesFinish` says of a
  relay what `TcpServer` takes for granted: a ban is made in the step that
  closes an open relay, so it stands when the server handles the first
  `finished()`.
- **TcpServer**, from `ServerAssumption`: `ServerTypeCorrect`,
  `NothingOrphaned`, `DestructorFreesAll`, `BansHold`, and `NoConnectionCut`,
  which assumes `~ReusesAddress`. The invariant adds that the threads run while
  the server listens (`ThreadsFollow`), that a connection is in hand only while
  the main thread does nothing else (`CallsWait`), that in the destructor every
  relay left is due for deletion in a thread that still runs
  (`DestructorCatchesAll`), and that nobody is banned unless asked.
  `NoConnectionCut` also needs that a queued `finished()` names a relay that has
  finished (`QueueNamesFinished`), which is what address reuse breaks. From the
  two together (`NoneCut`) follows `RelaysLiveAsPromised`: for each address,
  every step of the server, those of the other relays, the threads and the
  destructor included, is a step of `RelayLife` or a stutter. With
  `PromisesKept` the contract is proved from both sides.

- **UdpRelay**, from `UdpAssumption`: `UdpTypeCorrect`, `CacheIsSound`,
  `EachItsOwnSocket`, `NoIVTwice`, `ClosedRelayIsQuiet`, `BansSpareOne`.
  `IInv` adds that a relay that listens or owns a socket was given a method, and
  that one that does not listen remembers no socket (`ListenOK`), which is why
  doomed sockets that go on receiving have nobody to send to. That each datagram
  is its client's rests on `CacheSound` at the time it is sent. `SessionsKept`
  is the refinement of `Sessions`: `close()` ends every session (`CloseLooks`), a
  datagram that is taken makes one (`ForwardLooks`) and leaves with the IV it was
  given (`WriteLooks`), and an answer finds its client in the cache, so has one.
  What is under way (`SendingOK`) has an IV older than the next, which `reset()`
  cannot give a second time. `BansSpareOne`: a ban made at any moment, the wait
  for a name server included, lets the datagram in hand go and no other.
  `OnlyFirstIVMisfits` bounds the finding `udp_iv`: with the method unchanged, an
  IV that fits is followed by one that fits, and so is any that a datagram used.
- **Controller**, from `ControllerAssumption` and the assumptions of its parts:
  `OpenForTheProfile` and `QuietAfterStop`, from an invariant that relates what
  listens to `openedFor`, to the running threads and to the UDP cache, that
  exempts the time in which `setup()` has assigned the new profile and still
  waits for the threads (`OpenedForProfile`), and that says that a slot under
  way has a listening server and an idle Controller around it (`HandOK`) and
  that what was announced is what the UDP relay does (`AnnouncedIsUdp`). Then,
  compositionally: `TcpInContext` and `UdpInContext` show that a step of the
  whole is a step or a stutter of each part as its own module describes it (a
  ban made by one is the environment action `banAddress` of the other, and the
  relays' peers are UDP clients by the server's own type theorem), and so the
  theorems of `TcpServerProofs` and `UdpRelayProofs` hold for the parts in
  context. From them follow `ControllerTypeCorrect`, `UdpPromisesKept`,
  `ServerPromisesKept` (frozen relays stay accounted for) and `BansHoldForBoth`;
  the refinements of `Sessions` and `RelayLife` are carried over in the same
  way. `BansHoldForBoth` needs, beside the two parts' theorems, that the main
  thread has one thing in hand at a time (`OneHand`). `ActsLikeAProxy` is the
  refinement of `Proxy`. It needs one more invariant, that what is open was
  opened for a profile (`OpenedForOne`), and that a closed server keeps its
  relays as they are and sends nothing (`ClosedKeepsRelays`,
  `ClosedSendsNothing`, which also give `QuietAfterStop`).
  `OnlySetupLeavesItOpen` bounds the finding `controller_setup`: a UDP relay
  that listens for the profile in force goes on doing so unless `setup()`
  changes the profile while it listens; `stop()` before `setup()` avoids it.
  `WrongOnlyByLateAnswer` bounds the finding `controller_lookup`: an address
  that is right, with no lookup of another name under way, stays so, unless
  `setup()` is called during a lookup.

- **ChaCha**, from `CipherAssumption`: lemmas for `Tunnel`. Every piece of
  `update()` keeps the cipher in step with its key stream (`InStep`), whose
  counter is the carry of chacha.cpp:106 (`CounterCounts`); and the reference
  stream `KeyByte` does not meet itself before the two words have gone through
  all their values (`StreamNeverRepeats`, arithmetic that says nothing of the code
  by itself).
- **Tunnel**, from `TunnelAssumption`: `TunnelTypeCorrect`, `KeyStreamInOrder`,
  `NeverPastTheBlock`, `DecryptsTheStream`, `UnderstandsTheHeader` and
  `NoKeyByteReused` (2^70 bytes in the code; it follows from `KeyStreamInOrder`,
  where the carry comes in, and `StreamNeverRepeats`), for any destinations,
  payload, IV length, block and word. The invariant says where the server's
  cipher stands in the stream (as many bytes used as were read behind the IV),
  that what it returned is a beginning of what the client sent (`ServerInv`),
  and that once the header was parsed the rest of it is what goes on
  (`RelayInv`). The header's part rests on what `parseHeader` makes of any
  beginning of a packed header (`HeaderOfPrefix`).
- **Client**, from `ClientAssumption`: `ClientTypeCorrect`, `VerdictsOnce`,
  `LastProxyListens`. The invariant says, for each tester, which reports go with
  the state of its socket and timer (`Consistent`), and that what was printed are
  the verdicts (`PrintInv`): only so is a verdict printed at most once.

Each action has a lemma that it keeps the invariant; `Invariance` puts them
together with the temporal rule.

Only model-checked: the liveness properties `SilentConnectionCloses`,
`FinishedRelayFreed`, `CallsReturn` and `TestAnswered`, and the channel's
liveness, which are out of the prover's reach: they rest on fairness. Every
invariant, every action property and every refinement that a passing run checks
is proved, that of the channel in its safety part.

## 5. Where the code does something else than is said of it

- `relay_ban`: main.cpp:34 says that IPs that send a malformed header are
  banned. A well-formed header that arrives in two segments, or after a segment
  shorter than the IV, bans its sender too (tcprelay.cpp:102, encryptor.cpp:46).
- `server_reuse`: the comment at tcpserver.cpp:72 knows that `finished()` comes
  several times. The guard recognises a relay by its address, so a repeat that
  is still queued when the address was reused deletes a live relay. Nothing else
  does: `NoConnectionCut` is the same property without reuse.
- `udp_iv`: the first datagram encrypted after start has an empty IV, since it
  was drawn before the method was known; `setup()` with another method leaves the
  IV at hand of the old length, whether or not the Controller was stopped before
  (encryptor.cpp:12-26). `OnlyFirstIVMisfits` says that these are all the cases.
- `controller_lookup`: controller.h:31 says that `setup()` also changes the
  profile of an existing Controller. The lookup that an earlier `setup()` began
  is not cancelled, and its answer becomes the address of the new server
  (controller.cpp:86, address.cpp:100). `WrongOnlyByLateAnswer` says that an
  address goes wrong in no other way.
- `controller_setup`: the same sentence. `setup()` on a Controller that runs is to
  close both servers (controller.cpp:98-103), but asks the UDP relay whether it
  listens, which says no (udprelay.cpp:39, section 2). The relay keeps the old
  local port, with the new method, until `stop()`; the `start()` that follows
  opens the TCP server, cannot bind the UDP one and returns false.
  `OnlySetupLeavesItOpen` says that nothing else leaves it so.

Met on the way, and not a run of their own:

- `setup()` closes a running TCP server without the `runningStateChanged(false)`
  that controller.h:45 leads one to expect (`announced` stays TRUE).
- README.md:31 says that one-time authentication was removed. The server still
  cuts the ten bytes of its code off every UDP payload that holds as many
  (udprelay.cpp:144). A datagram of the model carries no bytes.
- tcprelay.cpp:207 logs of a client that does not speak SOCKS5 that it was
  rejected; it is sent a refusal and then served on.
- `bytesReceived` and `bytesSent` have no initial value (controller.cpp:11).
- `~Controller()` stops the threads before `~TcpServer()` posts its deletes to
  them, which are then never carried out.
- `decryptAll()` keeps a pointer to a deleted cipher (encryptor.cpp:74).
- main.cpp:31 offers a connection timeout. The timer of a relay is started by
  reads only (tcprelay.cpp:39), so a connection on which nothing ever arrives
  stays open.
- addresstester.h:27 says that a server that times out gives the verdict false.
  The timer is stopped when the socket connects (addresstester.cpp:72): of a
  server that accepts and then keeps silent nothing is ever said. `TestAnswered`
  holds with that exception (`WaitsForEver`), not without it.
- client.cpp:85 tests `getFirstIP()` of an address nobody has looked up: for a
  server given by name it is null, and the test always fails.
- `Client::start()` called again on the same port finds the old Controller still
  listening (client.cpp:74) and returns false; main.cpp calls it once.
- A host header that lacks its port passes (common.cpp:78): the port is read past
  the end, and the port's bytes, when they come, go to the destination.
- `exclusive_or()` called for no byte (chacha.cpp:130) touches one all the same:
  the key byte is inside the block, the byte it writes is the terminating zero of
  the `QByteArray`.

## 6. What is not modelled, and the plan

Of the Controller, the byte counters are left out (plain sums), and so is the
method that encryptors of open TCP relays see when `setup()` assigns `ep` under
them from another thread. After the server has closed they are frozen, but a
later `start()` wakes them with their old ciphers and the new `ep`.

Of the Client, the option parser and the configuration file are left out: what
they yield is an input of `start()`. `AddressTester` latencies are one value.
`ChaCha` takes the rounds as a function of the counter, and a name that spells an
IP address, which `setAddress()` would turn into that address, is left out of
`Header`.

Next, should the project go on:

1. **The method of a TCP relay's encryptor** across `setup()`, as a choice that
   `TcpRelay` makes when it sets up a cipher.
2. **Tunnel in both directions**: the downstream direction uses the same
   operators with the two ends exchanged.
3. **Proofs**: `Client` against an abstract test (idle, running, answered), as
   the other components are against theirs; and what the destructor of a
   Controller leaves behind (the relays that `~TcpServer()` cannot delete), for
   any number of them.

Left out for good: the arithmetic of the ciphers (Botan, and the rounds of
ChaCha), logging and latency figures, option parsing, and the chunk and header
authentication of encryptor.cpp:85-154, which nothing calls.
`UdpRelay::onClientDisconnected()` cannot run (an unconnected `QUdpSocket` emits
no `disconnected()`), and a datagram larger than `RemoteRecvSize` cannot exist.
