# eIPC verification

TLA+ models of eIPC (the Go server, client, endpoints, transports and services,
and the C SDK), TLC configurations that check them on small instances, and
TLAPS proofs of the results that matter most. `PROJECT.json` maps every
definition to the source lines it models and lists runs, mutants, findings,
hazards and theorems.

To check a model: `tlc -config MCServices.cfg MCServices`. To check the
proofs: `tlapm SecurityProofs.tla` (and `SystemProofs`, `LinkProofs`,
`RoutingProofs`, `TensorProofs`, `ShmRingProofs`, `EasySdkProofs`,
`LoopTheorems`). `tlapm` checks the largest of them in some minutes.

## The system

A client program dials the server over TCP (or TLS, a Unix socket, a Windows
pipe, or a shared-memory ring). The server takes a slot for the connection and
starts a handler and a timer. The peer names its service, the authenticator
draws a nonce, the peer answers with an HMAC of it, and the authenticator grants
a session. From then on the handler reads messages: a MAC is verified if the frame
is flagged to carry one, as those of the endpoints are, the replay tracker must accept
the sequence number, the session must not have expired, the peer must hold the capability the message names, and the handler
the router finds must find the action permitted. Endpoints number and sign
messages; the connection wrapper writes a length prefix and a frame. The broker
forwards messages to subscribers. Beside these the repository has services that
a program calls from its own goroutines: a keyring with keys that expire and
rotate, a policy engine that judges actions by a table of rules, a router that
handles batches by priority, a heartbeat sender and the health service that
records its beats. Tensor descriptors name regions of shared memory, travel in
messages, and are kept disjoint by a registry. The C SDK is a separate
implementation of client and server.

| Part | Source | Module | Status |
|---|---|---|---|
| Replay protection | security/replay | ReplayGuard, ReplayTracker | modelled, proved |
| Authenticator | security/auth | Authenticator | modelled, proved |
| Capability checker | security/capability | EipcServer | as the server uses it |
| Server program | cmd/eipc-server | EipcServer | modelled, proved |
| Client program | cmd/eipc-client | EipcSystem | modelled, composed with the server, proved |
| Endpoints, framing | core/endpoint.go, protocol/frame.go, transport/transport.go | FrameLink | control modelled, proved |
| Keyring | security/keyring | Keyring | modelled, proved |
| Policy engine | services/policy | PolicyEngine | modelled, proved |
| Router | core/router.go | Router (and EipcServer) | modelled, proved |
| Heartbeats, shutdown, health service | core/lifecycle.go, services/health | Heartbeat | modelled but for Backoff, proved |
| Shared-memory ring | transport/shm | BoundedQueue, ShmRing | modelled, proved |
| Tensor descriptors | protocol/tensor.go | TensorDescriptor, TensorCodec | Validate, Encode, DecodeTensor, proved |
| Tensor messages | protocol/tensor_message.go, core/tensor_message.go | TensorCodec | modelled, proved |
| Tensor registry | protocol/tensor_registry.go | TensorRegistry | modelled, proved |
| Broker | services/broker | Broker | modelled, proved |
| C SDK | sdk/c/src/eipc_{easy,client,server,transport}.c | EasySdk | partly modelled, proved |
| Service registry, configuration, command-line tool, other transports, cryptography, byte layout | | none | see "Not modelled" |

What can go wrong in each is under "hazards" in `PROJECT.json`, at the line
where it bites.

## Modules

**ReplayTracker** is `replay.Tracker`. `Check` is the choice of `Refuse`,
`Advance` and `Fill`, the branches of the method; `Advance` includes the call of
`cleanup`. The history variable `accepted` counts how often each number was
accepted since the last `Reset`. **ReplayGuard** is what the tracker promises:
a filter that lets a number through at most once and may refuse old ones.

**Authenticator** is `auth.Authenticator`. A nonce is its position in the list
of challenges drawn, and a response is the nonce whose HMAC it is, or `BadMac`.
`VerifyResponse` consumes the pending challenge and compares in one step because
the method holds `a.mu` throughout. Time is `now`, moved by `Tick`; a session
keeps the TTL in force when it was granted. `CreateChallengeFails` and
`VerifyResponseFails` are a failing `rand.Read`, which `RandMayFail` switches
off in the server's models: with the Go version of `go.mod` it cannot fail.

**Keyring** is `keyring.Keyring`. `Lookup`, `Generate` and `Rotate` hand out the
entry the map holds, so entries are objects with an index and the map takes names
to indices: a holder sees the revocation of an entry the map has forgotten.
`Generate` and `Store` build their entry before they take the lock, which is two
steps (`Build`, `File`); the other methods are one step each. `RotateFails` is the
error return of Rotate after the old entry was revoked and refiled; with the Go version
of `go.mod` `rand.Read` never takes it.

**EipcServer** extends Authenticator with the accept loop, `connSem`, the
cleanup goroutine and, for each connection, the handler of `handleConnection`
(`pc`) and the handshake timer. Labels of `pc` are the points between two
calls that other goroutines can observe: every receive and send, and every call
on the authenticator. Of the peer nothing is assumed but what HMAC promises. It may name
any service, registered or not, answer with the HMAC of any nonce drawn so far, also of
one sent on another connection (the secret is shared, and `VerifyResponse` knows the
service only), with a wrong one or with something that does not decode, send any message
of the kinds in `Traffic`, close, or be silent. The action an intent asks for is a field
of its own, because its handler checks a fixed action and logs the one asked for.
`late` records that a message arrived after its session had expired, and
`rivals` which handshakes for the same service overlapped.

**EipcSystem** composes EipcServer with `cmd/eipc-client`, one run of it per
connection, through two ordered streams. When a side closes with data unread the
other may lose what it has not read. The client may be interrupted.

**FrameLink** is one direction of a connection: goroutines that share an
endpoint, `ConnWrapper.Send` with its two writes, and the receiver, which reads a
prefix and then as many bytes as it says. `Direction = "toServer"` is a
`ClientEndpoint`, which takes no lock, towards a `ServerEndpoint`, which checks
for replays with an INSTANCE of ReplayTracker; `"toClient"` is the reverse, with
`sendMu` and no check. Frames are the signed ones that `Send` makes.

**ShmRing** is the ring buffer with its lock and the unlocked `Len`, whose two
loads are two steps. **BoundedQueue** is a FIFO queue with a capacity; the slots
between tail and head are shown to be one.

**TensorDescriptor** is `TensorDescriptor.Validate` on integers of width `W` that
wrap as Go's do, written as a recursive function over the dimensions.
**TensorRegistry** adds `Register` and `Deregister`. **TensorCodec** adds the wire
format (`Encode`, `DecodeTensor`) and the messages that carry descriptors
(`MessagePayload`, `TensorFromPayload`). The wire is a sequence of units that
`io.ReadFull` reads whole: a byte, an integer of 8 bytes, a length of 2. Integers
change between signed and unsigned as in the code, and lengths wrap at their width.

**Broker** is the broker: subscribers and routes under the lock, then one step
per endpoint sent to. Close makes every later Send of a socket fail; the Close of a
shared-memory connection does nothing, and Send goes on to succeed. The histories
`members` and `changed` hold who is subscribed, and who came or went during each call.
**PolicyEngine** is `policy.Engine`: `Evaluate` is called,
copies rule and default under the read lock (`Read`), and judges without it
(`Decide`), while `AddRule`, `RemoveRule`, `SetDefaultDeny` and `LoadSafeDefaults`, rule
by rule, change the tables. The history `inForce` collects what the tables would
have answered at each moment of the call. A rule whose verdict is none of the three
constants (`"other"`) falls through the switch: the request is not allowed, though the
Verdict of the result is the zero value, VerdictAllow.

**Router** is `DispatchBatch` against `Handle`. The heap of container/heap is modelled
with its `Init`, `Pop` and `down`, since the order of equal priorities depends on it.
**Heartbeat** is `HeartbeatSender` with its ticker and select, the peer's health
service, and `GracefulShutdown` of the endpoint. Time is kept as ages that saturate,
so that it can pass for ever and liveness means something.

**EasySdk** is the easy API of the C SDK with the layers
below it. Frames are their sequence numbers; a receive for one type consumes a
frame of another type, which is why types do not appear. A frame that is refused is
consumed too, and does not advance the server's counter.

## Runs

| Run | Checks | Bounds |
|---|---|---|
| security | replay: refused for cause, window exact, implements ReplayGuard; keyring: a live key is in reach of Revoke, a key in use is lost only to what retires it | window 3, numbers 0..8: a number leaves the window by small and large jumps; 2 ids, 1 suffix, 1 maker, 3 entries, lifetimes 0 and 1, 3 ticks: an entry that expires between Build and File, and a rotated one that comes back |
| authenticator | nonces tried once, sessions leave only when due and do leave | 2 services, 3 challenges, 2 sessions, TTL 0 and 1, 3 ticks: overwriting, expiry and a TTL change in one behaviour |
| server | sessions fresh, for the right service and of one handler; refusals explained; what is acknowledged was authorised; late messages not dispatched | 2 connections for one service, 2 ticks, five kinds of message: the smallest with a rival, an expiry and a capability that is not held |
| server_live | handshakes end, closed connections give slots back, slots match handlers | 2 connections for 1 slot, 1 tick: one is rejected or waits for a release |
| system | client and server together refine the server, an "ok" was earned, every client ends | 2 runs of the client, one of which may be interrupted |
| core | link: prefixes and frames stay together, arrive in order, all arrive, and a replay needs a frame overtaken by more than the window; router: the urgent first, answers in place; heartbeat: no false alarm, silence after Stop is noticed, shutdown ends | both directions, 2 senders, 4 frames, window 1, sizes around the limit; batches of 4 with 4 priorities: a heap of three levels; a timeout of three intervals as on the server, 1 lost beat, 2 under way |
| shm_ring | the ring is a queue of the accepted frames, the oldest is next, Len stays within capacity | 3 slots, 7 writes: the indices wrap twice |
| tensor_registry | spans disjoint, wide elements fit, decoding inverts encoding, a message yields its descriptor whole | 5-bit integers, 3-bit lengths, limits 4, 2, 2 and 3 in the order of the code's; sizes and strides at the guards, strings at, above and wrapping past the limits |
| services | broker: a call sends to nobody who had left before it began, Fanout to all who stay, priority order; policy: an answer is that of one moment | 3 services, 4 subscribers (one replaces another, two equal priorities, one on a socket and three on shared memory), 1 caller; 2 actions, 2 capabilities, all verdicts, 1 evaluator |
| easy_sdk | sequence numbers grow, sockets are lost only to a second accept, closing the server ends every other receive | 2 clients, 2 accepts, numbers to 2 |

The runs `security`, `core` and `services` each hold several components that share no
state, and a behaviour runs one of them (`running`): a product would only add
interleavings of independent steps. One caller is enough for the broker because
calls of Route share nothing but the maps, which the other actions change freely
between its sends; so is one evaluator for the policy engine, and one peer for the
health service. `CHECK_DEADLOCK`
is off where the program ends (a client that exits, a connection that is done) or
where a bound on challenges, sends or accepts stops the model.

Fairness. Time passes. The server's goroutines run when they can, the timer fires, and a
receive or send on a connection the server has closed returns; nothing is assumed
of peers. In EipcSystem a send on an open connection also returns, because the
few messages of a client fit in the socket buffers. A goroutine inside
`ConnWrapper.Send`, and the receiver, make progress. The loop of the heartbeat sender
takes a stop that is ready again and again, because Go's select chooses among ready
cases at random (strong fairness of `TakeStop`); its `Send`, the `Close` of the endpoint
and the network owe nothing. In the C SDK a blocked
`recv` returns when there is a frame or the end of the stream; nobody is assumed
to close the server.

## Disagreements found

Two runs state what a comment says and TLC refutes it:

- `idle_timeout`: "Message loop with idle timeout" (cmd/eipc-server/main.go:575). The
  loop receives without a deadline, so a silent peer keeps its handler and slot for
  ever. No session expires in this run: the peer is authenticated and idle.
- `tensor_footprint`: a descriptor that claims less than its footprint "is rejected"
  (protocol/tensor.go:103). With one-byte elements the extent can reach 2^63, wrap to
  a negative number that passes the guard, and come back small.

Others were met while modelling. The models behave as the code does, and the
properties above say under which condition things are well:

| Source | What the text says | What the code does | In the model |
|---|---|---|---|
| core/endpoint.go:44 | heartbeats are sent over an endpoint in use (core/lifecycle.go:49) | a client endpoint has no lock, and the two writes of two senders interleave | `Mixed` of FrameLink |
| transport/transport.go:80 | 1 MB of header and payload (docs/architecture.md:182) | the receiver refuses the last 48 sizes | `SizeGap` of FrameLink |
| transport/shm/shm.go:156 | Len is the number of unread messages | can be negative: only the upper bound holds | `LenWithinCapacity` of ShmRing |
| transport/shm/shm.go:76 | Write places a frame | a frame above MaxFrameSize is stored as an empty slot | `AcceptedIsStored` of ShmRing |
| transport/shm/shm.go:76 | frames are signed and verified (line 43) | the MAC is not stored, so endpoints refuse every frame | left out |
| transport/shm/shm.go:88 | the writer blocks (docs/performance.md:75) | Write fails at once | `Write` of ShmRing |
| transport/shm/shm.go:197 | Close shuts down the connection | does nothing; a waiting Receive goes on, and Send to a subscriber that the broker has removed still succeeds | a receiver of ShmRing leaves only by `Read`; `CloseEndpoint` of Broker |
| core/endpoint.go:81, 200 | "Every frame is signed" (docs/security-model.md:78) | a frame without FlagHMAC is taken without a MAC | FrameLink has signed frames only |
| cmd/eipc-server/main.go:101 | "each action requires a specific capability" (docs/security-model.md:136) | an intent is checked for the fixed "ui.cursor.move", and the intent it names is logged as allowed (lines 107, 118-123) | `Audited` and `ActionsAuthorised` of EipcServer |
| cmd/eipc-server/main.go:486 | all failed attempts are audited (docs/security-model.md:242) | a response that does not decode is not | `RecvUndecodable` of EipcServer |
| cmd/eipc-client/main.go:147 | the client receives a session token | it does not look at "denied" and goes on | `ClientResult` of EipcSystem |
| core/lifecycle.go:107 | closes "after draining in-flight messages", "before forcing closure" | calls Close at once, and after the timeout leaves it running | `GracefulShutdown`, `TakeTimeout` of Heartbeat |
| security/keyring/keyring.go, Rotate | the old key is marked expired (docs/book/book.md:818); docs/key-management.md:113 says that it is revoked | the old entry is revoked at once, as the second text says | `Rotate` of Keyring |
| services/policy/policy.go, LoadSafeDefaults | actions are `device.sensor.read`, `system.reboot` (docs/security-model.md:171) | the rules are for `sensor:read` and `system:reboot`, so the documented names fall to the default | the defaults of MCServices |
| core/tensor_message.go:45 | a Capability that was "widened, swapped, or stripped" is rejected | any claim of the descriptor is accepted in place of the one attached | `MessageCarriesDescriptor` of TensorCodec |
| protocol/tensor.go:14 | types 6 and 8 "are rejected by Validate and Decode" | DecodeTensor looks at no type; only Validate refuses them | `DecodeInvertsEncode` speaks of transported types only |
| protocol/tensor.go, appendStringField | lengths are 16 bits | a longer string is written whole under its length modulo 2^16; Validate refuses such strings, Encode alone does not | the condition of `DecodeInvertsEncode` |

## Proofs

Every safety property that a passing run checks is also a theorem, for all values of
the constants that satisfy the assumptions; the table under "theorems" in `PROJECT.json`
pairs them. Each module of proofs follows the same plan: an inductive invariant, one
lemma per action that it is preserved, and the properties as consequences. The inductive
invariants contain the types of the variables.

**LoopTheorems** is what proofs about loops and recursion share. The loops of the code are
recursive functions of the number of turns in the models. The module proves that a set
of numbers has a least one, from it induction with a set for the property, and from
that: a loop has a value after every turn (`LoopValues`), and the value stays in a set that
no turn leaves (`LoopStays`). No theorem of the library that has an operator for parameter
is used.

**SecurityProofs** has four parts.
*ReplayTracker*, for every window and range of numbers: no number is accepted twice,
none is refused without cause, the map is exactly the accepted part of the window and so
has at most `WindowSize + 1` entries, and the tracker implements ReplayGuard. That a
number is accepted once is not inductive: a step must know that what it does not find in
the map was never accepted or lies below the window. `IInv` therefore adds
`SeenIsWindow` and `DeliveredBelowMax`.
*Keyring*, for all ids, suffixes, makers and lifetimes: a key that is neither revoked nor
expired, and that no Generate, Store or Delete pushed out, is filed under its own id and
listed; and a key in use is lost only to Revoke, Delete, a Rotate that failed, its
lifetime, or an entry that had expired before it was filed. `KInv` adds that what is
filed under a name is an entry of that name's id, that no entry is filed under two names,
and that an entry being built is not revoked. Without the second, Revoke of a ".prev."
name could stop a current key.
*Authenticator*, for every set of services, every TTL and any number of challenges: a
nonce is compared with one response at most, sessions and nonces correspond, the newest
challenge of a service pends, and a session leaves the table only by revocation or when
its TTL has passed. `AuthInv` strengthens these with: a pending nonce has not been tried,
a tried one was drawn, an earned one was tried.
*PolicyEngine*, for all rules, defaults, actions and evaluators: an answer of Evaluate is
one the rules and the default gave together at one moment of the call. `PInv` says the
same of a call that has not read yet (what the tables now give is among the answers in
force) and of one that has (what its copy gives is).

**SystemProofs**, for any number of connections, slots, services and messages.
*EipcServer*: connSem counts the handlers that run; a session that is served is for the
service of its connection, belongs to one handler, and was earned with a challenge no
older than the one the handler sent, and with that very one unless another handshake for
the service was under way; a request is acknowledged only if its service holds a
capability for what is checked; a late message is not dispatched; a right answer is refused only if another handshake for the service was
under way. Also, `Spec => AuthSpec`: the handlers use the authenticator only through its
operations, so the theorems about it hold of the shared one. `SInv` has three parts.
`HandlerState` says what a handler holds at each point of handleConnection. `Pairs` says
that no two handlers hold one challenge or one session, that handshakes for one service
under way together know of each other, that what pends for a service is no older than any
challenge still out for it, and that a challenge without a rival still pends; without it
nothing excludes that an answer to a challenge long replaced earns a session. `Slots` is
the count.
`OthersKeep` shows once that a step of one handler leaves the part of every other alone,
because the authenticator only adds to the challenges and sessions they refer to; each
action then needs its own handler only.
*EipcSystem*: `SysSpec => ServerSpec`, so that the theorems about the server, whose peers
are free as described under Modules, hold of the composition with the client program; and
a client that was told "ok" is served for a session that it earned with the challenge of
its own connection, because this client answers no other. `SysInv` adds
`StreamState` to `SInv`: as long as a handler runs, each challenge and each answer on the
streams of its connection is for the challenge it holds, and an "ok", on its way or
received, is matched by a session. The last is what makes the result of the client, which
it learns some steps after the grant, say something about the server.

**LinkProofs** has two parts.
*FrameLink*, for any number of goroutines, all sizes, every window and any number of Sends:
the receiver never takes other bytes for a frame, and numbers arrive in increasing order,
always under `sendMu` and without it while no two Sends overlapped; and a frame is
refused as a replay only after Sends overlapped and one more than a window ahead overtook
it. `LInv` says what the lock is for (`Locked`), that no two frames carry one number and
the tracker has seen none that is still to come (`Numbers`), that prefixes and frames
alternate from what the receiver waits for to what a sender has still to write
(`Paired`), and that numbers ascend from those received over those on the stream to those
being sent (`Ascending`).
*Heartbeat*, for every interval, delay, timeout and number of losses that satisfy its
assumption: the health service never reports a peer dead while its network is calm. That
the silence is below the timeout is not inductive. `HInv` looks ahead instead (`OnTime`):
for each beat in the queue, from those under way to the ticker, the silence until it is
recorded stays below the timeout even if as many beats are lost before it as may be.

**RoutingProofs** has two parts.
*Broker*, for all services, routes, callers and subscribers: a call sends to nobody who
had left before it began, Fanout to everyone who is subscribed while it runs, and Route
sends to each subscriber once, by priority and
among equals in the order of the routes. `sortByPriority` is proved to be a stable sort
for sequences of any length: `Inserted` says where one insertion lands, and induction over
the turns of the loop does the rest. `BInv` keeps, for each call under way, that results
and what is left to send are together the sorted copy it took, whatever the maps are now,
and that they differ from who is subscribed now by those who came or went meanwhile only.
*Router*, for batches of any length, all priorities and handlers: DispatchBatch handles
the urgent first, each message once, and returns each answer in its place. This is the
correctness of container/heap's `Init`, `Pop` and `down`: a sift repairs a heap that is
broken at one node, keeps the items, and Init and Pop come down to it. `RInv` then
accounts for every place of the batch, as queued, in hand, or handled.

**TensorProofs** has two parts.
*TensorRegistry*, for every width of the integers and every set of descriptors: live spans
of a segment share no byte, an overlap is reported only for a byte that is taken, also
where offset plus size is 2^W - 1, and an offset names one span. Admitted spans are
non-empty and do not wrap, so the comparison of end points decides intersection. Further,
live spans of elements of two bytes or more hold every element: by induction over the
dimensions the two guards of Validate keep every partial extent below 2^(W-1), so the
footprint, computed in wrapping arithmetic, is the true one. For elements of one byte
this is false (see `tensor_footprint`).
*TensorCodec*, for all widths, limits and strings, and descriptors of a transported type:
DecodeTensor of what Encode wrote is the descriptor, or an error exactly where a string
exceeds a limit of the decoder, as long as the lengths of the strings fit their two bytes;
and a message yields its descriptor for the capabilities it claims and never from a
payload that was cut short. The proof follows the wire: where each part of the output
stands, what each read returns there (`Reader` and the lemmas on `ReadFull`), and that a
read of a cut wire that succeeds returns what it returns from the whole one.

**ShmRingProofs**, for every number of slots and of writes: the ring implements
BoundedQueue, the next slot to read holds the oldest accepted frame, and the
unlocked Len never exceeds the capacity. `IInv` says that the slots between the
counters hold what was accepted, in order, and that a loaded head is not ahead of
the counter. The arithmetic is in `SlotsDistinct`: two counters less than `Slots`
apart never name the same slot.

**EasySdkProofs**, for every number of clients, accepts and frames: the numbers
under way in each direction increase, and an open socket is held or was overwritten
by an accept. `SeqInv` adds that a counter in use is at least every number sent
with it, and that a connection nobody has accepted has been sent nothing.

Assumptions. Those on the constants (`TrackerAssumption` and the like) are in the modules
that declare them and evaluated by the runs. Most say that a bound is a number or that a
special value is not an ordinary one. Three say more. `WidthAssumption` and
`CodecAssumption` include laws of powers of two (2^W = 4 * 2^(W-2) and the like), which
hold of all widths but which the provers, knowing no exponents, cannot derive, and that
the limits of the codec fit its lengths, as 128 and 256 fit 16 bits. `HeartbeatAssumption`
is that delays and losses leave room in the timeout: the condition under which
`NoFalseAlarm` could be true at all.

Left to TLC: liveness (the provers have no ENABLED), and the two properties under
"Disagreements found", which are false.

## Not modelled

- Service registry (services/registry): a map under one lock whose operations are
  single assignments; nothing it does takes two steps.
- Configuration and command-line tool: read the environment or send single messages,
  once, without concurrency. Message types are declarations, examples are programs
  that exercise the endpoints.
- TCP, TLS, Unix and pipe transports: calls into net. Their effect, an ordered stream
  that breaks when a side closes, is in FrameLink and EipcSystem.
- AES, HMAC, SHA-256: out of reach of both tools. The frames of the models carry MACs
  that verify; frames without a MAC, which the endpoints take too, are left out.
- Field layout of frames, JSON, texts of replies, statistics: conversions that
  round-trip tests reach better. The tensor format is the exception, for its limits
  and signs.
- Backoff (core/lifecycle.go): a product of floating-point numbers.
- The file behind the audit log; what is appended, and where nothing is, is modelled.
- The MAC of shared-memory frames, which the ring does not store (see the table above).
- Capability Grant and Revoke at run time, which the server does not call.
- In the C SDK, timeouts of send and receive. A frame larger than the C buffer, which
  only a Go peer can send, is not among the frames of EasySdk.

## Plan

1. A connection between a Go endpoint and the C SDK: FrameLink with the limits of both
   sides.
2. Proofs: that a step of the server or of the link that fairness speaks of is enabled
   where the liveness properties need it, as far as it can be said without ENABLED.
