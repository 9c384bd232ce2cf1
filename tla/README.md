# PhoneKey: a TLA+ verification project

PhoneKey unlocks a Windows PC with a phone.  The PC's agent issues a challenge,
the phone signs it after a biometric check, the agent verifies the answer and
consumes the challenge.  This directory models the parts of the system that keep
state and run concurrently, checks them with TLC on small instances and proves
the central facts with TLAPS for every size.  Paths are relative to `src/`.

## 1. Inventory

| Component | State | Operations | Hard parts | Correct when |
|---|---|---|---|---|
| `AgentService` (windows/agent) | the providers open, the transport, the pieces below | Start, Stop, RegisterDevice, InitiateUnlockRequest, OnFrameReceived | two locks taken three times without one in between; a clock read once | one unlock per request, only for its device, nonce and time |
| `ChallengeStore`, `ChallengeGenerator` | session id -> record (device, pc, nonce, expiry, state) | AddChallenge, ValidateChallenge, ConsumeChallenge, ValidateAndConsumeChallenge, ExpireChallenges | entries are marked and never erased; random bytes assumed to come | a finished record stays finished |
| `DeviceRegistry`, `PublicKeyImporter` | device id -> CNG handle | RegisterDevice(Der), UnregisterDevice, GetDevicePublicKey | the handle leaves the lock | no handle leaked, shared or destroyed twice |
| `CryptoEngine` | three CNG providers | Initialize, GenerateRandomBytes, VerifySignature | partly opened after a failure | - |
| `TcpTransport` life cycle (windows/common) | two flags, two sockets, a worker, a send mutex, a counter | StartListener, Connect, Close, SendFrame, the two workers | every member but one shared without a lock | Close returns and cleans up; frames do not mix |
| `FrameProtocol`, receive loop | rxBuffer | SerializeFrame, DeserializeFrame, ReceiverWorker | recv cuts the stream anywhere; damage; announced sizes | exactly the intact frames are delivered, in order, in bounded memory |
| Phone transport: `TcpTransportClient`, `FrameProtocol.kt` (android) | socket, two streams, a flag, one receive loop per connect | connect, close, receiverLoop, sendFrame | nothing waits for an earlier connect, close or loop; a bad header stays in the buffer; signed lengths | a set flag means a live loop; no socket or thread left behind |
| Phone flow: `UnlockController`, `BiometricSigner`, `KeyManager`, `MainActivity` | pending requests, the prompt, the key | startConnection, onFrameReceived, handleUnlockRequest, the prompt's callbacks, stop | the user's delay; the key changes under a prompt; the app dies; the request may be another PC's | the PC unlocks only for what it asked and the user confirmed |
| `NamedPipeIpc`, credential provider | pipe handle, thread; reference counts, events sink | Start, Stop, ServerWorker, SendIpcRequest; GetSerialization, Advise | the handle is shared without a lock; calls that wait | Stop and the tile's call return; no credential without approval |
| `MultiDeviceManager`, `DpapiStorage` | device list; file | Register, Revoke, SetPrimary; SaveToFile, LoadFromFile | failing encryption, crash while saving | the list has no key of a revoked phone; a load is the latest save or nothing |
| Pairing, Bluetooth stub, CTAP2 bridge | none worth a model | conversions and primitives | - | - |

Interactions: `TcpTransport`'s worker calls `AgentService::OnFrameReceived`, which
locks the store, the registry and the store again and answers with `SendFrame`
on the same thread; `InitiateUnlockRequest` adds a record and sends from its
caller's thread; the owner calls Start and Stop.  On the phone the thread of the
receive loop posts a request to the UI thread, which shows the prompt and, from the
prompt's callback, sends the answer on the current connection.  A logon tile asks the
agent over the named pipe.  The agent's main program
registers no device and opens no pipe, so registry, device manager and pipe are
libraries whose callers are the tests.

## 2. Modules

| Module | Models |
|---|---|
| `Protocol` | error codes and payload identities |
| `ChallengeStore`, `DeviceRegistry` | the two locked tables: their operations as operators on one variable each |
| `AgentService` | composes both with the crypto engine, the clock and the receiver threads |
| `OneTimeChallenge` | abstract: a session is open to a device, is granted while open, and closes |
| `AgentServiceProofs`, `AgentRefinementProofs` | the theorems about `AgentService`: its invariants; what its steps may do, and the refinement |
| `TcpTransport` | threads, flags, sockets and the send lock |
| `FrameProtocol`, `FrameStream` | the codec, and the agent's receive loop over it |
| `PhoneStream` | the phone's receive loop on the same streams |
| `NamedPipe` | the pipe server, its owner, and logon tiles inside `GetSerialization` |
| `PhoneTransport` | the phone's socket transport; also a specification of its own |
| `Phone` | the unlock flow on top of `PhoneTransport` |
| `UnlockSystem` | composes `Phone` with the agent's `ChallengeStore`, connection and worker, and with other PCs |
| `ConfirmedUnlock` | abstract: the PC asks, the user confirms, a clock that may be set calls requests late or not, the PC judges an answer to what is asked, confirmed and not late, and unlocks for what it judges |
| `DeviceStore` | the list of paired phones, and the encrypted file |
| `TcpTransportProofs`, `FrameStreamProofs`, `PhoneTransportProofs`, `UnlockSystemProofs`, `NamedPipeProofs`, `DeviceStoreProofs` | the theorems about the module of that name; `FrameStreamProofs` is about both receive loops, `FrameStream`'s and `PhoneStream`'s |
| `MCAgent`, `MCTransport`, `MCStream`, `MCPipe`, `MCPhone`, `MCUnlock`, `MCDevices` | instances for TLC |

**Agent.**  A receiver is a thread inside `OnFrameReceived`.  Its position runs
`idle -> validate -> lookup -> verify -> consume -> reply`; each position is one
locked section or one library call, because anything else may run between two of
them.  `ProcessUnlockResponse`'s locals are the record `rcv[r]`.  The transport
delivers frames on one thread, but the handler is public and the store's tests
(`tests/test_main.cpp:190`) and `docs/known_limitations.md:17` are about several
threads, so the model has a set of receivers.  Frames of a type other than
UNLOCK_RESP change nothing.  Sessions, devices, nonces and keys are opaque,
since the code only compares them; a signature is the key that made it.
`ConsumeChallenge`, which repeats `ValidateAndConsumeChallenge`, is an API call of its own.
`RandomIds` keeps the ignored result of the generator: with the random provider
open ids are fresh, without it they can be anything.  A CNG handle is an address
that may be handed out again; verifying with a destroyed one answers anything.
`Clock` also moves backwards, because `system_clock` may be set.  `issued`,
`grants`, `regs` and `dangling` are history and guard nothing but the bound
`MaxIssues`.  Start on a service that already listens is Stop followed by Start.
The expiry test is the code's `currentTimeMs > expirationTimestampMs`: an answer in the
very millisecond of the expiry is accepted, as `protocol/protocol_spec.md` ("exceeded")
has it; `docs/protocol.md:72` writes `CurrentTime < T_exp`.  `Reply` is the `SendFrame`
of the verdict, which may wait for ever (see the transport).

**Transport life cycle.**  Each read or write of a member that another thread can
see is an action.  Accepting or connecting yields a new socket number; `open` is
what the process has not closed and `peers` what the other side has not.  A frame
is `Parts` calls of `send`; `recv` and `send` work on the socket that
`m_clientSocket` named when they were called, which may be an old one.  `accept` may
fail at any time, which ends the thread.  Close's `closesocket` and its reset of
`m_clientSocket` are two steps.  Connect and the socket calls of StartListener run while
no worker exists and are one step.

**Receive loop.**  A cell stands for a byte or a field.  The magic has two cells so
that a stray cell can be half of one.  The checksum is a running sum, doubled at each
cell, modulo the (odd) number of cell values; like CRC32 it detects every change of a
single cell, which is proved (`DamageDetected`).  A stream is up
to `MaxItems` items: intact frames, frames with one cell changed behind the
length, frames of an unknown type, stray cells, and headers that announce too much.
A damaged length field of a real frame is left out: no receiver could know where the
next frame begins.  For the same reason stray cells make up no magic, alone or with what
follows them (`StrayAssumption`).  In a behaviour of `StreamSpec` either the agent's loop or the
phone's reads the stream.  For the phone a length is signed (two's complement of a
cell), so the bad lengths stand for: above the ceiling, below minus a frame
(`ByteArray` throws), exactly minus a frame (`totalFrameLen` is 0 and the inner loop
spins), and two lengths that cut off a part of the header.

**Named pipe.**  `m_hPipe` is neither locked nor atomic, so every use of it is a step,
and `StopClose` may use what the test read or read again.  A handle is a small number
that the system hands out again; `table` says what it refers to.  A call that waits
(`CallPipe`) remembers the handle it was given.  The system calls are external and
taken as the code uses them: closing a handle ends a `ConnectNamedPipe` or `ReadFile`
pending on it (that is how `Stop` wakes the worker), disconnecting discards unread
data, the request of a tile that has hung up is still read (`unread`) and its answer goes
nowhere, `WaitNamedPipe` promises nothing about the `CreateFile` after it.  A payload is
0 (empty), 1 (fits) or 2 (does not fit the buffer).

**Phone.**  Tap t on "Connect" runs connect on thread t and makes connection t; 0 is
the UI thread and also "null".  `overlapped` is history: a connect or close began
while another ran.  A loop reads whole frames here, except when two loops share a
stream, where each may get a part (`LoopReads(t, TRUE)`) and is stuck from then on,
as `PhoneStream` shows.  `SendWrite` may fail at any time: the network may, and
Android's default policy makes a socket write on the UI thread throw, which is where
the prompt's callback runs.  The phone's clock is not the agent's: `Arrives` lets it
read anything.  A signature is the generation of the key that made it.  A prompt that
is on screen when a second request comes keeps its `CryptoObject` and either takes
the new callback or ignores it; which one is up to the library.  `Died` is the end
of the process, forced by an uncaught exception (`NoKeyToSign`) or by the system.
The agent's verdict is a frame of a type that the phone ignores and is not put on
the wire.

**System.**  The user types the address the phone connects to and the phone compares
`pcId` with nothing, so `host` sends each tap to any PC, and `OtherPCAsks` is the
request of an agent that is not the one modelled.  The agent's worker is one thread
(`TcpTransport`), so `ProcessUnlockResponse` has one set of locals, `work`; its steps
`TakeAnswer`, `Validate`, `Verify` and `Consume` are those of `AgentService`, with the one
sample of the clock in the first.  The clock moves both ways at any time.  The phone stays
registered with its first key, so lookup and verification are one step; registrations
that change in between are `AgentService`'s.  The random provider is open, because `Start`
fails without it; what `InitiateUnlockRequest` does before Start, with the failure of
`GenerateRandomBytes` ignored, is `AgentService`'s too.

**Device store.**  Two parts that share nothing but the process: the list, whose
`SaveStore` encrypts and drops the result, and a file that callers of `SaveToFile`
write.  `Crash` ends a save where it is.  `revoked` and `latest` are history.

## 3. Runs

| Run | Result | Shows |
|---|---|---|
| `agent_safety` | passes | `SingleUse`, `HandlesExact`, `VerifiedBeforeConsume`, `GrantMatchesRequest`, `EndedForGood`, and that the agent implements `OneTimeChallenge` |
| `agent_ttl` | violated | `StrictTTL`: a challenge that expires during verification is still consumed |
| `tcp_transport` | passes | `FramesNotInterleaved`, `CallsReturn` |
| `tcp_close` | violated | `CloseTearsDown`: Close during accept leaves a socket open |
| `tcp_accept` | violated | `AcceptsAfterDrop`: the listener accepts once |
| `frame_stream` | passes | `DeliversIntactFrames`, `BufferBounded`, `CutsDoNotMatter`, `PhoneDeliversUntilBlocked`, `PhoneCutsDoNotMatter` |
| `frame_magic` | violated | `DropsOnBadMagic`: the phone keeps the bytes and reads on, the agent skips a byte, the specification says drop |
| `pipe_handoff` | passes | `PipeOwned`, `DanglesOnlyInWindow`, `FailsClosed`, `StopReturns`, `CallReturns` |
| `phone_transport` | passes | `ConnectedIsHeard`, `NoSocketLeak`, `LoopEnds` |
| `unlock_system` | passes | `GrantedMeansConfirmed`, and that the system implements `ConfirmedUnlock` |
| `unlock_clock` | passes | that it does so with clocks that run and are set back |
| `device_store` | passes | `RevokedIsOut`, `LoadIsLatestOrNothing` |

Bounds.  `agent_safety` has two receivers, two devices, two nonces and one session
issued twice: enough for two threads on one record, an answer that names the wrong
device or nonce, and a session id that comes back.  Three handles let two devices be
registered while a third key is imported.  One key besides "no key" separates a
good signature from a bad one.  With TTL = 0 and the clock in 0..1 both sides of
`currentTimeMs > expirationTimestampMs` occur, and the clock can be set back.  The
values of a kind are interchangeable, so their permutations are a symmetry.  `tcp_transport` has the worker's callback and one more sender,
two connections, two frames of two pieces: enough for a late step of the first
connection to meet the second.  `frame_stream` takes every stream of three items
and every way of cutting it.  `pipe_handoff` has two tiles, one of which calls twice
(an answer to its first call must not serve its second), and two handles, so that a
closed one comes back.  `phone_transport` has two taps that may overlap with each
other and with the close of a destroyed activity; the peer's frames come when a loop
waits for one.  The composed system is checked on two instances, since all at once
is out of reach.  `unlock_system` has two taps that do not overlap (`Overlaps = FALSE`; the
overlap is `phone_transport`'s) and lead to this PC or another, one request of this
PC and up to two of the other, with the same nonce, and a key that is invalidated or
replaced once; its clock stands still.  `unlock_clock` has one tap, two requests with nonces
of their own, and clocks in 0..2 with TTL = 1, so that requests expire before and after
they are confirmed, taken and consumed, and the clock is set back over the expiry.  Sessions
and nonces are symmetric.  `device_store` has two phones, two keys,
phones without a key, and two saves, so that the second can fail over the first.

What `tcp_transport` says of Close.  `CallsReturn` has one exception, found by TLC:
after a Close that met accept half way (the `tcp_close` run) the transport still
calls itself connected on a socket nobody will close.  A thread that sends on it can
block for ever with `m_sendMutex` held; the callback of the next connection then
waits for the mutex, and the next Close for the callback.  `Stranded` names that
state, and in every other case Close returns.  `FramesNotInterleaved` tolerates that a
connection begins in the middle of a frame, which happens when `m_clientSocket` changes
under a sender.  That a peer which vanishes without a word is ever noticed is not claimed:
the sockets have no keepalive and no timeout.

What `pipe_handoff` says of Stop.  The code has a hang, which TLC finds when
`StopReturns` is stated without its exception: the worker passes its test of
`m_isRunning`, Stop finds no pipe to close and joins, and the worker then makes a pipe
and waits for a client.  `Overlooked` names that state; every other Stop returns,
unless the handler does not.  `DanglesOnlyInWindow` is about a second flaw of the same
kind: between `CloseHandle` and the reset of `m_hPipe`, in Stop or in the worker, the
member names a handle that is not the server's.  It says nothing of the copy that Stop
may have read before and close after the worker has done so.

What `phone_transport` says of overlapping calls.  `ConnectedIsHeard` and
`NoSocketLeak` have the premise `~overlapped`, which they need: two taps in quick
succession, or leaving the app during a connect, can leave a socket open that no
member names.  `LoopEnds` needs no premise.

What the unlock runs say of the whole.  `UnlockSystem` is mapped to `ConfirmedUnlock` with
a request being a session and its nonce: asked when the store has a record of it, confirmed
when the user said yes to it on a prompt, late when the agent's clock is past its expiry,
judged while the worker is inside `ProcessUnlockResponse` with an answer to it that was
taken in time, unlocked when it has a SUCCESS verdict.  `GrantedMeansConfirmed` says of a
state that every unlock is for a request of this PC that the user confirmed, though the phone
shows other PCs' requests too.  The refinement says of the steps that the confirmation came
before the answer was taken, and that the clock, as read then, had not passed the expiry.  It
does not say that the request is still in time at the unlock, for the code does not look
again (`agent_ttl`), nor that it was in time when the user confirmed, for a clock that is set
back makes a late request good again.  Nor is a prompt always for a request of the paired PC,
as `docs/protocol.md:58` ("Verify PC_ID matches stored paired PC") has it:
`handleUnlockRequest` compares `pcId` with nothing.

What `frame_stream` says of the phone.  A header with a bad magic or length stays in the
phone's buffer, and nothing behind it is delivered (`PhoneDeliversUntilBlocked`), where the
agent skips a byte and finds the next frame.  The protocol asks for neither: `frame_magic`
has a clause for each loop, and TLC reports the phone's trace, which is the shorter.

What `device_store` says of revoking.  `RevokedIsOut` is about the list of
`MultiDeviceManager`.  `docs/threat-model.md:29` expects more, a key removed from DPAPI
storage and no further authentication, but no code connects the list with the file or with
the `DeviceRegistry` that the agent verifies with.

Deadlock is checked in the agent, transport and device store runs; a receive loop may
stop when the connection ends, the pipe and the phone when their bounded calls and
taps are used up.

Fairness.  `tcp_transport`: weak fairness of the owner, of
the worker and of each sender for steps that do not wait for the network.  `accept`, `recv`
and `send` return for certain only when this process has closed their socket; on an open one
they may take for ever, whether the peer is there or not.
`pipe_handoff`: weak fairness of the owner, of the worker except inside the handler,
and of each tile inside its call.  `phone_transport`: weak fairness of each receive
loop; nothing is assumed of taps, connects, the UI thread or the peer.  `AgentService` and
`UnlockSystem` have safety properties only and no fairness: an answer to the phone depends on
`SendFrame`, which may wait for ever.

## 4. Proofs

Everything below holds for every value of the constants that the named assumptions
allow: any number of threads, sessions, devices, tiles, handles, taps, connections,
frames and pieces.  Where the property is not inductive as it stands, the invariant it
needs was first checked by TLC on the run's instance, unless it quantifies over all
sequences of cells (the receive loops).  One lemma per action, or per
group of actions that disturb the same conjuncts; a "quiet step" lemma disposes of the
actions that leave what an invariant speaks of alone.

**Agent** (`AgentServiceProofs`).
- `TypeCorrect`: `Spec => []TypeOK`.  The part about the receivers' locals (a frame
  while it is processed, a handle while it verifies) is what the other proofs use.
- `SingleUseAlways`.  `grants[s] <= issued[s]` is not inductive, since nothing in it
  relates the record to the counters.  With `OutstandingUnanswered` (an outstanding
  record belongs to a request not yet granted) it is: AddChallenge raises `issued`, and
  Consume raises `grants` only on an outstanding record, which it closes.
- `HandlesExactAlways`: inductive with `TypeOK`.
- `VerifiedBeforeConsumeAlways`.  Needs `HandleTrust`: a live registered handle holds a
  key registered for its device, and a verifying receiver's handle is its device's or
  dangles.  That a registration of one device does not touch the handle of another is
  `HandlesExact`.

**What a step of the agent may do** (`AgentRefinementProofs`).
- `GrantMatchesRequestAlways`, `EndedForGoodAlways`: action properties from `TypeOK`.
  `OnlyConsumeGrants` reduces the first to one action, and `SuccessMatches` says what
  a SUCCESS of the chain of checks implies.
- `AgentRefinesOneTimeChallenge`: initial states map to initial states, and every step
  to an abstract step or a stutter.  A grant is Consume's; every other change of a
  record opens or closes a session.

**Transport** (`TcpTransportProofs`).
- `TransportTypeCorrect`, `FramesNotInterleavedAlways`.  That pieces on a wire follow
  one another needs: the holder of `m_sendMutex` is the one sender and has the latest
  sequence number (`Numbers`); nothing was sent on a socket not yet published
  (`Fresh`); and the last frame on a socket someone can still write to is whole or is
  the one being sent (`Tails`).  The last part carries the case that makes this hard:
  `m_clientSocket` may change under a sender, whose remaining pieces then go to a socket
  on which nothing was sent, or to the old one.  The bound `MaxFrames` enters through
  the number of threads that wait for the mutex, so the callers are finitely many.

**Receive loops** (`FrameStreamProofs`).
On *any* sequence of cells (`AnyStreamSpec` for the agent, `AnyStreamsSpec` for either
loop), not only on one made of the modelled items:
- `BufferBoundedAlways`, `DeliversWellFormedAlways`.  `BufferBounded` becomes inductive
  when it also covers the head of the outer loop while connected (`Small`): a rejected
  header leaves a full buffer behind, but then the flag is down for good.
- `CutsDoNotMatterAlways`, `PhoneCutsDoNotMatterAlways`.  What is handed over when a loop
  leaves its inner loop equals what one pass finds in everything received.  The invariant
  (`CutsInv`, `PhoneInv`) says at every step: whatever may still come, what was
  delivered followed by what a pass finds in the buffer and that, is what a pass finds in
  all received and that; and outside the inner loop a pass over the buffer alone ends at
  once.  It rests on one fact about the code: whether a turn of the inner loop takes something, and what,
  does not change when cells are added behind (`PassOfConcat`, `PhoneFramesInConcat`).

On streams of items (`StreamSpec`), which are streams of cells (`ItemsAreCells`):
- `StreamTypeOK`, `DeliversIntactFramesAlways`, `PhoneDeliversUntilBlockedAlways`.  By the
  theorems above it is enough to know what one pass finds in a prefix of the stream, and
  `ItemByItem` reduces that to single items: one that is there whole gives its frame and
  leaves the rest, one that is not gives nothing (`AgentItem`, `PhoneItem`).  What an item
  gives is the codec's business: a frame written is read back (`RoundTrip`), one with a
  cell changed behind the length is refused (`DamageDetected`, from `CrcDiffers`), one of
  an unknown type is refused by the agent and an error to the phone (`MistypedRead`).

The induction these need is done without the library's theorems over operators: the
least element of a set of naturals (`LeastElement`), and sets closed under successor
(`InductiveSet`).  `Recursion` shows from them that a function defined by recursion on a
sequence's length exists and satisfies its equation, which `FramesIn`, `PhoneFramesIn`
and the checksum then use.

**Phone transport** (`PhoneTransportProofs`).
- `TransportTypeCorrect`, `ConnectedIsHeardAlways`, `NoSocketLeakAlways`.  The two
  properties speak of settled states; between them `SocketsAt` and `FlagAt` say, for
  each position of connect and close, which sockets are open, which members are set
  and whether a loop listens.  All of it has the premise `~overlapped`, as the
  properties do.

**System** (`UnlockSystemProofs`).
- `SystemTypeCorrect`, `GrantedMeansConfirmedAlways`.  A grant is made from an answer the
  worker took from a wire, so `Evidence` says that every answer on a wire, in a send or in
  the worker's hands is backed by a confirmation of the same session and nonce, and so is
  every grant.  That the confirmed request is this PC's needs `Pending`: whatever is on
  its way to the user (on a connection, in the queue of the UI thread, on the prompt) or
  confirmed was asked by the PC it names, and a session id that another PC has drawn has no
  record here.  No clock enters.  What the transport keeps is taken over from its own
  proofs: the other actions of the system leave its variables alone or end the process.
- `SystemRefinesConfirmedUnlock`, from the same invariant.  A new record is an `Ask`, a yes
  a `Confirm`, a move of the clock a `Tick`, taking an answer in time a `Judge`, a failed
  check a `Refuse` and a SUCCESS an `Unlock`; every other step leaves the five sets alone.
  The sample of the clock stays in `work`, so that the last check of the expiry repeats
  what `Judge` saw, wherever the clock is by then.

**Named pipe** (`NamedPipeProofs`).
- `PipeTypeCorrect`.  With it goes `Linked`: the two ends of a connection agree.
- `PipeOwnedAlways`, `DanglesOnlyInWindowAlways` need each other and
  `StopMeetsWorker`: while Stop has a handle to close, the worker makes no pipe, and
  once one of them closed it there is none until both are past the reset.
- `FailsClosedAlways`.  Needs that the client the handler worked for is still the one
  on the pipe, and in the same call (`SameCall`), and that a waiting answer with a
  credential was approved (`AnswersApproved`).

**Device store** (`DeviceStoreProofs`).
- `StoreTypeCorrect`, `RevokedIsOutAlways`: with `Out`, a revoked device has no
  position.  `RevokeDevice` states what `remove_if` leaves as an increasing choice of
  positions, from which "no entry appears twice" and "no entry of the device is left"
  follow without induction.
- `LoadIsLatestOrNothingAlways`: an action property from `FileIsLatest`, which holds
  between the steps of a save and after a crash at any of them.

Assumptions, all evaluated by TLC in the runs: the "nothing" values are not in the sets
they extend (`NoRecord` is also no device, "nobody" no thread); the bounds are naturals;
the agent's PC is one of the PCs (`ThisPCAssumption`); the transport's callers are
finitely many.  For the receive loops: cells are the numbers below some odd number, which
the model's checksum needs to tell two cells apart; the largest payload is less than
half of it, so that a length within the ceiling is not negative when signed, as 65536 is
not in 32 bits; the frames of a peer are ones `SerializeFrame` writes, bad lengths are above
the ceiling (`StreamAssumption`); and `StrayAssumption`, explained in section 2, which TLC
evaluates over every stream of the run.

Every invariant and every safety property of a passing run is a theorem.  Model-checked
only is liveness (`CallsReturn`, `StopReturns`, `CallReturns`, `LoopEnds`): fairness and ENABLED are out of the prover's reach.

## 5. Not modelled

See the components in `PROJECT.json`.  Pairing (ECDH, HKDF, SAS, QR payload) is a set
of primitives that no code drives through an exchange; the Bluetooth transports are
stubs; the CTAP2 bridge converts formats.  Of the credential provider only
`GetSerialization` is modelled: reference counts, fields, Advise and the class factory
are called by the logon UI in an order this repository does not determine.  Within the
modelled parts: the byte layout of payloads, hashing, DER conversion, log output and
status texts, the wrap of the 32-bit sequence counters, and a restart of the agent's
process (`AgentRestart` is Stop and Start of the same object, which keeps the store).

## 6. Plan

1. An abstract specification of the named pipe (a call is approved at most once and
   answered with what was approved), with `NamedPipe` shown to implement it.
2. `UnlockSystem` with `DeviceRegistry` as well, so that a registration that changes between
   lookup and verification meets the phone's key changes.
3. For `AnyStreamsSpec`, that the phone's loop keeps its buffer bounded while it is not
   blocked.
