---------------------------- MODULE AgentService ----------------------------
(***************************************************************************)
(* The unlock service on the PC (windows/agent/AgentService.cpp) with its  *)
(* challenge store, device registry and crypto engine.                     *)
(*                                                                         *)
(* A receiver is a thread inside OnFrameReceived.  It takes the store lock *)
(* twice and the registry lock once, and owns nothing in between, so each  *)
(* locked section is one step and everything else may happen between two   *)
(* of them: other receivers, InitiateUnlockRequest, registrations, the     *)
(* store's own API, and the clock, which is the settable system_clock.     *)
(***************************************************************************)
EXTENDS ChallengeStore, DeviceRegistry

CONSTANTS
  Receivers,    \* threads that may run OnFrameReceived
  ThisPC,       \* m_pcId
  MaxIssues,    \* bound: requests per session id
  NoFrame       \* a receiver between two frames

ASSUME AgentAssumption == ThisPC \in PCs /\ MaxIssues \in Nat

VARIABLES
  algs,         \* CNG providers open: 1 ECDSA, 2 and RNG, 3 and SHA-256
  listening,    \* the transport delivers frames
  now,          \* the reading of system_clock
  rcv,          \* receiver -> its locals in ProcessUnlockResponse
  issued,       \* history: session -> number of AddChallenge calls
  grants,       \* history: session -> number of SUCCESS verdicts
  regs          \* history: device -> keys ever registered for it

ghosts == <<issued, grants, regs>>
vars == <<store, devices, keyOf, algs, listening, now, rcv, issued, grants, regs>>

\* An UNLOCK_RESP body that parses: P and the key, if any, that signed it.
Responses == [payload : AuthPayload, sig : Keys \cup {NoKey}]

ASSUME NoFrameAssumption == NoFrame \notin Responses

\* The locals of ProcessUnlockResponse, and as history whether the handle was
\* destroyed while the receiver held it.
Locals ==
  [pc : {"idle", "validate", "lookup", "verify", "consume", "reply"},
   frame : Responses \cup {NoFrame},
   nowMs : Time,
   hPubKey : Handles \cup {NullHandle},
   err : ErrorCode,
   dangling : BOOLEAN]

Idle ==
  [pc |-> "idle", frame |-> NoFrame, nowMs |-> 0, hPubKey |-> NullHandle,
   err |-> "SUCCESS", dangling |-> FALSE]

Init ==
  /\ StoreInit /\ RegistryInit
  /\ algs = 0 /\ listening = FALSE /\ now = 0
  /\ rcv = [r \in Receivers |-> Idle]
  /\ issued = [s \in Sessions |-> 0]
  /\ grants = [s \in Sessions |-> 0]
  /\ regs = [d \in Devices |-> {}]

-----------------------------------------------------------------------------
\* Life cycle and API calls

\* AgentService::Start: CryptoEngine::Initialize opens the providers in order
\* and stops at the first failure, before the listener is touched; the
\* listener starts unless the socket calls fail.
Start(opened, bound) ==
  /\ ~listening
  /\ opened \in algs .. 3
  /\ bound => opened = 3
  /\ algs' = opened
  /\ listening' = bound
  /\ UNCHANGED <<store, devices, keyOf, now, rcv, ghosts>>

\* AgentService::Stop returns once Close has joined the worker thread.
Stop ==
  /\ listening
  /\ \A r \in Receivers : rcv[r].pc = "idle"
  /\ listening' = FALSE
  /\ UNCHANGED <<store, devices, keyOf, algs, now, rcv, ghosts>>

\* Both GenerateRandomBytes results are ignored: without the RNG provider the
\* record keeps the bytes its stack slot held.
RandomIds ==
  IF algs >= 2
  THEN {s \in Sessions : store[s] = NoRecord} \X
       {c \in Challenges : \A s \in Sessions : store[s] # NoRecord => store[s].challenge # c}
  ELSE Sessions \X Challenges

\* ChallengeGenerator::GenerateChallenge
GenerateChallenge(d, c) ==
  [device |-> d, pc |-> ThisPC, challenge |-> c, expires |-> now + TTL,
   state |-> "OUTSTANDING"]

\* AgentService::InitiateUnlockRequest
InitiateUnlockRequest(d, s, c) ==
  /\ <<s, c>> \in RandomIds
  /\ issued[s] < MaxIssues
  /\ AddChallenge(s, GenerateChallenge(d, c))
  /\ issued' = [issued EXCEPT ![s] = @ + 1]
  /\ UNCHANGED <<devices, keyOf, algs, listening, now, rcv, grants, regs>>

\* The receivers that hold the handle of device d.
Holders(d) == {r \in Receivers : rcv[r].pc = "verify" /\ rcv[r].hPubKey = devices[d]}

\* Their handle is destroyed under them.
Dangle(R) == rcv' = [r \in Receivers |->
                       IF r \in R THEN [rcv[r] EXCEPT !.dangling = TRUE] ELSE rcv[r]]

\* AgentService::RegisterDevice; the import fails without the ECDSA provider.
RegisterDevice(d, k, h) ==
  /\ algs >= 1
  /\ Register(d, k, h)
  /\ regs' = [regs EXCEPT ![d] = @ \cup {k}]
  /\ Dangle(Holders(d))
  /\ UNCHANGED <<store, algs, listening, now, issued, grants>>

UnregisterDevice(d) ==
  /\ Unregister(d)
  /\ Dangle(Holders(d))
  /\ UNCHANGED <<store, algs, listening, now, issued, grants, regs>>

\* GetChallengeStore().ExpireChallenges(now)
ExpireOverdue ==
  /\ ExpireChallenges(now)
  /\ UNCHANGED <<devices, keyOf, algs, listening, now, rcv, ghosts>>

\* GetChallengeStore().ConsumeChallenge(...)
ConsumeChallenge(p) ==
  /\ \E e \in ErrorCode :
       ValidateAndConsumeChallenge(p.session, p.device, p.pc, p.challenge, now, e)
  /\ UNCHANGED <<devices, keyOf, algs, listening, now, rcv, ghosts>>

\* system_clock moves forward, or is set back by an adjustment.
Clock ==
  /\ now' \in {now + 1, now - 1} \cap Time
  /\ UNCHANGED <<store, devices, keyOf, algs, listening, rcv, ghosts>>

-----------------------------------------------------------------------------
\* The receiver thread

agentVars == <<store, devices, keyOf, algs, listening, now, issued, grants, regs>>

Goto(r, label) == rcv' = [rcv EXCEPT ![r].pc = label]

\* Leave ProcessUnlockResponse with code e; its locals are gone.
Return(r, e) == rcv' = [rcv EXCEPT ![r] = [Idle EXCEPT !.pc = "reply", !.err = e]]

\* ProcessUnlockResponse up to the sample of the clock.
OnFrameReceived(r, f) ==
  /\ listening /\ rcv[r].pc = "idle"
  /\ rcv' = [rcv EXCEPT ![r] = [Idle EXCEPT !.pc = "validate", !.frame = f, !.nowMs = now]]
  /\ UNCHANGED agentVars

\* A frame too short, or rejected by AuthPayload::Deserialize.
OnMalformedFrame(r, e) ==
  /\ listening /\ rcv[r].pc = "idle"
  /\ Return(r, e)
  /\ UNCHANGED agentVars

\* The store error for the frame of r.  The payload's own pcId is not passed.
Verdict(r) ==
  LET p == rcv[r].frame.payload
  IN  ValidateChallenge(p.session, p.device, ThisPC, p.challenge, rcv[r].nowMs)

Validate(r) ==
  /\ rcv[r].pc = "validate"
  /\ IF Verdict(r) = "SUCCESS" THEN Goto(r, "lookup") ELSE Return(r, Verdict(r))
  /\ UNCHANGED agentVars

\* Mutant: NULL is not tested.
LookupUnchecked(r) ==
  /\ rcv[r].pc = "lookup"
  /\ rcv' = [rcv EXCEPT ![r].pc = "verify",
                       ![r].hPubKey = GetDevicePublicKey(rcv[r].frame.payload.device)]
  /\ UNCHANGED agentVars

Lookup(r) ==
  LET h == GetDevicePublicKey(rcv[r].frame.payload.device)
  IN  /\ rcv[r].pc = "lookup"
      /\ IF h = NullHandle THEN Return(r, "UNKNOWN_DEVICE")
         ELSE rcv' = [rcv EXCEPT ![r].pc = "verify", ![r].hPubKey = h]
      /\ UNCHANGED agentVars

\* Mutant: the status of BCryptVerifySignature is dropped.
VerifyNothing(h, sig) == {TRUE}

\* CryptoEngine::VerifySignature: what a destroyed handle answers is undefined.
VerifySignature(h, sig) == IF keyOf[h] = NoKey THEN BOOLEAN ELSE {sig = keyOf[h]}

Verify(r) ==
  /\ rcv[r].pc = "verify"
  /\ \E sigValid \in VerifySignature(rcv[r].hPubKey, rcv[r].frame.sig) :
       IF sigValid THEN rcv' = [rcv EXCEPT ![r].pc = "consume", ![r].hPubKey = NullHandle]
                   ELSE Return(r, "INVALID_SIGNATURE")
  /\ UNCHANGED agentVars

\* The second locked check, against the same old sample of the clock.
Consume(r) ==
  LET p == rcv[r].frame.payload
  IN  /\ rcv[r].pc = "consume"
      /\ ValidateAndConsumeChallenge(p.session, p.device, ThisPC, p.challenge,
                                     rcv[r].nowMs, Verdict(r))
      /\ Return(r, Verdict(r))
      /\ grants' = IF Verdict(r) = "SUCCESS"
                   THEN [grants EXCEPT ![p.session] = @ + 1] ELSE grants
      /\ UNCHANGED <<devices, keyOf, algs, listening, now, issued, regs>>

\* SendFrame of the verdict returns, and OnFrameReceived ignores whether it was
\* sent.  It may also wait for ever, for m_sendMutex or in send (TcpTransport).
Reply(r) ==
  /\ rcv[r].pc = "reply"
  /\ rcv' = [rcv EXCEPT ![r] = Idle]
  /\ UNCHANGED agentVars

Step(r) == Validate(r) \/ Lookup(r) \/ Verify(r) \/ Consume(r) \/ Reply(r)

Receive(r) ==
  \/ \E f \in Responses : OnFrameReceived(r, f)
  \/ \E e \in ParseErrors : OnMalformedFrame(r, e)

Api ==
  \/ \E opened \in 0 .. 3, bound \in BOOLEAN : Start(opened, bound)
  \/ Stop
  \/ \E d \in Devices, s \in Sessions, c \in Challenges : InitiateUnlockRequest(d, s, c)
  \/ \E d \in Devices, k \in Keys, h \in Handles : RegisterDevice(d, k, h)
  \/ \E d \in Devices : UnregisterDevice(d)
  \/ ExpireOverdue
  \/ \E p \in AuthPayload : ConsumeChallenge(p)

Next == Api \/ Clock \/ \E r \in Receivers : Receive(r) \/ Step(r)

Spec == Init /\ [][Next]_vars

-----------------------------------------------------------------------------
\* Properties

\* Every variable has its type; local state is set exactly where the code
\* can still use it (AgentService members, ProcessUnlockResponse locals).
TypeOK ==
  /\ StoreTypeOK /\ RegistryTypeOK
  /\ algs \in 0 .. 3 /\ listening \in BOOLEAN /\ now \in Time
  /\ rcv \in [Receivers -> Locals]
  /\ issued \in [Sessions -> Nat] /\ grants \in [Sessions -> Nat]
  /\ regs \in [Devices -> SUBSET Keys]
  /\ \A r \in Receivers :
       /\ rcv[r].pc \in {"validate", "lookup", "verify", "consume"} => rcv[r].frame # NoFrame
       /\ rcv[r].pc = "verify" => rcv[r].hPubKey # NullHandle

\* One unlock per request: however many receivers verify the same answer at
\* once, AddChallenge is followed by at most one SUCCESS verdict
\* (ValidateAndConsumeChallenge).
SingleUse == \A s \in Sessions : grants[s] <= issued[s]

\* What makes SingleUse inductive: a session that can still be consumed has a
\* request that was not answered.
OutstandingUnanswered ==
  \A s \in Sessions : StateIs(s, "OUTSTANDING") => grants[s] < issued[s]

\* RegisterDevice and UnregisterDevice destroy what they replace and nothing
\* else: the live CNG handles are those of the registered devices, one each.
HandlesExact ==
  /\ \A d \in Devices : devices[d] # NullHandle => keyOf[devices[d]] # NoKey
  /\ \A h \in Handles : keyOf[h] # NoKey => \E d \in Devices : devices[d] = h
  /\ \A d, e \in Devices : devices[d] = devices[e] /\ d # e => devices[d] = NullHandle

\* A receiver about to consume a challenge carries an answer signed by a key
\* registered for the device the answer names, unless that device was
\* re-registered or unregistered between GetDevicePublicKey and
\* VerifySignature.
VerifiedBeforeConsume ==
  \A r \in Receivers :
    rcv[r].pc = "consume" /\ ~rcv[r].dangling
      => rcv[r].frame.sig \in regs[rcv[r].frame.payload.device]

\* The record a step turns from OUTSTANDING into CONSUMED with a SUCCESS
\* verdict is the one the answer was made for: same device, same nonce, and
\* the clock had not passed its expiry when the answer came in.
GrantMatchesRequest ==
  [][\A s \in Sessions : grants'[s] # grants[s] =>
       \E r \in Receivers :
         /\ rcv[r].pc = "consume" /\ rcv[r].frame.payload.session = s
         /\ StateIs(s, "OUTSTANDING") /\ store'[s].state = "CONSUMED"
         /\ rcv[r].frame.payload.device = store[s].device
         /\ rcv[r].frame.payload.challenge = store[s].challenge
         /\ rcv[r].nowMs <= store[s].expires]_vars

\* With the RNG provider open a consumed or expired record stays as it is:
\* no later call revives it (AddChallenge, ExpireChallenges, both consumes).
EndedForGood ==
  [][\A s \in Sessions : algs >= 2 /\ (StateIs(s, "CONSUMED") \/ StateIs(s, "EXPIRED"))
       => store'[s] = store[s]]_vars

\* The agent implements the abstract one-time challenge.
Abstract == INSTANCE OneTimeChallenge WITH
  Nobody <- NoRecord,
  openTo <- [s \in Sessions |->
               IF StateIs(s, "OUTSTANDING") THEN store[s].device ELSE NoRecord],
  granted <- grants
ImplementsOneTimeChallenge == Abstract!Spec

\* docs/security.md: "Challenges have a strict 30-second TTL": no SUCCESS
\* verdict once the clock has passed the expiry.
StrictTTL ==
  [][\A s \in Sessions : grants'[s] # grants[s] => now <= store[s].expires]_vars

=============================================================================
