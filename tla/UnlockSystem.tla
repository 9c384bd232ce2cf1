---------------------------- MODULE UnlockSystem ----------------------------
(***************************************************************************)
(* The agent and the phone together.  The agent's side of the connection   *)
(* is what TcpTransport shows it to be: one connection per listener, the   *)
(* others wait in the backlog, and one worker thread that runs             *)
(* ProcessUnlockResponse, here step by step between its locked sections.   *)
(* The phone connects to whatever host the user types, so that a tap may   *)
(* also lead to another PC with an agent of its own.                       *)
(*                                                                         *)
(* The agent has started, so that its random provider is open: Start fails *)
(* without it.  What InitiateUnlockRequest does before that, with the      *)
(* failure of GenerateRandomBytes ignored, is in AgentService.             *)
(***************************************************************************)
EXTENDS Phone, ChallengeStore

CONSTANTS
  ThisPC        \* m_pcId

ASSUME ThisPCAssumption == ThisPC \in PCs

VARIABLES
  host,         \* tap -> the PC at the address it connects to
  agentConn,    \* the connection the agent serves
  work,         \* [pc, frame, nowMs]: the worker in ProcessUnlockResponse
  now,          \* the agent's system_clock; the phone's is its own
  elsewhere,    \* session ids that other PCs have drawn
  granted       \* history: sessions with a SUCCESS verdict

agentVars == <<store, host, agentConn, work, now, elsewhere, granted>>
vars == <<transportVars, phoneVars, agentVars>>

Idle == [pc |-> "idle", frame |-> NoFrame, nowMs |-> 0]

Init ==
  /\ PhoneInit /\ StoreInit
  /\ host \in [Taps -> PCs]
  /\ agentConn = Null /\ work = Idle /\ now = 0
  /\ elsewhere = {} /\ granted = {}

-----------------------------------------------------------------------------
\* Connections and requests

\* The worker of the listener before has been joined.
Accept(c) ==
  /\ agentConn = Null /\ work = Idle
  /\ c \in peers /\ host[c] = ThisPC
  /\ agentConn' = c
  /\ UNCHANGED <<transportVars, phoneVars, store, host, work, now, elsewhere, granted>>

\* Stop and Start on PC p: the connection served and those in the backlog end.
\* Close shuts the sockets and then waits for the worker, which finishes the
\* frame it has in hand.
AgentRestart(p) ==
  /\ \E c \in peers : host[c] = p
  /\ peers' = {c \in peers : host[c] # p}
  /\ outbound' = [c \in Taps |-> IF host[c] = p THEN <<>> ELSE outbound[c]]
  /\ agentConn' = IF p = ThisPC THEN Null ELSE agentConn
  /\ UNCHANGED <<members, open, inbound, call, rx, snd, overlapped, phoneVars, store, host, work,
                 now, elsewhere, granted>>

\* The UNLOCK_REQ of PC p.
UnlockReq(s, p, c) == [session |-> s, pc |-> p, challenge |-> c, expires |-> now + TTL]

\* Random ids are new: no PC has drawn session s before.
Fresh(s) == store[s] = NoRecord /\ s \notin elsewhere

\* A frame sent on connection c is lost if the phone has closed its end.
Sent(c, q) == IF c \in open THEN [inbound EXCEPT ![c] = Append(@, q)] ELSE inbound

\* InitiateUnlockRequest: the frame is sent if there is a connection.
InitiateUnlockRequest(s, c) ==
  /\ Fresh(s)
  /\ \A x \in Sessions : store[x] # NoRecord => store[x].challenge # c
  /\ AddChallenge(s, [device |-> DeviceId, pc |-> ThisPC, challenge |-> c,
                      expires |-> now + TTL, state |-> "OUTSTANDING"])
  /\ inbound' = Sent(agentConn, UnlockReq(s, ThisPC, c))
  /\ UNCHANGED <<members, open, peers, outbound, call, rx, snd, overlapped, phoneVars, host,
                 agentConn, work, now, elsewhere, granted>>

\* The same on the other PC that connection t leads to.  Its expiry is only
\* ever compared with the phone's clock, which may read anything.
OtherPCAsks(t, s, c) ==
  /\ host[t] # ThisPC /\ t \in peers
  /\ Fresh(s)
  /\ elsewhere' = elsewhere \cup {s}
  /\ inbound' = Sent(t, UnlockReq(s, host[t], c))
  /\ UNCHANGED <<members, open, peers, outbound, call, rx, snd, overlapped, phoneVars, store,
                 host, agentConn, work, now, granted>>

-----------------------------------------------------------------------------
\* The worker in OnFrameReceived

\* Up to the one sample of the clock.
TakeAnswer ==
  /\ agentConn # Null /\ outbound[agentConn] # <<>> /\ work = Idle
  /\ work' = [pc |-> "validate", frame |-> Head(outbound[agentConn]), nowMs |-> now]
  /\ outbound' = [outbound EXCEPT ![agentConn] = Tail(@)]
  /\ UNCHANGED <<members, open, peers, inbound, call, rx, snd, overlapped, phoneVars, store, host,
                 agentConn, now, elsewhere, granted>>

Verdict ==
  LET p == work.frame.payload
  IN  ValidateChallenge(p.session, p.device, ThisPC, p.challenge, work.nowMs)

\* The verdict goes back in a frame of a type that the phone ignores.
Continue(ok, label) == work' = IF ok THEN [work EXCEPT !.pc = label] ELSE Idle

Validate ==
  /\ work.pc = "validate"
  /\ Continue(Verdict = "SUCCESS", "verify")
  /\ UNCHANGED <<transportVars, phoneVars, store, host, agentConn, now, elsewhere, granted>>

RegisteredKey == 1      \* the generation the phone had when it was registered

\* GetDevicePublicKey and VerifySignature: the phone is registered throughout.
Verify ==
  /\ work.pc = "verify"
  /\ Continue(work.frame.sig = RegisteredKey, "consume")
  /\ UNCHANGED <<transportVars, phoneVars, store, host, agentConn, now, elsewhere, granted>>

Consume ==
  LET p == work.frame.payload
  IN  /\ work.pc = "consume"
      /\ ValidateAndConsumeChallenge(p.session, p.device, ThisPC, p.challenge, work.nowMs,
                                     Verdict)
      /\ granted' = IF Verdict = "SUCCESS" THEN granted \cup {p.session} ELSE granted
      /\ work' = Idle
      /\ UNCHANGED <<transportVars, phoneVars, host, agentConn, now, elsewhere>>

\* system_clock moves forward, or is set back.
Clock ==
  /\ now' \in {now + 1, now - 1} \cap Time
  /\ UNCHANGED <<transportVars, phoneVars, store, host, agentConn, work, elsewhere, granted>>

-----------------------------------------------------------------------------

Phone ==
  /\ PhoneRuns \/ User \/ Confirm \/ \E t \in Taps : ThreadRuns(t)
  /\ UNCHANGED agentVars

\* A frame arrives at a moment that the phone's clock may call anything.
Arrives == (\E t \in Taps, nowMs \in Time : OnFrameReceived(t, nowMs)) /\ UNCHANGED agentVars

Ask ==
  \E s \in Sessions, c \in Challenges :
    InitiateUnlockRequest(s, c) \/ \E t \in Taps : OtherPCAsks(t, s, c)

Agent ==
  \/ \E c \in Taps : Accept(c)
  \/ \E p \in PCs : AgentRestart(p)
  \/ TakeAnswer \/ Validate \/ Verify \/ Consume

Next == Phone \/ Arrives \/ Ask \/ Agent \/ Clock

Spec == Init /\ [][Next]_vars

-----------------------------------------------------------------------------
\* Properties

Answers == [payload : AuthPayload, sig : 1 .. MaxKeys]

\* Every variable has its type; the worker has a frame where it uses one.
TypeOK ==
  /\ PhoneTypeOK /\ StoreTypeOK
  /\ host \in [Taps -> PCs] /\ agentConn \in Taps \cup {Null} /\ now \in Time
  /\ \/ work = Idle
     \/ work \in [pc : {"validate", "verify", "consume"}, frame : Answers, nowMs : Time]
  /\ elsewhere \subseteq Sessions /\ granted \subseteq Sessions

\* The PC unlocks only for a request of its own that the user of the phone has
\* confirmed on a prompt, with the challenge issued for it, though the phone
\* shows the requests of any PC it is connected to (handleUnlockRequest), may
\* swap the request under a prompt, and answers on whatever connection is
\* current.
GrantedMeansConfirmed ==
  \A s \in granted : \E q \in confirmed :
    q.session = s /\ q.challenge = store[s].challenge /\ q.pc = ThisPC

\* The requests the PC has made, the user confirmed, the clock calls overdue,
\* the worker judges on an answer that came in time, and those granted.
Issued == {s \in Sessions : store[s] # NoRecord}
Request(s) == <<s, store[s].challenge>>
AskedFor == {Request(s) : s \in Issued}
ConfirmedByUser == {<<q.session, q.challenge>> : q \in confirmed}
Overdue == {Request(s) : s \in {x \in Issued : now > store[x].expires}}
Judged ==
  {s \in Issued :
     /\ work # Idle
     /\ work.frame.payload.session = s /\ work.frame.payload.challenge = store[s].challenge
     /\ work.nowMs <= store[s].expires}
UnlockedFor == {Request(s) : s \in granted}

Owner == INSTANCE ConfirmedUnlock WITH
  Requests <- Sessions \X Challenges, asked <- AskedFor, confirmed <- ConfirmedByUser,
  late <- Overdue, judging <- {Request(s) : s \in Judged}, unlocked <- UnlockedFor

\* Agent and phone keep the promise of ConfirmedUnlock, however connections,
\* threads, restarts and both clocks fall: ProcessUnlockResponse grants what
\* the PC has asked and the user had confirmed when, on taking the answer, it
\* read a clock that had not passed the expiry.
ImplementsConfirmedUnlock == Owner!Spec

=============================================================================
