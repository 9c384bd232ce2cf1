------------------------- MODULE AgentServiceProofs -------------------------
(***************************************************************************)
(* Proofs about AgentService for all values of its constants: any number   *)
(* of receivers, sessions, devices, keys and handles, any TTL.             *)
(***************************************************************************)
EXTENDS AgentService, TLAPS

-----------------------------------------------------------------------------
\* Facts about the store

\* The check chain returns an error code, SUCCESS only for an outstanding
\* record (ChallengeStore::ValidateChallenge).
LEMMA ValidateFacts ==
  ASSUME StoreTypeOK,
         NEW s \in Sessions, NEW d, NEW p, NEW c, NEW t
  PROVE  /\ ValidateChallenge(s, d, p, c, t) \in ErrorCode
         /\ ValidateChallenge(s, d, p, c, t) = "SUCCESS" =>
              StateIs(s, "OUTSTANDING")
         /\ ValidateChallenge(s, d, p, c, t) = "CHALLENGE_EXPIRED" =>
              StateIs(s, "OUTSTANDING") \/ StateIs(s, "EXPIRED")
  BY TimeAssumption DEF ValidateChallenge, ErrorCode, ParseErrors, StateIs, StoreTypeOK,
     ChallengeRecord, Lapsed

\* A consuming call changes at most the state of the one record it names:
\* to CONSUMED on SUCCESS, to EXPIRED on CHALLENGE_EXPIRED
\* (ChallengeStore::ValidateAndConsumeChallenge).
LEMMA ConsumeFacts ==
  ASSUME StoreTypeOK,
         NEW s \in Sessions, NEW d, NEW p, NEW c, NEW t, NEW e,
         ValidateAndConsumeChallenge(s, d, p, c, t, e)
  PROVE  /\ e = ValidateChallenge(s, d, p, c, t)
         /\ StoreTypeOK'
         /\ \A x \in Sessions : x # s => store'[x] = store[x]
         /\ e = "SUCCESS" => store'[s] = [store[s] EXCEPT !.state = "CONSUMED"]
         /\ e = "CHALLENGE_EXPIRED" => store'[s] = [store[s] EXCEPT !.state = "EXPIRED"]
         /\ e \notin {"SUCCESS", "CHALLENGE_EXPIRED"} => store'[s] = store[s]
  <1>1. e = ValidateChallenge(s, d, p, c, t)
    BY DEF ValidateAndConsumeChallenge
  <1>2. CASE e = "SUCCESS"
    <2>1. StateIs(s, "OUTSTANDING")
      BY <1>1, <1>2, ValidateFacts
    <2>2. store' = [store EXCEPT ![s].state = "CONSUMED"]
      BY <1>2 DEF ValidateAndConsumeChallenge, Mark
    <2>3. QED
      BY <1>1, <1>2, <2>1, <2>2 DEF StoreTypeOK, ChallengeRecord, StateIs
  <1>3. CASE e = "CHALLENGE_EXPIRED"
    <2>0. StateIs(s, "OUTSTANDING") \/ StateIs(s, "EXPIRED")
      BY <1>1, <1>3, ValidateFacts
    <2>1. store[s] # NoRecord
      BY <2>0 DEF StateIs
    <2>2. store' = [store EXCEPT ![s].state = "EXPIRED"]
      BY <1>3 DEF ValidateAndConsumeChallenge, Mark
    <2>3. QED
      BY <1>1, <1>3, <2>1, <2>2 DEF StoreTypeOK, ChallengeRecord
  <1>4. CASE e \notin {"SUCCESS", "CHALLENGE_EXPIRED"}
    BY <1>1, <1>4 DEF ValidateAndConsumeChallenge, StoreTypeOK
  <1>5. QED
    BY <1>2, <1>3, <1>4

\* A consuming call closes the record on SUCCESS and never opens one.
LEMMA ConsumeCloses ==
  ASSUME StoreTypeOK,
         NEW s \in Sessions, NEW d, NEW p, NEW c, NEW t, NEW e,
         ValidateAndConsumeChallenge(s, d, p, c, t, e)
  PROVE  /\ e = "SUCCESS" => /\ StateIs(s, "OUTSTANDING")
                             /\ StateIs(s, "CONSUMED")'
                             /\ store[s].device = d
                             /\ store[s].challenge = c
         /\ \A x \in Sessions : StateIs(x, "OUTSTANDING")' =>
              StateIs(x, "OUTSTANDING") /\ store'[x] = store[x]
         /\ e # "SUCCESS" => \A x \in Sessions : StateIs(x, "CONSUMED")' <=> StateIs(x, "CONSUMED")
         /\ \A x \in Sessions : StateIs(x, "CONSUMED") \/ StateIs(x, "EXPIRED") =>
              store'[x] = store[x]
         /\ \A x \in Sessions : x # s => store'[x] = store[x]
  <1>1. /\ e = ValidateChallenge(s, d, p, c, t)
        /\ StoreTypeOK'
        /\ \A x \in Sessions : x # s => store'[x] = store[x]
    BY ConsumeFacts
  <1>2. CASE e = "SUCCESS"
    <2>0. StateIs(s, "OUTSTANDING")
      BY <1>1, <1>2, ValidateFacts
    <2>1. store[s].device = d /\ store[s].challenge = c
      BY <1>1, <1>2 DEF ValidateChallenge
    <2>2. store'[s] = [store[s] EXCEPT !.state = "CONSUMED"]
      BY <1>2, ConsumeFacts
    <2>3. store'[s] # NoRecord /\ store'[s].state = "CONSUMED"
      BY <2>0, <2>2, NoRecordAssumption DEF StateIs, StoreTypeOK, ChallengeRecord
    <2>4. QED
      BY <1>1, <1>2, <2>0, <2>1, <2>3 DEF StateIs
  <1>3. CASE e = "CHALLENGE_EXPIRED"
    <2>1. StateIs(s, "OUTSTANDING") \/ StateIs(s, "EXPIRED")
      BY <1>1, <1>3, ValidateFacts
    <2>2. store'[s] = [store[s] EXCEPT !.state = "EXPIRED"]
      BY <1>3, ConsumeFacts
    <2>3. store'[s] # NoRecord /\ store'[s].state = "EXPIRED"
      BY <2>1, <2>2, NoRecordAssumption DEF StateIs, StoreTypeOK, ChallengeRecord
    <2>4. StateIs(s, "EXPIRED") => store'[s] = store[s]
      BY <2>2 DEF StateIs, StoreTypeOK, ChallengeRecord
    <2>5. QED
      BY <1>1, <1>3, <2>1, <2>3, <2>4 DEF StateIs
  <1>4. CASE e \notin {"SUCCESS", "CHALLENGE_EXPIRED"}
    <2>1. store'[s] = store[s]
      BY <1>4, ConsumeFacts
    <2>2. QED
      BY <1>1, <1>4, <2>1 DEF StateIs
  <1>5. QED
    BY <1>2, <1>3, <1>4

-----------------------------------------------------------------------------
\* Type correctness

\* Between two frames, and with an answer to send, the locals are typed.
LEMMA IdleType ==
  /\ Idle \in Locals
  /\ Idle.pc = "idle"
  /\ \A e \in ErrorCode : /\ [Idle EXCEPT !.pc = "reply", !.err = e] \in Locals
                          /\ [Idle EXCEPT !.pc = "reply", !.err = e].pc = "reply"
  /\ \A f \in Responses, t \in Time :
       LET got == [Idle EXCEPT !.pc = "validate", !.frame = f, !.nowMs = t]
       IN  got \in Locals /\ got.pc = "validate" /\ got.frame = f
  <1>1. 0 \in Time /\ "SUCCESS" \in ErrorCode
    BY TimeAssumption DEF Time, ErrorCode
  <1>2. Idle \in Locals /\ Idle.pc = "idle"
    BY <1>1 DEF Idle, Locals
  <1>3. ASSUME NEW e \in ErrorCode
        PROVE  /\ [Idle EXCEPT !.pc = "reply", !.err = e] \in Locals
               /\ [Idle EXCEPT !.pc = "reply", !.err = e].pc = "reply"
    BY <1>2 DEF Locals
  <1>4. ASSUME NEW f \in Responses, NEW t \in Time
        PROVE  LET got == [Idle EXCEPT !.pc = "validate", !.frame = f, !.nowMs = t]
               IN  got \in Locals /\ got.pc = "validate" /\ got.frame = f
    BY <1>2 DEF Locals
  <1>5. QED
    BY <1>2, <1>3, <1>4

\* The state the constructors leave is typed.
LEMMA InitTypeOK == Init => TypeOK
  <1> SUFFICES ASSUME Init PROVE TypeOK
    OBVIOUS
  <1>1. StoreTypeOK /\ RegistryTypeOK
    BY DEF Init, StoreInit, StoreTypeOK, RegistryInit, RegistryTypeOK
  <1>2. rcv \in [Receivers -> Locals] /\ \A r \in Receivers : rcv[r].pc = "idle"
    <2>1. rcv = [r \in Receivers |-> Idle]
      BY DEF Init
    <2>2. QED
      BY <2>1, IdleType
  <1>3. listening \in BOOLEAN
    BY DEF Init
  <1>4. /\ algs \in 0 .. 3 /\ now \in Time
        /\ issued \in [Sessions -> Nat] /\ grants \in [Sessions -> Nat]
        /\ regs \in [Devices -> SUBSET Keys]
    BY TimeAssumption DEF Init, Time
  <1>5. QED
    BY <1>1, <1>2, <1>3, <1>4 DEF TypeOK

\* Leaving ProcessUnlockResponse keeps every variable in its type.
LEMMA ReturnTypeOK ==
  ASSUME TypeOK, NEW r \in Receivers, NEW e \in ErrorCode, Return(r, e), UNCHANGED agentVars
  PROVE  TypeOK'
  <1> DEFINE done == [Idle EXCEPT !.pc = "reply", !.err = e]
  <1>1. done \in Locals /\ done.pc = "reply"
    BY IdleType
  <1>2. rcv' = [rcv EXCEPT ![r] = done]
    BY DEF Return
  <1> HIDE DEF done
  <1>3. QED
    BY <1>1, <1>2 DEF TypeOK, StoreTypeOK, RegistryTypeOK, agentVars

\* Every action keeps every variable in its type.
LEMMA NextTypeOK == TypeOK /\ [Next]_vars => TypeOK'
  <1> SUFFICES ASSUME TypeOK, [Next]_vars PROVE TypeOK'
    OBVIOUS
  <1> USE TimeAssumption, AgentAssumption
  <1>1. ASSUME NEW opened \in 0 .. 3, NEW bound \in BOOLEAN, Start(opened, bound)
        PROVE  TypeOK'
    BY <1>1 DEF TypeOK, StoreTypeOK, RegistryTypeOK, Start, ghosts
  <1>2. CASE Stop
    BY <1>2 DEF TypeOK, StoreTypeOK, RegistryTypeOK, Stop, ghosts
  <1>3. ASSUME NEW d \in Devices, NEW s \in Sessions, NEW c \in Challenges,
               InitiateUnlockRequest(d, s, c)
        PROVE  TypeOK'
    <2>1. GenerateChallenge(d, c) \in ChallengeRecord
      BY DEF GenerateChallenge, ChallengeRecord, TypeOK, Time
    <2>2. QED
      BY <1>3, <2>1 DEF TypeOK, StoreTypeOK, RegistryTypeOK, InitiateUnlockRequest,
         AddChallenge
  <1>4. ASSUME NEW d \in Devices, NEW k \in Keys, NEW h \in Handles, RegisterDevice(d, k, h)
        PROVE  TypeOK'
    <2>1. rcv' \in [Receivers -> Locals]
      BY <1>4 DEF TypeOK, RegisterDevice, Dangle, Locals
    <2>2. \A r \in Receivers : /\ rcv'[r].pc = rcv[r].pc
                               /\ rcv'[r].frame = rcv[r].frame
                               /\ rcv'[r].hPubKey = rcv[r].hPubKey
      BY <1>4 DEF TypeOK, RegisterDevice, Dangle, Locals
    <2>3. RegistryTypeOK' /\ regs' \in [Devices -> SUBSET Keys]
      BY <1>4 DEF TypeOK, RegistryTypeOK, RegisterDevice, Register
    <2>4. QED
      BY <1>4, <2>1, <2>2, <2>3 DEF TypeOK, StoreTypeOK, RegisterDevice
  <1>5. ASSUME NEW d \in Devices, UnregisterDevice(d)
        PROVE  TypeOK'
    <2>1. rcv' \in [Receivers -> Locals]
      BY <1>5 DEF TypeOK, UnregisterDevice, Dangle, Locals
    <2>2. \A r \in Receivers : /\ rcv'[r].pc = rcv[r].pc
                               /\ rcv'[r].frame = rcv[r].frame
                               /\ rcv'[r].hPubKey = rcv[r].hPubKey
      BY <1>5 DEF TypeOK, UnregisterDevice, Dangle, Locals
    <2>3. RegistryTypeOK'
      BY <1>5 DEF TypeOK, RegistryTypeOK, UnregisterDevice, Unregister
    <2>4. QED
      BY <1>5, <2>1, <2>2, <2>3 DEF TypeOK, StoreTypeOK, UnregisterDevice
  <1>6. CASE ExpireOverdue
    <2>1. StoreTypeOK'
      BY <1>6 DEF TypeOK, StoreTypeOK, ExpireOverdue, ExpireChallenges, StateIs,
         ChallengeRecord
    <2>2. QED
      BY <1>6, <2>1 DEF TypeOK, RegistryTypeOK, ExpireOverdue, ghosts
  <1>7. ASSUME NEW p \in AuthPayload, ConsumeChallenge(p)
        PROVE  TypeOK'
    <2>1. StoreTypeOK'
      BY <1>7, ConsumeFacts DEF TypeOK, ConsumeChallenge, AuthPayload
    <2>2. QED
      BY <1>7, <2>1 DEF TypeOK, RegistryTypeOK, ConsumeChallenge, ghosts
  <1>8. CASE Clock
    BY <1>8 DEF TypeOK, StoreTypeOK, RegistryTypeOK, Clock, ghosts
  <1>9. ASSUME NEW r \in Receivers, Receive(r)
        PROVE  TypeOK'
    <2>1. ASSUME NEW f \in Responses, OnFrameReceived(r, f)
          PROVE  TypeOK'
      <3> DEFINE got == [Idle EXCEPT !.pc = "validate", !.frame = f, !.nowMs = now]
      <3>0. got \in Locals /\ got.pc = "validate" /\ got.frame = f
        BY IdleType DEF TypeOK
      <3>1. rcv' = [rcv EXCEPT ![r] = got]
        BY <2>1 DEF OnFrameReceived
      <3> HIDE DEF got
      <3>2. /\ rcv' \in [Receivers -> Locals]
            /\ rcv'[r].pc = "validate" /\ rcv'[r].frame # NoFrame
            /\ \A q \in Receivers : q # r => rcv'[q] = rcv[q]
        BY <3>0, <3>1, NoFrameAssumption DEF TypeOK
      <3>3. QED
        BY <2>1, <3>1, <3>2 DEF TypeOK, StoreTypeOK, RegistryTypeOK, OnFrameReceived,
           agentVars
    <2>2. ASSUME NEW e \in ParseErrors, OnMalformedFrame(r, e)
          PROVE  TypeOK'
      BY <2>2, ReturnTypeOK DEF OnMalformedFrame, ErrorCode
    <2>3. QED
      BY <1>9, <2>1, <2>2 DEF Receive
  <1>10. ASSUME NEW r \in Receivers, Step(r)
         PROVE  TypeOK'
    <2>f. ASSUME rcv[r].pc \in {"validate", "lookup", "verify", "consume"}
          PROVE  /\ rcv[r].frame \in Responses
                 /\ rcv[r].frame.payload.session \in Sessions
                 /\ rcv[r].frame.payload.device \in Devices
                 /\ Verdict(r) \in ErrorCode
      <3>1. rcv[r].frame \in Responses
        BY <2>f DEF TypeOK, Locals
      <3>2. QED
        BY <3>1, ValidateFacts DEF Responses, AuthPayload, Verdict, TypeOK
    <2>1. CASE Validate(r)
      <3>1. CASE Verdict(r) = "SUCCESS"
        <4>1. rcv' = [rcv EXCEPT ![r].pc = "lookup"]
          BY <2>1, <3>1 DEF Validate, Goto
        <4>2. /\ rcv' \in [Receivers -> Locals]
              /\ rcv'[r].pc = "lookup" /\ rcv'[r].frame = rcv[r].frame
              /\ \A q \in Receivers : q # r => rcv'[q] = rcv[q]
          BY <4>1 DEF TypeOK, Locals
        <4>3. rcv[r].frame # NoFrame
          BY <2>1 DEF Validate, TypeOK
        <4>4. QED
          BY <2>1, <4>2, <4>3 DEF TypeOK, StoreTypeOK, RegistryTypeOK, Validate, agentVars
      <3>2. CASE Verdict(r) # "SUCCESS"
        BY <2>1, <3>2, <2>f, ReturnTypeOK DEF Validate
      <3>3. QED
        BY <3>1, <3>2
    <2>2. CASE Lookup(r)
      <3> DEFINE h == GetDevicePublicKey(rcv[r].frame.payload.device)
      <3>1. CASE h = NullHandle
        BY <2>2, <3>1, ReturnTypeOK DEF Lookup, ErrorCode
      <3>2. CASE h # NullHandle
        <4>1. h \in Handles
          BY <2>2, <2>f, <3>2 DEF Lookup, GetDevicePublicKey, TypeOK, RegistryTypeOK
        <4>2. rcv' = [rcv EXCEPT ![r].pc = "verify", ![r].hPubKey = h]
          BY <2>2, <3>2 DEF Lookup
        <4> HIDE DEF h
        <4>3. QED
          BY <2>2, <3>2, <4>1, <4>2 DEF Lookup, TypeOK, StoreTypeOK, RegistryTypeOK,
             agentVars, Locals
      <3>3. QED
        BY <3>1, <3>2
    <2>3. CASE Verify(r)
      <3>1. CASE Return(r, "INVALID_SIGNATURE")
        BY <2>3, <3>1, ReturnTypeOK DEF Verify, ErrorCode
      <3>2. CASE rcv' = [rcv EXCEPT ![r].pc = "consume", ![r].hPubKey = NullHandle]
        BY <2>3, <3>2 DEF Verify, TypeOK, StoreTypeOK, RegistryTypeOK, agentVars, Locals
      <3>3. QED
        BY <2>3, <3>1, <3>2 DEF Verify
    <2>4. CASE Consume(r)
      <3>1. StoreTypeOK'
        BY <2>4, <2>f, ConsumeFacts DEF Consume, TypeOK
      <3>2. grants' \in [Sessions -> Nat]
        BY <2>4, <2>f DEF Consume, TypeOK
      <3>3. rcv' \in [Receivers -> Locals] /\ rcv'[r].pc = "reply"
            /\ \A q \in Receivers : q # r => rcv'[q] = rcv[q]
        BY <2>4, <2>f, IdleType DEF Consume, Return, TypeOK
      <3>4. QED
        BY <2>4, <3>1, <3>2, <3>3 DEF Consume, TypeOK, RegistryTypeOK
    <2>5. CASE Reply(r)
      BY <2>5 DEF Reply, TypeOK, StoreTypeOK, RegistryTypeOK, agentVars, Locals, Idle,
         ErrorCode, Time
    <2>6. QED
      BY <1>10, <2>1, <2>2, <2>3, <2>4, <2>5 DEF Step
  <1>11. CASE UNCHANGED vars
    BY <1>11 DEF TypeOK, StoreTypeOK, RegistryTypeOK, vars
  <1>12. QED
    BY <1>1, <1>2, <1>3, <1>4, <1>5, <1>6, <1>7, <1>8, <1>9, <1>10, <1>11 DEF Next, Api

\* Every reachable state of the agent is well typed.
THEOREM TypeCorrect == Spec => []TypeOK
  BY InitTypeOK, NextTypeOK, PTL DEF Spec

-----------------------------------------------------------------------------
\* One grant per request

\* A step that leaves the records alone, or closes some, and counts nothing
\* keeps the balance of requests and grants.
LEMMA NoNewGrant ==
  ASSUME SingleUse, OutstandingUnanswered, UNCHANGED <<issued, grants>>,
         \A s \in Sessions : StateIs(s, "OUTSTANDING")' => StateIs(s, "OUTSTANDING")
  PROVE  SingleUse' /\ OutstandingUnanswered'
  BY DEF SingleUse, OutstandingUnanswered

\* SingleUse with OutstandingUnanswered is inductive: only Consume counts a
\* grant, and it needs an outstanding record, which it closes.
LEMMA NextSingleUse ==
  TypeOK /\ SingleUse /\ OutstandingUnanswered /\ [Next]_vars
    => SingleUse' /\ OutstandingUnanswered'
  <1> SUFFICES ASSUME TypeOK, SingleUse, OutstandingUnanswered, [Next]_vars
               PROVE  SingleUse' /\ OutstandingUnanswered'
    OBVIOUS
  <1>0. ASSUME UNCHANGED <<store, issued, grants>>
        PROVE  SingleUse' /\ OutstandingUnanswered'
    BY <1>0, NoNewGrant DEF StateIs
  <1>1. ASSUME NEW opened \in 0 .. 3, NEW bound \in BOOLEAN, Start(opened, bound)
        PROVE  SingleUse' /\ OutstandingUnanswered'
    BY <1>0, <1>1 DEF Start, ghosts
  <1>2. CASE Stop
    BY <1>0, <1>2 DEF Stop, ghosts
  <1>3. ASSUME NEW d \in Devices, NEW s \in Sessions, NEW c \in Challenges,
               InitiateUnlockRequest(d, s, c)
        PROVE  SingleUse' /\ OutstandingUnanswered'
    BY <1>3 DEF InitiateUnlockRequest, AddChallenge, TypeOK, StoreTypeOK, StateIs, SingleUse,
       OutstandingUnanswered
  <1>4. ASSUME NEW d \in Devices, NEW k \in Keys, NEW h \in Handles, RegisterDevice(d, k, h)
        PROVE  SingleUse' /\ OutstandingUnanswered'
    BY <1>0, <1>4 DEF RegisterDevice
  <1>5. ASSUME NEW d \in Devices, UnregisterDevice(d)
        PROVE  SingleUse' /\ OutstandingUnanswered'
    BY <1>0, <1>5 DEF UnregisterDevice
  <1>6. CASE ExpireOverdue
    <2>1. \A s \in Sessions : StateIs(s, "OUTSTANDING")' => StateIs(s, "OUTSTANDING")
      BY <1>6 DEF ExpireOverdue, ExpireChallenges, StateIs, TypeOK, StoreTypeOK,
         ChallengeRecord
    <2>2. QED
      BY <1>6, <2>1, NoNewGrant DEF ExpireOverdue, ghosts
  <1>7. ASSUME NEW p \in AuthPayload, ConsumeChallenge(p)
        PROVE  SingleUse' /\ OutstandingUnanswered'
    <2>1. p.session \in Sessions /\ StoreTypeOK
      BY DEF AuthPayload, TypeOK
    <2>2. PICK e \in ErrorCode :
            ValidateAndConsumeChallenge(p.session, p.device, p.pc, p.challenge, now, e)
      BY <1>7 DEF ConsumeChallenge
    <2>4. \A s \in Sessions : StateIs(s, "OUTSTANDING")' => StateIs(s, "OUTSTANDING")
      BY <2>1, <2>2, ConsumeCloses
    <2>5. QED
      BY <1>7, <2>4, NoNewGrant DEF ConsumeChallenge, ghosts
  <1>8. CASE Clock
    BY <1>0, <1>8 DEF Clock, ghosts
  <1>9. ASSUME NEW r \in Receivers, Receive(r)
        PROVE  SingleUse' /\ OutstandingUnanswered'
    BY <1>0, <1>9 DEF Receive, OnFrameReceived, OnMalformedFrame, agentVars
  <1>10. ASSUME NEW r \in Receivers, Step(r)
         PROVE  SingleUse' /\ OutstandingUnanswered'
    <2>1. CASE Validate(r) \/ Lookup(r) \/ Verify(r) \/ Reply(r)
      BY <1>0, <2>1 DEF Validate, Lookup, Verify, Reply, agentVars
    <2>2. CASE Consume(r)
      <3>1. PICK s \in Sessions : s = rcv[r].frame.payload.session
        BY <2>2 DEF Consume, TypeOK, Locals, Responses, AuthPayload
      <3>2. /\ ValidateAndConsumeChallenge(s, rcv[r].frame.payload.device, ThisPC,
                 rcv[r].frame.payload.challenge, rcv[r].nowMs, Verdict(r))
            /\ StoreTypeOK
        BY <2>2, <3>1 DEF Consume, TypeOK
      <3>3. grants' = IF Verdict(r) = "SUCCESS" THEN [grants EXCEPT ![s] = @ + 1] ELSE grants
        BY <2>2, <3>1 DEF Consume
      <3>4. issued' = issued
        BY <2>2 DEF Consume
      <3>5. /\ Verdict(r) = "SUCCESS" => StateIs(s, "OUTSTANDING") /\ StateIs(s, "CONSUMED")'
            /\ \A x \in Sessions : StateIs(x, "OUTSTANDING")' => StateIs(x, "OUTSTANDING")
        BY <3>1, <3>2, ConsumeCloses
      <3>6. CASE Verdict(r) = "SUCCESS"
        <4>1. grants[s] + 1 <= issued[s]
          BY <3>1, <3>5, <3>6 DEF OutstandingUnanswered, TypeOK
        <4>2. ~ StateIs(s, "OUTSTANDING")'
          BY <3>5, <3>6 DEF StateIs
        <4>3. grants' = [grants EXCEPT ![s] = @ + 1]
          BY <3>3, <3>6
        <4>4. \A x \in Sessions : grants'[x] = IF x = s THEN grants[s] + 1 ELSE grants[x]
          BY <4>3 DEF TypeOK
        <4>5. SingleUse'
          BY <3>4, <4>1, <4>4 DEF SingleUse
        <4>6. ASSUME NEW x \in Sessions, StateIs(x, "OUTSTANDING")'
              PROVE  (grants[x] < issued[x])'
          <5>1. x # s /\ StateIs(x, "OUTSTANDING")
            BY <3>5, <4>2, <4>6
          <5>2. QED
            BY <3>4, <4>4, <5>1 DEF OutstandingUnanswered
        <4>7. QED
          BY <4>5, <4>6 DEF OutstandingUnanswered
      <3>7. CASE Verdict(r) # "SUCCESS"
        BY <3>3, <3>4, <3>5, <3>7, NoNewGrant
      <3>8. QED
        BY <3>6, <3>7
    <2>3. QED
      BY <1>10, <2>1, <2>2 DEF Step
  <1>11. CASE UNCHANGED vars
    BY <1>0, <1>11 DEF vars
  <1>12. QED
    BY <1>1, <1>2, <1>3, <1>4, <1>5, <1>6, <1>7, <1>8, <1>9, <1>10, <1>11 DEF Next, Api

\* However receivers, API calls and the clock interleave, a request is
\* granted at most once.
THEOREM SingleUseAlways == Spec => []SingleUse
  <1>1. Init => SingleUse /\ OutstandingUnanswered
    BY DEF Init, StoreInit, SingleUse, OutstandingUnanswered, StateIs
  <1>2. QED
    BY <1>1, TypeCorrect, NextSingleUse, PTL DEF Spec

-----------------------------------------------------------------------------
\* Key handles

\* HandlesExact is inductive: only Register and Unregister touch handles.
LEMMA NextHandles == TypeOK /\ HandlesExact /\ [Next]_vars => HandlesExact'
  <1> SUFFICES ASSUME TypeOK, HandlesExact, [Next]_vars PROVE HandlesExact'
    OBVIOUS
  <1>0. ASSUME UNCHANGED registryVars PROVE HandlesExact'
    BY <1>0 DEF HandlesExact, registryVars
  <1>1. ASSUME NEW d \in Devices, NEW k \in Keys, NEW h \in Handles, RegisterDevice(d, k, h)
        PROVE  HandlesExact'
    <2>1. /\ keyOf[h] = NoKey
          /\ keyOf' = [x \in Handles |-> IF x = h THEN k
                                         ELSE IF x = devices[d] THEN NoKey ELSE keyOf[x]]
          /\ devices' = [devices EXCEPT ![d] = h]
      BY <1>1 DEF RegisterDevice, Register, FreeHandles
    <2>2. \A e \in Devices : devices[e] # h
      BY <2>1, NullHandleAssumption DEF HandlesExact
    <2>3. \A e \in Devices : devices'[e] = IF e = d THEN h ELSE devices[e]
      BY <2>1 DEF TypeOK, RegistryTypeOK
    <2>4. \A e \in Devices : devices[e] # NullHandle => devices[e] \in Handles
      BY DEF TypeOK, RegistryTypeOK
    <2>5. \A e \in Devices : devices'[e] # NullHandle => keyOf'[devices'[e]] # NoKey
      BY <2>1, <2>2, <2>3, <2>4, NoKeyAssumption DEF HandlesExact
    <2>6. \A x \in Handles : keyOf'[x] # NoKey => \E e \in Devices : devices'[e] = x
      BY <2>1, <2>3 DEF HandlesExact
    <2>7. \A a, b \in Devices : devices'[a] = devices'[b] /\ a # b => devices'[a] = NullHandle
      BY <2>2, <2>3 DEF HandlesExact
    <2>8. QED
      BY <2>5, <2>6, <2>7 DEF HandlesExact
  <1>2. ASSUME NEW d \in Devices, UnregisterDevice(d)
        PROVE  HandlesExact'
    <2>1. /\ devices[d] # NullHandle
          /\ keyOf' = [keyOf EXCEPT ![devices[d]] = NoKey]
          /\ devices' = [devices EXCEPT ![d] = NullHandle]
      BY <1>2 DEF UnregisterDevice, Unregister
    <2>2. \A e \in Devices : devices'[e] = IF e = d THEN NullHandle ELSE devices[e]
      BY <2>1 DEF TypeOK, RegistryTypeOK
    <2>3. \A x \in Handles : keyOf'[x] = IF x = devices[d] THEN NoKey ELSE keyOf[x]
      BY <2>1 DEF TypeOK, RegistryTypeOK
    <2>4. \A e \in Devices : devices[e] # NullHandle => devices[e] \in Handles
      BY DEF TypeOK, RegistryTypeOK
    <2>5. QED
      BY <2>1, <2>2, <2>3, <2>4 DEF HandlesExact
  <1>3. CASE Clock \/ Stop \/ ExpireOverdue
    BY <1>0, <1>3 DEF Clock, Stop, ExpireOverdue, registryVars
  <1>4. ASSUME NEW opened \in 0 .. 3, NEW bound \in BOOLEAN, Start(opened, bound)
        PROVE  HandlesExact'
    BY <1>0, <1>4 DEF Start, registryVars
  <1>5. ASSUME NEW d \in Devices, NEW s \in Sessions, NEW c \in Challenges,
               InitiateUnlockRequest(d, s, c)
        PROVE  HandlesExact'
    BY <1>0, <1>5 DEF InitiateUnlockRequest, registryVars
  <1>6. ASSUME NEW p \in AuthPayload, ConsumeChallenge(p)
        PROVE  HandlesExact'
    BY <1>0, <1>6 DEF ConsumeChallenge, registryVars
  <1>7. ASSUME NEW r \in Receivers, Receive(r) \/ Step(r)
        PROVE  HandlesExact'
    <2>1. UNCHANGED registryVars
      BY <1>7 DEF Receive, OnFrameReceived, OnMalformedFrame, Step, Validate, Lookup,
         Verify, Consume, Reply, agentVars, registryVars
    <2>2. QED
      BY <1>0, <2>1
  <1>8. CASE UNCHANGED vars
    BY <1>0, <1>8 DEF vars, registryVars
  <1>9. QED
    BY <1>1, <1>2, <1>3, <1>4, <1>5, <1>6, <1>7, <1>8 DEF Next, Api

\* No sequence of registrations leaks a CNG handle, destroys one twice or
\* lets two devices share one.
THEOREM HandlesExactAlways == Spec => []HandlesExact
  <1>1. Init => HandlesExact
    BY DEF Init, RegistryInit, HandlesExact
  <1>2. QED
    BY <1>1, TypeCorrect, NextHandles, PTL DEF Spec

-----------------------------------------------------------------------------
\* Verified before consumed

\* The key behind a device's handle was registered for that device, and a
\* handle that was not destroyed under its receiver is still the one of the
\* device that the answer names.
HandleTrust ==
  /\ \A d \in Devices : devices[d] # NullHandle => keyOf[devices[d]] \in regs[d]
  /\ \A r \in Receivers : rcv[r].pc = "verify" /\ ~rcv[r].dangling
       => rcv[r].hPubKey = devices[rcv[r].frame.payload.device]

\* A step that leaves the registry alone, and every receiver that is inside
\* VerifySignature or about to consume, keeps what is known of both.
LEMMA TrustFrame ==
  ASSUME TypeOK, HandleTrust, VerifiedBeforeConsume, UNCHANGED <<devices, keyOf, regs>>,
         \A r \in Receivers : rcv'[r].pc \in {"verify", "consume"} => rcv'[r] = rcv[r]
  PROVE  HandleTrust' /\ VerifiedBeforeConsume'
  BY DEF HandleTrust, VerifiedBeforeConsume

\* A step of receiver r that touches nothing but its own locals and lands
\* outside VerifySignature and Consume is such a step.
LEMMA TrustOwnStep ==
  ASSUME TypeOK, HandleTrust, VerifiedBeforeConsume, UNCHANGED <<devices, keyOf, regs>>,
         NEW r \in Receivers, rcv'[r].pc \notin {"verify", "consume"},
         \A q \in Receivers : q # r => rcv'[q] = rcv[q]
  PROVE  HandleTrust' /\ VerifiedBeforeConsume'
  BY TrustFrame

\* Registering or unregistering a device marks every receiver that holds its
\* old handle, and gives another device neither a new handle nor a new key.
LEMMA TrustRegistry ==
  ASSUME TypeOK, HandlesExact, HandleTrust, VerifiedBeforeConsume,
         NEW d \in Devices, Dangle(Holders(d)),
         \A e \in Devices : regs[e] \subseteq regs'[e],
         devices'[d] # NullHandle => keyOf'[devices'[d]] \in regs'[d],
         \A e \in Devices : e # d => /\ devices'[e] = devices[e]
                                     /\ devices[e] # NullHandle => 
                                          keyOf'[devices[e]] = keyOf[devices[e]]
  PROVE  HandleTrust' /\ VerifiedBeforeConsume'
  <1>1. \A e \in Devices : devices'[e] # NullHandle => keyOf'[devices'[e]] \in regs'[e]
    BY DEF HandleTrust
  <1>2. ASSUME NEW r \in Receivers
        PROVE  /\ rcv'[r].pc = rcv[r].pc /\ rcv'[r].hPubKey = rcv[r].hPubKey
               /\ rcv'[r].frame = rcv[r].frame
               /\ rcv[r].dangling => rcv'[r].dangling
               /\ r \in Holders(d) => rcv'[r].dangling
    BY <1>2 DEF Dangle, TypeOK, Locals
  <1>3. ASSUME NEW r \in Receivers, rcv[r].pc \in {"verify", "consume"}
        PROVE  rcv[r].frame.payload.device \in Devices
    BY <1>3 DEF TypeOK, Locals, Responses, AuthPayload
  <1>4. ASSUME NEW r \in Receivers, rcv'[r].pc = "verify", ~rcv'[r].dangling
        PROVE  rcv'[r].hPubKey = devices'[rcv'[r].frame.payload.device]
    <2>1. rcv[r].pc = "verify" /\ ~rcv[r].dangling /\ r \notin Holders(d)
      BY <1>2, <1>4
    <2>2. rcv[r].hPubKey = devices[rcv[r].frame.payload.device]
      BY <2>1 DEF HandleTrust
    <2>3. rcv[r].frame.payload.device # d
      BY <2>1, <2>2 DEF Holders
    <2>4. QED
      BY <1>2, <1>3, <2>1, <2>2, <2>3
  <1>5. ASSUME NEW r \in Receivers, rcv'[r].pc = "consume", ~rcv'[r].dangling
        PROVE  rcv'[r].frame.sig \in regs'[rcv'[r].frame.payload.device]
    <2>1. rcv[r].frame.sig \in regs[rcv[r].frame.payload.device]
      BY <1>2, <1>5 DEF VerifiedBeforeConsume
    <2>2. QED
      BY <1>2, <1>3, <1>5, <2>1
  <1>6. QED
    BY <1>1, <1>4, <1>5 DEF HandleTrust, VerifiedBeforeConsume

\* VerifiedBeforeConsume with HandleTrust is inductive, given that no two
\* devices share a handle.
LEMMA NextVerified ==
  TypeOK /\ HandlesExact /\ HandleTrust /\ VerifiedBeforeConsume /\ [Next]_vars
    => HandleTrust' /\ VerifiedBeforeConsume'
  <1> SUFFICES ASSUME TypeOK, HandlesExact, HandleTrust, VerifiedBeforeConsume, [Next]_vars
               PROVE  HandleTrust' /\ VerifiedBeforeConsume'
    OBVIOUS
  <1>0. ASSUME UNCHANGED <<devices, keyOf, regs, rcv>>
        PROVE  HandleTrust' /\ VerifiedBeforeConsume'
    BY <1>0, TrustFrame
  <1>1. ASSUME NEW d \in Devices, NEW k \in Keys, NEW h \in Handles, RegisterDevice(d, k, h)
        PROVE  HandleTrust' /\ VerifiedBeforeConsume'
    <2>1. /\ keyOf[h] = NoKey
          /\ keyOf' = [x \in Handles |-> IF x = h THEN k
                                         ELSE IF x = devices[d] THEN NoKey ELSE keyOf[x]]
          /\ devices' = [devices EXCEPT ![d] = h]
          /\ regs' = [regs EXCEPT ![d] = @ \cup {k}]
          /\ Dangle(Holders(d))
      BY <1>1 DEF RegisterDevice, Register, FreeHandles
    <2>2. \A e \in Devices : devices[e] # NullHandle => devices[e] \in Handles
      BY DEF TypeOK, RegistryTypeOK
    <2>3. \A e \in Devices : e # d /\ devices[e] # NullHandle =>
                               devices[e] # h /\ devices[e] # devices[d]
      BY <2>1 DEF HandlesExact
    <2>4. \A e \in Devices : regs[e] \subseteq regs'[e]
      BY <2>1 DEF TypeOK
    <2>5. devices'[d] = h /\ keyOf'[h] = k /\ k \in regs'[d]
      BY <2>1 DEF TypeOK, RegistryTypeOK
    <2>6. \A e \in Devices : e # d => /\ devices'[e] = devices[e]
                                      /\ devices[e] # NullHandle => 
                                           keyOf'[devices[e]] = keyOf[devices[e]]
      BY <2>1, <2>2, <2>3 DEF TypeOK, RegistryTypeOK
    <2>7. QED
      BY <2>1, <2>4, <2>5, <2>6, TrustRegistry
  <1>2. ASSUME NEW d \in Devices, UnregisterDevice(d)
        PROVE  HandleTrust' /\ VerifiedBeforeConsume'
    <2>1. /\ keyOf' = [keyOf EXCEPT ![devices[d]] = NoKey]
          /\ devices' = [devices EXCEPT ![d] = NullHandle]
          /\ regs' = regs /\ Dangle(Holders(d))
      BY <1>2 DEF UnregisterDevice, Unregister
    <2>2. devices'[d] = NullHandle
      BY <2>1 DEF TypeOK, RegistryTypeOK
    <2>3. \A e \in Devices : e # d => /\ devices'[e] = devices[e]
                                      /\ devices[e] # NullHandle => 
                                           keyOf'[devices[e]] = keyOf[devices[e]]
      BY <2>1 DEF TypeOK, RegistryTypeOK, HandlesExact
    <2>4. QED
      BY <2>1, <2>2, <2>3, TrustRegistry
  <1>3. CASE Clock \/ Stop \/ ExpireOverdue
    BY <1>0, <1>3 DEF Clock, Stop, ExpireOverdue, ghosts
  <1>4. ASSUME NEW opened \in 0 .. 3, NEW bound \in BOOLEAN, Start(opened, bound)
        PROVE  HandleTrust' /\ VerifiedBeforeConsume'
    BY <1>0, <1>4 DEF Start, ghosts
  <1>5. ASSUME NEW d \in Devices, NEW s \in Sessions, NEW c \in Challenges,
               InitiateUnlockRequest(d, s, c)
        PROVE  HandleTrust' /\ VerifiedBeforeConsume'
    BY <1>0, <1>5 DEF InitiateUnlockRequest
  <1>6. ASSUME NEW p \in AuthPayload, ConsumeChallenge(p)
        PROVE  HandleTrust' /\ VerifiedBeforeConsume'
    BY <1>0, <1>6 DEF ConsumeChallenge, ghosts
  <1>7. ASSUME NEW r \in Receivers, Receive(r) \/ Reply(r) \/ Validate(r) \/ Consume(r)
        PROVE  HandleTrust' /\ VerifiedBeforeConsume'
    <2>1. UNCHANGED <<devices, keyOf, regs>>
      BY <1>7 DEF Receive, OnFrameReceived, OnMalformedFrame, Validate, Consume, Reply, agentVars
    <2>2. PICK l \in Locals : /\ rcv' = [rcv EXCEPT ![r] = l]
                              /\ l.pc \notin {"verify", "consume"}
      <3>1. CASE Receive(r)
        <4>1. ASSUME NEW f \in Responses, OnFrameReceived(r, f)
              PROVE  \E l \in Locals : /\ rcv' = [rcv EXCEPT ![r] = l]
                                       /\ l.pc \notin {"verify", "consume"}
          BY <4>1, IdleType DEF OnFrameReceived, TypeOK
        <4>2. ASSUME NEW e \in ParseErrors, OnMalformedFrame(r, e)
              PROVE  \E l \in Locals : /\ rcv' = [rcv EXCEPT ![r] = l]
                                       /\ l.pc \notin {"verify", "consume"}
          BY <4>2, IdleType DEF OnMalformedFrame, Return, ErrorCode
        <4>3. QED
          BY <3>1, <4>1, <4>2 DEF Receive
      <3>2. CASE Reply(r)
        BY <3>2, IdleType DEF Reply
      <3>3. CASE Validate(r) /\ Goto(r, "lookup")
        <4> DEFINE l == [rcv[r] EXCEPT !.pc = "lookup"]
        <4>1. l \in Locals /\ l.pc = "lookup"
          BY DEF TypeOK, Locals
        <4>2. rcv' = [rcv EXCEPT ![r] = l]
          BY <3>3 DEF Goto
        <4> HIDE DEF l
        <4>3. QED
          BY <4>1, <4>2
      <3>4. CASE Return(r, Verdict(r)) /\ Verdict(r) \in ErrorCode
        BY <3>4, IdleType DEF Return
      <3>5. ASSUME rcv[r].pc \in {"validate", "consume"}
            PROVE  Verdict(r) \in ErrorCode
        <4>1. rcv[r].frame \in Responses
          BY <3>5 DEF TypeOK, Locals
        <4>2. QED
          BY <4>1, ValidateFacts DEF Responses, AuthPayload, Verdict, TypeOK
      <3>6. QED
        BY <1>7, <3>1, <3>2, <3>3, <3>4, <3>5 DEF Validate, Consume
    <2>3. QED
      BY <2>1, <2>2, TrustOwnStep DEF TypeOK
  <1>8. ASSUME NEW r \in Receivers, Lookup(r)
        PROVE  HandleTrust' /\ VerifiedBeforeConsume'
    <2>1. UNCHANGED <<devices, keyOf, regs>> /\ \A q \in Receivers : q # r => rcv'[q] = rcv[q]
      BY <1>8 DEF Lookup, Return, agentVars, TypeOK
    <2>2. CASE rcv'[r].pc \notin {"verify", "consume"}
      BY <2>1, <2>2, TrustOwnStep
    <2>3. CASE rcv'[r].pc \in {"verify", "consume"}
      <3>1. rcv' = [rcv EXCEPT ![r].pc = "verify",
                               ![r].hPubKey = devices[rcv[r].frame.payload.device]]
        BY <1>8, <2>3 DEF Lookup, Return, Idle, GetDevicePublicKey, TypeOK
      <3>2. /\ rcv'[r].pc = "verify" /\ rcv'[r].frame = rcv[r].frame
            /\ rcv'[r].hPubKey = devices[rcv[r].frame.payload.device]
        BY <3>1 DEF TypeOK, Locals
      <3>3. QED
        BY <2>1, <3>2 DEF HandleTrust, VerifiedBeforeConsume
    <2>4. QED
      BY <2>2, <2>3
  <1>9. ASSUME NEW r \in Receivers, Verify(r)
        PROVE  HandleTrust' /\ VerifiedBeforeConsume'
    <2>1. UNCHANGED <<devices, keyOf, regs>> /\ \A q \in Receivers : q # r => rcv'[q] = rcv[q]
      BY <1>9 DEF Verify, Return, agentVars, TypeOK
    <2>2. CASE Return(r, "INVALID_SIGNATURE")
      <3>1. rcv'[r].pc = "reply"
        BY <2>2 DEF Return, Idle, TypeOK
      <3>2. QED
        BY <2>1, <3>1, TrustOwnStep
    <2>3. ASSUME rcv' = [rcv EXCEPT ![r].pc = "consume", ![r].hPubKey = NullHandle],
                 TRUE \in VerifySignature(rcv[r].hPubKey, rcv[r].frame.sig)
          PROVE  HandleTrust' /\ VerifiedBeforeConsume'
      <3>1. /\ rcv'[r].pc = "consume" /\ rcv'[r].frame = rcv[r].frame
            /\ rcv'[r].dangling = rcv[r].dangling
        BY <2>3 DEF TypeOK, Locals
      <3>2. /\ rcv[r].pc = "verify" /\ rcv[r].hPubKey # NullHandle
            /\ rcv[r].frame.payload.device \in Devices
        BY <1>9 DEF Verify, TypeOK, Locals, Responses, AuthPayload
      <3>3. ASSUME ~rcv[r].dangling
            PROVE  rcv[r].frame.sig \in regs[rcv[r].frame.payload.device]
        <4>1. /\ rcv[r].hPubKey = devices[rcv[r].frame.payload.device]
              /\ keyOf[rcv[r].hPubKey] \in regs[rcv[r].frame.payload.device]
              /\ keyOf[rcv[r].hPubKey] # NoKey
          BY <3>2, <3>3 DEF HandleTrust, HandlesExact
        <4>2. rcv[r].frame.sig = keyOf[rcv[r].hPubKey]
          BY <2>3, <4>1 DEF VerifySignature
        <4>3. QED
          BY <4>1, <4>2
      <3>4. QED
        BY <2>1, <3>1, <3>3 DEF HandleTrust, VerifiedBeforeConsume
    <2>4. QED
      BY <1>9, <2>2, <2>3 DEF Verify
  <1>10. CASE UNCHANGED vars
    BY <1>0, <1>10 DEF vars
  <1>11. QED
    BY <1>1, <1>2, <1>3, <1>4, <1>5, <1>6, <1>7, <1>8, <1>9, <1>10 DEF Next, Api, Step

\* Whatever is registered or unregistered meanwhile, a receiver consumes only
\* what a key registered for the answering device has signed, unless that very
\* device's handle was destroyed while the receiver held it.
THEOREM VerifiedBeforeConsumeAlways == Spec => []VerifiedBeforeConsume
  <1>1. Init => HandleTrust /\ VerifiedBeforeConsume
    BY DEF Init, RegistryInit, HandleTrust, VerifiedBeforeConsume, Idle
  <1>2. QED
    BY <1>1, TypeCorrect, HandlesExactAlways, NextVerified, PTL DEF Spec

=============================================================================
