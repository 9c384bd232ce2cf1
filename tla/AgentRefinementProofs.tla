----------------------- MODULE AgentRefinementProofs -----------------------
(***************************************************************************)
(* What a step of the agent may do to a request, for all values of the     *)
(* constants: who gets a grant, that an ended request stays ended, and     *)
(* that the agent implements the abstract one-time challenge.              *)
(***************************************************************************)
EXTENDS AgentServiceProofs

-----------------------------------------------------------------------------
\* Who gets a grant

\* The chain of checks lets only a matching answer pass, in time by the clock
\* it was given (ChallengeStore::ValidateChallenge).
LEMMA SuccessMatches ==
  ASSUME StoreTypeOK,
         NEW s \in Sessions, NEW d, NEW p, NEW c, NEW t \in Time,
         ValidateChallenge(s, d, p, c, t) = "SUCCESS"
  PROVE  /\ StateIs(s, "OUTSTANDING")
         /\ store[s].device = d /\ store[s].pc = p /\ store[s].challenge = c
         /\ t <= store[s].expires
  <1>1. StateIs(s, "OUTSTANDING")
    BY ValidateFacts
  <1>2. store[s] \in ChallengeRecord
    BY <1>1 DEF StateIs, StoreTypeOK
  <1>3. ~(t > store[s].expires)
    BY <1>1 DEF ValidateChallenge, Lapsed, StateIs
  <1>4. t <= store[s].expires
    BY <1>2, <1>3, TimeAssumption DEF ChallengeRecord, Time
  <1>5. QED
    BY <1>1, <1>4 DEF ValidateChallenge, StateIs

\* Only Consume counts a grant, for the session of the answer it carries.
LEMMA OnlyConsumeGrants ==
  ASSUME TypeOK, [Next]_vars
  PROVE  grants' = grants \/ \E r \in Receivers : Consume(r)
  <1>1. ASSUME NEW r \in Receivers, Step(r)
        PROVE  grants' = grants \/ Consume(r)
    BY <1>1 DEF Step, Validate, Lookup, Verify, Reply, agentVars
  <1>2. ASSUME NEW r \in Receivers, Receive(r)
        PROVE  grants' = grants
    BY <1>2 DEF Receive, OnFrameReceived, OnMalformedFrame, agentVars
  <1>3. CASE Clock \/ UNCHANGED vars
    BY <1>3 DEF Clock, ghosts, vars
  <1>4. CASE Api
    BY <1>4 DEF Api, Start, Stop, InitiateUnlockRequest, RegisterDevice, UnregisterDevice,
       ExpireOverdue, ConsumeChallenge, ghosts
  <1>5. QED
    BY <1>1, <1>2, <1>3, <1>4 DEF Next

\* A SUCCESS verdict goes to an answer that names the device and the nonce of
\* an outstanding record whose expiry had not passed when the frame came in,
\* and closes that record, whatever ran between the two locked checks of
\* ProcessUnlockResponse.
THEOREM GrantMatchesRequestAlways == Spec => GrantMatchesRequest
  <1>1. ASSUME TypeOK, [Next]_vars, NEW s \in Sessions, grants'[s] # grants[s]
        PROVE  \E r \in Receivers :
                 /\ rcv[r].pc = "consume" /\ rcv[r].frame.payload.session = s
                 /\ StateIs(s, "OUTSTANDING") /\ store'[s].state = "CONSUMED"
                 /\ rcv[r].frame.payload.device = store[s].device
                 /\ rcv[r].frame.payload.challenge = store[s].challenge
                 /\ rcv[r].nowMs <= store[s].expires
    <2>1. PICK r \in Receivers : Consume(r)
      BY <1>1, OnlyConsumeGrants
    <2> DEFINE p == rcv[r].frame.payload
    <2>2. /\ StoreTypeOK /\ p.session \in Sessions /\ rcv[r].nowMs \in Time
          /\ rcv[r].pc = "consume"
      BY <1>1, <2>1 DEF TypeOK, Consume, Locals, Responses, AuthPayload
    <2>3. Verdict(r) = "SUCCESS" /\ p.session = s
      BY <1>1, <2>1, <2>2 DEF Consume, TypeOK
    <2>4. ValidateChallenge(s, p.device, ThisPC, p.challenge, rcv[r].nowMs) = "SUCCESS"
      BY <2>3 DEF Verdict
    <2>5. ValidateAndConsumeChallenge(s, p.device, ThisPC, p.challenge, rcv[r].nowMs, "SUCCESS")
      BY <2>1, <2>3 DEF Consume
    <2>6. StateIs(s, "CONSUMED")'
      BY <2>2, <2>5, ConsumeCloses
    <2>7. /\ StateIs(s, "OUTSTANDING")
          /\ store[s].device = p.device /\ store[s].challenge = p.challenge
          /\ rcv[r].nowMs <= store[s].expires
      BY <2>2, <2>4, SuccessMatches
    <2>8. QED
      BY <2>2, <2>3, <2>6, <2>7 DEF StateIs
  <1>2. TypeOK /\ [Next]_vars =>
          [\A s \in Sessions : grants'[s] # grants[s] =>
             \E r \in Receivers :
               /\ rcv[r].pc = "consume" /\ rcv[r].frame.payload.session = s
               /\ StateIs(s, "OUTSTANDING") /\ store'[s].state = "CONSUMED"
               /\ rcv[r].frame.payload.device = store[s].device
               /\ rcv[r].frame.payload.challenge = store[s].challenge
               /\ rcv[r].nowMs <= store[s].expires]_vars
    BY <1>1
  <1>3. QED
    BY <1>2, TypeCorrect, PTL DEF Spec, GrantMatchesRequest

-----------------------------------------------------------------------------
\* What a step does to the records

\* A request for a session overwrites its record.  Any other step opens no
\* record and leaves the ended ones alone: ExpireChallenges and the two
\* consuming calls only ever close, the rest does not touch the store.
LEMMA StoreSteps ==
  ASSUME TypeOK, [Next]_vars
  PROVE  \/ \E d \in Devices, s \in Sessions, c \in Challenges : InitiateUnlockRequest(d, s, c)
         \/ \A x \in Sessions :
              /\ StateIs(x, "OUTSTANDING")' => StateIs(x, "OUTSTANDING") /\ store'[x] = store[x]
              /\ StateIs(x, "CONSUMED") \/ StateIs(x, "EXPIRED") => store'[x] = store[x]
  <1> DEFINE Closing ==
        \A x \in Sessions :
          /\ StateIs(x, "OUTSTANDING")' => StateIs(x, "OUTSTANDING") /\ store'[x] = store[x]
          /\ StateIs(x, "CONSUMED") \/ StateIs(x, "EXPIRED") => store'[x] = store[x]
  <1>0. ASSUME UNCHANGED store PROVE Closing
    BY <1>0 DEF StateIs
  <1>1. CASE ExpireOverdue
    <2> SUFFICES ASSUME NEW x \in Sessions
                 PROVE  /\ StateIs(x, "OUTSTANDING")' =>
                             StateIs(x, "OUTSTANDING") /\ store'[x] = store[x]
                        /\ StateIs(x, "CONSUMED") \/ StateIs(x, "EXPIRED") => store'[x] = store[x]
      OBVIOUS
    <2>1. store'[x] = IF StateIs(x, "OUTSTANDING") /\ now > store[x].expires
                      THEN [store[x] EXCEPT !.state = "EXPIRED"] ELSE store[x]
      BY <1>1 DEF ExpireOverdue, ExpireChallenges
    <2>2. CASE StateIs(x, "OUTSTANDING") /\ now > store[x].expires
      BY <2>1, <2>2 DEF StateIs, TypeOK, StoreTypeOK, ChallengeRecord
    <2>3. CASE ~(StateIs(x, "OUTSTANDING") /\ now > store[x].expires)
      BY <2>1, <2>3 DEF StateIs
    <2>4. QED
      BY <2>2, <2>3
  <1>2. ASSUME NEW p \in AuthPayload, ConsumeChallenge(p)
        PROVE  Closing
    <2>1. p.session \in Sessions /\ StoreTypeOK
      BY DEF AuthPayload, TypeOK
    <2>2. PICK e \in ErrorCode :
            ValidateAndConsumeChallenge(p.session, p.device, p.pc, p.challenge, now, e)
      BY <1>2 DEF ConsumeChallenge
    <2>3. QED
      BY <2>1, <2>2, ConsumeCloses
  <1>3. ASSUME NEW r \in Receivers, Consume(r)
        PROVE  Closing
    <2>1. rcv[r].frame.payload.session \in Sessions /\ StoreTypeOK
      BY <1>3 DEF Consume, TypeOK, Locals, Responses, AuthPayload
    <2>2. ValidateAndConsumeChallenge(rcv[r].frame.payload.session, rcv[r].frame.payload.device,
            ThisPC, rcv[r].frame.payload.challenge, rcv[r].nowMs, Verdict(r))
      BY <1>3 DEF Consume
    <2>3. QED
      BY <2>1, <2>2, ConsumeCloses
  <1>4. ASSUME NEW r \in Receivers, Receive(r) \/ Step(r), ~Consume(r)
        PROVE  UNCHANGED store
    BY <1>4 DEF Receive, OnFrameReceived, OnMalformedFrame, Step, Validate, Lookup, Verify,
       Reply, agentVars
  <1>5. ASSUME Api, ~ExpireOverdue,
               ~\E d \in Devices, s \in Sessions, c \in Challenges : InitiateUnlockRequest(d, s, c),
               ~\E p \in AuthPayload : ConsumeChallenge(p)
        PROVE  UNCHANGED store
    BY <1>5 DEF Api, Start, Stop, RegisterDevice, UnregisterDevice
  <1>6. CASE Clock \/ UNCHANGED vars
    BY <1>0, <1>6 DEF Clock, vars
  <1> HIDE DEF Closing
  <1>7. CASE Api
    BY <1>0, <1>1, <1>2, <1>5, <1>7 DEF Closing
  <1>8. ASSUME NEW r \in Receivers, Receive(r) \/ Step(r)
        PROVE  Closing
    BY <1>0, <1>3, <1>4, <1>8
  <1>9. QED
    BY <1>6, <1>7, <1>8 DEF Next, Closing

\* With the RNG provider open no call revives a consumed or expired record: a
\* fresh session id is one without a record.
THEOREM EndedForGoodAlways == Spec => EndedForGood
  <1>1. ASSUME TypeOK, [Next]_vars, NEW s \in Sessions,
               algs >= 2, StateIs(s, "CONSUMED") \/ StateIs(s, "EXPIRED")
        PROVE  store'[s] = store[s]
    <2>1. ASSUME NEW d \in Devices, NEW x \in Sessions, NEW c \in Challenges,
                 InitiateUnlockRequest(d, x, c)
          PROVE  store'[s] = store[s]
      <3>1. store[x] = NoRecord
        BY <1>1, <2>1 DEF InitiateUnlockRequest, RandomIds
      <3>2. x # s
        BY <1>1, <3>1 DEF StateIs
      <3>3. QED
        BY <1>1, <2>1, <3>2 DEF InitiateUnlockRequest, AddChallenge, TypeOK, StoreTypeOK
    <2>2. QED
      BY <1>1, <2>1, StoreSteps
  <1>2. TypeOK /\ [Next]_vars =>
          [\A s \in Sessions : algs >= 2 /\ (StateIs(s, "CONSUMED") \/ StateIs(s, "EXPIRED"))
             => store'[s] = store[s]]_vars
    BY <1>1
  <1>3. QED
    BY <1>2, TypeCorrect, PTL DEF Spec, EndedForGood

-----------------------------------------------------------------------------
\* Refinement of the one-time challenge

\* Records that close without a grant are a Close of the abstract
\* specification, of no session at all when nothing closes.
LEMMA ClosingRefines ==
  ASSUME TypeOK, UNCHANGED grants,
         \A x \in Sessions :
           StateIs(x, "OUTSTANDING")' => StateIs(x, "OUTSTANDING") /\ store'[x] = store[x]
  PROVE  Abstract!Next
  <1>0. PICK S \in SUBSET Sessions :
          S = {x \in Sessions : StateIs(x, "OUTSTANDING") /\ store'[x] # store[x]}
    OBVIOUS
  <1>1. \A x \in S : StateIs(x, "OUTSTANDING") /\ store[x].device # NoRecord
    BY <1>0, NoRecordAssumption DEF TypeOK, StoreTypeOK, ChallengeRecord, StateIs
  <1>2. \A x \in Sessions : IF x \in S THEN ~StateIs(x, "OUTSTANDING")'
                            ELSE /\ StateIs(x, "OUTSTANDING")' <=> StateIs(x, "OUTSTANDING")
                                 /\ StateIs(x, "OUTSTANDING") => store'[x] = store[x]
    BY <1>0 DEF StateIs
  <1>3. Abstract!Close(S)
    BY <1>1, <1>2 DEF Abstract!Close
  <1>4. QED
    BY <1>3 DEF Abstract!Next

\* A request opens the session to the device it is made for.
LEMMA RequestRefines ==
  ASSUME TypeOK, NEW d \in Devices, NEW s \in Sessions, NEW c \in Challenges,
         InitiateUnlockRequest(d, s, c)
  PROVE  Abstract!Next
  <1>1. /\ store' = [store EXCEPT ![s] = GenerateChallenge(d, c)]
        /\ GenerateChallenge(d, c) \in ChallengeRecord
        /\ GenerateChallenge(d, c).state = "OUTSTANDING" /\ GenerateChallenge(d, c).device = d
        /\ grants' = grants
    BY AgentAssumption, TimeAssumption DEF InitiateUnlockRequest, AddChallenge,
       GenerateChallenge, ChallengeRecord, TypeOK, Time
  <1>2. \A x \in Sessions : store'[x] = IF x = s THEN GenerateChallenge(d, c) ELSE store[x]
    BY <1>1 DEF TypeOK, StoreTypeOK
  <1>3. StateIs(s, "OUTSTANDING")' /\ store'[s].device = d
    BY <1>1, <1>2, NoRecordAssumption DEF StateIs
  <1>4. \A x \in Sessions : x # s => /\ StateIs(x, "OUTSTANDING")' <=> StateIs(x, "OUTSTANDING")
                                     /\ store'[x] = store[x]
    BY <1>2 DEF StateIs
  <1>5. Abstract!Issue(s, d)
    <2> DEFINE openTo == [x \in Sessions |->
                            IF StateIs(x, "OUTSTANDING") THEN store[x].device ELSE NoRecord]
    <2>1. openTo' = [openTo EXCEPT ![s] = d]
      BY <1>3, <1>4
    <2>2. QED
      BY <1>1, <2>1 DEF Abstract!Issue
  <1>6. QED
    BY <1>5 DEF Abstract!Next

\* Consume grants an open session and closes it, or closes it without a
\* grant, or changes nothing.
LEMMA ConsumeRefines ==
  ASSUME TypeOK, NEW r \in Receivers, Consume(r)
  PROVE  Abstract!Next
  <1>1. PICK s \in Sessions : s = rcv[r].frame.payload.session
    BY DEF Consume, TypeOK, Locals, Responses, AuthPayload
  <1>2. /\ ValidateAndConsumeChallenge(s, rcv[r].frame.payload.device, ThisPC,
             rcv[r].frame.payload.challenge, rcv[r].nowMs, Verdict(r))
        /\ StoreTypeOK
        /\ grants' = IF Verdict(r) = "SUCCESS" THEN [grants EXCEPT ![s] = @ + 1] ELSE grants
    BY <1>1 DEF Consume, TypeOK
  <1>3. CASE Verdict(r) # "SUCCESS"
    <2>1. \A x \in Sessions :
            StateIs(x, "OUTSTANDING")' => StateIs(x, "OUTSTANDING") /\ store'[x] = store[x]
      BY <1>2, ConsumeCloses
    <2>2. QED
      BY <1>2, <1>3, <2>1, ClosingRefines
  <1>4. CASE Verdict(r) = "SUCCESS"
    <2>1. /\ StateIs(s, "OUTSTANDING") /\ StateIs(s, "CONSUMED")'
          /\ \A x \in Sessions : x # s => store'[x] = store[x]
      BY <1>2, <1>4, ConsumeCloses
    <2>2. store[s].device # NoRecord
      BY <2>1, NoRecordAssumption DEF TypeOK, StoreTypeOK, ChallengeRecord, StateIs
    <2>3. ~StateIs(s, "OUTSTANDING")'
      BY <2>1 DEF StateIs
    <2>4. \A x \in Sessions : x # s => /\ StateIs(x, "OUTSTANDING")' <=> StateIs(x, "OUTSTANDING")
                                       /\ store'[x] = store[x]
      BY <2>1 DEF StateIs
    <2>5. grants' = [grants EXCEPT ![s] = @ + 1]
      BY <1>2, <1>4
    <2>6. Abstract!Grant(s)
      BY <2>1, <2>2, <2>3, <2>4, <2>5 DEF Abstract!Grant
    <2>7. QED
      BY <2>6 DEF Abstract!Next
  <1>5. QED
    BY <1>3, <1>4

\* The agent implements the one-time challenge: with any number of receivers
\* verifying at once, every step opens a session, closes some, or grants one
\* that is open and closes it.
THEOREM AgentRefinesOneTimeChallenge == Spec => ImplementsOneTimeChallenge
  <1>1. Init => Abstract!Init
    BY DEF Init, StoreInit, StateIs, Abstract!Init
  <1>2. ASSUME TypeOK, [Next]_vars
        PROVE  Abstract!Next \/ UNCHANGED Abstract!vars
    <2>1. CASE \E r \in Receivers : Consume(r)
      BY <1>2, <2>1, ConsumeRefines
    <2>2. CASE \E d \in Devices, s \in Sessions, c \in Challenges : InitiateUnlockRequest(d, s, c)
      BY <1>2, <2>2, RequestRefines
    <2>3. ASSUME ~\E r \in Receivers : Consume(r),
                 ~\E d \in Devices, s \in Sessions, c \in Challenges :
                    InitiateUnlockRequest(d, s, c)
          PROVE  Abstract!Next
      <3>1. grants' = grants
        BY <1>2, <2>3, OnlyConsumeGrants
      <3>2. \A x \in Sessions :
              StateIs(x, "OUTSTANDING")' => StateIs(x, "OUTSTANDING") /\ store'[x] = store[x]
        BY <1>2, <2>3, StoreSteps
      <3>3. QED
        BY <1>2, <3>1, <3>2, ClosingRefines
    <2>4. QED
      BY <2>1, <2>2, <2>3
  <1>3. TypeOK /\ [Next]_vars => [Abstract!Next]_(Abstract!vars)
    BY <1>2
  <1>4. QED
    BY <1>1, <1>3, TypeCorrect, PTL DEF Spec, ImplementsOneTimeChallenge, Abstract!Spec

=============================================================================
