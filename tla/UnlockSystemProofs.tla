------------------------- MODULE UnlockSystemProofs -------------------------
(***************************************************************************)
(* Proofs about UnlockSystem for any number of sessions, challenges, taps, *)
(* keys and ticks: the PC unlocks only for what the user has confirmed,    *)
(* and the system implements ConfirmedUnlock.                              *)
(* What the phone's transport keeps is taken from PhoneTransportProofs.    *)
(***************************************************************************)
EXTENDS UnlockSystem, PhoneTransportProofs

-----------------------------------------------------------------------------
\* The inductive invariant, in parts.

\* The types of what is under way in either direction, and of the agent.
FlowTypes ==
  /\ inbound \in [Taps -> Seq(UnlockRequest)] /\ outbound \in [Taps -> Seq(Answers)]
  /\ snd.pc # "idle" => snd.frame \in Answers
  /\ uiQueue \in Seq(UnlockRequest)
  /\ prompt = NoPrompt \/ prompt \in [req : UnlockRequest, gen : 1 .. MaxKeys]
  /\ key \in [gen : 1 .. MaxKeys, valid : BOOLEAN]
  /\ confirmed \subseteq UnlockRequest
  /\ StoreTypeOK
  /\ host \in [Taps -> PCs] /\ agentConn \in Taps \cup {Null} /\ now \in Time
  /\ work = Idle \/ work \in [pc : {"validate", "verify", "consume"}, frame : Answers, nowMs : Time]
  /\ elsewhere \subseteq Sessions /\ granted \subseteq Sessions

\* Among the requests qs is what frame f answers.
Backed(f, qs) ==
  \E q \in qs : q.session = f.payload.session /\ q.challenge = f.payload.challenge

\* Every answer under way, the worker's included, is backed by a confirmed
\* request, and so is every verdict, whose record stays.
Evidence ==
  /\ \A t \in Taps : \A i \in 1 .. Len(outbound[t]) : Backed(outbound[t][i], confirmed)
  /\ snd.pc # "idle" => Backed(snd.frame, confirmed)
  /\ work # Idle => Backed(work.frame, confirmed)
  /\ \A s \in granted :
       /\ store[s] # NoRecord
       /\ \E q \in confirmed : q.session = s /\ q.challenge = store[s].challenge

\* A request that its PC has made: this one has a record of it, another has
\* drawn the session id.
Live ==
  {q \in UnlockRequest :
     IF q.pc = ThisPC
     THEN store[q.session] # NoRecord /\ store[q.session].challenge = q.challenge
     ELSE q.session \in elsewhere}

\* Whatever is on its way to the user, on the screen or confirmed was asked,
\* and no session id is drawn twice.
Pending ==
  /\ inbound \in [Taps -> Seq(Live)] /\ uiQueue \in Seq(Live)
  /\ prompt # NoPrompt => prompt.req \in Live
  /\ confirmed \subseteq Live
  /\ \A s \in elsewhere : store[s] = NoRecord

SystemInv == Inv /\ FlowTypes /\ Evidence /\ Pending

-----------------------------------------------------------------------------
\* The phone's transport in the system

\* A process that dies takes every thread and socket with it.
LEMMA DiedInv ==
  ASSUME Inv, Died
  PROVE  Inv'
  <1>0. Types
    BY DEF Inv
  <1>1. /\ isConnected' = FALSE /\ socket' = Null /\ inputStream' = Null /\ outputStream' = Null
        /\ open' = {} /\ snd' = Silent /\ UNCHANGED <<peers, overlapped>>
    BY DEF Died
  <1>2. /\ call' \in [Threads -> CallLocals]
        /\ \A t \in Threads : call'[t].pc \in {"new", "done"}
    BY <1>0 DEF Died, Busy, Types, TransportTypeOK, CallLocals
  <1>3. /\ rx' \in [Taps -> LoopLocals]
        /\ \A t \in Taps : rx'[t].pc \in {"none", "done"}
    BY DEF Died, NoLoop, LoopLocals
  <1>4. Types'
    BY <1>0, <1>1, <1>2, <1>3 DEF Types, TransportTypeOK, Silent, CallLocals, LoopLocals
  <1>5. OneCall' /\ SocketsAt' /\ FlagAt'
    BY <1>1, <1>2 DEF OneCall, SocketsAt, FlagAt, Busy
  <1>6. QED
    BY <1>4, <1>5 DEF Inv, Orderly

\* What is around the transport here, the phone's flow and the agent, keeps
\* what the transport keeps by itself.
LEMMA SystemTransport == Inv /\ [Next]_vars => Inv'
  <1> SUFFICES ASSUME Inv, [Next]_vars PROVE Inv'
    OBVIOUS
  <1>1. CASE UNCHANGED transportVars
    BY <1>1, PeerInv DEF transportVars
  <1>2. CASE PhoneRuns
    <2>1. CASE NoKeyToSign
      BY <1>1, <2>1, DiedInv DEF NoKeyToSign
    <2>2. CASE ReportSent
      BY <2>2, SendFrameInv DEF ReportSent, members, wires
    <2>3. CASE ShowPrompt
      BY <1>1, <2>3 DEF ShowPrompt
    <2>4. QED
      BY <1>2, <2>1, <2>2, <2>3, CallRunsInv, SendRunsInv, LoopReadsInv, Names DEF PhoneRuns
  <1>3. CASE User
    <2>1. ASSUME NEW t \in Taps, StartConnection(t) PROVE Inv'
      BY <2>1, BeginInv, Names DEF StartConnection
    <2>2. CASE OnDestroy
      BY <2>2, BeginInv, Names DEF OnDestroy, Stop
    <2>3. CASE Decline \/ GenerateKey \/ Enrol
      BY <1>1, <2>3 DEF Decline, GenerateKey, Enrol
    <2>4. QED
      BY <1>3, <2>1, <2>2, <2>3, DiedInv DEF User
  <1>4. CASE Confirm
    <2>1. UNCHANGED <<isConnected, socket, inputStream, outputStream, open, peers, call, rx,
                      overlapped>>
      BY <1>4 DEF Confirm, members, wires
    <2>2. CASE \E f : SendFrame(f)
      BY <2>1, <2>2, SendFrameInv
    <2>3. CASE UNCHANGED snd
      BY <2>1, <2>3, PeerInv
    <2>4. QED
      BY <1>4, <2>2, <2>3 DEF Confirm
  <1>5. ASSUME NEW t \in Taps, ThreadRuns(t) PROVE Inv'
    BY <1>5, ConnectRunsInv, LoopRunsInv DEF ThreadRuns
  <1>6. CASE Arrives
    BY <1>6, LoopReadsInv DEF Arrives, OnFrameReceived
  <1>7. CASE Agent \/ Ask
    <2>1. CASE TakeAnswer
      BY <2>1, PeerInv DEF TakeAnswer, members
    <2>2. ASSUME NEW p \in PCs, AgentRestart(p) PROVE Inv'
      BY <2>2, PeerInv DEF AgentRestart, members
    <2>3. ASSUME NEW s \in Sessions, NEW c \in Challenges,
                 InitiateUnlockRequest(s, c) \/ \E t \in Taps : OtherPCAsks(t, s, c)
          PROVE  Inv'
      BY <2>3, PeerInv DEF InitiateUnlockRequest, OtherPCAsks, members
    <2>4. CASE Validate \/ Verify \/ Consume \/ \E c \in Taps : Accept(c)
      BY <1>1, <2>4 DEF Validate, Verify, Consume, Accept
    <2>5. QED
      BY <1>7, <2>1, <2>2, <2>3, <2>4 DEF Agent, Ask
  <1>8. CASE Clock
    BY <1>1, <1>8 DEF Clock
  <1>9. CASE UNCHANGED vars
    BY <1>1, <1>9 DEF vars
  <1>10. QED
    BY <1>2, <1>3, <1>4, <1>5, <1>6, <1>7, <1>8, <1>9 DEF Next, Phone

-----------------------------------------------------------------------------
\* Requests on their way to the user

\* The first of a queue and the rest of it.
LEMMA QueueFacts ==
  ASSUME NEW S, NEW q \in Seq(S), q # <<>>
  PROVE  /\ Head(q) \in S /\ Tail(q) \in Seq(S) /\ Len(q) > 0 /\ Head(q) = q[1]
         /\ \A i \in 1 .. Len(Tail(q)) : i + 1 \in 1 .. Len(q) /\ Tail(q)[i] = q[i + 1]
  OBVIOUS

\* One more at the end of one of several queues.
LEMMA AppendFacts ==
  ASSUME NEW I, NEW S, NEW F \in [I -> Seq(S)], NEW j \in I, NEW x \in S,
         NEW G, G = [F EXCEPT ![j] = Append(@, x)]
  PROVE  /\ G \in [I -> Seq(S)]
         /\ \A k \in I : \A i \in 1 .. Len(G[k]) :
              (i \in 1 .. Len(F[k]) /\ G[k][i] = F[k][i]) \/ G[k][i] = x
  <1>1. F[j] \in Seq(S) /\ Append(F[j], x) \in Seq(S)
    OBVIOUS
  <1>2. \A i \in 1 .. Len(Append(F[j], x)) :
          (i \in 1 .. Len(F[j]) /\ Append(F[j], x)[i] = F[j][i]) \/ Append(F[j], x)[i] = x
    BY <1>1
  <1>3. \A k \in I : G[k] = IF k = j THEN Append(F[j], x) ELSE F[k]
    OBVIOUS
  <1>4. G \in [I -> Seq(S)]
    BY <1>1
  <1>5. QED
    BY <1>2, <1>3, <1>4

\* A step that adds no answer, grants nothing and issues nothing needs no new
\* evidence.
LEMMA NoNewAnswer ==
  ASSUME Evidence, confirmed \subseteq confirmed', UNCHANGED <<outbound, work, store, granted>>,
         snd' = snd \/ snd'.pc = "idle" \/ Backed(snd'.frame, confirmed')
  PROVE  Evidence'
  <1>0. \A f : Backed(f, confirmed) => Backed(f, confirmed')
    BY DEF Backed
  <1>1. \A t \in Taps : \A i \in 1 .. Len(outbound'[t]) : Backed(outbound'[t][i], confirmed')
    BY <1>0 DEF Evidence
  <1>2. snd'.pc # "idle" => Backed(snd'.frame, confirmed')
    BY <1>0 DEF Evidence
  <1>3. work' # Idle => Backed(work'.frame, confirmed')
    BY <1>0 DEF Evidence
  <1>4. \A s \in granted' :
          /\ store'[s] # NoRecord
          /\ \E q \in confirmed' : q.session = s /\ q.challenge = store'[s].challenge
    BY DEF Evidence
  <1>5. QED
    BY <1>1, <1>2, <1>3, <1>4 DEF Evidence

\* Steps of connect, close and the receive loops that read nothing have no
\* part in the flow.
LEMMA NoFlow ==
  ASSUME FlowTypes, Evidence, UNCHANGED <<inbound, outbound, snd, phoneVars, agentVars>>
  PROVE  FlowTypes' /\ Evidence'
  <1>1. UNCHANGED <<uiQueue, prompt, key, confirmed,
                    store, host, agentConn, work, now, elsewhere, granted>>
    BY DEF phoneVars, agentVars
  <1>2. FlowTypes'
    BY <1>1 DEF FlowTypes, StoreTypeOK
  <1>3. Evidence'
    BY <1>1, NoNewAnswer
  <1>4. QED
    BY <1>2, <1>3

\* A frame that is read leaves its connection (LoopReads).
LEMMA ReadFlow ==
  ASSUME Inv, FlowTypes, NEW t \in Taps, NEW torn, LoopReads(t, torn)
  PROVE  /\ inbound' \in [Taps -> Seq(UnlockRequest)] /\ Head(inbound[rx[t].in]) \in UnlockRequest
         /\ UNCHANGED <<outbound, snd>>
  <1>1. rx[t].in \in Taps
    BY DEF Inv, Types, TransportTypeOK, LoopReads
  <1>2. inbound[rx[t].in] \in Seq(UnlockRequest) /\ inbound[rx[t].in] # <<>>
    BY <1>1 DEF FlowTypes, LoopReads
  <1>3. QED
    BY <1>1, <1>2, QueueFacts DEF FlowTypes, LoopReads

\* onFrameReceived drops a request or posts it.
LEMMA ArrivesFlow ==
  ASSUME Inv, FlowTypes, Evidence, Arrives
  PROVE  FlowTypes' /\ Evidence'
  <1>1. PICK t \in Taps, nowMs \in Time : OnFrameReceived(t, nowMs)
    BY DEF Arrives
  <1>2. /\ inbound' \in [Taps -> Seq(UnlockRequest)] /\ UNCHANGED <<outbound, snd>>
        /\ Head(inbound[rx[t].in]) \in UnlockRequest
    BY <1>1, ReadFlow DEF OnFrameReceived
  <1>3. uiQueue' \in Seq(UnlockRequest)
    BY <1>1, <1>2 DEF OnFrameReceived, FlowTypes
  <1>4. UNCHANGED <<prompt, key, confirmed, store, host, agentConn, work, now, elsewhere, granted>>
    BY <1>1 DEF OnFrameReceived, Arrives, agentVars
  <1>5. FlowTypes'
    BY <1>2, <1>3, <1>4 DEF FlowTypes, StoreTypeOK
  <1>6. Evidence'
    BY <1>2, <1>4, NoNewAnswer
  <1>7. QED
    BY <1>5, <1>6

\* A write puts the frame of the send, and nothing else, on a connection.
LEMMA SendFlow ==
  ASSUME Inv, FlowTypes, Evidence, SendRuns, UNCHANGED <<phoneVars, agentVars>>
  PROVE  FlowTypes' /\ Evidence'
  <1>1. UNCHANGED <<uiQueue, prompt, key, confirmed,
                    store, host, agentConn, work, now, elsewhere, granted>>
    BY DEF phoneVars, agentVars
  <1>2. snd.pc # "idle" /\ snd'.frame = snd.frame /\ inbound' = inbound
    BY DEF Inv, Types, SendRuns, SendCheck, SendWrite, SendAt, wires
  <1>3. snd.frame \in Answers /\ Backed(snd.frame, confirmed)
    BY <1>2 DEF FlowTypes, Evidence
  <1>4. \/ outbound' = outbound
        \/ /\ snd.out \in Taps
           /\ outbound' = [outbound EXCEPT ![snd.out] = Append(@, snd.frame)]
    BY DEF Inv, Types, TransportTypeOK, SendRuns, SendCheck, SendWrite, wires
  <1>5. /\ outbound' \in [Taps -> Seq(Answers)]
        /\ \A t \in Taps : \A i \in 1 .. Len(outbound'[t]) :
             \/ i \in 1 .. Len(outbound[t]) /\ outbound'[t][i] = outbound[t][i]
             \/ outbound'[t][i] = snd.frame
    <2>1. outbound \in [Taps -> Seq(Answers)]
      BY DEF FlowTypes
    <2>2. CASE outbound' = outbound
      BY <2>1, <2>2
    <2>3. CASE /\ snd.out \in Taps
               /\ outbound' = [outbound EXCEPT ![snd.out] = Append(@, snd.frame)]
      BY <1>3, <2>1, <2>3, AppendFacts
    <2>4. QED
      BY <1>4, <2>2, <2>3
  <1>6. FlowTypes'
    BY <1>1, <1>2, <1>3, <1>5 DEF FlowTypes, StoreTypeOK
  <1>7. \A t \in Taps : \A i \in 1 .. Len(outbound'[t]) : Backed(outbound'[t][i], confirmed)
    BY <1>3, <1>5 DEF Evidence
  <1>8. Evidence'
    BY <1>1, <1>2, <1>3, <1>7 DEF Evidence
  <1>9. QED
    BY <1>6, <1>8

-----------------------------------------------------------------------------
\* The user's screen

\* The end of the process, of the prompt and of the queue.
LEMMA DiedFlow ==
  ASSUME FlowTypes, Evidence, Died, UNCHANGED agentVars
  PROVE  FlowTypes' /\ Evidence'
  <1>1. /\ snd' = Silent /\ uiQueue' = <<>> /\ prompt' = NoPrompt
        /\ UNCHANGED <<inbound, outbound, key, confirmed,
                       store, host, agentConn, work, now, elsewhere, granted>>
    BY DEF Died, agentVars
  <1>2. snd'.pc = "idle"
    BY <1>1 DEF Silent
  <1>3. FlowTypes'
    BY <1>1, <1>2 DEF FlowTypes, StoreTypeOK
  <1>4. Evidence'
    BY <1>1, <1>2, NoNewAnswer
  <1>5. QED
    BY <1>3, <1>4

\* The prompt shows a request of the queue, with a key there was.
LEMMA ShowPromptFlow ==
  ASSUME FlowTypes, Evidence, ShowPrompt, UNCHANGED agentVars
  PROVE  FlowTypes' /\ Evidence'
  <1>1. UNCHANGED <<inbound, outbound, snd, key, confirmed,
                    store, host, agentConn, work, now, elsewhere, granted>>
    BY DEF ShowPrompt, agentVars, transportVars
  <1>2. uiQueue' \in Seq(UnlockRequest) /\ Head(uiQueue) \in UnlockRequest
    BY QueueFacts DEF ShowPrompt, FlowTypes
  <1>3. key.gen \in 1 .. MaxKeys
    BY DEF FlowTypes
  <1>4. prompt' = NoPrompt \/ prompt' \in [req : UnlockRequest, gen : 1 .. MaxKeys]
    <2>1. \/ prompt' = [req |-> Head(uiQueue), gen |-> key.gen]
          \/ prompt # NoPrompt /\ prompt' = [prompt EXCEPT !.req = Head(uiQueue)]
          \/ prompt' = prompt
      BY DEF ShowPrompt
    <2>2. prompt = NoPrompt \/ prompt \in [req : UnlockRequest, gen : 1 .. MaxKeys]
      BY DEF FlowTypes
    <2>3. QED
      BY <1>2, <1>3, <2>1, <2>2
  <1>5. FlowTypes'
    BY <1>1, <1>2, <1>4 DEF FlowTypes, StoreTypeOK
  <1>6. Evidence'
    BY <1>1, NoNewAnswer
  <1>7. QED
    BY <1>5, <1>6

\* The user's yes is on record before the answer it allows is sent.
LEMMA ConfirmFlow ==
  ASSUME FlowTypes, Evidence, Confirm, UNCHANGED agentVars
  PROVE  FlowTypes' /\ Evidence'
  <1>1. /\ prompt' = NoPrompt
        /\ UNCHANGED <<inbound, outbound, uiQueue, key,
                       store, host, agentConn, work, now, elsewhere, granted>>
    BY DEF Confirm, agentVars, wires
  <1>2. prompt.req \in UnlockRequest /\ prompt.gen \in 1 .. MaxKeys
    BY DEF Confirm, FlowTypes
  <1>3. confirmed' = confirmed \cup {prompt.req}
    BY DEF Confirm
  <1>4. confirmed' \subseteq UnlockRequest
    BY <1>2, <1>3 DEF FlowTypes
  <1>5. Answer(prompt.req, prompt.gen) \in Answers
    BY <1>2, PhoneAssumption DEF Answer, UnlockRequest, Answers, AuthPayload
  <1>6. Backed(Answer(prompt.req, prompt.gen), confirmed')
    BY <1>3 DEF Backed, Answer
  <1>7. \/ snd' = snd
        \/ snd'.frame = Answer(prompt.req, prompt.gen)
    BY DEF Confirm, SendFrame
  <1>8. FlowTypes'
    BY <1>1, <1>4, <1>5, <1>7 DEF FlowTypes, StoreTypeOK
  <1>9. snd' = snd \/ Backed(snd'.frame, confirmed')
    BY <1>6, <1>7
  <1>10. Evidence'
    BY <1>1, <1>3, <1>9, NoNewAnswer
  <1>11. QED
    BY <1>8, <1>10

\* Everything the phone does.
LEMMA PhoneFlow ==
  ASSUME Inv, FlowTypes, Evidence, Phone
  PROVE  FlowTypes' /\ Evidence'
  <1>0. UNCHANGED agentVars
    BY DEF Phone
  <1>1. CASE PhoneRuns
    <2>1. CASE CallRuns(UI) /\ UNCHANGED phoneVars
      BY <1>0, <2>1, NoFlow DEF CallRuns, CloseFlag, CloseSocket, CloseMembers, wires
    <2>2. CASE SendRuns /\ UNCHANGED phoneVars
      BY <1>0, <2>2, SendFlow
    <2>3. ASSUME NEW t \in Taps, LoopReads(t, TRUE), UNCHANGED phoneVars
          PROVE  FlowTypes' /\ Evidence'
      <3>1. inbound' \in [Taps -> Seq(UnlockRequest)] /\ UNCHANGED <<outbound, snd>>
        BY <2>3, ReadFlow
      <3>2. UNCHANGED <<uiQueue, prompt, key, confirmed,
                        store, host, agentConn, work, now, elsewhere, granted>>
        BY <1>0, <2>3 DEF phoneVars, agentVars
      <3>3. FlowTypes'
        BY <3>1, <3>2 DEF FlowTypes, StoreTypeOK
      <3>4. Evidence'
        BY <3>1, <3>2, NoNewAnswer
      <3>5. QED
        BY <3>3, <3>4
    <2>4. CASE NoKeyToSign
      <3>1. CASE uiQueue' = Tail(uiQueue) /\ UNCHANGED <<transportVars, prompt, key, confirmed>>
        <4>1. UNCHANGED <<inbound, outbound, snd, prompt, key, confirmed,
                          store, host, agentConn, work, now, elsewhere, granted>>
          BY <1>0, <3>1 DEF transportVars, agentVars
        <4>2. uiQueue' \in Seq(UnlockRequest)
          BY <2>4, <3>1, QueueFacts DEF NoKeyToSign, FlowTypes
        <4>3. FlowTypes'
          BY <4>1, <4>2 DEF FlowTypes, StoreTypeOK
        <4>4. Evidence'
          BY <4>1, NoNewAnswer
        <4>5. QED
          BY <4>3, <4>4
      <3>2. QED
        BY <1>0, <2>4, <3>1, DiedFlow DEF NoKeyToSign
    <2>5. CASE ReportSent
      <3>1. /\ snd'.pc = "idle"
            /\ UNCHANGED <<inbound, outbound, uiQueue, prompt, key, confirmed,
                           store, host, agentConn, work, now, elsewhere, granted>>
        BY <1>0, <2>5 DEF ReportSent, SendReturns, Silent, wires, agentVars
      <3>2. FlowTypes'
        BY <3>1 DEF FlowTypes, StoreTypeOK
      <3>3. Evidence'
        BY <3>1, NoNewAnswer
      <3>4. QED
        BY <3>2, <3>3
    <2>6. QED
      BY <1>0, <1>1, <2>1, <2>2, <2>3, <2>4, <2>5, ShowPromptFlow DEF PhoneRuns
  <1>2. CASE User
    <2>1. ASSUME NEW t \in Taps, StartConnection(t), UNCHANGED phoneVars
          PROVE  FlowTypes' /\ Evidence'
      BY <1>0, <2>1, NoFlow DEF StartConnection, Begin, wires
    <2>2. CASE Decline \/ OnDestroy
      <3>1. /\ prompt' = NoPrompt
            /\ UNCHANGED <<inbound, outbound, snd, uiQueue, key, confirmed,
                           store, host, agentConn, work, now, elsewhere, granted>>
        BY <1>0, <2>2 DEF Decline, OnDestroy, Stop, Begin, wires, transportVars, agentVars
      <3>2. FlowTypes'
        BY <3>1 DEF FlowTypes, StoreTypeOK
      <3>3. Evidence'
        BY <3>1, NoNewAnswer
      <3>4. QED
        BY <3>2, <3>3
    <2>3. CASE GenerateKey \/ Enrol
      <3>1. UNCHANGED <<inbound, outbound, snd, uiQueue, prompt, confirmed,
                        store, host, agentConn, work, now, elsewhere, granted>>
        BY <1>0, <2>3 DEF GenerateKey, Enrol, transportVars, agentVars
      <3>2. key' \in [gen : 1 .. MaxKeys, valid : BOOLEAN]
        <4>1. key \in [gen : 1 .. MaxKeys, valid : BOOLEAN]
          BY DEF FlowTypes
        <4>2. CASE GenerateKey
          BY <4>1, <4>2, PhoneAssumption DEF GenerateKey
        <4>3. CASE Enrol
          BY <4>1, <4>3 DEF Enrol
        <4>4. QED
          BY <2>3, <4>2, <4>3
      <3>3. FlowTypes'
        BY <3>1, <3>2 DEF FlowTypes, StoreTypeOK
      <3>4. Evidence'
        BY <3>1, NoNewAnswer
      <3>5. QED
        BY <3>3, <3>4
    <2>4. QED
      BY <1>0, <1>2, <2>1, <2>2, <2>3, DiedFlow DEF User
  <1>3. ASSUME NEW t \in Taps, ThreadRuns(t)
        PROVE  FlowTypes' /\ Evidence'
    <2>1. UNCHANGED <<inbound, outbound, snd, phoneVars>>
      BY <1>3 DEF ThreadRuns, ConnectRuns, CallRuns, CloseFlag, CloseSocket, CloseMembers,
         OpenSocket, Publish, StartLoop, LoopRuns, LoopStart, LoopTest, LoopReadFails,
         LoopFinally, wires
    <2>2. QED
      BY <1>0, <2>1, NoFlow
  <1>4. QED
    BY <1>0, <1>1, <1>2, <1>3, ConfirmFlow DEF Phone
-----------------------------------------------------------------------------
\* The agent

\* A verdict of SUCCESS says that the record is this challenge's and in time.
LEMMA SuccessFacts ==
  ASSUME NEW s, NEW d, NEW pc, NEW c, NEW t, ValidateChallenge(s, d, pc, c, t) = "SUCCESS"
  PROVE  store[s] # NoRecord /\ store[s].challenge = c /\ ~(t > store[s].expires)
  BY DEF ValidateChallenge, Lapsed

\* A request that is sent is one more on its connection.
LEMMA SentFacts ==
  ASSUME NEW S, inbound \in [Taps -> Seq(S)], NEW q \in S, NEW c
  PROVE  Sent(c, q) \in [Taps -> Seq(S)]
  <1>1. CASE c \in Taps
    <2>1. PICK G : G = [inbound EXCEPT ![c] = Append(@, q)]
      OBVIOUS
    <2>2. G \in [Taps -> Seq(S)]
      BY <1>1, <2>1, AppendFacts
    <2>3. QED
      BY <2>1, <2>2 DEF Sent
  <1>2. CASE c \notin Taps
    BY <1>2 DEF Sent
  <1>3. QED
    BY <1>1, <1>2

\* What a PC sends to the phone is a request.
LEMMA UnlockReqFacts ==
  ASSUME FlowTypes, NEW s \in Sessions, NEW p \in PCs, NEW c \in Challenges
  PROVE  /\ now + TTL \in 0 .. (MaxTime + TTL) /\ ~(now > now + TTL)
         /\ UnlockReq(s, p, c) \in UnlockRequest
         /\ UnlockReq(s, p, c).session = s /\ UnlockReq(s, p, c).pc = p
         /\ UnlockReq(s, p, c).challenge = c
  <1>1. now \in Nat /\ TTL \in Nat /\ now + TTL \in 0 .. (MaxTime + TTL) /\ ~(now > now + TTL)
    BY TimeAssumption DEF FlowTypes, Time
  <1>2. QED
    BY <1>1 DEF UnlockReq, UnlockRequest

\* A new request gets a record for a session that had none.
LEMMA InitiateStore ==
  ASSUME FlowTypes, NEW s \in Sessions, NEW c \in Challenges, InitiateUnlockRequest(s, c)
  PROVE  /\ store[s] = NoRecord /\ s \notin elsewhere /\ store' \in [Sessions -> ChallengeRecord \cup {NoRecord}]
         /\ store'[s] # NoRecord /\ store'[s].challenge = c /\ store'[s].expires = now + TTL
         /\ \A x \in Sessions : x # s => store'[x] = store[x]
  <1>1. PICK rec \in ChallengeRecord : /\ rec.challenge = c /\ rec.expires = now + TTL
                                       /\ store' = [store EXCEPT ![s] = rec]
    <2>1. [device |-> DeviceId, pc |-> ThisPC, challenge |-> c, expires |-> now + TTL,
           state |-> "OUTSTANDING"] \in ChallengeRecord
      BY PhoneAssumption, ThisPCAssumption, UnlockReqFacts DEF ChallengeRecord
    <2>2. QED
      BY <2>1 DEF InitiateUnlockRequest, AddChallenge
  <1>2. store \in [Sessions -> ChallengeRecord \cup {NoRecord}]
    BY DEF FlowTypes, StoreTypeOK
  <1>3. store[s] = NoRecord /\ s \notin elsewhere
    BY DEF InitiateUnlockRequest, Fresh
  <1>4. QED
    BY <1>1, <1>2, <1>3, NoRecordAssumption

\* A new request is sent to the phone if that is there; no verdict is about it.
LEMMA InitiateFlow ==
  ASSUME FlowTypes, Evidence, NEW s \in Sessions, NEW c \in Challenges,
         InitiateUnlockRequest(s, c)
  PROVE  FlowTypes' /\ Evidence'
  <1>1. UNCHANGED <<outbound, snd, uiQueue, prompt, key, confirmed, host, agentConn, work, now,
                    elsewhere, granted>>
    BY DEF InitiateUnlockRequest, phoneVars
  <1>2. inbound' \in [Taps -> Seq(UnlockRequest)]
    BY ThisPCAssumption, UnlockReqFacts, SentFacts DEF InitiateUnlockRequest, FlowTypes
  <1>3. StoreTypeOK'
    BY InitiateStore DEF StoreTypeOK
  <1>4. FlowTypes'
    BY <1>1, <1>2, <1>3 DEF FlowTypes
  <1>5. \A x \in granted : store'[x] = store[x]
    BY InitiateStore DEF Evidence, FlowTypes
  <1>6. Evidence'
    BY <1>1, <1>5 DEF Evidence
  <1>7. QED
    BY <1>4, <1>6

\* So is the request of another PC.
LEMMA OtherFlow ==
  ASSUME FlowTypes, Evidence, NEW t \in Taps, NEW s \in Sessions, NEW c \in Challenges,
         OtherPCAsks(t, s, c)
  PROVE  FlowTypes' /\ Evidence'
  <1>1. UNCHANGED <<outbound, snd, uiQueue, prompt, key, confirmed, store, host, agentConn, work,
                    now, granted>>
    BY DEF OtherPCAsks, phoneVars
  <1>2. host[t] \in PCs
    BY DEF FlowTypes
  <1>3. inbound' \in [Taps -> Seq(UnlockRequest)]
    BY <1>2, UnlockReqFacts, SentFacts DEF OtherPCAsks, FlowTypes
  <1>4. elsewhere' \subseteq Sessions
    BY DEF OtherPCAsks, FlowTypes
  <1>5. FlowTypes'
    BY <1>1, <1>3, <1>4 DEF FlowTypes, StoreTypeOK
  <1>6. Evidence'
    BY <1>1, NoNewAnswer
  <1>7. QED
    BY <1>5, <1>6

\* The worker takes a backed answer off the connection, and reads the clock.
LEMMA TakeFlow ==
  ASSUME FlowTypes, Evidence, TakeAnswer
  PROVE  /\ FlowTypes' /\ Evidence'
         /\ work' \in [pc : {"validate"}, frame : Answers, nowMs : {now}]
  <1>1. UNCHANGED <<inbound, snd, uiQueue, prompt, key, confirmed, store, host, agentConn, now,
                    elsewhere, granted>>
    BY DEF TakeAnswer, phoneVars
  <1>2. agentConn \in Taps /\ outbound[agentConn] # <<>>
    BY DEF TakeAnswer, FlowTypes
  <1>3. outbound \in [Taps -> Seq(Answers)] /\ outbound[agentConn] \in Seq(Answers)
    BY <1>2 DEF FlowTypes
  <1>4. PICK f \in Answers : f = Head(outbound[agentConn])
    BY <1>2, <1>3, QueueFacts
  <1>5. Backed(f, confirmed)
    <2>1. 1 \in 1 .. Len(outbound[agentConn]) /\ f = outbound[agentConn][1]
      BY <1>2, <1>3, <1>4, QueueFacts
    <2>2. QED
      BY <1>2, <2>1 DEF Evidence
  <1>6. outbound' = [outbound EXCEPT ![agentConn] = Tail(outbound[agentConn])]
    BY DEF TakeAnswer
  <1>7. outbound' \in [Taps -> Seq(Answers)]
    BY <1>2, <1>3, <1>6, QueueFacts
  <1>8. \A t \in Taps : \A i \in 1 .. Len(outbound'[t]) : Backed(outbound'[t][i], confirmed)
    <2>1. \A t \in Taps : outbound'[t] = IF t = agentConn THEN Tail(outbound[t]) ELSE outbound[t]
      BY <1>3, <1>6
    <2>2. \A i \in 1 .. Len(Tail(outbound[agentConn])) :
            Backed(Tail(outbound[agentConn])[i], confirmed)
      BY <1>2, <1>3, QueueFacts DEF Evidence
    <2>3. QED
      BY <2>1, <2>2 DEF Evidence
  <1>9. work' = [pc |-> "validate", frame |-> f, nowMs |-> now]
    BY <1>4 DEF TakeAnswer
  <1>10. work' \in [pc : {"validate"}, frame : Answers, nowMs : {now}] /\ work'.frame = f
    BY <1>4, <1>9
  <1>11. work' \in [pc : {"validate", "verify", "consume"}, frame : Answers, nowMs : Time]
    BY <1>4, <1>9 DEF FlowTypes
  <1>12. FlowTypes'
    BY <1>1, <1>7, <1>11 DEF FlowTypes, StoreTypeOK
  <1>13. Evidence'
    BY <1>1, <1>5, <1>8, <1>10 DEF Evidence
  <1>14. QED
    BY <1>10, <1>12, <1>13

\* The checks before the last one keep the frame and the sample, or end.
LEMMA CheckFlow ==
  ASSUME FlowTypes, Evidence, Validate \/ Verify
  PROVE  /\ FlowTypes' /\ Evidence'
         /\ work # Idle
         /\ work' = Idle \/ (work' # Idle /\ work'.frame = work.frame /\ work'.nowMs = work.nowMs)
  <1>1. UNCHANGED <<inbound, outbound, snd, uiQueue, prompt, key, confirmed, store, host, agentConn,
                    now, elsewhere, granted>>
    BY DEF Validate, Verify, transportVars, phoneVars
  <1>2. work # Idle
    BY DEF Validate, Verify, Idle
  <1>3. work \in [pc : {"validate", "verify", "consume"}, frame : Answers, nowMs : Time]
    BY <1>2 DEF FlowTypes
  <1>4. PICK label \in {"verify", "consume"} : work' = Idle \/ work' = [work EXCEPT !.pc = label]
    BY DEF Validate, Verify, Continue
  <1>5. \/ work' = Idle
        \/ /\ work' \in [pc : {"validate", "verify", "consume"}, frame : Answers, nowMs : Time]
           /\ work'.frame = work.frame /\ work'.nowMs = work.nowMs /\ work'.pc = label
    BY <1>3, <1>4
  <1>6. FlowTypes'
    BY <1>1, <1>5 DEF FlowTypes, StoreTypeOK
  <1>7. Evidence'
    BY <1>1, <1>2, <1>5 DEF Evidence
  <1>8. QED
    BY <1>2, <1>5, <1>6, <1>7 DEF Idle

\* The last check keeps every record, its challenge and its expiry; a verdict
\* of SUCCESS is for the frame in hand, in time by the sample.
LEMMA ConsumeKeeps ==
  ASSUME FlowTypes, Consume
  PROVE  /\ work # Idle /\ work' = Idle
         /\ work.frame \in Answers /\ work.frame.payload.session \in Sessions
         /\ store' \in [Sessions -> ChallengeRecord \cup {NoRecord}]
         /\ \A x \in Sessions : /\ store[x] # NoRecord <=> store'[x] # NoRecord
                                /\ store'[x].challenge = store[x].challenge
                                /\ store'[x].expires = store[x].expires
         /\ \/ granted' = granted
            \/ /\ granted' = granted \cup {work.frame.payload.session}
               /\ store[work.frame.payload.session] # NoRecord
               /\ store[work.frame.payload.session].challenge = work.frame.payload.challenge
               /\ ~(work.nowMs > store[work.frame.payload.session].expires)
  <1>1. work # Idle /\ work' = Idle
    BY DEF Consume, Idle
  <1>2. work.frame \in Answers
    BY <1>1 DEF FlowTypes
  <1>3. PICK s \in Sessions : s = work.frame.payload.session
    BY <1>2 DEF Answers, AuthPayload
  <1>4. store \in [Sessions -> ChallengeRecord \cup {NoRecord}]
    BY DEF FlowTypes, StoreTypeOK
  <1>5. PICK v : v = Verdict
    OBVIOUS
  <1>6. v = ValidateChallenge(s, work.frame.payload.device, ThisPC, work.frame.payload.challenge,
                              work.nowMs)
    BY <1>3, <1>5 DEF Verdict
  <1>7. \/ v = "SUCCESS" /\ Mark(s, "CONSUMED")
        \/ v = "CHALLENGE_EXPIRED" /\ Mark(s, "EXPIRED")
        \/ UNCHANGED store
    BY <1>3, <1>5 DEF Consume, ValidateAndConsumeChallenge
  <1>8. v \in {"SUCCESS", "CHALLENGE_EXPIRED"} => store[s] # NoRecord
    BY <1>6 DEF ValidateChallenge
  <1>9. /\ store' \in [Sessions -> ChallengeRecord \cup {NoRecord}]
        /\ \A x \in Sessions : /\ store[x] # NoRecord <=> store'[x] # NoRecord
                               /\ store'[x].challenge = store[x].challenge
                               /\ store'[x].expires = store[x].expires
    <2>1. CASE UNCHANGED store
      BY <1>4, <2>1
    <2>2. ASSUME NEW st \in {"CONSUMED", "EXPIRED"}, Mark(s, st), store[s] # NoRecord
          PROVE  /\ store' \in [Sessions -> ChallengeRecord \cup {NoRecord}]
                 /\ \A x \in Sessions : /\ store[x] # NoRecord <=> store'[x] # NoRecord
                                        /\ store'[x].challenge = store[x].challenge
                                        /\ store'[x].expires = store[x].expires
      <3>1. store[s] \in ChallengeRecord
        BY <1>4, <2>2
      <3>2. /\ store'[s] \in ChallengeRecord
            /\ store'[s].challenge = store[s].challenge /\ store'[s].expires = store[s].expires
            /\ \A x \in Sessions : x # s => store'[x] = store[x]
        BY <1>4, <2>2, <3>1 DEF Mark, ChallengeRecord
      <3>3. store' \in [Sessions -> ChallengeRecord \cup {NoRecord}]
        <4>1. store' = [store EXCEPT ![s] = [store[s] EXCEPT !.state = st]]
          BY <2>2 DEF Mark
        <4>2. [store[s] EXCEPT !.state = st] \in ChallengeRecord
          BY <1>4, <3>2, <4>1
        <4>3. QED
          BY <1>4, <4>1, <4>2
      <3>4. store'[s] # NoRecord
        BY <3>2, NoRecordAssumption
      <3>5. QED
        BY <2>2, <3>2, <3>3, <3>4
    <2>3. QED
      BY <1>7, <1>8, <2>1, <2>2
  <1>10. \/ granted' = granted
         \/ granted' = granted \cup {s} /\ v = "SUCCESS"
    BY <1>3, <1>5 DEF Consume
  <1>11. v = "SUCCESS" => /\ store[s] # NoRecord /\ store[s].challenge = work.frame.payload.challenge
                          /\ ~(work.nowMs > store[s].expires)
    BY <1>6, SuccessFacts
  <1>12. QED
    BY <1>1, <1>2, <1>3, <1>9, <1>10, <1>11

\* A verdict is for a backed answer, so it is for something confirmed.
LEMMA ConsumeFlow ==
  ASSUME FlowTypes, Evidence, Consume
  PROVE  FlowTypes' /\ Evidence'
  <1>1. UNCHANGED <<inbound, outbound, snd, uiQueue, prompt, key, confirmed, host, agentConn, now,
                    elsewhere>>
    BY DEF Consume, transportVars, phoneVars
  <1>2. granted' \subseteq Sessions
    BY ConsumeKeeps DEF FlowTypes
  <1>3. FlowTypes'
    BY <1>1, <1>2, ConsumeKeeps DEF FlowTypes, StoreTypeOK
  <1>4. \E q \in confirmed : /\ q.session = work.frame.payload.session
                             /\ q.challenge = work.frame.payload.challenge
    BY ConsumeKeeps DEF Evidence, Backed
  <1>5. \A s \in granted' :
          /\ store'[s] # NoRecord
          /\ \E q \in confirmed : q.session = s /\ q.challenge = store'[s].challenge
    <2>1. ASSUME NEW s \in granted
          PROVE  /\ store'[s] # NoRecord
                 /\ \E q \in confirmed : q.session = s /\ q.challenge = store'[s].challenge
      BY ConsumeKeeps DEF Evidence, FlowTypes
    <2>2. QED
      BY <1>4, <2>1, ConsumeKeeps
  <1>6. Evidence'
    BY <1>1, <1>5, ConsumeKeeps DEF Evidence
  <1>7. QED
    BY <1>3, <1>6

\* Everything the agents do, and the clock in either direction.
LEMMA AgentFlow ==
  ASSUME FlowTypes, Evidence, Agent \/ Ask \/ Clock
  PROVE  FlowTypes' /\ Evidence'
  <1>1. ASSUME NEW c \in Taps, Accept(c)
        PROVE  FlowTypes' /\ Evidence'
    <2>1. UNCHANGED <<inbound, outbound, snd, uiQueue, prompt, key, confirmed, store, host, work,
                      now, elsewhere, granted>>
      BY <1>1 DEF Accept, transportVars, phoneVars
    <2>2. FlowTypes'
      BY <1>1, <2>1 DEF Accept, FlowTypes, StoreTypeOK
    <2>3. Evidence'
      BY <2>1, NoNewAnswer
    <2>4. QED
      BY <2>2, <2>3
  <1>2. ASSUME NEW p \in PCs, AgentRestart(p)
        PROVE  FlowTypes' /\ Evidence'
    <2>1. /\ agentConn' \in {Null, agentConn}
          /\ outbound' = [c \in Taps |-> IF host[c] = p THEN <<>> ELSE outbound[c]]
          /\ UNCHANGED <<inbound, snd, uiQueue, prompt, key, confirmed, store, host, work, now,
                         elsewhere, granted>>
      BY <1>2 DEF AgentRestart, phoneVars
    <2>2. outbound' \in [Taps -> Seq(Answers)]
      BY <2>1 DEF FlowTypes
    <2>3. FlowTypes'
      BY <2>1, <2>2 DEF FlowTypes, StoreTypeOK
    <2>4. \A t \in Taps : outbound'[t] = outbound[t] \/ 1 .. Len(outbound'[t]) = {}
      BY <2>1
    <2>5. Evidence'
      BY <2>1, <2>4 DEF Evidence
    <2>6. QED
      BY <2>3, <2>5
  <1>3. CASE Clock
    <2>1. UNCHANGED <<inbound, outbound, snd, uiQueue, prompt, key, confirmed, store, host,
                      agentConn, work, elsewhere, granted>>
      BY <1>3 DEF Clock, transportVars, phoneVars
    <2>2. now' \in Time
      BY <1>3 DEF Clock
    <2>3. FlowTypes'
      BY <2>1, <2>2 DEF FlowTypes, StoreTypeOK
    <2>4. Evidence'
      BY <2>1, NoNewAnswer
    <2>5. QED
      BY <2>3, <2>4
  <1>4. QED
    BY <1>1, <1>2, <1>3, InitiateFlow, OtherFlow, TakeFlow, CheckFlow, ConsumeFlow DEF Agent, Ask
-----------------------------------------------------------------------------
\* What the user is shown

\* What its PC has asked stays asked, and so what is pending stays good.
LEMMA PendingStays ==
  ASSUME Pending, Live \subseteq Live', UNCHANGED <<inbound, uiQueue, prompt, confirmed>>,
         \A s \in elsewhere' : store'[s] = NoRecord
  PROVE  Pending'
  <1>1. Seq(Live) \subseteq Seq(Live')
    OBVIOUS
  <1>2. inbound' \in [Taps -> Seq(Live')] /\ uiQueue' \in Seq(Live')
    BY <1>1 DEF Pending
  <1>3. QED
    BY <1>2 DEF Pending

\* A step that issues and consumes nothing, and takes requests only onwards.
LEMMA PendingMoves ==
  ASSUME Pending, UNCHANGED <<store, elsewhere>>,
         inbound' \in [Taps -> Seq(Live)], uiQueue' \in Seq(Live), confirmed' \subseteq Live,
         prompt' = prompt \/ prompt' = NoPrompt \/ prompt'.req \in Live
  PROVE  Pending'
  <1>1. Live' = Live
    BY DEF Live
  <1>2. prompt' # NoPrompt => prompt'.req \in Live
    BY DEF Pending
  <1>3. QED
    BY <1>1, <1>2 DEF Pending, NoPrompt

\* What a receive loop takes off a connection was asked by the agent.
LEMMA ReadPending ==
  ASSUME Inv, Pending, NEW t \in Taps, NEW torn, LoopReads(t, torn)
  PROVE  inbound' \in [Taps -> Seq(Live)] /\ Head(inbound[rx[t].in]) \in Live
  <1>1. rx[t].in \in Taps
    BY DEF Inv, Types, TransportTypeOK, LoopReads
  <1>2. inbound[rx[t].in] \in Seq(Live) /\ inbound[rx[t].in] # <<>>
    BY <1>1 DEF Pending, LoopReads
  <1>3. Tail(inbound[rx[t].in]) \in Seq(Live) /\ Head(inbound[rx[t].in]) \in Live
    BY <1>2, QueueFacts
  <1>4. QED
    BY <1>1, <1>3 DEF Pending, LoopReads

\* The phone takes requests onwards and makes none of its own.
LEMMA PhonePending ==
  ASSUME Inv, FlowTypes, Pending, Phone \/ Arrives
  PROVE  Pending'
  <1>0. UNCHANGED <<store, elsewhere>>
    BY DEF Phone, Arrives, agentVars
  <1>1. /\ inbound \in [Taps -> Seq(Live)] /\ uiQueue \in Seq(Live)
        /\ prompt # NoPrompt => prompt.req \in Live
        /\ confirmed \subseteq Live
    BY DEF Pending
  <1>2. ASSUME UNCHANGED <<inbound, phoneVars>> PROVE Pending'
    BY <1>0, <1>1, <1>2, PendingMoves DEF phoneVars
  <1>3. CASE Arrives
    <2>1. PICK t \in Taps, nowMs \in Time : OnFrameReceived(t, nowMs)
      BY <1>3 DEF Arrives
    <2>2. inbound' \in [Taps -> Seq(Live)] /\ Head(inbound[rx[t].in]) \in Live
      BY <2>1, ReadPending DEF OnFrameReceived
    <2>3. uiQueue' \in Seq(Live) /\ UNCHANGED <<prompt, confirmed>>
      BY <1>1, <2>1, <2>2 DEF OnFrameReceived
    <2>4. QED
      BY <1>0, <1>1, <2>2, <2>3, PendingMoves
  <1>4. CASE PhoneRuns
    <2>1. CASE CallRuns(UI) /\ UNCHANGED phoneVars
      BY <1>2, <2>1 DEF CallRuns, CloseFlag, CloseSocket, CloseMembers, wires
    <2>2. CASE SendRuns /\ UNCHANGED phoneVars
      BY <1>2, <2>2 DEF Inv, Types, SendRuns, SendCheck, SendWrite, SendAt, wires
    <2>3. ASSUME NEW t \in Taps, LoopReads(t, TRUE), UNCHANGED phoneVars
          PROVE  Pending'
      BY <1>0, <1>1, <2>3, ReadPending, PendingMoves DEF phoneVars
    <2>4. CASE NoKeyToSign
      <3>1. CASE Died
        BY <1>0, <1>1, <3>1, PendingMoves DEF Died
      <3>2. CASE uiQueue' = Tail(uiQueue) /\ UNCHANGED <<transportVars, prompt, key, confirmed>>
        <4>1. Tail(uiQueue) \in Seq(Live)
          BY <1>1, <2>4, QueueFacts DEF NoKeyToSign
        <4>2. QED
          BY <1>0, <1>1, <3>2, <4>1, PendingMoves DEF transportVars
      <3>3. QED
        BY <2>4, <3>1, <3>2 DEF NoKeyToSign
    <2>5. CASE ReportSent
      BY <1>0, <1>1, <2>5, PendingMoves DEF ReportSent, wires
    <2>6. CASE ShowPrompt
      <3>1. UNCHANGED <<inbound, confirmed>>
        BY <2>6 DEF ShowPrompt, transportVars
      <3>2. uiQueue' \in Seq(Live) /\ Head(uiQueue) \in Live
        BY <1>1, <2>6, QueueFacts DEF ShowPrompt
      <3>3. prompt' = prompt \/ prompt'.req \in Live
        <4>1. \/ prompt' = [req |-> Head(uiQueue), gen |-> key.gen]
              \/ prompt' = [prompt EXCEPT !.req = Head(uiQueue)]
              \/ prompt' = prompt
          BY <2>6 DEF ShowPrompt
        <4>2. prompt = NoPrompt \/ prompt \in [req : UnlockRequest, gen : 1 .. MaxKeys]
          BY DEF FlowTypes
        <4>3. QED
          BY <3>2, <4>1, <4>2 DEF NoPrompt
      <3>4. QED
        BY <1>0, <1>1, <3>1, <3>2, <3>3, PendingMoves
    <2>7. QED
      BY <1>4, <2>1, <2>2, <2>3, <2>4, <2>5, <2>6 DEF PhoneRuns
  <1>5. CASE User
    <2>1. ASSUME NEW t \in Taps, StartConnection(t), UNCHANGED phoneVars
          PROVE  Pending'
      BY <1>2, <2>1 DEF StartConnection, Begin, wires
    <2>2. CASE Decline \/ OnDestroy \/ GenerateKey \/ Enrol
      BY <1>0, <1>1, <2>2, PendingMoves
         DEF Decline, OnDestroy, Stop, Begin, wires, transportVars, GenerateKey, Enrol
    <2>3. CASE Died
      BY <1>0, <1>1, <2>3, PendingMoves DEF Died
    <2>4. QED
      BY <1>5, <2>1, <2>2, <2>3 DEF User
  <1>6. CASE Confirm
    BY <1>0, <1>1, <1>6, PendingMoves DEF Confirm, wires
  <1>7. ASSUME NEW t \in Taps, ThreadRuns(t) PROVE Pending'
    BY <1>2, <1>7 DEF ThreadRuns, ConnectRuns, CallRuns, CloseFlag, CloseSocket, CloseMembers,
       OpenSocket, Publish, StartLoop, LoopRuns, LoopStart, LoopTest, LoopReadFails,
       LoopFinally, wires
  <1>8. QED
    BY <1>3, <1>4, <1>5, <1>6, <1>7 DEF Phone

\* What the agent sends, it has a record of.
LEMMA InitiatePending ==
  ASSUME FlowTypes, Pending, NEW s \in Sessions, NEW c \in Challenges,
         InitiateUnlockRequest(s, c)
  PROVE  Pending'
  <1>1. UNCHANGED <<uiQueue, prompt, confirmed, elsewhere>>
    BY DEF InitiateUnlockRequest, phoneVars
  <1>2. \A q \in UnlockRequest : q.session \in Sessions
    BY DEF UnlockRequest
  <1>3. Live \subseteq Live'
    BY <1>1, <1>2, InitiateStore DEF Live
  <1>4. PICK q \in UnlockRequest : q = UnlockReq(s, ThisPC, c)
    BY ThisPCAssumption, UnlockReqFacts
  <1>5. q.session = s /\ q.challenge = c /\ q.pc = ThisPC
    BY <1>4, ThisPCAssumption, UnlockReqFacts
  <1>6. q \in Live'
    BY <1>5, InitiateStore DEF Live
  <1>7. PICK L : L = Live'
    OBVIOUS
  <1>8. Seq(Live) \subseteq Seq(L)
    BY <1>3, <1>7
  <1>9. inbound \in [Taps -> Seq(L)] /\ uiQueue \in Seq(L)
    BY <1>8 DEF Pending
  <1>10. inbound' \in [Taps -> Seq(L)]
    BY <1>4, <1>6, <1>7, <1>9, SentFacts DEF InitiateUnlockRequest
  <1>11. \A x \in elsewhere' : store'[x] = NoRecord
    BY <1>1, InitiateStore DEF Pending, FlowTypes
  <1>12. prompt' # NoPrompt => prompt'.req \in Live'
    BY <1>1, <1>3 DEF Pending
  <1>13. QED
    BY <1>1, <1>3, <1>7, <1>9, <1>10, <1>11, <1>12 DEF Pending, NoPrompt

\* What another PC sends, that has drawn the session id for.
LEMMA OtherPending ==
  ASSUME FlowTypes, Pending, NEW t \in Taps, NEW s \in Sessions, NEW c \in Challenges,
         OtherPCAsks(t, s, c)
  PROVE  Pending'
  <1>1. UNCHANGED <<uiQueue, prompt, confirmed, store>> /\ elsewhere' = elsewhere \cup {s}
    BY DEF OtherPCAsks, phoneVars
  <1>2. Live \subseteq Live'
    BY <1>1 DEF Live
  <1>3. host[t] \in PCs /\ host[t] # ThisPC
    BY DEF FlowTypes, OtherPCAsks
  <1>4. PICK q \in UnlockRequest : q = UnlockReq(s, host[t], c)
    BY <1>3, UnlockReqFacts
  <1>5. q.session = s /\ q.pc # ThisPC
    BY <1>3, <1>4, UnlockReqFacts
  <1>6. q \in Live'
    BY <1>1, <1>5 DEF Live
  <1>7. PICK L : L = Live'
    OBVIOUS
  <1>8. Seq(Live) \subseteq Seq(L)
    BY <1>2, <1>7
  <1>9. inbound \in [Taps -> Seq(L)] /\ uiQueue \in Seq(L)
    BY <1>8 DEF Pending
  <1>10. inbound' \in [Taps -> Seq(L)]
    BY <1>4, <1>6, <1>7, <1>9, SentFacts DEF OtherPCAsks
  <1>11. \A x \in elsewhere' : store'[x] = NoRecord
    BY <1>1 DEF Pending, OtherPCAsks, Fresh
  <1>12. prompt' # NoPrompt => prompt'.req \in Live'
    BY <1>1, <1>2 DEF Pending
  <1>13. QED
    BY <1>1, <1>2, <1>7, <1>9, <1>10, <1>11, <1>12 DEF Pending, NoPrompt

\* Everything the agents do, and the clock.
LEMMA AgentPending ==
  ASSUME FlowTypes, Pending, Agent \/ Ask \/ Clock
  PROVE  Pending'
  <1>1. CASE UNCHANGED <<store, elsewhere, inbound, uiQueue, prompt, confirmed>>
    <2>1. Live' = Live
      BY <1>1 DEF Live
    <2>2. \A s \in elsewhere' : store'[s] = NoRecord
      BY <1>1 DEF Pending
    <2>3. QED
      BY <1>1, <2>1, <2>2, PendingStays
  <1>2. CASE Consume
    <2>1. UNCHANGED <<elsewhere, inbound, uiQueue, prompt, confirmed>>
      BY <1>2 DEF Consume, phoneVars, transportVars
    <2>2. \A q \in UnlockRequest : q.session \in Sessions
      BY DEF UnlockRequest
    <2>3. Live \subseteq Live'
      BY <1>2, <2>1, <2>2, ConsumeKeeps DEF Live
    <2>4. \A s \in elsewhere' : store'[s] = NoRecord
      BY <1>2, <2>1, ConsumeKeeps DEF Pending, FlowTypes
    <2>5. QED
      BY <2>1, <2>3, <2>4, PendingStays
  <1>3. CASE TakeAnswer \/ Validate \/ Verify \/ Clock
    BY <1>1, <1>3 DEF TakeAnswer, Validate, Verify, Clock, phoneVars, transportVars
  <1>4. ASSUME NEW s \in Sessions, NEW c \in Challenges, InitiateUnlockRequest(s, c)
        PROVE  Pending'
    BY <1>4, InitiatePending
  <1>5. ASSUME NEW s \in Sessions, NEW c \in Challenges, NEW t \in Taps, OtherPCAsks(t, s, c)
        PROVE  Pending'
    BY <1>5, OtherPending
  <1>6. ASSUME NEW c \in Taps, Accept(c) PROVE Pending'
    BY <1>1, <1>6 DEF Accept, phoneVars, transportVars
  <1>7. ASSUME NEW p \in PCs, AgentRestart(p) PROVE Pending'
    BY <1>1, <1>7 DEF AgentRestart, phoneVars
  <1>8. CASE Agent
    BY <1>2, <1>3, <1>6, <1>7, <1>8 DEF Agent
  <1>9. CASE Ask
    BY <1>4, <1>5, <1>9 DEF Ask
  <1>10. QED
    BY <1>3, <1>8, <1>9

-----------------------------------------------------------------------------
\* The system

\* Nothing is under way at first.
LEMMA InitSystem == Init => SystemInv
  <1> SUFFICES ASSUME Init PROVE SystemInv
    OBVIOUS
  <1>1. Inv
    BY InitInv DEF Init, PhoneInit
  <1>2. snd.pc = "idle" /\ \A t \in Taps : 1 .. Len(outbound[t]) = {}
    BY DEF Init, PhoneInit, TransportInit, Silent
  <1>3. key \in [gen : 1 .. MaxKeys, valid : BOOLEAN] /\ now \in Time
    BY PhoneAssumption, TimeAssumption DEF Init, PhoneInit, Time
  <1>4. FlowTypes
    BY <1>2, <1>3
       DEF Init, PhoneInit, TransportInit, StoreInit, FlowTypes, StoreTypeOK
  <1>5. Evidence
    BY <1>2 DEF Init, Evidence
  <1>6. Pending
    BY DEF Init, PhoneInit, TransportInit, Pending
  <1>7. QED
    BY <1>1, <1>4, <1>5, <1>6 DEF SystemInv

\* Every step of the system keeps the evidence, and shows the user nothing that
\* no PC has asked.
LEMMA NextSystem == SystemInv /\ [Next]_vars => SystemInv'
  <1> SUFFICES ASSUME SystemInv, [Next]_vars PROVE SystemInv'
    OBVIOUS
  <1>1. Inv /\ FlowTypes /\ Evidence /\ Pending
    BY DEF SystemInv
  <1>2. Inv'
    BY <1>1, SystemTransport
  <1>3. CASE UNCHANGED vars
    <2>1. FlowTypes' /\ Evidence'
      BY <1>1, <1>3, NoFlow DEF vars, transportVars
    <2>2. UNCHANGED <<store, elsewhere, inbound, uiQueue, prompt, confirmed>>
      BY <1>3 DEF vars, transportVars, phoneVars, agentVars
    <2>3. Pending'
      BY <1>1, <2>2, PendingMoves DEF Pending
    <2>4. QED
      BY <1>2, <2>1, <2>3 DEF SystemInv
  <1>4. CASE Next
    <2>1. FlowTypes' /\ Evidence'
      BY <1>1, <1>4, PhoneFlow, ArrivesFlow, AgentFlow DEF Next
    <2>2. Pending'
      BY <1>1, <1>4, PhonePending, AgentPending DEF Next
    <2>3. QED
      BY <1>2, <2>1, <2>2 DEF SystemInv
  <1>5. QED
    BY <1>3, <1>4

\* The variables of the phone, of its transport and of the agent have their
\* types.
THEOREM SystemTypeCorrect == Spec => []TypeOK
  <1>1. SystemInv => TypeOK
    <2> SUFFICES ASSUME SystemInv PROVE TypeOK
      OBVIOUS
    <2>1. Inv /\ FlowTypes
      BY DEF SystemInv
    <2>2. TransportTypeOK
      BY <2>1 DEF Inv, Types
    <2>3. prompt.req \in UnlockRequest \cup {NoRequest} /\ prompt.gen \in 0 .. MaxKeys
      BY <2>1, PhoneAssumption DEF FlowTypes, NoPrompt
    <2>4. QED
      BY <2>1, <2>2, <2>3 DEF TypeOK, PhoneTypeOK, FlowTypes
  <1>2. QED
    BY <1>1, InitSystem, NextSystem, PTL DEF Spec

\* The PC unlocks only for a request of its own that the user of the phone has
\* confirmed on a prompt, with the challenge issued for it, for any number of
\* sessions, PCs, connections and keys and with clocks that may be set: what is
\* confirmed was asked by some PC, and a session with a record here is no
\* other's.
THEOREM GrantedMeansConfirmedAlways == Spec => []GrantedMeansConfirmed
  <1>1. SystemInv => GrantedMeansConfirmed
    <2> SUFFICES ASSUME SystemInv, NEW s \in granted
                 PROVE  \E q \in confirmed : /\ q.session = s /\ q.challenge = store[s].challenge
                                             /\ q.pc = ThisPC
      BY DEF GrantedMeansConfirmed
    <2>1. store[s] # NoRecord
      BY DEF SystemInv, Evidence
    <2>2. PICK q \in confirmed : q.session = s /\ q.challenge = store[s].challenge
      BY DEF SystemInv, Evidence
    <2>3. q \in Live /\ s \notin elsewhere
      BY <2>1 DEF SystemInv, Pending
    <2>4. q.pc = ThisPC
      BY <2>2, <2>3 DEF Live
    <2>5. QED
      BY <2>2, <2>4
  <1>2. QED
    BY <1>1, InitSystem, NextSystem, PTL DEF Spec
-----------------------------------------------------------------------------
\* Refinement of what the owner of the PC is promised

\* A record is about a session and one of the challenges.
LEMMA RequestFacts ==
  ASSUME FlowTypes
  PROVE  /\ \A s \in Issued : /\ s \in Sessions /\ store[s] \in ChallengeRecord
                              /\ Request(s) \in Sessions \X Challenges
         /\ \A s, x : Request(s) = Request(x) => s = x
  <1>1. \A s \in Issued : s \in Sessions /\ store[s] \in ChallengeRecord
    BY DEF FlowTypes, StoreTypeOK, Issued
  <1>2. QED
    BY <1>1 DEF Request, ChallengeRecord

\* The request being judged, as the owner sees it.
Judging == {Request(s) : s \in Judged}

\* The frame in hand of the worker answers no session that is still to be drawn.
LEMMA WorkKnown ==
  ASSUME Evidence, Pending, work # Idle, NEW s, Fresh(s)
  PROVE  work.frame.payload.session # s
  <1>1. PICK q \in confirmed : q.session = work.frame.payload.session
    BY DEF Evidence, Backed
  <1>2. q \in Live
    BY DEF Pending
  <1>3. QED
    BY <1>1, <1>2 DEF Live, Fresh

\* A new request is asked, and changes nothing else the owner sees.
LEMMA InitiateRefines ==
  ASSUME FlowTypes, Evidence, Pending, NEW s \in Sessions, NEW c \in Challenges,
         InitiateUnlockRequest(s, c)
  PROVE  Owner!Next
  <1>1. UNCHANGED <<confirmed, now, granted, work>>
    BY DEF InitiateUnlockRequest, phoneVars
  <1>2. now + TTL \in 0 .. (MaxTime + TTL) /\ ~(now > now + TTL)
    BY ThisPCAssumption, UnlockReqFacts
  <1>3. /\ store[s] = NoRecord /\ store'[s] # NoRecord
        /\ store'[s].challenge = c /\ store'[s].expires = now + TTL
        /\ \A x \in Sessions : x # s => store'[x] = store[x]
    BY InitiateStore
  <1>4. Issued' = Issued \cup {s} /\ s \notin Issued
    BY <1>3 DEF Issued
  <1>5. Request(s)' = <<s, c>> /\ \A x \in Issued : Request(x)' = Request(x)
    BY <1>3, <1>4 DEF Request, Issued
  <1>6. AskedFor' = AskedFor \cup {<<s, c>>}
    BY <1>4, <1>5 DEF AskedFor
  <1>7. <<s, c>> \notin AskedFor
    BY <1>4 DEF AskedFor, Request
  <1>8. ConfirmedByUser' = ConfirmedByUser
    BY <1>1 DEF ConfirmedByUser
  <1>9. Overdue' = Overdue
    <2>1. {x \in Issued : now > store[x].expires}' = {x \in Issued : now > store[x].expires}
      <3>1. \A x \in Issued' : now' > store'[x].expires <=> x \in Issued /\ now > store[x].expires
        BY <1>1, <1>2, <1>3, <1>4 DEF Issued
      <3>2. QED
        BY <1>4, <3>1
    <2>2. QED
      BY <1>5, <2>1 DEF Overdue
  <1>10. Judging' = Judging
    <2>1. work # Idle => work.frame.payload.session # s
      BY WorkKnown DEF InitiateUnlockRequest
    <2>2. Judged' = Judged
      BY <1>1, <1>3, <1>4, <2>1 DEF Judged, Issued
    <2>3. Judged \subseteq Issued
      BY DEF Judged
    <2>4. QED
      BY <1>5, <2>2, <2>3 DEF Judging
  <1>11. UnlockedFor' = UnlockedFor
    <2>1. granted \subseteq Issued
      BY DEF Evidence, FlowTypes, Issued
    <2>2. QED
      BY <1>1, <1>5, <2>1 DEF UnlockedFor
  <1>12. Owner!Ask(<<s, c>>)
    BY <1>6, <1>7, <1>8, <1>9, <1>10, <1>11 DEF Owner!Ask, Judging
  <1>13. QED
    BY <1>12 DEF Owner!Next

\* What is not the user's confirmation, the store, the worker, the clock or a
\* verdict is not seen by the owner.
LEMMA Unseen ==
  ASSUME UNCHANGED <<store, confirmed, now, granted, work>>
  PROVE  UNCHANGED Owner!vars
  BY DEF Owner!vars, AskedFor, ConfirmedByUser, Overdue, Judged, UnlockedFor, Issued, Request

\* The user confirms, and nothing else happens to the owner.
LEMMA ConfirmRefines ==
  ASSUME FlowTypes, Confirm, UNCHANGED agentVars
  PROVE  Owner!Next
  <1>1. UNCHANGED <<store, now, granted, work>>
    BY DEF agentVars
  <1>2. PICK q \in UnlockRequest : q = prompt.req
    BY DEF Confirm, FlowTypes
  <1>3. q.session \in Sessions /\ q.challenge \in Challenges
    BY <1>2 DEF UnlockRequest
  <1>4. ConfirmedByUser' = ConfirmedByUser \cup {<<q.session, q.challenge>>}
    <2>1. confirmed' = confirmed \cup {q}
      BY <1>2 DEF Confirm
    <2>2. QED
      BY <2>1 DEF ConfirmedByUser
  <1>5. /\ AskedFor' = AskedFor /\ Overdue' = Overdue /\ UnlockedFor' = UnlockedFor
        /\ Judging' = Judging
    BY <1>1 DEF AskedFor, Overdue, UnlockedFor, Judging, Judged, Issued, Request
  <1>6. Owner!Confirm(<<q.session, q.challenge>>)
    BY <1>4, <1>5 DEF Owner!Confirm, Judging
  <1>7. QED
    BY <1>3, <1>6 DEF Owner!Next

\* The clock makes requests late, or good again, and keeps its sample.
LEMMA ClockRefines ==
  ASSUME FlowTypes, Clock
  PROVE  Owner!Next
  <1>1. UNCHANGED <<store, confirmed, granted, work>>
    BY DEF Clock, phoneVars
  <1>2. /\ AskedFor' = AskedFor /\ ConfirmedByUser' = ConfirmedByUser
        /\ UnlockedFor' = UnlockedFor /\ Judging' = Judging
    BY <1>1 DEF AskedFor, ConfirmedByUser, UnlockedFor, Judging, Judged, Issued, Request
  <1>3. Overdue' \subseteq AskedFor
    BY <1>1 DEF Overdue, AskedFor, Issued, Request
  <1>4. AskedFor \subseteq Sessions \X Challenges
    BY RequestFacts DEF AskedFor
  <1>5. PICK L \in SUBSET (Sessions \X Challenges) : L = Overdue'
    BY <1>3, <1>4
  <1>6. Owner!Tick(L)
    BY <1>2, <1>3, <1>5 DEF Owner!Tick, Judging
  <1>7. QED
    BY <1>6 DEF Owner!Next

\* The worker takes an answer: if it is in time, to a confirmed request.
LEMMA TakeRefines ==
  ASSUME FlowTypes, Evidence, TakeAnswer
  PROVE  Owner!Next \/ UNCHANGED Owner!vars
  <1>1. UNCHANGED <<store, confirmed, now, granted>>
    BY DEF TakeAnswer, phoneVars
  <1>2. /\ work = Idle /\ work' # Idle /\ work'.nowMs = now
        /\ Backed(work'.frame, confirmed)
    <2>1. work' \in [pc : {"validate"}, frame : Answers, nowMs : {now}] /\ Evidence'
      BY TakeFlow
    <2>2. work' # Idle
      BY <2>1 DEF Idle
    <2>3. work = Idle
      BY DEF TakeAnswer
    <2>4. Backed(work'.frame, confirmed)
      BY <1>1, <2>1, <2>2 DEF Evidence
    <2>5. QED
      BY <2>1, <2>2, <2>3, <2>4
  <1>3. /\ AskedFor' = AskedFor /\ ConfirmedByUser' = ConfirmedByUser
        /\ Overdue' = Overdue /\ UnlockedFor' = UnlockedFor
    BY <1>1 DEF AskedFor, ConfirmedByUser, Overdue, UnlockedFor, Issued, Request
  <1>4. Judging = {}
    BY <1>2 DEF Judging, Judged
  <1>5. Judging' = {Request(s) : s \in Judged'}
    BY <1>1 DEF Judging, Request
  <1>6. CASE Judged' = {}
    <2>1. Judging' = {}
      BY <1>5, <1>6
    <2>2. QED
      BY <1>3, <1>4, <2>1 DEF Owner!vars, Judging
  <1>7. ASSUME NEW s \in Judged' PROVE Owner!Next
    <2>1. /\ s \in Issued
          /\ work'.frame.payload.session = s /\ work'.frame.payload.challenge = store[s].challenge
          /\ now <= store[s].expires
      BY <1>1, <1>2, <1>7 DEF Judged, Issued
    <2>2. Judged' = {s}
      BY <1>7, <2>1 DEF Judged
    <2>3. PICK r \in Sessions \X Challenges : r = Request(s)
      BY <2>1, RequestFacts
    <2>4. Judging' = {r}
      BY <1>5, <2>2, <2>3
    <2>5. r \in AskedFor
      BY <2>1, <2>3 DEF AskedFor
    <2>6. r \in ConfirmedByUser
      BY <1>2, <2>1, <2>3 DEF Backed, ConfirmedByUser, Request
    <2>7. r \notin Overdue
      <3>1. now \in Nat /\ store[s].expires \in Nat
        BY <2>1, RequestFacts, TimeAssumption DEF FlowTypes, Time, ChallengeRecord
      <3>2. ~(now > store[s].expires)
        BY <2>1, <3>1
      <3>3. QED
        BY <2>3, <3>2, RequestFacts DEF Overdue
    <2>8. Owner!Judge(r)
      BY <1>3, <1>4, <2>4, <2>5, <2>6, <2>7 DEF Owner!Judge, Judging
    <2>9. QED
      BY <2>8 DEF Owner!Next
  <1>8. QED
    BY <1>6, <1>7

\* A check that fails gives the answer up, one that passes is not seen.
LEMMA CheckRefines ==
  ASSUME FlowTypes, Evidence, Validate \/ Verify
  PROVE  Owner!Next \/ UNCHANGED Owner!vars
  <1>1. UNCHANGED <<store, confirmed, now, granted>>
    BY DEF Validate, Verify, phoneVars
  <1>2. /\ AskedFor' = AskedFor /\ ConfirmedByUser' = ConfirmedByUser
        /\ Overdue' = Overdue /\ UnlockedFor' = UnlockedFor
    BY <1>1 DEF AskedFor, ConfirmedByUser, Overdue, UnlockedFor, Issued, Request
  <1>3. CASE work' = Idle
    <2>1. Judging' = {}
      BY <1>3 DEF Judging, Judged, Idle
    <2>2. Owner!Refuse
      BY <1>2, <2>1 DEF Owner!Refuse, Judging
    <2>3. QED
      BY <2>2 DEF Owner!Next
  <1>4. CASE work' # Idle
    <2>1. work # Idle /\ work'.frame = work.frame /\ work'.nowMs = work.nowMs
      BY <1>4, CheckFlow
    <2>2. Judged' = Judged
      BY <1>1, <1>4, <2>1 DEF Judged, Issued
    <2>3. Judging' = Judging
      BY <1>1, <2>2 DEF Judging, Request
    <2>4. QED
      BY <1>2, <2>3 DEF Owner!vars, Judging
  <1>5. QED
    BY <1>3, <1>4

\* A verdict of SUCCESS unlocks for the request that is being judged.
LEMMA ConsumeRefines ==
  ASSUME FlowTypes, Evidence, Consume
  PROVE  Owner!Next
  <1>1. UNCHANGED <<confirmed, now>>
    BY DEF Consume, phoneVars
  <1>2. /\ work # Idle /\ work' = Idle
        /\ work.frame \in Answers /\ work.frame.payload.session \in Sessions
        /\ \A x \in Sessions : /\ store[x] # NoRecord <=> store'[x] # NoRecord
                               /\ store'[x].challenge = store[x].challenge
                               /\ store'[x].expires = store[x].expires
    BY ConsumeKeeps
  <1>3. Issued' = Issued /\ \A x \in Sessions : Request(x)' = Request(x)
    BY <1>2 DEF Issued, Request
  <1>4. Issued \subseteq Sessions /\ granted \subseteq Sessions
    BY DEF Issued, FlowTypes
  <1>5. AskedFor' = AskedFor
    BY <1>3, <1>4 DEF AskedFor
  <1>6. ConfirmedByUser' = ConfirmedByUser
    BY <1>1 DEF ConfirmedByUser
  <1>7. Overdue' = Overdue
    <2>1. {x \in Issued : now > store[x].expires}' = {x \in Issued : now > store[x].expires}
      BY <1>1, <1>2, <1>3, <1>4
    <2>2. QED
      BY <1>3, <1>4, <2>1 DEF Overdue
  <1>8. Judging' = {}
    BY <1>2 DEF Judging, Judged, Idle
  <1>9. CASE granted' = granted
    <2>1. UnlockedFor' = UnlockedFor
      BY <1>3, <1>4, <1>9 DEF UnlockedFor
    <2>2. Owner!Refuse
      BY <1>5, <1>6, <1>7, <1>8, <2>1 DEF Owner!Refuse, Judging
    <2>3. QED
      BY <2>2 DEF Owner!Next
  <1>10. CASE /\ granted' = granted \cup {work.frame.payload.session}
              /\ store[work.frame.payload.session] # NoRecord
              /\ store[work.frame.payload.session].challenge = work.frame.payload.challenge
              /\ ~(work.nowMs > store[work.frame.payload.session].expires)
    <2>1. PICK s \in Sessions : s = work.frame.payload.session
      BY <1>2
    <2>2. s \in Issued
      BY <1>10, <2>1 DEF Issued
    <2>3. work.nowMs <= store[s].expires
      <3>1. work.nowMs \in Nat /\ store[s].expires \in Nat
        BY <1>2, <2>2, RequestFacts, TimeAssumption DEF FlowTypes, Time, ChallengeRecord
      <3>2. QED
        BY <1>10, <2>1, <3>1
    <2>4. s \in Judged
      BY <1>2, <1>10, <2>1, <2>2, <2>3 DEF Judged
    <2>5. PICK r \in Sessions \X Challenges : r = Request(s)
      BY <2>2, RequestFacts
    <2>6. r \in Judging
      BY <2>4, <2>5 DEF Judging
    <2>7. UnlockedFor' = UnlockedFor \cup {r}
      BY <1>3, <1>4, <1>10, <2>1, <2>5 DEF UnlockedFor
    <2>8. Owner!Unlock(r)
      BY <1>5, <1>6, <1>7, <1>8, <2>6, <2>7 DEF Owner!Unlock, Judging
    <2>9. QED
      BY <2>8 DEF Owner!Next
  <1>11. QED
    BY <1>9, <1>10, ConsumeKeeps

\* Connections, threads, prompts and keys decide when something is confirmed,
\* and nothing else.
LEMMA PhoneUnseen ==
  ASSUME Phone \/ Arrives
  PROVE  Confirm \/ UNCHANGED <<store, confirmed, now, granted, work>>
  <1>1. UNCHANGED <<store, now, granted, work>>
    BY DEF Phone, Arrives, agentVars
  <1>2. CASE Arrives
    BY <1>1, <1>2 DEF Arrives, OnFrameReceived
  <1>3. CASE PhoneRuns
    BY <1>1, <1>3 DEF PhoneRuns, phoneVars, NoKeyToSign, Died, ReportSent, ShowPrompt
  <1>4. CASE User
    BY <1>1, <1>4 DEF User, phoneVars, StartConnection, Decline, OnDestroy, GenerateKey, Enrol,
       Died
  <1>5. ASSUME NEW t \in Taps, ThreadRuns(t) PROVE confirmed' = confirmed
    BY <1>5 DEF ThreadRuns, phoneVars
  <1>6. QED
    BY <1>1, <1>2, <1>3, <1>4, <1>5 DEF Phone

\* Agent and phone together keep what the owner of the PC is promised, for any
\* number of sessions, challenges, PCs, connections and keys, a clock of the
\* agent that runs forward and is set back, and any clock of the phone: every
\* unlock is for a request of this PC that the user had confirmed when the
\* worker took the answer, and that the clock did not call late then.  Whether
\* it is late when the unlock comes, the code does not look.
THEOREM SystemRefinesConfirmedUnlock == Spec => ImplementsConfirmedUnlock
  <1>1. Init => Owner!Init
    <2> SUFFICES ASSUME Init PROVE Owner!Init
      OBVIOUS
    <2>1. Issued = {} /\ confirmed = {} /\ granted = {}
      BY DEF Init, PhoneInit, StoreInit, Issued
    <2>2. QED
      BY <2>1 DEF Owner!Init, AskedFor, ConfirmedByUser, Overdue, Judged, UnlockedFor
  <1>2. ASSUME SystemInv, [Next]_vars
        PROVE  Owner!Next \/ UNCHANGED Owner!vars
    <2>1. FlowTypes /\ Evidence /\ Pending
      BY <1>2 DEF SystemInv
    <2>2. CASE UNCHANGED vars
      BY <2>2, Unseen DEF vars, phoneVars, agentVars
    <2>3. CASE Phone \/ Arrives
      <3>1. UNCHANGED agentVars
        BY <2>3 DEF Phone, Arrives
      <3>2. QED
        BY <2>1, <2>3, <3>1, PhoneUnseen, ConfirmRefines, Unseen
    <2>4. CASE Agent
      <3>1. CASE (\E p \in PCs : AgentRestart(p)) \/ \E c \in Taps : Accept(c)
        BY <3>1, Unseen DEF AgentRestart, Accept, phoneVars
      <3>2. QED
        BY <2>1, <2>4, <3>1, TakeRefines, CheckRefines, ConsumeRefines DEF Agent
    <2>5. CASE Ask
      <3>1. ASSUME NEW s \in Sessions, NEW c \in Challenges, InitiateUnlockRequest(s, c)
            PROVE  Owner!Next
        BY <2>1, <3>1, InitiateRefines
      <3>2. ASSUME NEW s \in Sessions, NEW c \in Challenges, NEW t \in Taps, OtherPCAsks(t, s, c)
            PROVE  UNCHANGED Owner!vars
        BY <3>2, Unseen DEF OtherPCAsks, phoneVars
      <3>3. QED
        BY <2>5, <3>1, <3>2 DEF Ask
    <2>6. CASE Clock
      BY <2>1, <2>6, ClockRefines
    <2>7. QED
      BY <1>2, <2>2, <2>3, <2>4, <2>5, <2>6 DEF Next
  <1>3. SystemInv /\ [Next]_vars => [Owner!Next]_(Owner!vars)
    BY <1>2
  <1>4. QED
    BY <1>1, <1>3, InitSystem, NextSystem, PTL DEF Spec, ImplementsConfirmedUnlock, Owner!Spec

=============================================================================
