-------------------------- MODULE NamedPipeProofs --------------------------
(***************************************************************************)
(* Proofs about NamedPipe for any number of logon tiles, calls and handle  *)
(* values: nothing about the pipe goes wrong however Stop, the worker, the *)
(* handler and the clients meet, and no tile gets a credential that was    *)
(* not approved for its own call.                                          *)
(***************************************************************************)
EXTENDS NamedPipe, TLAPS

-----------------------------------------------------------------------------
\* The inductive invariant, in parts.

HandleOrNone == Handles \cup {INVALID_HANDLE_VALUE}
Packets == {None} \cup {<<p>> : p \in IpcPacket}

OwnerLocals ==
  [pc : {"idle", "flag", "test", "close", "clear", "join"}, call : {"none", "Start", "Stop"},
   h : HandleOrNone]

WorkerLocals ==
  [pc : {"none", "loop", "create"} \cup Serving, h : HandleOrNone,
   req : {None} \cup (Clients \X Nat), resp : Packets]

ClientLocals ==
  [pc : {"idle", "wait", "open", "send", "receive"}, call : Nat, link : HandleOrNone,
   sent : BOOLEAN, inbox : Packets]

\* The types of the locals in full.
Types ==
  /\ isRunning \in BOOLEAN
  /\ hPipe \in HandleOrNone
  /\ owner \in OwnerLocals
  /\ worker \in WorkerLocals
  /\ table \in [Handles -> Clients \cup {"free", "listening", "broken", "unread"}]
  /\ cl \in [Clients -> ClientLocals]
  /\ result \in [Clients -> {"none", "NO_CREDENTIAL", "CREDENTIAL", "E_OUTOFMEMORY"}]
  /\ approved \subseteq Clients \X Nat

\* The two ends of a connection agree, and a client has one only inside its
\* call, as it has an answer only there.
Linked ==
  /\ \A c \in Clients, h \in Handles : table[h] = c <=> cl[c].link = h
  /\ \A c \in Clients : cl[c].pc \notin {"send", "receive"} =>
                          cl[c].link = INVALID_HANDLE_VALUE /\ cl[c].inbox = None

\* While Stop has a handle to close the worker makes no other, and once one of
\* the two has closed the pipe there is none until both are past the reset.
StopMeetsWorker ==
  /\ owner.pc \in {"test", "close", "clear", "join"} => ~isRunning
  /\ owner.pc \in {"close", "clear"} =>
       worker.pc # "create" /\ hPipe \in {owner.h, INVALID_HANDLE_VALUE}
  /\ "clear" \in {owner.pc, worker.pc} => \A h \in Handles : ~Ours(h)

\* What the handler approves.
Good(resp) == resp.statusCode = 0 /\ resp.payload > 0

\* A pipe listens only before ConnectNamedPipe returns, so the client the
\* handler worked for is still the one on the pipe, if there is any, and in
\* the same call.
SameCall ==
  /\ worker.pc = "connect" => hPipe \in {worker.h, INVALID_HANDLE_VALUE}
  /\ worker.pc \notin {"check", "callConnect", "connect"} =>
       \A h \in Handles : table[h] # "listening"
  /\ \A c \in Clients : Refers(hPipe) = c =>
       /\ worker.pc = "handler" => worker.req = <<c, cl[c].call>>
       /\ worker.pc = "write" /\ Good(worker.resp[1]) => <<c, cl[c].call>> \in approved

\* An answer that carries a credential waits only where it was approved.
AnswersApproved ==
  \A c \in Clients : cl[c].inbox # None /\ Good(cl[c].inbox[1]) => <<c, cl[c].call>> \in approved

-----------------------------------------------------------------------------
\* What the system calls and the end of a client's call do

\* INVALID_HANDLE_VALUE is no handle, and the marks of a handle are no client.
LEMMA Apart ==
  /\ INVALID_HANDLE_VALUE \notin Handles
  /\ \A c \in Clients : c # "free" /\ c # "listening" /\ c # "broken" /\ c # "unread"
  BY PipeAssumption DEF INVALID_HANDLE_VALUE

\* Closing a handle frees it and cuts the client that was on it, and touches
\* nothing else (CloseHandle).
LEMMA CloseFacts ==
  ASSUME Types, Linked, NEW h \in HandleOrNone, CloseHandle(h)
  PROVE  /\ table' \in [Handles -> Clients \cup {"free", "listening", "broken", "unread"}]
         /\ cl' \in [Clients -> ClientLocals]
         /\ \A x \in Handles : table'[x] = IF x = h THEN "free" ELSE table[x]
         /\ \A c \in Clients : /\ cl'[c].pc = cl[c].pc /\ cl'[c].call = cl[c].call
                               /\ cl'[c].inbox = cl[c].inbox
         /\ Linked'
  <1>1. CASE h \notin Handles
    BY <1>1, Apart DEF CloseHandle, Refers, Types, Linked
  <1>2. CASE h \in Handles /\ table[h] \notin Clients
    BY <1>2, Apart DEF CloseHandle, Refers, Types, Linked
  <1>3. CASE h \in Handles /\ table[h] \in Clients
    <2>1. PICK d \in Clients : d = table[h]
      BY <1>3
    <2>2. /\ table' = [table EXCEPT ![h] = "free"]
          /\ cl' = [cl EXCEPT ![d].link = INVALID_HANDLE_VALUE]
      BY <1>3, <2>1 DEF CloseHandle, Refers
    <2>3. \A x \in Handles : table'[x] = IF x = h THEN "free" ELSE table[x]
      BY <2>2 DEF Types
    <2>4. \A c \in Clients :
            /\ cl'[c] \in ClientLocals
            /\ cl'[c].pc = cl[c].pc /\ cl'[c].call = cl[c].call /\ cl'[c].inbox = cl[c].inbox
            /\ cl'[c].link = IF c = d THEN INVALID_HANDLE_VALUE ELSE cl[c].link
      BY <2>2 DEF Types, ClientLocals, HandleOrNone
    <2>5. Linked'
      BY <1>3, <2>1, <2>3, <2>4, Apart DEF Linked
    <2>6. QED
      BY <2>2, <2>3, <2>4, <2>5 DEF Types
  <1>4. QED
    BY <1>1, <1>2, <1>3

\* Disconnecting cuts the client off and discards its answer; the instance is
\* there as before (DisconnectNamedPipe).
LEMMA DisconnectFacts ==
  ASSUME Types, Linked, NEW h \in HandleOrNone, DisconnectNamedPipe(h)
  PROVE  /\ table' \in [Handles -> Clients \cup {"free", "listening", "broken", "unread"}]
         /\ cl' \in [Clients -> ClientLocals]
         /\ \A x \in Handles : \/ table'[x] = table[x]
                               \/ table[x] \in Clients /\ table'[x] = "broken"
         /\ \A c \in Clients : /\ cl'[c].pc = cl[c].pc /\ cl'[c].call = cl[c].call
                               /\ cl'[c].inbox \in {cl[c].inbox, None}
         /\ Linked'
  <1>1. CASE Refers(h) \notin Clients
    BY <1>1 DEF DisconnectNamedPipe, Types, Linked
  <1>2. CASE Refers(h) \in Clients
    <2>1. h \in Handles /\ table[h] \in Clients
      BY <1>2, Apart DEF Refers
    <2>2. PICK d \in Clients : d = table[h]
      BY <2>1
    <2>3. /\ table' = [table EXCEPT ![h] = "broken"]
          /\ cl' = [cl EXCEPT ![d].link = INVALID_HANDLE_VALUE, ![d].inbox = None]
      BY <1>2, <2>1, <2>2 DEF DisconnectNamedPipe, Refers
    <2>4. \A x \in Handles : table'[x] = IF x = h THEN "broken" ELSE table[x]
      BY <2>3 DEF Types
    <2>5. \A c \in Clients :
            /\ cl'[c] \in ClientLocals
            /\ cl'[c].pc = cl[c].pc /\ cl'[c].call = cl[c].call
            /\ cl'[c].inbox = IF c = d THEN None ELSE cl[c].inbox
            /\ cl'[c].link = IF c = d THEN INVALID_HANDLE_VALUE ELSE cl[c].link
      BY <2>3 DEF Types, ClientLocals, HandleOrNone, Packets
    <2>6. Linked'
      BY <2>1, <2>2, <2>4, <2>5, Apart DEF Linked
    <2>7. QED
      BY <2>1, <2>3, <2>4, <2>5, <2>6 DEF Types
  <1>3. QED
    BY <1>1, <1>2

\* A client that hangs up leaves a broken instance behind, and takes its
\* answer with it (SendIpcRequest closing its end).
LEMMA HangupFacts ==
  ASSUME Types, Linked, NEW c \in Clients, Hangup(c)
  PROVE  /\ table' \in [Handles -> Clients \cup {"free", "listening", "broken", "unread"}]
         /\ cl' \in [Clients -> ClientLocals]
         /\ \A x \in Handles : table[x] # c => table'[x] = table[x]
         /\ \A x \in Handles : table[x] = c => table'[x] \in {"broken", "unread"}
         /\ cl'[c].pc = "idle" /\ cl'[c].call = cl[c].call /\ cl'[c].inbox = None
         /\ \A d \in Clients : d # c => cl'[d] = cl[d]
         /\ Linked'
  <1>1. /\ \A x \in Handles : table[x] # c => table'[x] = table[x]
        /\ \A x \in Handles : table[x] = c => table'[x] \in {"broken", "unread"}
        /\ table' \in [Handles -> Clients \cup {"free", "listening", "broken", "unread"}]
    BY DEF Hangup, Types
  <1>2. /\ cl' \in [Clients -> ClientLocals]
        /\ cl'[c].pc = "idle" /\ cl'[c].call = cl[c].call /\ cl'[c].inbox = None
        /\ cl'[c].link = INVALID_HANDLE_VALUE
        /\ \A d \in Clients : d # c => cl'[d] = cl[d]
    BY DEF Hangup, Types, ClientLocals, HandleOrNone, Packets
  <1>3. Linked'
    BY <1>1, <1>2, Apart DEF Linked
  <1>4. QED
    BY <1>1, <1>2, <1>3

-----------------------------------------------------------------------------
\* Types and links

\* A worker that goes on with a new label has its locals at rest.
LEMMA AtRestType ==
  /\ AtRest \in WorkerLocals /\ AtRest.pc = "none"
  /\ \A label \in ({"none", "loop", "create"} \cup Serving) :
       /\ [AtRest EXCEPT !.pc = label] \in WorkerLocals
       /\ [AtRest EXCEPT !.pc = label].pc = label
       /\ [AtRest EXCEPT !.pc = label].resp = None
  BY DEF AtRest, WorkerLocals, HandleOrNone, Packets

\* What a call that may wait waits in.
LEMMA WaitsFacts ==
  /\ DOMAIN Waits = {"callConnect", "callRead", "callFlush"}
  /\ Waits["callConnect"] = "connect" /\ Waits["callRead"] = "read"
  /\ Waits["callFlush"] = "flush"
  BY DEF Waits

\* The worker's steps, but for the calls that close or cut something, leave
\* every end of every connection where it is.
LEMMA WorkerTypes ==
  ASSUME Types, Linked, Worker
  PROVE  Types' /\ Linked'
  <1>0. ASSUME NEW label \in ({"none", "loop", "create"} \cup Serving) \ {"handler"},
               WorkerAt(label)
        PROVE  worker' \in WorkerLocals /\ worker'.pc # "handler"
    BY <1>0, AtRestType DEF WorkerAt
  <1>1. CASE Loop
    <2>1. worker' \in WorkerLocals /\ worker'.pc # "handler"
      BY <1>0, <1>1, AtRestType DEF Loop
    <2>2. QED
      BY <1>1, <2>1 DEF Loop, Types, Linked
  <1>2. CASE CreateNamedPipe
    <2>1. worker' \in WorkerLocals /\ worker'.pc # "handler"
      BY <1>0, <1>2 DEF CreateNamedPipe, Serving
    <2>2. CASE UNCHANGED table
      BY <1>2, <2>1, <2>2 DEF CreateNamedPipe, Created, Types, Linked, HandleOrNone
    <2>3. CASE Created
      <3>1. PICK h \in Handles :
              table[h] = "free" /\ table' = [table EXCEPT ![h] = "listening"] /\ hPipe' = h
        BY <2>3 DEF Created
      <3>2. \A x \in Handles : table'[x] = IF x = h THEN "listening" ELSE table[x]
        BY <3>1 DEF Types
      <3>3. cl' = cl
        BY <1>2 DEF CreateNamedPipe
      <3>4. Linked'
        BY <3>1, <3>2, <3>3, Apart DEF Linked
      <3>5. QED
        BY <1>2, <2>1, <3>1, <3>4 DEF CreateNamedPipe, Types, HandleOrNone
    <2>4. QED
      BY <1>2, <2>2, <2>3 DEF CreateNamedPipe
  <1>3. CASE CheckCreated
    <2>1. worker' \in WorkerLocals /\ worker'.pc # "handler"
      BY <1>0, <1>3 DEF CheckCreated, Serving
    <2>2. QED
      BY <1>3, <2>1 DEF CheckCreated, Types, Linked
  <1>4. CASE CallPipe
    <2>0. PICK label \in {"connect", "read", "flush"} :
            worker' = [worker EXCEPT !.pc = label, !.h = hPipe]
      BY <1>4, WaitsFacts DEF CallPipe
    <2>1. worker' \in WorkerLocals /\ worker'.pc # "handler"
      BY <2>0 DEF Types, WorkerLocals, Serving
    <2>2. QED
      BY <1>4, <2>1 DEF CallPipe, Types, Linked
  <1>5. CASE ConnectNamedPipe
    <2>1. worker' \in WorkerLocals /\ worker'.pc # "handler"
      BY <1>0, <1>5 DEF ConnectNamedPipe, Serving
    <2>2. QED
      BY <1>5, <2>1 DEF ConnectNamedPipe, Types, Linked
  <1>6. CASE ReadFile
    <2>1. worker' \in WorkerLocals
      <3>1. CASE WorkerAt("disconnect") \/ WorkerAt("handler")
        BY <3>1, AtRestType DEF WorkerAt, Serving
      <3>2. ASSUME NEW from \in Clients,
                   worker' = [AtRest EXCEPT !.pc = "handler", !.req = <<from, cl[from].call>>]
            PROVE  worker' \in WorkerLocals
        BY <3>2 DEF AtRest, WorkerLocals, Serving, Types, ClientLocals, HandleOrNone, Packets
      <3>3. QED
        BY <1>6, <3>1, <3>2 DEF ReadFile
    <2>2. QED
      BY <1>6, <2>1 DEF ReadFile, Types, Linked
  <1>7. CASE WriteFile
    <2>1. worker' \in WorkerLocals /\ worker'.pc # "handler"
      BY <1>0, <1>7 DEF WriteFile, Serving
    <2>2. CASE UNCHANGED cl
      BY <1>7, <2>1, <2>2 DEF WriteFile, Types, Linked
    <2>3. CASE Refers(hPipe) \in Clients
               /\ cl' = [cl EXCEPT ![Refers(hPipe)].inbox = worker.resp]
      <3>1. PICK c \in Clients : c = Refers(hPipe)
        BY <2>3
      <3>2. hPipe \in Handles /\ table[hPipe] = c
        BY <3>1, Apart DEF Refers
      <3>3. /\ cl' \in [Clients -> ClientLocals]
            /\ \A d \in Clients : /\ cl'[d].link = cl[d].link /\ cl'[d].pc = cl[d].pc
                                  /\ d # c => cl'[d] = cl[d]
        BY <2>3, <3>1 DEF Types, ClientLocals, WorkerLocals
      <3>4. cl[c].pc \in {"send", "receive"}
        BY <3>2, Apart DEF Linked
      <3>5. Linked'
        BY <1>7, <3>3, <3>4 DEF WriteFile, Linked
      <3>6. QED
        BY <1>7, <2>1, <3>3, <3>5 DEF WriteFile, Types
    <2>4. QED
      BY <1>7, <2>2, <2>3 DEF WriteFile
  <1>8. CASE FlushFileBuffers
    <2>1. worker' \in WorkerLocals /\ worker'.pc # "handler"
      BY <1>0, <1>8 DEF FlushFileBuffers, Serving
    <2>2. QED
      BY <1>8, <2>1 DEF FlushFileBuffers, Types, Linked
  <1>9. CASE Disconnect
    <2>1. worker' \in WorkerLocals /\ worker'.pc # "handler"
      BY <1>0, <1>9 DEF Disconnect, Serving
    <2>2. QED
      BY <1>9, <2>1, DisconnectFacts DEF Disconnect, Types
  <1>10. CASE Close
    <2>1. worker' \in WorkerLocals /\ worker'.pc # "handler"
      BY <1>0, <1>10 DEF Close, Serving
    <2>2. QED
      BY <1>10, <2>1, CloseFacts DEF Close, Types
  <1>11. CASE Clear
    <2>1. worker' \in WorkerLocals /\ worker'.pc # "handler"
      BY <1>0, <1>11 DEF Clear
    <2>2. QED
      BY <1>11, <2>1 DEF Clear, Types, Linked, HandleOrNone
  <1>12. QED
    BY <1>1, <1>2, <1>3, <1>4, <1>5, <1>6, <1>7, <1>8, <1>9, <1>10, <1>11 DEF Worker

\* The owner's steps keep types and links; only StopClose touches a connection.
LEMMA OwnerTypes ==
  ASSUME Types, Linked, Owner \/ \E what \in {"Start", "Stop"} : Call(what)
  PROVE  Types' /\ Linked'
  <1>0. ASSUME UNCHANGED <<table, cl, result, approved>>, isRunning' \in BOOLEAN,
               hPipe' \in HandleOrNone, owner' \in OwnerLocals, worker' \in WorkerLocals,
               worker' = worker \/ worker'.pc # "handler"
        PROVE  Types' /\ Linked'
    BY <1>0 DEF Types, Linked
  <1>1. ASSUME NEW what \in {"Start", "Stop"}, Call(what)
        PROVE  Types' /\ Linked'
    <2>1. owner' \in OwnerLocals
      BY <1>1 DEF Call, Types, OwnerLocals
    <2>2. QED
      BY <1>0, <1>1, <2>1 DEF Call, Types
  <1>2. CASE StopFlag
    <2>1. owner' \in OwnerLocals
      BY <1>2 DEF StopFlag, OwnerAt, Types, OwnerLocals
    <2>2. QED
      BY <1>0, <1>2, <2>1 DEF StopFlag, Types
  <1>3. CASE StopTest
    <2>1. owner' \in OwnerLocals
      BY <1>3 DEF StopTest, Types, OwnerLocals
    <2>2. QED
      BY <1>0, <1>3, <2>1 DEF StopTest, Types
  <1>4. CASE StopClose
    <2>1. PICK h \in HandleOrNone : CloseHandle(h)
      BY <1>4 DEF StopClose, Types, OwnerLocals
    <2>2. owner' \in OwnerLocals
      BY <1>4 DEF StopClose, OwnerAt, Types, OwnerLocals
    <2>3. QED
      BY <1>4, <2>1, <2>2, CloseFacts DEF StopClose, Types
  <1>5. CASE StopClear
    <2>1. owner' \in OwnerLocals
      BY <1>5 DEF StopClear, OwnerAt, Types, OwnerLocals
    <2>2. QED
      BY <1>0, <1>5, <2>1 DEF StopClear, Types, HandleOrNone
  <1>6. CASE Join
    <2>1. worker' \in WorkerLocals /\ (worker' = worker \/ worker'.pc # "handler")
      <3>1. CASE owner.call = "Start"
        BY <1>6, <3>1, AtRestType DEF Join
      <3>2. CASE owner.call # "Start"
        BY <1>6, <3>2 DEF Join, Types
      <3>3. QED
        BY <3>1, <3>2
    <2>2. owner' \in OwnerLocals /\ isRunning' \in BOOLEAN
      BY <1>6 DEF Join, Types, OwnerLocals, HandleOrNone
    <2>3. QED
      BY <1>0, <1>6, <2>1, <2>2 DEF Join, Types
  <1>7. QED
    BY <1>1, <1>2, <1>3, <1>4, <1>5, <1>6 DEF Owner

\* A call that returns hangs up and sets its own result, nothing else.
LEMMA ReturnFacts ==
  ASSUME Types, NEW c \in Clients, NEW ipcOk, NEW resp, Return(c, ipcOk, resp)
  PROVE  /\ Hangup(c)
         /\ result' \in [Clients -> {"none", "NO_CREDENTIAL", "CREDENTIAL", "E_OUTOFMEMORY"}]
         /\ \A d \in Clients : d # c => result'[d] = result[d]
         /\ result'[c] = "CREDENTIAL" => ipcOk /\ resp.statusCode = 0 /\ resp.payload # 0
  BY DEF Return, Outcome, Types

\* A step of a client concerns its own end only; whatever it does, the worker
\* and the owner are where they were.
LEMMA ClientSteps ==
  ASSUME Types, NEW c \in Clients, ClientRuns(c)
  PROVE  /\ UNCHANGED <<server, approved>>
         /\ \/ /\ UNCHANGED <<table, result>>
               /\ cl[c].pc \in {"wait", "send"}
               /\ \/ cl' = [cl EXCEPT ![c].pc = "open"] /\ cl[c].pc = "wait"
                  \/ cl' = [cl EXCEPT ![c].pc = "receive", ![c].sent = TRUE] /\ cl[c].pc = "send"
            \/ /\ cl[c].pc = "open" /\ UNCHANGED result
               /\ \E h \in Listening : /\ table' = [table EXCEPT ![h] = c]
                                       /\ cl' = [cl EXCEPT ![c].pc = "send", ![c].link = h]
            \/ /\ cl[c].inbox # None
               /\ Return(c, cl[c].inbox[1].payload <= MaxPayload, cl[c].inbox[1])
            \/ Return(c, FALSE, Unset)
  BY DEF ClientRuns, Wait, Open, Send, Receive

\* A client's steps keep types and links: both ends are set together when it
\* opens the pipe and given up together when its call ends.
LEMMA ClientTypes ==
  ASSUME Types, Linked, NEW c \in Clients, GetSerialization(c) \/ ClientRuns(c) \/ ClientDies(c)
  PROVE  Types' /\ Linked'
  <1>0. ASSUME Hangup(c), UNCHANGED <<server, approved>>,
               result' \in [Clients -> {"none", "NO_CREDENTIAL", "CREDENTIAL", "E_OUTOFMEMORY"}]
        PROVE  Types' /\ Linked'
    BY <1>0, HangupFacts DEF Types, server
  <1>1. CASE GetSerialization(c)
    <2>1. /\ cl' \in [Clients -> ClientLocals]
          /\ \A d \in Clients : cl'[d].link = cl[d].link /\ cl'[d].inbox = cl[d].inbox
          /\ \A d \in Clients : d # c => cl'[d] = cl[d]
          /\ cl[c].pc = "idle"
      BY <1>1 DEF GetSerialization, Types, ClientLocals
    <2>2. result' \in [Clients -> {"none", "NO_CREDENTIAL", "CREDENTIAL", "E_OUTOFMEMORY"}]
      BY <1>1 DEF GetSerialization, Types
    <2>3. Linked'
      BY <1>1, <2>1 DEF GetSerialization, Linked
    <2>4. QED
      BY <1>1, <2>1, <2>2, <2>3 DEF GetSerialization, Types, server
  <1>2. CASE ClientDies(c)
    BY <1>0, <1>2 DEF ClientDies, Types
  <1>3. CASE ClientRuns(c)
    <2>1. UNCHANGED <<server, approved>>
      BY <1>3, ClientSteps
    <2>2. CASE UNCHANGED <<table, result>>
               /\ \/ cl' = [cl EXCEPT ![c].pc = "open"] /\ cl[c].pc = "wait"
                  \/ cl' = [cl EXCEPT ![c].pc = "receive", ![c].sent = TRUE] /\ cl[c].pc = "send"
      <3>1. /\ cl' \in [Clients -> ClientLocals]
            /\ \A d \in Clients : cl'[d].link = cl[d].link /\ cl'[d].inbox = cl[d].inbox
            /\ \A d \in Clients : d # c => cl'[d] = cl[d]
            /\ cl'[c].pc = "receive" \/ (cl'[c].pc = "open" /\ cl[c].pc = "wait")
        BY <2>2 DEF Types, ClientLocals
      <3>2. Linked'
        BY <2>2, <3>1 DEF Linked
      <3>3. QED
        BY <2>1, <2>2, <3>1, <3>2 DEF Types, server
    <2>3. ASSUME UNCHANGED result, NEW h \in Listening, cl[c].pc = "open",
                 table' = [table EXCEPT ![h] = c],
                 cl' = [cl EXCEPT ![c].pc = "send", ![c].link = h]
          PROVE  Types' /\ Linked'
      <3>1. h \in Handles /\ table[h] = "listening"
        BY <2>3 DEF Listening
      <3>2. /\ cl' \in [Clients -> ClientLocals]
            /\ cl'[c].pc = "send" /\ cl'[c].link = h
            /\ \A d \in Clients : d # c => cl'[d] = cl[d]
        BY <2>3, <3>1 DEF Types, ClientLocals, HandleOrNone
      <3>3. /\ table' \in [Handles -> Clients \cup {"free", "listening", "broken", "unread"}]
            /\ \A x \in Handles : table'[x] = IF x = h THEN c ELSE table[x]
        BY <2>3, <3>1 DEF Types
      <3>4. cl[c].link = INVALID_HANDLE_VALUE
        BY <2>3 DEF Linked
      <3>5. Linked'
        BY <3>1, <3>2, <3>3, <3>4, Apart DEF Linked
      <3>6. QED
        BY <2>1, <2>3, <3>2, <3>3, <3>5 DEF Types, server
    <2>4. ASSUME NEW ipcOk, NEW resp, Return(c, ipcOk, resp)
          PROVE  Types' /\ Linked'
      BY <1>0, <2>1, <2>4, ReturnFacts
    <2>5. QED
      BY <1>3, <2>2, <2>3, <2>4, ClientSteps
  <1>4. QED
    BY <1>1, <1>2, <1>3

\* The handler's answer is a packet, for the request that ReadFile took.
LEMMA HandlerTypes ==
  ASSUME Types, Linked, Handler
  PROVE  Types' /\ Linked'
  <1>1. PICK resp \in IpcPacket :
          /\ worker' = [AtRest EXCEPT !.pc = "write", !.resp = <<resp>>]
          /\ approved' = IF resp.statusCode = 0 /\ resp.payload > 0
                         THEN approved \cup ({worker.req} \ {None}) ELSE approved
    BY DEF Handler
  <1>2. worker' \in WorkerLocals /\ worker'.pc = "write"
    BY <1>1 DEF AtRest, WorkerLocals, Serving, HandleOrNone, Packets
  <1>3. worker.req \in {None} \cup (Clients \X Nat)
    BY DEF Handler, Types, WorkerLocals
  <1>4. QED
    BY <1>1, <1>2, <1>3 DEF Handler, Types, Linked

\* Every step keeps types and links.
LEMMA NextTypes == Types /\ Linked /\ [Next]_vars => Types' /\ Linked'
  <1> SUFFICES ASSUME Types, Linked, [Next]_vars PROVE Types' /\ Linked'
    OBVIOUS
  <1>1. CASE UNCHANGED vars
    BY <1>1 DEF vars, Types, Linked
  <1>2. QED
    BY <1>1, WorkerTypes, OwnerTypes, ClientTypes, HandlerTypes DEF Next

\* A server that was not started and idle tiles have types and links.
LEMMA InitTypes == Init => Types /\ Linked
  <1> SUFFICES ASSUME Init PROVE Types /\ Linked
    OBVIOUS
  <1>1. owner \in OwnerLocals /\ hPipe \in HandleOrNone
    BY DEF Init, OwnerLocals, HandleOrNone
  <1>2. worker \in WorkerLocals /\ worker.pc # "handler"
    BY AtRestType DEF Init
  <1>3. /\ cl \in [Clients -> ClientLocals]
        /\ \A c \in Clients : cl[c].link = INVALID_HANDLE_VALUE /\ cl[c].inbox = None
    BY DEF Init, ClientLocals, HandleOrNone, Packets
  <1>4. Linked
    BY <1>3, Apart DEF Init, Linked
  <1>5. QED
    BY <1>1, <1>2, <1>3, <1>4 DEF Init, Types

\* Members, locals and handles have their types, and a client's end belongs to
\* an instance that is this client's.
THEOREM PipeTypeCorrect == Spec => []TypeOK
  <1>1. Types /\ Linked => TypeOK
    BY DEF Types, Linked, TypeOK, OwnerLocals, WorkerLocals, ClientLocals, HandleOrNone, Serving
  <1>2. QED
    BY <1>1, InitTypes, NextTypes, PTL DEF Spec

-----------------------------------------------------------------------------
\* One pipe, owned by m_hPipe

PipeInv == PipeOwned /\ StopMeetsWorker /\ DanglesOnlyInWindow

\* A step that neither makes nor frees an instance, leaves m_hPipe and the
\* owner alone, and takes the worker from a serving position to one, keeps
\* the pipe owned; so does a step of the clients or of the handler.
LEMMA SameInstances ==
  ASSUME Types, PipeInv, Types',
         UNCHANGED <<isRunning, hPipe, owner>>,
         \A h \in Handles : table'[h] = "free" <=> table[h] = "free",
         worker.pc \in Serving => worker'.pc \in Serving,
         worker'.pc = "create" => worker.pc = "create",
         worker'.pc = "clear" <=> worker.pc = "clear"
  PROVE  PipeInv'
  <1>1. \A h : Ours(h)' <=> Ours(h)
    BY DEF Ours, Refers
  <1>2. (\A h \in Handles : ~Ours(h))' <=> \A h \in Handles : ~Ours(h)
    BY <1>1
  <1>3. PipeOwned'
    BY <1>1 DEF PipeInv, PipeOwned
  <1>4. StopMeetsWorker'
    BY <1>1 DEF PipeInv, StopMeetsWorker
  <1>5. DanglesOnlyInWindow'
    <2>1. Ours(hPipe)' <=> Ours(hPipe)
      BY DEF Ours, Refers
    <2>2. QED
      BY <2>1 DEF PipeInv, DanglesOnlyInWindow
  <1>6. QED
    BY <1>3, <1>4, <1>5 DEF PipeInv

\* The worker makes an instance only when there is none, and closes the one
\* there is before it lets m_hPipe go.
LEMMA WorkerPipe ==
  ASSUME Types, Linked, PipeInv, Types', Worker
  PROVE  PipeInv'
  <1>0. ASSUME NEW label, WorkerAt(label)
        PROVE  worker'.pc = label
    BY <1>0 DEF WorkerAt, AtRest
  <1>1. CASE Loop
    <2>1. worker.pc = "loop" /\ worker'.pc \in {"none", "create"}
      BY <1>0, <1>1 DEF Loop, AtRest
    <2>2. worker'.pc = "create" => isRunning
      BY <1>0, <1>1 DEF Loop, AtRest
    <2>3. UNCHANGED <<isRunning, hPipe, owner, table>>
      BY <1>1 DEF Loop
    <2>4. hPipe = INVALID_HANDLE_VALUE
      BY <2>1 DEF PipeInv, PipeOwned, Serving
    <2>5. \A h : Ours(h)' <=> Ours(h)
      BY <2>3 DEF Ours, Refers
    <2>6. PipeOwned' /\ DanglesOnlyInWindow'
      BY <2>3, <2>4, <2>5 DEF PipeInv, PipeOwned, DanglesOnlyInWindow
    <2>7. StopMeetsWorker'
      BY <2>1, <2>2, <2>3, <2>5 DEF PipeInv, StopMeetsWorker
    <2>8. QED
      BY <2>6, <2>7 DEF PipeInv
  <1>2. CASE CreateNamedPipe
    <2>1. worker.pc = "create" /\ worker'.pc = "check" /\ UNCHANGED <<isRunning, owner>>
      BY <1>0, <1>2 DEF CreateNamedPipe
    <2>2. hPipe = INVALID_HANDLE_VALUE
      BY <2>1 DEF PipeInv, PipeOwned, Serving
    <2>3. \A h \in Handles : table[h] = "free"
      BY <2>2, Apart DEF PipeInv, PipeOwned, Ours, Refers
    <2>4. owner.pc \notin {"close", "clear"}
      BY <2>1 DEF PipeInv, StopMeetsWorker
    <2>5. StopMeetsWorker'
      BY <2>1, <2>4 DEF PipeInv, StopMeetsWorker
    <2>6. CASE hPipe' = INVALID_HANDLE_VALUE /\ UNCHANGED table
      BY <2>3, <2>5, <2>6 DEF PipeInv, PipeOwned, DanglesOnlyInWindow, Ours, Refers
    <2>7. CASE Created
      <3>1. PICK h \in Handles : table' = [table EXCEPT ![h] = "listening"] /\ hPipe' = h
        BY <2>7 DEF Created
      <3>2. \A x \in Handles : table'[x] = IF x = h THEN "listening" ELSE "free"
        BY <2>3, <3>1 DEF Types
      <3>3. PipeOwned' /\ DanglesOnlyInWindow'
        BY <2>1, <3>1, <3>2 DEF PipeOwned, DanglesOnlyInWindow, Ours, Refers, Serving
      <3>4. QED
        BY <2>5, <3>3 DEF PipeInv
    <2>8. QED
      BY <1>2, <2>6, <2>7 DEF CreateNamedPipe
  <1>3. CASE CheckCreated
    <2>1. /\ worker.pc = "check" /\ worker'.pc \in {"loop", "callConnect"}
          /\ worker'.pc = "loop" => hPipe = INVALID_HANDLE_VALUE
          /\ UNCHANGED <<isRunning, hPipe, owner, table>>
      BY <1>0, <1>3 DEF CheckCreated
    <2>2. \A h : Ours(h)' <=> Ours(h)
      BY <2>1 DEF Ours, Refers
    <2>3. PipeOwned' /\ DanglesOnlyInWindow'
      BY <2>1, <2>2 DEF PipeInv, PipeOwned, DanglesOnlyInWindow, Serving
    <2>4. StopMeetsWorker'
      BY <2>1, <2>2 DEF PipeInv, StopMeetsWorker
    <2>5. QED
      BY <2>3, <2>4 DEF PipeInv
  <1>4. CASE CallPipe \/ ConnectNamedPipe \/ ReadFile \/ WriteFile \/ FlushFileBuffers
    <2>1. UNCHANGED <<isRunning, hPipe, owner, table>>
      BY <1>4 DEF CallPipe, ConnectNamedPipe, ReadFile, WriteFile, FlushFileBuffers
    <2>2. /\ worker'.pc \in {"connect", "read", "flush", "callRead", "handler", "callFlush",
                             "disconnect"}
          /\ worker.pc # "clear"
      <3>1. CASE CallPipe
        <4>1. PICK label \in {"connect", "read", "flush"} :
                worker' = [worker EXCEPT !.pc = label, !.h = hPipe]
          BY <3>1, WaitsFacts DEF CallPipe
        <4>2. QED
          BY <3>1, <4>1, WaitsFacts DEF CallPipe, Types, WorkerLocals
      <3>2. CASE ReadFile
        BY <1>0, <3>2 DEF ReadFile, AtRest
      <3>3. CASE ConnectNamedPipe \/ WriteFile \/ FlushFileBuffers
        BY <1>0, <3>3 DEF ConnectNamedPipe, WriteFile, FlushFileBuffers
      <3>4. QED
        BY <1>4, <3>1, <3>2, <3>3
    <2>3. QED
      BY <2>1, <2>2, SameInstances DEF Serving
  <1>5. CASE Disconnect
    <2>1. /\ worker.pc = "disconnect" /\ worker'.pc = "close"
          /\ UNCHANGED <<isRunning, hPipe, owner>> /\ DisconnectNamedPipe(hPipe)
      BY <1>0, <1>5 DEF Disconnect
    <2>2. \A h \in Handles : table'[h] = "free" <=> table[h] = "free"
      BY <2>1, DisconnectFacts, Apart DEF Types
    <2>3. QED
      BY <2>1, <2>2, SameInstances DEF Serving
  <1>6. CASE Close
    <2>1. /\ worker.pc = "close" /\ worker'.pc = "clear"
          /\ UNCHANGED <<isRunning, hPipe, owner>> /\ CloseHandle(hPipe)
      BY <1>0, <1>6 DEF Close
    <2>2. \A h \in Handles : table'[h] = IF h = hPipe THEN "free" ELSE table[h]
      BY <2>1, CloseFacts DEF Types
    <2>3. \A h \in Handles : table'[h] = "free"
      BY <2>2 DEF PipeInv, PipeOwned, Ours, Refers
    <2>4. QED
      BY <2>1, <2>3
         DEF PipeInv, PipeOwned, StopMeetsWorker, DanglesOnlyInWindow, Ours, Refers, Serving
  <1>7. CASE Clear
    <2>1. /\ worker.pc = "clear" /\ worker'.pc = "loop" /\ hPipe' = INVALID_HANDLE_VALUE
          /\ UNCHANGED <<isRunning, owner, table>>
      BY <1>0, <1>7 DEF Clear
    <2>2. \A h \in Handles : table'[h] = "free"
      BY <2>1 DEF PipeInv, StopMeetsWorker, Ours, Refers
    <2>3. QED
      BY <2>1, <2>2
         DEF PipeInv, PipeOwned, StopMeetsWorker, DanglesOnlyInWindow, Ours, Refers
  <1>8. QED
    BY <1>1, <1>2, <1>3, <1>4, <1>5, <1>6, <1>7 DEF Worker

\* What Stop closes is the pipe there is, if there is one, and what it resets
\* is m_hPipe of a pipe that is closed.
LEMMA OwnerPipe ==
  ASSUME Types, Linked, PipeInv, Types', Owner \/ \E what \in {"Start", "Stop"} : Call(what)
  PROVE  PipeInv'
  <1>0. ASSUME UNCHANGED <<hPipe, table>>, owner'.pc # "clear", owner.pc # "clear",
               worker' = worker \/ (worker.pc = "none" /\ worker'.pc = "loop"),
               StopMeetsWorker'
        PROVE  PipeInv'
    <2>1. \A h : Ours(h)' <=> Ours(h)
      BY <1>0 DEF Ours, Refers
    <2>2. PipeOwned'
      BY <1>0, <2>1 DEF PipeInv, PipeOwned, Serving
    <2>3. DanglesOnlyInWindow'
      <3>1. Ours(hPipe)' <=> Ours(hPipe)
        BY <1>0 DEF Ours, Refers
      <3>2. QED
        BY <1>0, <3>1 DEF PipeInv, PipeOwned, DanglesOnlyInWindow, Serving
    <2>4. QED
      BY <1>0, <2>2, <2>3 DEF PipeInv
  <1>1. ASSUME NEW what \in {"Start", "Stop"}, Call(what)
        PROVE  PipeInv'
    <2>1. owner.pc = "idle" /\ owner'.pc = "flag" /\ UNCHANGED <<hPipe, table, worker>>
      BY <1>1 DEF Call, Types, OwnerLocals
    <2>2. StopMeetsWorker'
      BY <2>1 DEF PipeInv, StopMeetsWorker, Ours, Refers
    <2>3. QED
      BY <1>0, <2>1, <2>2
  <1>2. CASE StopFlag
    <2>1. /\ owner.pc = "flag" /\ owner'.pc = "test" /\ ~isRunning'
          /\ UNCHANGED <<hPipe, table, worker>>
      BY <1>2 DEF StopFlag, OwnerAt, Types, OwnerLocals
    <2>2. StopMeetsWorker'
      BY <2>1 DEF PipeInv, StopMeetsWorker, Ours, Refers
    <2>3. QED
      BY <1>0, <2>1, <2>2
  <1>3. CASE StopTest
    <2>1. /\ owner.pc = "test" /\ owner'.pc \in {"join", "close"} /\ owner'.h = hPipe
          /\ owner'.pc = "close" => hPipe # INVALID_HANDLE_VALUE
          /\ UNCHANGED <<isRunning, hPipe, table, worker>>
      BY <1>3 DEF StopTest, Types, OwnerLocals
    <2>2. StopMeetsWorker'
      BY <2>1 DEF PipeInv, PipeOwned, StopMeetsWorker, Ours, Refers, Serving
    <2>3. QED
      BY <1>0, <2>1, <2>2
  <1>4. CASE StopClose
    <2>1. PICK h \in {owner.h, hPipe} : CloseHandle(h)
      BY <1>4 DEF StopClose
    <2>2. /\ owner.pc = "close" /\ owner'.pc = "clear" /\ owner'.h = owner.h
          /\ UNCHANGED <<isRunning, hPipe, worker>>
      BY <1>4 DEF StopClose, OwnerAt, Types, OwnerLocals
    <2>3. \A x \in Handles : table'[x] = IF x = h THEN "free" ELSE table[x]
      BY <2>1, CloseFacts DEF Types, OwnerLocals
    <2>4. \A x \in Handles : table'[x] = "free"
      BY <2>1, <2>2, <2>3, Apart DEF PipeInv, PipeOwned, StopMeetsWorker, Ours, Refers
    <2>5. QED
      BY <2>2, <2>4
         DEF PipeInv, PipeOwned, StopMeetsWorker, DanglesOnlyInWindow, Ours, Refers
  <1>5. CASE StopClear
    <2>1. /\ owner.pc = "clear" /\ owner'.pc = "join" /\ hPipe' = INVALID_HANDLE_VALUE
          /\ UNCHANGED <<isRunning, table, worker>>
      BY <1>5 DEF StopClear, OwnerAt, Types, OwnerLocals
    <2>2. \A x \in Handles : table'[x] = "free"
      BY <2>1 DEF PipeInv, StopMeetsWorker, Ours, Refers
    <2>3. QED
      BY <2>1, <2>2
         DEF PipeInv, PipeOwned, StopMeetsWorker, DanglesOnlyInWindow, Ours, Refers
  <1>6. CASE Join
    <2>1. /\ owner.pc = "join" /\ owner'.pc = "idle" /\ UNCHANGED <<hPipe, table>>
          /\ worker' = worker \/ (worker.pc = "none" /\ worker'.pc = "loop")
      BY <1>6 DEF Join, AtRest
    <2>2. worker'.pc # "clear"
      BY <1>6 DEF Join, AtRest
    <2>3. StopMeetsWorker'
      BY <2>1, <2>2 DEF StopMeetsWorker
    <2>4. QED
      BY <1>0, <2>1, <2>3
  <1>7. QED
    BY <1>1, <1>2, <1>3, <1>4, <1>5, <1>6 DEF Owner

\* A client takes an instance or breaks one; it never makes or frees one.
LEMMA ClientInstances ==
  ASSUME Types, Linked, NEW c \in Clients, GetSerialization(c) \/ ClientRuns(c) \/ ClientDies(c)
  PROVE  /\ UNCHANGED <<isRunning, hPipe, owner, worker>>
         /\ \A h \in Handles : table'[h] = "free" <=> table[h] = "free"
  <1>0. ASSUME Hangup(c)
        PROVE  \A h \in Handles : table'[h] = "free" <=> table[h] = "free"
    BY <1>0, HangupFacts, Apart
  <1>1. CASE GetSerialization(c)
    BY <1>1 DEF GetSerialization, server
  <1>2. CASE ClientDies(c)
    BY <1>0, <1>2 DEF ClientDies, server
  <1>3. CASE ClientRuns(c)
    <2>1. UNCHANGED <<isRunning, hPipe, owner, worker>>
      BY <1>3, ClientSteps DEF server
    <2>2. CASE UNCHANGED table
      BY <2>1, <2>2
    <2>3. CASE \E h \in Listening : table' = [table EXCEPT ![h] = c]
      BY <2>1, <2>3, Apart DEF Listening, Types
    <2>4. ASSUME NEW ipcOk, NEW resp, Return(c, ipcOk, resp)
          PROVE  \A h \in Handles : table'[h] = "free" <=> table[h] = "free"
      BY <1>0, <2>4, ReturnFacts
    <2>5. QED
      BY <1>3, <2>1, <2>2, <2>3, <2>4, ClientSteps
  <1>4. QED
    BY <1>1, <1>2, <1>3

\* Every step keeps the pipe owned.
LEMMA NextPipe == Types /\ Linked /\ PipeInv /\ [Next]_vars => PipeInv'
  <1> SUFFICES ASSUME Types, Linked, PipeInv, [Next]_vars PROVE PipeInv'
    OBVIOUS
  <1>0. Types'
    BY NextTypes
  <1>1. CASE UNCHANGED vars
    BY <1>0, <1>1, SameInstances DEF vars
  <1>2. CASE Handler
    <2>1. /\ worker.pc = "handler" /\ worker'.pc = "write"
          /\ UNCHANGED <<isRunning, hPipe, owner, table>>
      BY <1>2 DEF Handler, AtRest
    <2>2. QED
      BY <1>0, <2>1, SameInstances DEF Serving
  <1>3. ASSUME NEW c \in Clients, GetSerialization(c) \/ ClientRuns(c) \/ ClientDies(c)
        PROVE  PipeInv'
    BY <1>0, <1>3, ClientInstances, SameInstances
  <1>4. QED
    BY <1>0, <1>1, <1>2, <1>3, WorkerPipe, OwnerPipe DEF Next

\* There is no pipe at first.
LEMMA InitPipe == Init => PipeInv
  BY DEF Init, PipeInv, PipeOwned, StopMeetsWorker, DanglesOnlyInWindow, Ours, Refers, AtRest

\* No pipe instance is orphaned, whichever way Stop and the worker meet, with
\* m_hPipe shared and unlocked: an open instance is m_hPipe's, and m_hPipe is
\* set only while the worker serves it.
THEOREM PipeOwnedAlways == Spec => []PipeOwned
  <1>1. PipeInv => PipeOwned
    BY DEF PipeInv
  <1>2. QED
    BY <1>1, InitTypes, NextTypes, InitPipe, NextPipe, PTL DEF Spec

\* m_hPipe names a closed handle only between a CloseHandle and the reset that
\* follows it, in Stop or in the worker.
THEOREM DanglesOnlyInWindowAlways == Spec => []DanglesOnlyInWindow
  <1>1. PipeInv => DanglesOnlyInWindow
    BY DEF PipeInv
  <1>2. QED
    BY <1>1, InitTypes, NextTypes, InitPipe, NextPipe, PTL DEF Spec

-----------------------------------------------------------------------------
\* A credential is for the call it was approved for

CredInv == SameCall /\ AnswersApproved /\ FailsClosed

\* The positions of the worker from which an instance may still listen.
Before == {"check", "callConnect", "connect"}

\* A step after which instances have their clients or have lost them, no
\* client is in another call or has a new answer, and the worker is not given
\* a request or an answer to it.
LEMMA SameAnswers ==
  ASSUME Types, CredInv, Types',
         hPipe' \in {hPipe, INVALID_HANDLE_VALUE},
         \A h \in Handles : table'[h] \in {table[h], "free", "broken"},
         \A c \in Clients : /\ cl'[c].call = cl[c].call
                            /\ cl'[c].inbox \in {cl[c].inbox, None},
         UNCHANGED <<result, approved>>,
         worker' = worker \/ worker'.pc \notin {"handler", "write"},
         worker'.pc = "connect" => hPipe' \in {worker'.h, INVALID_HANDLE_VALUE},
         worker'.pc \notin Before => \A h \in Handles : table'[h] # "listening"
  PROVE  CredInv'
  <1>1. \A c \in Clients : Refers(hPipe)' = c => Refers(hPipe) = c
    BY Apart DEF Refers
  <1>2. SameCall'
    BY <1>1 DEF CredInv, SameCall, Before
  <1>3. AnswersApproved'
    BY DEF CredInv, AnswersApproved
  <1>4. FailsClosed'
    BY DEF CredInv, FailsClosed
  <1>5. QED
    BY <1>2, <1>3, <1>4 DEF CredInv

\* The owner's steps concern no answer.
LEMMA OwnerAnswers ==
  ASSUME Types, Linked, PipeInv, CredInv, Types',
         Owner \/ \E what \in {"Start", "Stop"} : Call(what)
  PROVE  CredInv'
  <1>1. CASE StopClose
    <2>1. PICK h \in {owner.h, hPipe} : CloseHandle(h)
      BY <1>1 DEF StopClose
    <2>2. /\ \A x \in Handles : table'[x] = IF x = h THEN "free" ELSE table[x]
          /\ \A c \in Clients : cl'[c].call = cl[c].call /\ cl'[c].inbox = cl[c].inbox
      BY <2>1, CloseFacts DEF Types, OwnerLocals
    <2>3. UNCHANGED <<hPipe, worker, result, approved>>
      BY <1>1 DEF StopClose
    <2>4. worker.pc \notin Before => \A x \in Handles : table'[x] # "listening"
      BY <2>2 DEF CredInv, SameCall, Before
    <2>5. QED
      BY <2>2, <2>3, <2>4, SameAnswers DEF CredInv, SameCall
  <1>2. CASE Join
    <2>1. /\ UNCHANGED <<hPipe, table, cl, result, approved>> /\ worker.pc = "none"
          /\ worker'.pc \in {"none", "loop"}
      BY <1>2 DEF Join, AtRest
    <2>2. \A h \in Handles : table'[h] # "listening"
      BY <2>1 DEF CredInv, SameCall
    <2>3. QED
      BY <2>1, <2>2, SameAnswers
  <1>3. CASE \/ StopFlag \/ StopTest \/ StopClear \/ \E what \in {"Start", "Stop"} : Call(what)
    <2>1. /\ UNCHANGED <<worker, table, cl, result, approved>>
          /\ hPipe' \in {hPipe, INVALID_HANDLE_VALUE}
      BY <1>3 DEF StopFlag, StopTest, StopClear, Call
    <2>2. QED
      BY <2>1, SameAnswers DEF CredInv, SameCall, Before
  <1>4. QED
    BY <1>1, <1>2, <1>3 DEF Owner

\* The worker hands its answer to the client the request came from: ReadFile
\* took it from the one instance there is, nobody else can have connected to
\* that one since, and a client that is still on it is in the same call.
LEMMA WorkerAnswers ==
  ASSUME Types, Linked, PipeInv, CredInv, Types', Worker
  PROVE  CredInv'
  <1>0. ASSUME NEW label, WorkerAt(label)
        PROVE  worker'.pc = label
    BY <1>0 DEF WorkerAt, AtRest
  <1>1. CASE Loop
    <2>1. worker.pc = "loop" /\ worker'.pc \in {"none", "create"}
      BY <1>0, <1>1 DEF Loop, AtRest
    <2>2. UNCHANGED <<hPipe, table, cl, result, approved>>
      BY <1>1 DEF Loop
    <2>3. \A h \in Handles : table'[h] # "listening"
      BY <2>1, <2>2 DEF CredInv, SameCall
    <2>4. QED
      BY <2>1, <2>2, <2>3, SameAnswers
  <1>2. CASE CreateNamedPipe
    <2>1. worker'.pc = "check" /\ UNCHANGED <<cl, result, approved>>
      BY <1>0, <1>2 DEF CreateNamedPipe
    <2>2. QED
      BY <2>1 DEF CredInv, SameCall, AnswersApproved, FailsClosed
  <1>3. CASE CheckCreated
    <2>1. /\ worker'.pc \in {"loop", "callConnect"}
          /\ worker'.pc = "loop" => hPipe = INVALID_HANDLE_VALUE
          /\ UNCHANGED <<hPipe, table, cl, result, approved>>
      BY <1>0, <1>3 DEF CheckCreated
    <2>2. worker'.pc = "loop" => \A h \in Handles : table'[h] # "listening"
      BY <2>1, Apart DEF PipeInv, PipeOwned, Ours, Refers
    <2>3. QED
      BY <2>1, <2>2, SameAnswers DEF Before
  <1>4. CASE CallPipe
    <2>1. PICK label \in {"connect", "read", "flush"} :
            /\ worker' = [worker EXCEPT !.pc = label, !.h = hPipe]
            /\ label = "connect" \/ worker.pc \in {"callRead", "callFlush"}
      BY <1>4, WaitsFacts DEF CallPipe
    <2>2. worker'.pc = label /\ worker'.h = hPipe
      BY <2>1 DEF Types, WorkerLocals
    <2>3. UNCHANGED <<hPipe, table, cl, result, approved>>
      BY <1>4 DEF CallPipe
    <2>4. worker'.pc \notin Before => \A h \in Handles : table'[h] # "listening"
      BY <2>1, <2>2, <2>3 DEF CredInv, SameCall, Before
    <2>5. QED
      BY <2>2, <2>3, <2>4, SameAnswers
  <1>5. CASE ConnectNamedPipe
    <2>1. /\ worker.pc = "connect" /\ Refers(worker.h) # "listening"
          /\ worker'.pc \in {"callRead", "disconnect"}
          /\ UNCHANGED <<hPipe, table, cl, result, approved>>
      BY <1>0, <1>5 DEF ConnectNamedPipe
    <2>2. \A h \in Handles : table'[h] # "listening"
      <3>1. SUFFICES ASSUME NEW h \in Handles, table[h] = "listening" PROVE FALSE
        BY <2>1
      <3>2. hPipe = h
        BY <3>1 DEF PipeInv, PipeOwned, Ours, Refers
      <3>3. worker.h = h
        BY <2>1, <3>2, Apart DEF CredInv, SameCall
      <3>4. QED
        BY <2>1, <3>1, <3>3 DEF Refers
    <2>3. QED
      BY <2>1, <2>2, SameAnswers
  <1>6. CASE ReadFile
    <2>1. worker.pc = "read" /\ UNCHANGED <<hPipe, table, cl, result, approved>>
      BY <1>6 DEF ReadFile
    <2>2. \A h \in Handles : table'[h] # "listening"
      BY <2>1 DEF CredInv, SameCall
    <2>3. CASE worker'.pc = "disconnect"
      BY <2>1, <2>2, <2>3, SameAnswers
    <2>6. CASE Refers(worker.h) = "unread" /\ WorkerAt("handler")
      <3>1. worker.h \in Handles /\ table[worker.h] = "unread"
        BY <2>6 DEF Refers
      <3>2. hPipe = worker.h
        BY <3>1 DEF PipeInv, PipeOwned, Ours, Refers
      <3>3. worker'.pc = "handler" /\ \A c \in Clients : Refers(hPipe)' # c
        BY <1>0, <2>1, <2>6, <3>1, <3>2, Apart DEF Refers, Serving
      <3>4. SameCall'
        BY <2>1, <2>2, <3>3 DEF SameCall
      <3>5. QED
        BY <2>1, <3>4 DEF CredInv, AnswersApproved, FailsClosed
    <2>4. ASSUME NEW from \in Clients, from = Refers(worker.h),
                 worker' = [AtRest EXCEPT !.pc = "handler", !.req = <<from, cl[from].call>>]
          PROVE  CredInv'
      <3>1. worker.h \in Handles /\ table[worker.h] = from
        BY <2>4, Apart DEF Refers
      <3>2. hPipe = worker.h
        BY <3>1, Apart DEF PipeInv, PipeOwned, Ours, Refers
      <3>3. worker'.pc = "handler" /\ worker'.req = <<from, cl[from].call>>
        BY <2>4 DEF AtRest
      <3>4. \A c \in Clients : Refers(hPipe)' = c => c = from
        BY <2>1, <3>1, <3>2 DEF Refers
      <3>5. SameCall'
        BY <2>1, <2>2, <3>3, <3>4 DEF SameCall
      <3>6. QED
        BY <2>1, <3>5 DEF CredInv, AnswersApproved, FailsClosed
    <2>5. QED
      BY <1>0, <1>6, <2>3, <2>4, <2>6 DEF ReadFile
  <1>7. CASE WriteFile
    <2>1. /\ worker.pc = "write" /\ worker'.pc = "callFlush"
          /\ UNCHANGED <<hPipe, table, result, approved>>
      BY <1>0, <1>7 DEF WriteFile
    <2>2. \A h \in Handles : table'[h] # "listening"
      BY <2>1 DEF CredInv, SameCall
    <2>3. CASE UNCHANGED cl
      BY <2>1, <2>2, <2>3, SameAnswers
    <2>4. ASSUME NEW c \in Clients, c = Refers(hPipe),
                 cl' = [cl EXCEPT ![c].inbox = worker.resp]
          PROVE  CredInv'
      <3>1. \A d \in Clients :
              /\ cl'[d].call = cl[d].call
              /\ cl'[d].inbox = IF d = c THEN worker.resp ELSE cl[d].inbox
        BY <2>4 DEF Types, ClientLocals
      <3>2. Good(worker.resp[1]) => <<c, cl[c].call>> \in approved
        BY <2>1, <2>4 DEF CredInv, SameCall
      <3>3. AnswersApproved'
        BY <2>1, <3>1, <3>2 DEF CredInv, AnswersApproved
      <3>4. SameCall' /\ FailsClosed'
        BY <2>1, <2>2, <3>1 DEF CredInv, SameCall, FailsClosed
      <3>5. QED
        BY <3>3, <3>4 DEF CredInv
    <2>5. QED
      BY <1>7, <2>3, <2>4 DEF WriteFile
  <1>8. CASE FlushFileBuffers \/ Clear
    <2>1. /\ worker.pc \in {"flush", "clear"} /\ worker'.pc \in {"disconnect", "loop"}
          /\ hPipe' \in {hPipe, INVALID_HANDLE_VALUE}
          /\ UNCHANGED <<table, cl, result, approved>>
      BY <1>0, <1>8 DEF FlushFileBuffers, Clear
    <2>2. \A h \in Handles : table'[h] # "listening"
      BY <2>1 DEF CredInv, SameCall
    <2>3. QED
      BY <2>1, <2>2, SameAnswers
  <1>9. CASE Disconnect
    <2>1. /\ worker.pc = "disconnect" /\ worker'.pc = "close" /\ DisconnectNamedPipe(hPipe)
          /\ UNCHANGED <<hPipe, result, approved>>
      BY <1>0, <1>9 DEF Disconnect
    <2>2. /\ \A x \in Handles : table'[x] \in {table[x], "broken"}
          /\ \A c \in Clients : /\ cl'[c].call = cl[c].call
                                /\ cl'[c].inbox \in {cl[c].inbox, None}
      BY <2>1, DisconnectFacts DEF Types
    <2>3. \A h \in Handles : table'[h] # "listening"
      BY <2>1, <2>2 DEF CredInv, SameCall
    <2>4. QED
      BY <2>1, <2>2, <2>3, SameAnswers
  <1>10. CASE Close
    <2>1. /\ worker.pc = "close" /\ worker'.pc = "clear" /\ CloseHandle(hPipe)
          /\ UNCHANGED <<hPipe, result, approved>>
      BY <1>0, <1>10 DEF Close
    <2>2. /\ \A x \in Handles : table'[x] \in {table[x], "free"}
          /\ \A c \in Clients : cl'[c].call = cl[c].call /\ cl'[c].inbox = cl[c].inbox
      BY <2>1, CloseFacts DEF Types
    <2>3. \A h \in Handles : table'[h] # "listening"
      BY <2>1, <2>2 DEF CredInv, SameCall
    <2>4. QED
      BY <2>1, <2>2, <2>3, SameAnswers
  <1>11. QED
    BY <1>1, <1>2, <1>3, <1>4, <1>5, <1>6, <1>7, <1>8, <1>9, <1>10 DEF Worker

\* What the handler approves, it approves for the call the request is of.
LEMMA HandlerAnswers ==
  ASSUME Types, CredInv, Handler
  PROVE  CredInv'
  <1>1. PICK resp \in IpcPacket :
          /\ worker' = [AtRest EXCEPT !.pc = "write", !.resp = <<resp>>]
          /\ approved' = IF resp.statusCode = 0 /\ resp.payload > 0
                         THEN approved \cup ({worker.req} \ {None}) ELSE approved
    BY DEF Handler
  <1>2. worker'.pc = "write" /\ worker'.resp[1] = resp
    BY <1>1 DEF AtRest
  <1>3. worker.pc = "handler" /\ UNCHANGED <<hPipe, table, cl, result>>
    BY DEF Handler
  <1>4. approved \subseteq approved' /\ (Good(resp) /\ worker.req # None => worker.req \in approved')
    BY <1>1 DEF Good
  <1>5. \A c \in Clients : Refers(hPipe)' = c => worker.req = <<c, cl[c].call>>
    BY <1>3 DEF CredInv, SameCall, Refers
  <1>9. \A c \in Clients : <<c, cl[c].call>> # None
    BY DEF None
  <1>6. SameCall'
    BY <1>2, <1>3, <1>4, <1>5, <1>9 DEF CredInv, SameCall
  <1>7. AnswersApproved' /\ FailsClosed'
    BY <1>3, <1>4 DEF CredInv, AnswersApproved, FailsClosed
  <1>8. QED
    BY <1>6, <1>7 DEF CredInv

\* A tile begins a call without a result and without an answer, and makes a
\* credential only of an answer that was approved.
LEMMA ClientAnswers ==
  ASSUME Types, Linked, CredInv, Types', NEW c \in Clients,
         GetSerialization(c) \/ ClientRuns(c) \/ ClientDies(c)
  PROVE  CredInv'
  <1>0. ASSUME Hangup(c), UNCHANGED <<server, approved>>,
               \A d \in Clients : d # c => result'[d] = result[d],
               result'[c] = "CREDENTIAL" => <<c, cl[c].call>> \in approved
        PROVE  CredInv'
    <2>1. UNCHANGED <<hPipe, worker, approved>>
      BY <1>0 DEF server
    <2>2. /\ \A h \in Handles : \/ table'[h] = table[h]
                                \/ table[h] = c /\ table'[h] \in {"broken", "unread"}
          /\ \A d \in Clients : /\ cl'[d].call = cl[d].call
                                /\ cl'[d].inbox \in {cl[d].inbox, None}
      BY <1>0, HangupFacts
    <2>3. \A d \in Clients : Refers(hPipe)' = d => Refers(hPipe) = d
      BY <2>1, <2>2, Apart DEF Refers
    <2>4. SameCall'
      BY <2>1, <2>2, <2>3 DEF CredInv, SameCall
    <2>5. AnswersApproved' /\ FailsClosed'
      BY <1>0, <2>1, <2>2 DEF CredInv, AnswersApproved, FailsClosed
    <2>6. QED
      BY <2>4, <2>5 DEF CredInv
  <1>1. CASE GetSerialization(c)
    <2>1. /\ UNCHANGED <<hPipe, worker, table, approved>>
          /\ cl[c].pc = "idle" /\ result'[c] = "none"
          /\ \A d \in Clients : d # c => cl'[d] = cl[d] /\ result'[d] = result[d]
          /\ \A d \in Clients : cl'[d].inbox = cl[d].inbox
      BY <1>1 DEF GetSerialization, server, Types, ClientLocals
    <2>2. cl[c].link = INVALID_HANDLE_VALUE /\ cl[c].inbox = None
      BY <2>1 DEF Linked
    <2>3. Refers(hPipe)' # c
      BY <2>1, <2>2, Apart DEF Linked, Refers
    <2>4. SameCall'
      BY <2>1, <2>3 DEF CredInv, SameCall, Refers
    <2>5. AnswersApproved' /\ FailsClosed'
      BY <2>1, <2>2 DEF CredInv, AnswersApproved, FailsClosed
    <2>6. QED
      BY <2>4, <2>5 DEF CredInv
  <1>2. CASE ClientDies(c)
    BY <1>0, <1>2 DEF ClientDies, CredInv, FailsClosed
  <1>3. CASE ClientRuns(c)
    <2>1. UNCHANGED <<server, approved>>
      BY <1>3, ClientSteps
    <2>2. CASE UNCHANGED <<table, result>>
               /\ \/ cl' = [cl EXCEPT ![c].pc = "open"] /\ cl[c].pc = "wait"
                  \/ cl' = [cl EXCEPT ![c].pc = "receive", ![c].sent = TRUE] /\ cl[c].pc = "send"
      <3>1. \A d \in Clients : cl'[d].call = cl[d].call /\ cl'[d].inbox = cl[d].inbox
        BY <2>2 DEF Types, ClientLocals
      <3>2. QED
        BY <2>1, <2>2, <3>1, SameAnswers DEF server, CredInv, SameCall, Before
    <2>3. ASSUME UNCHANGED result, NEW h \in Listening,
                 table' = [table EXCEPT ![h] = c],
                 cl' = [cl EXCEPT ![c].pc = "send", ![c].link = h]
          PROVE  CredInv'
      <3>1. \A d \in Clients : cl'[d].call = cl[d].call /\ cl'[d].inbox = cl[d].inbox
        BY <2>3 DEF Types, ClientLocals
      <3>2. h \in Handles /\ worker.pc \in Before
        BY <2>3 DEF Listening, CredInv, SameCall, Before
      <3>3. SameCall'
        BY <2>1, <3>2 DEF server, CredInv, SameCall, Before
      <3>4. UNCHANGED <<result, approved>>
        BY <2>1, <2>3
      <3>5. AnswersApproved' /\ FailsClosed'
        BY <3>1, <3>4 DEF CredInv, AnswersApproved, FailsClosed
      <3>6. QED
        BY <3>3, <3>5 DEF CredInv
    <2>4. CASE cl[c].inbox # None
               /\ Return(c, cl[c].inbox[1].payload <= MaxPayload, cl[c].inbox[1])
      <3>1. /\ Hangup(c) /\ \A d \in Clients : d # c => result'[d] = result[d]
            /\ result'[c] = "CREDENTIAL" =>
                 cl[c].inbox[1].statusCode = 0 /\ cl[c].inbox[1].payload # 0
        BY <2>4, ReturnFacts
      <3>2. cl[c].inbox[1] \in IpcPacket
        BY <2>4 DEF Types, ClientLocals, Packets
      <3>3. result'[c] = "CREDENTIAL" => Good(cl[c].inbox[1])
        BY <3>1, <3>2 DEF Good, IpcPacket
      <3>4. QED
        BY <1>0, <2>1, <2>4, <3>1, <3>3 DEF CredInv, AnswersApproved
    <2>5. CASE Return(c, FALSE, Unset)
      <3>1. /\ Hangup(c) /\ \A d \in Clients : d # c => result'[d] = result[d]
            /\ result'[c] # "CREDENTIAL"
        BY <2>5, ReturnFacts
      <3>2. QED
        BY <1>0, <2>1, <3>1
    <2>6. QED
      BY <1>3, <2>2, <2>3, <2>4, <2>5, ClientSteps
  <1>4. QED
    BY <1>1, <1>2, <1>3

\* Every step keeps answers with the calls they were approved for.
LEMMA NextAnswers == Types /\ Linked /\ PipeInv /\ CredInv /\ [Next]_vars => CredInv'
  <1> SUFFICES ASSUME Types, Linked, PipeInv, CredInv, [Next]_vars PROVE CredInv'
    OBVIOUS
  <1>0. Types'
    BY NextTypes
  <1>1. CASE UNCHANGED vars
    BY <1>0, <1>1, SameAnswers DEF vars, CredInv, SameCall, Before
  <1>2. QED
    BY <1>0, <1>1, WorkerAnswers, OwnerAnswers, HandlerAnswers, ClientAnswers DEF Next

\* Nothing listens, waits or was handed out at first.
LEMMA InitAnswers == Init => CredInv
  <1> SUFFICES ASSUME Init PROVE CredInv
    OBVIOUS
  <1>1. worker.pc = "none" /\ \A h \in Handles : table[h] # "listening"
    BY DEF Init, AtRest
  <1>2. \A c \in Clients : cl[c].inbox = None /\ result[c] # "CREDENTIAL"
    BY DEF Init
  <1>3. QED
    BY <1>1, <1>2 DEF CredInv, SameCall, AnswersApproved, FailsClosed

\* security_self_assessment.md, Guarantee 6, for any number of tiles, calls
\* and handles: a tile hands out a credential only if the agent's handler
\* approved this very call, whatever the server, its owner and the other
\* tiles do meanwhile.
THEOREM FailsClosedAlways == Spec => []FailsClosed
  <1>1. CredInv => FailsClosed
    BY DEF CredInv
  <1>2. QED
    BY <1>1, InitTypes, NextTypes, InitPipe, NextPipe, InitAnswers, NextAnswers, PTL DEF Spec

=============================================================================
