----------------------------- MODULE NamedPipe -----------------------------
(***************************************************************************)
(* The local pipe between the agent and the logon screen                   *)
(* (windows/common/NamedPipeIpc.cpp) with its caller on the logon side,    *)
(* PhoneKeyCredential::GetSerialization.                                   *)
(*                                                                         *)
(* The server object has an owner, who calls Start and Stop, and a worker  *)
(* thread, which makes one pipe instance at a time, serves one request on  *)
(* it and closes it.  They share m_hPipe without a lock, so each read and  *)
(* each write of it is a step.  A handle is a number the system hands out  *)
(* again once it is closed.  A client is a logon tile inside               *)
(* GetSerialization.                                                       *)
(***************************************************************************)
EXTENDS Integers, Sequences

CONSTANTS
  Clients,      \* logon tiles
  Handles,      \* handle values of the agent's process
  MaxCalls      \* bound: client -> how often it calls GetSerialization

INVALID_HANDLE_VALUE == -1

ASSUME PipeAssumption ==
  /\ Handles \subseteq Nat /\ MaxCalls \in [Clients -> Nat]
  /\ Clients \cap {"free", "listening", "broken", "unread"} = {}

\* IpcPacket: payload is its length in units of what one ReadFile takes.
IpcPacket == [statusCode : {0, 65535}, payload : 0 .. 2]
MaxPayload == 1

VARIABLES
  isRunning, hPipe,   \* m_isRunning, m_hPipe
  owner,              \* [pc, call, h]: where the owner is; h is what it read m_hPipe to be
  worker,             \* [pc, h, req, resp]: h is the handle its last call was given
  table,              \* handle -> what it refers to: an instance that listens, has a
                      \* client or lost it, perhaps with its request unread; or
                      \* something that is not the server's
  cl,                 \* client -> [pc, call, link, sent, inbox]: its SendIpcRequest
  result,             \* client -> what its last GetSerialization returned
  approved            \* history: <<client, call>> the handler answered with a credential

server == <<isRunning, hPipe, owner, worker>>
vars == <<isRunning, hPipe, owner, worker, table, cl, result, approved>>

None == <<>>
AtRest == [pc |-> "none", h |-> INVALID_HANDLE_VALUE, req |-> None, resp |-> None]

Init ==
  /\ isRunning = FALSE /\ hPipe = INVALID_HANDLE_VALUE
  /\ owner = [pc |-> "idle", call |-> "none", h |-> INVALID_HANDLE_VALUE]
  /\ worker = AtRest
  /\ table = [h \in Handles |-> "free"]
  /\ cl = [c \in Clients |->
             [pc |-> "idle", call |-> 0, link |-> INVALID_HANDLE_VALUE, sent |-> FALSE,
              inbox |-> None]]
  /\ result = [c \in Clients |-> "none"]
  /\ approved = {}

-----------------------------------------------------------------------------
\* What the system calls do.

Refers(h) == IF h \in Handles THEN table[h] ELSE "free"
Ours(h) == Refers(h) # "free"

\* CloseHandle: a connected client finds its end cut, and can still read what
\* was written before.  A wait pending on the handle fails.
CloseHandle(h) ==
  /\ table' = IF h \in Handles THEN [table EXCEPT ![h] = "free"] ELSE table
  /\ cl' = IF Refers(h) \in Clients
           THEN [cl EXCEPT ![Refers(h)].link = INVALID_HANDLE_VALUE] ELSE cl

\* DisconnectNamedPipe: what the client has not read is discarded.
DisconnectNamedPipe(h) ==
  IF Refers(h) \in Clients
  THEN /\ table' = [table EXCEPT ![h] = "broken"]
       /\ cl' = [cl EXCEPT ![Refers(h)].link = INVALID_HANDLE_VALUE, ![Refers(h)].inbox = None]
  ELSE UNCHANGED <<table, cl>>

-----------------------------------------------------------------------------
\* The owner: Start begins with Stop, and the destructor is Stop.

OwnerAt(label) == owner' = [owner EXCEPT !.pc = label]

Call(what) ==
  /\ owner.pc = "idle"
  /\ owner' = [owner EXCEPT !.pc = "flag", !.call = what]
  /\ UNCHANGED <<isRunning, hPipe, worker, table, cl, result, approved>>

StopFlag ==
  /\ owner.pc = "flag"
  /\ isRunning' = FALSE
  /\ OwnerAt("test")
  /\ UNCHANGED <<hPipe, worker, table, cl, result, approved>>

StopTest ==
  /\ owner.pc = "test"
  /\ owner' = [owner EXCEPT !.h = hPipe,
                 !.pc = IF hPipe = INVALID_HANDLE_VALUE THEN "join" ELSE "close"]
  /\ UNCHANGED <<isRunning, hPipe, worker, table, cl, result, approved>>

\* Mutant: the pipe is left to the worker.
StopLeavesPipe ==
  /\ owner.pc = "close"
  /\ OwnerAt("clear")
  /\ UNCHANGED <<isRunning, hPipe, worker, table, cl, result, approved>>

\* m_hPipe is no atomic: the build may read it again here or use what the
\* test read.
StopClose ==
  /\ owner.pc = "close"
  /\ \E h \in {owner.h, hPipe} : CloseHandle(h)
  /\ OwnerAt("clear")
  /\ UNCHANGED <<isRunning, hPipe, worker, result, approved>>

\* Mutant: m_hPipe keeps the handle Stop closed.
StopForgetsToClear ==
  /\ owner.pc = "clear"
  /\ OwnerAt("join")
  /\ UNCHANGED <<isRunning, hPipe, worker, table, cl, result, approved>>

StopClear ==
  /\ owner.pc = "clear"
  /\ hPipe' = INVALID_HANDLE_VALUE
  /\ OwnerAt("join")
  /\ UNCHANGED <<isRunning, worker, table, cl, result, approved>>

\* join; then Stop returns, and Start makes a new worker.
Join ==
  /\ owner.pc = "join" /\ worker.pc = "none"
  /\ owner' = [pc |-> "idle", call |-> "none", h |-> INVALID_HANDLE_VALUE]
  /\ IF owner.call = "Start"
     THEN isRunning' = TRUE /\ worker' = [AtRest EXCEPT !.pc = "loop"]
     ELSE UNCHANGED <<isRunning, worker>>
  /\ UNCHANGED <<hPipe, table, cl, result, approved>>

Owner == StopFlag \/ StopTest \/ StopClose \/ StopClear \/ Join

-----------------------------------------------------------------------------
\* ServerWorker

\* On with a new label; the locals are not used again.
WorkerAt(label) == worker' = [AtRest EXCEPT !.pc = label]

Loop ==
  /\ worker.pc = "loop"
  /\ IF isRunning THEN WorkerAt("create") ELSE worker' = AtRest
  /\ UNCHANGED <<isRunning, hPipe, owner, table, cl, result, approved>>

Created ==
  \E h \in Handles :
    table[h] = "free" /\ table' = [table EXCEPT ![h] = "listening"] /\ hPipe' = h

\* Mutant: a failure is taken to be NULL.
CreateOrNull ==
  /\ worker.pc = "create"
  /\ (hPipe' = 0 /\ UNCHANGED table) \/ Created
  /\ WorkerAt("check")
  /\ UNCHANGED <<isRunning, owner, cl, result, approved>>

CreateNamedPipe ==
  /\ worker.pc = "create"
  /\ (hPipe' = INVALID_HANDLE_VALUE /\ UNCHANGED table) \/ Created
  /\ WorkerAt("check")
  /\ UNCHANGED <<isRunning, owner, cl, result, approved>>

\* CreateNamedPipe failed: sleep and try again.
CheckCreated ==
  /\ worker.pc = "check"
  /\ WorkerAt(IF hPipe = INVALID_HANDLE_VALUE THEN "loop" ELSE "callConnect")
  /\ UNCHANGED <<isRunning, hPipe, owner, table, cl, result, approved>>

Waits == [callConnect |-> "connect", callRead |-> "read", callFlush |-> "flush"]

\* A call that may wait is given what m_hPipe is now.
CallPipe ==
  /\ worker.pc \in DOMAIN Waits
  /\ worker' = [worker EXCEPT !.pc = Waits[@], !.h = hPipe]
  /\ UNCHANGED <<isRunning, hPipe, owner, table, cl, result, approved>>

\* Mutant: a client that comes while the server stops is passed over.
ConnectPassesOver ==
  /\ worker.pc = "connect" /\ Refers(worker.h) # "listening"
  /\ WorkerAt(IF Ours(worker.h) /\ isRunning THEN "callRead" ELSE "loop")
  /\ UNCHANGED <<isRunning, hPipe, owner, table, cl, result, approved>>

\* ConnectNamedPipe returns with a client, perhaps one that came before the
\* call or is gone again; or it fails because the client was gone before the
\* call or the handle is closed.
ConnectNamedPipe ==
  /\ worker.pc = "connect" /\ Refers(worker.h) # "listening"
  /\ \/ Ours(worker.h) /\ isRunning /\ WorkerAt("callRead")
     \/ (Refers(worker.h) \notin Clients \/ ~isRunning) /\ WorkerAt("disconnect")
  /\ UNCHANGED <<isRunning, hPipe, owner, table, cl, result, approved>>

\* ReadFile returns a request, also one whose tile has hung up since, or
\* fails.
ReadFile ==
  LET from == Refers(worker.h)
  IN  /\ worker.pc = "read"
      /\ \/ /\ from \in Clients /\ cl[from].sent
            /\ worker' = [AtRest EXCEPT !.pc = "handler", !.req = <<from, cl[from].call>>]
         \/ from = "unread" /\ WorkerAt("handler")
         \/ from \notin Clients \cup {"unread"} /\ WorkerAt("disconnect")
      /\ UNCHANGED <<isRunning, hPipe, owner, table, cl, result, approved>>

\* m_handler returns; without one the answer is 0xFFFF.
Handler ==
  /\ worker.pc = "handler"
  /\ \E resp \in IpcPacket :
       /\ worker' = [AtRest EXCEPT !.pc = "write", !.resp = <<resp>>]
       /\ approved' = IF resp.statusCode = 0 /\ resp.payload > 0
                      THEN approved \cup ({worker.req} \ {None}) ELSE approved
  /\ UNCHANGED <<isRunning, hPipe, owner, table, cl, result>>

\* WriteFile: whether it worked is ignored.
WriteFile ==
  /\ worker.pc = "write"
  /\ \/ Refers(hPipe) \in Clients /\ cl' = [cl EXCEPT ![Refers(hPipe)].inbox = worker.resp]
     \/ UNCHANGED cl
  /\ WorkerAt("callFlush")
  /\ UNCHANGED <<isRunning, hPipe, owner, table, result, approved>>

\* FlushFileBuffers waits for the client to read or go.
FlushFileBuffers ==
  /\ worker.pc = "flush"
  /\ Refers(worker.h) \in Clients => cl[Refers(worker.h)].inbox = None
  /\ WorkerAt("disconnect")
  /\ UNCHANGED <<isRunning, hPipe, owner, table, cl, result, approved>>

Disconnect ==
  /\ worker.pc = "disconnect"
  /\ DisconnectNamedPipe(hPipe)
  /\ WorkerAt("close")
  /\ UNCHANGED <<isRunning, hPipe, owner, result, approved>>

\* Mutant: an instance is not closed when the loop is about to end.
CloseSkipped ==
  /\ worker.pc = "close"
  /\ IF isRunning THEN CloseHandle(hPipe) ELSE UNCHANGED <<table, cl>>
  /\ WorkerAt("clear")
  /\ UNCHANGED <<isRunning, hPipe, owner, result, approved>>

Close ==
  /\ worker.pc = "close"
  /\ CloseHandle(hPipe)
  /\ WorkerAt("clear")
  /\ UNCHANGED <<isRunning, hPipe, owner, result, approved>>

Clear ==
  /\ worker.pc = "clear"
  /\ hPipe' = INVALID_HANDLE_VALUE
  /\ WorkerAt("loop")
  /\ UNCHANGED <<isRunning, owner, table, cl, result, approved>>

\* Everything but the handler, which is the agent's and may take its time.
Worker ==
  \/ Loop \/ CreateNamedPipe \/ CheckCreated \/ CallPipe \/ ConnectNamedPipe \/ ReadFile
  \/ WriteFile \/ FlushFileBuffers \/ Disconnect \/ Close \/ Clear

-----------------------------------------------------------------------------
\* The client: GetSerialization around SendIpcRequest.

GetSerialization(c) ==
  /\ cl[c].pc = "idle" /\ cl[c].call < MaxCalls[c]
  /\ cl' = [cl EXCEPT ![c].pc = "wait", ![c].call = @ + 1]
  /\ result' = [result EXCEPT ![c] = "none"]
  /\ UNCHANGED <<server, table, approved>>

Listening == {h \in Handles : table[h] = "listening"}

\* Mutant: the status code is not looked at.
OutcomeAnyStatus(ipcOk, resp) ==
  IF ~ipcOk \/ resp.payload = 0
  THEN {"NO_CREDENTIAL"} ELSE {"CREDENTIAL", "E_OUTOFMEMORY"}

\* What GetSerialization makes of the answer.
Outcome(ipcOk, resp) ==
  IF ~ipcOk \/ resp.statusCode # 0 \/ resp.payload = 0
  THEN {"NO_CREDENTIAL"} ELSE {"CREDENTIAL", "E_OUTOFMEMORY"}

\* SendIpcRequest closes its end and returns, and with it GetSerialization.
\* What it wrote stays in the pipe.
Hangup(c) ==
  /\ cl' = [cl EXCEPT ![c] = [pc |-> "idle", call |-> @.call, link |-> INVALID_HANDLE_VALUE,
                              sent |-> FALSE, inbox |-> None]]
  /\ table' = [h \in Handles |-> IF table[h] # c THEN table[h]
                            ELSE IF cl[c].sent THEN "unread" ELSE "broken"]

Return(c, ipcOk, resp) ==
  /\ Hangup(c)
  /\ \E out \in Outcome(ipcOk, resp) : result' = [result EXCEPT ![c] = out]

\* resp as declared: an empty payload and no status yet.
Unset == [statusCode |-> 65535, payload |-> 0]

\* WaitNamedPipe: there is an instance, or none until the timeout.
Wait(c) ==
  /\ cl[c].pc = "wait"
  /\ IF Listening # {} THEN cl' = [cl EXCEPT ![c].pc = "open"] /\ UNCHANGED <<table, result>>
                       ELSE Return(c, FALSE, Unset)
  /\ UNCHANGED <<server, approved>>

\* CreateFile: another client may have taken the instance.
Open(c) ==
  /\ cl[c].pc = "open"
  /\ \/ \E h \in Listening :
          /\ table' = [table EXCEPT ![h] = c]
          /\ cl' = [cl EXCEPT ![c].pc = "send", ![c].link = h]
          /\ UNCHANGED result
     \/ Listening = {} /\ Return(c, FALSE, Unset)
  /\ UNCHANGED <<server, approved>>

Send(c) ==
  /\ cl[c].pc = "send"
  /\ IF cl[c].link # INVALID_HANDLE_VALUE
     THEN cl' = [cl EXCEPT ![c].pc = "receive", ![c].sent = TRUE] /\ UNCHANGED <<table, result>>
     ELSE Return(c, FALSE, Unset)
  /\ UNCHANGED <<server, approved>>

\* ReadFile has no timeout: it ends with the answer, with ERROR_MORE_DATA
\* for one that does not fit, or when the server's end is cut.
Receive(c) ==
  /\ cl[c].pc = "receive"
  /\ IF cl[c].inbox # None
     THEN LET resp == cl[c].inbox[1] IN Return(c, resp.payload <= MaxPayload, resp)
     ELSE cl[c].link = INVALID_HANDLE_VALUE /\ Return(c, FALSE, Unset)
  /\ UNCHANGED <<server, approved>>

ClientRuns(c) == Wait(c) \/ Open(c) \/ Send(c) \/ Receive(c)

\* The logon screen is closed during the call.
ClientDies(c) ==
  /\ cl[c].pc # "idle"
  /\ Hangup(c)
  /\ UNCHANGED <<server, result, approved>>

Next ==
  \/ \E what \in {"Start", "Stop"} : Call(what)
  \/ Owner \/ Worker \/ Handler
  \/ \E c \in Clients : GetSerialization(c) \/ ClientRuns(c) \/ ClientDies(c)

\* Threads that can run do; nothing is assumed of the handler or of whether
\* a client comes.
Fairness == WF_vars(Owner) /\ WF_vars(Worker) /\ \A c \in Clients : WF_vars(ClientRuns(c))

Spec == Init /\ [][Next]_vars /\ Fairness

-----------------------------------------------------------------------------
\* Properties

\* Members, locals and handles have their types.
TypeOK ==
  /\ isRunning \in BOOLEAN
  /\ hPipe \in Handles \cup {INVALID_HANDLE_VALUE}
  /\ owner \in [pc : {"idle", "flag", "test", "close", "clear", "join"},
                call : {"none", "Start", "Stop"}, h : Handles \cup {INVALID_HANDLE_VALUE}]
  /\ worker.pc \in {"none", "loop", "create", "check", "callConnect", "connect", "callRead",
                    "read", "handler", "write", "callFlush", "flush", "disconnect", "close",
                    "clear"}
  /\ table \in [Handles -> Clients \cup {"free", "listening", "broken", "unread"}]
  /\ \A c \in Clients :
       /\ cl[c].pc \in {"idle", "wait", "open", "send", "receive"}
       /\ cl[c].link \in Handles => table[cl[c].link] = c
  /\ result \in [Clients -> {"none", "NO_CREDENTIAL", "CREDENTIAL", "E_OUTOFMEMORY"}]

\* The positions of the worker between CreateNamedPipe and the reset of
\* m_hPipe.
Serving == {"check", "callConnect", "connect", "callRead", "read", "handler", "write",
            "callFlush", "flush", "disconnect", "close", "clear"}

\* No pipe instance is orphaned, whichever way Stop and the worker meet: an
\* open one is m_hPipe's, and m_hPipe is set only while the worker serves it.
\* So once Stop has returned there is no pipe left and clients fail at once.
PipeOwned ==
  /\ \A h \in Handles : Ours(h) => hPipe = h
  /\ hPipe # INVALID_HANDLE_VALUE => worker.pc \in Serving

\* security_self_assessment.md, Guarantee 6: a tile hands out a credential
\* only if the agent's handler approved this very call; a stopped, restarted
\* or failing server, a lost or oversized answer or an answer to an earlier
\* call never yields one.
FailsClosed ==
  \A c \in Clients : result[c] = "CREDENTIAL" => <<c, cl[c].call>> \in approved

\* m_hPipe names a handle that is closed, and that the system may have given
\* to another thread of the agent, only in two windows: between CloseHandle
\* and the reset of m_hPipe in Stop, and between the same two in the worker.
DanglesOnlyInWindow ==
  hPipe # INVALID_HANDLE_VALUE /\ ~Ours(hPipe) => "clear" \in {owner.pc, worker.pc}

\* The worker passed its loop test before Stop and made its pipe after Stop
\* had looked for one: it waits for a client and Stop waits for it.
Overlooked ==
  /\ owner.pc = "join" /\ owner.h = INVALID_HANDLE_VALUE
  /\ worker.pc = "connect" /\ Refers(worker.h) = "listening"

\* Stop, and the Start that begins with it, returns, except when the handler
\* does not, or when the pipe was overlooked.
StopReturns == owner.pc # "idle" ~> (owner.pc = "idle" \/ Overlooked \/ worker.pc = "handler")

\* A logon tile is not stuck in GetSerialization: with no timeout on ReadFile
\* the one thing it can wait for without bound is the handler.
CallReturns ==
  \A c \in Clients : cl[c].pc # "idle" ~> (cl[c].pc = "idle" \/ worker.pc = "handler")

=============================================================================
