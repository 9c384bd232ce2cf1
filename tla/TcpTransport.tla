---------------------------- MODULE TcpTransport ----------------------------
(***************************************************************************)
(* The socket transport of the agent (windows/common/TcpTransport.cpp) as  *)
(* its threads see it: the owner, who calls StartListener, Connect and     *)
(* Close one at a time; the one worker thread, which accepts and then      *)
(* receives; and any thread that calls SendFrame, the worker among them    *)
(* when the listener answers a frame from its callback.                    *)
(*                                                                         *)
(* The members are shared without a lock except m_sendMutex, so every read *)
(* or write of one that another thread can observe is a step of its own.   *)
(* Bytes and frame parsing are left to FrameStream: here a frame is Parts  *)
(* pieces, as many as send() needs calls.                                  *)
(***************************************************************************)
EXTENDS Naturals, Sequences, FiniteSets

CONSTANTS
  Callers,      \* threads, other than the worker, that call SendFrame
  Worker,       \* m_workerThread
  MaxConns,     \* bound: connections over the life of the object
  MaxFrames,    \* bound: frames sent over the life of the object
  Parts         \* send() calls per frame

ASSUME TransportAssumption ==
  /\ IsFiniteSet(Callers) /\ Worker \notin Callers /\ "nobody" \notin Callers \cup {Worker}
  /\ MaxConns \in Nat /\ MaxFrames \in Nat /\ Parts \in Nat \ {0}

Threads == Callers \cup {Worker}
Sockets == 1 .. MaxConns
INVALID_SOCKET == 0
Nobody == "nobody"

VARIABLES
  isRunning, isConnected,   \* m_isRunning, m_isConnected
  listenSocket,             \* m_listenSocket is valid (and listening)
  clientSocket,             \* m_clientSocket
  open,                     \* sockets the process has not closed
  peers,                    \* sockets whose other end is still there
  used,                     \* how many sockets were ever made
  worker,                   \* [pc, sock]: the worker thread, "none" before and after;
                            \* sock is the socket it accepted or calls recv with
  owner,                    \* [pc, call]: where the owner is, and in which call
  snd,                      \* thread -> [pc, seq, part, sock]: its SendFrame call
  sendMutex,                \* who holds m_sendMutex
  sequenceCounter,          \* m_sequenceCounter
  wire                      \* socket -> pieces sent on it

flags == <<isRunning, isConnected>>
sockets == <<listenSocket, clientSocket, open, peers, used>>
sends == <<snd, sendMutex, sequenceCounter, wire>>
vars == <<isRunning, isConnected, listenSocket, clientSocket, open, peers, used, worker,
          owner, snd, sendMutex, sequenceCounter, wire>>

Resting == [pc |-> "idle", seq |-> 0, part |-> 0, sock |-> INVALID_SOCKET]

Init ==
  /\ isRunning = FALSE /\ isConnected = FALSE
  /\ listenSocket = FALSE /\ clientSocket = INVALID_SOCKET
  /\ open = {} /\ peers = {} /\ used = 0
  /\ worker = [pc |-> "none", sock |-> INVALID_SOCKET]
  /\ owner = [pc |-> "idle", call |-> "none"]
  /\ snd = [t \in Threads |-> Resting]
  /\ sendMutex = Nobody /\ sequenceCounter = 1
  /\ wire = [s \in Sockets |-> <<>>]

\* A socket that did not exist before; its peer is there.
NewSocket(s) ==
  /\ used < MaxConns /\ s = used + 1
  /\ used' = s /\ open' = open \cup {s} /\ peers' = peers \cup {s}

-----------------------------------------------------------------------------
\* The owner.  Close is called by itself, by the destructor, and first thing
\* in StartListener and Connect.

Call(what) ==
  /\ owner.pc = "idle"
  /\ owner' = [pc |-> "flags", call |-> what]
  /\ UNCHANGED <<flags, sockets, worker, sends>>

CloseFlags ==
  /\ owner.pc = "flags"
  /\ isRunning' = FALSE /\ isConnected' = FALSE
  /\ owner' = [owner EXCEPT !.pc = "closeListen"]
  /\ UNCHANGED <<sockets, worker, sends>>

CloseListen ==
  /\ owner.pc = "closeListen"
  /\ listenSocket' = FALSE
  /\ owner' = [owner EXCEPT !.pc = "closeClient"]
  /\ UNCHANGED <<flags, clientSocket, open, peers, used, worker, sends>>

\* Mutant: the client socket is forgotten without being closed.
CloseClientLeaving ==
  /\ owner.pc = "closeClient"
  /\ owner' = [owner EXCEPT !.pc = "clearClient"]
  /\ UNCHANGED <<flags, sockets, worker, sends>>

\* closesocket and the reset of the member are two steps: in between, the
\* worker and the senders still read the number of a closed socket.
CloseClient ==
  /\ owner.pc = "closeClient"
  /\ IF clientSocket = INVALID_SOCKET
     THEN owner' = [owner EXCEPT !.pc = "join"] /\ UNCHANGED open
     ELSE owner' = [owner EXCEPT !.pc = "clearClient"] /\ open' = open \ {clientSocket}
  /\ UNCHANGED <<flags, listenSocket, clientSocket, peers, used, worker, sends>>

ClearClient ==
  /\ owner.pc = "clearClient"
  /\ clientSocket' = INVALID_SOCKET
  /\ owner' = [owner EXCEPT !.pc = "join"]
  /\ UNCHANGED <<flags, listenSocket, open, peers, used, worker, sends>>

\* join: Close returns, and with it the call unless that has more to do.
Join ==
  /\ owner.pc = "join"
  /\ worker.pc = "none"
  /\ owner' = IF owner.call = "Close" THEN [pc |-> "idle", call |-> "none"]
                                      ELSE [owner EXCEPT !.pc = owner.call]
  /\ UNCHANGED <<flags, sockets, worker, sends>>

Returned == owner' = [pc |-> "idle", call |-> "none"]

\* The rest of StartListener: socket, bind or listen fails and is undone, or
\* a worker is started to accept.
StartListener ==
  /\ owner.pc = "StartListener"
  /\ \/ UNCHANGED <<isRunning, listenSocket, worker>>
     \/ /\ listenSocket' = TRUE /\ isRunning' = TRUE
        /\ worker' = [worker EXCEPT !.pc = "accept"]
  /\ Returned
  /\ UNCHANGED <<isConnected, clientSocket, open, peers, used, sends>>

\* The rest of Connect: it fails and is undone, or the worker receives.
Connect ==
  /\ owner.pc = "Connect"
  /\ \/ UNCHANGED <<flags, sockets, worker>>
     \/ \E s \in Sockets :
          /\ NewSocket(s)
          /\ clientSocket' = s
          /\ isConnected' = TRUE /\ isRunning' = TRUE
          /\ worker' = [worker EXCEPT !.pc = "loop"]
          /\ UNCHANGED listenSocket
  /\ Returned
  /\ UNCHANGED sends

Owner ==
  \/ CloseFlags \/ CloseListen \/ CloseClient \/ ClearClient \/ Join
  \/ StartListener \/ Connect

-----------------------------------------------------------------------------
\* The worker: ListenerWorker, which ends in ReceiverWorker.

WorkerAt(label) == worker' = [worker EXCEPT !.pc = label]
WorkerEnds == worker' = [pc |-> "none", sock |-> INVALID_SOCKET]

\* accept returns the next connection ...
Accept ==
  /\ worker.pc = "accept" /\ listenSocket
  /\ \E s \in Sockets : NewSocket(s) /\ worker' = [pc |-> "check", sock |-> s]
  /\ UNCHANGED <<flags, listenSocket, clientSocket, owner, sends>>

\* ... or fails, and the thread ends: at any time by an error of the network,
\* and certainly once the listening socket is closed.
AcceptFails ==
  /\ worker.pc = "accept"
  /\ WorkerEnds
  /\ UNCHANGED <<flags, sockets, owner, sends>>

\* The test of m_isRunning after accept: the socket just accepted is dropped
\* on the floor, not closed.
CheckRunning ==
  /\ worker.pc = "check"
  /\ IF isRunning THEN WorkerAt("publish") ELSE WorkerEnds
  /\ UNCHANGED <<flags, sockets, owner, sends>>

PublishSocket ==
  /\ worker.pc = "publish"
  /\ clientSocket' = worker.sock
  /\ WorkerAt("connected")
  /\ UNCHANGED <<flags, listenSocket, open, peers, used, owner, sends>>

PublishConnected ==
  /\ worker.pc = "connected"
  /\ isConnected' = TRUE
  /\ WorkerAt("loop")
  /\ UNCHANGED <<isRunning, sockets, owner, sends>>

Loop ==
  /\ worker.pc = "loop"
  /\ IF isRunning /\ isConnected THEN WorkerAt("call") ELSE WorkerEnds
  /\ UNCHANGED <<flags, sockets, owner, sends>>

\* recv is called with what m_clientSocket is now.
CallRecv ==
  /\ worker.pc = "call"
  /\ worker' = [pc |-> "recv", sock |-> clientSocket]
  /\ UNCHANGED <<flags, sockets, owner, sends>>

Alive(s) == s \in open \cap peers

\* recv returns 0 or an error: Close closed the socket, or the peer left and
\* this end came to know of it.
RecvFails ==
  /\ worker.pc = "recv" /\ ~Alive(worker.sock)
  /\ isConnected' = FALSE
  /\ WorkerEnds
  /\ UNCHANGED <<isRunning, sockets, owner, sends>>

\* recv returns bytes: part of a frame or noise, a frame for the listener, or
\* a header that announces more than 64 KB.
RecvData ==
  /\ worker.pc = "recv" /\ Alive(worker.sock)
  /\ \/ WorkerAt("loop") /\ UNCHANGED isConnected
     \/ WorkerAt("callback") /\ UNCHANGED isConnected
     \/ WorkerAt("loop") /\ isConnected' = FALSE
  /\ UNCHANGED <<isRunning, sockets, owner, sends>>

\* OnFrameReceived has returned, its own SendFrame included.
CallbackReturns ==
  /\ worker.pc = "callback" /\ snd[Worker].pc = "idle"
  /\ WorkerAt("loop")
  /\ UNCHANGED <<flags, sockets, owner, sends>>

\* What the worker does without waiting for the network: accept and recv
\* return when this process has closed their socket.
WorkerRuns ==
  \/ ~listenSocket /\ AcceptFails
  \/ CheckRunning \/ PublishSocket \/ PublishConnected \/ Loop \/ CallRecv
  \/ worker.sock \notin open /\ RecvFails
  \/ CallbackReturns

-----------------------------------------------------------------------------
\* SendFrame

SendAt(t, label) == snd' = [snd EXCEPT ![t].pc = label]

\* The unlocked test.  Failing it changes nothing.
SendCheck(t) ==
  /\ snd[t].pc = "idle"
  /\ t = Worker => worker.pc = "callback"
  /\ isConnected /\ clientSocket # INVALID_SOCKET
  /\ sequenceCounter + Cardinality({x \in Threads : snd[x].pc = "lock"}) <= MaxFrames
  /\ SendAt(t, "lock")
  /\ UNCHANGED <<flags, sockets, worker, owner, sendMutex, sequenceCounter, wire>>

Numbered(t) ==
  /\ sequenceCounter' = sequenceCounter + 1
  /\ snd' = [snd EXCEPT ![t] = 
              [pc |-> "send", seq |-> sequenceCounter, part |-> 1, sock |-> INVALID_SOCKET]]

\* Mutant: the lock_guard is gone.
SendUnlocked(t) ==
  /\ snd[t].pc = "lock"
  /\ Numbered(t)
  /\ UNCHANGED <<flags, sockets, worker, owner, sendMutex, wire>>

\* The lock is taken and the frame numbered.
SendLock(t) ==
  /\ snd[t].pc = "lock" /\ sendMutex = Nobody
  /\ sendMutex' = t
  /\ Numbered(t)
  /\ UNCHANGED <<flags, sockets, worker, owner, wire>>

SendReturns(t) ==
  /\ snd' = [snd EXCEPT ![t] = Resting]
  /\ sendMutex' = Nobody

\* A payload over 64 KB serializes to nothing: its number is spent.
SendTooLarge(t) ==
  /\ snd[t].pc = "send" /\ snd[t].part = 1
  /\ SendReturns(t)
  /\ UNCHANGED <<flags, sockets, worker, owner, sequenceCounter, wire>>

\* send() is called with what m_clientSocket is now: it is read again for
\* every piece.
CallSend(t) ==
  /\ snd[t].pc = "send"
  /\ snd' = [snd EXCEPT ![t].pc = "sending", ![t].sock = clientSocket]
  /\ UNCHANGED <<flags, sockets, worker, owner, sendMutex, sequenceCounter, wire>>

Written(t) == wire' = [wire EXCEPT ![snd[t].sock] = Append(@, <<snd[t].seq, snd[t].part>>)]
NextPart(t) == snd' = [snd EXCEPT ![t].pc = "send", ![t].part = @ + 1] /\ UNCHANGED sendMutex

\* Mutant: the loop runs while totalSent <= toSend.
SendPartPast(t) ==
  /\ snd[t].pc = "sending" /\ Alive(snd[t].sock)
  /\ Written(t)
  /\ IF snd[t].part > Parts THEN SendReturns(t) ELSE NextPart(t)
  /\ UNCHANGED <<flags, sockets, worker, owner, sequenceCounter>>

\* send() takes one piece; after the last one SendFrame returns.
SendPart(t) ==
  /\ snd[t].pc = "sending" /\ Alive(snd[t].sock)
  /\ Written(t)
  /\ IF snd[t].part = Parts THEN SendReturns(t) ELSE NextPart(t)
  /\ UNCHANGED <<flags, sockets, worker, owner, sequenceCounter>>

\* send() fails: whatever connection is current is declared lost.
SendFails(t) ==
  /\ snd[t].pc = "sending" /\ ~Alive(snd[t].sock)
  /\ isConnected' = FALSE
  /\ SendReturns(t)
  /\ UNCHANGED <<isRunning, sockets, worker, owner, sequenceCounter, wire>>

\* What a sender does without waiting for the network.
SendRuns(t) == SendLock(t) \/ CallSend(t) \/ (snd[t].sock \notin open /\ SendFails(t))

-----------------------------------------------------------------------------
\* The other end goes away.
PeerLeaves ==
  /\ \E s \in peers : peers' = peers \ {s}
  /\ UNCHANGED <<flags, listenSocket, clientSocket, open, used, worker, owner, sends>>

Next ==
  \/ \E what \in {"Close", "StartListener", "Connect"} : Call(what)
  \/ Owner
  \/ WorkerRuns \/ Accept \/ AcceptFails \/ RecvData \/ RecvFails
  \/ \E t \in Threads :
       SendCheck(t) \/ SendRuns(t) \/ SendTooLarge(t) \/ SendPart(t) \/ SendFails(t)
  \/ PeerLeaves

\* Threads that can run do.  Nothing is assumed of the network: accept, recv
\* and send may wait for ever while this process keeps the socket open, also
\* when the peer is gone, for the code sets no keepalive and no timeout.
Fairness ==
  /\ WF_vars(Owner) /\ WF_vars(WorkerRuns)
  /\ \A t \in Threads : WF_vars(SendRuns(t))

Spec == Init /\ [][Next]_vars /\ Fairness

-----------------------------------------------------------------------------
\* Properties

\* Members and locals have their types.
TypeOK ==
  /\ isRunning \in BOOLEAN /\ isConnected \in BOOLEAN /\ listenSocket \in BOOLEAN
  /\ clientSocket \in Sockets \cup {INVALID_SOCKET}
  /\ open \subseteq Sockets /\ peers \subseteq Sockets /\ used \in 0 .. MaxConns
  /\ worker \in [pc : {"none", "accept", "check", "publish", "connected", "loop", "call",
                       "recv", "callback"},
                 sock : Sockets \cup {INVALID_SOCKET}]
  /\ owner \in [pc : {"idle", "flags", "closeListen", "closeClient", "clearClient", "join",
                      "StartListener", "Connect"},
                call : {"none", "Close", "StartListener", "Connect"}]
  /\ snd \in [Threads -> [pc : {"idle", "lock", "send", "sending"}, seq : 0 .. MaxFrames,
                          part : 0 .. Parts, sock : Sockets \cup {INVALID_SOCKET}]]
  /\ sendMutex \in Threads \cup {Nobody}
  /\ sequenceCounter \in 1 .. (MaxFrames + 1)
  /\ \A s \in Sockets : \A i \in 1 .. Len(wire[s]) :
       wire[s][i] \in (1 .. MaxFrames) \X (1 .. Parts)

\* On a connection the pieces of a frame follow one another and sequence
\* numbers only grow, whichever threads call SendFrame (transport_spec.md:
\* "Strictly incrementing frame sequence counter").
FramesNotInterleaved ==
  \A s \in Sockets : \A i \in 1 .. (Len(wire[s]) - 1) :
    LET a == wire[s][i]
        b == wire[s][i + 1]
    IN  \/ a[1] = b[1] /\ b[2] = a[2] + 1
        \/ a[1] < b[1] /\ a[2] = Parts /\ b[2] = 1

\* A sender waits in send() on a socket that an earlier Close left open.
Stranded == \E t \in Threads : snd[t].pc = "sending" /\ snd[t].sock \in open \ {clientSocket}

\* Close, and the StartListener or Connect that begins with it, returns:
\* closing the sockets gets the worker out of accept, of recv and of a send in
\* its callback, so join ends.  The one way to hang is a sender that holds
\* m_sendMutex on a socket an earlier Close leaked (see CloseTearsDown).
CallsReturn == owner.pc # "idle" ~> (owner.pc = "idle" \/ Stranded)

\* transport_spec.md: "Close(): Teardown connection and clean up socket
\* handles": when Close returns, the transport is not connected and holds no
\* open socket.
CloseTearsDown ==
  [][owner.pc = "join" /\ owner'.pc # "join" => ~isConnected /\ open = {}]_vars

\* known_limitations.md: other clients are blocked "until the connection drops
\* or times out": once the connection has dropped and the transport has
\* noticed, a listener accepts again.
AcceptsAfterDrop ==
  \A s \in Sockets :
    (/\ clientSocket = s /\ s \notin peers /\ ~isConnected
     /\ listenSocket /\ owner.pc = "idle" /\ used < MaxConns)
      ~> (worker.pc = "accept" \/ owner.pc # "idle")

=============================================================================
