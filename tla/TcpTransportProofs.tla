------------------------- MODULE TcpTransportProofs -------------------------
(***************************************************************************)
(* Proofs about TcpTransport for any number of threads, connections,       *)
(* frames and pieces: whoever sends, and however Close, the worker and the *)
(* senders meet, the pieces on a connection follow one another.  The first *)
(* of them may be in the middle of a frame: the socket changed under it.   *)
(***************************************************************************)
EXTENDS TcpTransport, FiniteSetTheorems, TLAPS

-----------------------------------------------------------------------------
\* The inductive invariant, in parts.

SocketOrNone == Sockets \cup {INVALID_SOCKET}
Pieces == (1 .. MaxFrames) \X (1 .. Parts)

WorkerLocals ==
  [pc : {"none", "accept", "check", "publish", "connected", "loop", "call", "recv", "callback"},
   sock : SocketOrNone]
OwnerLocals ==
  [pc : {"idle", "flags", "closeListen", "closeClient", "clearClient", "join",
         "StartListener", "Connect"},
   call : {"none", "Close", "StartListener", "Connect"}]
SendLocals ==
  [pc : {"idle", "lock", "send", "sending"}, seq : 0 .. MaxFrames, part : 0 .. Parts,
   sock : SocketOrNone]

\* The threads that wait for m_sendMutex: each still has its number to take.
Waiting == {x \in Threads : snd[x].pc = "lock"}

\* The types, and that there are numbers left for those who wait.
SocketTypes ==
  /\ isRunning \in BOOLEAN /\ isConnected \in BOOLEAN /\ listenSocket \in BOOLEAN
  /\ clientSocket \in SocketOrNone
  /\ used \in 0 .. MaxConns /\ open \subseteq 1 .. used /\ peers \subseteq 1 .. used
  /\ worker \in WorkerLocals
  /\ owner \in OwnerLocals /\ (owner.pc # "idle" => owner.call # "none")

SendTypes ==
  /\ snd \in [Threads -> SendLocals]
  /\ sendMutex \in Threads \cup {Nobody}
  /\ sequenceCounter \in Nat \ {0}
  /\ sequenceCounter + Cardinality(Waiting) <= MaxFrames + 1
  /\ wire \in [Sockets -> Seq(Pieces)]

Sends(t) == snd[t].pc \in {"send", "sending"}

\* m_sendMutex is held by the thread that sends, which has the latest number;
\* no piece has a later one, and none has it before the first piece is sent.
Numbers ==
  /\ \A t \in Threads : Sends(t) <=> sendMutex = t
  /\ \A t \in Threads : Sends(t) =>
       snd[t].seq = sequenceCounter - 1 /\ snd[t].seq > 0 /\ snd[t].part > 0
  /\ \A s \in Sockets : \A i \in 1 .. Len(wire[s]) : wire[s][i][1] < sequenceCounter
  /\ \A t \in Threads : Sends(t) /\ snd[t].part = 1 =>
       \A s \in Sockets : \A i \in 1 .. Len(wire[s]) : wire[s][i][1] < snd[t].seq

\* Nothing was sent on a socket that is still to come or to be published.
Fresh ==
  /\ \A s \in Sockets : s > used => wire[s] = <<>>
  /\ clientSocket <= used /\ \A t \in Threads : snd[t].pc = "sending" => snd[t].sock <= used
  /\ worker.pc \in {"check", "publish"} =>
       /\ worker.sock \in Sockets /\ worker.sock <= used
       /\ wire[worker.sock] = <<>> /\ clientSocket # worker.sock
       /\ \A t \in Threads : snd[t].pc = "sending" => snd[t].sock # worker.sock

\* A socket that is alive and that a sender writes to or would read from
\* m_clientSocket.
Current(s) ==
  Alive(s) /\ (s = clientSocket \/ \E t \in Threads : snd[t].pc = "sending" /\ snd[t].sock = s)

Last(s) == wire[s][Len(wire[s])]

\* On a current socket the last frame is whole, unless it is the one being
\* sent; and when m_clientSocket changes under a sender, the new socket is
\* empty.
Tails ==
  /\ \A t \in Threads :
       snd[t].pc = "sending" /\ clientSocket \notin {snd[t].sock, INVALID_SOCKET} =>
         wire[clientSocket] = <<>>
  /\ \A s \in Sockets : Current(s) /\ wire[s] # <<>> =>
       \/ Last(s)[2] = Parts /\ \A t \in Threads : Sends(t) => snd[t].part = 1
       \/ \E t \in Threads : Sends(t) /\ Last(s) = <<snd[t].seq, snd[t].part - 1>>

Inv == SocketTypes /\ SendTypes /\ Numbers /\ Fresh /\ Tails /\ FramesNotInterleaved

-----------------------------------------------------------------------------
\* Steps of the owner, the worker and the peer

\* A step that sends nothing, makes no socket, and leaves m_clientSocket alone
\* or resets it.
LEMMA QuietStep ==
  ASSUME Inv, SocketTypes',
         UNCHANGED <<snd, sendMutex, sequenceCounter, wire, used>>,
         open' \subseteq open, peers' \subseteq peers,
         clientSocket' \in {clientSocket, INVALID_SOCKET},
         worker'.pc \in {"check", "publish"} =>
           worker.pc \in {"check", "publish"} /\ worker'.sock = worker.sock
  PROVE  Inv'
  <1>1. SendTypes'
    BY DEF Inv, SendTypes, Waiting
  <1>2. Numbers'
    BY DEF Inv, Numbers, Sends
  <1>3. 0 \notin Sockets /\ INVALID_SOCKET = 0 /\ used \in Nat
    BY TransportAssumption DEF Sockets, INVALID_SOCKET, Inv, SocketTypes
  <1>4. Fresh'
    BY <1>3 DEF Inv, Fresh
  <1>5. \A s \in Sockets : Current(s)' => Current(s)
    BY <1>3 DEF Current, Alive
  <1>6. Tails'
    <2>1. \A s \in Sockets : Last(s)' = Last(s)
      BY DEF Last
    <2>2. \A t \in Threads : Sends(t)' <=> Sends(t)
      BY DEF Sends
    <2>3. \A s \in Sockets : Current(s)' /\ wire[s] # <<>> =>
            \/ Last(s)[2] = Parts /\ \A t \in Threads : Sends(t) => snd[t].part = 1
            \/ \E t \in Threads : Sends(t) /\ Last(s) = <<snd[t].seq, snd[t].part - 1>>
      BY <1>5 DEF Inv, Tails
    <2>4. \A t \in Threads :
            snd[t].pc = "sending" /\ clientSocket' \notin {snd[t].sock, INVALID_SOCKET} =>
              wire[clientSocket'] = <<>>
      BY DEF Inv, Tails
    <2>5. QED
      BY <2>1, <2>2, <2>3, <2>4 DEF Tails
  <1>7. FramesNotInterleaved'
    BY DEF Inv, FramesNotInterleaved
  <1>8. QED
    BY <1>1, <1>2, <1>4, <1>6, <1>7 DEF Inv

\* The owner, but for the one call that makes a socket.
LEMMA OwnerInv ==
  ASSUME Inv, \/ CloseFlags \/ CloseListen \/ CloseClient \/ ClearClient \/ Join
              \/ StartListener
              \/ \E what \in {"Close", "StartListener", "Connect"} : Call(what)
  PROVE  Inv'
  <1>0. SocketTypes
    BY DEF Inv
  <1>1. owner' \in OwnerLocals /\ (owner'.pc # "idle" => owner'.call # "none")
    BY <1>0 DEF Call, CloseFlags, CloseListen, CloseClient, ClearClient, Join,
       StartListener, Returned, SocketTypes, OwnerLocals
  <1>2. worker' = worker \/ (worker' \in WorkerLocals /\ worker'.pc = "accept")
    BY <1>0 DEF Call, CloseFlags, CloseListen, CloseClient, ClearClient, Join,
       StartListener, SocketTypes, WorkerLocals
  <1>3. /\ UNCHANGED <<snd, sendMutex, sequenceCounter, wire, used, peers>>
        /\ open' \subseteq open /\ clientSocket' \in {clientSocket, INVALID_SOCKET}
    BY DEF Call, CloseFlags, CloseListen, CloseClient, ClearClient, Join,
       StartListener, sends, sockets
  <1>4. isRunning' \in BOOLEAN /\ isConnected' \in BOOLEAN /\ listenSocket' \in BOOLEAN
    BY <1>0 DEF Call, CloseFlags, CloseListen, CloseClient, ClearClient, Join,
       StartListener, SocketTypes, flags, sockets
  <1>5. SocketTypes'
    BY <1>0, <1>1, <1>2, <1>3, <1>4 DEF SocketTypes, SocketOrNone
  <1>6. QED
    BY <1>2, <1>3, <1>5, QuietStep

\* The worker, but for the steps that make a socket or publish it, and the
\* peer.
LEMMA WorkerInv ==
  ASSUME Inv, \/ AcceptFails \/ CheckRunning \/ PublishConnected \/ Loop \/ CallRecv
              \/ RecvFails \/ CallbackReturns \/ RecvData \/ PeerLeaves
  PROVE  Inv'
  <1>0. SocketTypes
    BY DEF Inv
  <1>1. /\ UNCHANGED <<snd, sendMutex, sequenceCounter, wire, used, open, clientSocket,
                       listenSocket, isRunning, owner>>
        /\ peers' \subseteq peers
    BY DEF AcceptFails, CheckRunning, PublishConnected, Loop, CallRecv, RecvFails,
       CallbackReturns, RecvData, PeerLeaves, sends, sockets, flags
  <1>2. isConnected' \in BOOLEAN
    BY <1>0 DEF AcceptFails, CheckRunning, PublishConnected, Loop, CallRecv, RecvFails,
       CallbackReturns, RecvData, PeerLeaves, flags, SocketTypes
  <1>3. /\ worker' \in WorkerLocals
        /\ worker'.pc \in {"check", "publish"} =>
             worker.pc \in {"check", "publish"} /\ worker'.sock = worker.sock
    <2>1. CASE WorkerEnds
      BY <2>1 DEF WorkerEnds, WorkerLocals, SocketOrNone
    <2>2. CASE CheckRunning
      BY <1>0, <2>1, <2>2 DEF CheckRunning, WorkerAt, SocketTypes, WorkerLocals
    <2>3. ASSUME NEW label \in {"loop", "callback"}, WorkerAt(label)
          PROVE  worker' \in WorkerLocals /\ worker'.pc = label
      BY <1>0, <2>3 DEF WorkerAt, SocketTypes, WorkerLocals
    <2>4. CASE PublishConnected \/ CallbackReturns \/ RecvData
      BY <2>3, <2>4 DEF PublishConnected, CallbackReturns, RecvData
    <2>5. CASE Loop
      BY <1>0, <2>1, <2>5 DEF Loop, WorkerAt, SocketTypes, WorkerLocals
    <2>6. CASE CallRecv
      BY <1>0, <2>6 DEF CallRecv, SocketTypes, WorkerLocals
    <2>7. CASE PeerLeaves
      BY <1>0, <2>7 DEF PeerLeaves, SocketTypes
    <2>8. QED
      BY <2>1, <2>2, <2>4, <2>5, <2>6, <2>7 DEF AcceptFails, RecvFails
  <1>4. SocketTypes'
    BY <1>0, <1>1, <1>2, <1>3 DEF SocketTypes
  <1>5. QED
    BY <1>1, <1>3, <1>4, QuietStep

\* A socket that is new, or that nobody but the worker has yet, is empty; to
\* make it current needs no more.
LEMMA NewCurrent ==
  ASSUME Inv, SocketTypes', NEW n \in Sockets, wire[n] = <<>>, n <= used',
         UNCHANGED <<snd, sendMutex, sequenceCounter, wire>>,
         used <= used', open' \subseteq open \cup {n}, peers' \subseteq peers \cup {n},
         clientSocket' = n, worker'.pc \notin {"check", "publish"}
  PROVE  Inv'
  <1>1. SendTypes'
    BY DEF Inv, SendTypes, Waiting
  <1>2. Numbers'
    BY DEF Inv, Numbers, Sends
  <1>3. used \in Nat /\ used' \in Nat /\ Sockets \subseteq Nat /\ SocketOrNone \subseteq Nat
    BY TransportAssumption DEF Inv, SocketTypes, Sockets, SocketOrNone, INVALID_SOCKET
  <1>4. Fresh'
    <2>1. \A t \in Threads : snd[t].pc = "sending" => snd[t].sock <= used'
      <3>1. \A t \in Threads : snd[t].sock \in Nat
        BY <1>3 DEF Inv, SendTypes, SendLocals
      <3>2. QED
        BY <1>3, <3>1 DEF Inv, Fresh
    <2>2. \A s \in Sockets : s > used' => wire[s] = <<>>
      BY <1>3 DEF Inv, Fresh
    <2>3. QED
      BY <2>1, <2>2 DEF Fresh
  <1>5. \A s \in Sockets : Current(s)' /\ wire[s] # <<>> => Current(s)
    BY DEF Current, Alive
  <1>6. Tails'
    <2>1. \A s \in Sockets : Last(s)' = Last(s)
      BY DEF Last
    <2>2. \A t \in Threads : Sends(t)' <=> Sends(t)
      BY DEF Sends
    <2>3. \A s \in Sockets : Current(s)' /\ wire[s] # <<>> =>
            \/ Last(s)[2] = Parts /\ \A t \in Threads : Sends(t) => snd[t].part = 1
            \/ \E t \in Threads : Sends(t) /\ Last(s) = <<snd[t].seq, snd[t].part - 1>>
      BY <1>5 DEF Inv, Tails
    <2>4. QED
      BY <2>1, <2>2, <2>3 DEF Tails
  <1>7. FramesNotInterleaved'
    BY DEF Inv, FramesNotInterleaved
  <1>8. QED
    BY <1>1, <1>2, <1>4, <1>6, <1>7 DEF Inv

\* Connect makes a socket and publishes it at once.
LEMMA ConnectInv ==
  ASSUME Inv, Connect
  PROVE  Inv'
  <1>0. SocketTypes
    BY DEF Inv
  <1>1. owner' \in OwnerLocals /\ owner'.pc = "idle"
    BY DEF Connect, Returned, OwnerLocals
  <1>2. UNCHANGED <<snd, sendMutex, sequenceCounter, wire, listenSocket>>
    BY DEF Connect, sends, sockets
  <1>3. CASE UNCHANGED <<flags, sockets, worker>>
    <2>1. UNCHANGED <<isRunning, isConnected, listenSocket, clientSocket, open, peers, used,
                      worker>>
      BY <1>3 DEF flags, sockets
    <2>2. SocketTypes'
      BY <1>0, <1>1, <2>1 DEF SocketTypes
    <2>3. QED
      BY <1>2, <2>1, <2>2, QuietStep
  <1>4. ASSUME NEW s \in Sockets, NewSocket(s), clientSocket' = s, isConnected' = TRUE,
               isRunning' = TRUE, worker' = [worker EXCEPT !.pc = "loop"]
        PROVE  Inv'
    <2>1. /\ used \in Nat /\ used < MaxConns /\ s = used + 1 /\ used' = used + 1
          /\ open' = open \cup {s} /\ peers' = peers \cup {s}
      BY <1>0, <1>4 DEF NewSocket, SocketTypes
    <2>2. worker' \in WorkerLocals /\ worker'.pc = "loop"
      BY <1>0, <1>4 DEF SocketTypes, WorkerLocals
    <2>3. used' \in 0 .. MaxConns /\ open' \subseteq 1 .. used' /\ peers' \subseteq 1 .. used'
      BY <1>0, <2>1, TransportAssumption DEF SocketTypes
    <2>4. SocketTypes'
      BY <1>0, <1>1, <1>2, <1>4, <2>2, <2>3 DEF SocketTypes, SocketOrNone
    <2>5. wire[s] = <<>>
      BY <2>1 DEF Inv, Fresh
    <2>6. QED
      BY <1>2, <1>4, <2>1, <2>2, <2>4, <2>5, NewCurrent
  <1>5. QED
    BY <1>3, <1>4 DEF Connect

\* The worker publishes the socket it accepted.
LEMMA PublishSocketInv ==
  ASSUME Inv, PublishSocket
  PROVE  Inv'
  <1>0. SocketTypes
    BY DEF Inv
  <1>1. /\ UNCHANGED <<snd, sendMutex, sequenceCounter, wire, listenSocket, open, peers, used,
                       owner, isRunning, isConnected>>
        /\ clientSocket' = worker.sock
    BY DEF PublishSocket, sends, flags
  <1>2. worker' \in WorkerLocals /\ worker'.pc = "connected"
    BY <1>0 DEF PublishSocket, WorkerAt, SocketTypes, WorkerLocals
  <1>3. PICK n \in Sockets : n = worker.sock /\ wire[n] = <<>> /\ n <= used
    BY DEF PublishSocket, Inv, Fresh
  <1>4. SocketTypes'
    BY <1>0, <1>1, <1>2, <1>3 DEF SocketTypes, SocketOrNone
  <1>5. QED
    BY <1>0, <1>1, <1>2, <1>3, <1>4, NewCurrent DEF SocketTypes

\* accept makes a socket that is the worker's alone.
LEMMA AcceptInv ==
  ASSUME Inv, Accept
  PROVE  Inv'
  <1>0. SocketTypes
    BY DEF Inv
  <1>1. UNCHANGED <<snd, sendMutex, sequenceCounter, wire, listenSocket, clientSocket, owner,
                    isRunning, isConnected>>
    BY DEF Accept, sends, flags
  <1>2. PICK n \in Sockets : NewSocket(n) /\ worker' = [pc |-> "check", sock |-> n]
    BY DEF Accept
  <1>3. /\ used \in Nat /\ used < MaxConns /\ n = used + 1 /\ used' = used + 1
        /\ open' = open \cup {n} /\ peers' = peers \cup {n}
    BY <1>0, <1>2 DEF NewSocket, SocketTypes
  <1>4. worker' \in WorkerLocals /\ worker'.pc = "check" /\ worker'.sock = n
    BY <1>2 DEF WorkerLocals, SocketOrNone
  <1>5. used' \in 0 .. MaxConns /\ open' \subseteq 1 .. used' /\ peers' \subseteq 1 .. used'
    BY <1>0, <1>3, TransportAssumption DEF SocketTypes
  <1>6. SocketTypes'
    BY <1>0, <1>1, <1>4, <1>5 DEF SocketTypes
  <1>7. SendTypes' /\ Numbers' /\ FramesNotInterleaved'
    BY <1>1 DEF Inv, SendTypes, Waiting, Numbers, Sends, FramesNotInterleaved
  <1>8. /\ clientSocket \in Nat /\ clientSocket <= used
        /\ \A t \in Threads : snd[t].sock \in Nat /\ (snd[t].pc = "sending" => snd[t].sock <= used)
    <2>1. SocketOrNone \subseteq Nat
      BY TransportAssumption DEF Sockets, SocketOrNone, INVALID_SOCKET
    <2>2. QED
      BY <2>1 DEF Inv, SocketTypes, SendTypes, SendLocals, Fresh
  <1>9. wire[n] = <<>> /\ \A s \in Sockets : s > used' => wire[s] = <<>>
    <2>1. Sockets \subseteq Nat
      BY TransportAssumption DEF Sockets
    <2>2. QED
      BY <1>3, <2>1 DEF Inv, Fresh
  <1>10. Fresh'
    <2>1. clientSocket <= used' /\ clientSocket # n
      BY <1>3, <1>8
    <2>2. \A t \in Threads : snd[t].pc = "sending" => snd[t].sock <= used' /\ snd[t].sock # n
      BY <1>3, <1>8
    <2>3. n <= used'
      BY <1>3
    <2>4. QED
      BY <1>1, <1>4, <1>9, <2>1, <2>2, <2>3 DEF Fresh
  <1>11. Tails'
    <2>1. \A s \in Sockets : Current(s)' /\ wire[s] # <<>> => Current(s)
      BY <1>1, <1>3, <1>9 DEF Current, Alive
    <2>2. \A s \in Sockets : Last(s)' = Last(s)
      BY <1>1 DEF Last
    <2>3. \A t \in Threads : Sends(t)' <=> Sends(t)
      BY <1>1 DEF Sends
    <2>4. \A s \in Sockets : Current(s)' /\ wire[s] # <<>> =>
            \/ Last(s)[2] = Parts /\ \A t \in Threads : Sends(t) => snd[t].part = 1
            \/ \E t \in Threads : Sends(t) /\ Last(s) = <<snd[t].seq, snd[t].part - 1>>
      BY <2>1 DEF Inv, Tails
    <2>5. QED
      BY <1>1, <2>2, <2>3, <2>4 DEF Inv, Tails
  <1>12. QED
    BY <1>6, <1>7, <1>10, <1>11 DEF Inv

-----------------------------------------------------------------------------
\* SendFrame

\* One more thread in a set of threads, and one less.
LEMMA CountFacts ==
  ASSUME NEW S, S \subseteq Threads, NEW t \in Threads
  PROVE  /\ Cardinality(S) \in Nat
         /\ t \notin S => Cardinality(S \cup {t}) = Cardinality(S) + 1
         /\ t \in S => Cardinality(S \ {t}) = Cardinality(S) - 1 /\ Cardinality(S) > 0
  <1>1. IsFiniteSet(Threads)
    BY TransportAssumption, FS_AddElement DEF Threads
  <1>2. IsFiniteSet(S) /\ Cardinality(S) \in Nat
    BY <1>1, FS_Subset, FS_CardinalityType
  <1>3. t \in S => Cardinality(S) # 0
    BY <1>2, FS_EmptySet
  <1>4. t \notin S => Cardinality(S \cup {t}) = Cardinality(S) + 1
    BY <1>2, FS_AddElement
  <1>5. t \in S => Cardinality(S \ {t}) = Cardinality(S) - 1
    BY <1>2, FS_RemoveElement
  <1>6. t \in S => Cardinality(S) > 0
    BY <1>2, <1>3
  <1>7. QED
    BY <1>2, <1>4, <1>5, <1>6

\* A thread that takes a step of SendFrame, the others standing still.
LEMMA SendMoves ==
  ASSUME SendTypes, NEW t \in Threads, NEW r \in SendLocals, snd' = [snd EXCEPT ![t] = r]
  PROVE  /\ snd' \in [Threads -> SendLocals]
         /\ snd'[t] = r /\ \A u \in Threads : u # t => snd'[u] = snd[u]
  BY DEF SendTypes

\* The sockets are not the senders' business.
LEMMA SendSockets ==
  ASSUME Inv, UNCHANGED <<sockets, worker, owner, isRunning>>, isConnected' \in BOOLEAN
  PROVE  SocketTypes'
  BY DEF Inv, SocketTypes, sockets

\* The test before the lock: one more waits, and there is a number for it.
LEMMA SendCheckInv ==
  ASSUME Inv, NEW t \in Threads, SendCheck(t)
  PROVE  Inv'
  <1>0. SendTypes
    BY DEF Inv
  <1>1. /\ UNCHANGED <<sockets, worker, owner, isRunning, isConnected, sendMutex,
                       sequenceCounter, wire>>
        /\ UNCHANGED <<clientSocket, open, peers, used>>
    BY DEF SendCheck, flags, sockets
  <1>2. SocketTypes'
    BY <1>1, SendSockets DEF Inv, SocketTypes
  <1>3. /\ snd' \in [Threads -> SendLocals] /\ snd[t].pc = "idle" /\ snd'[t].pc = "lock"
        /\ \A u \in Threads : u # t => snd'[u] = snd[u]
    BY <1>0 DEF SendCheck, SendAt, SendTypes, SendLocals
  <1>4. Waiting' = Waiting \cup {t} /\ t \notin Waiting /\ Waiting \subseteq Threads
    BY <1>3 DEF Waiting
  <1>5. sequenceCounter + Cardinality(Waiting') <= MaxFrames + 1
    <2>1. Cardinality(Waiting') = Cardinality(Waiting) + 1 /\ Cardinality(Waiting) \in Nat
      BY <1>4, CountFacts
    <2>2. sequenceCounter + Cardinality(Waiting) <= MaxFrames
      BY DEF SendCheck, Waiting
    <2>3. QED
      BY <1>0, <2>1, <2>2, TransportAssumption DEF SendTypes
  <1>6. SendTypes'
    BY <1>0, <1>1, <1>3, <1>5 DEF SendTypes
  <1>7. \A u \in Threads : /\ snd'[u].pc \in {"send", "sending"} => snd'[u] = snd[u]
                           /\ snd[u].pc \in {"send", "sending"} => snd'[u] = snd[u]
    BY <1>3
  <1>8. Numbers'
    BY <1>1, <1>7 DEF Inv, Numbers, Sends
  <1>9. Fresh'
    BY <1>1, <1>7 DEF Inv, Fresh
  <1>10. Tails'
    BY <1>1, <1>7 DEF Inv, Tails, Sends, Current, Alive, Last
  <1>11. FramesNotInterleaved'
    BY <1>1 DEF Inv, FramesNotInterleaved
  <1>12. QED
    BY <1>2, <1>6, <1>8, <1>9, <1>10, <1>11 DEF Inv

\* The lock is free, so nobody sends; the frame gets the next number, of which
\* there is no piece yet.
LEMMA SendLockInv ==
  ASSUME Inv, NEW t \in Threads, SendLock(t)
  PROVE  Inv'
  <1>0. SendTypes
    BY DEF Inv
  <1>1. UNCHANGED <<sockets, worker, owner, isRunning, isConnected, wire, clientSocket, open,
                    peers, used>>
    BY DEF SendLock, flags, sockets
  <1>2. SocketTypes'
    BY <1>1, SendSockets DEF Inv, SocketTypes
  <1>3. Nobody \notin Threads
    BY TransportAssumption DEF Nobody, Threads
  <1>4. \A u \in Threads : ~Sends(u)
    BY <1>3 DEF SendLock, Inv, Numbers
  <1>5. t \in Waiting /\ Waiting \subseteq Threads /\ snd[t].pc = "lock"
    BY DEF SendLock, Waiting
  <1>6. /\ Cardinality(Waiting) \in Nat /\ Cardinality(Waiting) > 0
        /\ Cardinality(Waiting \ {t}) = Cardinality(Waiting) - 1
    BY <1>5, CountFacts
  <1>7. sequenceCounter \in 1 .. MaxFrames
    BY <1>0, <1>6, TransportAssumption DEF SendTypes
  <1>8. PICK r \in SendLocals :
          /\ r = [pc |-> "send", seq |-> sequenceCounter, part |-> 1, sock |-> INVALID_SOCKET]
          /\ snd' = [snd EXCEPT ![t] = r]
    <2>1. [pc |-> "send", seq |-> sequenceCounter, part |-> 1, sock |-> INVALID_SOCKET]
            \in SendLocals
      BY <1>7, TransportAssumption DEF SendLocals, SocketOrNone
    <2>2. QED
      BY <2>1 DEF SendLock, Numbered
  <1>9. /\ snd' \in [Threads -> SendLocals] /\ snd'[t] = r
        /\ \A u \in Threads : u # t => snd'[u] = snd[u]
    BY <1>0, <1>8, SendMoves
  <1>10. /\ snd'[t].pc = "send" /\ snd'[t].seq = sequenceCounter /\ snd'[t].part = 1
         /\ sequenceCounter' = sequenceCounter + 1 /\ sendMutex' = t
    BY <1>8, <1>9 DEF SendLock, Numbered
  <1>11. Waiting' = Waiting \ {t}
    BY <1>9, <1>10 DEF Waiting
  <1>12. SendTypes'
    <2>1. sequenceCounter' \in Nat \ {0}
      BY <1>7, <1>10
    <2>2. sequenceCounter' + Cardinality(Waiting') <= MaxFrames + 1
      BY <1>0, <1>6, <1>10, <1>11, TransportAssumption DEF SendTypes
    <2>3. QED
      BY <1>0, <1>1, <1>9, <1>10, <2>1, <2>2 DEF SendTypes
  <1>13. \A u \in Threads : Sends(u)' <=> u = t
    BY <1>4, <1>9, <1>10 DEF Sends
  <1>14. Numbers'
    <2>1. \A s \in Sockets : \A i \in 1 .. Len(wire[s]) :
            wire[s][i][1] \in Nat /\ wire[s][i][1] < sequenceCounter
      <3>1. \A s \in Sockets : \A i \in 1 .. Len(wire[s]) : wire[s][i] \in Pieces
        BY <1>0 DEF SendTypes
      <3>2. QED
        BY <3>1 DEF Inv, Numbers, Pieces
    <2>2. \A s \in Sockets : \A i \in 1 .. Len(wire[s]) : wire[s][i][1] < sequenceCounter'
      BY <1>7, <1>10, <2>1
    <2>3. snd'[t].seq = sequenceCounter' - 1 /\ snd'[t].seq > 0 /\ snd'[t].part > 0
      BY <1>7, <1>10
    <2>4. QED
      BY <1>1, <1>10, <1>13, <2>1, <2>2, <2>3 DEF Numbers
  <1>15. \A u \in Threads : snd'[u].pc = "sending" => u # t /\ snd[u].pc = "sending"
    BY <1>9, <1>10
  <1>16. \A u \in Threads : snd'[u].pc # "sending"
    BY <1>4, <1>15 DEF Sends
  <1>17. Fresh'
    BY <1>1, <1>16 DEF Inv, Fresh
  <1>18. Tails'
    <2>1. \A s \in Sockets : Current(s)' => Current(s)
      BY <1>1, <1>16 DEF Current, Alive
    <2>2. \A s \in Sockets : Current(s)' /\ wire[s] # <<>> => Last(s)[2] = Parts
      BY <1>4, <2>1 DEF Inv, Tails
    <2>3. QED
      BY <1>1, <1>10, <1>13, <1>16, <2>2 DEF Tails, Last
  <1>19. FramesNotInterleaved'
    BY <1>1 DEF Inv, FramesNotInterleaved
  <1>20. QED
    BY <1>2, <1>12, <1>14, <1>17, <1>18, <1>19 DEF Inv

\* send() is given m_clientSocket.
LEMMA CallSendInv ==
  ASSUME Inv, NEW t \in Threads, CallSend(t)
  PROVE  Inv'
  <1>0. SendTypes
    BY DEF Inv
  <1>1. UNCHANGED <<sockets, worker, owner, isRunning, isConnected, wire, clientSocket, open,
                    peers, used, sendMutex, sequenceCounter>>
    BY DEF CallSend, flags, sockets
  <1>2. SocketTypes'
    BY <1>1, SendSockets DEF Inv, SocketTypes
  <1>3. /\ snd' \in [Threads -> SendLocals] /\ snd[t].pc = "send"
        /\ snd'[t].pc = "sending" /\ snd'[t].sock = clientSocket
        /\ snd'[t].seq = snd[t].seq /\ snd'[t].part = snd[t].part
        /\ \A u \in Threads : u # t => snd'[u] = snd[u]
    BY <1>0 DEF CallSend, SendTypes, SendLocals, Inv, SocketTypes
  <1>4. Waiting' = Waiting
    BY <1>3 DEF Waiting
  <1>5. SendTypes'
    BY <1>0, <1>1, <1>3, <1>4 DEF SendTypes
  <1>6. \A u \in Threads : /\ Sends(u)' <=> Sends(u)
                           /\ snd'[u].seq = snd[u].seq /\ snd'[u].part = snd[u].part
    BY <1>3 DEF Sends
  <1>7. Numbers'
    BY <1>1, <1>6 DEF Inv, Numbers
  <1>8. \A u \in Threads : snd'[u].pc = "sending" =>
          \/ snd'[u].sock = clientSocket
          \/ snd[u].pc = "sending" /\ snd'[u].sock = snd[u].sock
    BY <1>3
  <1>9. Fresh'
    BY <1>1, <1>8 DEF Inv, Fresh
  <1>10. Tails'
    <2>1. \A s \in Sockets : Current(s)' => Current(s)
      BY <1>1, <1>8 DEF Current, Alive
    <2>2. QED
      BY <1>1, <1>6, <1>8, <2>1 DEF Inv, Tails, Last
  <1>11. FramesNotInterleaved'
    BY <1>1 DEF Inv, FramesNotInterleaved
  <1>12. QED
    BY <1>2, <1>5, <1>7, <1>9, <1>10, <1>11 DEF Inv

\* The thread that sends is the only one that does.
LEMMA OneSender ==
  ASSUME Inv, NEW t \in Threads, Sends(t)
  PROVE  \A u \in Threads : Sends(u) <=> u = t
  BY DEF Inv, Numbers

\* SendFrame returns with nothing more to send, or leaves a frame in pieces on
\* a socket that nobody will write to again.
LEMMA ReturnsInv ==
  ASSUME Inv, NEW t \in Threads, Sends(t), SendReturns(t), isConnected' \in BOOLEAN,
         UNCHANGED <<sockets, worker, owner, isRunning, wire, sequenceCounter>>,
         Alive(clientSocket) /\ wire[clientSocket] # <<>> => Last(clientSocket)[2] = Parts
  PROVE  Inv'
  <1>0. SendTypes
    BY DEF Inv
  <1>1. UNCHANGED <<clientSocket, open, peers, used>>
    BY DEF sockets
  <1>2. SocketTypes'
    BY SendSockets
  <1>3. Resting \in SendLocals /\ Resting.pc = "idle"
    BY TransportAssumption DEF Resting, SendLocals, SocketOrNone
  <1>4. /\ snd' \in [Threads -> SendLocals] /\ snd'[t].pc = "idle"
        /\ \A u \in Threads : u # t => snd'[u] = snd[u]
    BY <1>0, <1>3, SendMoves DEF SendReturns
  <1>5. Waiting' = Waiting
    BY <1>4 DEF Waiting, Sends
  <1>6. sendMutex' = Nobody /\ Nobody \notin Threads
    BY TransportAssumption DEF SendReturns, Nobody, Threads
  <1>7. SendTypes'
    BY <1>0, <1>4, <1>5, <1>6 DEF SendTypes
  <1>8. \A u \in Threads : ~Sends(u)'
    BY <1>4, OneSender DEF Sends
  <1>9. Numbers'
    BY <1>6, <1>8 DEF Inv, Numbers
  <1>10. \A u \in Threads : snd'[u].pc # "sending"
    BY <1>8 DEF Sends
  <1>11. Fresh'
    BY <1>1, <1>10 DEF Inv, Fresh
  <1>12. Tails'
    BY <1>1, <1>8, <1>10 DEF Tails, Current, Alive, Last
  <1>13. FramesNotInterleaved'
    BY DEF Inv, FramesNotInterleaved
  <1>14. QED
    BY <1>2, <1>7, <1>9, <1>11, <1>12, <1>13 DEF Inv

\* A socket that senders read from m_clientSocket is one of the sockets.
LEMMA AliveFacts ==
  ASSUME Inv, NEW s, Alive(s)
  PROVE  s \in Sockets /\ s # INVALID_SOCKET
  BY TransportAssumption DEF Inv, SocketTypes, Alive, Sockets, INVALID_SOCKET

\* A payload that is too large is found out before the first piece.
LEMMA SendTooLargeInv ==
  ASSUME Inv, NEW t \in Threads, SendTooLarge(t)
  PROVE  Inv'
  <1>1. /\ Sends(t) /\ snd[t].part = 1 /\ SendReturns(t) /\ UNCHANGED <<isConnected, isRunning>>
        /\ UNCHANGED <<sockets, worker, owner, wire, sequenceCounter>>
    BY DEF SendTooLarge, Sends, flags
  <1>2. ASSUME Alive(clientSocket), wire[clientSocket] # <<>>
        PROVE  Last(clientSocket)[2] = Parts
    <2>1. clientSocket \in Sockets /\ Current(clientSocket)
      BY <1>2, AliveFacts DEF Current
    <2>2. CASE \E u \in Threads :
                 Sends(u) /\ Last(clientSocket) = <<snd[u].seq, snd[u].part - 1>>
      <3>1. Last(clientSocket) = <<snd[t].seq, 0>>
        BY <1>1, <2>2, OneSender
      <3>2. Last(clientSocket) \in Pieces
        BY <1>2, <2>1 DEF Inv, SendTypes, Last
      <3>3. QED
        BY <3>1, <3>2 DEF Pieces
    <2>3. QED
      BY <1>2, <2>1, <2>2 DEF Inv, Tails
  <1>3. isConnected' \in BOOLEAN
    BY <1>1 DEF Inv, SocketTypes
  <1>4. QED
    BY <1>1, <1>2, <1>3, ReturnsInv

\* A send that fails leaves its frame unfinished on a socket that stays dead;
\* if m_clientSocket is another one by now, that one is empty.
LEMMA SendFailsInv ==
  ASSUME Inv, NEW t \in Threads, SendFails(t)
  PROVE  Inv'
  <1>1. /\ Sends(t) /\ snd[t].pc = "sending" /\ ~Alive(snd[t].sock) /\ SendReturns(t)
        /\ isConnected' = FALSE
        /\ UNCHANGED <<sockets, worker, owner, isRunning, wire, sequenceCounter>>
    BY DEF SendFails, Sends
  <1>2. ASSUME Alive(clientSocket), wire[clientSocket] # <<>>
        PROVE  FALSE
    <2>1. clientSocket # snd[t].sock /\ clientSocket # INVALID_SOCKET
      BY <1>1, <1>2, AliveFacts
    <2>2. QED
      BY <1>1, <1>2, <2>1 DEF Inv, Tails
  <1>3. QED
    BY <1>1, <1>2, ReturnsInv

\* A piece follows the piece before it, or begins a frame after a whole one.
LEMMA SendPartInv ==
  ASSUME Inv, NEW t \in Threads, SendPart(t)
  PROVE  Inv'
  <1>0. SendTypes
    BY DEF Inv
  <1>1. /\ Sends(t) /\ snd[t].pc = "sending" /\ Alive(snd[t].sock)
        /\ UNCHANGED <<sockets, worker, owner, isRunning, isConnected, sequenceCounter>>
        /\ UNCHANGED <<clientSocket, open, peers, used>>
    BY DEF SendPart, Sends, flags, sockets
  <1>2. PICK n \in Sockets : n = snd[t].sock
    BY <1>1, AliveFacts
  <1>3. /\ snd[t].seq \in 1 .. MaxFrames /\ snd[t].part \in 1 .. Parts
        /\ snd[t].seq = sequenceCounter - 1
    <2>1. snd[t].seq \in 0 .. MaxFrames /\ snd[t].part \in 0 .. Parts
      BY <1>0 DEF SendTypes, SendLocals
    <2>2. QED
      BY <1>1, <2>1, TransportAssumption DEF Inv, Numbers
  <1>4. PICK p \in Pieces : p = <<snd[t].seq, snd[t].part>>
    BY <1>3 DEF Pieces
  <1>5. wire[n] \in Seq(Pieces) /\ wire' = [wire EXCEPT ![n] = Append(wire[n], p)]
    BY <1>0, <1>2, <1>4 DEF SendPart, Written, SendTypes
  <1>6. /\ wire' \in [Sockets -> Seq(Pieces)]
        /\ wire'[n] = Append(wire[n], p) /\ \A s \in Sockets : s # n => wire'[s] = wire[s]
    BY <1>0, <1>5 DEF SendTypes
  <1>7. /\ Len(wire'[n]) = Len(wire[n]) + 1 /\ Len(wire[n]) \in Nat
        /\ wire'[n][Len(wire[n]) + 1] = p
        /\ \A i \in 1 .. Len(wire[n]) : wire'[n][i] = wire[n][i]
    BY <1>5, <1>6
  \* What follows the last piece of the socket.
  <1>8. wire[n] # <<>> =>
          \/ Last(n)[1] = p[1] /\ p[2] = Last(n)[2] + 1
          \/ Last(n)[1] < p[1] /\ Last(n)[2] = Parts /\ p[2] = 1
    <2> SUFFICES ASSUME wire[n] # <<>>
                 PROVE  \/ Last(n)[1] = p[1] /\ p[2] = Last(n)[2] + 1
                        \/ Last(n)[1] < p[1] /\ Last(n)[2] = Parts /\ p[2] = 1
      OBVIOUS
    <2>1. Current(n) /\ Len(wire[n]) \in 1 .. Len(wire[n])
      BY <1>1, <1>2, <1>5 DEF Current
    <2>2. p[1] = snd[t].seq /\ p[2] = snd[t].part
      BY <1>4
    <2>3. CASE Last(n)[2] = Parts /\ \A u \in Threads : Sends(u) => snd[u].part = 1
      <3>1. Last(n)[1] < snd[t].seq
        BY <1>1, <2>1, <2>3 DEF Inv, Numbers, Last
      <3>2. QED
        BY <1>1, <2>2, <2>3, <3>1
    <2>4. CASE \E u \in Threads : Sends(u) /\ Last(n) = <<snd[u].seq, snd[u].part - 1>>
      <3>1. Last(n) = <<snd[t].seq, snd[t].part - 1>>
        BY <1>1, <2>4, OneSender
      <3>2. QED
        BY <1>3, <2>2, <3>1
    <2>5. QED
      BY <2>1, <2>3, <2>4 DEF Inv, Tails
  <1>9. FramesNotInterleaved'
    <2>1. SUFFICES ASSUME NEW s \in Sockets, NEW i \in 1 .. (Len(wire'[s]) - 1)
                   PROVE  \/ /\ wire'[s][i][1] = wire'[s][i + 1][1]
                             /\ wire'[s][i + 1][2] = wire'[s][i][2] + 1
                          \/ /\ wire'[s][i][1] < wire'[s][i + 1][1]
                             /\ wire'[s][i][2] = Parts /\ wire'[s][i + 1][2] = 1
      BY DEF FramesNotInterleaved
    <2>2. CASE s # n
      BY <1>6, <2>2 DEF Inv, FramesNotInterleaved
    <2>3. CASE s = n /\ i < Len(wire[n])
      <3>1. /\ i \in 1 .. (Len(wire[n]) - 1)
            /\ wire'[n][i] = wire[n][i] /\ wire'[n][i + 1] = wire[n][i + 1]
        BY <1>7, <2>3
      <3>2. QED
        BY <2>3, <3>1 DEF Inv, FramesNotInterleaved
    <2>4. CASE s = n /\ i = Len(wire[n])
      <3>1. wire[n] # <<>> /\ wire'[n][i] = Last(n) /\ wire'[n][i + 1] = p
        BY <1>5, <1>7, <2>4 DEF Last
      <3>2. QED
        BY <1>8, <2>4, <3>1
    <2>5. QED
      BY <1>7, <2>2, <2>3, <2>4
  \* The sender goes on to its next piece or returns.
  <1>10. /\ snd' \in [Threads -> SendLocals]
         /\ \A u \in Threads : u # t => snd'[u] = snd[u]
         /\ \/ snd[t].part = Parts /\ snd'[t].pc = "idle" /\ sendMutex' = Nobody
            \/ /\ snd[t].part # Parts /\ sendMutex' = sendMutex
               /\ snd'[t].pc = "send" /\ snd'[t].seq = snd[t].seq
               /\ snd'[t].part = snd[t].part + 1
    <2>1. CASE snd[t].part = Parts
      <3>1. Resting \in SendLocals /\ Resting.pc = "idle"
        BY TransportAssumption DEF Resting, SendLocals, SocketOrNone
      <3>2. QED
        BY <1>0, <2>1, <3>1, SendMoves DEF SendPart, SendReturns
    <2>2. CASE snd[t].part # Parts
      <3>1. snd[t].part + 1 \in 0 .. Parts
        BY <1>3, <2>2, TransportAssumption
      <3>2. snd' = [snd EXCEPT ![t].pc = "send", ![t].part = @ + 1] /\ sendMutex' = sendMutex
        BY <2>2 DEF SendPart, NextPart
      <3>3. QED
        BY <1>0, <2>2, <3>1, <3>2 DEF SendTypes, SendLocals
    <2>3. QED
      BY <2>1, <2>2
  <1>11. \A u \in Threads : /\ snd'[u].pc # "sending"
                            /\ Sends(u)' <=> (u = t /\ snd[t].part # Parts)
    BY <1>1, <1>10, OneSender DEF Sends
  <1>12. SocketTypes'
    BY <1>1, SendSockets DEF Inv, SocketTypes
  <1>13. SendTypes'
    <2>1. Waiting' = Waiting
      BY <1>1, <1>10 DEF Waiting
    <2>2. sendMutex' \in Threads \cup {Nobody}
      BY <1>0, <1>10 DEF SendTypes
    <2>3. QED
      BY <1>0, <1>1, <1>6, <1>10, <2>1, <2>2 DEF SendTypes
  <1>14. Numbers'
    <2>1. Nobody \notin Threads /\ sendMutex = t
      BY <1>1, TransportAssumption DEF Nobody, Threads, Inv, Numbers
    <2>2. \A u \in Threads : Sends(u)' <=> sendMutex' = u
      BY <1>10, <1>11, <2>1
    <2>3. \A s \in Sockets : \A i \in 1 .. Len(wire'[s]) : wire'[s][i][1] < sequenceCounter
      <3>1. p[1] < sequenceCounter
        BY <1>0, <1>3, <1>4, TransportAssumption DEF SendTypes
      <3>2. \A i \in 1 .. Len(wire'[n]) : i \in 1 .. Len(wire[n]) \/ i = Len(wire[n]) + 1
        BY <1>7
      <3>3. QED
        BY <1>6, <1>7, <3>1, <3>2 DEF Inv, Numbers
    <2>4. snd[t].part # Parts =>
            /\ snd'[t].seq = sequenceCounter - 1 /\ snd'[t].seq > 0 /\ snd'[t].part > 0
            /\ snd'[t].part # 1
      BY <1>3, <1>10, TransportAssumption
    <2>5. QED
      BY <1>1, <1>11, <2>2, <2>3, <2>4 DEF Numbers
  <1>15. Fresh'
    <2>1. \A s \in Sockets : s > used => s # n
      <3>1. n <= used /\ n \in Nat /\ used \in Nat
        BY <1>1, <1>2, TransportAssumption DEF Inv, Fresh, Sockets, SocketTypes
      <3>2. QED
        BY <3>1
    <2>2. worker.pc \in {"check", "publish"} => worker.sock # n
      BY <1>1, <1>2 DEF Inv, Fresh
    <2>3. QED
      BY <1>1, <1>6, <1>11, <2>1, <2>2 DEF Inv, Fresh
  <1>16. Tails'
    <2>1. SUFFICES ASSUME NEW s \in Sockets, Current(s)', wire'[s] # <<>>
                   PROVE  \/ Last(s)'[2] = Parts /\ snd[t].part = Parts
                          \/ Sends(t)' /\ Last(s)' = <<snd'[t].seq, snd'[t].part - 1>>
      BY <1>11 DEF Tails
    <2>2. s = clientSocket /\ s # INVALID_SOCKET
      BY <1>1, <1>11, <2>1, TransportAssumption DEF Current, Sockets, INVALID_SOCKET
    <2>3. s = n
      BY <1>1, <1>2, <1>6, <2>1, <2>2 DEF Inv, Tails
    <2>4. Last(s)' = p
      BY <1>7, <2>3 DEF Last
    <2>5. CASE snd[t].part = Parts
      BY <1>4, <2>4, <2>5
    <2>6. CASE snd[t].part # Parts
      <3>1. snd'[t].part - 1 = snd[t].part /\ snd'[t].seq = snd[t].seq
        BY <1>3, <1>10, <2>6
      <3>2. QED
        BY <1>4, <1>11, <2>4, <2>6, <3>1
    <2>7. QED
      BY <2>5, <2>6
  <1>17. QED
    BY <1>9, <1>12, <1>13, <1>14, <1>15, <1>16 DEF Inv

-----------------------------------------------------------------------------
\* The transport

\* An object just made has sent nothing.
LEMMA InitInv == Init => Inv
  <1> SUFFICES ASSUME Init PROVE Inv
    OBVIOUS
  <1>1. SocketTypes
    <2>1. INVALID_SOCKET \in SocketOrNone
      BY DEF SocketOrNone
    <2>2. worker \in WorkerLocals
      BY <2>1 DEF Init, WorkerLocals
    <2>3. owner \in OwnerLocals /\ owner.pc = "idle"
      BY DEF Init, OwnerLocals
    <2>4. used \in 0 .. MaxConns
      BY TransportAssumption DEF Init
    <2>5. QED
      BY <2>1, <2>2, <2>3, <2>4 DEF Init, SocketTypes
  <1>2. /\ snd \in [Threads -> SendLocals]
        /\ \A t \in Threads : snd[t].pc = "idle"
    BY TransportAssumption DEF Init, Resting, SendLocals, SocketOrNone
  <1>3. Waiting = {}
    BY <1>2 DEF Waiting
  <1>4. SendTypes
    <2>1. sequenceCounter + Cardinality(Waiting) <= MaxFrames + 1
      BY <1>3, FS_EmptySet, TransportAssumption DEF Init
    <2>2. QED
      BY <1>2, <2>1 DEF Init, SendTypes
  <1>5. Nobody \notin Threads
    BY TransportAssumption DEF Nobody, Threads
  <1>6. \A s \in Sockets : wire[s] = <<>> /\ Len(wire[s]) = 0
    BY DEF Init
  <1>7. Numbers
    BY <1>2, <1>5, <1>6 DEF Init, Numbers, Sends
  <1>8. Fresh
    BY <1>2, <1>6 DEF Init, Fresh, INVALID_SOCKET
  <1>9. Tails
    BY <1>2, <1>6 DEF Tails
  <1>10. FramesNotInterleaved
    BY <1>6 DEF FramesNotInterleaved
  <1>11. QED
    BY <1>1, <1>4, <1>7, <1>8, <1>9, <1>10 DEF Inv

\* Every step keeps frames whole.
LEMMA NextInv == Inv /\ [Next]_vars => Inv'
  <1> SUFFICES ASSUME Inv, [Next]_vars PROVE Inv'
    OBVIOUS
  <1>1. CASE UNCHANGED vars
    <2>1. SocketTypes'
      BY <1>1 DEF vars, Inv, SocketTypes
    <2>2. QED
      BY <1>1, <2>1, QuietStep DEF vars
  <1>2. ASSUME NEW t \in Threads,
               SendCheck(t) \/ SendRuns(t) \/ SendTooLarge(t) \/ SendPart(t) \/ SendFails(t)
        PROVE  Inv'
    BY <1>2, SendCheckInv, SendLockInv, CallSendInv, SendFailsInv, SendTooLargeInv, SendPartInv
       DEF SendRuns
  <1>3. CASE Owner \/ \E what \in {"Close", "StartListener", "Connect"} : Call(what)
    BY <1>3, OwnerInv, ConnectInv DEF Owner
  <1>4. CASE WorkerRuns \/ Accept \/ AcceptFails \/ RecvData \/ RecvFails \/ PeerLeaves
    BY <1>4, WorkerInv, AcceptInv, PublishSocketInv DEF WorkerRuns
  <1>5. QED
    BY <1>1, <1>2, <1>3, <1>4 DEF Next

\* Members and locals have their types; in particular a frame always finds a
\* number within the bound.
THEOREM TransportTypeCorrect == Spec => []TypeOK
  <1>1. Inv => TypeOK
    <2> SUFFICES ASSUME Inv PROVE TypeOK
      OBVIOUS
    <2>1. open \subseteq Sockets /\ peers \subseteq Sockets
      BY TransportAssumption DEF Inv, SocketTypes, Sockets
    <2>2. sequenceCounter \in 1 .. (MaxFrames + 1)
      <3>1. Cardinality(Waiting) \in Nat
        <4>1. Waiting \subseteq Threads /\ Worker \in Threads
          BY DEF Waiting, Threads
        <4>2. QED
          BY <4>1, CountFacts
      <3>2. QED
        BY <3>1, TransportAssumption DEF Inv, SendTypes
    <2>3. \A s \in Sockets : \A i \in 1 .. Len(wire[s]) : wire[s][i] \in Pieces
      BY DEF Inv, SendTypes
    <2>4. QED
      BY <2>1, <2>2, <2>3 DEF Inv, SocketTypes, SendTypes, TypeOK, WorkerLocals, OwnerLocals,
         SendLocals, SocketOrNone, Pieces
  <1>2. QED
    BY <1>1, InitInv, NextInv, PTL DEF Spec

\* On a connection the pieces of a frame follow one another and sequence
\* numbers only grow, for any number of threads that call SendFrame, though
\* m_clientSocket is read again for every piece and changes under the lock.
THEOREM FramesNotInterleavedAlways == Spec => []FramesNotInterleaved
  <1>1. Inv => FramesNotInterleaved
    BY DEF Inv
  <1>2. QED
    BY <1>1, InitInv, NextInv, PTL DEF Spec

=============================================================================
