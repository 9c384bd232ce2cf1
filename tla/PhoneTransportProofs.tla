------------------------ MODULE PhoneTransportProofs ------------------------
(***************************************************************************)
(* Proofs about PhoneTransport for any number of taps: as long as the user *)
(* lets each connect and close finish before the next one, the phone leaks *)
(* no socket and is heard on the connection it says it has, however late   *)
(* the receive loops of earlier connections run.                           *)
(***************************************************************************)
EXTENDS PhoneTransport, TLAPS

-----------------------------------------------------------------------------
\* The inductive invariant, in parts.

\* The types with the shape of a send made explicit: what is sent is the
\* user's business.
Types ==
  /\ TransportTypeOK
  /\ snd = [pc |-> snd.pc, out |-> snd.out, frame |-> snd.frame]

OneCall == \A t, u \in Threads : Busy(t) /\ Busy(u) => t = u

\* Where a connect or close stands says which sockets there are.
SocketsAt ==
  /\ \A t \in Threads : call[t].pc \in {"nullSocket", "nullIn", "nullOut", "open"} => open = {}
  /\ \A t \in Threads : call[t].pc \in {"nullIn", "nullOut", "open", "setSocket"} =>
                          socket = Null
  /\ \A t \in Threads : call[t].pc = "setSocket" => open \subseteq {t}
  /\ \A t \in Threads : call[t].pc \in {"setIn", "setOut", "setFlag", "startLoop"} => socket = t
  /\ \A t \in Threads : call[t].pc \in {"setOut", "setFlag", "startLoop"} => inputStream = t
  /\ (\A t \in Threads : call[t].pc # "setSocket") => open \subseteq {socket}

\* A receive loop is on the current connection, or about to be.
Heard ==
  \E t \in Taps : \/ rx[t].pc = "start" /\ inputStream = socket
                  \/ rx[t].pc \in {"while", "read", "finally"} /\ rx[t].in = socket

\* The flag is set only when the members are, and then its loop is there or
\* is the next thing that connect makes.
FlagAt ==
  isConnected =>
    /\ \A t \in Threads : call[t].pc \in {"new", "done", "flag", "startLoop"}
    /\ (\A t \in Threads : call[t].pc # "startLoop") /\ socket # Null => Heard

Orderly == ~overlapped => OneCall /\ SocketsAt /\ FlagAt

Inv == Types /\ Orderly

CallLocals ==
  [pc : {"new", "flag", "sock", "nullSocket", "nullIn", "nullOut", "open", "setSocket", "setIn",
         "setOut", "setFlag", "startLoop", "done"},
   retry : BOOLEAN]
LoopLocals ==
  [pc : {"none", "start", "while", "read", "finally", "done"}, in : Taps \cup {Null},
   stuck : BOOLEAN]

-----------------------------------------------------------------------------
\* connect and close

\* The taps are threads, and neither is Null; UI is a thread that is not one.
LEMMA Names == Taps \subseteq Threads /\ UI \in Threads /\ Null \notin Taps
  BY TapsAssumption DEF Taps, Threads, UI, Null

\* A thread that goes on has its new label, and nobody else moves (At).
LEMMA AtFacts ==
  ASSUME Types, NEW t \in Threads, NEW label, At(t, label),
         label \in {"flag", "sock", "nullSocket", "nullIn", "nullOut", "open", "setSocket",
                    "setIn", "setOut", "setFlag", "startLoop", "done"}
  PROVE  /\ call' \in [Threads -> CallLocals]
         /\ call'[t].pc = label
         /\ \A u \in Threads : u # t => call'[u] = call[u]
  BY DEF At, Types, TransportTypeOK, CallLocals

\* A connect that failed closes once more, and nobody else moves (Caught).
LEMMA CaughtFacts ==
  ASSUME Types, NEW t \in Threads, Caught(t)
  PROVE  /\ call' \in [Threads -> CallLocals]
         /\ call'[t].pc = "flag"
         /\ \A u \in Threads : u # t => call'[u] = call[u]
  BY DEF Caught, Types, TransportTypeOK, CallLocals

\* Types are kept by a step of connect or close that stays within them.
LEMMA CallTypes ==
  ASSUME Types, call' \in [Threads -> CallLocals], isConnected' \in BOOLEAN,
         overlapped' \in BOOLEAN,
         socket' \in Taps \cup {Null}, inputStream' \in Taps \cup {Null},
         outputStream' \in Taps \cup {Null},
         open' \subseteq Taps, peers' \subseteq Taps,
         UNCHANGED <<rx, snd>>
  PROVE  Types'
  BY DEF Types, TransportTypeOK, CallLocals

\* A connect or close begins when none is under way, or it overlaps (Begin).
LEMMA BeginInv ==
  ASSUME Inv, NEW t \in Threads, NEW connecting \in BOOLEAN, Begin(t, connecting)
  PROVE  Inv'
  <1>1. /\ call' \in [Threads -> CallLocals]
        /\ call[t].pc = "new" /\ call'[t].pc = "flag"
        /\ \A u \in Threads : u # t => call'[u] = call[u]
    BY DEF Inv, Types, TransportTypeOK, CallLocals, Begin
  <1>2. /\ overlapped' = (overlapped \/ \E u \in Threads : Busy(u))
        /\ UNCHANGED <<isConnected, socket, inputStream, outputStream, open, peers, rx, snd>>
    BY DEF Begin, members, wires
  <1>3. Types'
    BY <1>1, <1>2, CallTypes DEF Inv, Types, TransportTypeOK
  <1>4. ASSUME ~overlapped' PROVE OneCall' /\ SocketsAt' /\ FlagAt'
    <2>1. ~overlapped /\ \A u \in Threads : call[u].pc \in {"new", "done"}
      BY <1>2, <1>4 DEF Busy
    <2>2. \A u \in Threads : call'[u].pc \in {"new", "done"} \/ u = t
      BY <1>1, <2>1
    <2>3. OneCall'
      BY <2>2 DEF OneCall, Busy
    <2>4. SocketsAt'
      BY <1>1, <1>2, <2>1, <2>2 DEF Inv, Orderly, SocketsAt
    <2>5. FlagAt'
      BY <1>1, <1>2, <2>1, <2>2 DEF Inv, Orderly, FlagAt, Heard
    <2>6. QED
      BY <2>3, <2>4, <2>5
  <1>5. QED
    BY <1>3, <1>4 DEF Inv, Orderly

\* In good order, a thread that is at work is the only one.
LEMMA AloneFacts ==
  ASSUME Inv, ~overlapped, NEW t \in Threads, call[t].pc \notin {"new", "done"}
  PROVE  \A u \in Threads : u # t => call[u].pc \in {"new", "done"}
  BY DEF Inv, Orderly, OneCall, Busy

\* A step of connect or close keeps the sockets and the flag in order.  The
\* hypotheses say where the thread was and is, that nobody else moved, and
\* that types are kept; what is left to show is what its own label promises.
LEMMA CallStep ==
  ASSUME Inv, NEW t \in Threads, Types', overlapped' = overlapped,
         call[t].pc \notin {"new", "done"},
         \A u \in Threads : u # t => call'[u] = call[u],
         ~overlapped => SocketsAt' /\ FlagAt'
  PROVE  Inv'
  <1>1. ASSUME ~overlapped PROVE OneCall'
    BY <1>1, AloneFacts DEF OneCall, Busy
  <1>2. QED
    BY <1>1 DEF Inv, Orderly

\* close, from whichever thread: the flag first, then the socket, then the
\* members (CloseFlag, CloseSocket, CloseMembers).
LEMMA CallRunsInv ==
  ASSUME Inv, NEW t \in Threads, CallRuns(t)
  PROVE  Inv'
  <1>0. Types
    BY DEF Inv
  <1>1. CASE CloseFlag(t)
    <2>1. /\ call[t].pc = "flag" /\ call'[t].pc = "sock" /\ isConnected' = FALSE
          /\ call' \in [Threads -> CallLocals] /\ \A u \in Threads : u # t => call'[u] = call[u]
          /\ UNCHANGED <<socket, inputStream, outputStream, open, peers, rx, snd, overlapped>>
      BY <1>0, <1>1, AtFacts DEF CloseFlag, wires
    <2>2. Types'
      BY <1>0, <2>1, CallTypes DEF Types, TransportTypeOK
    <2>3. ASSUME ~overlapped PROVE SocketsAt' /\ FlagAt'
      BY <2>1, <2>3, AloneFacts DEF Inv, Orderly, SocketsAt, FlagAt
    <2>4. QED
      BY <2>1, <2>2, <2>3, CallStep
  <1>2. CASE CloseSocket(t)
    <2>1. /\ call[t].pc = "sock" /\ call'[t].pc = "nullSocket" /\ open' = open \ {socket}
          /\ call' \in [Threads -> CallLocals] /\ \A u \in Threads : u # t => call'[u] = call[u]
          /\ UNCHANGED <<isConnected, socket, inputStream, outputStream, peers, rx, snd,
                         overlapped>>
      BY <1>0, <1>2, AtFacts DEF CloseSocket, members
    <2>2. Types'
      BY <1>0, <2>1, CallTypes DEF Types, TransportTypeOK
    <2>3. ASSUME ~overlapped PROVE SocketsAt' /\ FlagAt'
      BY <2>1, <2>3, AloneFacts DEF Inv, Orderly, SocketsAt, FlagAt
    <2>4. QED
      BY <2>1, <2>2, <2>3, CallStep
  <1>3. CASE CloseMembers(t)
    <2>1. /\ \/ call[t].pc = "nullSocket" /\ socket' = Null /\ call'[t].pc = "nullIn"
                /\ UNCHANGED <<inputStream, outputStream>>
             \/ call[t].pc = "nullIn" /\ inputStream' = Null /\ call'[t].pc = "nullOut"
                /\ UNCHANGED <<socket, outputStream>>
             \/ call[t].pc = "nullOut" /\ outputStream' = Null
                /\ call'[t].pc \in {"open", "done"}
                /\ UNCHANGED <<socket, inputStream>>
          /\ call' \in [Threads -> CallLocals] /\ \A u \in Threads : u # t => call'[u] = call[u]
          /\ UNCHANGED <<isConnected, open, peers, rx, snd, overlapped>>
      BY <1>0, <1>3, AtFacts DEF CloseMembers, wires
    <2>2. Types'
      BY <1>0, <2>1, CallTypes DEF Types, TransportTypeOK
    <2>3. ASSUME ~overlapped PROVE SocketsAt' /\ FlagAt'
      <3>1. ~isConnected /\ \A u \in Threads : u # t => call[u].pc \in {"new", "done"}
        BY <2>1, <2>3, AloneFacts DEF Inv, Orderly, FlagAt
      <3>2. SocketsAt'
        BY <2>1, <2>3, <3>1 DEF Inv, Orderly, SocketsAt
      <3>3. QED
        BY <2>1, <3>1, <3>2 DEF FlagAt
    <2>4. QED
      BY <2>1, <2>2, <2>3, CallStep
  <1>4. QED
    BY <1>1, <1>2, <1>3 DEF CallRuns

\* connect: the old connection is gone when the new socket is opened, and its
\* members are set before the flag (OpenSocket, Publish, StartLoop).
LEMMA ConnectRunsInv ==
  ASSUME Inv, NEW t \in Taps, ConnectRuns(t)
  PROVE  Inv'
  <1>0. Types /\ t \in Threads /\ t # Null
    BY Names DEF Inv
  <1>1. CASE OpenSocket(t)
    <2>1. /\ call[t].pc = "open"
          /\ \/ call'[t].pc = "setSocket" /\ open' = open \cup {t} /\ peers' = peers \cup {t}
             \/ call'[t].pc = "flag" /\ UNCHANGED <<open, peers>>
          /\ call' \in [Threads -> CallLocals] /\ \A u \in Threads : u # t => call'[u] = call[u]
          /\ UNCHANGED <<isConnected, socket, inputStream, outputStream, rx, snd, overlapped>>
      BY <1>0, <1>1, AtFacts, CaughtFacts DEF OpenSocket, members
    <2>2. Types'
      BY <1>0, <2>1, CallTypes DEF Types, TransportTypeOK
    <2>3. ASSUME ~overlapped PROVE SocketsAt' /\ FlagAt'
      <3>1. ~isConnected /\ \A u \in Threads : u # t => call[u].pc \in {"new", "done"}
        BY <1>0, <2>1, <2>3, AloneFacts DEF Inv, Orderly, FlagAt
      <3>2. SocketsAt'
        BY <1>0, <2>1, <2>3, <3>1 DEF Inv, Orderly, SocketsAt
      <3>3. QED
        BY <2>1, <3>1, <3>2 DEF FlagAt
    <2>4. QED
      BY <1>0, <2>1, <2>2, <2>3, CallStep
  <1>2. CASE Publish(t)
    <2>1. /\ \/ call[t].pc = "setSocket" /\ socket' = t /\ call'[t].pc = "setIn"
                /\ UNCHANGED <<isConnected, inputStream, outputStream>>
             \/ call[t].pc = "setIn" /\ inputStream' = t /\ call'[t].pc = "setOut"
                /\ UNCHANGED <<isConnected, socket, outputStream>>
             \/ call[t].pc = "setOut" /\ outputStream' = t /\ call'[t].pc = "setFlag"
                /\ UNCHANGED <<isConnected, socket, inputStream>>
             \/ call[t].pc \in {"setIn", "setOut"} /\ call'[t].pc = "flag"
                /\ UNCHANGED <<isConnected, socket, inputStream, outputStream>>
             \/ call[t].pc = "setFlag" /\ isConnected' = TRUE /\ call'[t].pc = "startLoop"
                /\ UNCHANGED <<socket, inputStream, outputStream>>
          /\ call' \in [Threads -> CallLocals] /\ \A u \in Threads : u # t => call'[u] = call[u]
          /\ UNCHANGED <<open, peers, rx, snd, overlapped>>
      BY <1>0, <1>2, AtFacts, CaughtFacts DEF Publish, members, wires
    <2>2. Types'
      BY <1>0, <2>1, CallTypes DEF Types, TransportTypeOK
    <2>3. ASSUME ~overlapped PROVE SocketsAt' /\ FlagAt'
      <3>1. ~isConnected /\ \A u \in Threads : u # t => call[u].pc \in {"new", "done"}
        BY <1>0, <2>1, <2>3, AloneFacts DEF Inv, Orderly, FlagAt
      <3>2. SocketsAt'
        BY <1>0, <2>1, <2>3, <3>1 DEF Inv, Orderly, SocketsAt
      <3>3. FlagAt'
        BY <1>0, <2>1, <3>1 DEF FlagAt
      <3>4. QED
        BY <3>2, <3>3
    <2>4. QED
      BY <1>0, <2>1, <2>2, <2>3, CallStep
  <1>3. CASE StartLoop(t)
    <2>1. /\ call[t].pc = "startLoop" /\ call'[t].pc = "done"
          /\ call' \in [Threads -> CallLocals] /\ \A u \in Threads : u # t => call'[u] = call[u]
          /\ UNCHANGED <<isConnected, socket, inputStream, outputStream, open, peers, snd,
                         overlapped>>
      BY <1>0, <1>3, AtFacts DEF StartLoop, members, wires
    <2>2. /\ rx' \in [Taps -> LoopLocals] /\ rx'[t].pc = "start"
          /\ \A u \in Taps : u # t => rx'[u] = rx[u]
      BY <1>0, <1>3 DEF StartLoop, Types, TransportTypeOK, LoopLocals
    <2>3. Types'
      BY <1>0, <2>1, <2>2 DEF Types, TransportTypeOK, CallLocals, LoopLocals
    <2>4. ASSUME ~overlapped PROVE SocketsAt' /\ FlagAt'
      <3>1. \A u \in Threads : u # t => call[u].pc \in {"new", "done"}
        BY <1>0, <2>1, <2>4, AloneFacts
      <3>2. inputStream = t /\ socket = t
        BY <1>0, <2>1, <2>4 DEF Inv, Orderly, SocketsAt
      <3>3. SocketsAt'
        BY <1>0, <2>1, <2>4, <3>1 DEF Inv, Orderly, SocketsAt
      <3>4. FlagAt'
        BY <2>1, <2>2, <3>1, <3>2 DEF FlagAt, Heard
      <3>5. QED
        BY <3>3, <3>4
    <2>5. QED
      BY <1>0, <2>1, <2>3, <2>4, CallStep
  <1>4. QED
    BY <1>0, <1>1, <1>2, <1>3, CallRunsInv DEF ConnectRuns

-----------------------------------------------------------------------------
\* Receive loops, sends and the peer

\* A step that leaves connect and close and the members alone, but for taking
\* the flag back, keeps the order if it leaves a loop on the current
\* connection.
LEMMA OtherStep ==
  ASSUME Inv, Types', UNCHANGED <<socket, inputStream, call, overlapped>>,
         open' \subseteq open,
         isConnected' => isConnected,
         Heard /\ isConnected' /\ socket # Null => Heard'
  PROVE  Inv'
  <1>1. ASSUME ~overlapped PROVE OneCall' /\ SocketsAt' /\ FlagAt'
    <2>1. OneCall' /\ SocketsAt'
      BY <1>1 DEF Inv, Orderly, OneCall, SocketsAt, Busy
    <2>2. FlagAt'
      BY <1>1 DEF Inv, Orderly, FlagAt
    <2>3. QED
      BY <2>1, <2>2
  <1>2. QED
    BY <1>1 DEF Inv, Orderly

\* A receive loop reads inputStream once.  The loop of the current connection
\* reads what connect has set, and an older one that starts late may listen to
\* the current connection too, which does no harm here.
LEMMA LoopRunsInv ==
  ASSUME Inv, NEW t \in Taps, LoopRuns(t)
  PROVE  Inv'
  <1>0. Types /\ rx \in [Taps -> LoopLocals]
    BY DEF Inv, Types, TransportTypeOK, LoopLocals
  <1>1. /\ UNCHANGED <<socket, inputStream, outputStream, open, peers, call, snd, overlapped>>
        /\ isConnected' \in {isConnected, FALSE}
    BY DEF LoopRuns, LoopStart, LoopTest, LoopReadFails, LoopFinally, members, wires
  <1>b. isConnected' => isConnected
    BY <1>1, Zenon
  <1>2. ASSUME NEW label \in {"while", "read", "finally"}, NEW in \in Taps,
               rx' = [rx EXCEPT ![t].pc = label, ![t].in = in],
               \/ rx[t].pc = "start" /\ in = inputStream
               \/ rx[t].pc \in {"while", "read", "finally"} /\ in = rx[t].in
        PROVE  Inv'
    <2>1. /\ rx' \in [Taps -> LoopLocals]
          /\ rx'[t].pc = label /\ rx'[t].in = in
          /\ \A u \in Taps : u # t => rx'[u] = rx[u]
      BY <1>0, <1>2 DEF LoopLocals
    <2>2. Types'
      BY <1>0, <1>1, <2>1, Names DEF Types, TransportTypeOK, LoopLocals
    <2>3. Heard => Heard'
      BY <1>1, <1>2, <2>1 DEF Heard
    <2>4. QED
      BY <1>1, <1>b, <2>2, <2>3, OtherStep
  <1>3. CASE Ends(t) /\ (~isConnected' \/ (rx[t].pc = "start" /\ inputStream = Null))
    <2>1. /\ rx' \in [Taps -> LoopLocals]
          /\ rx'[t].pc = "done"
          /\ \A u \in Taps : u # t => rx'[u] = rx[u]
      BY <1>0, <1>3 DEF LoopLocals, Ends, NoLoop
    <2>2. Types'
      BY <1>0, <1>1, <1>3, <2>1 DEF Types, TransportTypeOK, LoopLocals
    <2>3. Heard /\ isConnected' /\ socket # Null => Heard'
      BY <1>1, <1>3, <2>1 DEF Heard
    <2>4. QED
      BY <1>1, <1>b, <2>2, <2>3, OtherStep
  <1>4. CASE LoopStart(t)
    <2>1. CASE inputStream = Null
      BY <1>3, <1>4, <2>1 DEF LoopStart
    <2>2. CASE inputStream # Null
      <3>1. inputStream \in Taps
        BY <1>0, <2>2 DEF Types, TransportTypeOK
      <3>2. QED
        BY <1>2, <1>4, <2>2, <3>1 DEF LoopStart
    <2>3. QED
      BY <2>1, <2>2
  <1>5. CASE LoopTest(t) \/ LoopReadFails(t)
    <2>1. PICK label \in {"read", "finally"} : rx' = [rx EXCEPT ![t].pc = label]
      BY <1>5 DEF LoopTest, LoopReadFails
    <2>2. rx[t].pc \in {"while", "read"} /\ rx[t].in \in Taps
      BY <1>0, <1>5 DEF LoopTest, LoopReadFails, Types, TransportTypeOK
    <2>3. rx' = [rx EXCEPT ![t].pc = label, ![t].in = rx[t].in]
      BY <1>0, <2>1 DEF LoopLocals
    <2>4. QED
      BY <1>2, <2>2, <2>3
  <1>6. CASE LoopFinally(t)
    BY <1>3, <1>6 DEF LoopFinally
  <1>7. QED
    BY <1>4, <1>5, <1>6 DEF LoopRuns

\* Reading a frame, torn or not, leaves every loop on its connection.
LEMMA LoopReadsInv ==
  ASSUME Inv, NEW t \in Taps, NEW torn \in BOOLEAN, LoopReads(t, torn)
  PROVE  Inv'
  <1>0. Types /\ rx \in [Taps -> LoopLocals]
    BY DEF Inv, Types, TransportTypeOK, LoopLocals
  <1>1. UNCHANGED <<isConnected, socket, inputStream, outputStream, open, peers, call, snd,
                    overlapped>>
    BY DEF LoopReads, members
  <1>2. /\ rx' \in [Taps -> LoopLocals]
        /\ rx[t].pc = "read" /\ rx'[t].pc = "while"
        /\ \A u \in Taps : rx'[u].in = rx[u].in /\ (u # t => rx'[u].pc = rx[u].pc)
    BY <1>0 DEF LoopReads, LoopLocals
  <1>3. Types'
    BY <1>0, <1>1, <1>2 DEF Types, TransportTypeOK, LoopLocals
  <1>4. Heard => Heard'
    BY <1>1, <1>2 DEF Heard
  <1>5. QED
    BY <1>1, <1>3, <1>4, OtherStep

\* A step of a send keeps its shape, and it writes to a stream it has seen.
LEMMA SendTypes ==
  ASSUME Types, NEW label \in {"idle", "flag", "sock", "out", "write", "sent", "failed"},
         NEW out \in Taps \cup {Null}, NEW f,
         snd' = [pc |-> label, out |-> out, frame |-> f], label = "write" => out # Null,
         isConnected' \in BOOLEAN,
         UNCHANGED <<socket, inputStream, outputStream, open, peers, call, rx, overlapped>>
  PROVE  Types'
  BY DEF Types, TransportTypeOK

\* sendFrame takes the flag back when a write throws, and sets nothing else.
LEMMA SendRunsInv ==
  ASSUME Inv, SendRuns
  PROVE  Inv'
  <1>0. Types /\ snd.out \in Taps \cup {Null} /\ outputStream \in Taps \cup {Null}
    BY DEF Inv, Types, TransportTypeOK
  <1>1. /\ UNCHANGED <<socket, inputStream, outputStream, open, peers, call, rx, overlapped>>
        /\ isConnected' \in {isConnected, FALSE}
    BY DEF SendRuns, SendCheck, SendWrite, members, wires
  <1>b. isConnected' => isConnected
    BY <1>1, Zenon
  <1>2. ASSUME NEW label \in {"sock", "out", "sent", "failed"}, SendAt(label)
        PROVE  snd' = [pc |-> label, out |-> snd.out, frame |-> snd.frame]
    BY <1>0, <1>2 DEF SendAt, Types
  <1>3. Types'
    <2>1. isConnected' \in BOOLEAN
      BY <1>0, <1>1 DEF Types, TransportTypeOK
    <2>2. ASSUME NEW label \in {"sock", "out", "sent", "failed"}, SendAt(label)
          PROVE  Types'
      BY <1>0, <1>1, <1>2, <2>1, <2>2, SendTypes
    <2>3. CASE snd' = [snd EXCEPT !.out = outputStream,
                                  !.pc = IF outputStream # Null THEN "write" ELSE "failed"]
      <3>1. PICK label \in {"write", "failed"} :
              /\ label = IF outputStream # Null THEN "write" ELSE "failed"
              /\ snd' = [pc |-> label, out |-> outputStream, frame |-> snd.frame]
        BY <1>0, <2>3 DEF Types
      <3>2. QED
        BY <1>0, <1>1, <2>1, <3>1, SendTypes
    <2>4. QED
      BY <2>2, <2>3 DEF SendRuns, SendCheck, SendWrite
  <1>4. Heard => Heard'
    BY <1>1 DEF Heard
  <1>5. QED
    BY <1>1, <1>b, <1>3, <1>4, OtherStep

\* The user of the transport sends, or has its answer.
LEMMA SendFrameInv ==
  ASSUME Inv, (\E f : SendFrame(f)) \/ SendReturns,
         UNCHANGED <<isConnected, socket, inputStream, outputStream, open, peers, call, rx,
                     overlapped>>
  PROVE  Inv'
  <1>1. PICK f : \E label \in {"idle", "flag"} :
                   snd' = [pc |-> label, out |-> Null, frame |-> f]
    BY DEF SendFrame, SendReturns, Silent
  <1>2. Types'
    BY <1>1, SendTypes DEF Inv, Types, TransportTypeOK
  <1>3. Heard => Heard'
    BY DEF Heard
  <1>4. QED
    BY <1>2, <1>3, OtherStep

\* A step that leaves the phone alone, though its peers may go away.
LEMMA PeerInv ==
  ASSUME Inv, peers' \subseteq peers,
         UNCHANGED <<isConnected, socket, inputStream, outputStream, open, call, rx, snd,
                     overlapped>>
  PROVE  Inv'
  <1>1. Types'
    BY DEF Inv, Types, TransportTypeOK
  <1>2. Heard => Heard'
    BY DEF Heard
  <1>3. QED
    BY <1>1, <1>2, OtherStep

-----------------------------------------------------------------------------
\* The transport by itself

\* A phone that was never connected is in order.
LEMMA InitInv == TransportInit => Inv
  <1> SUFFICES ASSUME TransportInit PROVE Inv
    OBVIOUS
  <1>1. Types
    BY DEF TransportInit, Types, TransportTypeOK, Silent, NoLoop
  <1>2. OneCall /\ SocketsAt /\ FlagAt
    BY DEF TransportInit, OneCall, SocketsAt, FlagAt, Busy
  <1>3. QED
    BY <1>1, <1>2 DEF Inv, Orderly

\* Every step of the transport keeps the order.
LEMMA NextInv == Inv /\ [TransportNext]_transportVars => Inv'
  <1> SUFFICES ASSUME Inv, [TransportNext]_transportVars PROVE Inv'
    OBVIOUS
  <1>1. CASE UNCHANGED transportVars
    BY <1>1, PeerInv DEF transportVars
  <1>2. ASSUME NEW t \in Taps, StartConnection(t) PROVE Inv'
    BY <1>2, BeginInv, Names DEF StartConnection
  <1>3. ASSUME NEW t \in Taps, LoopThread(t) PROVE Inv'
    BY <1>3, LoopRunsInv, LoopReadsInv DEF LoopThread
  <1>4. ASSUME NEW t \in Taps, Peer(t) PROVE Inv'
    <2>1. /\ peers' \subseteq peers
          /\ UNCHANGED <<isConnected, socket, inputStream, outputStream, open, call, rx, snd,
                         overlapped>>
      BY <1>4 DEF Peer, members
    <2>2. QED
      BY <2>1, PeerInv
  <1>5. CASE Stop
    BY <1>5, BeginInv, Names DEF Stop
  <1>6. CASE CallRuns(UI)
    BY <1>6, CallRunsInv, Names
  <1>7. CASE Uses
    BY <1>7, SendFrameInv DEF Uses, members
  <1>8. QED
    BY <1>1, <1>2, <1>3, <1>4, <1>5, <1>6, <1>7, ConnectRunsInv, SendRunsInv DEF TransportNext

\* The order says what the two properties say.
LEMMA InvImplies == Inv => TransportTypeOK /\ ConnectedIsHeard /\ NoSocketLeak
  <1> SUFFICES ASSUME Inv PROVE TransportTypeOK /\ ConnectedIsHeard /\ NoSocketLeak
    OBVIOUS
  <1>1. TransportTypeOK
    BY DEF Inv, Types
  <1>2. ConnectedIsHeard
    BY DEF Inv, Orderly, FlagAt, Heard, ConnectedIsHeard, Settled, Busy
  <1>3. NoSocketLeak
    BY DEF Inv, Orderly, SocketsAt, NoSocketLeak, Settled, Busy
  <1>4. QED
    BY <1>1, <1>2, <1>3

\* The members, the sockets and the locals of every thread have their types,
\* and a loop or a write has a stream, in every interleaving, overlaps too.
THEOREM TransportTypeCorrect == TransportSpec => []TransportTypeOK
  BY InitInv, NextInv, InvImplies, PTL DEF TransportSpec

\* While TcpTransportClient calls itself connected, a receive loop listens on
\* that very connection or is about to say it is gone, for any number of taps.
THEOREM ConnectedIsHeardAlways == TransportSpec => []ConnectedIsHeard
  BY InitInv, NextInv, InvImplies, PTL DEF TransportSpec

\* connect and close leave no socket open but the current one, for any number
\* of taps.
THEOREM NoSocketLeakAlways == TransportSpec => []NoSocketLeak
  BY InitInv, NextInv, InvImplies, PTL DEF TransportSpec

=============================================================================
