--------------------------- MODULE PhoneTransport ---------------------------
(***************************************************************************)
(* The socket transport of the phone (transport/TcpTransportClient.kt).    *)
(* Each tap on "Connect" runs connect on a thread of its own, which in the *)
(* end starts a receive loop on another; the UI thread sends and, when the *)
(* activity is destroyed, closes.  Nothing waits for an earlier thread to  *)
(* end, and socket, inputStream and outputStream are plain members, so     *)
(* every read and every write of one is a step.                            *)
(*                                                                         *)
(* Tap t makes connection t.  What travels on a connection is a sequence   *)
(* of frames; cutting bytes into frames is left to PhoneStream.            *)
(***************************************************************************)
EXTENDS Naturals, Sequences

CONSTANTS
  MaxTaps,      \* bound: taps on "Connect" over the life of the controller
  Overlaps,     \* bound: whether a connect or close may begin during another
  NoFrame       \* nothing to send

ASSUME TapsAssumption == MaxTaps \in Nat /\ Overlaps \in BOOLEAN

Taps == 1 .. MaxTaps
Null == 0
UI == 0                       \* the UI thread, next to the threads 1 .. MaxTaps
Threads == Taps \cup {UI}

VARIABLES
  isConnected, socket, inputStream, outputStream,   \* the members
  open,         \* connections whose socket the phone has not closed
  peers,        \* connections whose other end is still there
  call,         \* thread -> [pc, retry]: where it is in connect or close; retry: a
                \* connect still has to open its socket after the close
  rx,           \* tap -> [pc, in, stuck]: its receive loop
  snd,          \* [pc, out, frame]: sendFrame on the UI thread
  inbound,      \* connection -> frames the phone has not read
  outbound,     \* connection -> frames the agent has not read
  overlapped    \* history: some connect or close began during another

members == <<isConnected, socket, inputStream, outputStream>>
wires == <<open, peers, inbound, outbound>>
transportVars == <<isConnected, socket, inputStream, outputStream, open, peers, call, rx, snd,
                   inbound, outbound, overlapped>>

Silent == [pc |-> "idle", out |-> Null, frame |-> NoFrame]
NoLoop == [pc |-> "none", in |-> Null, stuck |-> FALSE]

TransportInit ==
  /\ isConnected = FALSE /\ socket = Null /\ inputStream = Null /\ outputStream = Null
  /\ open = {} /\ peers = {}
  /\ call = [t \in Threads |-> [pc |-> "new", retry |-> FALSE]]
  /\ rx = [t \in Taps |-> NoLoop]
  /\ snd = Silent
  /\ inbound = [t \in Taps |-> <<>>] /\ outbound = [t \in Taps |-> <<>>]
  /\ overlapped = FALSE

-----------------------------------------------------------------------------
\* connect and close

Busy(t) == call[t].pc \notin {"new", "done"}
At(t, label) == call' = [call EXCEPT ![t].pc = label]

Begin(t, connecting) ==
  /\ call[t].pc = "new"
  /\ Overlaps \/ \A u \in Threads : ~Busy(u)
  /\ call' = [call EXCEPT ![t] = [pc |-> "flag", retry |-> connecting]]
  /\ overlapped' = (overlapped \/ \E u \in Threads : Busy(u))
  /\ UNCHANGED <<members, wires, rx, snd>>

\* UnlockController.startConnection: a thread that calls connect.
StartConnection(t) ==
  /\ \A u \in 1 .. (t - 1) : call[u].pc # "new"
  /\ call[UI].pc = "new"
  /\ Begin(t, TRUE)

\* MainActivity.onDestroy calls UnlockController.stop, which calls close.
Stop == snd.pc = "idle" /\ Begin(UI, FALSE)

CloseFlag(t) ==
  /\ call[t].pc = "flag"
  /\ isConnected' = FALSE
  /\ At(t, "sock")
  /\ UNCHANGED <<socket, inputStream, outputStream, wires, rx, snd, overlapped>>

\* Mutant: the socket is dropped without being closed.
CloseNothing(t) ==
  /\ call[t].pc = "sock"
  /\ At(t, "nullSocket")
  /\ UNCHANGED <<members, wires, rx, snd, overlapped>>

CloseSocket(t) ==
  /\ call[t].pc = "sock"
  /\ open' = open \ {socket}
  /\ At(t, "nullSocket")
  /\ UNCHANGED <<members, peers, inbound, outbound, rx, snd, overlapped>>

\* socket = null; inputStream = null; outputStream = null
CloseMembers(t) ==
  /\ \/ call[t].pc = "nullSocket" /\ socket' = Null /\ At(t, "nullIn")
        /\ UNCHANGED <<inputStream, outputStream>>
     \/ call[t].pc = "nullIn" /\ inputStream' = Null /\ At(t, "nullOut")
        /\ UNCHANGED <<socket, outputStream>>
     \/ call[t].pc = "nullOut" /\ outputStream' = Null
        /\ At(t, IF call[t].retry THEN "open" ELSE "done")
        /\ UNCHANGED <<socket, inputStream>>
  /\ UNCHANGED <<isConnected, wires, rx, snd, overlapped>>

\* The catch clause: close once more, and give up.
Caught(t) == call' = [call EXCEPT ![t] = [pc |-> "flag", retry |-> FALSE]]

\* Socket(host, port): connected, or an exception.
OpenSocket(t) ==
  /\ call[t].pc = "open"
  /\ \/ open' = open \cup {t} /\ peers' = peers \cup {t} /\ At(t, "setSocket")
     \/ Caught(t) /\ UNCHANGED <<open, peers>>
  /\ UNCHANGED <<members, inbound, outbound, rx, snd, overlapped>>

\* The members are published one by one; getInputStream and getOutputStream
\* throw when another thread has closed the socket meanwhile.
Publish(t) ==
  /\ \/ call[t].pc = "setSocket" /\ socket' = t /\ At(t, "setIn")
        /\ UNCHANGED <<isConnected, inputStream, outputStream>>
     \/ call[t].pc = "setIn" /\ t \in open /\ inputStream' = t /\ At(t, "setOut")
        /\ UNCHANGED <<isConnected, socket, outputStream>>
     \/ call[t].pc = "setOut" /\ t \in open /\ outputStream' = t /\ At(t, "setFlag")
        /\ UNCHANGED <<isConnected, socket, inputStream>>
     \/ call[t].pc \in {"setIn", "setOut"} /\ t \notin open /\ Caught(t) /\ UNCHANGED members
     \/ call[t].pc = "setFlag" /\ isConnected' = TRUE /\ At(t, "startLoop")
        /\ UNCHANGED <<socket, inputStream, outputStream>>
  /\ UNCHANGED <<wires, rx, snd, overlapped>>

StartLoop(t) ==
  /\ call[t].pc = "startLoop"
  /\ rx' = [rx EXCEPT ![t].pc = "start"]
  /\ At(t, "done")
  /\ UNCHANGED <<members, wires, snd, overlapped>>

CallRuns(t) == CloseFlag(t) \/ CloseSocket(t) \/ CloseMembers(t)
ConnectRuns(t) == CallRuns(t) \/ OpenSocket(t) \/ Publish(t) \/ StartLoop(t)

-----------------------------------------------------------------------------
\* receiverLoop

Ends(t) == rx' = [rx EXCEPT ![t] = [NoLoop EXCEPT !.pc = "done"]]

\* Mutant: a stream that is not there is read.
LoopStartsAnyway(t) ==
  /\ rx[t].pc = "start"
  /\ rx' = [rx EXCEPT ![t].pc = "while", ![t].in = inputStream]
  /\ UNCHANGED <<members, wires, call, snd, overlapped>>

\* inputStream is read once, by the new thread; null ends it at once.
LoopStart(t) ==
  /\ rx[t].pc = "start"
  /\ IF inputStream = Null THEN Ends(t)
     ELSE rx' = [rx EXCEPT ![t].pc = "while", ![t].in = inputStream]
  /\ UNCHANGED <<members, wires, call, snd, overlapped>>

LoopTest(t) ==
  /\ rx[t].pc = "while"
  /\ rx' = [rx EXCEPT ![t].pc = IF isConnected THEN "read" ELSE "finally"]
  /\ UNCHANGED <<members, wires, call, snd, overlapped>>

\* Mutant: a failed read is tried again.
LoopReadsAgain(t) ==
  /\ rx[t].pc = "read"
  /\ rx[t].in \notin open \/ (rx[t].in \notin peers /\ inbound[rx[t].in] = <<>>)
  /\ rx' = [rx EXCEPT ![t].pc = "while"]
  /\ UNCHANGED <<members, wires, call, snd, overlapped>>

\* read throws on a closed socket and returns -1 when the peer is gone.
LoopReadFails(t) ==
  /\ rx[t].pc = "read"
  /\ rx[t].in \notin open \/ (rx[t].in \notin peers /\ inbound[rx[t].in] = <<>>)
  /\ rx' = [rx EXCEPT ![t].pc = "finally"]
  /\ UNCHANGED <<members, wires, call, snd, overlapped>>

\* Mutant: the flag is left as it is.
LoopLeavesFlag(t) ==
  /\ rx[t].pc = "finally"
  /\ Ends(t)
  /\ UNCHANGED <<members, wires, call, snd, overlapped>>

\* The finally clause, whatever connection is current by now.
LoopFinally(t) ==
  /\ rx[t].pc = "finally"
  /\ isConnected' = FALSE
  /\ Ends(t)
  /\ UNCHANGED <<socket, inputStream, outputStream, wires, call, snd, overlapped>>

\* Two loops read from one stream.
Shared(t) == \E u \in Taps \ {t} : rx[u].pc = "read" /\ rx[u].in = rx[t].in

\* A frame is read.  When two loops share the stream each may get a part of
\* it; neither part begins with a magic, and a loop does not get past that.
LoopReads(t, torn) ==
  /\ rx[t].pc = "read" /\ rx[t].in \in open /\ inbound[rx[t].in] # <<>>
  /\ rx[t].stuck => torn
  /\ torn => rx[t].stuck \/ Shared(t)
  /\ inbound' = [inbound EXCEPT ![rx[t].in] = Tail(@)]
  /\ rx' = [u \in Taps |->
              IF u = t THEN [rx[u] EXCEPT !.pc = "while", !.stuck = torn]
              ELSE IF torn /\ ~rx[t].stuck /\ rx[u].pc = "read" /\ rx[u].in = rx[t].in
              THEN [rx[u] EXCEPT !.stuck = TRUE] ELSE rx[u]]
  /\ UNCHANGED <<members, open, peers, outbound, call, snd, overlapped>>

LoopRuns(t) == LoopStart(t) \/ LoopTest(t) \/ LoopReadFails(t) \/ LoopFinally(t)

-----------------------------------------------------------------------------
\* sendFrame, on the UI thread

SendAt(label) == snd' = [snd EXCEPT !.pc = label]

SendFrame(f) == snd.pc = "idle" /\ snd' = [pc |-> "flag", out |-> Null, frame |-> f]
SendReturns == snd.pc \in {"sent", "failed"} /\ snd' = Silent

\* isConnected(): the flag, and a socket, which says it is connected even
\* after it was closed; then the stream.
SendCheck ==
  /\ \/ snd.pc = "flag" /\ SendAt(IF isConnected THEN "sock" ELSE "failed")
     \/ snd.pc = "sock" /\ SendAt(IF socket # Null THEN "out" ELSE "failed")
     \/ snd.pc = "out" /\ snd' = [snd EXCEPT !.out = outputStream,
                                   !.pc = IF outputStream # Null THEN "write" ELSE "failed"]
  /\ UNCHANGED <<members, wires, call, rx, overlapped>>

\* write succeeds on an open socket, though nobody may be there to read; it
\* throws on a closed one, and may on any: the network fails, or the platform
\* refuses network I/O on the UI thread, as Android does by default.
SendWrite ==
  /\ snd.pc = "write"
  /\ \/ /\ snd.out \in open
        /\ outbound' = IF snd.out \in peers
                       THEN [outbound EXCEPT ![snd.out] = Append(@, snd.frame)] ELSE outbound
        /\ SendAt("sent")
        /\ UNCHANGED isConnected
     \/ /\ isConnected' = FALSE
        /\ SendAt("failed")
        /\ UNCHANGED outbound
  /\ UNCHANGED <<socket, inputStream, outputStream, open, peers, inbound, call, rx, overlapped>>

SendRuns == SendCheck \/ SendWrite

-----------------------------------------------------------------------------
\* The transport by itself: a user of it that sends, and a peer that reads what
\* it is sent at once, sends a frame when a loop waits for one, and goes away.

Uses ==
  /\ ~Busy(UI)
  /\ SendFrame(UI) \/ SendReturns
  /\ outbound' = [c \in Taps |-> <<>>]
  /\ UNCHANGED <<members, open, peers, inbound, call, rx, overlapped>>

Peer(c) ==
  /\ c \in peers
  /\ \/ /\ inbound[c] = <<>> /\ c \in open /\ \E t \in Taps : rx[t].pc = "read" /\ rx[t].in = c
        /\ inbound' = [inbound EXCEPT ![c] = <<UI>>]
        /\ UNCHANGED peers
     \/ peers' = peers \ {c} /\ UNCHANGED inbound
  /\ UNCHANGED <<members, open, outbound, call, rx, snd, overlapped>>

LoopThread(t) == LoopRuns(t) \/ \E torn \in BOOLEAN : LoopReads(t, torn)

TransportNext ==
  \/ \E t \in Taps : StartConnection(t) \/ ConnectRuns(t) \/ LoopThread(t) \/ Peer(t)
  \/ Stop \/ CallRuns(UI) \/ SendRuns \/ Uses

\* Threads run; the peer owes nothing.
TransportSpec ==
  /\ TransportInit /\ [][TransportNext]_transportVars
  /\ \A t \in Taps : WF_transportVars(LoopThread(t))

-----------------------------------------------------------------------------
\* Properties

Settled == \A t \in Threads : ~Busy(t)

\* The variables have their types; a loop and a write have a stream.
TransportTypeOK ==
  /\ isConnected \in BOOLEAN /\ overlapped \in BOOLEAN
  /\ {socket, inputStream, outputStream} \subseteq Taps \cup {Null}
  /\ open \subseteq Taps /\ peers \subseteq Taps
  /\ call \in [Threads -> [pc : {"new", "flag", "sock", "nullSocket", "nullIn", "nullOut",
                                 "open", "setSocket", "setIn", "setOut", "setFlag",
                                 "startLoop", "done"},
                           retry : BOOLEAN]]
  /\ rx \in [Taps -> [pc : {"none", "start", "while", "read", "finally", "done"},
                      in : Taps \cup {Null}, stuck : BOOLEAN]]
  /\ snd.pc \in {"idle", "flag", "sock", "out", "write", "sent", "failed"}
  /\ snd.out \in Taps \cup {Null}
  /\ \A t \in Taps : rx[t].pc \in {"while", "read"} => rx[t].in # Null
  /\ snd.pc = "write" => snd.out # Null

\* While the phone calls itself connected a receive loop listens on that very
\* connection or is about to say that it is gone, however late the loops of
\* earlier connections end, as long as the user never taps or leaves while a
\* connect is under way.
ConnectedIsHeard ==
  Settled /\ ~overlapped /\ isConnected /\ socket # Null =>
    \E t \in Taps : \/ rx[t].pc = "start" /\ inputStream = socket
                    \/ rx[t].pc \in {"while", "read", "finally"} /\ rx[t].in = socket

\* connect and close leave no socket open but the current one, under the same
\* condition.
NoSocketLeak == Settled /\ ~overlapped => open \subseteq {socket}

\* A receive loop whose socket was closed under it comes to its end.
LoopEnds == \A t \in Taps : (rx[t].pc = "read" /\ rx[t].in \notin open) ~> rx[t].pc = "done"

=============================================================================
