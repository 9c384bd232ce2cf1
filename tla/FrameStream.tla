---------------------------- MODULE FrameStream ----------------------------
(***************************************************************************)
(* The receive loop of the agent's transport (ReceiverWorker in            *)
(* windows/common/TcpTransport.cpp): bytes come in pieces that have        *)
(* nothing to do with frames, gather in rxBuffer and are cut into frames.  *)
(* The stream is what a peer wrote: whole frames, frames damaged on the    *)
(* way, stray bytes between frames, and headers that announce too much.    *)
(***************************************************************************)
EXTENDS FrameProtocol

CONSTANTS
  Frames,       \* frames the peer sends
  Noise,        \* stray cells (see StrayAssumption)
  BadType,      \* a type outside TransportMessageType
  BadLengths,   \* lengths above the ceiling that headers announce
  MaxItems      \* bound: items in a stream

ASSUME StreamAssumption ==
  /\ \A f \in Frames : /\ f \in [type : MessageTypes, payload : Seq(Cell)]
                       /\ Len(f.payload) <= MAX_PAYLOAD_SIZE
  /\ Noise \subseteq Seq(Cell) \ {<<>>}
  /\ BadType \in Cell \ MessageTypes
  /\ \A n \in BadLengths : n \in Cell /\ n > MAX_PAYLOAD_SIZE
  /\ MaxItems \in Nat

Intact(f) == [cells |-> SerializeFrame(f), frame |-> <<f>>, fatal |-> FALSE]
Dud(c) == [cells |-> c, frame |-> <<>>, fatal |-> FALSE]

\* One cell behind the length differs: the type, the payload or the checksum.
Damaged(f) ==
  LET c == SerializeFrame(f)
      p == Max(Cell) + 1
  IN  {Dud([c EXCEPT ![i] = (@ + 1) % p]) : i \in HeaderLen .. Len(c)}

Mistyped(f) == Dud(SerializeFrame([f EXCEPT !.type = BadType]))
Oversized(n) ==
  [cells |-> FRAME_MAGIC \o <<n, Min(MessageTypes)>>, frame |-> <<>>, fatal |-> TRUE]

\* What a peer can put on the stream.
Items ==
  {Intact(f) : f \in Frames} \cup (UNION {Damaged(f) : f \in Frames})
  \cup {Mistyped(f) : f \in Frames} \cup {Dud(n) : n \in Noise}
  \cup {Oversized(n) : n \in BadLengths}

\* The first n items of its on the wire.
Wire(its, n) == FlattenSeq([i \in 1 .. n |-> its[i].cells])

\* The cells of its in which no frame can begin: stray cells, and the cells of
\* a bad header behind its first.
StrayCells(its) ==
  UNION {Len(Wire(its, i - 1)) + (IF its[i].fatal THEN 2 ELSE 1) .. Len(Wire(its, i)) :
           i \in {j \in DOMAIN its : its[j].fatal \/ \E n \in Noise : its[j] = Dud(n)}}

\* Stray cells make up no magic, not even with the cells that follow them.
ASSUME StrayAssumption ==
  \A its \in BoundedSeq(Items, MaxItems) :
    LET stream == Wire(its, Len(its))
    IN  \A k \in StrayCells(its) : ~HasMagic(SubSeq(stream, k, Len(stream)))

VARIABLES
  items,        \* what the peer wrote
  sent,         \* the cells recv has not yet returned
  rxBuffer,     \* rxBuffer
  at,           \* the worker: the head of the outer "loop", "recv" or "parse"
  isConnected,  \* m_isConnected
  delivered     \* the frames OnFrameReceived was called with

vars == <<items, sent, rxBuffer, at, isConnected, delivered>>

Stream == Wire(items, Len(items))

Init ==
  /\ items \in BoundedSeq(Items, MaxItems)
  /\ sent = Stream
  /\ rxBuffer = <<>> /\ delivered = <<>>
  /\ at = "loop" /\ isConnected = TRUE

\* The test of the outer loop; without a connection the thread ends.
Loop ==
  /\ at = "loop" /\ isConnected
  /\ at' = "recv"
  /\ UNCHANGED <<items, sent, rxBuffer, isConnected, delivered>>

\* recv returns some of what has arrived.
Recv ==
  /\ at = "recv"
  /\ \E n \in 1 .. Len(sent) :
       /\ rxBuffer' = rxBuffer \o SubSeq(sent, 1, n)
       /\ sent' = SubSeq(sent, n + 1, Len(sent))
  /\ at' = "parse"
  /\ UNCHANGED <<items, isConnected, delivered>>

\* recv returns 0 or an error.
RecvFails ==
  /\ at = "recv"
  /\ isConnected' = FALSE /\ at' = "loop"
  /\ UNCHANGED <<items, sent, rxBuffer, delivered>>

\* Close or a failed SendFrame clears the flag, wherever the worker is.
FlagCleared ==
  /\ isConnected
  /\ isConnected' = FALSE
  /\ UNCHANGED <<items, sent, rxBuffer, at, delivered>>

Erase(n) == rxBuffer' = SubSeq(rxBuffer, n + 1, Len(rxBuffer))

\* The inner loop has a header's worth of cells to look at.
Ready == at = "parse" /\ Len(rxBuffer) >= MinFrameLen

\* Mutant: a whole magic is skipped instead of one byte.
DropMagicLen ==
  /\ Ready /\ ~HasMagic(rxBuffer)
  /\ Erase(MagicLen)
  /\ UNCHANGED <<items, sent, at, isConnected, delivered>>

\* No magic at the front: one byte is dropped and the loop goes on.
DropByte ==
  /\ Ready /\ ~HasMagic(rxBuffer)
  /\ Erase(1)
  /\ UNCHANGED <<items, sent, at, isConnected, delivered>>

\* Mutant: the ceiling is off by one.
AboveCeilingByTwo == PayloadLen(rxBuffer) > MAX_PAYLOAD_SIZE + 1

AboveCeiling == PayloadLen(rxBuffer) > MAX_PAYLOAD_SIZE

\* The announced payload is too large: the connection is given up, and with
\* it whatever else rxBuffer holds.
RejectOversized ==
  /\ Ready /\ HasMagic(rxBuffer) /\ AboveCeiling
  /\ isConnected' = FALSE /\ at' = "loop"
  /\ UNCHANGED <<items, sent, rxBuffer, delivered>>

Complete == Len(rxBuffer) >= TotalFrameLen(rxBuffer)

\* A frame's worth of cells is there: delivered or reported, and erased.
TakeFrame ==
  /\ Ready /\ HasMagic(rxBuffer) /\ ~AboveCeiling /\ Complete
  /\ delivered' = delivered \o DeserializeFrame(SubSeq(rxBuffer, 1, TotalFrameLen(rxBuffer)))
  /\ Erase(TotalFrameLen(rxBuffer))
  /\ UNCHANGED <<items, sent, at, isConnected>>

\* Mutant: rxBuffer is declared inside the outer loop.
WaitForgets ==
  /\ at = "parse" /\ (Ready => HasMagic(rxBuffer) /\ ~AboveCeiling /\ ~Complete)
  /\ at' = "loop" /\ rxBuffer' = <<>>
  /\ UNCHANGED <<items, sent, isConnected, delivered>>

\* Too little for a header, or for the frame it announces: back to recv.
Wait ==
  /\ at = "parse"
  /\ \/ ~Ready
     \/ Ready /\ HasMagic(rxBuffer) /\ ~AboveCeiling /\ ~Complete
  /\ at' = "loop"
  /\ UNCHANGED <<items, sent, rxBuffer, isConnected, delivered>>

Next ==
  \/ Loop \/ Recv \/ RecvFails \/ FlagCleared
  \/ DropByte \/ RejectOversized \/ TakeFrame \/ Wait

Spec == Init /\ [][Next]_vars

-----------------------------------------------------------------------------
\* Properties

\* Every variable has its type; what DeserializeFrame accepts is a frame the
\* peer sent.
TypeOK ==
  /\ sent \in Seq(Cell) /\ rxBuffer \in Seq(Cell)
  /\ at \in {"loop", "recv", "parse"} /\ isConnected \in BOOLEAN
  /\ delivered \in Seq(Frames)

\* The ceiling bounds the memory of the worker: in recv, rxBuffer holds
\* less than one frame of the largest size, whatever the peer sends.
BufferBounded ==
  at = "recv" => Len(rxBuffer) < MinFrameLen + MAX_PAYLOAD_SIZE

\* What recv has returned so far.
Received == SubSeq(Stream, 1, Len(Stream) - Len(sent))

\* The items that have left the stream whole, up to the first fatal one.
Arrived ==
  {i \in DOMAIN items : Len(Wire(items, i)) <= Len(Received) /\ \A j \in 1 .. i : ~items[j].fatal}

\* However recv cuts the stream, when the worker leaves the inner loop it
\* has handed over exactly the intact frames that have arrived, in order and once:
\* damage, stray bytes and unknown types cost no later frame, and no intact
\* frame stays in rxBuffer.
DeliversIntactFrames ==
  at # "parse" => delivered = FlattenSeq([i \in 1 .. Cardinality(Arrived) |-> items[i].frame])

\* One pass over s ends here: too little is left, or it is too much to take.
PassEnds(s) ==
  \/ Len(s) < MinFrameLen
  \/ HasMagic(s) /\ (PayloadLen(s) > MAX_PAYLOAD_SIZE \/ Len(s) < TotalFrameLen(s))
Skip(s) == IF HasMagic(s) THEN TotalFrameLen(s) ELSE 1

\* The frames that one pass over s finds.
FramesIn[s \in Seq(Cell)] ==
  IF PassEnds(s) THEN <<>>
  ELSE DeserializeFrame(SubSeq(s, 1, Skip(s))) \o FramesIn[SubSeq(s, Skip(s) + 1, Len(s))]

\* However recv cuts the stream, and whatever is in it, the worker that goes
\* back to recv has handed over what one pass over everything received
\* would find: no frame is lost, repeated or made up at a cut.
CutsDoNotMatter == at # "parse" => delivered = FramesIn[Received]

=============================================================================
