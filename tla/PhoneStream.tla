----------------------------- MODULE PhoneStream -----------------------------
(***************************************************************************)
(* The receive loop of the phone (receiverLoop in                          *)
(* transport/TcpTransportClient.kt, with transport/FrameProtocol.kt) on    *)
(* the streams of FrameStream.  It differs from the agent's in what it     *)
(* does with a header it does not like: it keeps it, and so meets it again *)
(* with every later read.  Lengths are signed here.                        *)
(***************************************************************************)
EXTENDS FrameStream

CONSTANT ErrorType      \* ERROR_MSG

ASSUME ErrorAssumption == ErrorType \in MessageTypes

VARIABLES
  side,         \* which of the two loops reads the stream
  phone         \* [sent, rxBuffer, at, delivered]: the phone's

\* A cell as a two's complement number.
Signed(n) == IF 2 * n > Max(Cell) THEN n - (Max(Cell) + 1) ELSE n

TransportMessageType(code) == IF code \in MessageTypes THEN code ELSE ErrorType

\* Mutant: an unknown type is an error, as it is on the agent.
DeserializeStrict(data) == DeserializeFrame(data)

\* deserializeFrame of totalFrameLen cells; an unknown type is ERROR_MSG.
PhoneDeserialize(data) ==
  IF \/ Len(data) < MinFrameLen
     \/ CalculateCrc32(SubSeq(data, 1, Len(data) - 1)) # Last(data)
  THEN <<>>
  ELSE <<[type |-> TransportMessageType(data[HeaderLen]),
          payload |-> SubSeq(data, HeaderLen + 1, Len(data) - 1)]>>

PhoneInit == phone = [sent |-> sent, rxBuffer |-> <<>>, at |-> "read", delivered |-> <<>>]

\* Mutant: what an earlier read left over is overwritten.
PhoneReadOver ==
  /\ phone.at = "read"
  /\ \E n \in 1 .. Len(phone.sent) :
       phone' = [phone EXCEPT !.rxBuffer = SubSeq(phone.sent, 1, n),
                              !.sent = SubSeq(@, n + 1, Len(@)),
                              !.at = "parse"]

\* read returns some of what has arrived.
PhoneRead ==
  /\ phone.at = "read"
  /\ \E n \in 1 .. Len(phone.sent) :
       phone' = [phone EXCEPT !.rxBuffer = @ \o SubSeq(phone.sent, 1, n),
                              !.sent = SubSeq(@, n + 1, Len(@)),
                              !.at = "parse"]

\* The stream ends, or isConnected was cleared.
PhoneLeaves == phone.at = "read" /\ phone' = [phone EXCEPT !.at = "ended"]

PhoneLen(s) == Signed(PayloadLen(s))
PhoneFrameLen(s) == MinFrameLen + PhoneLen(s)
RefusesHeader(s) == ~HasMagic(s) \/ PhoneLen(s) > MAX_PAYLOAD_SIZE

PhoneReady == phone.at = "parse" /\ Len(phone.rxBuffer) >= MinFrameLen
PhoneTotal == PhoneFrameLen(phone.rxBuffer)
Refuses == RefusesHeader(phone.rxBuffer)

\* Back to read, with whatever rxBuffer holds: too little, or a header that
\* is refused.
PhoneBreaks ==
  /\ phone.at = "parse"
  /\ PhoneReady => Refuses \/ Len(phone.rxBuffer) < PhoneTotal
  /\ phone' = [phone EXCEPT !.at = "read"]

\* ByteArray of a negative size throws, and the loop is over.
PhoneThrows ==
  /\ PhoneReady /\ ~Refuses /\ PhoneTotal < 0
  /\ phone' = [phone EXCEPT !.at = "ended"]

\* totalFrameLen bytes are handed over or reported, and dropped.  A negative
\* length can make that a part of the header, or nothing, over and over.
PhoneTakes ==
  /\ PhoneReady /\ ~Refuses /\ PhoneTotal \in 0 .. Len(phone.rxBuffer)
  /\ phone' = [phone EXCEPT
                 !.delivered = @ \o PhoneDeserialize(SubSeq(phone.rxBuffer, 1, PhoneTotal)),
                 !.rxBuffer = SubSeq(@, PhoneTotal + 1, Len(@))]

PhoneNext == PhoneRead \/ PhoneLeaves \/ PhoneBreaks \/ PhoneThrows \/ PhoneTakes

StreamInit == Init /\ PhoneInit /\ side \in {"agent", "phone"}
StreamNext ==
  \/ side = "agent" /\ Next /\ UNCHANGED <<phone, side>>
  \/ side = "phone" /\ PhoneNext /\ UNCHANGED <<vars, side>>
StreamSpec == StreamInit /\ [][StreamNext]_<<vars, phone, side>>

-----------------------------------------------------------------------------
\* Properties

\* Stray cells and a refused or misread length.  The one length that is not
\* positive and does no harm makes the loop skip just the header.
Blocks(item) ==
  \/ \E n \in Noise : item = Dud(n)
  \/ item.fatal /\ MinFrameLen + Signed(PayloadLen(item.cells)) # HeaderLen

\* What the phone makes of an item.
Sees(item) ==
  IF item \in {Mistyped(f) : f \in Frames}
  THEN <<[type |-> ErrorType, payload |-> SubSeq(item.cells, HeaderLen + 1, Len(item.cells) - 1)]>>
  ELSE item.frame

\* What read has returned so far.
PhoneReceived == SubSeq(Stream, 1, Len(Stream) - Len(phone.sent))

\* However read cuts the stream, the phone hands over the intact frames that
\* have arrived, in order and once, those of an unknown type as errors, up to
\* the first stray byte or bad length; and not one frame after that, however
\* many arrive and though it still calls itself connected (receiverLoop).
PhoneDeliversUntilBlocked ==
  LET arrived == {i \in DOMAIN items : /\ Len(Wire(items, i)) <= Len(PhoneReceived)
                                       /\ \A j \in 1 .. i : ~Blocks(items[j])}
  IN  phone.at # "parse" =>
        phone.delivered = FlattenSeq([i \in 1 .. Cardinality(arrived) |-> Sees(items[i])])

\* The frames that one pass of the phone over s finds.
PhonePassEnds(s) ==
  Len(s) < MinFrameLen \/ RefusesHeader(s) \/ PhoneFrameLen(s) \notin 1 .. Len(s)
PhoneFramesIn[s \in Seq(Cell)] ==
  IF PhonePassEnds(s) THEN <<>>
  ELSE PhoneDeserialize(SubSeq(s, 1, PhoneFrameLen(s)))
         \o PhoneFramesIn[SubSeq(s, PhoneFrameLen(s) + 1, Len(s))]

\* The same of the phone as CutsDoNotMatter says of the agent: what is handed
\* over depends on the bytes, not on how read cuts them (receiverLoop).
PhoneCutsDoNotMatter ==
  phone.at # "parse" => phone.delivered = PhoneFramesIn[PhoneReceived]

\* transport_spec.md: "Invalid magic bytes MUST result in immediate connection
\* drop".  The phone reports an error and goes back to read; the agent erases a
\* byte and looks on.
DropsOnBadMagic ==
  [][/\ PhoneReady /\ ~HasMagic(phone.rxBuffer) => phone'.at = "ended"
     /\ Ready /\ ~HasMagic(rxBuffer) => ~isConnected']_<<vars, phone, side>>

=============================================================================
