--------------------------- MODULE FrameProtocol ---------------------------
(***************************************************************************)
(* The frame codec of the agent (windows/common/FrameProtocol.cpp).  A     *)
(* cell stands for a field or a byte of the stream: a frame is the magic,  *)
(* its length, its type, the payload and a checksum over all of these.     *)
(* The magic keeps more than one cell, since resynchronization can meet a  *)
(* part of it; flags and sequence number, which no receiver reads, are     *)
(* left out.                                                               *)
(***************************************************************************)
EXTENDS Naturals, Sequences, SequencesExt

CONSTANTS
  FRAME_MAGIC,        \* the cells every frame starts with
  MAX_PAYLOAD_SIZE,   \* longest payload, in cells
  MessageTypes,       \* the values of TransportMessageType
  Cell                \* the values of a cell: 0 .. p - 1 for an odd p

ASSUME CodecAssumption ==
  /\ Max(Cell) \in Nat /\ Max(Cell) % 2 = 0 /\ Cell = 0 .. Max(Cell)
  /\ MAX_PAYLOAD_SIZE \in Nat /\ 2 * MAX_PAYLOAD_SIZE < Max(Cell)
  /\ MessageTypes \subseteq Cell /\ MessageTypes # {}
  /\ FRAME_MAGIC \in Seq(Cell) /\ FRAME_MAGIC # <<>>

MagicLen == Len(FRAME_MAGIC)
HeaderLen == MagicLen + 2         \* 14 bytes
MinFrameLen == HeaderLen + 1      \* 18 bytes

\* CalculateCrc32: like CRC32, it depends on every cell and on their order,
\* and tells any two sequences apart that differ in one cell.
CalculateCrc32(data) ==
  LET crc[i \in 0 .. Len(data)] ==
        IF i = 0 THEN 1 ELSE (2 * crc[i - 1] + data[i] + 1) % (Max(Cell) + 1)
  IN  crc[Len(data)]

\* SerializeFrame: nothing for a payload above the ceiling.
SerializeFrame(frame) ==
  LET body == FRAME_MAGIC \o <<Len(frame.payload), frame.type>> \o frame.payload
  IN  IF Len(frame.payload) > MAX_PAYLOAD_SIZE THEN <<>>
      ELSE Append(body, CalculateCrc32(body))

HasMagic(data) == IsPrefix(FRAME_MAGIC, data)
PayloadLen(data) == data[MagicLen + 1]
TotalFrameLen(data) == MinFrameLen + PayloadLen(data)

\* Mutant: the checksum is not compared.
DeserializeUnchecked(data) ==
  IF data[HeaderLen] \notin MessageTypes THEN <<>>
  ELSE <<[type |-> data[HeaderLen],
          payload |-> SubSeq(data, HeaderLen + 1, HeaderLen + PayloadLen(data))]>>

\* DeserializeFrame: <<frame>>, or <<>> where it returns false.
DeserializeFrame(data) ==
  IF \/ Len(data) < MinFrameLen
     \/ ~HasMagic(data)
     \/ PayloadLen(data) > MAX_PAYLOAD_SIZE
     \/ Len(data) < TotalFrameLen(data)
     \/ CalculateCrc32(SubSeq(data, 1, TotalFrameLen(data) - 1)) # data[TotalFrameLen(data)]
     \/ data[HeaderLen] \notin MessageTypes
  THEN <<>>
  ELSE <<[type |-> data[HeaderLen],
          payload |-> SubSeq(data, HeaderLen + 1, HeaderLen + PayloadLen(data))]>>

=============================================================================
