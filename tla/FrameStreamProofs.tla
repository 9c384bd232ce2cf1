-------------------------- MODULE FrameStreamProofs --------------------------
(***************************************************************************)
(* The receive loops of agent and phone.  First on any stream of cells at  *)
(* all: what rxBuffer can hold, what the listener can be called with, and  *)
(* that it does not matter how the stream is cut.  Then, with what the     *)
(* codec writes and detects, on streams of the items a peer is modelled to *)
(* write: which frames arrive.                                             *)
(***************************************************************************)
EXTENDS PhoneStream, SequenceTheorems, FiniteSetTheorems, NaturalsInduction,
        WellFoundedInduction, TLAPS

\* A connection whose peer will have written any cells.
AnyStream ==
  /\ Stream \in Seq(Cell) /\ sent = Stream
  /\ rxBuffer = <<>> /\ delivered = <<>>
  /\ at = "loop" /\ isConnected = TRUE

AnyStreamSpec == AnyStream /\ [][Next]_vars

\* A frame the listener can deal with.
WellFormed ==
  [type : MessageTypes, payload : {p \in Seq(Cell) : Len(p) <= MAX_PAYLOAD_SIZE}]

\* Whatever comes in, OnFrameReceived is called with frames of a known type
\* whose payload is within the ceiling.
DeliversWellFormed == delivered \in Seq(WellFormed)

StreamTypes ==
  /\ sent \in Seq(Cell) /\ rxBuffer \in Seq(Cell)
  /\ isConnected \in BOOLEAN

\* A loop that will call recv again has less than one largest frame left.
\* RejectOversized leaves more in rxBuffer, and then the thread ends.
Small ==
  at = "recv" \/ (at = "loop" /\ isConnected)
    => Len(rxBuffer) < MinFrameLen + MAX_PAYLOAD_SIZE

StreamInv == StreamTypes /\ Small /\ DeliversWellFormed

-----------------------------------------------------------------------------
\* Induction and recursion, with sets and functions where the library's
\* theorems have operators

\* The least of some naturals.
LEMMA LeastElement ==
  ASSUME NEW T, T \subseteq Nat, T # {}
  PROVE  \E m \in T : \A k \in T : m <= k
  <1>1. \E m \in T : \A k \in T : ~(<<k, m>> \in OpToRel(<, Nat))
    BY WFMin, NatLessThanWellFounded
  <1>2. ASSUME NEW m \in Nat, NEW k \in Nat
        PROVE  <<k, m>> \in OpToRel(<, Nat) <=> k < m
    BY DEF OpToRel
  <1>3. \E m \in T : \A k \in T : ~(k < m)
    BY <1>1, <1>2, Zenon
  <1>4. QED
    BY <1>3

\* Induction: a set with 0 and the successors of its members has all naturals.
LEMMA InductiveSet ==
  ASSUME NEW S, 0 \in S, \A n \in Nat : n \in S => n + 1 \in S
  PROVE  \A n \in Nat : n \in S
  <1> DEFINE T == {n \in Nat : n \notin S}
  <1>1. ASSUME T # {} PROVE FALSE
    <2> HIDE DEF T
    <2>1. T \subseteq Nat
      BY DEF T
    <2>2. PICK m \in T : \A k \in T : m <= k
      BY <1>1, <2>1, LeastElement
    <2>3. m \in Nat /\ m # 0 /\ m \notin S
      BY <2>2 DEF T
    <2>4. m - 1 \in Nat /\ m - 1 \notin T
      BY <2>1, <2>2, <2>3
    <2>5. m - 1 \in S
      BY <2>4 DEF T
    <2>6. QED
      BY <2>3, <2>4, <2>5
  <1>2. QED
    BY <1>1

\* A recursion over D into V: rest makes what is not in stop smaller, and comb
\* makes the value of an argument from the value of its rest.
IsRecursion(D, V, size, stop, base, rest, comb) ==
  /\ size \in [D -> Nat] /\ stop \in SUBSET D /\ base \in V
  /\ rest \in [D -> D] /\ comb \in [D -> [V -> V]]
  /\ \A x \in D : x \notin stop => size[rest[x]] < size[x]

\* f follows the recursion up to size n.
Follows(f, n, D, V, size, stop, base, rest, comb) ==
  /\ f \in [{x \in D : size[x] <= n} -> V]
  /\ \A x \in D : size[x] <= n =>
       f[x] = IF x \in stop THEN base ELSE comb[x][f[rest[x]]]

\* Two functions that follow it agree where both are defined.
LEMMA FollowsUnique ==
  ASSUME NEW D, NEW V, NEW size \in [D -> Nat], NEW stop \in SUBSET D, NEW base \in V,
         NEW rest \in [D -> D], NEW comb \in [D -> [V -> V]],
         \A x \in D : x \notin stop => size[rest[x]] < size[x],
         NEW m \in Nat, NEW n \in Nat, m <= n, NEW f, NEW g,
         Follows(f, m, D, V, size, stop, base, rest, comb),
         Follows(g, n, D, V, size, stop, base, rest, comb)
  PROVE  \A x \in D : size[x] <= m => f[x] = g[x]
  <1> DEFINE S == {k \in Nat : \A x \in D : size[x] <= k /\ size[x] <= m => f[x] = g[x]}
  <1>1. \A x \in D : size[x] <= m =>
          /\ f[x] = IF x \in stop THEN base ELSE comb[x][f[rest[x]]]
          /\ g[x] = IF x \in stop THEN base ELSE comb[x][g[rest[x]]]
    BY DEF Follows
  <1>2. 0 \in S
    <2>1. \A x \in D : size[x] <= 0 => x \in stop
      OBVIOUS
    <2>2. QED
      BY <1>1, <2>1
  <1>3. ASSUME NEW k \in Nat, k \in S
        PROVE  k + 1 \in S
    <2>1. ASSUME NEW x \in D, size[x] <= k + 1, size[x] <= m
          PROVE  f[x] = g[x]
      <3>1. CASE x \in stop
        BY <1>1, <2>1, <3>1
      <3>2. CASE x \notin stop
        <4>1. rest[x] \in D /\ size[rest[x]] <= k /\ size[rest[x]] <= m
          BY <2>1, <3>2
        <4>2. f[rest[x]] = g[rest[x]]
          BY <1>3, <4>1
        <4>3. QED
          BY <1>1, <2>1, <3>2, <4>2
      <3>3. QED
        BY <3>1, <3>2
    <2>2. QED
      BY <2>1
  <1> HIDE DEF S
  <1>4. m \in S
    BY <1>2, <1>3, InductiveSet
  <1>5. QED
    BY <1>4 DEF S

\* Recursion: where rest makes an argument smaller, the equation has a
\* solution.
LEMMA Recursion ==
  ASSUME NEW D, NEW V, NEW size, NEW stop, NEW base, NEW rest, NEW comb,
         IsRecursion(D, V, size, stop, base, rest, comb)
  PROVE  \E f \in [D -> V] :
           \A x \in D : f[x] = IF x \in stop THEN base ELSE comb[x][f[rest[x]]]
  <1> USE DEF IsRecursion
  <1> DEFINE Fol(f, n) == Follows(f, n, D, V, size, stop, base, rest, comb)
             Upto(n) == {x \in D : size[x] <= n}
             S == {n \in Nat : \E f : Fol(f, n)}
  <1>1. 0 \in S
    <2> DEFINE f == [x \in Upto(0) |-> base]
    <2>1. \A x \in D : size[x] <= 0 => x \in stop
      OBVIOUS
    <2>2. Fol(f, 0)
      BY <2>1 DEF Follows
    <2>3. QED
      BY <2>2
  <1>2. ASSUME NEW n \in Nat, n \in S
        PROVE  n + 1 \in S
    <2>1. PICK f : Fol(f, n)
      BY <1>2
    <2>2. f \in [Upto(n) -> V] /\ \A x \in D : size[x] <= n =>
            f[x] = IF x \in stop THEN base ELSE comb[x][f[rest[x]]]
      BY <2>1 DEF Follows
    <2> DEFINE g == [x \in Upto(n + 1) |-> IF x \in stop THEN base ELSE comb[x][f[rest[x]]]]
    <2>3. \A x \in D : size[x] <= n + 1 /\ x \notin stop => rest[x] \in Upto(n)
      OBVIOUS
    <2>4. \A x \in Upto(n + 1) : g[x] \in V
      BY <2>2, <2>3
    <2>5. \A x \in Upto(n) : g[x] = f[x]
      BY <2>2
    <2>6. \A x \in D : size[x] <= n + 1 =>
            g[x] = IF x \in stop THEN base ELSE comb[x][g[rest[x]]]
      BY <2>3, <2>5
    <2>7. Fol(g, n + 1)
      BY <2>4, <2>6 DEF Follows
    <2>8. QED
      BY <2>7
  <1>3. \A n \in Nat : \E f : Fol(f, n)
    <2> HIDE DEF S
    <2>1. \A n \in Nat : n \in S
      BY <1>1, <1>2, InductiveSet
    <2>2. QED
      BY <2>1 DEF S
  <1> DEFINE F(n) == CHOOSE f : Fol(f, n)
             h == [x \in D |-> F(size[x])[x]]
  <1>4. \A n \in Nat : Fol(F(n), n)
    BY <1>3
  <1> HIDE DEF F
  <1>5. ASSUME NEW x \in D
        PROVE  h[x] \in V /\ h[x] = IF x \in stop THEN base ELSE comb[x][h[rest[x]]]
    <2>1. size[x] \in Nat /\ Fol(F(size[x]), size[x])
      BY <1>4
    <2>2. /\ F(size[x])[x] \in V
          /\ F(size[x])[x] = IF x \in stop THEN base ELSE comb[x][F(size[x])[rest[x]]]
      BY <2>1 DEF Follows
    <2>3. CASE x \in stop
      BY <2>2, <2>3
    <2>4. CASE x \notin stop
      <3>1. rest[x] \in D /\ size[rest[x]] \in Nat /\ size[rest[x]] <= size[x]
        BY <2>1, <2>4
      <3>2. F(size[rest[x]])[rest[x]] = F(size[x])[rest[x]]
        <4> DEFINE m == size[rest[x]]
                   n == size[x]
        <4>1. /\ Follows(F(m), m, D, V, size, stop, base, rest, comb)
              /\ Follows(F(n), n, D, V, size, stop, base, rest, comb)
              /\ m \in Nat /\ n \in Nat /\ m <= n
          BY <1>4, <2>1, <3>1
        <4> HIDE DEF m, n
        <4>2. \A y \in D : size[y] <= m => F(m)[y] = F(n)[y]
          BY <4>1, FollowsUnique
        <4>3. QED
          BY <3>1, <4>1, <4>2 DEF m, n
      <3>3. QED
        BY <2>2, <2>4, <3>1, <3>2
    <2>5. QED
      BY <2>3, <2>4
  <1>6. QED
    BY <1>5

-----------------------------------------------------------------------------
\* The codec

\* The sizes of the fields.
LEMMA Lengths ==
  /\ MagicLen \in Nat \ {0} /\ MAX_PAYLOAD_SIZE \in Nat
  /\ HeaderLen = MagicLen + 2 /\ MinFrameLen = MagicLen + 3
  <1>1. FRAME_MAGIC \in Seq(Cell) /\ FRAME_MAGIC # <<>> /\ MAX_PAYLOAD_SIZE \in Nat
    BY CodecAssumption
  <1>2. Len(FRAME_MAGIC) \in Nat /\ Len(FRAME_MAGIC) # 0
    BY <1>1
  <1>3. QED
    BY <1>1, <1>2 DEF MagicLen, HeaderLen, MinFrameLen

\* A header's worth of cells holds a length.
LEMMA HeaderHasLength ==
  ASSUME NEW data \in Seq(Cell), Len(data) >= MinFrameLen
  PROVE  PayloadLen(data) \in Nat /\ TotalFrameLen(data) = MinFrameLen + PayloadLen(data)
  <1>1. MagicLen + 1 \in 1 .. Len(data)
    BY Lengths
  <1>2. data[MagicLen + 1] \in Cell
    BY <1>1
  <1>3. QED
    BY <1>2, CodecAssumption DEF PayloadLen, TotalFrameLen

\* DeserializeFrame returns nothing, or one frame of a known type with a
\* payload within the ceiling.
LEMMA DeserializeWellFormed ==
  ASSUME NEW data \in Seq(Cell)
  PROVE  DeserializeFrame(data) \in Seq(WellFormed)
  <1> DEFINE type == data[HeaderLen]
             payload == SubSeq(data, HeaderLen + 1, HeaderLen + PayloadLen(data))
  <1>1. CASE DeserializeFrame(data) = <<>>
    BY <1>1
  <1>2. CASE DeserializeFrame(data) # <<>>
    <2>1. /\ ~(Len(data) < MinFrameLen)
          /\ ~(PayloadLen(data) > MAX_PAYLOAD_SIZE)
          /\ ~(Len(data) < TotalFrameLen(data))
          /\ type \in MessageTypes
          /\ DeserializeFrame(data) = <<[type |-> type, payload |-> payload]>>
      BY <1>2, Zenon DEF DeserializeFrame
    <2>2. Len(data) \in Nat /\ Len(data) >= MinFrameLen
      BY <2>1, Lengths
    <2>3. PayloadLen(data) \in Nat /\ TotalFrameLen(data) = MinFrameLen + PayloadLen(data)
      BY <2>2, HeaderHasLength
    <2>4. payload \in {p \in Seq(Cell) : Len(p) <= MAX_PAYLOAD_SIZE}
      <3> DEFINE n == PayloadLen(data)
      <3>1. n \in Nat /\ n <= MAX_PAYLOAD_SIZE /\ HeaderLen \in Nat /\ HeaderLen + n <= Len(data)
        BY <2>1, <2>2, <2>3, Lengths
      <3> HIDE DEF n
      <3>2. /\ SubSeq(data, HeaderLen + 1, HeaderLen + n) \in Seq(Cell)
            /\ Len(SubSeq(data, HeaderLen + 1, HeaderLen + n)) = n
        BY <2>2, <3>1
      <3>3. QED
        BY <3>1, <3>2 DEF n
    <2> HIDE DEF type, payload
    <2>5. [type |-> type, payload |-> payload] \in WellFormed
      BY <2>1, <2>4 DEF WellFormed
    <2>6. QED
      BY <2>1, <2>5
  <1>3. QED
    BY <1>1, <1>2

-----------------------------------------------------------------------------
\* The loop

\* recv adds to rxBuffer what it takes from the stream.
LEMMA RecvInv ==
  ASSUME StreamInv, Recv
  PROVE  StreamInv'
  <1>1. sent \in Seq(Cell) /\ rxBuffer \in Seq(Cell) /\ isConnected \in BOOLEAN
    BY DEF StreamInv, StreamTypes
  <1>2. PICK n \in 1 .. Len(sent) :
          /\ rxBuffer' = rxBuffer \o SubSeq(sent, 1, n)
          /\ sent' = SubSeq(sent, n + 1, Len(sent))
    BY DEF Recv
  <1>3. SubSeq(sent, 1, n) \in Seq(Cell) /\ SubSeq(sent, n + 1, Len(sent)) \in Seq(Cell)
    BY <1>1
  <1>4. StreamTypes'
    BY <1>1, <1>2, <1>3 DEF Recv, StreamTypes
  <1>5. Small'
    BY DEF Recv, Small
  <1>6. QED
    BY <1>4, <1>5 DEF StreamInv, DeliversWellFormed, Recv

\* What is left after cells are erased from the front are cells.
LEMMA EraseCells ==
  ASSUME rxBuffer \in Seq(Cell), NEW n \in Nat, Erase(n)
  PROVE  rxBuffer' \in Seq(Cell)
  BY DEF Erase

\* The cells at the front that make up a frame.
LEMMA TakeFrameInv ==
  ASSUME StreamInv, TakeFrame
  PROVE  StreamInv'
  <1>1. rxBuffer \in Seq(Cell) /\ delivered \in Seq(WellFormed)
    BY DEF StreamInv, StreamTypes, DeliversWellFormed
  <1>2. Len(rxBuffer) >= MinFrameLen
    BY DEF TakeFrame, Ready
  <1> DEFINE n == TotalFrameLen(rxBuffer)
  <1>3. n \in Nat /\ n <= Len(rxBuffer)
    <2>1. PayloadLen(rxBuffer) \in Nat /\ n = MinFrameLen + PayloadLen(rxBuffer)
      BY <1>1, <1>2, HeaderHasLength
    <2>2. Len(rxBuffer) >= n
      BY DEF TakeFrame, Complete
    <2>3. QED
      BY <1>1, <2>1, <2>2, Lengths
  <1>4. SubSeq(rxBuffer, 1, n) \in Seq(Cell)
    BY <1>1, <1>3
  <1>5. delivered' \in Seq(WellFormed)
    <2>1. DeserializeFrame(SubSeq(rxBuffer, 1, n)) \in Seq(WellFormed)
      BY <1>4, DeserializeWellFormed
    <2>2. delivered' = delivered \o DeserializeFrame(SubSeq(rxBuffer, 1, n))
      BY DEF TakeFrame
    <2>3. QED
      BY <1>1, <2>1, <2>2
  <1>6. Erase(n) /\ sent' = sent /\ isConnected' = isConnected /\ at' = "parse"
    BY DEF TakeFrame, Ready
  <1>7. rxBuffer' \in Seq(Cell)
    BY <1>1, <1>3, <1>6, EraseCells
  <1>8. StreamTypes' /\ Small'
    BY <1>6, <1>7 DEF StreamInv, StreamTypes, Small
  <1>9. QED
    BY <1>5, <1>8 DEF StreamInv, DeliversWellFormed

\* The inner loop ends with less than a header, or less than the frame that a
\* header within the ceiling announces.
LEMMA WaitInv ==
  ASSUME StreamInv, Wait
  PROVE  StreamInv'
  <1>1. rxBuffer \in Seq(Cell) /\ rxBuffer' = rxBuffer
    BY DEF StreamInv, StreamTypes, Wait
  <1>2. Len(rxBuffer) \in Nat
    BY <1>1
  <1>3. Len(rxBuffer) < MinFrameLen + MAX_PAYLOAD_SIZE
    <2>1. CASE ~(Len(rxBuffer) >= MinFrameLen)
      BY <1>2, <2>1, Lengths
    <2>2. CASE Len(rxBuffer) >= MinFrameLen
      <3>1. ~(PayloadLen(rxBuffer) > MAX_PAYLOAD_SIZE) /\ ~(Len(rxBuffer) >= TotalFrameLen(rxBuffer))
        BY <2>2 DEF Wait, Ready, AboveCeiling, Complete
      <3>2. PayloadLen(rxBuffer) \in Nat /\ TotalFrameLen(rxBuffer) = MinFrameLen + PayloadLen(rxBuffer)
        BY <1>1, <2>2, HeaderHasLength
      <3>3. QED
        BY <1>2, <3>1, <3>2, Lengths
    <2>3. QED
      BY <2>1, <2>2
  <1>4. StreamTypes' /\ DeliversWellFormed'
    BY DEF StreamInv, StreamTypes, DeliversWellFormed, Wait
  <1>5. Small'
    BY <1>1, <1>3 DEF Small
  <1>6. QED
    BY <1>4, <1>5 DEF StreamInv

\* Every step of the worker, and the flag cleared under it.
LEMMA StreamStep == StreamInv /\ [Next]_vars => StreamInv'
  <1> SUFFICES ASSUME StreamInv, [Next]_vars PROVE StreamInv'
    OBVIOUS
  <1>1. sent \in Seq(Cell) /\ rxBuffer \in Seq(Cell) /\ isConnected \in BOOLEAN
    BY DEF StreamInv, StreamTypes
  <1>2. CASE UNCHANGED vars
    BY <1>2 DEF vars, StreamInv, StreamTypes, Small, DeliversWellFormed
  <1>3. CASE Loop
    BY <1>3 DEF Loop, StreamInv, StreamTypes, Small, DeliversWellFormed
  <1>4. CASE RecvFails
    BY <1>4 DEF RecvFails, StreamInv, StreamTypes, Small, DeliversWellFormed
  <1>5. CASE FlagCleared
    BY <1>5 DEF FlagCleared, StreamInv, StreamTypes, Small, DeliversWellFormed
  <1>6. CASE DropByte
    <2>1. rxBuffer' \in Seq(Cell)
      BY <1>1, <1>6, EraseCells DEF DropByte
    <2>2. at' = "parse"
      BY <1>6 DEF DropByte, Ready
    <2>3. QED
      BY <1>6, <2>1, <2>2 DEF DropByte, StreamInv, StreamTypes, Small, DeliversWellFormed
  <1>7. CASE RejectOversized
    BY <1>7 DEF RejectOversized, StreamInv, StreamTypes, Small, DeliversWellFormed
  <1>8. QED
    BY <1>2, <1>3, <1>4, <1>5, <1>6, <1>7, RecvInv, TakeFrameInv, WaitInv DEF Next

\* A new connection has an empty rxBuffer.
LEMMA AnyStreamInit == AnyStream => StreamInv
  <1> SUFFICES ASSUME AnyStream PROVE StreamInv
    OBVIOUS
  <1>1. Len(rxBuffer) = 0
    BY DEF AnyStream
  <1>2. Small
    BY <1>1, Lengths DEF Small
  <1>3. QED
    BY <1>2 DEF AnyStream, StreamInv, StreamTypes, DeliversWellFormed

\* ReceiverWorker calls recv with less than one largest frame in rxBuffer,
\* whatever bytes the peer wrote and however recv cuts them.
THEOREM BufferBoundedAlways == AnyStreamSpec => []BufferBounded
  <1>1. StreamInv => BufferBounded
    BY DEF StreamInv, Small, BufferBounded
  <1>2. QED
    BY AnyStreamInit, StreamStep, <1>1, PTL DEF AnyStreamSpec

\* ReceiverWorker hands over no frame of an unknown type and none with a
\* payload above the ceiling, whatever bytes the peer wrote.
THEOREM DeliversWellFormedAlways == AnyStreamSpec => []DeliversWellFormed
  <1>1. StreamInv => DeliversWellFormed
    BY DEF StreamInv
  <1>2. QED
    BY AnyStreamInit, StreamStep, <1>1, PTL DEF AnyStreamSpec

-----------------------------------------------------------------------------
\* Sequences of cells

\* A sequence cut in two.
LEMMA Cut ==
  ASSUME NEW S, NEW s \in Seq(S), NEW n \in 0 .. Len(s)
  PROVE  /\ SubSeq(s, 1, n) \in Seq(S) /\ Len(SubSeq(s, 1, n)) = n
         /\ SubSeq(s, n + 1, Len(s)) \in Seq(S)
         /\ Len(SubSeq(s, n + 1, Len(s))) = Len(s) - n
         /\ \A i \in 1 .. n : SubSeq(s, 1, n)[i] = s[i]
         /\ \A i \in 1 .. Len(s) - n : SubSeq(s, n + 1, Len(s))[i] = s[n + i]
  <1>1. Len(s) \in Nat /\ n \in Nat /\ n <= Len(s) /\ \A i \in 1 .. Len(s) : s[i] \in S
    BY ElementOfSeq
  <1>2. /\ SubSeq(s, 1, n) \in Seq(S) /\ Len(SubSeq(s, 1, n)) = n
        /\ \A i \in 1 .. n : SubSeq(s, 1, n)[i] = s[i]
    BY <1>1
  <1>3. /\ SubSeq(s, n + 1, Len(s)) \in Seq(S)
        /\ Len(SubSeq(s, n + 1, Len(s))) = Len(s) - n
    BY <1>1
  <1>4. \A i \in 1 .. Len(s) - n : SubSeq(s, n + 1, Len(s))[i] = s[n + i]
    BY <1>1
  <1>5. QED
    BY <1>2, <1>3, <1>4

\* The two parts make the sequence.
LEMMA CutJoins ==
  ASSUME NEW S, NEW s \in Seq(S), NEW n \in 0 .. Len(s)
  PROVE  SubSeq(s, 1, n) \o SubSeq(s, n + 1, Len(s)) = s
  <1> DEFINE a == SubSeq(s, 1, n)
             b == SubSeq(s, n + 1, Len(s))
  <1>1. /\ a \in Seq(S) /\ Len(a) = n /\ b \in Seq(S) /\ Len(b) = Len(s) - n
        /\ \A i \in 1 .. n : a[i] = s[i]
        /\ \A i \in 1 .. Len(s) - n : b[i] = s[n + i]
    BY Cut
  <1> HIDE DEF a, b
  <1>2. /\ a \o b \in Seq(S) /\ Len(a \o b) = Len(a) + Len(b)
        /\ \A i \in 1 .. Len(a) + Len(b) : (a \o b)[i] = IF i <= Len(a) THEN a[i] ELSE b[i - Len(a)]
    BY <1>1, ConcatProperties
  <1>3. Len(s) \in Nat /\ n \in Nat /\ Len(a \o b) = Len(s)
    BY <1>1, <1>2
  <1>4. ASSUME NEW i \in 1 .. Len(s) PROVE (a \o b)[i] = s[i]
    <2>1. CASE i <= n
      BY <1>1, <1>2, <1>3, <2>1
    <2>2. CASE i > n
      <3>1. i - n \in 1 .. Len(s) - n /\ n + (i - n) = i
        BY <1>3, <2>2
      <3>2. b[i - n] = s[i]
        BY <1>1, <3>1
      <3>3. QED
        BY <1>1, <1>2, <1>3, <2>2, <3>2
    <2>3. QED
      BY <1>3, <2>1, <2>2
  <1>5. a \o b = s
    BY <1>2, <1>3, <1>4, SeqEqual
  <1>6. QED
    BY <1>5 DEF a, b

\* What comes behind s does not change what is cut from its front.
LEMMA CutOfConcat ==
  ASSUME NEW S, NEW s \in Seq(S), NEW y \in Seq(S), NEW n \in 0 .. Len(s)
  PROVE  /\ SubSeq(s \o y, 1, n) = SubSeq(s, 1, n)
         /\ SubSeq(s \o y, n + 1, Len(s \o y)) = SubSeq(s, n + 1, Len(s)) \o y
  <1> DEFINE a == SubSeq(s, 1, n)
             b == SubSeq(s, n + 1, Len(s))
             t == s \o y
             c == SubSeq(t, 1, n)
             d == SubSeq(t, n + 1, Len(t))
  <1>1. /\ a \in Seq(S) /\ Len(a) = n /\ b \in Seq(S) /\ Len(b) = Len(s) - n
        /\ \A i \in 1 .. n : a[i] = s[i]
        /\ \A i \in 1 .. Len(s) - n : b[i] = s[n + i]
    BY Cut
  <1>2. /\ t \in Seq(S) /\ Len(t) = Len(s) + Len(y)
        /\ \A i \in 1 .. Len(s) + Len(y) : t[i] = IF i <= Len(s) THEN s[i] ELSE y[i - Len(s)]
    BY ConcatProperties
  <1>3. Len(s) \in Nat /\ Len(y) \in Nat /\ n \in Nat /\ n <= Len(s)
    OBVIOUS
  <1> HIDE DEF a, b, t
  <1>4. n \in 0 .. Len(t)
    BY <1>2, <1>3
  <1>5. /\ c \in Seq(S) /\ Len(c) = n /\ d \in Seq(S) /\ Len(d) = Len(t) - n
        /\ \A i \in 1 .. n : c[i] = t[i]
        /\ \A i \in 1 .. Len(t) - n : d[i] = t[n + i]
    BY <1>2, <1>4, Cut
  <1> HIDE DEF c, d
  <1>6. c = a
    <2>1. \A i \in 1 .. Len(c) : c[i] = a[i]
      BY <1>1, <1>2, <1>3, <1>5
    <2>2. QED
      BY <1>1, <1>5, <2>1, SeqEqual
  <1>7. d = b \o y
    <2>1. /\ b \o y \in Seq(S) /\ Len(b \o y) = Len(b) + Len(y)
          /\ \A i \in 1 .. Len(b) + Len(y) : (b \o y)[i] = IF i <= Len(b) THEN b[i] ELSE y[i - Len(b)]
      BY <1>1, ConcatProperties
    <2>2. Len(d) = Len(b \o y)
      BY <1>1, <1>2, <1>3, <1>5, <2>1
    <2>3. ASSUME NEW i \in 1 .. Len(d) PROVE d[i] = (b \o y)[i]
      <3>1. /\ i \in Nat /\ i \in 1 .. Len(t) - n /\ n + i \in 1 .. Len(s) + Len(y)
            /\ i \in 1 .. Len(b) + Len(y)
        BY <1>1, <1>2, <1>3, <1>5
      <3>2. d[i] = t[n + i]
        BY <1>5, <3>1
      <3>3. CASE i <= Len(s) - n
        <4>1. t[n + i] = s[n + i] /\ b[i] = s[n + i]
          BY <1>1, <1>2, <1>3, <3>1, <3>3
        <4>2. QED
          BY <1>1, <2>1, <3>1, <3>2, <3>3, <4>1
      <3>4. CASE ~(i <= Len(s) - n)
        <4>1. ~(n + i <= Len(s)) /\ n + i - Len(s) = i - Len(b)
          BY <1>1, <1>3, <3>1, <3>4
        <4>2. t[n + i] = y[n + i - Len(s)]
          BY <1>2, <3>1, <4>1
        <4>3. (b \o y)[i] = y[i - Len(b)]
          BY <1>1, <2>1, <3>1, <3>4
        <4>4. QED
          BY <3>2, <4>1, <4>2, <4>3
      <3>5. QED
        BY <3>3, <3>4
    <2>4. QED
      BY <1>5, <2>1, <2>2, <2>3, SeqEqual
  <1>8. QED
    BY <1>6, <1>7 DEF a, b, c, d, t

-----------------------------------------------------------------------------
\* Passes over a sequence of cells

\* A pass takes skip[s] cells from the front of s and hands over hand[s] for
\* them, until it stops.
IsPass(V, stop, skip, hand) ==
  /\ stop \in SUBSET Seq(Cell) /\ skip \in [Seq(Cell) -> Nat]
  /\ hand \in [Seq(Cell) -> Seq(V)]
  /\ \A s \in Seq(Cell) : s \notin stop => skip[s] \in 1 .. Len(s)

\* f is what a pass hands over in all.
IsScan(f, stop, skip, hand) ==
  f = [s \in Seq(Cell) |->
         IF s \in stop THEN <<>> ELSE hand[s] \o f[SubSeq(s, skip[s] + 1, Len(s))]]

\* A pass leaves less than it met.
LEMMA PassShrinks ==
  ASSUME NEW V, NEW stop, NEW skip, NEW hand, IsPass(V, stop, skip, hand),
         NEW s \in Seq(Cell), s \notin stop
  PROVE  /\ SubSeq(s, skip[s] + 1, Len(s)) \in Seq(Cell)
         /\ Len(SubSeq(s, skip[s] + 1, Len(s))) < Len(s)
  <1> DEFINE n == skip[s]
  <1>1. n \in 0 .. Len(s) /\ n \in Nat /\ n > 0 /\ Len(s) \in Nat
    BY DEF IsPass
  <1> HIDE DEF n
  <1>2. SubSeq(s, n + 1, Len(s)) \in Seq(Cell) /\ Len(SubSeq(s, n + 1, Len(s))) = Len(s) - n
    BY <1>1, Cut
  <1>3. Len(SubSeq(s, n + 1, Len(s))) < Len(s)
    BY <1>1, <1>2
  <1>4. QED
    BY <1>2, <1>3 DEF n

\* What a pass hands over is well defined,
LEMMA PassExists ==
  ASSUME NEW V, NEW stop, NEW skip, NEW hand, IsPass(V, stop, skip, hand)
  PROVE  \E f : IsScan(f, stop, skip, hand)
  <1> USE DEF IsPass
  <1> DEFINE D == Seq(Cell)
             W == Seq(V)
             size == [s \in D |-> Len(s)]
             rest == [s \in D |-> IF s \in stop THEN s ELSE SubSeq(s, skip[s] + 1, Len(s))]
             comb == [s \in D |-> [v \in W |-> hand[s] \o v]]
  <1>1. size \in [D -> Nat]
    OBVIOUS
  <1>2. \A s \in D : s \notin stop => /\ SubSeq(s, skip[s] + 1, Len(s)) \in D
                                       /\ Len(SubSeq(s, skip[s] + 1, Len(s))) < Len(s)
    BY PassShrinks
  <1>3. rest \in [D -> D]
    BY <1>2
  <1>4. comb \in [D -> [W -> W]]
    <2>1. \A s \in D : \A v \in W : hand[s] \o v \in W
      OBVIOUS
    <2>2. QED
      BY <2>1
  <1>5. \A x \in D : x \notin stop => size[rest[x]] < size[x]
    BY <1>2
  <1>6. <<>> \in W /\ stop \in SUBSET D
    OBVIOUS
  <1>7. \A s \in D : \A v \in W : comb[s][v] = hand[s] \o v
    OBVIOUS
  <1>8. \A s \in D : s \notin stop => rest[s] = SubSeq(s, skip[s] + 1, Len(s))
    OBVIOUS
  <1> HIDE DEF D, W, size, rest, comb
  <1>9. PICK f \in [D -> W] : \A x \in D : f[x] = IF x \in stop THEN <<>> ELSE comb[x][f[rest[x]]]
    <2>1. IsRecursion(D, W, size, stop, <<>>, rest, comb)
      BY <1>1, <1>3, <1>4, <1>5, <1>6 DEF IsRecursion
    <2>2. QED
      BY <2>1, Recursion
  <1>10. ASSUME NEW s \in D
         PROVE  f[s] = IF s \in stop THEN <<>> ELSE hand[s] \o f[SubSeq(s, skip[s] + 1, Len(s))]
    <2>1. CASE s \in stop
      BY <1>9, <2>1
    <2>2. CASE s \notin stop
      <3>1. f[s] = comb[s][f[rest[s]]] /\ f[rest[s]] \in W
        BY <1>3, <1>9, <2>2
      <3>2. f[s] = hand[s] \o f[rest[s]]
        BY <1>7, <3>1
      <3>3. QED
        BY <1>8, <2>2, <3>2
    <2>3. QED
      BY <2>1, <2>2
  <1>11. QED
    BY <1>9, <1>10 DEF D, IsScan

\* and a sequence.
LEMMA ScanTyped ==
  ASSUME NEW V, NEW stop, NEW skip, NEW hand, IsPass(V, stop, skip, hand),
         NEW f, IsScan(f, stop, skip, hand)
  PROVE  f \in [Seq(Cell) -> Seq(V)]
  <1> DEFINE S == {n \in Nat : \A s \in Seq(Cell) : Len(s) <= n => f[s] \in Seq(V)}
  <1>1. \A s \in Seq(Cell) :
          f[s] = IF s \in stop THEN <<>> ELSE hand[s] \o f[SubSeq(s, skip[s] + 1, Len(s))]
    BY DEF IsScan
  <1>2. 0 \in S
    <2>1. \A s \in Seq(Cell) : Len(s) <= 0 => s \in stop
      BY DEF IsPass
    <2>2. QED
      BY <1>1, <2>1
  <1>3. ASSUME NEW n \in Nat, n \in S
        PROVE  n + 1 \in S
    <2>1. ASSUME NEW s \in Seq(Cell), Len(s) <= n + 1, s \notin stop
          PROVE  f[s] \in Seq(V)
      <3> DEFINE t == SubSeq(s, skip[s] + 1, Len(s))
      <3>1. t \in Seq(Cell) /\ Len(t) < Len(s)
        BY <2>1, PassShrinks
      <3>2. f[s] = hand[s] \o f[t] /\ hand[s] \in Seq(V)
        BY <1>1, <2>1 DEF IsPass
      <3> HIDE DEF t
      <3>3. Len(t) <= n
        BY <2>1, <3>1
      <3>4. f[t] \in Seq(V)
        BY <1>3, <3>1, <3>3
      <3>5. QED
        BY <3>2, <3>4
    <2>2. \A s \in Seq(Cell) : s \in stop => f[s] = <<>>
      BY <1>1
    <2>3. \A s \in Seq(Cell) : Len(s) <= n + 1 => f[s] \in Seq(V)
      <3>1. <<>> \in Seq(V)
        OBVIOUS
      <3>2. QED
        BY <2>1, <2>2, <3>1, Zenon
    <2>4. QED
      BY <2>3
  <1> HIDE DEF S
  <1>4. \A n \in Nat : n \in S
    BY <1>2, <1>3, InductiveSet
  <1>5. \A s \in Seq(Cell) : f[s] \in Seq(V)
    BY <1>4 DEF S
  <1>6. QED
    BY <1>5 DEF IsScan

\* A pass that has not ended takes at least one cell, and no more than there are.
LEMMA SkipFits ==
  ASSUME NEW s \in Seq(Cell), ~PassEnds(s)
  PROVE  Skip(s) \in 1 .. Len(s) /\ Len(s) >= MinFrameLen
  <1>1. Len(s) \in Nat /\ Len(s) >= MinFrameLen
    BY Lengths DEF PassEnds
  <1>2. PayloadLen(s) \in Nat /\ TotalFrameLen(s) = MinFrameLen + PayloadLen(s)
    BY <1>1, HeaderHasLength
  <1>3. CASE HasMagic(s)
    BY <1>1, <1>2, <1>3, Lengths DEF PassEnds, Skip
  <1>4. CASE ~HasMagic(s)
    BY <1>1, <1>4, Lengths DEF Skip
  <1>5. QED
    BY <1>1, <1>3, <1>4

Taken(s) == SubSeq(s, 1, Skip(s))
Rest(s) == SubSeq(s, Skip(s) + 1, Len(s))

\* The cells a pass takes and the cells it leaves.
LEMMA TakenRest ==
  ASSUME NEW s \in Seq(Cell), ~PassEnds(s)
  PROVE  Taken(s) \in Seq(Cell) /\ Rest(s) \in Seq(Cell)
  <1>1. Skip(s) \in 0 .. Len(s)
    BY SkipFits
  <1>2. QED
    BY <1>1, Cut DEF Taken, Rest

\* FramesIn is what its recursive definition says.
LEMMA FramesInUnfolds ==
  /\ FramesIn \in [Seq(Cell) -> Seq(WellFormed)]
  /\ \A s \in Seq(Cell) :
       FramesIn[s] = IF PassEnds(s) THEN <<>>
                     ELSE DeserializeFrame(Taken(s)) \o FramesIn[Rest(s)]
  <1> DEFINE stop == {s \in Seq(Cell) : PassEnds(s)}
             skip == [s \in Seq(Cell) |-> IF PassEnds(s) THEN 0 ELSE Skip(s)]
             hand == [s \in Seq(Cell) |-> IF PassEnds(s) THEN <<>> ELSE DeserializeFrame(Taken(s))]
  <1>1. \A s \in Seq(Cell) :
          /\ s \in stop <=> PassEnds(s)
          /\ ~PassEnds(s) => skip[s] = Skip(s) /\ hand[s] = DeserializeFrame(Taken(s))
    OBVIOUS
  <1>2. IsPass(WellFormed, stop, skip, hand)
    <2>1. skip \in [Seq(Cell) -> Nat]
      BY SkipFits
    <2>2. \A s \in Seq(Cell) : ~PassEnds(s) => DeserializeFrame(Taken(s)) \in Seq(WellFormed)
      BY TakenRest, DeserializeWellFormed
    <2>3. hand \in [Seq(Cell) -> Seq(WellFormed)]
      BY <2>2
    <2>4. \A s \in Seq(Cell) : s \notin stop => skip[s] \in 1 .. Len(s)
      BY SkipFits
    <2>5. stop \in SUBSET Seq(Cell)
      OBVIOUS
    <2> HIDE DEF stop, skip, hand
    <2>6. QED
      BY <2>1, <2>3, <2>4, <2>5 DEF IsPass
  <1> HIDE DEF stop, skip, hand
  <1>3. ASSUME NEW f PROVE IsScan(f, stop, skip, hand) <=>
                             f = [s \in Seq(Cell) |-> IF PassEnds(s) THEN <<>>
                                    ELSE DeserializeFrame(Taken(s)) \o f[Rest(s)]]
    BY <1>1 DEF IsScan, Rest
  <1>4. FramesIn = CHOOSE f : f = [s \in Seq(Cell) |-> IF PassEnds(s) THEN <<>>
                                     ELSE DeserializeFrame(Taken(s)) \o f[Rest(s)]]
    BY DEF FramesIn, Taken, Rest
  <1>5. \E f : f = [s \in Seq(Cell) |-> IF PassEnds(s) THEN <<>>
                       ELSE DeserializeFrame(Taken(s)) \o f[Rest(s)]]
    BY <1>2, <1>3, PassExists
  <1>6. FramesIn = [s \in Seq(Cell) |-> IF PassEnds(s) THEN <<>>
                      ELSE DeserializeFrame(Taken(s)) \o FramesIn[Rest(s)]]
    BY <1>4, <1>5, Zenon
  <1>7. FramesIn \in [Seq(Cell) -> Seq(WellFormed)]
    BY <1>2, <1>3, <1>6, ScanTyped
  <1>8. QED
    BY <1>6, <1>7

\* Cells that come behind a header's worth do not change what it says.
LEMMA HeaderOfConcat ==
  ASSUME NEW s \in Seq(Cell), NEW y \in Seq(Cell), Len(s) >= MinFrameLen
  PROVE  /\ s \o y \in Seq(Cell) /\ Len(s \o y) = Len(s) + Len(y)
         /\ HasMagic(s \o y) <=> HasMagic(s)
         /\ PayloadLen(s \o y) = PayloadLen(s)
  <1>1. /\ s \o y \in Seq(Cell) /\ Len(s \o y) = Len(s) + Len(y)
        /\ \A i \in 1 .. Len(s) + Len(y) : (s \o y)[i] = IF i <= Len(s) THEN s[i] ELSE y[i - Len(s)]
    BY ConcatProperties
  <1>2. Len(s) \in Nat /\ Len(y) \in Nat /\ MagicLen \in Nat /\ MagicLen + 1 <= Len(s)
    BY Lengths
  <1>3. PayloadLen(s \o y) = PayloadLen(s)
    BY <1>1, <1>2 DEF PayloadLen
  <1>4. SubSeq(s \o y, 1, MagicLen) = SubSeq(s, 1, MagicLen)
    <2>1. MagicLen \in 0 .. Len(s)
      BY <1>2
    <2>2. QED
      BY <2>1, CutOfConcat
  <1>5. HasMagic(s \o y) <=> HasMagic(s)
    <2>1. Len(FRAME_MAGIC) <= Len(s) /\ Len(FRAME_MAGIC) <= Len(s \o y)
      BY <1>1, <1>2 DEF MagicLen
    <2>2. QED
      BY <1>4, <2>1 DEF HasMagic, IsPrefix, MagicLen
  <1>6. QED
    BY <1>1, <1>3, <1>5

\* What a pass takes first does not depend on what comes later.
LEMMA PassOfConcat ==
  ASSUME NEW s \in Seq(Cell), NEW y \in Seq(Cell), ~PassEnds(s)
  PROVE  /\ s \o y \in Seq(Cell) /\ ~PassEnds(s \o y)
         /\ Taken(s \o y) = Taken(s) /\ Rest(s \o y) = Rest(s) \o y
  <1>1. Skip(s) \in 1 .. Len(s) /\ Len(s) >= MinFrameLen
    BY SkipFits
  <1>2. /\ s \o y \in Seq(Cell) /\ Len(s \o y) = Len(s) + Len(y)
        /\ HasMagic(s \o y) <=> HasMagic(s)
        /\ PayloadLen(s \o y) = PayloadLen(s)
    BY <1>1, HeaderOfConcat
  <1>3. TotalFrameLen(s \o y) = TotalFrameLen(s) /\ TotalFrameLen(s) \in Nat
    BY <1>1, <1>2, HeaderHasLength, Lengths DEF TotalFrameLen
  <1>4. Skip(s \o y) = Skip(s)
    BY <1>2, <1>3 DEF Skip
  <1>5. ~PassEnds(s \o y)
    <2>1. Len(s) \in Nat /\ Len(y) \in Nat /\ MinFrameLen \in Nat
      BY Lengths
    <2>2. HasMagic(s) => ~(PayloadLen(s) > MAX_PAYLOAD_SIZE) /\ ~(Len(s) < TotalFrameLen(s))
      BY DEF PassEnds
    <2>3. ~(Len(s \o y) < MinFrameLen) /\ (HasMagic(s) => ~(Len(s \o y) < TotalFrameLen(s \o y)))
      BY <1>1, <1>2, <1>3, <2>1, <2>2
    <2>4. QED
      BY <1>2, <2>2, <2>3 DEF PassEnds
  <1>6. Skip(s) \in 0 .. Len(s)
    BY <1>1
  <1>7. /\ SubSeq(s \o y, 1, Skip(s)) = SubSeq(s, 1, Skip(s))
        /\ SubSeq(s \o y, Skip(s) + 1, Len(s \o y)) = SubSeq(s, Skip(s) + 1, Len(s)) \o y
    <2> DEFINE n == Skip(s)
    <2> HIDE DEF n
    <2>1. n \in 0 .. Len(s)
      BY <1>6 DEF n
    <2>2. /\ SubSeq(s \o y, 1, n) = SubSeq(s, 1, n)
          /\ SubSeq(s \o y, n + 1, Len(s \o y)) = SubSeq(s, n + 1, Len(s)) \o y
      BY <2>1, CutOfConcat
    <2>3. QED
      BY <2>2 DEF n
  <1>8. QED
    BY <1>2, <1>4, <1>5, <1>7 DEF Taken, Rest

\* So the frames in s and all that follows are the first of s, if it is one,
\* and the frames in the rest of s and all that follows.
LEMMA FramesInConcat ==
  ASSUME NEW s \in Seq(Cell), NEW y \in Seq(Cell), ~PassEnds(s)
  PROVE  /\ Rest(s) \o y \in Seq(Cell)
         /\ FramesIn[s \o y] = DeserializeFrame(Taken(s)) \o FramesIn[Rest(s) \o y]
  <1>1. /\ s \o y \in Seq(Cell) /\ ~PassEnds(s \o y)
        /\ Taken(s \o y) = Taken(s) /\ Rest(s \o y) = Rest(s) \o y
    BY PassOfConcat
  <1>2. Rest(s) \in Seq(Cell)
    BY TakenRest
  <1>3. Rest(s) \o y \in Seq(Cell)
    BY <1>2
  <1> DEFINE t == s \o y
  <1> HIDE DEF t
  <1>4. t \in Seq(Cell) /\ ~PassEnds(t)
    BY <1>1 DEF t
  <1>5. FramesIn[t] = DeserializeFrame(Taken(t)) \o FramesIn[Rest(t)]
    BY <1>4, FramesInUnfolds
  <1>6. QED
    BY <1>1, <1>3, <1>5, Zenon DEF t

-----------------------------------------------------------------------------
\* How recv cuts the stream

\* What is in rxBuffer is what a pass over everything received has come to:
\* whatever the stream brings yet, the frames it will find behind those
\* delivered are the frames a single pass finds.
PassSoFar ==
  \A y \in Seq(Cell) : delivered \o FramesIn[rxBuffer \o y] = FramesIn[Received \o y]

\* The worker leaves the inner loop where a pass ends.
LeftAtEnd == at # "parse" => PassEnds(rxBuffer)

\* recv has returned the front of the stream, and will return the rest of it.
SplitStream ==
  /\ Stream \in Seq(Cell) /\ Received \in Seq(Cell)
  /\ Stream = Received \o sent

CutsInv == StreamInv /\ SplitStream /\ PassSoFar /\ LeftAtEnd

\* A worker that left the inner loop has no frame of the pass to deliver.
LEMMA CutsInvSuffices == CutsInv => CutsDoNotMatter
  <1> SUFFICES ASSUME CutsInv, at # "parse" PROVE delivered = FramesIn[Received]
    BY DEF CutsDoNotMatter
  <1>1. /\ rxBuffer \in Seq(Cell) /\ delivered \in Seq(WellFormed) /\ Received \in Seq(Cell)
        /\ PassEnds(rxBuffer)
    BY DEF CutsInv, StreamInv, StreamTypes, DeliversWellFormed, SplitStream, LeftAtEnd
  <1>2. <<>> \in Seq(Cell)
    OBVIOUS
  <1>3. delivered \o FramesIn[rxBuffer \o <<>>] = FramesIn[Received \o <<>>]
    BY <1>2 DEF CutsInv, PassSoFar
  <1>4. rxBuffer \o <<>> = rxBuffer /\ Received \o <<>> = Received
    BY <1>1, ConcatEmptySeq
  <1>5. FramesIn[rxBuffer] = <<>>
    BY <1>1, FramesInUnfolds
  <1>6. delivered \o <<>> = delivered
    BY <1>1, ConcatEmptySeq
  <1>7. QED
    BY <1>3, <1>4, <1>5, <1>6

\* The cells p move from what is to come to what has come, r.
LEMMA MoveCells ==
  ASSUME NEW r \in Seq(Cell), NEW p \in Seq(Cell), NEW q \in Seq(Cell)
  PROVE  /\ r \o p \in Seq(Cell) /\ (r \o p) \o q = r \o (p \o q)
         /\ SubSeq((r \o p) \o q, 1, Len((r \o p) \o q) - Len(q)) = r \o p
  <1> DEFINE a == r \o p
  <1>1. a \in Seq(Cell)
    OBVIOUS
  <1>2. (r \o p) \o q = r \o (p \o q)
    BY ConcatAssociative
  <1> HIDE DEF a
  <1>3. Len(a) \in Nat /\ Len(q) \in Nat /\ Len(a \o q) = Len(a) + Len(q)
    BY <1>1
  <1>4. Len(a) \in 0 .. Len(a) /\ Len(a \o q) - Len(q) = Len(a)
    BY <1>3
  <1>5. SubSeq(a \o q, 1, Len(a)) = SubSeq(a, 1, Len(a))
    BY <1>1, <1>4, CutOfConcat
  <1>6. SubSeq(a, 1, Len(a)) = a
    BY <1>1, SubSeqFull
  <1>7. SubSeq(a \o q, 1, Len(a \o q) - Len(q)) = a
    BY <1>4, <1>5, <1>6
  <1>8. QED
    BY <1>1, <1>2, <1>7 DEF a

\* recv.
LEMMA RecvCuts ==
  ASSUME CutsInv, Recv
  PROVE  SplitStream' /\ PassSoFar'
  <1>1. /\ sent \in Seq(Cell) /\ rxBuffer \in Seq(Cell)
        /\ Stream \in Seq(Cell) /\ Received \in Seq(Cell) /\ Stream = Received \o sent
    BY DEF CutsInv, StreamInv, StreamTypes, SplitStream
  <1>2. PICK p \in Seq(Cell) :
          rxBuffer' = rxBuffer \o p /\ p \o sent' = sent /\ sent' \in Seq(Cell)
    <2>1. PICK n \in 1 .. Len(sent) :
            /\ rxBuffer' = rxBuffer \o SubSeq(sent, 1, n)
            /\ sent' = SubSeq(sent, n + 1, Len(sent))
      BY DEF Recv
    <2>2. n \in 0 .. Len(sent)
      OBVIOUS
    <2>3. /\ SubSeq(sent, 1, n) \in Seq(Cell) /\ SubSeq(sent, n + 1, Len(sent)) \in Seq(Cell)
          /\ SubSeq(sent, 1, n) \o SubSeq(sent, n + 1, Len(sent)) = sent
      BY <1>1, <2>2, Cut, CutJoins
    <2>4. QED
      BY <2>1, <2>3
  <1>3. Stream' = Stream /\ delivered' = delivered
    BY DEF Recv, Stream, Wire
  <1>4. /\ Received \o p \in Seq(Cell)
        /\ (Received \o p) \o sent' = Received \o sent
        /\ SubSeq(Received \o sent, 1, Len(Received \o sent) - Len(sent')) = Received \o p
    <2>1. Received \in Seq(Cell) /\ sent' \in Seq(Cell)
      BY <1>1, <1>2
    <2>2. Received \o p \in Seq(Cell)
      BY <2>1
    <2>3. (Received \o p) \o sent' = Received \o (p \o sent')
      BY <2>1, MoveCells
    <2>4. SubSeq((Received \o p) \o sent', 1, Len((Received \o p) \o sent') - Len(sent'))
            = Received \o p
      BY <2>1, MoveCells
    <2>5. QED
      BY <1>2, <2>2, <2>3, <2>4, Zenon
  <1>5. Received' = Received \o p
    <2>1. Received' = SubSeq(Stream', 1, Len(Stream') - Len(sent'))
      BY DEF Received
    <2>2. QED
      BY <1>1, <1>3, <1>4, <2>1
  <1>6. SplitStream'
    BY <1>1, <1>3, <1>4, <1>5 DEF SplitStream
  <1>7. ASSUME NEW y \in Seq(Cell)
        PROVE  delivered \o FramesIn[rxBuffer' \o y] = FramesIn[Received' \o y]
    <2>1. p \o y \in Seq(Cell)
      OBVIOUS
    <2>2. (rxBuffer \o p) \o y = rxBuffer \o (p \o y)
      <3>1. rxBuffer \in Seq(Cell)
        BY <1>1
      <3>2. QED
        BY <3>1, MoveCells
    <2>3. (Received \o p) \o y = Received \o (p \o y)
      <3>1. Received \in Seq(Cell)
        BY <1>1
      <3>2. QED
        BY <3>1, MoveCells
    <2>4. delivered \o FramesIn[rxBuffer \o (p \o y)] = FramesIn[Received \o (p \o y)]
      BY <2>1 DEF CutsInv, PassSoFar
    <2>5. QED
      BY <1>2, <1>5, <2>2, <2>3, <2>4, Zenon
  <1>8. PassSoFar'
    BY <1>3, <1>7 DEF PassSoFar
  <1>9. QED
    BY <1>6, <1>8

\* A turn of the inner loop that takes what the pass takes.
LEMMA TurnCuts ==
  ASSUME CutsInv, ~PassEnds(rxBuffer), rxBuffer' = Rest(rxBuffer),
         delivered' = delivered \o DeserializeFrame(Taken(rxBuffer)), Received' = Received
  PROVE  PassSoFar'
  <1>1. rxBuffer \in Seq(Cell) /\ delivered \in Seq(WellFormed)
    BY DEF CutsInv, StreamInv, StreamTypes, DeliversWellFormed
  <1> DEFINE d == DeserializeFrame(Taken(rxBuffer))
  <1>2. d \in Seq(WellFormed)
    BY <1>1, TakenRest, DeserializeWellFormed
  <1> HIDE DEF d
  <1>3. ASSUME NEW y \in Seq(Cell)
        PROVE  delivered' \o FramesIn[rxBuffer' \o y] = FramesIn[Received' \o y]
    <2> DEFINE e == FramesIn[rxBuffer' \o y]
    <2>1. rxBuffer' \o y \in Seq(Cell) /\ FramesIn[rxBuffer \o y] = d \o e
      BY <1>1, FramesInConcat DEF d
    <2>2. e \in Seq(WellFormed)
      BY <2>1, FramesInUnfolds
    <2> HIDE DEF e
    <2>3. (delivered \o d) \o e = delivered \o (d \o e)
      BY <1>1, <1>2, <2>2, ConcatAssociative
    <2>4. delivered \o FramesIn[rxBuffer \o y] = FramesIn[Received \o y]
      BY DEF CutsInv, PassSoFar
    <2>5. delivered' \o e = FramesIn[Received' \o y]
      BY <2>1, <2>3, <2>4 DEF d
    <2>6. QED
      BY <2>5 DEF e
  <1>4. QED
    BY <1>3 DEF PassSoFar

\* A byte without a magic is no frame.
LEMMA DropByteCuts ==
  ASSUME CutsInv, DropByte
  PROVE  PassSoFar'
  <1>1. rxBuffer \in Seq(Cell) /\ delivered \in Seq(WellFormed)
    BY DEF CutsInv, StreamInv, StreamTypes, DeliversWellFormed
  <1>2. Len(rxBuffer) \in Nat /\ Len(rxBuffer) >= MinFrameLen /\ ~HasMagic(rxBuffer)
    BY <1>1 DEF DropByte, Ready
  <1>3. ~PassEnds(rxBuffer) /\ Skip(rxBuffer) = 1
    BY <1>2, Lengths DEF PassEnds, Skip
  <1>4. rxBuffer' = Rest(rxBuffer)
    BY <1>3 DEF DropByte, Erase, Rest
  <1>5. DeserializeFrame(Taken(rxBuffer)) = <<>>
    <2>1. 1 \in 0 .. Len(rxBuffer)
      BY <1>2, Lengths
    <2>2. Len(Taken(rxBuffer)) = 1
      BY <1>1, <1>3, <2>1, Cut DEF Taken
    <2>3. Len(Taken(rxBuffer)) < MinFrameLen
      BY <2>2, Lengths
    <2>4. QED
      BY <2>3 DEF DeserializeFrame
  <1>6. delivered' = delivered \o DeserializeFrame(Taken(rxBuffer))
    BY <1>1, <1>5, ConcatEmptySeq DEF DropByte
  <1>7. Received' = Received
    BY DEF DropByte, Received, Stream, Wire
  <1>8. QED
    BY <1>3, <1>4, <1>6, <1>7, TurnCuts

\* A whole frame is taken as the pass takes it.
LEMMA TakeFrameCuts ==
  ASSUME CutsInv, TakeFrame
  PROVE  PassSoFar'
  <1>1. rxBuffer \in Seq(Cell)
    BY DEF CutsInv, StreamInv, StreamTypes
  <1>2. /\ Len(rxBuffer) \in Nat /\ Len(rxBuffer) >= MinFrameLen /\ HasMagic(rxBuffer)
        /\ ~(PayloadLen(rxBuffer) > MAX_PAYLOAD_SIZE) /\ Len(rxBuffer) >= TotalFrameLen(rxBuffer)
    BY <1>1 DEF TakeFrame, Ready, AboveCeiling, Complete
  <1>3. TotalFrameLen(rxBuffer) \in Nat
    BY <1>1, <1>2, HeaderHasLength, Lengths
  <1>4. ~PassEnds(rxBuffer) /\ Skip(rxBuffer) = TotalFrameLen(rxBuffer)
    BY <1>2, <1>3, Lengths DEF PassEnds, Skip
  <1>5. rxBuffer' = Rest(rxBuffer) /\ delivered' = delivered \o DeserializeFrame(Taken(rxBuffer))
    BY <1>4 DEF TakeFrame, Erase, Rest, Taken
  <1>6. Received' = Received
    BY DEF TakeFrame, Received, Stream, Wire
  <1>7. QED
    BY <1>4, <1>5, <1>6, TurnCuts

\* The inner loop is left where a pass ends.
LEMMA LeaveCuts ==
  ASSUME CutsInv, Wait \/ RejectOversized
  PROVE  LeftAtEnd'
  <1>1. rxBuffer \in Seq(Cell) /\ rxBuffer' = rxBuffer
    BY DEF CutsInv, StreamInv, StreamTypes, Wait, RejectOversized
  <1>2. PassEnds(rxBuffer)
    <2>1. Len(rxBuffer) \in Nat /\ MinFrameLen \in Nat
      BY <1>1, Lengths
    <2>2. CASE Len(rxBuffer) < MinFrameLen
      BY <2>2 DEF PassEnds
    <2>3. CASE Len(rxBuffer) >= MinFrameLen
      <3>1. HasMagic(rxBuffer) /\ (PayloadLen(rxBuffer) > MAX_PAYLOAD_SIZE \/ ~Complete)
        BY <2>3 DEF Wait, RejectOversized, Ready, AboveCeiling
      <3>2. TotalFrameLen(rxBuffer) \in Nat
        BY <1>1, <2>3, HeaderHasLength, Lengths
      <3>3. QED
        BY <2>1, <3>1, <3>2 DEF PassEnds, Complete
    <2>4. QED
      BY <2>1, <2>2, <2>3
  <1>3. QED
    BY <1>1, <1>2 DEF LeftAtEnd

\* Every step.
LEMMA CutsStep == CutsInv /\ [Next]_vars => CutsInv'
  <1> SUFFICES ASSUME CutsInv, [Next]_vars PROVE CutsInv'
    OBVIOUS
  <1>1. StreamInv'
    BY StreamStep DEF CutsInv
  <1>2. SplitStream /\ PassSoFar /\ LeftAtEnd
    BY DEF CutsInv
  <1>3. ASSUME items' = items, sent' = sent PROVE SplitStream'
    <2>1. Stream' = Stream /\ Received' = Received
      BY <1>3 DEF Received, Stream, Wire
    <2>2. QED
      BY <1>2, <1>3, <2>1 DEF SplitStream
  <1>4. ASSUME items' = items, sent' = sent, rxBuffer' = rxBuffer, delivered' = delivered
        PROVE  PassSoFar'
    <2>1. Received' = Received
      BY <1>4 DEF Received, Stream, Wire
    <2>2. QED
      BY <1>2, <1>4, <2>1 DEF PassSoFar
  <1>5. CASE UNCHANGED vars
    BY <1>1, <1>2, <1>3, <1>4, <1>5 DEF vars, CutsInv, LeftAtEnd
  <1>6. CASE Loop
    BY <1>1, <1>2, <1>3, <1>4, <1>6 DEF Loop, CutsInv, LeftAtEnd
  <1>7. CASE RecvFails
    BY <1>1, <1>2, <1>3, <1>4, <1>7 DEF RecvFails, CutsInv, LeftAtEnd
  <1>8. CASE FlagCleared
    BY <1>1, <1>2, <1>3, <1>4, <1>8 DEF FlagCleared, CutsInv, LeftAtEnd
  <1>9. CASE Recv
    BY <1>1, <1>9, RecvCuts DEF Recv, CutsInv, LeftAtEnd
  <1>10. CASE DropByte
    BY <1>1, <1>3, <1>10, DropByteCuts DEF DropByte, Ready, CutsInv, LeftAtEnd
  <1>11. CASE TakeFrame
    BY <1>1, <1>3, <1>11, TakeFrameCuts DEF TakeFrame, Ready, CutsInv, LeftAtEnd
  <1>12. CASE RejectOversized
    BY <1>1, <1>3, <1>4, <1>12, LeaveCuts DEF RejectOversized, CutsInv
  <1>13. CASE Wait
    BY <1>1, <1>3, <1>4, <1>13, LeaveCuts DEF Wait, CutsInv
  <1>14. QED
    BY <1>5, <1>6, <1>7, <1>8, <1>9, <1>10, <1>11, <1>12, <1>13 DEF Next

\* Nothing was received yet.
LEMMA CutsInit == AnyStream => CutsInv
  <1> SUFFICES ASSUME AnyStream PROVE CutsInv
    OBVIOUS
  <1>1. StreamInv
    BY AnyStreamInit
  <1>2. Stream \in Seq(Cell) /\ sent = Stream /\ rxBuffer = <<>> /\ delivered = <<>>
    BY DEF AnyStream
  <1>3. Received = <<>>
    <2>1. Len(Stream) - Len(sent) = 0
      BY <1>2
    <2>2. QED
      BY <1>2, <2>1, SubSeqEmpty DEF Received
  <1>4. SplitStream
    BY <1>2, <1>3, ConcatEmptySeq DEF SplitStream
  <1>5. ASSUME NEW y \in Seq(Cell)
        PROVE  delivered \o FramesIn[rxBuffer \o y] = FramesIn[Received \o y]
    <2>1. <<>> \o y = y
      BY ConcatEmptySeq
    <2>2. FramesIn[y] \in Seq(WellFormed)
      BY FramesInUnfolds
    <2>3. <<>> \o FramesIn[y] = FramesIn[y]
      BY <2>2, ConcatEmptySeq
    <2>4. QED
      BY <1>2, <1>3, <2>1, <2>3
  <1>6. PassEnds(rxBuffer)
    <2>1. Len(rxBuffer) = 0
      BY <1>2
    <2>2. QED
      BY <2>1, Lengths DEF PassEnds
  <1>7. QED
    BY <1>1, <1>4, <1>5, <1>6 DEF CutsInv, PassSoFar, LeftAtEnd

\* ReceiverWorker hands over, of any bytes at all and however recv cuts them,
\* the frames that one pass over the bytes received finds.
THEOREM CutsDoNotMatterAlways == AnyStreamSpec => []CutsDoNotMatter
  BY CutsInit, CutsStep, CutsInvSuffices, PTL DEF AnyStreamSpec

-----------------------------------------------------------------------------
\* The phone

\* The receive loop of the agent or of the phone, on any cells.
AnyStreamsSpec == AnyStream /\ PhoneInit /\ [][StreamNext]_<<vars, phone, side>>

\* The phone reads a length as a signed number.
LEMMA PhoneHeaderHasLength ==
  ASSUME NEW s \in Seq(Cell), Len(s) >= MinFrameLen
  PROVE  PhoneLen(s) \in Int /\ PhoneFrameLen(s) \in Int /\ PhoneFrameLen(s) = MinFrameLen + PhoneLen(s)
  <1>1. PayloadLen(s) \in Nat
    BY HeaderHasLength
  <1>2. PhoneLen(s) \in Int
    BY <1>1, CodecAssumption DEF PhoneLen, Signed
  <1>3. QED
    BY <1>2, Lengths DEF PhoneFrameLen

\* What the phone's pass takes fits, and is no longer than a largest frame.
LEMMA PhoneSkipFits ==
  ASSUME NEW s \in Seq(Cell), ~PhonePassEnds(s)
  PROVE  /\ Len(s) >= MinFrameLen /\ ~RefusesHeader(s)
         /\ PhoneFrameLen(s) \in 1 .. Len(s) /\ PhoneFrameLen(s) <= MinFrameLen + MAX_PAYLOAD_SIZE
  <1>1. Len(s) \in Nat /\ Len(s) >= MinFrameLen /\ ~RefusesHeader(s) /\ PhoneFrameLen(s) \in 1 .. Len(s)
    BY Lengths DEF PhonePassEnds
  <1>2. PhoneLen(s) \in Int /\ PhoneFrameLen(s) = MinFrameLen + PhoneLen(s)
    BY <1>1, PhoneHeaderHasLength
  <1>3. ~(PhoneLen(s) > MAX_PAYLOAD_SIZE)
    BY <1>1 DEF RefusesHeader
  <1>4. QED
    BY <1>1, <1>2, <1>3, Lengths

PhoneTaken(s) == SubSeq(s, 1, PhoneFrameLen(s))
PhoneRest(s) == SubSeq(s, PhoneFrameLen(s) + 1, Len(s))

\* The cells the phone's pass takes and the cells it leaves.
LEMMA PhoneTakenRest ==
  ASSUME NEW s \in Seq(Cell), ~PhonePassEnds(s)
  PROVE  /\ PhoneTaken(s) \in Seq(Cell) /\ PhoneRest(s) \in Seq(Cell)
         /\ Len(PhoneTaken(s)) <= MinFrameLen + MAX_PAYLOAD_SIZE
  <1>1. PhoneFrameLen(s) \in 0 .. Len(s) /\ PhoneFrameLen(s) <= MinFrameLen + MAX_PAYLOAD_SIZE
    BY PhoneSkipFits
  <1> DEFINE n == PhoneFrameLen(s)
  <1> HIDE DEF n
  <1>2. n \in 0 .. Len(s)
    BY <1>1 DEF n
  <1>3. SubSeq(s, 1, n) \in Seq(Cell) /\ SubSeq(s, n + 1, Len(s)) \in Seq(Cell) /\ Len(SubSeq(s, 1, n)) = n
    BY <1>2, Cut
  <1>4. QED
    BY <1>1, <1>3 DEF n, PhoneTaken, PhoneRest

\* What deserializeFrame hands over is a frame of a known type, ERROR_MSG for
\* an unknown one.
LEMMA PhoneDeserializeWellFormed ==
  ASSUME NEW data \in Seq(Cell), Len(data) <= MinFrameLen + MAX_PAYLOAD_SIZE
  PROVE  PhoneDeserialize(data) \in Seq(WellFormed)
  <1> DEFINE type == TransportMessageType(data[HeaderLen])
             payload == SubSeq(data, HeaderLen + 1, Len(data) - 1)
  <1>1. CASE PhoneDeserialize(data) = <<>>
    BY <1>1
  <1>2. CASE PhoneDeserialize(data) # <<>>
    <2>1. /\ ~(Len(data) < MinFrameLen)
          /\ PhoneDeserialize(data) = <<[type |-> type, payload |-> payload]>>
      BY <1>2, Zenon DEF PhoneDeserialize
    <2>2. type \in MessageTypes
      BY ErrorAssumption DEF TransportMessageType
    <2>3. payload \in {p \in Seq(Cell) : Len(p) <= MAX_PAYLOAD_SIZE}
      <3> DEFINE n == Len(data) - 1
      <3>1. n \in Nat /\ HeaderLen \in Nat /\ HeaderLen <= n /\ n <= Len(data) /\ n - HeaderLen <= MAX_PAYLOAD_SIZE
        BY <2>1, Lengths
      <3> HIDE DEF n
      <3>2. /\ SubSeq(data, HeaderLen + 1, n) \in Seq(Cell)
            /\ Len(SubSeq(data, HeaderLen + 1, n)) = n - HeaderLen
        BY <3>1
      <3>3. QED
        BY <3>1, <3>2 DEF n
    <2> HIDE DEF type, payload
    <2>4. [type |-> type, payload |-> payload] \in WellFormed
      BY <2>2, <2>3 DEF WellFormed
    <2>5. QED
      BY <2>1, <2>4
  <1>3. QED
    BY <1>1, <1>2

\* PhoneFramesIn is what its recursive definition says.
LEMMA PhoneFramesInUnfolds ==
  /\ PhoneFramesIn \in [Seq(Cell) -> Seq(WellFormed)]
  /\ \A s \in Seq(Cell) :
       PhoneFramesIn[s] = IF PhonePassEnds(s) THEN <<>>
                          ELSE PhoneDeserialize(PhoneTaken(s)) \o PhoneFramesIn[PhoneRest(s)]
  <1> DEFINE stop == {s \in Seq(Cell) : PhonePassEnds(s)}
             skip == [s \in Seq(Cell) |-> IF PhonePassEnds(s) THEN 0 ELSE PhoneFrameLen(s)]
             hand == [s \in Seq(Cell) |-> IF PhonePassEnds(s) THEN <<>> ELSE PhoneDeserialize(PhoneTaken(s))]
  <1>1. \A s \in Seq(Cell) :
          /\ s \in stop <=> PhonePassEnds(s)
          /\ ~PhonePassEnds(s) => /\ skip[s] = PhoneFrameLen(s)
                                  /\ hand[s] = PhoneDeserialize(PhoneTaken(s))
    OBVIOUS
  <1>2. IsPass(WellFormed, stop, skip, hand)
    <2>1. skip \in [Seq(Cell) -> Nat]
      BY PhoneSkipFits
    <2>2. \A s \in Seq(Cell) : ~PhonePassEnds(s) => PhoneDeserialize(PhoneTaken(s)) \in Seq(WellFormed)
      BY PhoneTakenRest, PhoneDeserializeWellFormed
    <2>3. hand \in [Seq(Cell) -> Seq(WellFormed)]
      BY <2>2
    <2>4. \A s \in Seq(Cell) : s \notin stop => skip[s] \in 1 .. Len(s)
      BY PhoneSkipFits
    <2>5. stop \in SUBSET Seq(Cell)
      OBVIOUS
    <2> HIDE DEF stop, skip, hand
    <2>6. QED
      BY <2>1, <2>3, <2>4, <2>5 DEF IsPass
  <1> HIDE DEF stop, skip, hand
  <1>3. ASSUME NEW f PROVE IsScan(f, stop, skip, hand) <=>
                             f = [s \in Seq(Cell) |-> IF PhonePassEnds(s) THEN <<>>
                                    ELSE PhoneDeserialize(PhoneTaken(s)) \o f[PhoneRest(s)]]
    BY <1>1 DEF IsScan, PhoneRest
  <1>4. PhoneFramesIn = CHOOSE f : f = [s \in Seq(Cell) |-> IF PhonePassEnds(s) THEN <<>>
                                     ELSE PhoneDeserialize(PhoneTaken(s)) \o f[PhoneRest(s)]]
    BY DEF PhoneFramesIn, PhoneTaken, PhoneRest
  <1>5. \E f : f = [s \in Seq(Cell) |-> IF PhonePassEnds(s) THEN <<>>
                       ELSE PhoneDeserialize(PhoneTaken(s)) \o f[PhoneRest(s)]]
    BY <1>2, <1>3, PassExists
  <1>6. PhoneFramesIn = [s \in Seq(Cell) |-> IF PhonePassEnds(s) THEN <<>>
                      ELSE PhoneDeserialize(PhoneTaken(s)) \o PhoneFramesIn[PhoneRest(s)]]
    BY <1>4, <1>5, Zenon
  <1>7. PhoneFramesIn \in [Seq(Cell) -> Seq(WellFormed)]
    BY <1>2, <1>3, <1>6, ScanTyped
  <1>8. QED
    BY <1>6, <1>7

\* What the phone makes of a header does not depend on what comes later.
LEMMA PhoneHeaderOfConcat ==
  ASSUME NEW s \in Seq(Cell), NEW y \in Seq(Cell), Len(s) >= MinFrameLen
  PROVE  /\ s \o y \in Seq(Cell) /\ Len(s \o y) = Len(s) + Len(y) /\ Len(s \o y) >= MinFrameLen
         /\ RefusesHeader(s \o y) <=> RefusesHeader(s)
         /\ PhoneFrameLen(s \o y) = PhoneFrameLen(s)
  <1>1. /\ s \o y \in Seq(Cell) /\ Len(s \o y) = Len(s) + Len(y)
        /\ HasMagic(s \o y) <=> HasMagic(s)
        /\ PayloadLen(s \o y) = PayloadLen(s)
    BY HeaderOfConcat
  <1>2. PhoneLen(s \o y) = PhoneLen(s)
    BY <1>1 DEF PhoneLen
  <1>3. Len(s \o y) >= MinFrameLen
    BY <1>1, Lengths
  <1>4. QED
    BY <1>1, <1>2, <1>3 DEF RefusesHeader, PhoneFrameLen

\* Nor does what its pass takes first.
LEMMA PhoneFramesInConcat ==
  ASSUME NEW s \in Seq(Cell), NEW y \in Seq(Cell), ~PhonePassEnds(s)
  PROVE  /\ PhoneRest(s) \o y \in Seq(Cell)
         /\ PhoneFramesIn[s \o y] = PhoneDeserialize(PhoneTaken(s)) \o PhoneFramesIn[PhoneRest(s) \o y]
  <1>1. /\ Len(s) >= MinFrameLen /\ ~RefusesHeader(s)
        /\ PhoneFrameLen(s) \in 1 .. Len(s)
    BY PhoneSkipFits
  <1>2. /\ s \o y \in Seq(Cell) /\ Len(s \o y) = Len(s) + Len(y) /\ Len(s \o y) >= MinFrameLen
        /\ RefusesHeader(s \o y) <=> RefusesHeader(s)
        /\ PhoneFrameLen(s \o y) = PhoneFrameLen(s)
    BY <1>1, PhoneHeaderOfConcat
  <1>3. ~PhonePassEnds(s \o y)
    <2>1. Len(s) \in Nat /\ Len(y) \in Nat /\ MinFrameLen \in Nat
      BY Lengths
    <2>2. PhoneFrameLen(s \o y) \in 1 .. Len(s \o y) /\ ~(Len(s \o y) < MinFrameLen)
      BY <1>1, <1>2, <2>1
    <2>3. QED
      BY <1>1, <1>2, <2>2 DEF PhonePassEnds
  <1>4. /\ PhoneTaken(s \o y) = PhoneTaken(s)
        /\ PhoneRest(s \o y) = PhoneRest(s) \o y
    <2> DEFINE n == PhoneFrameLen(s)
    <2> HIDE DEF n
    <2>1. n \in 0 .. Len(s)
      BY <1>1 DEF n
    <2>2. /\ SubSeq(s \o y, 1, n) = SubSeq(s, 1, n)
          /\ SubSeq(s \o y, n + 1, Len(s \o y)) = SubSeq(s, n + 1, Len(s)) \o y
      BY <2>1, CutOfConcat
    <2>3. QED
      BY <1>2, <2>2 DEF n, PhoneTaken, PhoneRest
  <1>5. PhoneRest(s) \o y \in Seq(Cell)
    <2>1. PhoneRest(s) \in Seq(Cell)
      BY PhoneTakenRest
    <2>2. QED
      BY <2>1
  <1> DEFINE t == s \o y
  <1> HIDE DEF t
  <1>6. t \in Seq(Cell) /\ ~PhonePassEnds(t)
    BY <1>2, <1>3 DEF t
  <1>7. PhoneFramesIn[t] = PhoneDeserialize(PhoneTaken(t)) \o PhoneFramesIn[PhoneRest(t)]
    BY <1>6, PhoneFramesInUnfolds
  <1>8. QED
    BY <1>4, <1>5, <1>7, Zenon DEF t

\* The phone's counterparts of StreamTypes, SplitStream, PassSoFar and LeftAtEnd.
PhoneTypes ==
  phone \in [sent : Seq(Cell), rxBuffer : Seq(Cell), at : {"read", "parse", "ended"},
             delivered : Seq(WellFormed)]
PhoneSplit ==
  /\ Stream \in Seq(Cell) /\ PhoneReceived \in Seq(Cell)
  /\ Stream = PhoneReceived \o phone.sent
PhonePassSoFar ==
  \A y \in Seq(Cell) :
    phone.delivered \o PhoneFramesIn[phone.rxBuffer \o y] = PhoneFramesIn[PhoneReceived \o y]
PhoneLeftAtEnd == phone.at # "parse" => PhonePassEnds(phone.rxBuffer)

PhoneInv == PhoneTypes /\ PhoneSplit /\ PhonePassSoFar /\ PhoneLeftAtEnd

\* A phone that left the inner loop has nothing of the pass to hand over.
LEMMA PhoneInvSuffices == PhoneInv => PhoneCutsDoNotMatter
  <1> SUFFICES ASSUME PhoneInv, phone.at # "parse"
               PROVE  phone.delivered = PhoneFramesIn[PhoneReceived]
    BY DEF PhoneCutsDoNotMatter
  <1>1. /\ phone.rxBuffer \in Seq(Cell) /\ phone.delivered \in Seq(WellFormed)
        /\ PhoneReceived \in Seq(Cell) /\ PhonePassEnds(phone.rxBuffer)
    BY DEF PhoneInv, PhoneTypes, PhoneSplit, PhoneLeftAtEnd
  <1>2. <<>> \in Seq(Cell)
    OBVIOUS
  <1>3. phone.delivered \o PhoneFramesIn[phone.rxBuffer \o <<>>] = PhoneFramesIn[PhoneReceived \o <<>>]
    BY <1>2 DEF PhoneInv, PhonePassSoFar
  <1>4. phone.rxBuffer \o <<>> = phone.rxBuffer /\ PhoneReceived \o <<>> = PhoneReceived
    BY <1>1, ConcatEmptySeq
  <1>5. PhoneFramesIn[phone.rxBuffer] = <<>>
    BY <1>1, PhoneFramesInUnfolds
  <1>6. phone.delivered \o <<>> = phone.delivered
    BY <1>1, ConcatEmptySeq
  <1>7. QED
    BY <1>3, <1>4, <1>5, <1>6

\* read.
LEMMA PhoneReadInv ==
  ASSUME PhoneInv, PhoneRead, items' = items
  PROVE  PhoneInv'
  <1>1. /\ phone.sent \in Seq(Cell) /\ phone.rxBuffer \in Seq(Cell)
        /\ Stream \in Seq(Cell) /\ PhoneReceived \in Seq(Cell)
        /\ Stream = PhoneReceived \o phone.sent
    BY DEF PhoneInv, PhoneTypes, PhoneSplit
  <1>2. PICK p \in Seq(Cell) :
          /\ phone'.rxBuffer = phone.rxBuffer \o p /\ p \o phone'.sent = phone.sent
          /\ phone'.sent \in Seq(Cell)
          /\ phone' = [phone EXCEPT !.rxBuffer = phone.rxBuffer \o p, !.sent = phone'.sent,
                                    !.at = "parse"]
    <2>1. PICK n \in 1 .. Len(phone.sent) :
            phone' = [phone EXCEPT !.rxBuffer = phone.rxBuffer \o SubSeq(phone.sent, 1, n),
                                   !.sent = SubSeq(phone.sent, n + 1, Len(phone.sent)),
                                   !.at = "parse"]
      BY DEF PhoneRead
    <2> DEFINE a == SubSeq(phone.sent, 1, n)
               b == SubSeq(phone.sent, n + 1, Len(phone.sent))
    <2>2. a \in Seq(Cell) /\ b \in Seq(Cell) /\ a \o b = phone.sent
      <3>1. n \in 0 .. Len(phone.sent)
        OBVIOUS
      <3>2. QED
        BY <1>1, <3>1, Cut, CutJoins
    <2>3. phone' = [phone EXCEPT !.rxBuffer = phone.rxBuffer \o a, !.sent = b, !.at = "parse"]
      BY <2>1
    <2> HIDE DEF a, b
    <2>4. phone'.rxBuffer = phone.rxBuffer \o a /\ phone'.sent = b
      BY <2>3 DEF PhoneInv, PhoneTypes
    <2>5. QED
      BY <2>2, <2>3, <2>4
  <1>3. Stream' = Stream
    BY DEF Stream, Wire
  <1>4. phone'.delivered = phone.delivered /\ phone'.at = "parse"
    BY <1>2 DEF PhoneInv, PhoneTypes
  <1>5. PhoneTypes'
    <2>1. phone.rxBuffer \o p \in Seq(Cell)
      BY <1>1
    <2> DEFINE u == phone.rxBuffer \o p
               v == phone'.sent
    <2>2. u \in Seq(Cell) /\ v \in Seq(Cell) /\ phone' = [phone EXCEPT !.rxBuffer = u, !.sent = v, !.at = "parse"]
      BY <1>2, <2>1
    <2> HIDE DEF u, v
    <2>3. QED
      BY <2>2 DEF PhoneInv, PhoneTypes
  <1>6. /\ PhoneReceived \o p \in Seq(Cell)
        /\ (PhoneReceived \o p) \o phone'.sent = PhoneReceived \o phone.sent
        /\ SubSeq(PhoneReceived \o phone.sent, 1, Len(PhoneReceived \o phone.sent) - Len(phone'.sent))
             = PhoneReceived \o p
    <2> DEFINE q == phone'.sent
    <2> HIDE DEF q
    <2>1. PhoneReceived \in Seq(Cell) /\ q \in Seq(Cell)
      BY <1>1, <1>2 DEF q
    <2>2. PhoneReceived \o p \in Seq(Cell)
      BY <2>1
    <2>3. (PhoneReceived \o p) \o q = PhoneReceived \o (p \o q)
      BY <2>1, MoveCells
    <2>4. SubSeq((PhoneReceived \o p) \o q, 1, Len((PhoneReceived \o p) \o q) - Len(q))
            = PhoneReceived \o p
      BY <2>1, MoveCells
    <2>5. p \o q = phone.sent
      BY <1>2 DEF q
    <2>6. QED
      BY <2>2, <2>3, <2>4, <2>5, Zenon DEF q
  <1>7. PhoneReceived' = PhoneReceived \o p
    <2>1. PhoneReceived' = SubSeq(Stream', 1, Len(Stream') - Len(phone'.sent))
      BY DEF PhoneReceived
    <2>2. QED
      BY <1>1, <1>3, <1>6, <2>1
  <1>8. PhoneSplit'
    BY <1>1, <1>3, <1>6, <1>7 DEF PhoneSplit
  <1>9. ASSUME NEW y \in Seq(Cell)
        PROVE  phone.delivered \o PhoneFramesIn[phone'.rxBuffer \o y] = PhoneFramesIn[PhoneReceived' \o y]
    <2> DEFINE b == phone.rxBuffer
    <2>1. p \o y \in Seq(Cell)
      OBVIOUS
    <2>2. (b \o p) \o y = b \o (p \o y)
      <3>1. b \in Seq(Cell)
        BY <1>1
      <3> HIDE DEF b
      <3>2. QED
        BY <3>1, MoveCells
    <2>3. (PhoneReceived \o p) \o y = PhoneReceived \o (p \o y)
      <3>1. PhoneReceived \in Seq(Cell)
        BY <1>1
      <3>2. QED
        BY <3>1, MoveCells
    <2>4. phone.delivered \o PhoneFramesIn[b \o (p \o y)] = PhoneFramesIn[PhoneReceived \o (p \o y)]
      BY <2>1 DEF PhoneInv, PhonePassSoFar
    <2>5. phone'.rxBuffer = b \o p
      BY <1>2
    <2> HIDE DEF b
    <2>6. QED
      BY <1>7, <2>2, <2>3, <2>4, <2>5, Zenon
  <1>10. PhonePassSoFar'
    BY <1>4, <1>9 DEF PhonePassSoFar
  <1>11. QED
    BY <1>4, <1>5, <1>8, <1>10 DEF PhoneInv, PhoneLeftAtEnd

\* A step that only moves the phone's worker.
LEMMA PhoneMovesInv ==
  ASSUME PhoneInv, items' = items, NEW a \in {"read", "parse", "ended"}, phone' = [phone EXCEPT !.at = a],
         a # "parse" => PhonePassEnds(phone.rxBuffer)
  PROVE  PhoneInv'
  <1>1. /\ phone'.sent = phone.sent /\ phone'.rxBuffer = phone.rxBuffer
        /\ phone'.delivered = phone.delivered /\ phone'.at = a
    BY DEF PhoneInv, PhoneTypes
  <1>2. Stream' = Stream
    BY DEF Stream, Wire
  <1>3. PhoneReceived' = PhoneReceived
    BY <1>1, <1>2 DEF PhoneReceived
  <1>4. PhoneTypes'
    BY DEF PhoneInv, PhoneTypes
  <1>5. PhoneSplit'
    BY <1>1, <1>2, <1>3 DEF PhoneInv, PhoneSplit
  <1>6. PhonePassSoFar'
    BY <1>1, <1>3 DEF PhoneInv, PhonePassSoFar
  <1>7. PhoneLeftAtEnd'
    BY <1>1 DEF PhoneLeftAtEnd
  <1>8. QED
    BY <1>4, <1>5, <1>6, <1>7 DEF PhoneInv

\* A header of the length zero in all is taken over and over, for nothing.
LEMMA PhoneTakesNothing ==
  ASSUME PhoneInv, PhoneTakes, PhoneTotal = 0
  PROVE  phone' = phone
  <1>1. phone.rxBuffer \in Seq(Cell) /\ phone.delivered \in Seq(WellFormed)
    BY DEF PhoneInv, PhoneTypes
  <1>2. SubSeq(phone.rxBuffer, 1, 0) = <<>>
    BY SubSeqEmpty
  <1>3. PhoneDeserialize(<<>>) = <<>>
    <2>1. Len(<<>>) < MinFrameLen
      BY Lengths
    <2>2. QED
      BY <2>1 DEF PhoneDeserialize
  <1>4. phone.delivered \o <<>> = phone.delivered
    BY <1>1, ConcatEmptySeq
  <1>5. SubSeq(phone.rxBuffer, 0 + 1, Len(phone.rxBuffer)) = phone.rxBuffer
    BY <1>1, SubSeqFull
  <1>6. phone' = [phone EXCEPT !.delivered = phone.delivered \o PhoneDeserialize(SubSeq(phone.rxBuffer, 1, PhoneTotal)),
                               !.rxBuffer = SubSeq(phone.rxBuffer, PhoneTotal + 1, Len(phone.rxBuffer))]
    BY DEF PhoneTakes
  <1>7. phone' = [phone EXCEPT !.delivered = phone.delivered, !.rxBuffer = phone.rxBuffer]
    BY <1>2, <1>3, <1>4, <1>5, <1>6
  <1>8. QED
    BY <1>7 DEF PhoneInv, PhoneTypes

\* A frame is taken as the pass takes it.
LEMMA PhoneTakesInv ==
  ASSUME PhoneInv, PhoneTakes, items' = items, PhoneTotal # 0
  PROVE  PhoneInv'
  <1> DEFINE b == phone.rxBuffer
             d == PhoneDeserialize(PhoneTaken(b))
             r == PhoneRest(b)
  <1>1. b \in Seq(Cell) /\ phone.delivered \in Seq(WellFormed)
    BY DEF PhoneInv, PhoneTypes
  <1>2. ~PhonePassEnds(b)
    <2>1. /\ Len(b) \in Nat /\ Len(b) >= MinFrameLen /\ ~RefusesHeader(b)
          /\ PhoneFrameLen(b) \in 0 .. Len(b) /\ PhoneFrameLen(b) # 0
      BY <1>1 DEF PhoneTakes, PhoneReady, Refuses, PhoneTotal
    <2>2. PhoneFrameLen(b) \in 1 .. Len(b) /\ ~(Len(b) < MinFrameLen)
      BY <2>1, Lengths
    <2>3. QED
      BY <2>1, <2>2 DEF PhonePassEnds
  <1>3. d \in Seq(WellFormed) /\ r \in Seq(Cell)
    BY <1>1, <1>2, PhoneTakenRest, PhoneDeserializeWellFormed
  <1>4. phone' = [phone EXCEPT !.delivered = phone.delivered \o d, !.rxBuffer = r] /\ phone.at = "parse"
    BY DEF PhoneTakes, PhoneReady, PhoneTotal, PhoneTaken, PhoneRest
  <1>5. \A y \in Seq(Cell) : /\ r \o y \in Seq(Cell)
                             /\ PhoneFramesIn[b \o y] = d \o PhoneFramesIn[r \o y]
    BY <1>1, <1>2, PhoneFramesInConcat
  <1>6. \A y \in Seq(Cell) : phone.delivered \o PhoneFramesIn[b \o y] = PhoneFramesIn[PhoneReceived \o y]
    BY DEF PhoneInv, PhonePassSoFar
  <1> HIDE DEF b, d, r
  <1>7. phone.delivered \o d \in Seq(WellFormed)
    BY <1>1, <1>3
  <1>8. /\ phone'.sent = phone.sent /\ phone'.rxBuffer = r
        /\ phone'.delivered = phone.delivered \o d /\ phone'.at = "parse"
    BY <1>4 DEF PhoneInv, PhoneTypes
  <1>9. PhoneTypes'
    <2> DEFINE e == phone.delivered \o d
    <2>1. e \in Seq(WellFormed) /\ phone' = [phone EXCEPT !.delivered = e, !.rxBuffer = r]
      BY <1>4, <1>7
    <2> HIDE DEF e
    <2>2. QED
      BY <1>3, <2>1 DEF PhoneInv, PhoneTypes
  <1>10. Stream' = Stream
    BY DEF Stream, Wire
  <1>11. PhoneReceived' = PhoneReceived
    BY <1>8, <1>10 DEF PhoneReceived
  <1>12. PhoneSplit'
    BY <1>8, <1>10, <1>11 DEF PhoneInv, PhoneSplit
  <1>13. ASSUME NEW y \in Seq(Cell)
         PROVE  phone'.delivered \o PhoneFramesIn[phone'.rxBuffer \o y] = PhoneFramesIn[PhoneReceived' \o y]
    <2> DEFINE e == PhoneFramesIn[r \o y]
               c == phone.delivered
    <2>1. e \in Seq(WellFormed) /\ c \in Seq(WellFormed)
      BY <1>1, <1>5, PhoneFramesInUnfolds
    <2>2. PhoneFramesIn[b \o y] = d \o e
      BY <1>5
    <2>3. c \o PhoneFramesIn[b \o y] = PhoneFramesIn[PhoneReceived \o y]
      BY <1>6
    <2> HIDE DEF e, c
    <2>4. (c \o d) \o e = c \o (d \o e)
      BY <1>3, <2>1, ConcatAssociative
    <2>5. (c \o d) \o e = PhoneFramesIn[PhoneReceived' \o y]
      BY <1>11, <2>2, <2>3, <2>4, Zenon
    <2>6. QED
      BY <1>8, <2>5 DEF c, e
  <1>14. PhonePassSoFar'
    BY <1>13 DEF PhonePassSoFar
  <1>15. QED
    BY <1>8, <1>9, <1>12, <1>14 DEF PhoneInv, PhoneLeftAtEnd

\* Every step, of the agent's loop too.
LEMMA PhoneStep == PhoneInv /\ [StreamNext]_<<vars, phone, side>> => PhoneInv'
  <1> SUFFICES ASSUME PhoneInv, [StreamNext]_<<vars, phone, side>> PROVE PhoneInv'
    OBVIOUS
  <1>1. items' = items
    BY DEF StreamNext, vars, Next, Loop, Recv, RecvFails, FlagCleared, DropByte, RejectOversized, TakeFrame, Wait
  <1>2. CASE phone' = phone
    <2>1. Stream' = Stream
      BY <1>1 DEF Stream, Wire
    <2>2. PhoneReceived' = PhoneReceived
      BY <1>2, <2>1 DEF PhoneReceived
    <2>3. QED
      BY <1>2, <2>1, <2>2 DEF PhoneInv, PhoneTypes, PhoneSplit, PhonePassSoFar, PhoneLeftAtEnd
  <1>3. CASE PhoneRead
    BY <1>1, <1>3, PhoneReadInv
  <1>4. CASE PhoneLeaves
    <2>1. PhonePassEnds(phone.rxBuffer)
      BY <1>4 DEF PhoneLeaves, PhoneInv, PhoneLeftAtEnd
    <2>2. QED
      BY <1>1, <1>4, <2>1, PhoneMovesInv DEF PhoneLeaves
  <1>5. phone.rxBuffer \in Seq(Cell)
    BY DEF PhoneInv, PhoneTypes
  <1>6. CASE PhoneBreaks
    <2>1. PhonePassEnds(phone.rxBuffer)
      <3>1. Len(phone.rxBuffer) \in Nat /\ MinFrameLen \in Nat
        BY <1>5, Lengths
      <3>2. CASE Len(phone.rxBuffer) >= MinFrameLen
        <4>1. Refuses \/ Len(phone.rxBuffer) < PhoneTotal
          BY <1>6, <3>2 DEF PhoneBreaks, PhoneReady
        <4>2. PhoneTotal \in Int
          BY <1>5, <3>2, PhoneHeaderHasLength DEF PhoneTotal
        <4>3. QED
          BY <3>1, <4>1, <4>2 DEF PhonePassEnds, Refuses, PhoneTotal
      <3>3. QED
        BY <3>1, <3>2 DEF PhonePassEnds
    <2>2. QED
      BY <1>1, <1>6, <2>1, PhoneMovesInv DEF PhoneBreaks
  <1>7. CASE PhoneThrows
    <2>1. PhonePassEnds(phone.rxBuffer)
      <3>1. PhoneTotal \in Int /\ PhoneTotal < 0
        BY <1>5, <1>7, PhoneHeaderHasLength DEF PhoneThrows, PhoneReady, PhoneTotal
      <3>2. QED
        BY <3>1 DEF PhonePassEnds, PhoneTotal
    <2>2. QED
      BY <1>1, <1>7, <2>1, PhoneMovesInv DEF PhoneThrows
  <1>8. CASE PhoneTakes
    BY <1>1, <1>2, <1>8, PhoneTakesNothing, PhoneTakesInv
  <1>9. QED
    BY <1>2, <1>3, <1>4, <1>6, <1>7, <1>8 DEF StreamNext, PhoneNext, vars

\* Nothing was read yet.
LEMMA PhoneStart == AnyStream /\ PhoneInit => PhoneInv
  <1> SUFFICES ASSUME AnyStream, PhoneInit PROVE PhoneInv
    OBVIOUS
  <1>1. Stream \in Seq(Cell) /\ sent = Stream
    BY DEF AnyStream
  <1>2. phone = [sent |-> Stream, rxBuffer |-> <<>>, at |-> "read", delivered |-> <<>>]
    BY <1>1 DEF PhoneInit
  <1>3. phone.sent = Stream /\ phone.rxBuffer = <<>> /\ phone.at = "read" /\ phone.delivered = <<>>
    BY <1>2
  <1>4. PhoneTypes
    BY <1>1, <1>2 DEF PhoneTypes
  <1>5. PhoneReceived = <<>>
    <2>1. Len(Stream) - Len(phone.sent) = 0
      BY <1>1, <1>3
    <2>2. QED
      BY <1>1, <2>1, SubSeqEmpty DEF PhoneReceived
  <1>6. PhoneSplit
    BY <1>1, <1>3, <1>5, ConcatEmptySeq DEF PhoneSplit
  <1>7. ASSUME NEW y \in Seq(Cell)
        PROVE  phone.delivered \o PhoneFramesIn[phone.rxBuffer \o y] = PhoneFramesIn[PhoneReceived \o y]
    <2>1. <<>> \o y = y
      BY ConcatEmptySeq
    <2>2. PhoneFramesIn[y] \in Seq(WellFormed)
      BY PhoneFramesInUnfolds
    <2>3. <<>> \o PhoneFramesIn[y] = PhoneFramesIn[y]
      BY <2>2, ConcatEmptySeq
    <2>4. QED
      BY <1>3, <1>5, <2>1, <2>3
  <1>8. PhonePassEnds(phone.rxBuffer)
    <2>1. Len(phone.rxBuffer) = 0
      BY <1>3
    <2>2. QED
      BY <2>1, Lengths DEF PhonePassEnds
  <1>9. QED
    BY <1>4, <1>6, <1>7, <1>8 DEF PhoneInv, PhonePassSoFar, PhoneLeftAtEnd

\* receiverLoop of the phone hands over, of any bytes at all and however read
\* cuts them, what its one pass over the bytes read finds.
THEOREM PhoneCutsDoNotMatterAlways == AnyStreamsSpec => []PhoneCutsDoNotMatter
  BY PhoneStart, PhoneStep, PhoneInvSuffices, PTL DEF AnyStreamsSpec

-----------------------------------------------------------------------------
\* What the codec writes

\* c is the run of the checksum over data.
CrcRun(c, data) ==
  c = [i \in 0 .. Len(data) |->
         IF i = 0 THEN 1 ELSE (2 * c[i - 1] + data[i] + 1) % (Max(Cell) + 1)]

\* A cell is what is left of any natural.
LEMMA CellOfMod ==
  ASSUME NEW n \in Nat
  PROVE  n % (Max(Cell) + 1) \in Cell
  <1> DEFINE m == Max(Cell)
  <1>1. m \in Nat /\ Cell = 0 .. m
    BY CodecAssumption
  <1> HIDE DEF m
  <1>2. n % (m + 1) \in 0 .. m
    BY <1>1
  <1>3. QED
    BY <1>1, <1>2 DEF m

\* The checksum runs over data, cell by cell.
LEMMA CrcRuns ==
  ASSUME NEW data \in Seq(Cell)
  PROVE  \E c \in [0 .. Len(data) -> Cell] : CrcRun(c, data) /\ CalculateCrc32(data) = c[Len(data)]
  <1> DEFINE n == Len(data)
             D == 0 .. n
             m == Max(Cell)
             F(i, v) == (2 * v + data[i] + 1) % (m + 1)
             size == [i \in D |-> i]
             rest == [i \in D |-> IF i = 0 THEN 0 ELSE i - 1]
             comb == [i \in D |-> [v \in Cell |-> IF i = 0 THEN 1 ELSE F(i, v)]]
  <1>1. n \in Nat /\ m \in Nat /\ Cell = 0 .. m /\ 1 \in Cell /\ \A i \in 1 .. n : data[i] \in Cell
    BY CodecAssumption
  <1>2. ASSUME NEW i \in D, i # 0, NEW v \in Cell PROVE F(i, v) \in Cell
    <2>1. 2 * v + data[i] + 1 \in Nat
      BY <1>1, <1>2
    <2>2. QED
      BY <2>1, CellOfMod
  <1>3. IsRecursion(D, Cell, size, {0}, 1, rest, comb)
    <2> HIDE DEF n, F
    <2>1. size \in [D -> Nat] /\ rest \in [D -> D] /\ {0} \in SUBSET D
      BY <1>1
    <2>2. comb \in [D -> [Cell -> Cell]]
      BY <1>1, <1>2
    <2>3. \A x \in D : x \notin {0} => size[rest[x]] < size[x]
      BY <1>1
    <2> HIDE DEF size, rest, comb
    <2>4. QED
      BY <1>1, <2>1, <2>2, <2>3 DEF IsRecursion
  <1>4. \A i \in D : i # 0 => rest[i] = i - 1 /\ i - 1 \in D /\ \A v \in Cell : comb[i][v] = F(i, v)
    <2> HIDE DEF F, n
    <2>1. QED
      BY <1>1
  <1> HIDE DEF size, rest, comb
  <1>5. PICK f \in [D -> Cell] : \A x \in D : f[x] = IF x \in {0} THEN 1 ELSE comb[x][f[rest[x]]]
    BY <1>3, Recursion
  <1>6. \A i \in D : f[i] = IF i = 0 THEN 1 ELSE F(i, f[i - 1])
    <2> HIDE DEF F, D
    <2>1. QED
      BY <1>4, <1>5
  <1>7. CrcRun(f, data)
    BY <1>6 DEF CrcRun
  <1>8. CalculateCrc32(data) = (CHOOSE c : CrcRun(c, data))[n]
    BY DEF CalculateCrc32, CrcRun
  <1> DEFINE c == CHOOSE c : CrcRun(c, data)
  <1>9. CrcRun(c, data)
    BY <1>7
  <1> HIDE DEF c
  <1>10. \A i \in D : c[i] = IF i = 0 THEN 1 ELSE F(i, c[i - 1])
    BY <1>9 DEF CrcRun
  <1>11. \A i \in D : c[i] \in Cell
    <2> DEFINE S == {k \in Nat : k \in D => c[k] \in Cell}
    <2> HIDE DEF F
    <2>1. 0 \in S
      BY <1>1, <1>10
    <2>2. ASSUME NEW k \in Nat, k \in S PROVE k + 1 \in S
      <3>1. CASE k + 1 \in D
        <4>1. k \in D /\ k + 1 # 0 /\ (k + 1) - 1 = k
          BY <1>1, <3>1
        <4>2. c[k] \in Cell
          BY <2>2, <4>1
        <4>3. c[k + 1] = F(k + 1, c[k])
          BY <1>10, <3>1, <4>1
        <4>4. QED
          BY <1>2, <3>1, <4>1, <4>2, <4>3
      <3>2. QED
        BY <3>1
    <2> HIDE DEF S
    <2>3. \A k \in Nat : k \in S
      BY <2>1, <2>2, InductiveSet
    <2>4. QED
      BY <1>1, <2>3 DEF S
  <1>12. c \in [D -> Cell]
    BY <1>9, <1>11 DEF CrcRun
  <1>13. QED
    BY <1>8, <1>9, <1>12 DEF c

\* The cells in front of the checksum.
Body(f) == FRAME_MAGIC \o <<Len(f.payload), f.type>> \o f.payload

\* A frame that can be written, whatever its type.
Writable(f) ==
  /\ f.type \in Cell /\ f.payload \in Seq(Cell) /\ Len(f.payload) <= MAX_PAYLOAD_SIZE

\* Where the fields of a frame are.
LEMMA BodyLayout ==
  ASSUME NEW f, Writable(f)
  PROVE  /\ Body(f) \in Seq(Cell) /\ Len(Body(f)) = HeaderLen + Len(f.payload)
         /\ SubSeq(Body(f), 1, MagicLen) = FRAME_MAGIC
         /\ Body(f)[MagicLen + 1] = Len(f.payload) /\ Body(f)[HeaderLen] = f.type
         /\ \A i \in 1 .. Len(f.payload) : Body(f)[HeaderLen + i] = f.payload[i]
  <1> DEFINE P == f.payload
             T == f.type
             h == <<Len(P), T>>
             M == FRAME_MAGIC
  <1>1. P \in Seq(Cell) /\ Len(P) \in Nat /\ M \in Seq(Cell) /\ Len(M) = MagicLen
    BY CodecAssumption DEF Writable, MagicLen
  <1>2. Len(P) \in Cell /\ T \in Cell
    BY <1>1, CodecAssumption DEF Writable
  <1> HIDE DEF P, T, M
  <1>3. h \in Seq(Cell) /\ Len(h) = 2 /\ h[1] = Len(P) /\ h[2] = T
    BY <1>2
  <1> HIDE DEF h
  <1>4. /\ M \o h \in Seq(Cell) /\ Len(M \o h) = Len(M) + Len(h)
        /\ \A i \in 1 .. Len(M) + Len(h) : (M \o h)[i] = IF i <= Len(M) THEN M[i] ELSE h[i - Len(M)]
    <2>1. M \in Seq(Cell) /\ h \in Seq(Cell)
      BY <1>1, <1>3
    <2>2. QED
      BY <2>1, ConcatProperties
  <1> DEFINE a == M \o h
  <1>5. a \in Seq(Cell) /\ Len(a) = HeaderLen /\ a[MagicLen + 1] = Len(P) /\ a[HeaderLen] = T
    BY <1>1, <1>3, <1>4, Lengths
  <1>6. SubSeq(a, 1, MagicLen) = M
    <2>1. Len(M) \in 0 .. Len(M)
      BY <1>1
    <2>2. SubSeq(M \o h, 1, Len(M)) = SubSeq(M, 1, Len(M)) /\ SubSeq(M, 1, Len(M)) = M
      BY <1>1, <1>3, <2>1, CutOfConcat, SubSeqFull
    <2>3. QED
      BY <1>1, <2>2
  <1> HIDE DEF a
  <1>7. /\ a \o P \in Seq(Cell) /\ Len(a \o P) = Len(a) + Len(P)
        /\ \A i \in 1 .. Len(a) + Len(P) : (a \o P)[i] = IF i <= Len(a) THEN a[i] ELSE P[i - Len(a)]
    <2>1. a \in Seq(Cell) /\ P \in Seq(Cell)
      BY <1>1, <1>5
    <2>2. QED
      BY <2>1, ConcatProperties
  <1>8. SubSeq(a \o P, 1, MagicLen) = M
    <2>1. MagicLen \in 0 .. Len(a)
      BY <1>5, Lengths
    <2>2. SubSeq(a \o P, 1, MagicLen) = SubSeq(a, 1, MagicLen)
      BY <1>1, <1>5, <2>1, CutOfConcat
    <2>3. QED
      BY <1>6, <2>2
  <1>9. (a \o P)[MagicLen + 1] = Len(P) /\ (a \o P)[HeaderLen] = T
    BY <1>1, <1>5, <1>7, Lengths
  <1>10. ASSUME NEW i \in 1 .. Len(P) PROVE (a \o P)[HeaderLen + i] = P[i]
    <2> DEFINE k == HeaderLen + i
    <2>1. k \in 1 .. Len(a) + Len(P) /\ ~(k <= Len(a)) /\ k - Len(a) = i
      BY <1>1, <1>5, Lengths
    <2> HIDE DEF k
    <2>2. (a \o P)[k] = P[k - Len(a)]
      BY <1>7, <2>1
    <2>3. (a \o P)[k] = P[i]
      BY <2>1, <2>2, Zenon
    <2>4. QED
      BY <2>3 DEF k
  <1>11. Body(f) = a \o P
    BY DEF Body, a, h, M, P, T
  <1>12. QED
    BY <1>5, <1>7, <1>8, <1>9, <1>10, <1>11 DEF M, P, T

\* The checksum is a cell.
LEMMA CrcIsCell ==
  ASSUME NEW data \in Seq(Cell)
  PROVE  CalculateCrc32(data) \in Cell
  <1>1. PICK c \in [0 .. Len(data) -> Cell] : CalculateCrc32(data) = c[Len(data)]
    BY CrcRuns
  <1>2. Len(data) \in 0 .. Len(data)
    OBVIOUS
  <1>3. QED
    BY <1>1, <1>2

\* d has the header of a frame within the ceiling, and just that frame's cells.
WholeFrame(d) ==
  /\ d \in Seq(Cell) /\ Len(d) >= MinFrameLen /\ HasMagic(d)
  /\ PayloadLen(d) <= MAX_PAYLOAD_SIZE /\ Len(d) = MinFrameLen + PayloadLen(d)

\* The cells SerializeFrame writes.
LEMMA SerializeLayout ==
  ASSUME NEW f, Writable(f)
  PROVE  LET d == SerializeFrame(f)
         IN  /\ WholeFrame(d) /\ Len(d) = MinFrameLen + Len(f.payload)
             /\ PayloadLen(d) = Len(f.payload) /\ d[HeaderLen] = f.type
             /\ \A i \in 1 .. Len(f.payload) : d[HeaderLen + i] = f.payload[i]
             /\ SubSeq(d, 1, Len(d) - 1) = Body(f)
             /\ d[Len(d)] = CalculateCrc32(Body(f))
  <1> DEFINE b == Body(f)
             x == CalculateCrc32(b)
             n == Len(f.payload)
             d == b \o <<x>>
  <1>1. /\ b \in Seq(Cell) /\ Len(b) = HeaderLen + n /\ SubSeq(b, 1, MagicLen) = FRAME_MAGIC
        /\ b[MagicLen + 1] = n /\ b[HeaderLen] = f.type
        /\ \A i \in 1 .. n : b[HeaderLen + i] = f.payload[i]
    BY BodyLayout
  <1>2. x \in Cell /\ n \in Nat /\ n <= MAX_PAYLOAD_SIZE
    BY <1>1, CrcIsCell DEF Writable
  <1>3. SerializeFrame(f) = Append(b, x)
    <2>1. ~(Len(f.payload) > MAX_PAYLOAD_SIZE)
      BY <1>2, Lengths
    <2>2. QED
      BY <2>1, Zenon DEF SerializeFrame, Body
  <1> HIDE DEF b, x, n
  <1>4. Append(b, x) = b \o <<x>>
    BY <1>1, <1>2, AppendIsConcat
  <1>5. <<x>> \in Seq(Cell) /\ Len(<<x>>) = 1 /\ <<x>>[1] = x
    BY <1>2
  <1> DEFINE e == <<x>>
  <1>6. e \in Seq(Cell) /\ Len(e) = 1 /\ e[1] = x
    BY <1>5
  <1> HIDE DEF e
  <1>7. /\ b \o e \in Seq(Cell) /\ Len(b \o e) = Len(b) + Len(e)
        /\ \A i \in 1 .. Len(b) + Len(e) : (b \o e)[i] = IF i <= Len(b) THEN b[i] ELSE e[i - Len(b)]
    <2>1. b \in Seq(Cell) /\ e \in Seq(Cell)
      BY <1>1, <1>6
    <2>2. QED
      BY <2>1, ConcatProperties
  <1>8. d = b \o e
    BY DEF e
  <1>9. /\ d \in Seq(Cell) /\ Len(d) = MinFrameLen + n /\ d[MagicLen + 1] = n /\ d[HeaderLen] = f.type
        /\ d[Len(d)] = x
    <2> HIDE DEF d
    <2>1. Len(b) \in Nat /\ MagicLen + 1 <= Len(b) /\ HeaderLen <= Len(b) /\ Len(d) = Len(b) + 1
      BY <1>1, <1>2, <1>6, <1>7, <1>8, Lengths
    <2>2. Len(d) = MinFrameLen + n
      BY <1>1, <1>2, <2>1, Lengths
    <2>3. d[MagicLen + 1] = b[MagicLen + 1] /\ d[HeaderLen] = b[HeaderLen]
      BY <1>6, <1>7, <1>8, <2>1, Lengths
    <2>4. d[Len(d)] = e[1]
      BY <1>6, <1>7, <1>8, <2>1
    <2>5. QED
      BY <1>1, <1>6, <1>7, <1>8, <2>2, <2>3, <2>4
  <1>10. ASSUME NEW i \in 1 .. n PROVE d[HeaderLen + i] = f.payload[i]
    <2> HIDE DEF d
    <2>1. HeaderLen + i \in 1 .. Len(b) + Len(e) /\ HeaderLen + i <= Len(b)
      BY <1>1, <1>2, <1>6, Lengths
    <2>2. QED
      BY <1>1, <1>7, <1>8, <2>1
  <1>11. SubSeq(d, 1, Len(d) - 1) = b /\ SubSeq(d, 1, MagicLen) = FRAME_MAGIC
    <2>1. /\ Len(b) \in 0 .. Len(b) /\ MagicLen \in 0 .. Len(b) /\ Len(b \o e) - 1 = Len(b)
      BY <1>1, <1>2, <1>6, <1>7, Lengths
    <2>2. SubSeq(b \o e, 1, Len(b)) = SubSeq(b, 1, Len(b)) /\ SubSeq(b, 1, Len(b)) = b
      BY <1>1, <1>6, <2>1, CutOfConcat, SubSeqFull
    <2>3. SubSeq(b \o e, 1, MagicLen) = SubSeq(b, 1, MagicLen)
      BY <1>1, <1>6, <2>1, CutOfConcat
    <2> HIDE DEF d
    <2>4. QED
      BY <1>1, <1>8, <2>1, <2>2, <2>3
  <1>12. SerializeFrame(f) = d
    BY <1>3, <1>4
  <1> HIDE DEF d
  <1>13. HasMagic(d)
    <2>1. Len(FRAME_MAGIC) <= Len(d) /\ Len(FRAME_MAGIC) = MagicLen
      BY <1>2, <1>9, Lengths DEF MagicLen
    <2>2. SubSeq(FRAME_MAGIC, 1, Len(FRAME_MAGIC)) = FRAME_MAGIC
      BY CodecAssumption, SubSeqFull
    <2>3. QED
      BY <1>11, <2>1, <2>2 DEF HasMagic, IsPrefix
  <1>14. WholeFrame(d) /\ PayloadLen(d) = n
    BY <1>2, <1>9, <1>13, Lengths DEF WholeFrame, PayloadLen
  <1>15. QED
    BY <1>9, <1>10, <1>11, <1>12, <1>14 DEF b, n, x

\* Equal rests make a multiple of p.
LEMMA ModEqual ==
  ASSUME NEW a \in Nat, NEW b \in Nat, NEW p \in Nat, p > 0, a % p = b % p
  PROVE  \E k \in Int : a - b = k * p
  <1>1. a = p * (a \div p) + (a % p) /\ b = p * (b \div p) + (b % p)
    OBVIOUS
  <1>2. (a \div p) \in Int /\ (b \div p) \in Int
    OBVIOUS
  <1> DEFINE k == (a \div p) - (b \div p)
  <1>3. k \in Int /\ a - b = k * p
    BY <1>1, <1>2
  <1>4. QED
    BY <1>3

\* A multiple of p that is not far from zero.
LEMMA SmallMultiple ==
  ASSUME NEW p \in Nat, p > 0, NEW k \in Int, NEW d \in Int, d = k * p, d < 2 * p, d > -(2 * p)
  PROVE  d = 0 \/ d = p \/ d = -p
  <1>1. CASE k >= 2
    BY <1>1
  <1>2. CASE k <= -2
    BY <1>2
  <1>3. CASE k = -1 \/ k = 0 \/ k = 1
    BY <1>3
  <1>4. QED
    BY <1>1, <1>2, <1>3

\* One step of the checksum keeps two different states apart,
LEMMA CrcKeepsApart ==
  ASSUME NEW v \in Cell, NEW w \in Cell, NEW x \in Cell, v # w
  PROVE  (2 * v + x + 1) % (Max(Cell) + 1) # (2 * w + x + 1) % (Max(Cell) + 1)
  <1> DEFINE m == Max(Cell)
             p == m + 1
             a == 2 * v + x + 1
             b == 2 * w + x + 1
  <1>1. m \in Nat /\ m % 2 = 0 /\ v \in 0 .. m /\ w \in 0 .. m /\ x \in 0 .. m
    BY CodecAssumption
  <1> HIDE DEF m
  <1>2. ASSUME a % p = b % p PROVE FALSE
    <2>1. a \in Nat /\ b \in Nat /\ p \in Nat /\ p > 0 /\ a - b = 2 * (v - w)
      BY <1>1
    <2>2. a - b < 2 * p /\ a - b > -(2 * p) /\ a - b # 0
      BY <1>1
    <2> HIDE DEF a, b, p
    <2>3. PICK k \in Int : a - b = k * p
      BY <1>2, <2>1, ModEqual
    <2>4. a - b = p \/ a - b = -p
      BY <2>1, <2>2, <2>3, SmallMultiple
    <2>5. 2 * (v - w) = p \/ 2 * (w - v) = p
      BY <1>1, <2>1, <2>4
    <2>6. m % 2 = 1
      BY <1>1, <2>5 DEF p
    <2>7. QED
      BY <1>1, <2>6
  <1>3. QED
    BY <1>2 DEF m

\* and tells two cells apart.
LEMMA CrcTellsApart ==
  ASSUME NEW v \in Cell, NEW x \in Cell, NEW z \in Cell, x # z
  PROVE  (2 * v + x + 1) % (Max(Cell) + 1) # (2 * v + z + 1) % (Max(Cell) + 1)
  <1> DEFINE m == Max(Cell)
             p == m + 1
             a == 2 * v + x + 1
             b == 2 * v + z + 1
  <1>1. m \in Nat /\ v \in 0 .. m /\ x \in 0 .. m /\ z \in 0 .. m
    BY CodecAssumption
  <1> HIDE DEF m
  <1>2. ASSUME a % p = b % p PROVE FALSE
    <2>1. a \in Nat /\ b \in Nat /\ p \in Nat /\ p > 0
      BY <1>1
    <2>2. a - b < p /\ a - b > -p /\ a - b # 0
      BY <1>1
    <2> HIDE DEF a, b, p
    <2>3. PICK k \in Int : a - b = k * p
      BY <1>2, <2>1, ModEqual
    <2>4. a - b = 0 \/ a - b = p \/ a - b = -p
      BY <2>1, <2>2, <2>3, SmallMultiple
    <2>5. QED
      BY <2>1, <2>2, <2>4
  <1>3. QED
    BY <1>2 DEF m

\* The steps of a run.
LEMMA CrcRunSteps ==
  ASSUME NEW data \in Seq(Cell), NEW c, CrcRun(c, data)
  PROVE  /\ c[0] = 1
         /\ \A i \in 1 .. Len(data) : c[i] = (2 * c[i - 1] + data[i] + 1) % (Max(Cell) + 1)
  <1> DEFINE F(i) == (2 * c[i - 1] + data[i] + 1) % (Max(Cell) + 1)
             n == Len(data)
  <1>1. c = [i \in 0 .. n |-> IF i = 0 THEN 1 ELSE F(i)]
    BY DEF CrcRun
  <1>2. n \in Nat
    OBVIOUS
  <1> HIDE DEF F, n
  <1>3. \A i \in 0 .. n : c[i] = IF i = 0 THEN 1 ELSE F(i)
    BY <1>1
  <1>4. c[0] = 1 /\ \A i \in 1 .. n : c[i] = F(i)
    BY <1>2, <1>3
  <1>5. QED
    BY <1>4 DEF F, n

\* The checksum of data changes with any one of its cells.
LEMMA CrcDiffers ==
  ASSUME NEW data \in Seq(Cell), NEW other \in Seq(Cell), Len(data) = Len(other),
         NEW j \in 1 .. Len(data), data[j] # other[j],
         \A i \in 1 .. Len(data) : i # j => data[i] = other[i]
  PROVE  CalculateCrc32(data) # CalculateCrc32(other)
  <1> DEFINE n == Len(data)
             F(v, x) == (2 * v + x + 1) % (Max(Cell) + 1)
  <1>1. PICK c \in [0 .. n -> Cell] : CrcRun(c, data) /\ CalculateCrc32(data) = c[n]
    BY CrcRuns
  <1>2. PICK e \in [0 .. n -> Cell] : CrcRun(e, other) /\ CalculateCrc32(other) = e[n]
    BY CrcRuns
  <1>3. n \in Nat /\ \A i \in 1 .. n : data[i] \in Cell /\ other[i] \in Cell
    OBVIOUS
  <1>4. /\ c[0] = 1 /\ e[0] = 1
        /\ \A i \in 1 .. n : c[i] = F(c[i - 1], data[i]) /\ e[i] = F(e[i - 1], other[i])
    <2>1. c[0] = 1 /\ \A i \in 1 .. n : c[i] = F(c[i - 1], data[i])
      BY <1>1, CrcRunSteps
    <2>2. e[0] = 1 /\ \A i \in 1 .. n : e[i] = F(e[i - 1], other[i])
      BY <1>2, CrcRunSteps
    <2> HIDE DEF F
    <2>3. QED
      BY <2>1, <2>2
  <1>5. /\ \A v, w, x \in Cell : v # w => F(v, x) # F(w, x)
        /\ \A v, x, z \in Cell : x # z => F(v, x) # F(v, z)
    BY CrcKeepsApart, CrcTellsApart
  <1> HIDE DEF F, n
  <1> DEFINE S == {k \in Nat : k <= n => IF k < j THEN c[k] = e[k] ELSE c[k] # e[k]}
  <1>6. 0 \in S
    BY <1>4
  <1>7. ASSUME NEW k \in Nat, k \in S PROVE k + 1 \in S
    <2>1. CASE k + 1 <= n
      <3>1. /\ k + 1 \in 1 .. n /\ (k + 1) - 1 = k /\ k \in 0 .. n /\ k <= n
        BY <1>3, <2>1
      <3>2. c[k + 1] = F(c[k], data[k + 1]) /\ e[k + 1] = F(e[k], other[k + 1])
        BY <1>4, <3>1
      <3>3. c[k] \in Cell /\ e[k] \in Cell /\ data[k + 1] \in Cell /\ other[k + 1] \in Cell
        BY <1>3, <3>1
      <3>4. CASE k + 1 < j
        <4>1. c[k] = e[k] /\ data[k + 1] = other[k + 1]
          BY <1>7, <3>1, <3>4 DEF n
        <4>2. QED
          BY <3>2, <3>4, <4>1
      <3>5. CASE k + 1 = j
        <4>1. c[k] = e[k] /\ data[k + 1] # other[k + 1]
          BY <1>7, <3>1, <3>5
        <4>2. c[k + 1] # e[k + 1]
          BY <1>5, <3>2, <3>3, <4>1
        <4>3. QED
          BY <3>5, <4>2
      <3>6. CASE k + 1 > j
        <4>1. c[k] # e[k] /\ data[k + 1] = other[k + 1]
          BY <1>7, <3>1, <3>6 DEF n
        <4>2. c[k + 1] # e[k + 1]
          BY <1>5, <3>2, <3>3, <4>1
        <4>3. QED
          BY <3>6, <4>2
      <3>7. QED
        BY <3>4, <3>5, <3>6
    <2>2. QED
      BY <2>1
  <1> HIDE DEF S
  <1>8. n \in S
    BY <1>3, <1>6, <1>7, InductiveSet
  <1>9. c[n] # e[n]
    BY <1>3, <1>8 DEF S, n
  <1>10. QED
    BY <1>1, <1>2, <1>9

\* What both receivers do with a frame's cells depends on the checksum, and on
\* the agent on the type.
LEMMA WholeDeserialized ==
  ASSUME NEW d, WholeFrame(d)
  PROVE  LET ok == CalculateCrc32(SubSeq(d, 1, Len(d) - 1)) = d[Len(d)]
             payload == SubSeq(d, HeaderLen + 1, Len(d) - 1)
         IN  /\ DeserializeFrame(d) =
                  IF ok /\ d[HeaderLen] \in MessageTypes
                  THEN <<[type |-> d[HeaderLen], payload |-> payload]>> ELSE <<>>
             /\ PhoneDeserialize(d) =
                  IF ok THEN <<[type |-> TransportMessageType(d[HeaderLen]), payload |-> payload]>>
                  ELSE <<>>
  <1>1. /\ d \in Seq(Cell) /\ Len(d) >= MinFrameLen /\ HasMagic(d)
        /\ PayloadLen(d) <= MAX_PAYLOAD_SIZE /\ Len(d) = MinFrameLen + PayloadLen(d)
    BY DEF WholeFrame
  <1>2. PayloadLen(d) \in Nat /\ TotalFrameLen(d) = MinFrameLen + PayloadLen(d)
    BY <1>1, HeaderHasLength
  <1>3. /\ TotalFrameLen(d) = Len(d) /\ HeaderLen + PayloadLen(d) = Len(d) - 1
        /\ ~(Len(d) < MinFrameLen) /\ ~(PayloadLen(d) > MAX_PAYLOAD_SIZE) /\ ~(Len(d) < TotalFrameLen(d))
    BY <1>1, <1>2, Lengths
  <1>4. DeserializeFrame(d) =
          IF \/ CalculateCrc32(SubSeq(d, 1, TotalFrameLen(d) - 1)) # d[TotalFrameLen(d)]
             \/ d[HeaderLen] \notin MessageTypes
          THEN <<>>
          ELSE <<[type |-> d[HeaderLen],
                  payload |-> SubSeq(d, HeaderLen + 1, HeaderLen + PayloadLen(d))]>>
    BY <1>1, <1>3, Zenon DEF DeserializeFrame
  <1>5. PhoneDeserialize(d) =
          IF CalculateCrc32(SubSeq(d, 1, Len(d) - 1)) # d[Len(d)] THEN <<>>
          ELSE <<[type |-> TransportMessageType(d[HeaderLen]),
                  payload |-> SubSeq(d, HeaderLen + 1, Len(d) - 1)]>>
    BY <1>3, Zenon DEF PhoneDeserialize, Last
  <1>6. QED
    BY <1>3, <1>4, <1>5, Zenon

\* A pass takes a whole frame in one turn and goes on behind it.
LEMMA WholeTaken ==
  ASSUME NEW d, WholeFrame(d), NEW y \in Seq(Cell)
  PROVE  /\ FramesIn[d \o y] = DeserializeFrame(d) \o FramesIn[y]
         /\ PhoneFramesIn[d \o y] = PhoneDeserialize(d) \o PhoneFramesIn[y]
  <1>1. /\ d \in Seq(Cell) /\ Len(d) \in Nat /\ Len(d) >= MinFrameLen /\ HasMagic(d)
        /\ PayloadLen(d) <= MAX_PAYLOAD_SIZE /\ Len(d) = MinFrameLen + PayloadLen(d)
    BY DEF WholeFrame
  <1>2. PayloadLen(d) \in Nat /\ TotalFrameLen(d) = MinFrameLen + PayloadLen(d)
    BY <1>1, HeaderHasLength
  <1>3. ~PassEnds(d) /\ Skip(d) = Len(d)
    BY <1>1, <1>2, Lengths DEF PassEnds, Skip
  <1>4. ~PhonePassEnds(d) /\ PhoneFrameLen(d) = Len(d)
    <2>1. PhoneLen(d) = PayloadLen(d)
      BY <1>1, <1>2, Lengths, CodecAssumption DEF PhoneLen, Signed
    <2>2. QED
      BY <1>1, <1>2, <2>1, Lengths DEF PhonePassEnds, PhoneFrameLen, RefusesHeader
  <1>5. SubSeq(d, 1, Len(d)) = d /\ SubSeq(d, Len(d) + 1, Len(d)) = <<>>
    <2>1. Len(d) + 1 \in Int /\ Len(d) \in Int /\ Len(d) < Len(d) + 1
      BY <1>1
    <2>2. QED
      BY <1>1, <2>1, SubSeqFull, SubSeqEmpty
  <1>6. <<>> \o y = y
    BY ConcatEmptySeq
  <1>7. /\ Taken(d) = d /\ Rest(d) = <<>> /\ PhoneTaken(d) = d /\ PhoneRest(d) = <<>>
    BY <1>3, <1>4, <1>5 DEF Taken, Rest, PhoneTaken, PhoneRest
  <1>8. /\ FramesIn[d \o y] = DeserializeFrame(Taken(d)) \o FramesIn[Rest(d) \o y]
        /\ PhoneFramesIn[d \o y] = PhoneDeserialize(PhoneTaken(d)) \o PhoneFramesIn[PhoneRest(d) \o y]
    BY <1>1, <1>3, <1>4, FramesInConcat, PhoneFramesInConcat
  <1>9. QED
    BY <1>6, <1>7, <1>8, Zenon

\* A pass ends before a frame of which a part is missing.
LEMMA PartWaits ==
  ASSUME NEW u \in Seq(Cell), NEW v \in Seq(Cell), WholeFrame(u \o v), Len(v) > 0
  PROVE  PassEnds(u) /\ PhonePassEnds(u)
  <1>1. Len(u) \in Nat /\ Len(v) \in Nat /\ MinFrameLen \in Nat
    BY Lengths
  <1>2. CASE Len(u) < MinFrameLen
    BY <1>2 DEF PassEnds, PhonePassEnds
  <1>3. CASE Len(u) >= MinFrameLen
    <2>1. /\ Len(u \o v) = Len(u) + Len(v)
          /\ HasMagic(u \o v) <=> HasMagic(u)
          /\ PayloadLen(u \o v) = PayloadLen(u)
      BY <1>3, HeaderOfConcat
    <2>2. /\ HasMagic(u \o v) /\ PayloadLen(u \o v) <= MAX_PAYLOAD_SIZE
          /\ Len(u \o v) = MinFrameLen + PayloadLen(u \o v)
      BY DEF WholeFrame
    <2>3. PayloadLen(u) \in Nat /\ TotalFrameLen(u) = MinFrameLen + PayloadLen(u)
      BY <1>3, HeaderHasLength
    <2>4. HasMagic(u) /\ Len(u) < TotalFrameLen(u) /\ PayloadLen(u) <= MAX_PAYLOAD_SIZE
      BY <1>1, <2>1, <2>2, <2>3
    <2>5. PhoneLen(u) = PayloadLen(u)
      BY <2>3, <2>4, Lengths, CodecAssumption DEF PhoneLen, Signed
    <2>6. PhoneFrameLen(u) = TotalFrameLen(u)
      BY <2>3, <2>5 DEF PhoneFrameLen
    <2>7. PhoneFrameLen(u) \notin 1 .. Len(u)
      BY <1>1, <2>3, <2>4, <2>6, Lengths
    <2>8. QED
      BY <2>4, <2>7 DEF PassEnds, PhonePassEnds
  <1>4. QED
    BY <1>1, <1>2, <1>3

\* The payload is read back.
LEMMA PayloadReadBack ==
  ASSUME NEW f, Writable(f)
  PROVE  LET d == SerializeFrame(f) IN SubSeq(d, HeaderLen + 1, Len(d) - 1) = f.payload
  <1> DEFINE d == SerializeFrame(f)
             P == f.payload
             n == Len(d) - 1
  <1>1. /\ d \in Seq(Cell) /\ Len(d) = MinFrameLen + Len(P)
        /\ \A i \in 1 .. Len(P) : d[HeaderLen + i] = P[i]
    BY SerializeLayout DEF WholeFrame
  <1>2. P \in Seq(Cell) /\ Len(P) \in Nat
    BY DEF Writable
  <1> HIDE DEF d, P
  <1>3. n \in Nat /\ n = HeaderLen + Len(P) /\ n <= Len(d) /\ HeaderLen \in Nat
    BY <1>1, <1>2, Lengths
  <1> HIDE DEF n
  <1>4. /\ SubSeq(d, HeaderLen + 1, n) \in Seq(Cell)
        /\ Len(SubSeq(d, HeaderLen + 1, n)) = Len(P)
        /\ \A i \in 1 .. Len(P) : SubSeq(d, HeaderLen + 1, n)[i] = d[HeaderLen + i]
    BY <1>1, <1>2, <1>3
  <1>5. SubSeq(d, HeaderLen + 1, n) = P
    BY <1>1, <1>2, <1>4, SeqEqual
  <1>6. QED
    BY <1>5 DEF d, P, n

\* DeserializeFrame reads back what SerializeFrame wrote, but for a type that
\* it does not know; the phone calls that one an error.
LEMMA RoundTrip ==
  ASSUME NEW f, Writable(f), f = [type |-> f.type, payload |-> f.payload]
  PROVE  LET d == SerializeFrame(f)
         IN  /\ DeserializeFrame(d) = IF f.type \in MessageTypes THEN <<f>> ELSE <<>>
             /\ PhoneDeserialize(d) =
                  <<[type |-> TransportMessageType(f.type), payload |-> f.payload]>>
  <1> DEFINE d == SerializeFrame(f)
  <1>1. /\ WholeFrame(d) /\ d[HeaderLen] = f.type
        /\ SubSeq(d, 1, Len(d) - 1) = Body(f) /\ d[Len(d)] = CalculateCrc32(Body(f))
    BY SerializeLayout
  <1>2. SubSeq(d, HeaderLen + 1, Len(d) - 1) = f.payload
    BY PayloadReadBack
  <1> HIDE DEF d
  <1>3. CalculateCrc32(SubSeq(d, 1, Len(d) - 1)) = d[Len(d)]
    BY <1>1
  <1>4. /\ DeserializeFrame(d) =
             IF d[HeaderLen] \in MessageTypes
             THEN <<[type |-> d[HeaderLen], payload |-> SubSeq(d, HeaderLen + 1, Len(d) - 1)]>> ELSE <<>>
        /\ PhoneDeserialize(d) =
             <<[type |-> TransportMessageType(d[HeaderLen]), payload |-> SubSeq(d, HeaderLen + 1, Len(d) - 1)]>>
    BY <1>1, <1>3, WholeDeserialized, Zenon
  <1>5. QED
    BY <1>1, <1>2, <1>4, Zenon DEF d

\* One cell of a frame behind its length is changed: it is still taken as one
\* frame, and neither receiver accepts it.
LEMMA DamageDetected ==
  ASSUME NEW f, Writable(f), NEW j \in HeaderLen .. Len(SerializeFrame(f)), NEW x \in Cell,
         x # SerializeFrame(f)[j]
  PROVE  LET d == [SerializeFrame(f) EXCEPT ![j] = x]
         IN  WholeFrame(d) /\ DeserializeFrame(d) = <<>> /\ PhoneDeserialize(d) = <<>>
  <1> DEFINE e == SerializeFrame(f)
             d == [e EXCEPT ![j] = x]
             n == Len(e)
  <1>1. /\ WholeFrame(e) /\ SubSeq(e, 1, n - 1) = Body(f) /\ e[n] = CalculateCrc32(Body(f))
    BY SerializeLayout
  <1>2. /\ e \in Seq(Cell) /\ n \in Nat /\ n >= MinFrameLen /\ HasMagic(e)
        /\ PayloadLen(e) <= MAX_PAYLOAD_SIZE /\ n = MinFrameLen + PayloadLen(e)
    BY <1>1 DEF WholeFrame
  <1>3. j \in 1 .. n /\ j > MagicLen + 1 /\ MagicLen \in Nat /\ MagicLen + 1 <= n
    BY <1>2, Lengths
  <1>a. x # e[j] /\ j \in Nat
    BY <1>3
  <1> HIDE DEF e
  <1>4. /\ d \in Seq(Cell) /\ Len(d) = n
        /\ \A i \in 1 .. n : d[i] = IF i = j THEN x ELSE e[i]
    BY <1>2, <1>3, ExceptSeq
  <1> HIDE DEF d, n
  <1>5. WholeFrame(d)
    <2>1. PayloadLen(d) = PayloadLen(e)
      BY <1>3, <1>4 DEF PayloadLen
    <2>2. SubSeq(d, 1, MagicLen) = SubSeq(e, 1, MagicLen)
      <3>1. MagicLen \in 0 .. Len(d) /\ MagicLen \in 0 .. Len(e)
        BY <1>3, <1>4 DEF n
      <3>2. /\ SubSeq(d, 1, MagicLen) \in Seq(Cell) /\ Len(SubSeq(d, 1, MagicLen)) = MagicLen
            /\ \A i \in 1 .. MagicLen : SubSeq(d, 1, MagicLen)[i] = d[i]
        BY <1>4, <3>1, Cut
      <3>3. /\ SubSeq(e, 1, MagicLen) \in Seq(Cell) /\ Len(SubSeq(e, 1, MagicLen)) = MagicLen
            /\ \A i \in 1 .. MagicLen : SubSeq(e, 1, MagicLen)[i] = e[i]
        BY <1>2, <3>1, Cut
      <3>4. \A i \in 1 .. MagicLen : d[i] = e[i]
        BY <1>3, <1>4
      <3> DEFINE a == SubSeq(d, 1, MagicLen)
                 b == SubSeq(e, 1, MagicLen)
      <3>5. a \in Seq(Cell) /\ b \in Seq(Cell) /\ Len(a) = Len(b) /\ \A i \in 1 .. Len(a) : a[i] = b[i]
        BY <3>2, <3>3, <3>4
      <3> HIDE DEF a, b
      <3>6. a = b
        BY <3>5, SeqEqual
      <3>7. QED
        BY <3>6 DEF a, b
    <2>3. HasMagic(d)
      BY <1>2, <1>4, <2>2 DEF HasMagic, IsPrefix, MagicLen, n
    <2>4. QED
      BY <1>2, <1>4, <2>1, <2>3 DEF WholeFrame
  <1>6. CalculateCrc32(SubSeq(d, 1, Len(d) - 1)) # d[Len(d)]
    <2> DEFINE k == n - 1
               a == SubSeq(d, 1, k)
               b == SubSeq(e, 1, k)
    <2>1. k \in 0 .. Len(d) /\ k \in 0 .. Len(e) /\ k \in Nat /\ n = k + 1
      BY <1>2, <1>4, Lengths DEF n
    <2> HIDE DEF k
    <2>2. a \in Seq(Cell) /\ Len(a) = k /\ \A i \in 1 .. k : a[i] = d[i]
      BY <1>4, <2>1, Cut
    <2>3. b \in Seq(Cell) /\ Len(b) = k /\ \A i \in 1 .. k : b[i] = e[i]
      BY <1>2, <2>1, Cut
    <2>4. CalculateCrc32(b) = e[n]
      BY <1>1 DEF k
    <2> HIDE DEF a, b
    <2>5. CASE j = n
      <3>1. d[n] = x /\ e[n] # x
        BY <1>3, <1>4, <1>a, <2>5
      <3>2. Len(a) = Len(b) /\ \A i \in 1 .. Len(a) : a[i] = b[i]
        BY <1>4, <2>1, <2>2, <2>3, <2>5
      <3>3. a = b
        BY <2>2, <2>3, <3>2, SeqEqual
      <3>4. CalculateCrc32(a) # d[n]
        BY <2>4, <3>1, <3>3
      <3>5. QED
        BY <1>4, <3>4 DEF a, k
    <2>6. CASE j # n
      <3>1. j \in 1 .. k
        BY <1>3, <2>1, <2>6
      <3>2. /\ Len(a) = Len(b) /\ j \in 1 .. Len(a) /\ a[j] # b[j]
            /\ \A i \in 1 .. Len(a) : i # j => a[i] = b[i]
        BY <1>4, <1>a, <2>1, <2>2, <2>3, <3>1
      <3>3. CalculateCrc32(a) # CalculateCrc32(b)
        BY <2>2, <2>3, <3>2, CrcDiffers
      <3>4. d[n] = e[n]
        BY <1>2, <1>4, <2>1, <2>6
      <3>5. QED
        BY <1>4, <2>4, <3>3, <3>4 DEF a, k
    <2>7. QED
      BY <2>5, <2>6
  <1>7. DeserializeFrame(d) = <<>> /\ PhoneDeserialize(d) = <<>>
    BY <1>5, <1>6, WholeDeserialized, Zenon
  <1>8. QED
    BY <1>5, <1>7 DEF d, e

-----------------------------------------------------------------------------
\* Streams of items

Flat(e, n) == FlattenSeq([i \in 1 .. n |-> e[i]])

\* h is the run of FlattenSeq over the first n members of e.
FlatRun(h, e, n) ==
  h = [i \in 1 .. n |-> IF i = 1 THEN e[i] ELSE h[i - 1] \o e[i]]

\* FlattenSeq of a nonempty sequence is the end of such a run.
LEMMA FlatIsRun ==
  ASSUME NEW e, NEW n \in Nat, n # 0
  PROVE  Flat(e, n) = (CHOOSE h : FlatRun(h, e, n))[n]
  <1> DEFINE q == [i \in 1 .. n |-> e[i]]
  <1>1. q \in Seq({e[i] : i \in 1 .. n}) /\ Len(q) = n /\ \A i \in 1 .. n : q[i] = e[i]
    OBVIOUS
  <1> HIDE DEF q
  <1>2. FlattenSeq(q) = (CHOOSE h : h = [i \in 1 .. n |-> IF i = 1 THEN q[i] ELSE h[i - 1] \o q[i]])[n]
    <2>1. ~(Len(q) = 0)
      BY <1>1
    <2>2. FlattenSeq(q) = (CHOOSE h : h = [i \in 1 .. Len(q) |-> IF i = 1 THEN q[i] ELSE h[i - 1] \o q[i]])[Len(q)]
      BY <2>1, Zenon DEF FlattenSeq
    <2>3. QED
      BY <1>1, <2>2, Zenon
  <1>3. ASSUME NEW h
        PROVE  [i \in 1 .. n |-> IF i = 1 THEN q[i] ELSE h[i - 1] \o q[i]]
                 = [i \in 1 .. n |-> IF i = 1 THEN e[i] ELSE h[i - 1] \o e[i]]
    BY <1>1
  <1>4. (CHOOSE h : h = [i \in 1 .. n |-> IF i = 1 THEN q[i] ELSE h[i - 1] \o q[i]])
          = (CHOOSE h : FlatRun(h, e, n))
    BY <1>3, Zenon DEF FlatRun
  <1>5. QED
    BY <1>2, <1>4, Zenon DEF Flat, q

\* FlattenSeq puts one member behind the other.
LEMMA FlatSteps ==
  ASSUME NEW S, NEW N \in Nat, NEW e \in [1 .. N -> Seq(S)]
  PROVE  /\ Flat(e, 0) = <<>>
         /\ \A n \in 0 .. N : Flat(e, n) \in Seq(S)
         /\ \A n \in 0 .. N : n # N => Flat(e, n + 1) = Flat(e, n) \o e[n + 1]
  <1> DEFINE D == 0 .. N
             V == Seq(S)
             size == [i \in D |-> i]
             rest == [i \in D |-> IF i = 0 THEN 0 ELSE i - 1]
             comb == [i \in D |-> [v \in V |-> IF i = 0 THEN v ELSE v \o e[i]]]
  <1>1. Flat(e, 0) = <<>>
    <2> DEFINE q == [i \in 1 .. 0 |-> e[i]]
    <2>1. q = <<>> /\ Len(q) = 0
      OBVIOUS
    <2> HIDE DEF q
    <2>2. FlattenSeq(q) = q
      BY <2>1 DEF FlattenSeq
    <2>3. QED
      BY <2>1, <2>2 DEF Flat, q
  <1>2. IsRecursion(D, V, size, {0}, <<>>, rest, comb)
    <2>1. size \in [D -> Nat] /\ rest \in [D -> D] /\ {0} \in SUBSET D
      OBVIOUS
    <2>2. comb \in [D -> [V -> V]]
      <3>1. \A i \in D : \A v \in V : i # 0 => v \o e[i] \in V
        OBVIOUS
      <3> HIDE DEF V
      <3>2. QED
        BY <3>1
    <2>3. \A x \in D : x \notin {0} => size[rest[x]] < size[x]
      OBVIOUS
    <2>4. <<>> \in V
      OBVIOUS
    <2> HIDE DEF size, rest, comb, D, V
    <2>5. QED
      BY <2>1, <2>2, <2>3, <2>4 DEF IsRecursion
  <1>3. \A i \in D : i # 0 => rest[i] = i - 1 /\ i - 1 \in D /\ \A v \in V : comb[i][v] = v \o e[i]
    <2> HIDE DEF V
    <2>1. QED
      OBVIOUS
  <1> HIDE DEF size, rest, comb
  <1>4. PICK g \in [D -> V] : \A x \in D : g[x] = IF x \in {0} THEN <<>> ELSE comb[x][g[rest[x]]]
    <2> HIDE DEF D, V
    <2>1. QED
      BY <1>2, Recursion
  <1>5. g[0] = <<>> /\ \A i \in D : i # 0 => g[i] = g[i - 1] \o e[i] /\ g[i - 1] \in V
    <2>1. 0 \in D
      OBVIOUS
    <2> HIDE DEF D, V
    <2>2. QED
      BY <1>3, <1>4, <2>1
  <1>6. ASSUME NEW n \in D, n # 0 PROVE Flat(e, n) = g[n]
    <2> DEFINE k == [i \in 1 .. n |-> g[i]]
               h == CHOOSE h : FlatRun(h, e, n)
    <2>1. n \in Nat /\ n <= N
      OBVIOUS
    <2>2. g[1] = e[1]
      <3>1. 1 \in D /\ 1 # 0 /\ 1 - 1 = 0 /\ e[1] \in Seq(S)
        BY <1>6, <2>1
      <3>2. g[1] = <<>> \o e[1]
        BY <1>5, <3>1
      <3>3. QED
        BY <3>1, <3>2, ConcatEmptySeq
    <2>3. FlatRun(k, e, n)
      <3>1. ASSUME NEW i \in 1 .. n PROVE g[i] = IF i = 1 THEN e[i] ELSE k[i - 1] \o e[i]
        <4>1. CASE i = 1
          BY <2>2, <4>1
        <4>2. CASE i # 1
          <5>1. i \in D /\ i # 0 /\ i - 1 \in 1 .. n
            BY <2>1, <4>2
          <5>2. g[i] = g[i - 1] \o e[i] /\ k[i - 1] = g[i - 1]
            BY <1>5, <5>1
          <5>3. QED
            BY <4>2, <5>2
        <4>3. QED
          BY <4>1, <4>2
      <3>2. QED
        BY <3>1 DEF FlatRun
    <2>4. FlatRun(h, e, n)
      BY <2>3
    <2> HIDE DEF h, k
    <2>5. \A i \in 1 .. n : h[i] = IF i = 1 THEN e[i] ELSE h[i - 1] \o e[i]
      BY <2>4 DEF FlatRun
    <2> DEFINE Z == {i \in Nat : i + 1 \in 1 .. n => h[i + 1] = g[i + 1]}
    <2>6. 0 \in Z
      BY <2>1, <2>2, <2>5
    <2>7. ASSUME NEW i \in Nat, i \in Z PROVE i + 1 \in Z
      <3>1. CASE (i + 1) + 1 \in 1 .. n
        <4> DEFINE j == (i + 1) + 1
        <4>1. j \in 1 .. n /\ j \in D /\ j # 0 /\ j # 1 /\ j - 1 = i + 1 /\ i + 1 \in 1 .. n
          BY <2>1, <3>1
        <4>2. h[j - 1] = g[j - 1]
          BY <2>7, <4>1
        <4> HIDE DEF j
        <4>3. h[j] = h[j - 1] \o e[j] /\ g[j] = g[j - 1] \o e[j]
          BY <1>5, <2>5, <4>1
        <4>4. h[j] = g[j]
          BY <4>2, <4>3
        <4>5. QED
          BY <4>4 DEF j
      <3>2. QED
        BY <3>1
    <2> HIDE DEF Z
    <2>8. \A i \in Nat : i \in Z
      BY <2>6, <2>7, InductiveSet
    <2>9. h[n] = g[n]
      <3>1. n - 1 \in Nat /\ (n - 1) + 1 = n /\ n \in 1 .. n
        BY <1>6, <2>1
      <3>2. QED
        BY <2>8, <3>1 DEF Z
    <2>10. QED
      BY <1>6, <2>1, <2>9, FlatIsRun DEF h
  <1>7. \A n \in D : Flat(e, n) = g[n]
    BY <1>1, <1>5, <1>6
  <1>8. \A n \in D : Flat(e, n) \in V
    BY <1>7
  <1>9. ASSUME NEW n \in D, n # N PROVE Flat(e, n + 1) = Flat(e, n) \o e[n + 1]
    <2> DEFINE m == n + 1
    <2>1. m \in D /\ m # 0 /\ m - 1 = n
      BY <1>9
    <2> HIDE DEF m
    <2>2. g[m] = g[n] \o e[m]
      BY <1>5, <2>1
    <2>3. Flat(e, m) = Flat(e, n) \o e[m]
      BY <1>7, <2>1, <2>2
    <2>4. QED
      BY <2>3 DEF m
  <1>10. QED
    BY <1>1, <1>8, <1>9

\* The cells of t behind the first a, up to the first m.
Slice(t, a, m) == SubSeq(t, a + 1, m)

\* The cells of t from behind a up to m.
LEMMA SliceCells ==
  ASSUME NEW t \in Seq(Cell), NEW a \in 0 .. Len(t), NEW m \in a .. Len(t)
  PROVE  /\ Slice(t, a, m) \in Seq(Cell) /\ Len(Slice(t, a, m)) = m - a
         /\ \A i \in 1 .. m - a : Slice(t, a, m)[i] = t[a + i]
  <1>1. Len(t) \in Nat /\ a \in Nat /\ m \in Nat /\ a <= m /\ m <= Len(t)
    OBVIOUS
  <1>2. \A i \in a + 1 .. m : t[i] \in Cell
    BY <1>1, ElementOfSeq
  <1>3. /\ SubSeq(t, a + 1, m) \in Seq(Cell)
        /\ Len(SubSeq(t, a + 1, m)) = IF a + 1 <= m THEN m - (a + 1) + 1 ELSE 0
        /\ \A i \in 1 .. m - (a + 1) + 1 : SubSeq(t, a + 1, m)[i] = t[(a + 1) + i - 1]
    <2> DEFINE c == a + 1
    <2>1. c \in Int /\ m \in Int /\ \A i \in c .. m : t[i] \in Cell
      BY <1>1, <1>2
    <2> HIDE DEF c
    <2>2. /\ SubSeq(t, c, m) \in Seq(Cell)
          /\ Len(SubSeq(t, c, m)) = IF c <= m THEN m - c + 1 ELSE 0
          /\ \A i \in 1 .. m - c + 1 : SubSeq(t, c, m)[i] = t[c + i - 1]
      BY <2>1, SubSeqProperties
    <2>3. QED
      BY <2>2 DEF c
  <1>4. ASSUME NEW i \in 1 .. m - a PROVE SubSeq(t, a + 1, m)[i] = t[a + i]
    <2>1. i \in 1 .. m - (a + 1) + 1 /\ (a + 1) + i - 1 = a + i
      BY <1>1
    <2>2. QED
      BY <1>3, <2>1, Zenon
  <1>5. Len(SubSeq(t, a + 1, m)) = m - a
    BY <1>1, <1>3
  <1>6. QED
    BY <1>3, <1>4, <1>5 DEF Slice

\* Two slices side by side.
LEMMA SliceJoins ==
  ASSUME NEW t \in Seq(Cell), NEW a \in 0 .. Len(t), NEW b \in a .. Len(t), NEW m \in b .. Len(t)
  PROVE  Slice(t, a, m) = Slice(t, a, b) \o Slice(t, b, m)
  <1> DEFINE x == Slice(t, a, b)
             y == Slice(t, b, m)
             z == Slice(t, a, m)
  <1>1. Len(t) \in Nat /\ a \in Nat /\ b \in Nat /\ m \in Nat /\ a <= b /\ b <= m /\ m <= Len(t)
    OBVIOUS
  <1>2. x \in Seq(Cell) /\ Len(x) = b - a /\ \A i \in 1 .. b - a : x[i] = t[a + i]
    BY <1>1, SliceCells
  <1>3. y \in Seq(Cell) /\ Len(y) = m - b /\ \A i \in 1 .. m - b : y[i] = t[b + i]
    BY <1>1, SliceCells
  <1>4. z \in Seq(Cell) /\ Len(z) = m - a /\ \A i \in 1 .. m - a : z[i] = t[a + i]
    <2>1. m \in a .. Len(t)
      BY <1>1
    <2>2. QED
      BY <2>1, SliceCells
  <1> HIDE DEF x, y, z
  <1>5. /\ x \o y \in Seq(Cell) /\ Len(x \o y) = Len(x) + Len(y)
        /\ \A i \in 1 .. Len(x) + Len(y) : (x \o y)[i] = IF i <= Len(x) THEN x[i] ELSE y[i - Len(x)]
    <2>1. x \in Seq(Cell) /\ y \in Seq(Cell)
      BY <1>2, <1>3
    <2>2. QED
      BY <2>1, ConcatProperties
  <1>6. ASSUME NEW i \in 1 .. m - a PROVE z[i] = (x \o y)[i]
    <2>1. CASE i <= b - a
      BY <1>1, <1>2, <1>3, <1>4, <1>5, <2>1
    <2>2. CASE ~(i <= b - a)
      <3> DEFINE j == i - (b - a)
      <3>1. j \in 1 .. m - b /\ b + j = a + i /\ i \in 1 .. Len(x) + Len(y)
        BY <1>1, <1>2, <1>3, <2>2
      <3>2. (x \o y)[i] = y[i - Len(x)] /\ i - Len(x) = j
        BY <1>2, <1>5, <2>2, <3>1
      <3> HIDE DEF j
      <3>3. y[j] = t[b + j] /\ z[i] = t[a + i]
        BY <1>3, <1>4, <3>1
      <3>4. QED
        BY <3>1, <3>2, <3>3
    <2>3. QED
      BY <2>1, <2>2
  <1>7. Len(z) = Len(x \o y) /\ \A i \in 1 .. Len(z) : z[i] = (x \o y)[i]
    BY <1>1, <1>2, <1>3, <1>4, <1>5, <1>6
  <1>8. z = x \o y
    BY <1>4, <1>5, <1>7, SeqEqual
  <1>9. QED
    BY <1>8 DEF x, y, z

\* A set of numbers that has with each of them the smaller ones.
LEMMA InitialSegment ==
  ASSUME NEW N \in Nat, NEW A \in SUBSET (1 .. N), \A i \in A : \A j \in 1 .. i : j \in A
  PROVE  \E K \in 0 .. N : A = 1 .. K /\ Cardinality(A) = K
  <1> DEFINE B == {k \in Nat : k + 1 \notin A}
  <1>1. N \in B /\ B \subseteq Nat
    OBVIOUS
  <1> HIDE DEF B
  <1>2. PICK K \in B : \A k \in B : K <= k
    BY <1>1, LeastElement
  <1>3. K \in Nat /\ K <= N /\ K + 1 \notin A
    BY <1>1, <1>2 DEF B
  <1>4. ASSUME NEW j \in 1 .. K PROVE j \in A
    <2>1. j - 1 \in Nat /\ j - 1 < K /\ (j - 1) + 1 = j
      BY <1>3
    <2>2. j - 1 \notin B
      BY <1>2, <1>3, <2>1
    <2>3. QED
      BY <2>1, <2>2 DEF B
  <1>5. ASSUME NEW i \in A PROVE i \in 1 .. K
    <2>1. i \in 1 .. N
      OBVIOUS
    <2>2. ASSUME i > K PROVE FALSE
      <3>1. K + 1 \in 1 .. i
        BY <1>3, <2>1, <2>2
      <3>2. QED
        BY <1>3, <3>1
    <2>3. QED
      BY <1>3, <2>1, <2>2
  <1>6. A = 1 .. K
    BY <1>4, <1>5
  <1>7. Cardinality(1 .. K) = K
    <2>1. Cardinality(1 .. K) = IF 1 > K THEN 0 ELSE K - 1 + 1
      BY <1>3, FS_Interval
    <2>2. QED
      BY <1>3, <2>1
  <1>8. QED
    BY <1>3, <1>6, <1>7

\* The stream t is N items that end at L[1], L[2], ...  A pass finds fr[k] in
\* item k when it is there whole, nothing in a part of it, and nothing any
\* more from an item on that halts it.
Itemised(t, N, L, F, V, fr, halt) ==
  /\ t \in Seq(Cell) /\ N \in Nat /\ L \in [0 .. N -> Nat] /\ L[0] = 0 /\ L[N] = Len(t)
  /\ \A k \in 1 .. N : L[k - 1] <= L[k] /\ L[k] <= Len(t)
  /\ F \in [Seq(Cell) -> Seq(V)] /\ F[<<>>] = <<>>
  /\ fr \in [1 .. N -> Seq(V)]
  /\ \A k \in 1 .. N : \A m \in L[k - 1] .. Len(t) :
       F[Slice(t, L[k - 1], m)] =
         IF k \in halt \/ m < L[k] THEN <<>> ELSE fr[k] \o F[Slice(t, L[k], m)]

\* Then it finds in the first m cells what is in the items that are there
\* whole, up to the first that halts it.
LEMMA ItemByItem ==
  ASSUME NEW t, NEW N, NEW L, NEW F, NEW V, NEW fr, NEW halt, Itemised(t, N, L, F, V, fr, halt),
         NEW m \in 0 .. Len(t)
  PROVE  F[SubSeq(t, 1, m)] =
           Flat(fr, Cardinality({i \in 1 .. N : L[i] <= m /\ \A j \in 1 .. i : j \notin halt}))
  <1> DEFINE A == {i \in 1 .. N : L[i] <= m /\ \A j \in 1 .. i : j \notin halt}
  <1>1. /\ t \in Seq(Cell) /\ N \in Nat /\ L \in [0 .. N -> Nat] /\ L[0] = 0 /\ L[N] = Len(t)
        /\ \A k \in 1 .. N : L[k - 1] <= L[k] /\ L[k] <= Len(t)
        /\ F \in [Seq(Cell) -> Seq(V)] /\ F[<<>>] = <<>>
        /\ fr \in [1 .. N -> Seq(V)]
    BY DEF Itemised
  <1>2. \A k \in 1 .. N : \A n \in L[k - 1] .. Len(t) :
          F[Slice(t, L[k - 1], n)] =
            IF k \in halt \/ n < L[k] THEN <<>> ELSE fr[k] \o F[Slice(t, L[k], n)]
    BY DEF Itemised
  <1>3. Len(t) \in Nat /\ m \in Nat /\ m <= Len(t)
    BY <1>1
  <1>4. \A k \in 0 .. N : L[k] \in Nat /\ L[k] <= Len(t)
    BY <1>1
  <1>5. \A i \in A : \A j \in 1 .. i : j \in A
    <2> SUFFICES ASSUME NEW i \in A, NEW j \in 1 .. i PROVE j \in A
      OBVIOUS
    <2> DEFINE S == {d \in Nat : i - d >= 1 => i - d \in A}
    <2>1. i \in 1 .. N /\ L[i] <= m /\ \A h \in 1 .. i : h \notin halt
      OBVIOUS
    <2>2. 0 \in S
      BY <2>1
    <2>3. ASSUME NEW d \in Nat, d \in S PROVE d + 1 \in S
      <3>1. CASE i - (d + 1) >= 1
        <4> DEFINE k == i - d
        <4>1. k - 1 = i - (d + 1) /\ k \in 1 .. N /\ k - 1 \in 1 .. N /\ k >= 1
          BY <1>1, <2>1, <3>1
        <4>2. k >= 1 => k \in A
          BY <2>3
        <4>3. k \in A
          BY <4>1, <4>2
        <4> HIDE DEF k
        <4>4. k \in 1 .. N /\ L[k] <= m /\ \A h \in 1 .. k : h \notin halt
          BY <4>3
        <4>5. L[k - 1] <= L[k] /\ L[k - 1] \in Nat /\ L[k] \in Nat
          <5>1. k \in 1 .. N /\ k - 1 \in 0 .. N /\ k \in 0 .. N
            BY <1>1, <4>1
          <5>2. L[k - 1] \in Nat /\ L[k] \in Nat
            BY <1>4, <5>1
          <5>3. L[k - 1] <= L[k]
            BY <1>1, <5>1
          <5>4. QED
            BY <5>2, <5>3
        <4>6. L[k - 1] <= m
          BY <1>3, <4>4, <4>5
        <4>7. \A h \in 1 .. k - 1 : h \notin halt
          BY <4>1, <4>4
        <4>8. k - 1 \in A
          BY <4>1, <4>6, <4>7
        <4>9. QED
          BY <4>1, <4>8
      <3>2. QED
        BY <3>1
    <2> HIDE DEF S
    <2>4. \A d \in Nat : d \in S
      BY <2>2, <2>3, InductiveSet
    <2>5. i - j \in Nat /\ i - (i - j) = j /\ j >= 1
      BY <2>1
    <2>6. QED
      BY <2>4, <2>5 DEF S
  <1>6. PICK K \in 0 .. N : A = 1 .. K /\ Cardinality(A) = K
    <2>1. A \in SUBSET (1 .. N)
      OBVIOUS
    <2> HIDE DEF A
    <2>2. QED
      BY <1>1, <1>5, <2>1, InitialSegment
  <1>a. K \in Nat /\ N \in Nat /\ K <= N
    BY <1>1
  <1>7. \A k \in 1 .. K : k \in 1 .. N /\ L[k] <= m /\ k \notin halt
    <2> SUFFICES ASSUME NEW k \in 1 .. K PROVE k \in 1 .. N /\ L[k] <= m /\ k \notin halt
      OBVIOUS
    <2>1. k \in A
      BY <1>6
    <2>2. k \in 1 .. N /\ L[k] <= m /\ \A j \in 1 .. k : j \notin halt
      BY <2>1
    <2>3. k \in 1 .. k
      BY <1>1, <2>2
    <2>4. QED
      BY <2>2, <2>3
  <1>8. \A k \in 0 .. K : L[k] \in 0 .. Len(t) /\ m \in L[k] .. Len(t)
    BY <1>1, <1>3, <1>4, <1>7, <1>a
  <1>9. /\ Flat(fr, 0) = <<>> /\ \A n \in 0 .. N : Flat(fr, n) \in Seq(V)
        /\ \A n \in 0 .. N : n # N => Flat(fr, n + 1) = Flat(fr, n) \o fr[n + 1]
    BY <1>1, FlatSteps
  <1>10. \A k \in 0 .. K : F[Slice(t, L[k], m)] \in Seq(V)
    BY <1>1, <1>8, SliceCells
  <1> DEFINE S == {k \in Nat : k <= K => F[Slice(t, 0, m)] = Flat(fr, k) \o F[Slice(t, L[k], m)]}
  <1>11. 0 \in S
    <2>1. F[Slice(t, L[0], m)] \in Seq(V) /\ L[0] = 0
      BY <1>1, <1>a, <1>10
    <2>2. <<>> \o F[Slice(t, L[0], m)] = F[Slice(t, L[0], m)]
      BY <2>1, ConcatEmptySeq
    <2>3. QED
      BY <1>9, <2>1, <2>2
  <1>12. ASSUME NEW k \in Nat, k \in S PROVE k + 1 \in S
    <2>1. ASSUME k + 1 <= K
          PROVE  F[Slice(t, 0, m)] = Flat(fr, k + 1) \o F[Slice(t, L[k + 1], m)]
      <3> DEFINE a == Flat(fr, k)
                 b == fr[k + 1]
                 c == F[Slice(t, L[k + 1], m)]
      <3>1. /\ k \in 0 .. K /\ k + 1 \in 1 .. K /\ k + 1 \in 0 .. K /\ k + 1 \in 1 .. N
            /\ (k + 1) - 1 = k /\ k \in 0 .. N /\ k # N
        BY <1>a, <2>1
      <3>2. ~(k + 1 \in halt) /\ ~(m < L[k + 1]) /\ m \in L[k] .. Len(t)
        BY <1>3, <1>4, <1>7, <1>8, <3>1
      <3>3. F[Slice(t, L[k], m)] = b \o c
        BY <1>2, <3>1, <3>2
      <3>4. F[Slice(t, 0, m)] = a \o F[Slice(t, L[k], m)]
        BY <1>a, <1>12, <2>1
      <3>5. a \in Seq(V) /\ b \in Seq(V) /\ c \in Seq(V) /\ Flat(fr, k + 1) = a \o b
        BY <1>1, <1>9, <1>10, <3>1
      <3> HIDE DEF a, b, c
      <3>6. (a \o b) \o c = a \o (b \o c)
        <4>1. a \in Seq(V) /\ b \in Seq(V) /\ c \in Seq(V)
          BY <3>5
        <4>2. QED
          BY <4>1, ConcatAssociative
      <3>7. F[Slice(t, 0, m)] = Flat(fr, k + 1) \o c
        BY <3>3, <3>4, <3>5, <3>6, Zenon
      <3>8. QED
        BY <3>7 DEF c
    <2>2. k + 1 <= K => F[Slice(t, 0, m)] = Flat(fr, k + 1) \o F[Slice(t, L[k + 1], m)]
      BY <2>1
    <2>3. k + 1 \in Nat
      OBVIOUS
    <2>4. QED
      BY <2>2, <2>3, Zenon
  <1> HIDE DEF S
  <1>13. F[Slice(t, 0, m)] = Flat(fr, K) \o F[Slice(t, L[K], m)]
    <2>1. K \in S
      BY <1>a, <1>11, <1>12, InductiveSet
    <2>2. QED
      BY <1>a, <2>1 DEF S
  <1>14. F[Slice(t, L[K], m)] = <<>>
    <2>1. CASE K = N
      <3>1. m = L[K]
        BY <1>1, <1>3, <1>8, <2>1
      <3>2. Slice(t, L[K], m) = <<>>
        BY <1>3, <3>1, SubSeqEmpty DEF Slice
      <3>3. QED
        BY <1>1, <3>2
    <2>2. CASE K # N
      <3>a. K + 1 \in 1 .. N /\ (K + 1) - 1 = K /\ K + 1 \notin 1 .. K /\ K \in 0 .. K
        BY <1>a, <2>2
      <3>1. K + 1 \in 1 .. N /\ (K + 1) - 1 = K /\ K + 1 \notin 1 .. K /\ m \in L[K] .. Len(t)
        BY <1>8, <3>a
      <3>2. K + 1 \notin A
        BY <1>6, <3>1
      <3>3. K + 1 \in halt \/ m < L[K + 1]
        <4>1. ASSUME K + 1 \notin halt PROVE \A j \in 1 .. K + 1 : j \notin halt
          BY <1>7, <1>a, <4>1
        <4>2. ~(L[K + 1] <= m) => m < L[K + 1]
          BY <1>3, <1>4, <3>1
        <4>3. QED
          BY <3>1, <3>2, <4>1, <4>2
      <3>4. QED
        BY <1>2, <3>1, <3>3
    <2>3. QED
      BY <2>1, <2>2
  <1>15. Flat(fr, K) \o <<>> = Flat(fr, K)
    <2>1. Flat(fr, K) \in Seq(V)
      BY <1>9
    <2>2. QED
      BY <2>1, ConcatEmptySeq
  <1>16. Slice(t, 0, m) = SubSeq(t, 1, m)
    BY DEF Slice
  <1>17. QED
    BY <1>6, <1>13, <1>14, <1>15, <1>16, Zenon
-----------------------------------------------------------------------------
\* The items of a stream

Stray(item) == \E n \in Noise : item = Dud(n)

\* Both loops take the item for a frame, and read it for what it is.
ReadWhole(item) ==
  /\ ~item.fatal /\ WholeFrame(item.cells)
  /\ DeserializeFrame(item.cells) = item.frame /\ PhoneDeserialize(item.cells) = Sees(item)

ItemTyped(item) ==
  /\ item.cells \in Seq(Cell) /\ item.frame \in Seq(Frames) /\ Sees(item) \in Seq(WellFormed)
  /\ item.fatal \in BOOLEAN

\* The frames a peer sends can be written and handed over.
LEMMA FramesWritable ==
  ASSUME NEW f \in Frames
  PROVE  /\ f.type \in MessageTypes /\ Writable(f) /\ f = [type |-> f.type, payload |-> f.payload]
         /\ f \in WellFormed
  <1>1. f \in [type : MessageTypes, payload : Seq(Cell)] /\ Len(f.payload) <= MAX_PAYLOAD_SIZE
    BY StreamAssumption
  <1>2. MessageTypes \subseteq Cell
    BY CodecAssumption
  <1>3. f.type \in MessageTypes /\ f.payload \in Seq(Cell) /\ f = [type |-> f.type, payload |-> f.payload]
    BY <1>1
  <1>4. f.type \in Cell
    BY <1>2, <1>3
  <1>5. f.payload \in {p \in Seq(Cell) : Len(p) <= MAX_PAYLOAD_SIZE}
    BY <1>1, <1>3
  <1>6. f \in WellFormed
    BY <1>3, <1>5 DEF WellFormed
  <1>7. QED
    BY <1>1, <1>3, <1>4, <1>6 DEF Writable

\* A frame as it was sent.
LEMMA IntactRead ==
  ASSUME NEW f \in Frames
  PROVE  LET item == Intact(f)
         IN  /\ WholeFrame(item.cells) /\ DeserializeFrame(item.cells) = item.frame
             /\ PhoneDeserialize(item.cells) = item.frame
             /\ ~item.fatal /\ item.frame \in Seq(Frames)
  <1> DEFINE d == SerializeFrame(f)
  <1>1. /\ f.type \in MessageTypes /\ Writable(f) /\ f = [type |-> f.type, payload |-> f.payload]
    BY FramesWritable
  <1>2. WholeFrame(d)
    BY <1>1, SerializeLayout
  <1>3. /\ DeserializeFrame(d) = IF f.type \in MessageTypes THEN <<f>> ELSE <<>>
        /\ PhoneDeserialize(d) = <<[type |-> TransportMessageType(f.type), payload |-> f.payload]>>
    BY <1>1, RoundTrip
  <1>4. DeserializeFrame(d) = <<f>>
    BY <1>1, <1>3
  <1>5. TransportMessageType(f.type) = f.type
    BY <1>1 DEF TransportMessageType
  <1>6. PhoneDeserialize(d) = <<f>>
    BY <1>1, <1>3, <1>5, Zenon
  <1>7. <<f>> \in Seq(Frames)
    OBVIOUS
  <1> HIDE DEF d
  <1>8. Intact(f) = [cells |-> d, frame |-> <<f>>, fatal |-> FALSE]
    BY DEF Intact, d
  <1>9. Intact(f).cells = d /\ Intact(f).frame = <<f>> /\ Intact(f).fatal = FALSE
    BY <1>8
  <1>10. QED
    BY <1>2, <1>4, <1>6, <1>7, <1>9

\* A frame with one cell changed.
LEMMA DamagedRead ==
  ASSUME NEW f \in Frames, NEW item \in Damaged(f)
  PROVE  /\ WholeFrame(item.cells) /\ DeserializeFrame(item.cells) = item.frame
         /\ PhoneDeserialize(item.cells) = item.frame
         /\ ~item.fatal /\ item.frame = <<>>
  <1> DEFINE c == SerializeFrame(f)
             p == Max(Cell) + 1
  <1>1. Writable(f)
    BY FramesWritable
  <1>2. WholeFrame(c)
    BY <1>1, SerializeLayout
  <1>3. PICK j \in HeaderLen .. Len(c) : item = Dud([c EXCEPT ![j] = (@ + 1) % p])
    BY DEF Damaged
  <1>4. c \in Seq(Cell) /\ Len(c) \in Nat /\ HeaderLen \in Nat /\ HeaderLen >= 1
    BY <1>2, Lengths DEF WholeFrame
  <1>5. j \in 1 .. Len(c)
    BY <1>4
  <1>6. c[j] \in Cell
    BY <1>4, <1>5, ElementOfSeq
  <1> DEFINE x == (c[j] + 1) % p
  <1>7. c[j] \in Nat /\ c[j] <= Max(Cell) /\ Max(Cell) \in Nat
    BY <1>6, CodecAssumption
  <1>8. x \in Cell
    <2>1. c[j] + 1 \in Nat
      BY <1>7
    <2>2. QED
      BY <2>1, CellOfMod
  <1>9. x # c[j]
    <2> DEFINE v == c[j]
               M == Max(Cell)
    <2>1. v \in Nat /\ v <= M /\ M \in Nat
      BY <1>7
    <2> HIDE DEF v, M
    <2>2. CASE v = M
      <3>1. (M + 1) % (M + 1) = 0
        BY <2>1
      <3>2. CASE M # 0
        BY <2>1, <2>2, <3>1, <3>2 DEF v, M
      <3>3. CASE M = 0
        BY <3>3, CodecAssumption DEF M
      <3>4. QED
        BY <3>2, <3>3
    <2>3. CASE v # M
      <3>1. (v + 1) % (M + 1) = v + 1
        BY <2>1, <2>3
      <3>2. QED
        BY <2>1, <3>1 DEF v, M
    <2>4. QED
      BY <2>2, <2>3
  <1> DEFINE d == [c EXCEPT ![j] = x]
  <1>10. item = Dud(d)
    BY <1>3
  <1>11. WholeFrame(d) /\ DeserializeFrame(d) = <<>> /\ PhoneDeserialize(d) = <<>>
    <2> HIDE DEF x
    <2>1. QED
      BY <1>1, <1>8, <1>9, DamageDetected
  <1> HIDE DEF d
  <1>12. item.cells = d /\ item.frame = <<>> /\ item.fatal = FALSE
    BY <1>10 DEF Dud
  <1>13. QED
    BY <1>11, <1>12

\* A frame of an unknown type.
LEMMA MistypedRead ==
  ASSUME NEW f \in Frames
  PROVE  LET item == Mistyped(f)
         IN  /\ WholeFrame(item.cells) /\ DeserializeFrame(item.cells) = item.frame
             /\ PhoneDeserialize(item.cells) =
                  <<[type |-> ErrorType, payload |-> SubSeq(item.cells, HeaderLen + 1, Len(item.cells) - 1)]>>
             /\ PhoneDeserialize(item.cells) \in Seq(WellFormed)
             /\ ~item.fatal /\ item.frame = <<>>
  <1> DEFINE g == [f EXCEPT !.type = BadType]
  <1>1. /\ f.type \in MessageTypes /\ Writable(f) /\ f = [type |-> f.type, payload |-> f.payload]
    BY FramesWritable
  <1>2. BadType \in Cell /\ BadType \notin MessageTypes
    BY StreamAssumption
  <1>3. g = [type |-> BadType, payload |-> f.payload]
    BY <1>1
  <1>4. g.type = BadType /\ g.payload = f.payload
    BY <1>3
  <1> HIDE DEF g
  <1>5. Writable(g) /\ g = [type |-> g.type, payload |-> g.payload]
    BY <1>1, <1>2, <1>3, <1>4 DEF Writable
  <1> DEFINE d == SerializeFrame(g)
  <1>6. WholeFrame(d)
    BY <1>5, SerializeLayout
  <1>7. /\ DeserializeFrame(d) = IF g.type \in MessageTypes THEN <<g>> ELSE <<>>
        /\ PhoneDeserialize(d) = <<[type |-> TransportMessageType(g.type), payload |-> g.payload]>>
    BY <1>5, RoundTrip
  <1>8. DeserializeFrame(d) = <<>>
    BY <1>2, <1>4, <1>7
  <1>9. TransportMessageType(g.type) = ErrorType
    BY <1>2, <1>4 DEF TransportMessageType
  <1>10. SubSeq(d, HeaderLen + 1, Len(d) - 1) = g.payload
    BY <1>5, PayloadReadBack
  <1> HIDE DEF d
  <1>11. PhoneDeserialize(d) = <<[type |-> ErrorType, payload |-> SubSeq(d, HeaderLen + 1, Len(d) - 1)]>>
    BY <1>7, <1>9, <1>10, Zenon
  <1>12. PhoneDeserialize(d) \in Seq(WellFormed)
    <2> DEFINE e == [type |-> ErrorType, payload |-> g.payload]
    <2>1. ErrorType \in MessageTypes
      BY ErrorAssumption
    <2>2. g.payload \in {q \in Seq(Cell) : Len(q) <= MAX_PAYLOAD_SIZE}
      BY <1>5 DEF Writable
    <2>3. e \in WellFormed
      BY <2>1, <2>2 DEF WellFormed
    <2>4. PhoneDeserialize(d) = <<e>>
      BY <1>7, <1>9, Zenon
    <2> HIDE DEF e
    <2>5. <<e>> \in Seq(WellFormed)
      BY <2>3
    <2>6. QED
      BY <2>4, <2>5
  <1>13. Mistyped(f) = Dud(d)
    BY DEF Mistyped, d, g
  <1>14. Mistyped(f).cells = d /\ Mistyped(f).frame = <<>> /\ Mistyped(f).fatal = FALSE
    BY <1>13 DEF Dud
  <1>15. QED
    BY <1>6, <1>8, <1>11, <1>12, <1>14

\* A header that announces too much.
LEMMA OversizedCells ==
  ASSUME NEW n \in BadLengths
  PROVE  LET d == Oversized(n).cells
         IN  /\ d \in Seq(Cell) /\ Len(d) = HeaderLen /\ d[MagicLen + 1] = n
             /\ HasMagic(d) /\ n \in Cell /\ n > MAX_PAYLOAD_SIZE
             /\ Oversized(n).frame = <<>> /\ Oversized(n).fatal = TRUE
  <1> DEFINE x == Min(MessageTypes)
             q == <<n, x>>
             d == FRAME_MAGIC \o q
  <1>1. n \in Cell /\ n > MAX_PAYLOAD_SIZE
    BY StreamAssumption
  <1>2. x \in MessageTypes
    <2>1. MessageTypes \subseteq Nat /\ MessageTypes # {}
      BY CodecAssumption
    <2>2. \E m \in MessageTypes : \A k \in MessageTypes : m <= k
      BY <2>1, LeastElement
    <2>3. QED
      BY <2>2 DEF Min
  <1>3. x \in Cell
    BY <1>2, CodecAssumption
  <1> HIDE DEF x
  <1>4. q \in Seq(Cell) /\ Len(q) = 2 /\ q[1] = n
    BY <1>1, <1>3
  <1>5. FRAME_MAGIC \in Seq(Cell) /\ Len(FRAME_MAGIC) = MagicLen
    BY CodecAssumption DEF MagicLen
  <1> HIDE DEF q
  <1>6. /\ d \in Seq(Cell) /\ Len(d) = Len(FRAME_MAGIC) + Len(q)
        /\ \A i \in 1 .. Len(FRAME_MAGIC) + Len(q) :
             d[i] = IF i <= Len(FRAME_MAGIC) THEN FRAME_MAGIC[i] ELSE q[i - Len(FRAME_MAGIC)]
    <2>1. FRAME_MAGIC \in Seq(Cell) /\ q \in Seq(Cell)
      BY <1>4, <1>5
    <2>2. QED
      BY <2>1, ConcatProperties
  <1>7. HasMagic(d)
    <2>1. FRAME_MAGIC \in Seq(Cell) /\ q \in Seq(Cell)
      BY <1>4, <1>5
    <2>2. Len(FRAME_MAGIC) \in 0 .. Len(FRAME_MAGIC)
      BY <2>1
    <2>3. SubSeq(FRAME_MAGIC \o q, 1, Len(FRAME_MAGIC)) = SubSeq(FRAME_MAGIC, 1, Len(FRAME_MAGIC))
      BY <2>1, <2>2, CutOfConcat
    <2>4. SubSeq(FRAME_MAGIC, 1, Len(FRAME_MAGIC)) = FRAME_MAGIC
      BY <2>1, SubSeqFull
    <2>5. Len(FRAME_MAGIC) <= Len(d)
      BY <1>4, <1>5, <1>6, Lengths
    <2>6. QED
      BY <2>3, <2>4, <2>5 DEF HasMagic, IsPrefix
  <1> HIDE DEF d
  <1>8. Len(d) = HeaderLen
    BY <1>4, <1>5, <1>6, Lengths
  <1>9. d[MagicLen + 1] = n
    <2> DEFINE i == MagicLen + 1
    <2>1. i \in 1 .. Len(FRAME_MAGIC) + Len(q) /\ ~(i <= Len(FRAME_MAGIC)) /\ i - Len(FRAME_MAGIC) = 1
      BY <1>4, <1>5, Lengths
    <2> HIDE DEF i
    <2>2. d[i] = q[i - Len(FRAME_MAGIC)]
      BY <1>6, <2>1
    <2>3. d[i] = n
      BY <1>4, <2>1, <2>2
    <2>4. QED
      BY <2>3 DEF i
  <1>10. Oversized(n) = [cells |-> d, frame |-> <<>>, fatal |-> TRUE]
    BY DEF Oversized, d, q, x
  <1>11. Oversized(n).cells = d /\ Oversized(n).frame = <<>> /\ Oversized(n).fatal = TRUE
    BY <1>10
  <1>12. QED
    BY <1>1, <1>6, <1>7, <1>8, <1>9, <1>11

\* Every item is read whole, or it is stray cells or a bad header.
LEMMA ItemKinds ==
  ASSUME NEW item \in Items
  PROVE  /\ ItemTyped(item)
         /\ ReadWhole(item) \/ Stray(item) \/ \E n \in BadLengths : item = Oversized(n)
         /\ item.fatal => \E n \in BadLengths : item = Oversized(n)
         /\ Stray(item) => ~item.fatal /\ item.frame = <<>> /\ \E n \in Noise : item.cells = n
  <1> DEFINE mistyped == {Mistyped(f) : f \in Frames}
             e == [type |-> ErrorType, payload |-> SubSeq(item.cells, HeaderLen + 1, Len(item.cells) - 1)]
  <1>1. <<>> \in Seq(Frames) /\ <<>> \in Seq(WellFormed)
    OBVIOUS
  <1>2. Sees(item) = IF item \in mistyped THEN <<e>> ELSE item.frame
    BY DEF Sees
  <1>3. \A s \in Seq(Frames) : s \in Seq(WellFormed)
    <2> SUFFICES ASSUME NEW s \in Seq(Frames) PROVE s \in Seq(WellFormed)
      OBVIOUS
    <2>1. \A i \in 1 .. Len(s) : s[i] \in Frames
      BY ElementOfSeq
    <2>2. \A i \in 1 .. Len(s) : s[i] \in WellFormed
      BY <2>1, FramesWritable
    <2>3. Len(s) \in Nat /\ s = [i \in 1 .. Len(s) |-> s[i]]
      BY LenProperties
    <2>4. QED
      BY <2>2, <2>3
  <1>4. CASE item \in mistyped
    <2>1. PICK f \in Frames : item = Mistyped(f)
      BY <1>4
    <2>2. /\ WholeFrame(item.cells) /\ DeserializeFrame(item.cells) = item.frame
          /\ PhoneDeserialize(item.cells) = <<e>>
          /\ PhoneDeserialize(item.cells) \in Seq(WellFormed)
          /\ ~item.fatal /\ item.frame = <<>>
      BY <2>1, MistypedRead
    <2>3. item.fatal \in BOOLEAN
      BY <2>1 DEF Mistyped, Dud
    <2> HIDE DEF e
    <2>4. PhoneDeserialize(item.cells) = Sees(item)
      BY <1>2, <1>4, <2>2
    <2>5. ReadWhole(item)
      BY <2>2, <2>4 DEF ReadWhole
    <2>6. item.cells \in Seq(Cell)
      BY <2>2 DEF WholeFrame
    <2>7. ItemTyped(item)
      BY <1>1, <2>2, <2>3, <2>4, <2>6 DEF ItemTyped
    <2>8. Stray(item) => \E n \in Noise : item.cells = n
      BY DEF Stray, Dud
    <2>9. QED
      BY <2>2, <2>5, <2>7, <2>8
  <1>5. CASE item \notin mistyped
    <2>1. Sees(item) = item.frame
      BY <1>2, <1>5
    <2>2. ASSUME WholeFrame(item.cells), DeserializeFrame(item.cells) = item.frame,
                 PhoneDeserialize(item.cells) = item.frame,
                 ~item.fatal, item.fatal \in BOOLEAN, item.frame \in Seq(Frames)
          PROVE  ItemTyped(item) /\ ReadWhole(item) /\ ~item.fatal
      <3>1. item.cells \in Seq(Cell)
        BY <2>2 DEF WholeFrame
      <3>2. ReadWhole(item)
        BY <2>1, <2>2 DEF ReadWhole
      <3>3. item.frame \in Seq(WellFormed)
        BY <1>3, <2>2
      <3>4. QED
        BY <2>1, <2>2, <3>1, <3>2, <3>3 DEF ItemTyped
    <2>3. Stray(item) => \E n \in Noise : item.cells = n /\ item.frame = <<>>
      BY DEF Stray, Dud
    <2>4. CASE \E f \in Frames : item = Intact(f)
      <3>1. PICK f \in Frames : item = Intact(f)
        BY <2>4
      <3>2. item.fatal \in BOOLEAN
        BY <3>1 DEF Intact
      <3>3. ItemTyped(item) /\ ReadWhole(item) /\ ~item.fatal
        BY <2>2, <3>1, <3>2, IntactRead
      <3>4. QED
        BY <2>3, <3>3
    <2>5. CASE \E f \in Frames : item \in Damaged(f)
      <3>1. PICK f \in Frames : item \in Damaged(f)
        BY <2>5
      <3>2. item.fatal \in BOOLEAN
        <4>1. \E c : item = Dud(c)
          BY <3>1, Zenon DEF Damaged
        <4>2. QED
          BY <4>1 DEF Dud
      <3>3. ItemTyped(item) /\ ReadWhole(item) /\ ~item.fatal
        BY <1>1, <2>2, <3>1, <3>2, DamagedRead
      <3>4. QED
        BY <2>3, <3>3
    <2>6. CASE Stray(item)
      <3>1. PICK n \in Noise : item = Dud(n)
        BY <2>6 DEF Stray
      <3>2. item.cells = n /\ item.frame = <<>> /\ item.fatal = FALSE
        BY <3>1 DEF Dud
      <3>3. n \in Seq(Cell)
        BY StreamAssumption
      <3>4. ItemTyped(item)
        BY <1>1, <2>1, <3>2, <3>3 DEF ItemTyped
      <3>5. QED
        BY <2>6, <3>2, <3>4
    <2>7. CASE \E n \in BadLengths : item = Oversized(n)
      <3>1. PICK n \in BadLengths : item = Oversized(n)
        BY <2>7
      <3>2. item.cells \in Seq(Cell) /\ item.frame = <<>> /\ item.fatal = TRUE
        BY <3>1, OversizedCells
      <3>3. ~Stray(item)
        BY <3>2 DEF Stray, Dud
      <3>4. ItemTyped(item)
        BY <1>1, <2>1, <3>2 DEF ItemTyped
      <3>5. QED
        BY <2>7, <3>3, <3>4
    <2>8. \/ \E f \in Frames : item = Intact(f)
          \/ \E f \in Frames : item \in Damaged(f)
          \/ Stray(item)
          \/ \E n \in BadLengths : item = Oversized(n)
      <3>1. \/ item \in {Intact(f) : f \in Frames} \/ item \in UNION {Damaged(f) : f \in Frames}
            \/ item \in {Dud(n) : n \in Noise} \/ item \in {Oversized(n) : n \in BadLengths}
        <4> DEFINE I == {Intact(f) : f \in Frames}
                   D == UNION {Damaged(f) : f \in Frames}
                   U == {Dud(n) : n \in Noise}
                   O == {Oversized(n) : n \in BadLengths}
        <4>1. item \in I \cup D \cup mistyped \cup U \cup O
          BY DEF Items
        <4> HIDE DEF I, D, U, O, mistyped
        <4>2. item \in I \/ item \in D \/ item \in U \/ item \in O
          BY <1>5, <4>1
        <4>3. QED
          BY <4>2 DEF I, D, U, O
      <3>2. item \in UNION {Damaged(f) : f \in Frames} => \E f \in Frames : item \in Damaged(f)
        BY Zenon
      <3>3. item \in {Dud(n) : n \in Noise} => Stray(item)
        BY Zenon DEF Stray
      <3>4. QED
        BY <3>1, <3>2, <3>3, Zenon
    <2>9. QED
      BY <2>4, <2>5, <2>6, <2>7, <2>8
  <1>6. QED
    BY <1>4, <1>5

\* A slice from between two others.
LEMMA MiddleSlice ==
  ASSUME NEW x \in Seq(Cell), NEW y \in Seq(Cell), NEW z \in Seq(Cell)
  PROVE  /\ x \o (y \o z) \in Seq(Cell) /\ Len(x \o (y \o z)) = Len(x) + Len(y) + Len(z)
         /\ Slice(x \o (y \o z), Len(x), Len(x) + Len(y)) = y
  <1> DEFINE w == y \o z
             t == x \o w
  <1>1. /\ w \in Seq(Cell) /\ Len(w) = Len(y) + Len(z)
        /\ \A i \in 1 .. Len(y) + Len(z) : w[i] = IF i <= Len(y) THEN y[i] ELSE z[i - Len(y)]
    BY ConcatProperties
  <1> HIDE DEF w
  <1>2. w \in Seq(Cell)
    BY <1>1
  <1>3. /\ t \in Seq(Cell) /\ Len(t) = Len(x) + Len(w)
        /\ \A i \in 1 .. Len(x) + Len(w) : t[i] = IF i <= Len(x) THEN x[i] ELSE w[i - Len(x)]
    BY <1>2, ConcatProperties
  <1> HIDE DEF t
  <1>4. Len(x) \in Nat /\ Len(y) \in Nat /\ Len(z) \in Nat
    OBVIOUS
  <1> DEFINE a == Len(x)
             b == Len(x) + Len(y)
             s == Slice(t, a, b)
  <1>5. a \in 0 .. Len(t) /\ b \in a .. Len(t) /\ b - a = Len(y)
    BY <1>1, <1>3, <1>4
  <1>6. s \in Seq(Cell) /\ Len(s) = b - a /\ \A i \in 1 .. b - a : s[i] = t[a + i]
    <2> HIDE DEF a, b
    <2>1. t \in Seq(Cell)
      BY <1>3
    <2>2. QED
      BY <1>5, <2>1, SliceCells
  <1>7. ASSUME NEW i \in 1 .. Len(y) PROVE s[i] = y[i]
    <2>1. s[i] = t[a + i]
      BY <1>5, <1>6
    <2> DEFINE j == a + i
    <2>a. j \in 1 .. Len(x) + Len(w) /\ ~(j <= Len(x)) /\ j - Len(x) = i
      BY <1>1, <1>4
    <2> HIDE DEF j
    <2>b. t[j] = w[j - Len(x)]
      BY <1>3, <2>a
    <2>2. t[a + i] = w[i]
      BY <2>a, <2>b DEF j
    <2>3. w[i] = y[i]
      BY <1>1, <1>4
    <2>4. QED
      BY <2>1, <2>2, <2>3
  <1>8. s \in Seq(Cell) /\ Len(s) = Len(y)
    BY <1>5, <1>6
  <1> HIDE DEF s
  <1>9. s = y
    BY <1>7, <1>8, SeqEqual
  <1>10. Len(t) = Len(x) + Len(y) + Len(z)
    BY <1>1, <1>3, <1>4
  <1>11. QED
    BY <1>3, <1>9, <1>10 DEF s, t, w

\* A bounded sequence of items is a sequence of items.
LEMMA ItemsBounded ==
  ASSUME NEW its \in BoundedSeq(Items, MaxItems)
  PROVE  /\ Len(its) \in Nat /\ DOMAIN its = 1 .. Len(its)
         /\ \A i \in 1 .. Len(its) : its[i] \in Items
  <1>1. PICK n \in 0 .. MaxItems : its \in [1 .. n -> Items]
    BY DEF BoundedSeq, SeqOf
  <1>2. MaxItems \in Nat
    BY StreamAssumption
  <1>3. its \in Seq(Items) /\ Len(its) = n /\ n \in Nat
    BY <1>1, <1>2
  <1>4. QED
    BY <1>1, <1>3

\* Wire adds one item after the other.
LEMMA WireAdds ==
  ASSUME NEW its \in BoundedSeq(Items, MaxItems)
  PROVE  /\ Wire(its, 0) = <<>>
         /\ \A k \in 0 .. Len(its) : Wire(its, k) \in Seq(Cell)
         /\ \A k \in 0 .. Len(its) : k # Len(its) => Wire(its, k + 1) = Wire(its, k) \o its[k + 1].cells
         /\ \A k \in 1 .. Len(its) : its[k].cells \in Seq(Cell)
  <1> DEFINE N == Len(its)
             e == [i \in 1 .. N |-> its[i].cells]
  <1>1. N \in Nat /\ \A i \in 1 .. N : its[i] \in Items
    BY ItemsBounded
  <1> HIDE DEF N
  <1>2. \A i \in 1 .. N : its[i].cells \in Seq(Cell)
    BY <1>1, ItemKinds DEF ItemTyped
  <1>3. e \in [1 .. N -> Seq(Cell)] /\ \A i \in 1 .. N : e[i] = its[i].cells
    BY <1>2
  <1>4. ASSUME NEW n \in 0 .. N PROVE Wire(its, n) = Flat(e, n)
    <2>1. \A i \in 1 .. n : i \in 1 .. N
      BY <1>1
    <2>2. \A i \in 1 .. n : e[i] = its[i].cells
      BY <1>3, <2>1
    <2> HIDE DEF e
    <2>3. [i \in 1 .. n |-> its[i].cells] = [i \in 1 .. n |-> e[i]]
      BY <2>2
    <2>4. QED
      BY <2>3 DEF Wire, Flat
  <1> HIDE DEF e
  <1>5. /\ Flat(e, 0) = <<>>
        /\ \A n \in 0 .. N : Flat(e, n) \in Seq(Cell)
        /\ \A n \in 0 .. N : n # N => Flat(e, n + 1) = Flat(e, n) \o e[n + 1]
    BY <1>1, <1>3, FlatSteps
  <1>6. Wire(its, 0) = <<>> /\ \A k \in 0 .. N : Wire(its, k) \in Seq(Cell)
    BY <1>1, <1>4, <1>5
  <1>7. ASSUME NEW k \in 0 .. N, k # N PROVE Wire(its, k + 1) = Wire(its, k) \o its[k + 1].cells
    <2> DEFINE h == k + 1
    <2>1. h \in 0 .. N /\ h \in 1 .. N
      BY <1>1, <1>7
    <2>2. Flat(e, h) = Flat(e, k) \o e[h]
      BY <1>5, <1>7
    <2> HIDE DEF h
    <2>3. Wire(its, h) = Flat(e, h) /\ Wire(its, k) = Flat(e, k) /\ e[h] = its[h].cells
      BY <1>3, <1>4, <2>1
    <2>4. Wire(its, h) = Wire(its, k) \o its[h].cells
      BY <2>2, <2>3
    <2>5. QED
      BY <2>4 DEF h
  <1>8. QED
    BY <1>2, <1>6, <1>7 DEF N

\* What follows the first items on the wire.
LEMMA WirePrefix ==
  ASSUME NEW its \in BoundedSeq(Items, MaxItems), NEW k \in 0 .. Len(its)
  PROVE  \E r \in Seq(Cell) : Wire(its, Len(its)) = Wire(its, k) \o r
  <1> DEFINE N == Len(its)
             t == Wire(its, N)
             S == {d \in Nat : d <= N => \E r \in Seq(Cell) : t = Wire(its, N - d) \o r}
  <1>1. N \in Nat
    BY ItemsBounded
  <1>2. \A j \in 0 .. N : Wire(its, j) \in Seq(Cell)
    BY WireAdds
  <1>3. \A j \in 0 .. N : j # N => Wire(its, j + 1) = Wire(its, j) \o its[j + 1].cells
    BY WireAdds
  <1>4. \A j \in 1 .. N : its[j].cells \in Seq(Cell)
    BY WireAdds
  <1> HIDE DEF N
  <1>5. 0 \in S
    <2>1. N - 0 = N /\ t \in Seq(Cell) /\ <<>> \in Seq(Cell)
      BY <1>1, <1>2
    <2>2. t \o <<>> = t
      BY <2>1, ConcatEmptySeq
    <2>3. t = Wire(its, N - 0) \o <<>>
      BY <2>1, <2>2
    <2>4. QED
      BY <2>1, <2>3
  <1>6. ASSUME NEW d \in Nat, d \in S PROVE d + 1 \in S
    <2>1. ASSUME d + 1 <= N PROVE \E r \in Seq(Cell) : t = Wire(its, N - (d + 1)) \o r
      <3> DEFINE j == N - (d + 1)
                 c == its[j + 1].cells
                 x == Wire(its, j)
      <3>1. j \in 0 .. N /\ j # N /\ j + 1 = N - d /\ j + 1 \in 1 .. N /\ d <= N
        BY <1>1, <2>1
      <3>2. PICK r \in Seq(Cell) : t = Wire(its, N - d) \o r
        BY <1>6, <3>1
      <3> HIDE DEF j
      <3>3. Wire(its, N - d) = x \o c
        BY <1>3, <3>1
      <3>4. x \in Seq(Cell) /\ c \in Seq(Cell)
        BY <1>2, <1>4, <3>1
      <3> HIDE DEF x, c, t
      <3>5. (x \o c) \o r = x \o (c \o r) /\ c \o r \in Seq(Cell)
        <4>1. (x \o c) \o r = x \o (c \o r)
          BY <3>4, ConcatAssociative
        <4>2. c \o r \in Seq(Cell)
          BY <3>4, ConcatProperties
        <4>3. QED
          BY <4>1, <4>2
      <3>6. t = x \o (c \o r)
        BY <3>2, <3>3, <3>5
      <3>7. QED
        BY <3>5, <3>6 DEF x, j
    <2>2. d + 1 \in Nat
      OBVIOUS
    <2>3. QED
      BY <2>1, <2>2, Zenon
  <1> HIDE DEF S
  <1>7. N - k \in S /\ N - (N - k) = k /\ N - k <= N
    <2>1. N - k \in Nat /\ N - (N - k) = k /\ N - k <= N
      BY <1>1 DEF N
    <2>2. \A d \in Nat : d \in S
      BY <1>5, <1>6, InductiveSet
    <2>3. QED
      BY <2>1, <2>2
  <1>8. \E r \in Seq(Cell) : t = Wire(its, N - (N - k)) \o r
    BY <1>7 DEF S
  <1>9. QED
    BY <1>7, <1>8 DEF N

\* Where an item is on the wire.
LEMMA WireSlice ==
  ASSUME NEW its \in BoundedSeq(Items, MaxItems), NEW k \in 1 .. Len(its)
  PROVE  LET t == Wire(its, Len(its))
             a == Len(Wire(its, k - 1))
             b == Len(Wire(its, k))
         IN  /\ t \in Seq(Cell) /\ a \in 0 .. Len(t) /\ b \in a .. Len(t)
             /\ b = a + Len(its[k].cells) /\ its[k].cells \in Seq(Cell)
             /\ Slice(t, a, b) = its[k].cells
  <1> DEFINE N == Len(its)
             t == Wire(its, N)
             j == k - 1
             x == Wire(its, j)
             y == its[k].cells
  <1>1. N \in Nat
    BY ItemsBounded
  <1>2. j \in 0 .. N /\ j # N /\ j + 1 = k /\ k \in 0 .. N /\ k \in 1 .. N
    BY <1>1
  <1>3. t \in Seq(Cell)
    BY <1>1, WireAdds
  <1>4. x \in Seq(Cell) /\ y \in Seq(Cell)
    BY <1>2, WireAdds
  <1>5. Wire(its, j + 1) = Wire(its, j) \o its[j + 1].cells
    <2> HIDE DEF j
    <2>1. QED
      BY <1>2, WireAdds
  <1>6. Wire(its, k) = x \o y
    BY <1>2, <1>5
  <1>7. PICK z \in Seq(Cell) : t = Wire(its, k) \o z
    BY <1>2, WirePrefix
  <1> HIDE DEF t, x, y
  <1>8. (x \o y) \o z = x \o (y \o z)
    BY <1>4, ConcatAssociative
  <1>9. t = x \o (y \o z)
    BY <1>6, <1>7, <1>8
  <1>10. /\ Len(x \o (y \o z)) = Len(x) + Len(y) + Len(z)
         /\ Slice(x \o (y \o z), Len(x), Len(x) + Len(y)) = y
    BY <1>4, MiddleSlice
  <1>11. Len(x \o y) = Len(x) + Len(y)
    BY <1>4, ConcatProperties
  <1>12. Len(x) \in Nat /\ Len(y) \in Nat /\ Len(z) \in Nat
    BY <1>4
  <1>13. Len(t) = Len(x) + Len(y) + Len(z) /\ Slice(t, Len(x), Len(x) + Len(y)) = y
    BY <1>9, <1>10
  <1>14. Len(Wire(its, k)) = Len(x) + Len(y)
    BY <1>6, <1>11
  <1>15. Len(x) \in 0 .. Len(t) /\ Len(x) + Len(y) \in Len(x) .. Len(t)
    BY <1>12, <1>13
  <1>16. /\ Len(Wire(its, k)) \in Len(x) .. Len(t)
         /\ Slice(t, Len(x), Len(Wire(its, k))) = y
    BY <1>13, <1>14, <1>15
  <1>17. QED
    BY <1>3, <1>4, <1>14, <1>15, <1>16 DEF t, x, y, N, j

\* No frame begins in stray cells, nor inside a bad header.
LEMMA NoMagicInStray ==
  ASSUME NEW its \in BoundedSeq(Items, MaxItems), NEW k \in 1 .. Len(its),
         NEW q \in Nat, q < Len(Wire(its, k)),
         \/ Stray(its[k]) /\ q >= Len(Wire(its, k - 1))
         \/ its[k].fatal /\ q > Len(Wire(its, k - 1)),
         NEW m \in Nat, m <= Len(Wire(its, Len(its))), m - q >= MinFrameLen
  PROVE  ~HasMagic(Slice(Wire(its, Len(its)), q, m))
  <1> DEFINE t == Wire(its, Len(its))
             a == Len(Wire(its, k - 1))
             b == Len(Wire(its, k))
             g == IF its[k].fatal THEN 2 ELSE 1
  <1>1. t \in Seq(Cell) /\ a \in 0 .. Len(t) /\ b \in a .. Len(t)
    BY WireSlice
  <1>2. its[k] \in Items /\ DOMAIN its = 1 .. Len(its)
    BY ItemsBounded
  <1>3. Stray(its[k]) => ~its[k].fatal
    BY <1>2, ItemKinds
  <1>4. q + 1 \in a + g .. b
    BY <1>1, <1>3
  <1>5. k \in {j \in DOMAIN its : its[j].fatal \/ \E n \in Noise : its[j] = Dud(n)}
    BY <1>2 DEF Stray
  <1>6. q + 1 \in StrayCells(its)
    <2> DEFINE h == q + 1
    <2>1. h \in Len(Wire(its, k - 1)) + (IF its[k].fatal THEN 2 ELSE 1) .. Len(Wire(its, k))
      BY <1>4
    <2> HIDE DEF h
    <2>2. h \in StrayCells(its)
      BY <1>5, <2>1, Zenon DEF StrayCells
    <2>3. QED
      BY <2>2 DEF h
  <1>7. ~HasMagic(SubSeq(t, q + 1, Len(t)))
    BY <1>6, StrayAssumption, Zenon
  <1> HIDE DEF t, a, b
  <1>8. Len(t) \in Nat /\ MinFrameLen \in Nat /\ q <= m /\ m <= Len(t)
    BY <1>1, Lengths DEF t
  <1>9. q \in 0 .. Len(t) /\ m \in q .. Len(t) /\ Len(t) \in m .. Len(t) /\ m \in 0 .. Len(t)
    BY <1>8
  <1> DEFINE s == Slice(t, q, m)
             y == Slice(t, m, Len(t))
  <1>10. s \in Seq(Cell) /\ Len(s) = m - q
    BY <1>1, <1>9, SliceCells
  <1>11. y \in Seq(Cell)
    BY <1>1, <1>9, SliceCells
  <1>12. Slice(t, q, Len(t)) = s \o y
    BY <1>1, <1>9, SliceJoins
  <1> HIDE DEF s, y
  <1>13. HasMagic(s \o y) <=> HasMagic(s)
    BY <1>10, <1>11, HeaderOfConcat
  <1>14. ~HasMagic(s)
    BY <1>7, <1>12, <1>13 DEF Slice
  <1>15. QED
    BY <1>14 DEF s, t

\* Both loops wait for a whole frame, and take it when it is there.
LEMMA WholeItem ==
  ASSUME NEW t \in Seq(Cell), NEW a \in 0 .. Len(t), NEW b \in a .. Len(t), NEW m \in a .. Len(t),
         WholeFrame(Slice(t, a, b))
  PROVE  /\ FramesIn[Slice(t, a, m)] =
              IF m < b THEN <<>> ELSE DeserializeFrame(Slice(t, a, b)) \o FramesIn[Slice(t, b, m)]
         /\ PhoneFramesIn[Slice(t, a, m)] =
              IF m < b THEN <<>> ELSE PhoneDeserialize(Slice(t, a, b)) \o PhoneFramesIn[Slice(t, b, m)]
  <1>1. Len(t) \in Nat /\ a \in Nat /\ b \in Nat /\ m \in Nat /\ a <= b /\ b <= Len(t) /\ a <= m /\ m <= Len(t)
    OBVIOUS
  <1>2. CASE m < b
    <2> DEFINE u == Slice(t, a, m)
               v == Slice(t, m, b)
    <2>1. m \in a .. Len(t) /\ b \in m .. Len(t) /\ m \in 0 .. Len(t)
      BY <1>1, <1>2
    <2>2. u \in Seq(Cell)
      BY <2>1, SliceCells
    <2>3. v \in Seq(Cell) /\ Len(v) = b - m
      BY <2>1, SliceCells
    <2>4. Slice(t, a, b) = u \o v
      BY <2>1, SliceJoins
    <2> HIDE DEF u, v
    <2>5. Len(v) > 0 /\ WholeFrame(u \o v)
      BY <1>1, <1>2, <2>3, <2>4
    <2>6. PassEnds(u) /\ PhonePassEnds(u)
      BY <2>2, <2>3, <2>5, PartWaits
    <2>7. FramesIn[u] = <<>> /\ PhoneFramesIn[u] = <<>>
      BY <2>2, <2>6, FramesInUnfolds, PhoneFramesInUnfolds
    <2>8. QED
      BY <1>2, <2>7 DEF u
  <1>3. CASE ~(m < b)
    <2> DEFINE d == Slice(t, a, b)
               y == Slice(t, b, m)
    <2>1. b \in a .. Len(t) /\ m \in b .. Len(t) /\ b \in 0 .. Len(t)
      BY <1>1, <1>3
    <2>2. y \in Seq(Cell)
      BY <2>1, SliceCells
    <2>3. Slice(t, a, m) = d \o y
      BY <2>1, SliceJoins
    <2> HIDE DEF d, y
    <2>4. WholeFrame(d)
      BY DEF d
    <2>5. /\ FramesIn[d \o y] = DeserializeFrame(d) \o FramesIn[y]
          /\ PhoneFramesIn[d \o y] = PhoneDeserialize(d) \o PhoneFramesIn[y]
      BY <2>2, <2>4, WholeTaken
    <2>6. QED
      BY <1>3, <2>3, <2>5 DEF d, y
  <1>4. QED
    BY <1>2, <1>3

\* Nothing is found in fewer cells than a frame has at least.
LEMMA TooShort ==
  ASSUME NEW s \in Seq(Cell), Len(s) < MinFrameLen
  PROVE  /\ FramesIn[s] = <<>> /\ PhoneFramesIn[s] = <<>>
         /\ DeserializeFrame(s) = <<>> /\ PhoneDeserialize(s) = <<>>
  <1>1. PassEnds(s) /\ PhonePassEnds(s)
    BY DEF PassEnds, PhonePassEnds
  <1>2. QED
    BY <1>1, FramesInUnfolds, PhoneFramesInUnfolds DEF DeserializeFrame, PhoneDeserialize

\* In nothing there is no frame.
LEMMA NothingToRead == FramesIn[<<>>] = <<>> /\ PhoneFramesIn[<<>>] = <<>>
  <1>1. <<>> \in Seq(Cell) /\ Len(<<>>) = 0
    OBVIOUS
  <1>2. Len(<<>>) < MinFrameLen
    BY <1>1, Lengths
  <1>3. QED
    BY <1>1, <1>2, TooShort

\* The agent drops a cell that begins no frame.
LEMMA DropsOneCell ==
  ASSUME NEW t \in Seq(Cell), NEW q \in 0 .. Len(t), NEW m \in q + 1 .. Len(t),
         m - q >= MinFrameLen => ~HasMagic(Slice(t, q, m))
  PROVE  FramesIn[Slice(t, q, m)] = FramesIn[Slice(t, q + 1, m)]
  <1> DEFINE h == q + 1
             s == Slice(t, q, m)
             x == Slice(t, q, h)
             y == Slice(t, h, m)
  <1>1. Len(t) \in Nat /\ q \in Nat /\ m \in Nat /\ q < m /\ m <= Len(t) /\ MinFrameLen \in Nat /\ MinFrameLen > 1
    BY Lengths
  <1>2. h \in q .. Len(t) /\ h \in 0 .. Len(t) /\ m \in h .. Len(t) /\ m \in q .. Len(t) /\ h - q = 1
    BY <1>1
  <1>a. m - h = (m - q) - 1
    BY <1>1
  <1> HIDE DEF h
  <1>3. s \in Seq(Cell) /\ Len(s) = m - q
    BY <1>2, SliceCells
  <1>4. x \in Seq(Cell) /\ Len(x) = h - q
    BY <1>2, SliceCells
  <1>5. y \in Seq(Cell) /\ Len(y) = m - h
    BY <1>2, SliceCells
  <1>6. s = x \o y
    BY <1>2, SliceJoins
  <1>b. m - q >= MinFrameLen => ~HasMagic(s)
    OBVIOUS
  <1> HIDE DEF s, x, y
  <1>7. CASE m - q < MinFrameLen
    <2>1. Len(s) < MinFrameLen /\ Len(y) < MinFrameLen
      BY <1>1, <1>3, <1>5, <1>7, <1>a
    <2>2. FramesIn[s] = <<>> /\ FramesIn[y] = <<>>
      BY <1>3, <1>5, <2>1, TooShort
    <2>3. QED
      BY <2>2 DEF s, y, h
  <1>8. CASE ~(m - q < MinFrameLen)
    <2>1. ~HasMagic(s) /\ ~(Len(s) < MinFrameLen)
      BY <1>1, <1>3, <1>8, <1>b
    <2>2. ~PassEnds(s) /\ Skip(s) = 1
      BY <2>1 DEF PassEnds, Skip
    <2>3. Len(x) = 1
      BY <1>2, <1>4
    <2>4. 1 \in 0 .. Len(x)
      BY <2>3
    <2>5. /\ SubSeq(x \o y, 1, 1) = SubSeq(x, 1, 1)
          /\ SubSeq(x \o y, 1 + 1, Len(x \o y)) = SubSeq(x, 1 + 1, Len(x)) \o y
      <3>1. x \in Seq(Cell) /\ y \in Seq(Cell)
        BY <1>4, <1>5
      <3>2. QED
        BY <2>4, <3>1, CutOfConcat
    <2>6. SubSeq(x, 1, 1) \in Seq(Cell) /\ Len(SubSeq(x, 1, 1)) = 1
      BY <1>4, <2>4, Cut
    <2>7. SubSeq(x, 1 + 1, Len(x)) = <<>>
      BY <2>3, SubSeqEmpty
    <2>8. <<>> \o y = y
      BY <1>5, ConcatEmptySeq
    <2>9. Rest(s) = y
      BY <1>6, <2>2, <2>5, <2>7, <2>8 DEF Rest
    <2>10. DeserializeFrame(Taken(s)) = <<>>
      <3>1. Len(SubSeq(x, 1, 1)) < MinFrameLen
        BY <1>1, <2>6
      <3>2. Taken(s) = SubSeq(x, 1, 1)
        BY <1>6, <2>2, <2>5 DEF Taken
      <3>3. DeserializeFrame(SubSeq(x, 1, 1)) = <<>>
        BY <2>6, <3>1, TooShort
      <3>4. QED
        BY <3>2, <3>3
    <2>11. FramesIn[s] = <<>> \o FramesIn[y]
      BY <1>3, <2>2, <2>9, <2>10, FramesInUnfolds
    <2>12. FramesIn[y] \in Seq(WellFormed)
      BY <1>5, FramesInUnfolds
    <2>13. <<>> \o FramesIn[y] = FramesIn[y]
      BY <2>12, ConcatEmptySeq
    <2>14. QED
      BY <2>11, <2>13 DEF s, y, h
  <1>9. QED
    BY <1>1, <1>7, <1>8

\* And so it drops them all.
LEMMA DropsStray ==
  ASSUME NEW t \in Seq(Cell), NEW a \in 0 .. Len(t), NEW b \in a .. Len(t), NEW m \in a .. Len(t),
         \A q \in a .. Len(t) : q < b /\ m - q >= MinFrameLen => ~HasMagic(Slice(t, q, m))
  PROVE  FramesIn[Slice(t, a, m)] = IF m < b THEN <<>> ELSE FramesIn[Slice(t, b, m)]
  <1> DEFINE e == IF m < b THEN m ELSE b
             S == {d \in Nat : a + d <= e => FramesIn[Slice(t, a, m)] = FramesIn[Slice(t, a + d, m)]}
  <1>1. Len(t) \in Nat /\ a \in Nat /\ b \in Nat /\ m \in Nat /\ a <= b /\ b <= Len(t) /\ a <= m /\ m <= Len(t)
    OBVIOUS
  <1>2. e \in Nat /\ e <= m /\ e <= b /\ a <= e
    BY <1>1
  <1> HIDE DEF e
  <1>3. 0 \in S
    BY <1>1
  <1>4. ASSUME NEW d \in Nat, d \in S PROVE d + 1 \in S
    <2>1. ASSUME a + (d + 1) <= e PROVE FramesIn[Slice(t, a, m)] = FramesIn[Slice(t, a + (d + 1), m)]
      <3> DEFINE q == a + d
      <3>1. /\ q \in 0 .. Len(t) /\ q \in a .. Len(t) /\ m \in q + 1 .. Len(t) /\ q < b
            /\ q + 1 = a + (d + 1) /\ q <= e
        BY <1>1, <1>2, <2>1
      <3>2. FramesIn[Slice(t, a, m)] = FramesIn[Slice(t, q, m)]
        BY <1>4, <3>1
      <3> HIDE DEF q
      <3>3. m - q >= MinFrameLen => ~HasMagic(Slice(t, q, m))
        BY <3>1
      <3>4. FramesIn[Slice(t, q, m)] = FramesIn[Slice(t, q + 1, m)]
        BY <3>1, <3>3, DropsOneCell
      <3>5. QED
        BY <3>1, <3>2, <3>4
    <2>2. d + 1 \in Nat
      OBVIOUS
    <2>3. QED
      BY <2>1, <2>2, Zenon
  <1> HIDE DEF S
  <1>5. FramesIn[Slice(t, a, m)] = FramesIn[Slice(t, e, m)]
    <2>1. e - a \in Nat /\ a + (e - a) = e /\ e <= e
      BY <1>1, <1>2
    <2>2. \A d \in Nat : d \in S
      BY <1>3, <1>4, InductiveSet
    <2>3. e - a \in S
      BY <2>1, <2>2
    <2>4. QED
      BY <2>1, <2>3 DEF S
  <1>6. CASE m < b
    <2>1. Slice(t, m, m) = <<>>
      BY <1>1, SubSeqEmpty DEF Slice
    <2>2. e = m
      BY <1>6 DEF e
    <2>3. QED
      BY <1>5, <1>6, <2>1, <2>2, NothingToRead
  <1>7. CASE ~(m < b)
    BY <1>5, <1>7 DEF e
  <1>8. QED
    BY <1>6, <1>7

\* A bad header and what follows it on the wire.
LEMMA OversizedOnWire ==
  ASSUME NEW n \in BadLengths, NEW y \in Seq(Cell)
  PROVE  LET s == Oversized(n).cells \o y
         IN  s \in Seq(Cell) /\ HasMagic(s) /\ PayloadLen(s) = n
  <1> DEFINE d == Oversized(n).cells
             s == d \o y
  <1>1. d \in Seq(Cell) /\ Len(d) = HeaderLen /\ d[MagicLen + 1] = n /\ HasMagic(d)
    BY OversizedCells
  <1> HIDE DEF d
  <1>2. d \in Seq(Cell)
    BY <1>1
  <1>3. /\ s \in Seq(Cell) /\ Len(s) = Len(d) + Len(y)
        /\ \A i \in 1 .. Len(d) + Len(y) : s[i] = IF i <= Len(d) THEN d[i] ELSE y[i - Len(d)]
    BY <1>2, ConcatProperties
  <1>4. Len(d) \in Nat /\ Len(y) \in Nat /\ MagicLen \in Nat /\ MagicLen + 1 <= Len(d)
    BY <1>1, Lengths
  <1>5. PayloadLen(s) = n
    <2> DEFINE i == MagicLen + 1
    <2>1. i \in 1 .. Len(d) + Len(y) /\ i <= Len(d)
      BY <1>4
    <2> HIDE DEF i, s
    <2>2. s[i] = d[i]
      BY <1>3, <2>1
    <2>3. QED
      BY <1>1, <2>2 DEF i, PayloadLen
  <1>6. SubSeq(s, 1, MagicLen) = SubSeq(d, 1, MagicLen)
    <2>1. MagicLen \in 0 .. Len(d)
      BY <1>4
    <2>2. QED
      BY <1>2, <2>1, CutOfConcat
  <1> HIDE DEF s
  <1>7. HasMagic(s)
    <2>1. Len(FRAME_MAGIC) <= Len(d) /\ Len(FRAME_MAGIC) <= Len(s)
      BY <1>3, <1>4 DEF MagicLen
    <2>2. QED
      BY <1>1, <1>6, <2>1 DEF HasMagic, IsPrefix, MagicLen
  <1>8. QED
    BY <1>3, <1>5, <1>7 DEF s, d

\* A slice that begins with a bad header.
LEMMA OversizedSlice ==
  ASSUME NEW t \in Seq(Cell), NEW a \in 0 .. Len(t), NEW b \in a .. Len(t), NEW m \in a .. Len(t),
         NEW n \in BadLengths, Slice(t, a, b) = Oversized(n).cells, m - a >= MinFrameLen
  PROVE  HasMagic(Slice(t, a, m)) /\ PayloadLen(Slice(t, a, m)) = n
  <1>1. Len(t) \in Nat /\ a \in Nat /\ b \in Nat /\ m \in Nat /\ a <= b /\ b <= Len(t) /\ a <= m /\ m <= Len(t)
    OBVIOUS
  <1>2. b - a = HeaderLen
    <2>1. Len(Slice(t, a, b)) = b - a
      BY SliceCells
    <2>2. QED
      BY <2>1, OversizedCells
  <1>3. b \in 0 .. Len(t) /\ m \in b .. Len(t)
    BY <1>1, <1>2, Lengths
  <1> DEFINE y == Slice(t, b, m)
  <1>4. y \in Seq(Cell)
    BY <1>3, SliceCells
  <1>5. Slice(t, a, m) = Slice(t, a, b) \o y
    BY <1>3, SliceJoins
  <1> HIDE DEF y
  <1>6. HasMagic(Oversized(n).cells \o y) /\ PayloadLen(Oversized(n).cells \o y) = n
    BY <1>4, OversizedOnWire
  <1>7. QED
    BY <1>5, <1>6

\* The agent stops at it.
LEMMA AgentStops ==
  ASSUME NEW t \in Seq(Cell), NEW a \in 0 .. Len(t), NEW b \in a .. Len(t), NEW m \in a .. Len(t),
         NEW n \in BadLengths, Slice(t, a, b) = Oversized(n).cells
  PROVE  FramesIn[Slice(t, a, m)] = <<>>
  <1> DEFINE s == Slice(t, a, m)
  <1>1. s \in Seq(Cell) /\ Len(s) = m - a
    BY SliceCells
  <1>2. CASE m - a < MinFrameLen
    BY <1>1, <1>2, TooShort
  <1>3. CASE ~(m - a < MinFrameLen)
    <2>1. m - a >= MinFrameLen
      BY <1>3, Lengths
    <2>2. HasMagic(s) /\ PayloadLen(s) = n
      BY <2>1, OversizedSlice
    <2>3. n > MAX_PAYLOAD_SIZE
      BY StreamAssumption
    <2> HIDE DEF s
    <2>4. PassEnds(s)
      BY <2>2, <2>3 DEF PassEnds
    <2>5. FramesIn[s] = <<>>
      BY <1>1, <2>4, FramesInUnfolds
    <2>6. QED
      BY <2>5 DEF s
  <1>4. QED
    BY <1>2, <1>3

\* The phone drops fewer cells than a frame has and goes on behind them.
LEMMA PhoneTakesPart ==
  ASSUME NEW t \in Seq(Cell), NEW a \in 0 .. Len(t), NEW m \in a .. Len(t),
         ~PhonePassEnds(Slice(t, a, m)), NEW c \in Nat, PhoneFrameLen(Slice(t, a, m)) = c, c < MinFrameLen
  PROVE  a + c <= m /\ PhoneFramesIn[Slice(t, a, m)] = PhoneFramesIn[Slice(t, a + c, m)]
  <1> DEFINE s == Slice(t, a, m)
             h == a + c
             x == Slice(t, a, h)
             y == Slice(t, h, m)
  <1>1. Len(t) \in Nat /\ a \in Nat /\ m \in Nat /\ a <= m /\ m <= Len(t) /\ MinFrameLen \in Nat
    BY Lengths
  <1>2. s \in Seq(Cell) /\ Len(s) = m - a
    BY SliceCells
  <1>3. PhoneFrameLen(s) \in 1 .. Len(s)
    <2> HIDE DEF s
    <2>1. ~PhonePassEnds(s)
      BY DEF s
    <2>2. QED
      BY <1>2, <2>1, PhoneSkipFits
  <1>4. h \in a .. Len(t) /\ h \in 0 .. Len(t) /\ m \in h .. Len(t) /\ h <= m /\ h - a = c
    BY <1>1, <1>2, <1>3
  <1> HIDE DEF h
  <1>5. x \in Seq(Cell) /\ Len(x) = h - a
    BY <1>4, SliceCells
  <1>6. y \in Seq(Cell)
    BY <1>4, SliceCells
  <1>7. s = x \o y
    BY <1>4, SliceJoins
  <1>8. ~PhonePassEnds(s) /\ PhoneFrameLen(s) = c
    OBVIOUS
  <1> HIDE DEF s, x, y
  <1>9. Len(x) = c /\ Len(x) \in 0 .. Len(x)
    BY <1>4, <1>5
  <1>10. /\ SubSeq(x \o y, 1, Len(x)) = SubSeq(x, 1, Len(x))
         /\ SubSeq(x \o y, Len(x) + 1, Len(x \o y)) = SubSeq(x, Len(x) + 1, Len(x)) \o y
    <2>1. x \in Seq(Cell) /\ y \in Seq(Cell) /\ Len(x) \in 0 .. Len(x)
      BY <1>5, <1>6, <1>9
    <2>2. QED
      BY <2>1, CutOfConcat
  <1>11. SubSeq(x, 1, Len(x)) = x
    BY <1>5, SubSeqFull
  <1>12. SubSeq(x, Len(x) + 1, Len(x)) = <<>>
    BY <1>9, SubSeqEmpty
  <1>13. <<>> \o y = y
    BY <1>6, ConcatEmptySeq
  <1>14. PhoneRest(s) = y /\ PhoneTaken(s) = x
    BY <1>7, <1>8, <1>9, <1>10, <1>11, <1>12, <1>13 DEF PhoneRest, PhoneTaken
  <1>15. PhoneDeserialize(x) = <<>>
    <2>1. Len(x) < MinFrameLen
      BY <1>9
    <2>2. QED
      BY <1>5, <2>1, TooShort
  <1>16. PhoneFramesIn[s] = <<>> \o PhoneFramesIn[y]
    BY <1>2, <1>8, <1>14, <1>15, PhoneFramesInUnfolds
  <1>17. PhoneFramesIn[y] \in Seq(WellFormed)
    BY <1>6, PhoneFramesInUnfolds
  <1>18. <<>> \o PhoneFramesIn[y] = PhoneFramesIn[y]
    BY <1>17, ConcatEmptySeq
  <1>19. QED
    BY <1>4, <1>16, <1>18 DEF s, y, h

\* Without a magic the phone finds nothing.
LEMMA PhoneRefuses ==
  ASSUME NEW t \in Seq(Cell), NEW a \in 0 .. Len(t), NEW m \in a .. Len(t),
         m - a >= MinFrameLen => ~HasMagic(Slice(t, a, m))
  PROVE  PhoneFramesIn[Slice(t, a, m)] = <<>>
  <1> DEFINE s == Slice(t, a, m)
  <1>1. s \in Seq(Cell) /\ Len(s) = m - a
    BY SliceCells
  <1>2. m - a \in Nat /\ MinFrameLen \in Nat
    BY Lengths
  <1>3. m - a >= MinFrameLen => ~HasMagic(s)
    OBVIOUS
  <1> HIDE DEF s
  <1>4. PhonePassEnds(s)
    BY <1>1, <1>2, <1>3 DEF PhonePassEnds, RefusesHeader
  <1>5. PhoneFramesIn[s] = <<>>
    BY <1>1, <1>4, PhoneFramesInUnfolds
  <1>6. QED
    BY <1>5 DEF s

\* A length above the ceiling is refused by the phone, or it is negative.
LEMMA SignedBadLength ==
  ASSUME NEW n \in BadLengths
  PROVE  /\ Signed(n) \in Int
         /\ Signed(n) > MAX_PAYLOAD_SIZE \/ Signed(n) < 0
  <1>1. n \in Cell /\ n > MAX_PAYLOAD_SIZE
    BY StreamAssumption
  <1>2. n \in Nat /\ n <= Max(Cell) /\ Max(Cell) \in Nat
    BY <1>1, CodecAssumption
  <1> DEFINE M == Max(Cell)
  <1> HIDE DEF M
  <1>3. Signed(n) = IF 2 * n > M THEN n - (M + 1) ELSE n
    BY DEF Signed, M
  <1>4. n \in Nat /\ n <= M /\ M \in Nat
    BY <1>2 DEF M
  <1>5. CASE 2 * n > M
    <2>1. Signed(n) = n - (M + 1)
      BY <1>3, <1>5
    <2>2. QED
      BY <1>4, <2>1
  <1>6. CASE ~(2 * n > M)
    <2>1. Signed(n) = n
      BY <1>3, <1>6
    <2>2. QED
      BY <1>1, <1>4, <2>1
  <1>7. QED
    BY <1>5, <1>6

\* The phone at a bad header: it drops exactly the header, or nothing that
\* comes later is found.
LEMMA PhoneAtOversized ==
  ASSUME NEW t \in Seq(Cell), NEW a \in 0 .. Len(t), NEW b \in a .. Len(t), NEW m \in a .. Len(t),
         NEW n \in BadLengths, Slice(t, a, b) = Oversized(n).cells,
         \A q \in 0 .. Len(t) : a < q /\ q < b /\ m - q >= MinFrameLen => ~HasMagic(Slice(t, q, m))
  PROVE  PhoneFramesIn[Slice(t, a, m)] =
           IF MinFrameLen + Signed(n) # HeaderLen \/ m < b THEN <<>> ELSE PhoneFramesIn[Slice(t, b, m)]
  <1> DEFINE s == Slice(t, a, m)
             z == MinFrameLen + Signed(n)
  <1>1. Len(t) \in Nat /\ a \in Nat /\ b \in Nat /\ m \in Nat /\ a <= b /\ b <= Len(t) /\ a <= m /\ m <= Len(t)
    OBVIOUS
  <1>2. s \in Seq(Cell) /\ Len(s) = m - a
    BY SliceCells
  <1>3. b - a = HeaderLen
    <2>1. Len(Slice(t, a, b)) = b - a
      BY SliceCells
    <2>2. QED
      BY <2>1, OversizedCells
  <1>4. MagicLen \in Nat \ {0} /\ HeaderLen = MagicLen + 2 /\ MinFrameLen = MagicLen + 3
    BY Lengths
  <1>5. Signed(n) \in Int /\ (Signed(n) > MAX_PAYLOAD_SIZE \/ Signed(n) < 0) /\ MAX_PAYLOAD_SIZE \in Nat
    BY SignedBadLength, Lengths
  <1>6. CASE m - a < MinFrameLen
    <2>1. PhoneFramesIn[s] = <<>>
      BY <1>2, <1>6, TooShort
    <2>2. CASE m < b
      BY <2>1, <2>2
    <2>3. CASE ~(m < b)
      <3>1. m = b
        BY <1>1, <1>3, <1>4, <1>6, <2>3
      <3>2. Slice(t, b, m) = <<>>
        BY <1>1, <3>1, SubSeqEmpty DEF Slice
      <3>3. PhoneFramesIn[Slice(t, b, m)] = <<>>
        BY <3>2, NothingToRead
      <3>4. QED
        BY <2>1, <3>3
    <2>4. QED
      BY <2>2, <2>3
  <1>7. CASE ~(m - a < MinFrameLen)
    <2>1. m - a >= MinFrameLen /\ ~(m < b) /\ m \in b .. Len(t)
      BY <1>1, <1>3, <1>4, <1>7
    <2>2. HasMagic(s) /\ PayloadLen(s) = n
      BY <2>1, OversizedSlice
    <2>3. PhoneLen(s) = Signed(n) /\ PhoneFrameLen(s) = z
      BY <2>2 DEF PhoneLen, PhoneFrameLen
    <2> HIDE DEF s
    <2>4. CASE Signed(n) > MAX_PAYLOAD_SIZE
      <3>1. PhonePassEnds(s)
        BY <2>3, <2>4 DEF PhonePassEnds, RefusesHeader
      <3>2. PhoneFramesIn[s] = <<>>
        BY <1>2, <3>1, PhoneFramesInUnfolds
      <3>3. z # HeaderLen
        BY <1>4, <1>5, <2>4
      <3>4. QED
        BY <3>2, <3>3 DEF s
    <2>5. CASE Signed(n) < 0 /\ z <= 0
      <3>1. z \in Int /\ z \notin 1 .. Len(s) /\ z # HeaderLen
        BY <1>4, <1>5, <2>5
      <3>2. PhonePassEnds(s)
        BY <2>3, <3>1 DEF PhonePassEnds
      <3>3. PhoneFramesIn[s] = <<>>
        BY <1>2, <3>2, PhoneFramesInUnfolds
      <3>4. QED
        BY <3>1, <3>3 DEF s
    <2>6. CASE Signed(n) < 0 /\ z > 0
      <3>1. z \in Nat /\ z \in 1 .. Len(s) /\ z < MinFrameLen /\ z <= HeaderLen
        BY <1>1, <1>2, <1>4, <1>5, <2>1, <2>6
      <3>2. ~PhonePassEnds(s)
        <4>1. ~(Len(s) < MinFrameLen)
          BY <1>2, <1>7
        <4>2. ~(Signed(n) > MAX_PAYLOAD_SIZE)
          BY <1>5, <2>6
        <4>3. QED
          BY <2>2, <2>3, <3>1, <4>1, <4>2 DEF PhonePassEnds, RefusesHeader
      <3> HIDE DEF z
      <3>3. a + z <= m /\ PhoneFramesIn[s] = PhoneFramesIn[Slice(t, a + z, m)]
        BY <2>3, <3>1, <3>2, PhoneTakesPart DEF s
      <3>4. CASE z = HeaderLen
        <4>1. a + z = b
          BY <1>1, <1>3, <3>4
        <4>2. PhoneFramesIn[s] = PhoneFramesIn[Slice(t, b, m)]
          BY <3>3, <4>1
        <4>3. QED
          BY <2>1, <3>4, <4>2 DEF s, z
      <3>5. CASE z # HeaderLen
        <4> DEFINE q == a + z
        <4>1. a < q /\ q < b /\ q \in 0 .. Len(t) /\ m \in q .. Len(t)
          BY <1>1, <1>3, <1>4, <3>1, <3>3, <3>5
        <4> HIDE DEF q
        <4>2. PhoneFramesIn[Slice(t, q, m)] = <<>>
          BY <4>1, PhoneRefuses
        <4>3. PhoneFramesIn[s] = <<>>
          BY <3>3, <4>2 DEF q
        <4>4. QED
          BY <3>5, <4>3 DEF s, z
      <3>6. QED
        BY <3>4, <3>5
    <2>7. z \in Int
      BY <1>4, <1>5
    <2>8. QED
      BY <1>5, <2>4, <2>5, <2>6, <2>7
  <1>8. QED
    BY <1>6, <1>7

\* What the agent finds in an item.
LEMMA AgentItem ==
  ASSUME NEW its \in BoundedSeq(Items, MaxItems), NEW k \in 1 .. Len(its),
         NEW m \in Len(Wire(its, k - 1)) .. Len(Wire(its, Len(its)))
  PROVE  LET t == Wire(its, Len(its))
             b == Len(Wire(its, k))
         IN  FramesIn[Slice(t, Len(Wire(its, k - 1)), m)] =
               IF its[k].fatal \/ m < b THEN <<>> ELSE its[k].frame \o FramesIn[Slice(t, b, m)]
  <1> DEFINE t == Wire(its, Len(its))
             a == Len(Wire(its, k - 1))
             b == Len(Wire(its, k))
             item == its[k]
  <1>1. /\ t \in Seq(Cell) /\ a \in 0 .. Len(t) /\ b \in a .. Len(t) /\ m \in a .. Len(t)
        /\ Slice(t, a, b) = item.cells
    BY WireSlice
  <1>2. item \in Items
    BY ItemsBounded
  <1>3. /\ item.fatal \in BOOLEAN
        /\ ReadWhole(item) \/ Stray(item) \/ \E n \in BadLengths : item = Oversized(n)
        /\ item.fatal => \E n \in BadLengths : item = Oversized(n)
        /\ Stray(item) => ~item.fatal /\ item.frame = <<>>
    BY <1>2, ItemKinds DEF ItemTyped
  <1>4. ASSUME Stray(item), NEW q \in a .. Len(t), q < b, m - q >= MinFrameLen
        PROVE  ~HasMagic(Slice(t, q, m))
    <2>1. q \in Nat /\ q >= a /\ m \in Nat /\ m <= Len(t)
      BY <1>1
    <2>2. QED
      BY <1>4, <2>1, NoMagicInStray
  <1> HIDE DEF t, a, b, item
  <1>5. CASE Stray(item)
    <2>1. FramesIn[Slice(t, a, m)] = IF m < b THEN <<>> ELSE FramesIn[Slice(t, b, m)]
      BY <1>1, <1>4, <1>5, DropsStray
    <2>2. ~(m < b) => FramesIn[Slice(t, b, m)] \in Seq(WellFormed)
      <3> SUFFICES ASSUME ~(m < b) PROVE FramesIn[Slice(t, b, m)] \in Seq(WellFormed)
        OBVIOUS
      <3>1. b \in 0 .. Len(t) /\ m \in b .. Len(t)
        BY <1>1
      <3>2. Slice(t, b, m) \in Seq(Cell)
        BY <1>1, <3>1, SliceCells
      <3>3. QED
        BY <3>2, FramesInUnfolds
    <2>3. ~(m < b) => <<>> \o FramesIn[Slice(t, b, m)] = FramesIn[Slice(t, b, m)]
      BY <2>2, ConcatEmptySeq
    <2>4. ~item.fatal /\ item.frame = <<>>
      BY <1>3, <1>5
    <2>5. QED
      BY <2>1, <2>3, <2>4 DEF t, a, b, item
  <1>6. CASE \E n \in BadLengths : item = Oversized(n)
    <2>1. PICK n \in BadLengths : item = Oversized(n)
      BY <1>6
    <2>2. item.fatal = TRUE
      BY <2>1, OversizedCells
    <2>3. Slice(t, a, b) = Oversized(n).cells
      BY <1>1, <2>1
    <2>4. FramesIn[Slice(t, a, m)] = <<>>
      BY <1>1, <2>3, AgentStops
    <2>5. QED
      BY <2>2, <2>4 DEF t, a, b, item
  <1>7. CASE ReadWhole(item)
    <2>1. ~item.fatal /\ WholeFrame(Slice(t, a, b)) /\ DeserializeFrame(Slice(t, a, b)) = item.frame
      BY <1>1, <1>7 DEF ReadWhole
    <2>2. FramesIn[Slice(t, a, m)] =
            IF m < b THEN <<>> ELSE DeserializeFrame(Slice(t, a, b)) \o FramesIn[Slice(t, b, m)]
      BY <1>1, <2>1, WholeItem
    <2>3. QED
      BY <2>1, <2>2 DEF t, a, b, item
  <1>8. QED
    BY <1>3, <1>5, <1>6, <1>7

\* What the phone finds in an item.
LEMMA PhoneItem ==
  ASSUME NEW its \in BoundedSeq(Items, MaxItems), NEW k \in 1 .. Len(its),
         NEW m \in Len(Wire(its, k - 1)) .. Len(Wire(its, Len(its)))
  PROVE  LET t == Wire(its, Len(its))
             b == Len(Wire(its, k))
         IN  PhoneFramesIn[Slice(t, Len(Wire(its, k - 1)), m)] =
               IF Blocks(its[k]) \/ m < b THEN <<>> ELSE Sees(its[k]) \o PhoneFramesIn[Slice(t, b, m)]
  <1> DEFINE t == Wire(its, Len(its))
             a == Len(Wire(its, k - 1))
             b == Len(Wire(its, k))
             item == its[k]
  <1>1. /\ t \in Seq(Cell) /\ a \in 0 .. Len(t) /\ b \in a .. Len(t) /\ m \in a .. Len(t)
        /\ Slice(t, a, b) = item.cells /\ b = a + Len(item.cells) /\ item.cells \in Seq(Cell)
    BY WireSlice
  <1>2. item \in Items
    BY ItemsBounded
  <1>3. /\ item.fatal \in BOOLEAN
        /\ ReadWhole(item) \/ Stray(item) \/ \E n \in BadLengths : item = Oversized(n)
        /\ item.fatal => \E n \in BadLengths : item = Oversized(n)
        /\ Stray(item) => ~item.fatal /\ \E n \in Noise : item.cells = n
    BY <1>2, ItemKinds DEF ItemTyped
  <1>4. ASSUME NEW q \in 0 .. Len(t), q < b, m - q >= MinFrameLen,
               \/ Stray(item) /\ q >= a
               \/ item.fatal /\ q > a
        PROVE  ~HasMagic(Slice(t, q, m))
    <2>1. q \in Nat /\ m \in Nat /\ m <= Len(t)
      BY <1>1
    <2>2. QED
      BY <1>4, <2>1, NoMagicInStray
  <1> HIDE DEF t, a, b, item
  <1>5. CASE Stray(item)
    <2>1. PICK n \in Noise : item.cells = n
      BY <1>3, <1>5
    <2>2. n \in Seq(Cell) /\ n # <<>>
      BY StreamAssumption
    <2>3. Len(n) \in Nat /\ Len(n) # 0
      BY <2>2, EmptySeq
    <2>4. a < b /\ a \in 0 .. Len(t) /\ a >= a
      BY <1>1, <2>1, <2>3
    <2>5. m - a >= MinFrameLen => ~HasMagic(Slice(t, a, m))
      BY <1>4, <1>5, <2>4
    <2>6. PhoneFramesIn[Slice(t, a, m)] = <<>>
      BY <1>1, <2>5, PhoneRefuses
    <2>7. Blocks(item)
      BY <1>5 DEF Blocks, Stray
    <2>8. QED
      BY <2>6, <2>7 DEF t, a, b, item
  <1>6. CASE \E n \in BadLengths : item = Oversized(n)
    <2>1. PICK n \in BadLengths : item = Oversized(n)
      BY <1>6
    <2>2. item.fatal = TRUE /\ item.frame = <<>> /\ PayloadLen(item.cells) = n
      BY <2>1, OversizedCells DEF PayloadLen
    <2>3. Slice(t, a, b) = Oversized(n).cells
      BY <1>1, <2>1
    <2>4. \A q \in 0 .. Len(t) : a < q /\ q < b /\ m - q >= MinFrameLen => ~HasMagic(Slice(t, q, m))
      <3> SUFFICES ASSUME NEW q \in 0 .. Len(t), a < q, q < b, m - q >= MinFrameLen
                   PROVE  ~HasMagic(Slice(t, q, m))
        OBVIOUS
      <3>1. q > a
        BY <1>1
      <3>2. QED
        BY <1>4, <2>2, <3>1
    <2>5. PhoneFramesIn[Slice(t, a, m)] =
            IF MinFrameLen + Signed(n) # HeaderLen \/ m < b THEN <<>> ELSE PhoneFramesIn[Slice(t, b, m)]
      BY <1>1, <2>3, <2>4, PhoneAtOversized
    <2>6. Blocks(item) <=> MinFrameLen + Signed(n) # HeaderLen
      <3>1. ~Stray(item)
        BY <1>3, <2>2
      <3>2. QED
        BY <2>2, <3>1 DEF Blocks, Stray
    <2>7. Sees(item) = <<>>
      <3>1. ASSUME NEW f \in Frames PROVE item # Mistyped(f)
        <4>1. Mistyped(f).fatal = FALSE
          BY DEF Mistyped, Dud
        <4>2. QED
          BY <2>2, <4>1
      <3>2. QED
        BY <2>2, <3>1 DEF Sees
    <2>8. ~(m < b) => <<>> \o PhoneFramesIn[Slice(t, b, m)] = PhoneFramesIn[Slice(t, b, m)]
      <3> SUFFICES ASSUME ~(m < b) PROVE <<>> \o PhoneFramesIn[Slice(t, b, m)] = PhoneFramesIn[Slice(t, b, m)]
        OBVIOUS
      <3>1. b \in 0 .. Len(t) /\ m \in b .. Len(t)
        BY <1>1
      <3>2. Slice(t, b, m) \in Seq(Cell)
        BY <1>1, <3>1, SliceCells
      <3>3. PhoneFramesIn[Slice(t, b, m)] \in Seq(WellFormed)
        BY <3>2, PhoneFramesInUnfolds
      <3>4. QED
        BY <3>3, ConcatEmptySeq
    <2>9. QED
      BY <2>5, <2>6, <2>7, <2>8 DEF t, a, b, item
  <1>7. CASE ReadWhole(item) /\ ~Stray(item)
    <2>1. ~item.fatal /\ WholeFrame(Slice(t, a, b)) /\ PhoneDeserialize(Slice(t, a, b)) = Sees(item)
      BY <1>1, <1>7 DEF ReadWhole
    <2>2. PhoneFramesIn[Slice(t, a, m)] =
            IF m < b THEN <<>> ELSE PhoneDeserialize(Slice(t, a, b)) \o PhoneFramesIn[Slice(t, b, m)]
      BY <1>1, <2>1, WholeItem
    <2>3. ~Blocks(item)
      BY <1>7, <2>1 DEF Blocks, Stray
    <2>4. QED
      BY <2>1, <2>2, <2>3 DEF t, a, b, item
  <1>8. QED
    BY <1>3, <1>5, <1>6, <1>7

\* The ends of the items on the wire.
LEMMA WireEnds ==
  ASSUME NEW its \in BoundedSeq(Items, MaxItems)
  PROVE  LET t == Wire(its, Len(its))
             L == [k \in 0 .. Len(its) |-> Len(Wire(its, k))]
         IN  /\ t \in Seq(Cell) /\ Len(its) \in Nat /\ L \in [0 .. Len(its) -> Nat]
             /\ L[0] = 0 /\ L[Len(its)] = Len(t)
             /\ \A k \in 1 .. Len(its) : L[k - 1] <= L[k] /\ L[k] <= Len(t)
  <1> DEFINE N == Len(its)
             t == Wire(its, N)
             L == [k \in 0 .. N |-> Len(Wire(its, k))]
  <1>1. N \in Nat
    BY ItemsBounded
  <1>2. Wire(its, 0) = <<>> /\ \A k \in 0 .. N : Wire(its, k) \in Seq(Cell)
    BY WireAdds
  <1>3. ASSUME NEW k \in 1 .. N
        PROVE  Len(Wire(its, k - 1)) <= Len(Wire(its, k)) /\ Len(Wire(its, k)) <= Len(t)
    <2> DEFINE a == Len(Wire(its, k - 1))
               b == Len(Wire(its, k))
    <2>1. t \in Seq(Cell) /\ a \in 0 .. Len(t) /\ b \in a .. Len(t)
      BY WireSlice
    <2> HIDE DEF a, b, t
    <2>2. a <= b /\ b <= Len(t)
      BY <2>1
    <2>3. QED
      BY <2>2 DEF a, b
  <1> HIDE DEF N
  <1>4. t \in Seq(Cell) /\ \A k \in 0 .. N : Len(Wire(its, k)) \in Nat
    BY <1>1, <1>2
  <1>5. L \in [0 .. N -> Nat] /\ \A k \in 0 .. N : L[k] = Len(Wire(its, k))
    BY <1>4
  <1>6. L[0] = 0 /\ L[N] = Len(t)
    BY <1>1, <1>2, <1>5
  <1>7. ASSUME NEW k \in 1 .. N PROVE L[k - 1] <= L[k] /\ L[k] <= Len(t)
    <2> DEFINE j == k - 1
    <2>1. j \in 0 .. N /\ k \in 0 .. N
      BY <1>1
    <2> HIDE DEF j, L
    <2>2. L[j] = Len(Wire(its, j)) /\ L[k] = Len(Wire(its, k))
      BY <1>5, <2>1
    <2>3. QED
      BY <1>3, <2>2 DEF j
  <1>8. QED
    BY <1>1, <1>4, <1>5, <1>6, <1>7 DEF N

\* How many items there are, up to some point, is a number of items.
LEMMA ArrivedBound ==
  ASSUME NEW N \in Nat, NEW A \in SUBSET (1 .. N)
  PROVE  Cardinality(A) \in 0 .. N
  <1>1. IsFiniteSet(1 .. N) /\ Cardinality(1 .. N) = N
    <2>1. IsFiniteSet(1 .. N) /\ Cardinality(1 .. N) = IF 1 > N THEN 0 ELSE N - 1 + 1
      BY FS_Interval
    <2>2. QED
      BY <2>1
  <1>2. IsFiniteSet(A) /\ Cardinality(A) <= Cardinality(1 .. N)
    BY <1>1, FS_Subset
  <1>3. Cardinality(A) \in Nat
    BY <1>2, FS_CardinalityType
  <1>4. QED
    BY <1>1, <1>2, <1>3

\* One pass of the agent over the first m cells of a stream of items.
LEMMA AgentFinds ==
  ASSUME NEW its \in BoundedSeq(Items, MaxItems), NEW m \in 0 .. Len(Wire(its, Len(its)))
  PROVE  LET n == Cardinality({i \in 1 .. Len(its) : /\ Len(Wire(its, i)) <= m
                                                     /\ \A j \in 1 .. i : ~its[j].fatal})
             found == FlattenSeq([i \in 1 .. n |-> its[i].frame])
         IN  FramesIn[SubSeq(Wire(its, Len(its)), 1, m)] = found /\ found \in Seq(Frames)
  <1> DEFINE N == Len(its)
             t == Wire(its, N)
             L == [k \in 0 .. N |-> Len(Wire(its, k))]
             fr == [k \in 1 .. N |-> its[k].frame]
             halt == {k \in 1 .. N : its[k].fatal}
             A == {i \in 1 .. N : L[i] <= m /\ \A j \in 1 .. i : j \notin halt}
             B == {i \in 1 .. N : Len(Wire(its, i)) <= m /\ \A j \in 1 .. i : ~its[j].fatal}
  <1>1. /\ t \in Seq(Cell) /\ N \in Nat /\ L \in [0 .. N -> Nat] /\ L[0] = 0 /\ L[N] = Len(t)
        /\ \A k \in 1 .. N : L[k - 1] <= L[k] /\ L[k] <= Len(t)
    BY WireEnds
  <1>2. \A k \in 1 .. N : its[k] \in Items
    BY ItemsBounded
  <1>3. \A k \in 1 .. N : its[k].frame \in Seq(Frames)
    BY <1>2, ItemKinds DEF ItemTyped
  <1>4. fr \in [1 .. N -> Seq(Frames)] /\ \A k \in 1 .. N : fr[k] = its[k].frame
    BY <1>3
  <1>5. fr \in [1 .. N -> Seq(WellFormed)]
    <2>1. Frames \subseteq WellFormed
      BY FramesWritable
    <2>2. Seq(Frames) \subseteq Seq(WellFormed)
      BY <2>1
    <2>3. QED
      BY <1>4, <2>2
  <1>6. \A k \in 0 .. N : L[k] = Len(Wire(its, k))
    OBVIOUS
  <1>7. \A k \in 1 .. N : \A p \in L[k - 1] .. Len(t) :
          FramesIn[Slice(t, L[k - 1], p)] =
            IF k \in halt \/ p < L[k] THEN <<>> ELSE fr[k] \o FramesIn[Slice(t, L[k], p)]
    <2> SUFFICES ASSUME NEW k \in 1 .. N, NEW p \in L[k - 1] .. Len(t)
                 PROVE  FramesIn[Slice(t, L[k - 1], p)] =
                          IF k \in halt \/ p < L[k] THEN <<>> ELSE fr[k] \o FramesIn[Slice(t, L[k], p)]
      OBVIOUS
    <2>1. k - 1 \in 0 .. N /\ k \in 0 .. N
      BY <1>1
    <2>2. L[k - 1] = Len(Wire(its, k - 1)) /\ L[k] = Len(Wire(its, k))
      <3> HIDE DEF L
      <3>1. QED
        BY <1>6, <2>1
    <2>3. k \in halt <=> its[k].fatal
      OBVIOUS
    <2> HIDE DEF L, halt, fr
    <2>4. p \in Len(Wire(its, k - 1)) .. Len(Wire(its, Len(its)))
      BY <2>2
    <2>5. FramesIn[Slice(t, Len(Wire(its, k - 1)), p)] =
            IF its[k].fatal \/ p < Len(Wire(its, k)) THEN <<>>
            ELSE its[k].frame \o FramesIn[Slice(t, Len(Wire(its, k)), p)]
      BY <2>4, AgentItem
    <2>6. fr[k] = its[k].frame
      BY <1>4
    <2>7. QED
      BY <2>2, <2>3, <2>5, <2>6
  <1>8. A = B
    <2>1. \A i \in 1 .. N : \A j \in 1 .. i : j \notin halt <=> ~its[j].fatal
      BY <1>1
    <2>2. \A i \in 1 .. N : L[i] = Len(Wire(its, i))
      BY <1>1, <1>6
    <2> HIDE DEF L, halt
    <2>3. QED
      BY <2>1, <2>2
  <1>9. A \in SUBSET (1 .. N)
    OBVIOUS
  <1>10. Cardinality(A) \in 0 .. N
    <2> HIDE DEF A, N
    <2>1. QED
      BY <1>1, <1>9, ArrivedBound
  <1>11. Itemised(t, N, L, FramesIn, WellFormed, fr, halt)
    <2> HIDE DEF t, N, L, fr, halt
    <2>1. FramesIn \in [Seq(Cell) -> Seq(WellFormed)] /\ FramesIn[<<>>] = <<>>
      BY FramesInUnfolds, NothingToRead
    <2>2. QED
      BY <1>1, <1>5, <1>7, <2>1 DEF Itemised
  <1>12. FramesIn[SubSeq(t, 1, m)] = Flat(fr, Cardinality(A))
    <2>1. m \in 0 .. Len(t)
      OBVIOUS
    <2> HIDE DEF t, N, L, fr, halt
    <2>2. QED
      BY <1>11, <2>1, ItemByItem
  <1>13. Flat(fr, Cardinality(A)) \in Seq(Frames)
    <2> HIDE DEF fr, A, N
    <2>1. QED
      BY <1>1, <1>4, <1>10, FlatSteps
  <1>14. Flat(fr, Cardinality(A)) = FlattenSeq([i \in 1 .. Cardinality(A) |-> its[i].frame])
    <2> DEFINE n == Cardinality(A)
    <2>1. n \in 0 .. N
      BY <1>10
    <2> HIDE DEF n, fr, N
    <2>2. \A i \in 1 .. n : i \in 1 .. N
      BY <1>1, <2>1
    <2>3. \A i \in 1 .. n : fr[i] = its[i].frame
      BY <1>4, <2>2
    <2>4. [i \in 1 .. n |-> fr[i]] = [i \in 1 .. n |-> its[i].frame]
      BY <2>3
    <2>5. Flat(fr, n) = FlattenSeq([i \in 1 .. n |-> its[i].frame])
      BY <2>4 DEF Flat
    <2>6. QED
      BY <2>5 DEF n
  <1> HIDE DEF A, fr
  <1>15. QED
    BY <1>8, <1>12, <1>13, <1>14

\* One pass of the phone over the first m cells of a stream of items.
LEMMA PhoneFinds ==
  ASSUME NEW its \in BoundedSeq(Items, MaxItems), NEW m \in 0 .. Len(Wire(its, Len(its)))
  PROVE  LET n == Cardinality({i \in 1 .. Len(its) : /\ Len(Wire(its, i)) <= m
                                                     /\ \A j \in 1 .. i : ~Blocks(its[j])})
             found == FlattenSeq([i \in 1 .. n |-> Sees(its[i])])
         IN  PhoneFramesIn[SubSeq(Wire(its, Len(its)), 1, m)] = found
  <1> DEFINE N == Len(its)
             t == Wire(its, N)
             L == [k \in 0 .. N |-> Len(Wire(its, k))]
             fr == [k \in 1 .. N |-> Sees(its[k])]
             halt == {k \in 1 .. N : Blocks(its[k])}
             A == {i \in 1 .. N : L[i] <= m /\ \A j \in 1 .. i : j \notin halt}
             B == {i \in 1 .. N : Len(Wire(its, i)) <= m /\ \A j \in 1 .. i : ~Blocks(its[j])}
  <1>1. /\ t \in Seq(Cell) /\ N \in Nat /\ L \in [0 .. N -> Nat] /\ L[0] = 0 /\ L[N] = Len(t)
        /\ \A k \in 1 .. N : L[k - 1] <= L[k] /\ L[k] <= Len(t)
    BY WireEnds
  <1>2. \A k \in 1 .. N : its[k] \in Items
    BY ItemsBounded
  <1>3. \A k \in 1 .. N : Sees(its[k]) \in Seq(WellFormed)
    BY <1>2, ItemKinds DEF ItemTyped
  <1>4. fr \in [1 .. N -> Seq(WellFormed)] /\ \A k \in 1 .. N : fr[k] = Sees(its[k])
    BY <1>3
  <1>5. \A k \in 0 .. N : L[k] = Len(Wire(its, k))
    OBVIOUS
  <1>6. \A k \in 1 .. N : \A p \in L[k - 1] .. Len(t) :
          PhoneFramesIn[Slice(t, L[k - 1], p)] =
            IF k \in halt \/ p < L[k] THEN <<>> ELSE fr[k] \o PhoneFramesIn[Slice(t, L[k], p)]
    <2> SUFFICES ASSUME NEW k \in 1 .. N, NEW p \in L[k - 1] .. Len(t)
                 PROVE  PhoneFramesIn[Slice(t, L[k - 1], p)] =
                          IF k \in halt \/ p < L[k] THEN <<>> ELSE fr[k] \o PhoneFramesIn[Slice(t, L[k], p)]
      OBVIOUS
    <2>1. k - 1 \in 0 .. N /\ k \in 0 .. N
      BY <1>1
    <2>2. L[k - 1] = Len(Wire(its, k - 1)) /\ L[k] = Len(Wire(its, k))
      <3> HIDE DEF L
      <3>1. QED
        BY <1>5, <2>1
    <2>3. k \in halt <=> Blocks(its[k])
      OBVIOUS
    <2> HIDE DEF L, halt, fr
    <2>4. p \in Len(Wire(its, k - 1)) .. Len(Wire(its, Len(its)))
      BY <2>2
    <2>5. PhoneFramesIn[Slice(t, Len(Wire(its, k - 1)), p)] =
            IF Blocks(its[k]) \/ p < Len(Wire(its, k)) THEN <<>>
            ELSE Sees(its[k]) \o PhoneFramesIn[Slice(t, Len(Wire(its, k)), p)]
      BY <2>4, PhoneItem
    <2>6. fr[k] = Sees(its[k])
      BY <1>4
    <2>7. QED
      BY <2>2, <2>3, <2>5, <2>6
  <1>7. A = B
    <2>1. \A i \in 1 .. N : \A j \in 1 .. i : j \notin halt <=> ~Blocks(its[j])
      BY <1>1
    <2>2. \A i \in 1 .. N : L[i] = Len(Wire(its, i))
      BY <1>1, <1>5
    <2> HIDE DEF L, halt
    <2>3. QED
      BY <2>1, <2>2
  <1>8. A \in SUBSET (1 .. N)
    OBVIOUS
  <1>9. Cardinality(A) \in 0 .. N
    <2> HIDE DEF A, N
    <2>1. QED
      BY <1>1, <1>8, ArrivedBound
  <1>10. Itemised(t, N, L, PhoneFramesIn, WellFormed, fr, halt)
    <2> HIDE DEF t, N, L, fr, halt
    <2>1. PhoneFramesIn \in [Seq(Cell) -> Seq(WellFormed)] /\ PhoneFramesIn[<<>>] = <<>>
      BY PhoneFramesInUnfolds, NothingToRead
    <2>2. QED
      BY <1>1, <1>4, <1>6, <2>1 DEF Itemised
  <1>11. PhoneFramesIn[SubSeq(t, 1, m)] = Flat(fr, Cardinality(A))
    <2>1. m \in 0 .. Len(t)
      OBVIOUS
    <2> HIDE DEF t, N, L, fr, halt
    <2>2. QED
      BY <1>10, <2>1, ItemByItem
  <1>12. Flat(fr, Cardinality(A)) = FlattenSeq([i \in 1 .. Cardinality(A) |-> Sees(its[i])])
    <2> DEFINE n == Cardinality(A)
    <2>1. n \in 0 .. N
      BY <1>9
    <2> HIDE DEF n, fr, N
    <2>2. \A i \in 1 .. n : i \in 1 .. N
      BY <1>1, <2>1
    <2>3. \A i \in 1 .. n : fr[i] = Sees(its[i])
      BY <1>4, <2>2
    <2>4. [i \in 1 .. n |-> fr[i]] = [i \in 1 .. n |-> Sees(its[i])]
      BY <2>3
    <2>5. Flat(fr, n) = FlattenSeq([i \in 1 .. n |-> Sees(its[i])])
      BY <2>4 DEF Flat
    <2>6. QED
      BY <2>5 DEF n
  <1> HIDE DEF A, fr
  <1>13. QED
    BY <1>7, <1>11, <1>12


-----------------------------------------------------------------------------
\* The two loops on a stream of items

\* The type invariant of the receive loop, and the stream it reads.
ItemsInv ==
  /\ items \in BoundedSeq(Items, MaxItems) /\ at \in {"loop", "recv", "parse"}
  /\ CutsInv

\* A stream of items is a stream of cells.
LEMMA ItemsStart == StreamInit => AnyStream /\ PhoneInit /\ ItemsInv
  <1> SUFFICES ASSUME StreamInit PROVE AnyStream /\ PhoneInit /\ ItemsInv
    OBVIOUS
  <1>1. /\ items \in BoundedSeq(Items, MaxItems) /\ sent = Stream
        /\ rxBuffer = <<>> /\ delivered = <<>> /\ at = "loop" /\ isConnected = TRUE /\ PhoneInit
    BY DEF StreamInit, Init
  <1>2. Stream \in Seq(Cell)
    BY <1>1, WireEnds DEF Stream
  <1>3. AnyStream
    BY <1>1, <1>2 DEF AnyStream
  <1>4. QED
    BY <1>1, <1>3, CutsInit DEF ItemsInv

\* A step of one of the two loops is a step of the agent's or none of it.
LEMMA AgentStepOf == [StreamNext]_<<vars, phone, side>> => [Next]_vars
  BY DEF StreamNext, vars

\* Neither loop changes what the peer wrote.
LEMMA ItemsStep == ItemsInv /\ [StreamNext]_<<vars, phone, side>> => ItemsInv'
  <1> SUFFICES ASSUME ItemsInv, [StreamNext]_<<vars, phone, side>> PROVE ItemsInv'
    OBVIOUS
  <1>1. [Next]_vars
    BY AgentStepOf
  <1>2. CutsInv'
    BY <1>1, CutsStep DEF ItemsInv
  <1>3. items' = items /\ at' \in {"loop", "recv", "parse"}
    BY <1>1 DEF ItemsInv, Next, vars, Loop, Recv, RecvFails, FlagCleared, DropByte, RejectOversized,
         TakeFrame, Wait
  <1>4. QED
    BY <1>2, <1>3 DEF ItemsInv

\* What was received is the front of the stream.
LEMMA ReceivedFront ==
  ASSUME ItemsInv
  PROVE  \E m \in 0 .. Len(Wire(items, Len(items))) :
           Received = SubSeq(Wire(items, Len(items)), 1, m) /\ Len(Received) = m
  <1> DEFINE t == Wire(items, Len(items))
             m == Len(t) - Len(sent)
  <1>1. /\ t \in Seq(Cell) /\ Received \in Seq(Cell) /\ sent \in Seq(Cell) /\ t = Received \o sent
        /\ Received = SubSeq(t, 1, m)
    BY DEF ItemsInv, CutsInv, StreamInv, StreamTypes, SplitStream, Stream, Received
  <1>2. Len(Received \o sent) = Len(Received) + Len(sent)
    BY <1>1, ConcatProperties
  <1> HIDE DEF t
  <1>3. Len(Received) \in Nat /\ Len(sent) \in Nat /\ Len(t) = Len(Received) + Len(sent)
    BY <1>1, <1>2
  <1>4. m \in 0 .. Len(t) /\ Len(Received) = m
    BY <1>3
  <1>5. QED
    BY <1>1, <1>4 DEF t

\* What one pass over the cells received finds are the intact frames that have
\* arrived.
LEMMA PassFindsArrived ==
  ASSUME ItemsInv
  PROVE  LET found == FlattenSeq([i \in 1 .. Cardinality(Arrived) |-> items[i].frame])
         IN  FramesIn[Received] = found /\ found \in Seq(Frames)
  <1>1. items \in BoundedSeq(Items, MaxItems) /\ DOMAIN items = 1 .. Len(items)
    BY ItemsBounded DEF ItemsInv
  <1>2. PICK m \in 0 .. Len(Wire(items, Len(items))) :
          Received = SubSeq(Wire(items, Len(items)), 1, m) /\ Len(Received) = m
    BY ReceivedFront
  <1> DEFINE A == {i \in 1 .. Len(items) : /\ Len(Wire(items, i)) <= m
                                           /\ \A j \in 1 .. i : ~items[j].fatal}
             found == FlattenSeq([i \in 1 .. Cardinality(A) |-> items[i].frame])
  <1>3. Arrived = A
    BY <1>1, <1>2 DEF Arrived
  <1>4. FramesIn[SubSeq(Wire(items, Len(items)), 1, m)] = found /\ found \in Seq(Frames)
    BY <1>1, AgentFinds
  <1> HIDE DEF A
  <1>5. QED
    BY <1>2, <1>3, <1>4

\* What one pass finds is what has arrived intact.
LEMMA IntactSuffices == ItemsInv => DeliversIntactFrames
  <1> SUFFICES ASSUME ItemsInv, at # "parse"
               PROVE  delivered = FlattenSeq([i \in 1 .. Cardinality(Arrived) |-> items[i].frame])
    BY DEF DeliversIntactFrames
  <1>1. delivered = FramesIn[Received]
    BY CutsInvSuffices DEF ItemsInv, CutsDoNotMatter
  <1>2. QED
    BY <1>1, PassFindsArrived

\* In the middle of a pass, too, only frames the peer sent have been delivered.
LEMMA TypeOKSuffices == ItemsInv => TypeOK
  <1> SUFFICES ASSUME ItemsInv PROVE TypeOK
    OBVIOUS
  <1>1. /\ rxBuffer \in Seq(Cell) /\ sent \in Seq(Cell) /\ delivered \in Seq(WellFormed)
        /\ Received \in Seq(Cell) /\ isConnected \in BOOLEAN /\ at \in {"loop", "recv", "parse"}
    BY DEF ItemsInv, CutsInv, StreamInv, StreamTypes, DeliversWellFormed, SplitStream
  <1>2. <<>> \in Seq(Cell)
    OBVIOUS
  <1>3. delivered \o FramesIn[rxBuffer \o <<>>] = FramesIn[Received \o <<>>]
    BY <1>2 DEF ItemsInv, CutsInv, PassSoFar
  <1>4. rxBuffer \o <<>> = rxBuffer /\ Received \o <<>> = Received
    BY <1>1, ConcatEmptySeq
  <1> DEFINE x == delivered
             y == FramesIn[rxBuffer]
             z == FramesIn[Received]
  <1>5. x \o y = z
    BY <1>3, <1>4
  <1>6. x \in Seq(WellFormed) /\ y \in Seq(WellFormed)
    BY <1>1, FramesInUnfolds
  <1>7. z \in Seq(Frames)
    BY PassFindsArrived
  <1> HIDE DEF x, y, z
  <1>8. /\ Len(x \o y) = Len(x) + Len(y)
        /\ \A i \in 1 .. Len(x) + Len(y) : (x \o y)[i] = IF i <= Len(x) THEN x[i] ELSE y[i - Len(x)]
    BY <1>6, ConcatProperties
  <1>9. Len(x) \in Nat /\ Len(y) \in Nat
    BY <1>6
  <1>10. ASSUME NEW i \in 1 .. Len(x) PROVE x[i] \in Frames
    <2>1. i \in 1 .. Len(x) + Len(y) /\ i <= Len(x)
      BY <1>9
    <2>2. (x \o y)[i] = x[i] /\ i \in 1 .. Len(x \o y)
      BY <1>8, <2>1
    <2>3. z[i] = x[i] /\ i \in 1 .. Len(z)
      BY <1>5, <2>2
    <2>4. z[i] \in Frames
      BY <1>7, <2>3, ElementOfSeq
    <2>5. QED
      BY <2>3, <2>4
  <1>11. x \in Seq(Frames)
    <2>1. Len(x) \in Nat /\ x = [i \in 1 .. Len(x) |-> x[i]]
      BY <1>6, LenProperties
    <2>2. QED
      BY <1>10, <2>1
  <1>12. QED
    BY <1>1, <1>11 DEF TypeOK, x

\* The same of the phone, up to what blocks it.
LEMMA PhoneFindsArrived ==
  ASSUME PhoneInv, items \in BoundedSeq(Items, MaxItems)
  PROVE  PhoneDeliversUntilBlocked
  <1> DEFINE t == Wire(items, Len(items))
             m == Len(t) - Len(phone.sent)
             R == PhoneReceived
             A == {i \in 1 .. Len(items) : /\ Len(Wire(items, i)) <= m
                                           /\ \A j \in 1 .. i : ~Blocks(items[j])}
  <1>1. DOMAIN items = 1 .. Len(items)
    BY ItemsBounded
  <1>2. /\ t \in Seq(Cell) /\ R \in Seq(Cell) /\ phone.sent \in Seq(Cell) /\ t = R \o phone.sent
        /\ R = SubSeq(t, 1, m)
    BY DEF PhoneInv, PhoneTypes, PhoneSplit, Stream, PhoneReceived
  <1> HIDE DEF R
  <1>3. Len(R \o phone.sent) = Len(R) + Len(phone.sent)
    BY <1>2, ConcatProperties
  <1> HIDE DEF t
  <1>4. Len(R) \in Nat /\ Len(phone.sent) \in Nat /\ Len(t) = Len(R) + Len(phone.sent)
    BY <1>2, <1>3
  <1>5. m \in 0 .. Len(t) /\ Len(R) = m
    BY <1>4
  <1> HIDE DEF m
  <1>6. PhoneFramesIn[R] = FlattenSeq([i \in 1 .. Cardinality(A) |-> Sees(items[i])])
    <2>1. PhoneFramesIn[SubSeq(t, 1, m)] = FlattenSeq([i \in 1 .. Cardinality(A) |-> Sees(items[i])])
      BY <1>5, PhoneFinds DEF t
    <2> HIDE DEF A
    <2>2. QED
      BY <1>2, <2>1
  <1>7. A = {i \in DOMAIN items : /\ Len(Wire(items, i)) <= Len(PhoneReceived)
                                  /\ \A j \in 1 .. i : ~Blocks(items[j])}
    BY <1>1, <1>5 DEF R
  <1> HIDE DEF A
  <1>8. phone.at # "parse" => phone.delivered = PhoneFramesIn[R]
    BY PhoneInvSuffices DEF PhoneCutsDoNotMatter, R
  <1>9. QED
    BY <1>6, <1>7, <1>8, Zenon DEF PhoneDeliversUntilBlocked

\* A stream of items is a stream of cells: what is proved above of both loops
\* on any stream of cells holds of them on the items of Frames, Noise and
\* BadLengths.
LEMMA ItemsAreCells == StreamSpec => AnyStreamSpec /\ AnyStreamsSpec
  BY ItemsStart, AgentStepOf, PTL DEF StreamSpec, AnyStreamSpec, AnyStreamsSpec

\* OnFrameReceived is only ever called with frames the peer sent, whatever
\* damage, stray bytes, unknown types and bad lengths are between them.
THEOREM StreamTypeOK == StreamSpec => []TypeOK
  BY ItemsStart, ItemsStep, TypeOKSuffices, PTL DEF StreamSpec

\* ReceiverWorker, back at recv, has handed over exactly the intact frames
\* that have arrived before the first bad length, in order and once.
THEOREM DeliversIntactFramesAlways == StreamSpec => []DeliversIntactFrames
  BY ItemsStart, ItemsStep, IntactSuffices, PTL DEF StreamSpec

\* receiverLoop of the phone, back at read, has handed over exactly the frames
\* that have arrived before the first stray byte or bad length, and none
\* behind it.
THEOREM PhoneDeliversUntilBlockedAlways == StreamSpec => []PhoneDeliversUntilBlocked
  <1>1. ItemsInv /\ PhoneInv => PhoneDeliversUntilBlocked
    BY PhoneFindsArrived DEF ItemsInv
  <1>2. QED
    BY ItemsStart, ItemsStep, PhoneStart, PhoneStep, <1>1, PTL DEF StreamSpec

=============================================================================
