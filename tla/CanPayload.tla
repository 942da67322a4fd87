----------------------------- MODULE CanPayload -----------------------------
(***************************************************************************)
(* The payload of a transfer of several frames in libcanard's memory, and  *)
(* the scalars read from it.  canardHandleRxFrame stores the payload in a  *)
(* head, a chain of blocks and the last frame itself; canardDecodeScalar   *)
(* gathers a scalar from wherever its bits lie and canardEncodeScalar puts *)
(* one into a message.  Bits are named by where they come from, so that    *)
(* what is read can be compared with what was sent.                        *)
(***************************************************************************)
EXTENDS Integers, SequencesExt

CONSTANTS
  ByteBits,      \* bits of a byte (8)
  FirstBytes,    \* payload bytes of the first frame (5)
  PayloadFrame,    \* of the others (7)
  PayloadHead,     \* CANARD_MULTIFRAME_RX_PAYLOAD_HEAD_SIZE
  PayloadBlock,    \* CANARD_BUFFER_BLOCK_DATA_SIZE
  MaxBytes,      \* bound: payload length
  MessageBytes   \* bound: size of a message being encoded

ASSUME PayloadAssumption ==
  /\ {ByteBits, FirstBytes, PayloadFrame, PayloadHead, PayloadBlock, MessageBytes} \subseteq Nat \ {0}
  /\ PayloadHead >= FirstBytes
  /\ MaxBytes \in (FirstBytes + 1)..1023     \* CANARD_TRANSFER_PAYLOAD_LEN_BITS: 10

ScalarBits == 8 * ByteBits           \* the widest scalar, and the storage union

VARIABLES
  size,       \* bytes of the payload
  received,   \* bytes of it that came in
  payload,    \* where they are: length, head, blocks and tail
  reading,    \* the scalar read or written last
  scalar,     \* what it was read as, or the message it was written into
  stage       \* "receiving", "complete", "read" or "written"

payloadVars == <<size, received, payload, reading, scalar, stage>>

Zero == <<"zero", 0>>
BitsOf(name, i) == [j \in 0..ByteBits - 1 |-> <<name, i * ByteBits + j>>]
ZeroByte == [j \in 0..ByteBits - 1 |-> Zero]
BlankBytes(n) == [i \in 0..n - 1 |-> ZeroByte]
Payload(from, to) == [i \in 1..(to - from) |-> BitsOf("sent", from + i - 1)]

\* bytes written over an area from a position on, as far as the area reaches.
Overwritten(area, at, bytes) ==
  [i \in DOMAIN area |-> IF i - at + 1 \in 1..Len(bytes) THEN bytes[i - at + 1] ELSE area[i]]

Dropped(bytes, n) == [i \in 1..(Len(bytes) - n) |-> bytes[i + n]]

-----------------------------------------------------------------------------
(* Storing the payload.                                                    *)

\* The loop of bufferBlockPushBytes: the last block from a byte on, and a block
\* more as long as bytes are left.
FillBlocks(blocks, at, bytes) ==
  LET n == Len(blocks)
      added == Min({k \in 0..Len(bytes) : Len(bytes) <= (k + 1) * PayloadBlock - at})
  IN [b \in 1..(n + added) |->
        IF b < n THEN blocks[b]
        ELSE IF b = n THEN Overwritten(blocks[n], at, bytes)
        ELSE Overwritten(BlankBytes(PayloadBlock), 0, Dropped(bytes, (b - n) * PayloadBlock - at))]

NewBlockDue(p, n) ==
  /\ (p.length + n - PayloadHead) \div PayloadBlock + 1 > Len(p.blocks)
  /\ (p.length - PayloadHead) % PayloadBlock = 0

\* bufferBlockPushBytes: the head first, then the last block and new ones.
BufferBlockPushBytes(p, bytes) ==
  LET room == IF p.length < PayloadHead THEN PayloadHead - p.length ELSE 0
      rest == Dropped(bytes, room)
      index == IF p.blocks = <<>> THEN 0 ELSE (p.length - PayloadHead) % PayloadBlock
      blocks == IF p.blocks = <<>> \/ NewBlockDue(p, Len(bytes))
                THEN Append(p.blocks, BlankBytes(PayloadBlock)) ELSE p.blocks
  IN [p EXCEPT !.length = @ + Len(bytes),
               !.head = Overwritten(@, p.length, bytes),
               !.blocks = IF Len(bytes) <= room THEN @ ELSE FillBlocks(blocks, index, rest)]

\* Mutant: a full last block is taken for an empty one.
TakeLastFrameWrapped(p, bytes) ==
  LET n == Len(p.blocks)
      at == (p.length - PayloadHead) % PayloadBlock
      used == IF p.length < PayloadHead THEN PayloadHead - p.length
              ELSE IF n = 0 THEN 0 ELSE PayloadBlock - at
  IN [p EXCEPT !.length = @ + Len(bytes),
               !.head = IF p.length < PayloadHead THEN Overwritten(@, p.length, bytes) ELSE @,
               !.blocks = IF p.length < PayloadHead \/ n = 0 THEN @
                          ELSE [p.blocks EXCEPT ![n] = Overwritten(p.blocks[n], at, bytes)],
               !.tail = Dropped(bytes, used)]

\* The end of a transfer in canardHandleRxFrame: the last frame's bytes fill
\* the head or the last block, and what is left is read from the frame.
TakeLastFrame(p, bytes) ==
  LET n == Len(p.blocks)
      at == p.length - PayloadHead - (n - 1) * PayloadBlock
      used == IF p.length < PayloadHead THEN PayloadHead - p.length
              ELSE IF n = 0 THEN 0 ELSE PayloadBlock - at
  IN [p EXCEPT !.length = @ + Len(bytes),
               !.head = IF p.length < PayloadHead THEN Overwritten(@, p.length, bytes) ELSE @,
               !.blocks = IF p.length < PayloadHead \/ n = 0 THEN @
                          ELSE [p.blocks EXCEPT ![n] = Overwritten(p.blocks[n], at, bytes)],
               !.tail = Dropped(bytes, used)]

-----------------------------------------------------------------------------
(* Moving bits.                                                            *)

\* One turn of copyBitArray's loop, done bits having been moved: as many bits
\* as both bytes have left.
BitsAtOnce(from, to, left) == Min({left, ByteBits - Max({from % ByteBits, to % ByteBits})})

MoveBits(src, from, count, dst, to) ==
  LET s == from % ByteBits
      d == to % ByteBits
  IN [dst EXCEPT ![to \div ByteBits] =
        [j \in DOMAIN @ |-> IF j \in d..(d + count - 1) THEN src[from \div ByteBits][j - d + s]
                            ELSE @[j]]]

\* copyBitArray: a turn moves a bit at least.
CopyBitArray(src, from, n, dst, to) ==
  LET turn[k \in 0..n] ==
        IF k = 0 THEN [done |-> 0, out |-> dst]
        ELSE LET t == turn[k - 1]
                 count == BitsAtOnce(from + t.done, to + t.done, n - t.done)
             IN IF t.done = n THEN t
                ELSE [done |-> t.done + count,
                      out |-> MoveBits(src, from + t.done, count, t.out, to + t.done)]
  IN turn[n].out

Area(bytes) == [i \in 0..Len(bytes) - 1 |-> bytes[i + 1]]

\* The walk of descatterTransferPayload over the chain of blocks: a block
\* begins at bit start, and left bits of the scalar lie in it or after it.
ReadBlock(p, b, w) ==
  LET end == w.start + Min({PayloadBlock * ByteBits, p.length * ByteBits - w.start})
      n == Min({w.left, end - w.at})
  IN IF end > w.at
     THEN [w EXCEPT !.out = CopyBitArray(p.blocks[b], w.at - w.start, n, w.out, w.done),
                    !.at = @ + n, !.done = @ + n, !.left = @ - n, !.start = end]
     ELSE [w EXCEPT !.start = end]

ReadBlocks(p, w) ==
  LET walk[b \in 0..Len(p.blocks)] ==
        IF b = 0 THEN w
        ELSE IF walk[b - 1].left = 0 THEN walk[b - 1] ELSE ReadBlock(p, b, walk[b - 1])
  IN walk[Len(p.blocks)]

ReadHead(p, w) ==
  LET n == Min({w.left, PayloadHead * ByteBits - w.at})
  IN IF w.at >= PayloadHead * ByteBits THEN w
     ELSE [w EXCEPT !.out = CopyBitArray(p.head, w.at, n, w.out, 0),
                    !.at = @ + n, !.done = n, !.left = @ - n]

ReadTailBits(p, w) ==
  IF p.tail = <<>> \/ w.left = 0 THEN w.out
  ELSE CopyBitArray(Area(p.tail), w.at - w.start, w.left, w.out, w.done)

\* descatterTransferPayload: how many bits there were, and the storage.
Available(p, offset, bits) ==
  IF offset >= p.length * ByteBits THEN 0 ELSE Min({bits, p.length * ByteBits - offset})

Descatter(p, offset, bits) ==
  LET n == Available(p, offset, bits)
      w == [at |-> offset, left |-> n, done |-> 0, start |-> PayloadHead * ByteBits,
            out |-> BlankBytes(8)]
  IN IF n = 0 THEN w.out
     ELSE IF p.blocks = <<>> /\ p.tail = <<>> THEN CopyBitArray(p.head, offset, n, w.out, 0)
     ELSE ReadTailBits(p, ReadBlocks(p, ReadHead(p, w)))

\* The last, partial byte is moved to or from the lower end of its byte.
ShiftRight(byte, n) == [j \in DOMAIN byte |-> IF j < n THEN Zero ELSE byte[j - n]]
ShiftLeft(byte, n) == [j \in DOMAIN byte |-> IF j + n < ByteBits THEN byte[j + n] ELSE Zero]
Spare(bits) == (ByteBits - (bits % ByteBits)) % ByteBits

\* The bytes are those of a little-endian integer: its bits by their weight.
ByWeight(storage) ==
  [w \in 0..ScalarBits - 1 |-> storage[w \div ByteBits][ByteBits - 1 - (w % ByteBits)]]
ByBytes(value) ==
  [i \in 0..7 |-> [j \in 0..ByteBits - 1 |-> value[i * ByteBits + ByteBits - 1 - j]]]

StandardBits(bits) ==
  CHOOSE n \in {ByteBits, 2 * ByteBits, 4 * ByteBits, 8 * ByteBits} :
    /\ bits <= n
    /\ \A m \in {ByteBits, 2 * ByteBits, 4 * ByteBits} : bits <= m => n <= m

\* canardDecodeScalar.
DecodeScalar(p, offset, bits, signed) ==
  LET gathered == Descatter(p, offset, bits)
      shifted == IF bits % ByteBits = 0 THEN gathered
                 ELSE [gathered EXCEPT ![bits \div ByteBits] = ShiftRight(@, Spare(bits))]
      value == ByWeight(shifted)
  IN [w \in 0..StandardBits(bits) - 1 |->
        IF signed /\ w >= bits /\ value[bits - 1] # Zero THEN value[bits - 1] ELSE value[w]]

\* canardEncodeScalar, of a value of the standard width into a message.
EncodeScalar(message, offset, bits, value) ==
  LET storage == ByBytes(value)
      shifted == IF bits % ByteBits = 0 THEN storage
                 ELSE [storage EXCEPT ![bits \div ByteBits] = ShiftLeft(@, Spare(bits))]
  IN CopyBitArray(shifted, 0, bits, message, offset)

-----------------------------------------------------------------------------
(* One transfer comes in and one scalar is read from it; or one is written.*)

PayloadInit ==
  /\ size \in (FirstBytes + 1)..MaxBytes /\ received = 0
  /\ payload = [length |-> 0, head |-> BlankBytes(PayloadHead), blocks |-> <<>>, tail |-> <<>>]
  /\ reading = <<0, 0, FALSE>> /\ scalar = <<>> /\ stage = "receiving"

\* The first and the middle frames of canardHandleRxFrame.
FrameComesIn ==
  LET upTo == IF received = 0 THEN FirstBytes ELSE received + PayloadFrame
  IN /\ stage = "receiving" /\ upTo < size
     /\ payload' = BufferBlockPushBytes(payload, Payload(received, upTo))
     /\ received' = upTo /\ UNCHANGED <<size, reading, scalar, stage>>

LastFrameComesIn ==
  /\ stage = "receiving" /\ received > 0 /\ size <= received + PayloadFrame
  /\ payload' = TakeLastFrame(payload, Payload(received, size))
  /\ received' = size /\ stage' = "complete" /\ UNCHANGED <<size, reading, scalar>>

ReadScalar(offset, bits, signed) ==
  /\ stage = "complete" /\ ~(bits = 1 /\ signed)
  /\ reading' = <<offset, bits, signed>>
  /\ scalar' = DecodeScalar(payload, offset, bits, signed)
  /\ stage' = "read" /\ UNCHANGED <<size, received, payload>>

Message == [i \in 0..MessageBytes - 1 |-> BitsOf("kept", i)]
Value == [w \in 0..ScalarBits - 1 |-> <<"value", w>>]

WriteScalar(offset, bits) ==
  /\ stage = "receiving" /\ received = 0 /\ size = MaxBytes
  /\ offset + bits <= MessageBytes * ByteBits
  /\ reading' = <<offset, bits, FALSE>>
  /\ scalar' = EncodeScalar(Message, offset, bits, Value)
  /\ stage' = "written" /\ UNCHANGED <<size, received, payload>>

PayloadNext ==
  \/ FrameComesIn \/ LastFrameComesIn
  \/ \E offset \in 0..(MaxBytes * ByteBits), bits \in 1..ScalarBits :
       WriteScalar(offset, bits) \/ \E signed \in BOOLEAN : ReadScalar(offset, bits, signed)

PayloadSpec == PayloadInit /\ [][PayloadNext]_payloadVars

-----------------------------------------------------------------------------
(* Properties.                                                             *)

\* Where the bit of weight w of a scalar lies on the wire, from its first bit:
\* bytes in rising order of weight, each with its most significant bit first.
WireOffset(bits, w) ==
  LET byte == w \div ByteBits
      width == Min({ByteBits, bits - byte * ByteBits})
  IN byte * ByteBits + width - 1 - (w % ByteBits)

\* A scalar that canardDecodeScalar reports in full has the bits that were
\* sent, wherever head, blocks and last frame divide it, and its sign above.
ReadsWhatWasSent ==
  LET offset == reading[1]
      bits == reading[2]
  IN stage = "read" /\ Available(payload, offset, bits) = bits =>
       \A w \in DOMAIN scalar :
         scalar[w] = IF w < bits THEN <<"sent", offset + WireOffset(bits, w)>>
                     ELSE IF reading[3] THEN scalar[bits - 1] ELSE Zero

\* canardEncodeScalar puts the value's bits in their places and touches no
\* other bit of the message.
WritesOnlyItsBits ==
  LET offset == reading[1]
      bits == reading[2]
      bit(i) == scalar[i \div ByteBits][i % ByteBits]
  IN stage = "written" =>
       /\ \A w \in 0..bits - 1 : bit(offset + WireOffset(bits, w)) = <<"value", w>>
       /\ \A i \in (0..MessageBytes * ByteBits - 1) \ (offset..offset + bits - 1) : bit(i) = <<"kept", i>>

\* Both: a scalar comes out of a payload as it went in, wherever in the chain of
\* blocks it lies, and putting it there changes no other bit.
ScalarsKept == ReadsWhatWasSent /\ WritesOnlyItsBits
=============================================================================
