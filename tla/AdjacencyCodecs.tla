---------------------------- MODULE AdjacencyCodecs ----------------------------
(***************************************************************************)
(* The codecs of storage/compressed_adjacency.hpp and the vectorised       *)
(* decoder of compressed_decode_simd.hpp, with the widths as parameters.   *)
(* A caller builds a sorted list and encodes it; stored data may be cut.   *)
(***************************************************************************)
EXTENDS Integers, Sequences, FiniteSets, SequencesExt, FiniteSetsExt

CONSTANTS WordBits,      \* width of a vertex id (32 in the code)
          GroupBits,     \* bits of a value in a variable-length byte (7)
          UnitBits,      \* bits of a byte of a fixed-width lane (8)
          BlockSizes,    \* block_size
          Lanes,         \* values a vector register holds (8)
          MaxLength      \* bound on the length of lists

ASSUME CodecConstants ==
  /\ {WordBits, GroupBits, UnitBits, Lanes, MaxLength} \subseteq Nat \ {0}
  /\ WordBits = 4 * UnitBits /\ GroupBits < WordBits
  /\ BlockSizes \subseteq Nat \ {0}

VARIABLE list            \* the list of ids

InitCodecs == list = <<>>

MaxWord == 2 ^ WordBits - 1

NextCodecs ==
  /\ Len(list) < MaxLength
  /\ \E id \in (IF list = <<>> THEN 0 ELSE Last(list)) .. MaxWord : list' = Append(list, id)

Rejected == [ok |-> FALSE, ids |-> <<>>]

-----------------------------------------------------------------------------
DeltaEncode(ids) == [i \in DOMAIN ids |-> IF i = 1 THEN ids[1] ELSE ids[i] - ids[i - 1]]

AddDelta(out, delta) ==
  LET value == IF out.ids = <<>> THEN 0 ELSE Last(out.ids)
  IN  IF ~out.ok \/ delta > MaxWord - value THEN Rejected
      ELSE [out EXCEPT !.ids = Append(@, value + delta)]

DeltaDecode(deltas) == FoldLeft(AddDelta, [ok |-> TRUE, ids |-> <<>>], deltas)

(* variable_byte_encode_uint32: low groups first, all but the last marked. *)
ByteCount(v) == Min({k \in 1 .. WordBits : v < 2 ^ (GroupBits * k)})

VariableBytes(v) ==
  [i \in 1 .. ByteCount(v) |->
     ((v \div 2 ^ (GroupBits * (i - 1))) % (2 ^ GroupBits))
       + (IF i < ByteCount(v) THEN 2 ^ GroupBits ELSE 0)]

VariableEncode(ids) == FlattenSeq([i \in DOMAIN ids |-> VariableBytes(DeltaEncode(ids)[i])])

(* variable_byte_decode_uint32, byte by byte.  Bits of a group beyond the  *)
(* word are shifted out; a group past the word's last one is refused.      *)
Fresh == [ok |-> TRUE, value |-> 0, shift |-> 0, deltas |-> <<>>]

ReadByte(in, byte) ==
  LET value == (in.value + (byte % (2 ^ GroupBits)) * (2 ^ in.shift)) % (2 ^ WordBits)
      shift == in.shift + GroupBits
  IN  CASE ~in.ok                -> in
        [] byte < 2 ^ GroupBits  -> [Fresh EXCEPT !.deltas = Append(in.deltas, value)]
        [] OTHER                 -> [ok |-> shift < WordBits, value |-> value, shift |-> shift, deltas |-> in.deltas]

VariableDecode(bytes) ==
  LET in == FoldLeft(ReadByte, Fresh, bytes)
  IN  IF in.ok /\ in.shift = 0 THEN DeltaDecode(in.deltas) ELSE Rejected

(* Where each of a sequence of lengths begins, and where the last one ends. *)
Offsets(lengths) == [k \in 1 .. Len(lengths) + 1 |-> FoldLeft(+, 0, SubSeq(lengths, 1, k - 1))]

Blocks(ids, size) ==
  [b \in 1 .. (Len(ids) + size - 1) \div size |-> SubSeq(ids, (b - 1) * size + 1, Min({b * size, Len(ids)}))]

BlockedEncode(ids, size) ==
  LET coded == [b \in DOMAIN Blocks(ids, size) |-> VariableEncode(Blocks(ids, size)[b])]
  IN  [offsets |-> Offsets([b \in DOMAIN coded |-> Len(coded[b])]),
       payload |-> FlattenSeq(coded), count |-> Len(ids)]

(* Each block lies within the payload.                                     *)
OffsetsSound(e) ==
  /\ e.offsets # <<>> /\ e.offsets[1] = 0
  /\ \A b \in 1 .. Len(e.offsets) - 1 :
       e.offsets[b] <= e.offsets[b + 1] /\ e.offsets[b + 1] <= Len(e.payload)

Joined(parts) ==
  IF \A b \in DOMAIN parts : parts[b].ok
  THEN [ok |-> TRUE, ids |-> FlattenSeq([b \in DOMAIN parts |-> parts[b].ids])]
  ELSE Rejected

DecodedBlocks(e) ==
  Joined([b \in 1 .. Len(e.offsets) - 1 |->
            VariableDecode(SubSeq(e.payload, e.offsets[b] + 1, e.offsets[b + 1]))])

(* Mutant: the number of decoded values is not compared. *)
BlockedDecodeUncounted(e) == IF OffsetsSound(e) THEN DecodedBlocks(e) ELSE Rejected

BlockedDecode(e) ==
  IF OffsetsSound(e) /\ Len(DecodedBlocks(e).ids) = e.count THEN DecodedBlocks(e) ELSE Rejected

-----------------------------------------------------------------------------
(* required_lane_bytes of a block. *)
LaneOf(deltas) ==
  LET max == Max({0} \cup ToSet(deltas))
  IN  CHOOSE n \in {1, 2, 4} : max < 2 ^ (n * UnitBits) /\ \A m \in {1, 2, 4} : max < 2 ^ (m * UnitBits) => n <= m

FixedBytes(v, lane) == [i \in 1 .. lane |-> (v \div 2 ^ (UnitBits * (i - 1))) % (2 ^ UnitBits)]

ReadFixed(payload, at, lane) ==
  FoldLeft(+, 0, [i \in 1 .. lane |-> payload[at + i] * 2 ^ (UnitBits * (i - 1))])

FixedEncode(ids, size) ==
  LET deltas == [b \in DOMAIN Blocks(ids, size) |-> DeltaEncode(Blocks(ids, size)[b])]
      lane(b) == LaneOf(deltas[b])
      starts == Offsets([b \in DOMAIN deltas |-> Len(deltas[b])])
      ats    == Offsets([b \in DOMAIN deltas |-> Len(deltas[b]) * lane(b)])
  IN  [count |-> Len(ids),
       blocks |-> [b \in DOMAIN deltas |-> [start |-> starts[b], count |-> Len(deltas[b]),
                                            at |-> ats[b], lane |-> lane(b)]],
       payload |-> FlattenSeq([b \in DOMAIN deltas |->
                     FlattenSeq([i \in DOMAIN deltas[b] |-> FixedBytes(deltas[b][i], lane(b))])])]

(* The checks both decoders make of the blocks, before and after the loop. *)
Sound(e) ==
  LET starts == Offsets([b \in DOMAIN e.blocks |-> e.blocks[b].count])
      ats    == Offsets([b \in DOMAIN e.blocks |-> e.blocks[b].count * e.blocks[b].lane])
  IN  /\ \A b \in DOMAIN e.blocks :
           /\ e.blocks[b].start = starts[b] /\ e.blocks[b].at = ats[b]
           /\ e.blocks[b].count # 0 /\ starts[b + 1] <= e.count
           /\ e.blocks[b].lane \in {1, 2, 4} /\ ats[b + 1] <= Len(e.payload)
      /\ Last(starts) = e.count /\ Last(ats) = Len(e.payload)

(* Whole registers from the front, the tail one by one (unpack_avx2).      *)
Unpack(payload, block, width) ==
  LET whole == (block.count \div width) * width
      tail  == block.at + whole * block.lane
  IN  [k \in 1 .. block.count |->
         IF k <= whole
         THEN ReadFixed(payload, block.at + ((k - 1) \div width) * width * block.lane
                                 + ((k - 1) % width) * block.lane, block.lane)
         ELSE ReadFixed(payload, tail + (k - whole - 1) * block.lane, block.lane)]

(* The scalar decoder is the one of width 1. *)
FixedDecode(e, width) ==
  IF ~Sound(e) THEN Rejected
  ELSE Joined([b \in DOMAIN e.blocks |-> DeltaDecode(Unpack(e.payload, e.blocks[b], width))])

-----------------------------------------------------------------------------
(* Every codec returns the list, over block boundaries, lane widths, equal *)
(* ids and the largest id.                                                 *)
RoundTrips ==
  LET whole == [ok |-> TRUE, ids |-> list]
  IN  /\ VariableDecode(VariableEncode(list)) = whole
      /\ \A size \in BlockSizes :
           /\ BlockedDecode(BlockedEncode(list, size)) = whole
           /\ \A width \in {1, Lanes} : FixedDecode(FixedEncode(list, size), width) = whole

(* Data that lost the end of its payload or its last block is refused, and *)
(* never decoded to a shorter list.                                        *)
CutsRejected ==
  \A size \in BlockSizes :
    LET b == BlockedEncode(list, size)
        f == FixedEncode(list, size)
        fewer == [f EXCEPT !.blocks = Front(@)]
    IN  list # <<>> =>
          /\ \A e \in {[b EXCEPT !.payload = Front(@)], [b EXCEPT !.offsets = Front(@)]} : ~BlockedDecode(e).ok
          /\ \A e \in {[f EXCEPT !.payload = Front(@)], fewer,
                       [fewer EXCEPT !.payload = SubSeq(@, 1, Last(f.blocks).at)]} :
               \A width \in {1, Lanes} : ~FixedDecode(e, width).ok

(* Whatever is decoded is what was encoded.                                *)
CodecsSound == RoundTrips /\ CutsRejected
=============================================================================
