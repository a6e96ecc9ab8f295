---------------------------- MODULE SubChunkFormat ----------------------------
(***************************************************************************)
(* The sub-chunk records of a Bedrock world as Minecraft 1.17.0 writes     *)
(* them: the reference that parseBedrock, which reads them back, is        *)
(* compared with.  Nothing here is taken from the reader.                  *)
(*                                                                         *)
(* A key is the byte string LevelDB stores.  A value is the sequence of    *)
(* its items: one byte (as the signed char that Slice::operator[]          *)
(* returns), one little-endian 32-bit word or size, or one whole NBT tag,  *)
(* a number standing for its contents.  Offsets count items, from 0.       *)
(***************************************************************************)
EXTENDS WorldData

WordBits   == 32
BlockCount == Edge * Edge * Edge
Widths     == {1, 2, 3, 4, 5, 6, 8, 16}
Byte       == 0 .. 255
Int32      == {n \in Int : -2147483647 - 1 <= n /\ n <= 2147483647}

(***************************************************************************)
(* "legible" is how many items the parser of NBT tags gets through.  It    *)
(* reads lengths and some numbers at offsets of 16 bits, which end at byte *)
(* 32767 of the value, wherever the tags of the game are; and a damaged    *)
(* value may have bytes that are no tag.                                   *)
(*                                                                         *)
(* "written" is a ghost the program never reads: whether the record is one *)
(* that the game writes (intact) and, if so, which sub-chunk it is, the    *)
(* tag of each of its blocks in XZY order, and the offsets at which its    *)
(* storages begin, with the end of the last one.                           *)
(***************************************************************************)
Record ==
  [key : Seq(Byte), value : Seq(Int32), legible : Nat,
   written : [intact : BOOLEAN, dim : ChunkDimension, x : Int32, y : Int, z : Int32,
              nbt : [0 .. BlockCount - 1 -> Int], storages : Seq(Nat)]]

-----------------------------------------------------------------------------
(* Keys: two coordinates, the region unless it is the overworld, 0x2F and    *)
(* the index of the sub-chunk.                                               *)

LowByte(n, e) == (n \div e) % 256
Int32Bytes(n) ==
  <<LowByte(n, 1), LowByte(n, 256), LowByte(n, 65536), LowByte(n, 16777216)>>

Region == [OVERWORLD |-> << >>, NETHER |-> Int32Bytes(1), ENDWORLD |-> Int32Bytes(2)]

ChunkKey(d, x, z) == Int32Bytes(x) \o Int32Bytes(z) \o Region[d]
SubChunkKey(d, x, y, z) == ChunkKey(d, x, z) \o <<47, y>>

-----------------------------------------------------------------------------
(* Values: the format 8, the number of storages, and the storages.           *)

\* The fields a word has room for, and the words that the blocks need.
FieldCount(bits) == WordBits \div bits
WordCount(bits)  == (BlockCount + FieldCount(bits) - 1) \div FieldCount(bits)

\* Field j of a word, from the low end; the highest bit of a word is its sign.
FieldAt(word, j, bits) ==
  IF j * bits = WordBits - 1 THEN IF word < 0 THEN 1 ELSE 0
  ELSE (word \div 2^(j * bits)) % 2^bits

\* A storage between two offsets: twice the width, the words, the size of the
\* palette and the palette.
IsStorage(value, first, end) ==
  LET bits == value[first + 1] \div 2
      size == value[first + 2 + WordCount(bits)]
  IN  /\ value[first + 1] % 2 = 0 /\ bits \in Widths
      /\ size \in Nat
      /\ end = first + 2 + WordCount(bits) + size
      /\ end <= Len(value)

\* The tag of block n, in a value whose first storage is at offset 2; indices
\* that the palette does not have are shown as corrupt.
BlockTag(value, n) ==
  LET bits  == value[3] \div 2
      size  == value[4 + WordCount(bits)]
      index == FieldAt(value[4 + n \div FieldCount(bits)], n % FieldCount(bits), bits)
  IN  IF index < size THEN value[5 + WordCount(bits) + index] ELSE Corrupt

\* What it means that a record is intact.
Encoded(r) ==
  LET w == r.written IN
  /\ w.y \in SubChunk /\ w.y < 128
  /\ r.key = SubChunkKey(w.dim, w.x, w.y, w.z)
  /\ Len(r.value) >= 2 /\ r.value[1] = 8 /\ r.value[2] >= 1
  /\ Len(w.storages) = r.value[2] + 1 /\ w.storages[1] = 2
  /\ \A j \in 1 .. r.value[2] : IsStorage(r.value, w.storages[j], w.storages[j + 1])
  /\ \A n \in 0 .. BlockCount - 1 : w.nbt[n] = BlockTag(r.value, n)

===============================================================================
