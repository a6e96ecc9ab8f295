-------------------------- MODULE ParseBedrockProofs --------------------------
(***************************************************************************)
(* Proofs about the scan of module ParseBedrock, for every chunk geometry  *)
(* and every set of databases.                                             *)
(***************************************************************************)
EXTENDS ParseBedrock, SequenceTheorems, TLAPS

-----------------------------------------------------------------------------
(* Arithmetic.                                                               *)

\* The powers of two that an int32_t shift or mask can need are positive.
LEMMA PowersOfTwo == \A n \in 0 .. 31 : 2^n \in Nat \ {0}
<1>1. /\ 2^0 \in Nat \ {0} /\ 2^1 \in Nat \ {0} /\ 2^2 \in Nat \ {0} /\ 2^3 \in Nat \ {0}
      /\ 2^4 \in Nat \ {0} /\ 2^5 \in Nat \ {0} /\ 2^6 \in Nat \ {0} /\ 2^7 \in Nat \ {0}
      /\ 2^8 \in Nat \ {0} /\ 2^9 \in Nat \ {0} /\ 2^10 \in Nat \ {0} /\ 2^11 \in Nat \ {0}
      /\ 2^12 \in Nat \ {0} /\ 2^13 \in Nat \ {0} /\ 2^14 \in Nat \ {0} /\ 2^15 \in Nat \ {0}
  OBVIOUS
<1>2. /\ 2^16 \in Nat \ {0} /\ 2^17 \in Nat \ {0} /\ 2^18 \in Nat \ {0} /\ 2^19 \in Nat \ {0}
      /\ 2^20 \in Nat \ {0} /\ 2^21 \in Nat \ {0} /\ 2^22 \in Nat \ {0} /\ 2^23 \in Nat \ {0}
      /\ 2^24 \in Nat \ {0} /\ 2^25 \in Nat \ {0} /\ 2^26 \in Nat \ {0} /\ 2^27 \in Nat \ {0}
      /\ 2^28 \in Nat \ {0} /\ 2^29 \in Nat \ {0} /\ 2^30 \in Nat \ {0} /\ 2^31 \in Nat \ {0}
  OBVIOUS
<1> SUFFICES ASSUME NEW n \in 0 .. 31 PROVE 2^n \in Nat \ {0}
  OBVIOUS
<1>3. \/ n = 0 \/ n = 1 \/ n = 2 \/ n = 3 \/ n = 4 \/ n = 5 \/ n = 6 \/ n = 7
      \/ n = 8 \/ n = 9 \/ n = 10 \/ n = 11 \/ n = 12 \/ n = 13 \/ n = 14 \/ n = 15
      \/ n = 16 \/ n = 17 \/ n = 18 \/ n = 19 \/ n = 20 \/ n = 21 \/ n = 22 \/ n = 23
      \/ n = 24 \/ n = 25 \/ n = 26 \/ n = 27 \/ n = 28 \/ n = 29 \/ n = 30 \/ n = 31
  OBVIOUS
<1> QED BY <1>1, <1>2, <1>3

\* Division with remainder is unique.
LEMMA DivUnique ==
  ASSUME NEW b \in Nat \ {0}, NEW q \in Int, NEW r \in 0 .. b - 1
  PROVE  (b * q + r) \div b = q /\ (b * q + r) % b = r
  OBVIOUS

\* One more step within a word of b fields, or into the next one.
LEMMA DivStep ==
  ASSUME NEW b \in Nat \ {0}, NEW n \in Nat
  PROVE  /\ n \div b \in Nat /\ n % b \in 0 .. b - 1
         /\ n % b = b - 1 => (n + 1) \div b = n \div b + 1 /\ (n + 1) % b = 0
         /\ n % b # b - 1 => (n + 1) \div b = n \div b /\ (n + 1) % b = (n % b) + 1
<1> DEFINE q == n \div b
           r == n % b
<1>1. q \in Nat /\ r \in 0 .. b - 1 /\ n = b * q + r
  OBVIOUS
<1> HIDE DEF q, r
<1>2. CASE r = b - 1
  <2>1. n + 1 = b * (q + 1) + 0 /\ q + 1 \in Int /\ 0 \in 0 .. b - 1
    BY <1>1, <1>2
  <2>2. (n + 1) \div b = q + 1 /\ (n + 1) % b = 0
    BY ONLY <2>1, DivUnique, b \in Nat \ {0}
  <2> QED BY <1>1, <1>2, <2>2 DEF q, r
<1>3. CASE r # b - 1
  <2>1. n + 1 = b * q + (r + 1) /\ r + 1 \in 0 .. b - 1
    BY <1>1, <1>3
  <2>2. (n + 1) \div b = q /\ (n + 1) % b = r + 1
    BY ONLY <1>1, <2>1, DivUnique, b \in Nat \ {0}
  <2> QED BY <1>1, <1>3, <2>2 DEF q, r
<1> QED BY <1>2, <1>3

\* A position before the end of m words of b fields is in one of them.
LEMMA DivBound ==
  ASSUME NEW b \in Nat \ {0}, NEW m \in Int, NEW n \in Nat, n < m * b
  PROVE  n \div b < m
<1> DEFINE q == n \div b
           r == n % b
<1>1. q \in Nat /\ r \in 0 .. b - 1 /\ n = b * q + r
  OBVIOUS
<1> HIDE DEF q, r
<1>2. SUFFICES ASSUME q >= m PROVE FALSE
  BY <1>1 DEF q
<1>3. b * q >= b * m
  BY <1>1, <1>2
<1> QED BY <1>1, <1>3

-----------------------------------------------------------------------------
(* The operators of the reader.                                              *)

\* Edge, squared and cubed, is positive.
LEMMA EdgeFacts ==
  /\ Edge \in Nat \ {0} /\ SubChunks \in Nat \ {0} /\ Height \in Nat
  /\ Edge * Edge \in Nat \ {0} /\ BlockCount \in Nat \ {0}
<1>1. Edge \in Nat \ {0} /\ SubChunks \in Nat \ {0}
  BY ChunkAssumption
<1>2. Edge * Edge \in Nat \ {0}
  BY <1>1
<1> QED BY <1>1, <1>2 DEF Height, BlockCount

\* A word holds between 1 and 32 fields, and a sub-chunk needs whole words.
LEMMA WordFacts ==
  ASSUME NEW bits \in 1 .. WordBits - 1
  PROVE  /\ blocksPerWord(bits) \in 1 .. WordBits
         /\ blocksPerWord(bits) * bits <= WordBits
         /\ numWords(bits) \in Nat
         /\ Slots(bits) = numWords(bits) * blocksPerWord(bits)
<1>1. blocksPerWord(bits) \in 1 .. WordBits /\ blocksPerWord(bits) * bits <= WordBits
  <2>1. bits \in 1 .. 31
    BY DEF WordBits
  <2>2. 32 \div bits \in Nat /\ 32 = bits * (32 \div bits) + (32 % bits) /\ 32 % bits \in 0 .. bits - 1
    BY <2>1
  <2>3. 32 \div bits # 0
    BY <2>1, <2>2
  <2>4. 32 \div bits <= bits * (32 \div bits)
    BY <2>1, <2>2
  <2> QED BY <2>1, <2>2, <2>3, <2>4 DEF blocksPerWord, WordBits
<1>2. numWords(bits) \in Nat
  BY <1>1, EdgeFacts DEF numWords, WordBits
<1> QED BY <1>1, <1>2 DEF Slots

\* The shift and the mask of a field are defined and the result is an index.
LEMMA FieldType ==
  ASSUME NEW w \in Int, NEW n \in Nat, NEW bits \in 1 .. WordBits - 1
  PROVE  Field(w, n, bits) \in Nat
<1> DEFINE b == blocksPerWord(bits)
           r == n % b
           s == r * bits
<1>1. b \in 1 .. 32 /\ b * bits <= 32 /\ bits \in 1 .. 31
  BY WordFacts DEF WordBits
<1>2. r \in 0 .. b - 1
  BY <1>1
<1> HIDE DEF b, r
<1>3. s \in Nat /\ s <= (b - 1) * bits
  BY <1>1, <1>2
<1>4. s \in 0 .. 31
  BY <1>1, <1>3
<1> HIDE DEF s
<1>5. s \div 2 \in 0 .. 31 /\ s - s \div 2 \in 0 .. 31
  BY <1>4
<1>6. 2^(s \div 2) \in Nat \ {0} /\ 2^(s - s \div 2) \in Nat \ {0} /\ 2^bits \in Nat \ {0}
  <2>1. bits \in 0 .. 31
    BY <1>1
  <2> QED BY ONLY <1>5, <2>1, PowersOfTwo, Zenon
<1>7. ShiftRight(w, s) \in Int
  BY <1>6 DEF ShiftRight
<1> QED BY <1>6, <1>7 DEF Field, s, r, b

\* A block whose world height lies in the column lies in sub-chunk c.
LEMMA HeightFacts ==
  ASSUME NEW r \in Side, NEW c \in Int, r + Edge * c \in 0 .. Height - 1
  PROVE  c \in SubChunk /\ (r + Edge * c) \div Edge = c
<1> USE EdgeFacts DEF Side, SubChunk, Height
<1>1. (r + Edge * c) \div Edge = c
  BY DivUnique
<1>2. c >= 0
  <2>1. SUFFICES ASSUME c <= -1 PROVE FALSE
    OBVIOUS
  <2>2. Edge * c <= Edge * (-1)
    BY <2>1
  <2> QED BY <2>2
<1>3. c < SubChunks
  <2>1. SUFFICES ASSUME c >= SubChunks PROVE FALSE
    OBVIOUS
  <2>2. Edge * c >= Edge * SubChunks
    BY <2>1
  <2> QED BY <2>2
<1> QED BY <1>1, <1>2, <1>3

\* A position always maps into the sub-chunk, the padding positions included.
LEMMA RawFacts ==
  ASSUME NEW n \in Nat
  PROVE  rawX(n) \in Side /\ rawY(n) \in Side /\ rawZ(n) \in Side
<1>1. n \div (Edge * Edge) \in Nat /\ n \div Edge \in Nat
  BY EdgeFacts
<1> QED BY <1>1, EdgeFacts DEF rawX, rawY, rawZ, Side

\* What is read from a sub-chunk key has its type.
LEMMA KeyFacts ==
  ASSUME NEW key \in Seq(Byte), isSubChunkKey(key)
  PROVE  /\ parseInt32(key, 0) \in Int /\ parseInt32(key, 4) \in Int
         /\ signedChar(key[Len(key)]) \in Int
         /\ keyDimension(key) \in ChunkDimension
<1>1. Len(key) = 10 \/ Len(key) = 14
  BY DEF isSubChunkKey
<1>2. \A n \in 1 .. Len(key) : key[n] \in Byte
  BY ONLY ElementOfSeq, key \in Seq(Byte)
<1>3. \A b \in Byte : b \in Int
  BY DEF Byte
<1>4. \A n \in 1 .. Len(key) : key[n] \in Int
  BY ONLY <1>2, <1>3
<1>5. /\ key[1] \in Int /\ key[2] \in Int /\ key[3] \in Int /\ key[4] \in Int
      /\ key[5] \in Int /\ key[6] \in Int /\ key[7] \in Int /\ key[8] \in Int
      /\ key[Len(key)] \in Int
  BY ONLY <1>1, <1>4
<1>6. \A b \in Int : signedChar(b) \in Int
  BY DEF signedChar
<1>7. \A b0, b1, b2, b3 \in Int : littleEndian(b0, b1, b2, b3) \in Int
  BY <1>6 DEF littleEndian
<1>8. /\ parseInt32(key, 0) = littleEndian(key[1], key[2], key[3], key[4])
      /\ parseInt32(key, 4) = littleEndian(key[5], key[6], key[7], key[8])
  BY DEF parseInt32
<1>9. littleEndian(key[1], key[2], key[3], key[4]) \in Int
  BY ONLY <1>5, <1>7, Zenon
<1>10. littleEndian(key[5], key[6], key[7], key[8]) \in Int
  BY ONLY <1>5, <1>7, Zenon
<1>11. signedChar(key[Len(key)]) \in Int
  BY ONLY <1>5, <1>6, Zenon
<1>12. keyDimension(key) \in ChunkDimension
  BY DEF keyDimension, ChunkDimension
<1> QED BY ONLY <1>8, <1>9, <1>10, <1>11, <1>12, Zenon

-----------------------------------------------------------------------------
(* Chunks and the heap.                                                      *)

\* The constructor makes a chunk, whatever its palettes will hold.
LEMMA NewChunkType ==
  ASSUME NEW T, NEW x \in Int, NEW z \in Int
  PROVE  NewChunk(x, z) \in ChunkOver(T)
  BY DEF NewChunk, ChunkOver, Unset

\* addBlock changes one block of the chunk and nothing else.
LEMMA AddBlockFacts ==
  ASSUME NEW T, NEW c \in ChunkOver(T), NEW s \in Int, NEW x, NEW y, NEW z,
         <<x, y, z>> \in Cell
  PROVE  /\ addBlock(c, s, x, y, z) \in ChunkOver(T)
         /\ addBlock(c, s, x, y, z).x = c.x
         /\ addBlock(c, s, x, y, z).z = c.z
         /\ addBlock(c, s, x, y, z).blockStates = c.blockStates
         /\ addBlock(c, s, x, y, z).blocks = [c.blocks EXCEPT ![<<x, y, z>>] = s]
  BY DEF addBlock, ChunkOver

\* addBlockState makes one palette of the chunk longer and changes nothing else.
LEMMA AddBlockStateFacts ==
  ASSUME NEW T, NEW c \in ChunkOver(T), NEW y \in SubChunk, NEW t \in T
  PROVE  /\ addBlockState(c, y, t) \in ChunkOver(T)
         /\ addBlockState(c, y, t).x = c.x
         /\ addBlockState(c, y, t).z = c.z
         /\ addBlockState(c, y, t).blocks = c.blocks
         /\ addBlockState(c, y, t).blockStates
              = [c.blockStates EXCEPT ![y] = Append(c.blockStates[y], t)]
<1> DEFINE grown == [c.blockStates EXCEPT ![y] = Append(c.blockStates[y], t)]
<1>1. Append(c.blockStates[y], t) \in Seq(T)
  BY DEF ChunkOver
<1>2. grown \in [SubChunk -> Seq(T)]
  BY <1>1 DEF ChunkOver
<1>3. addBlockState(c, y, t) = [c EXCEPT !.blockStates = grown]
  BY DEF addBlockState, ChunkOver
<1> HIDE DEF grown
<1>4. [c EXCEPT !.blockStates = grown] \in ChunkOver(T)
  BY <1>2 DEF ChunkOver
<1>5. /\ addBlockState(c, y, t).x = c.x /\ addBlockState(c, y, t).z = c.z
      /\ addBlockState(c, y, t).blocks = c.blocks
      /\ addBlockState(c, y, t).blockStates = grown
  BY <1>3 DEF ChunkOver
<1> QED BY <1>3, <1>4, <1>5 DEF grown

\* Every cell lies in one of the sub-chunks.
LEMMA CellFacts ==
  ASSUME NEW cell \in Cell
  PROVE  cell[2] \div Edge \in SubChunk
<1>1. cell[2] \in Nat /\ cell[2] < SubChunks * Edge
  BY EdgeFacts DEF Cell, Height
<1>2. cell[2] \div Edge < SubChunks
  BY ONLY <1>1, EdgeFacts, DivBound
<1>3. cell[2] \div Edge \in Nat
  BY <1>1, EdgeFacts
<1> QED BY <1>2, <1>3, EdgeFacts DEF SubChunk

\* PaletteIndexInBounds as a property of a heap.
InBounds(h) ==
  \A c \in DOMAIN h : \A cell \in Cell :
    h[c].blocks[cell] >= 0 =>
      h[c].blocks[cell] < Len(h[c].blockStates[cell[2] \div Edge])

\* The heap after addBlockState and after addBlock on one of its chunks.
HeapAddState(h, c, y, t) == [h EXCEPT ![c] = addBlockState(h[c], y, t)]
HeapAddBlock(h, c, s, x, y, z) == [h EXCEPT ![c] = addBlock(h[c], s, x, y, z)]

\* A longer palette keeps the heap's type, its blocks and all indices in bounds.
LEMMA PaletteGrows ==
  ASSUME NEW T, NEW h \in Seq(ChunkOver(T)), NEW c \in 1 .. Len(h),
         NEW y \in SubChunk, NEW t \in T, InBounds(h),
         NEW g, g = HeapAddState(h, c, y, t)
  PROVE  /\ g \in Seq(ChunkOver(T)) /\ Len(g) = Len(h)
         /\ Len(g[c].blockStates[y]) = Len(h[c].blockStates[y]) + 1
         /\ InBounds(g)
<1> DEFINE e == addBlockState(h[c], y, t)
<1>1. h[c] \in ChunkOver(T)
  BY ONLY ElementOfSeq, h \in Seq(ChunkOver(T)), c \in 1 .. Len(h)
<1>2. /\ e \in ChunkOver(T)
      /\ e.blocks = h[c].blocks
      /\ e.blockStates = [h[c].blockStates EXCEPT ![y] = Append(h[c].blockStates[y], t)]
  BY ONLY <1>1, AddBlockStateFacts, y \in SubChunk, t \in T
<1> HIDE DEF e
<1>3. /\ g \in Seq(ChunkOver(T)) /\ Len(g) = Len(h)
      /\ \A d \in 1 .. Len(h) : g[d] = IF d = c THEN e ELSE h[d]
  BY ONLY <1>2, ExceptSeq, h \in Seq(ChunkOver(T)), c \in 1 .. Len(h),
          g = HeapAddState(h, c, y, t) DEF e, HeapAddState
<1>4. h[c].blockStates \in [SubChunk -> Seq(T)]
  BY <1>1 DEF ChunkOver
<1>5. \A s \in SubChunk :
        e.blockStates[s] = IF s = y THEN Append(h[c].blockStates[y], t) ELSE h[c].blockStates[s]
  BY <1>2, <1>4
<1>6. \A q \in Seq(T) : Len(q) \in Nat /\ Len(Append(q, t)) = Len(q) + 1
  BY t \in T
<1>7. /\ Len(e.blockStates[y]) = Len(h[c].blockStates[y]) + 1
      /\ \A s \in SubChunk : /\ Len(h[c].blockStates[s]) \in Nat
                              /\ Len(e.blockStates[s]) \in Nat
                              /\ Len(h[c].blockStates[s]) <= Len(e.blockStates[s])
  <2>1. \A s \in SubChunk : h[c].blockStates[s] \in Seq(T)
    BY ONLY <1>4, Zenon
  <2>2. \A s \in SubChunk : Len(h[c].blockStates[s]) \in Nat
    BY ONLY <1>6, <2>1, Zenon
  <2>3. Len(e.blockStates[y]) = Len(h[c].blockStates[y]) + 1
    BY ONLY <1>5, <1>6, <2>1, y \in SubChunk, Zenon
  <2>4. \A s \in SubChunk : s # y => Len(e.blockStates[s]) = Len(h[c].blockStates[s])
    BY ONLY <1>5, Zenon
  <2>5. \A m \in Nat : m + 1 \in Nat /\ m <= m /\ m <= m + 1
    OBVIOUS
  <2> QED BY ONLY <2>2, <2>3, <2>4, <2>5, y \in SubChunk, Zenon
<1>8. DOMAIN g = 1 .. Len(h) /\ DOMAIN h = 1 .. Len(h)
  BY ONLY <1>3, LenProperties, h \in Seq(ChunkOver(T))
<1>9. ASSUME NEW d \in DOMAIN g, NEW cell \in Cell, g[d].blocks[cell] >= 0
      PROVE  g[d].blocks[cell] < Len(g[d].blockStates[cell[2] \div Edge])
  <2>1. CASE d # c
    BY <1>3, <1>8, <1>9, <2>1 DEF InBounds
  <2>2. CASE d = c
    <3>1. g[d].blocks[cell] = h[c].blocks[cell] /\ h[c].blocks[cell] \in Int
      BY <1>1, <1>2, <1>3, <2>2 DEF ChunkOver
    <3>2. h[c].blocks[cell] < Len(h[c].blockStates[cell[2] \div Edge])
      BY <1>8, <1>9, <2>2, <3>1 DEF InBounds
    <3> QED BY <1>3, <1>7, <2>2, <3>1, <3>2, CellFacts
  <2> QED BY <2>1, <2>2
<1>10. InBounds(g)
  BY <1>9 DEF InBounds
<1> QED BY <1>3, <1>7, <1>10

\* So does a block whose state is negative or an index of its palette.
LEMMA BlockPlaced ==
  ASSUME NEW T, NEW h \in Seq(ChunkOver(T)), NEW c \in 1 .. Len(h), InBounds(h),
         NEW x, NEW y \in Int, NEW z, <<x, y, z>> \in Cell, NEW s \in Int,
         s >= 0 => s < Len(h[c].blockStates[y \div Edge]),
         NEW g, g = HeapAddBlock(h, c, s, x, y, z)
  PROVE  /\ g \in Seq(ChunkOver(T)) /\ Len(g) = Len(h)
         /\ g[c].blockStates = h[c].blockStates
         /\ InBounds(g)
<1> DEFINE e == addBlock(h[c], s, x, y, z)
<1>1. h[c] \in ChunkOver(T)
  BY ONLY ElementOfSeq, h \in Seq(ChunkOver(T)), c \in 1 .. Len(h)
<1>2. /\ e \in ChunkOver(T)
      /\ e.blockStates = h[c].blockStates
      /\ e.blocks = [h[c].blocks EXCEPT ![<<x, y, z>>] = s]
  BY ONLY <1>1, AddBlockFacts, <<x, y, z>> \in Cell, s \in Int
<1> HIDE DEF e
<1>3. /\ g \in Seq(ChunkOver(T)) /\ Len(g) = Len(h)
      /\ \A d \in 1 .. Len(h) : g[d] = IF d = c THEN e ELSE h[d]
  BY ONLY <1>2, ExceptSeq, h \in Seq(ChunkOver(T)), c \in 1 .. Len(h),
          g = HeapAddBlock(h, c, s, x, y, z) DEF e, HeapAddBlock
<1>4. h[c].blocks \in [Cell -> Int]
  BY <1>1 DEF ChunkOver
<1>5. \A cell \in Cell : e.blocks[cell] = IF cell = <<x, y, z>> THEN s ELSE h[c].blocks[cell]
  BY ONLY <1>2, <1>4, <<x, y, z>> \in Cell, Zenon
<1>6. DOMAIN g = 1 .. Len(h) /\ DOMAIN h = 1 .. Len(h)
  BY ONLY <1>3, LenProperties, h \in Seq(ChunkOver(T))
<1>7. ASSUME NEW d \in DOMAIN g, NEW cell \in Cell, g[d].blocks[cell] >= 0
      PROVE  g[d].blocks[cell] < Len(g[d].blockStates[cell[2] \div Edge])
  <2>1. CASE d # c
    BY <1>3, <1>6, <1>7, <2>1 DEF InBounds
  <2>2. CASE d = c /\ cell # <<x, y, z>>
    BY <1>2, <1>3, <1>5, <1>6, <1>7, <2>2, ZenonT(60) DEF InBounds
  <2>3. CASE d = c /\ cell = <<x, y, z>>
    <3>1. cell[2] = y /\ g[d].blocks[cell] = s
      BY <1>3, <1>5, <2>3
    <3> QED BY <1>2, <1>3, <1>7, <2>3, <3>1
  <2> QED BY <2>1, <2>2, <2>3
<1>8. InBounds(g)
  BY <1>7 DEF InBounds
<1> QED BY <1>2, <1>3, <1>8

\* A new chunk has no block, so it has no index out of bounds.
LEMMA ChunkAppended ==
  ASSUME NEW T, NEW h \in Seq(ChunkOver(T)), InBounds(h), NEW x \in Int, NEW z \in Int,
         NEW g, g = Append(h, NewChunk(x, z))
  PROVE  /\ g \in Seq(ChunkOver(T)) /\ Len(g) = Len(h) + 1
         /\ InBounds(g)
<1> DEFINE e == NewChunk(x, z)
<1>1. e \in ChunkOver(T) /\ \A cell \in Cell : e.blocks[cell] = -1
  BY NewChunkType DEF NewChunk, Unset
<1> HIDE DEF e
<1>2. g = Append(h, e)
  BY DEF e
<1>3. /\ g \in Seq(ChunkOver(T)) /\ Len(g) = Len(h) + 1
      /\ \A c \in 1 .. Len(h) : g[c] = h[c]
      /\ g[Len(h) + 1] = e
  BY ONLY <1>1, <1>2, h \in Seq(ChunkOver(T))
<1>4. Len(h) \in Nat /\ DOMAIN h = 1 .. Len(h) /\ DOMAIN g = 1 .. Len(h) + 1
  BY ONLY <1>3, LenProperties, h \in Seq(ChunkOver(T))
<1>5. ASSUME NEW c \in DOMAIN g, NEW cell \in Cell, g[c].blocks[cell] >= 0
      PROVE  g[c].blocks[cell] < Len(g[c].blockStates[cell[2] \div Edge])
  <2>1. c \in 1 .. Len(h)
    BY <1>1, <1>3, <1>4, <1>5
  <2> QED BY <1>3, <1>4, <1>5, <2>1 DEF InBounds
<1> QED BY <1>3, <1>5 DEF InBounds

\* The maps point to allocated chunks, also after addChunk.
LEMMA AddChunkFacts ==
  ASSUME NEW w, DOMAIN w = ChunkDimension, NEW n \in Nat,
         \A d \in ChunkDimension : w[d] \in [DOMAIN w[d] -> 1 .. n],
         NEW c, NEW dim \in ChunkDimension,
         NEW u, u = addChunk(w, c, n + 1, dim)
  PROVE  /\ DOMAIN u = ChunkDimension
         /\ \A d \in ChunkDimension : u[d] \in [DOMAIN u[d] -> 1 .. n + 1]
<1> DEFINE id == chunkID(c.x, c.z)
           m  == [j \in DOMAIN w[dim] \cup {id} |-> IF j = id THEN n + 1 ELSE w[dim][j]]
<1>1. u = [w EXCEPT ![dim] = m]
  BY DEF addChunk
<1>2. m \in [DOMAIN m -> 1 .. n + 1]
  OBVIOUS
<1> HIDE DEF m
<1>3. DOMAIN u = ChunkDimension /\ \A d \in ChunkDimension : u[d] = IF d = dim THEN m ELSE w[d]
  BY <1>1
<1>4. ASSUME NEW d \in ChunkDimension, d # dim
      PROVE  u[d] \in [DOMAIN u[d] -> 1 .. n + 1]
  <2>1. u[d] = w[d] /\ w[d] \in [DOMAIN w[d] -> 1 .. n]
    BY <1>3, <1>4
  <2>2. 1 .. n \subseteq 1 .. n + 1
    OBVIOUS
  <2> QED BY <2>1, <2>2
<1>5. u[dim] \in [DOMAIN u[dim] -> 1 .. n + 1]
  BY <1>2, <1>3
<1> QED BY <1>3, <1>4, <1>5

\* findChunk returns null or an allocated chunk.
LEMMA FindChunkFacts ==
  ASSUME NEW w, NEW n \in Nat, NEW dim, w[dim] \in [DOMAIN w[dim] -> 1 .. n], NEW id
  PROVE  findChunk(w, id, dim) \in 0 .. n
  BY DEF findChunk, nullptr

-----------------------------------------------------------------------------
(* The scan.                                                                 *)

\* Before the database is opened the invariant holds: there is no chunk yet.
LEMMA InitInv == Init => ScanInv
<1> SUFFICES ASSUME Init PROVE ScanInv
  OBVIOUS
<1>1. db \in Seq(Record) /\ Len(db) \in Nat
  BY DatabaseAssumption DEF Init
<1>2. TypeOK
  <2>1. /\ DOMAIN world = ChunkDimension
        /\ \A d \in ChunkDimension : world[d] \in [DOMAIN world[d] -> 1 .. Len(heap)]
    BY DEF Init, EmptyWorld
  <2>2. heap \in Seq(ChunkOver(RootTag)) /\ Len(heap) = 0
    BY DEF Init
  <2> QED BY <1>1, <2>1, <2>2 DEF TypeOK, Init, Phase, Terminal, nullptr, WordBits
<1>3. PaletteIndexInBounds
  BY DEF PaletteIndexInBounds, Init
<1> QED BY <1>2, <1>3 DEF ScanInv, CursorInv, Storing, Init

\* A step that leaves the decoded data alone and is not inside a record.
LEMMA QuietStep ==
  ASSUME ScanInv,
         UNCHANGED <<db, storeVars, recordVars, currOffset, storageVars>>,
         it' \in 1 .. Len(db) + 1, unread' \in SUBSET (1 .. Len(db)),
         pc' \in Phase, pc' \notin {"storage", "palette", "blocks"}
  PROVE  ScanInv'
<1>1. TypeOK'
  BY DEF ScanInv, TypeOK, storeVars, recordVars, storageVars
<1>2. CursorInv' /\ (Storing => PaletteInv)'
  BY DEF CursorInv, Storing
<1>3. PaletteIndexInBounds'
  BY DEF ScanInv, PaletteIndexInBounds, storeVars
<1> QED BY <1>1, <1>2, <1>3 DEF ScanInv

\* Where the scan ends, or is about to start, the invariant is kept.
LEMMA StopStep ==
  ASSUME ScanInv, NEW phase \in Terminal \cup {"iterate"}, StopWith(phase)
  PROVE  ScanInv'
  BY QuietStep DEF StopWith, Goto, ScanInv, TypeOK, Phase, Terminal

\* Passing over one or more records keeps the invariant.
LEMMA NextRecordStep ==
  ASSUME ScanInv, AtRecord, NEW n \in it + 1 .. Len(db) + 1, NextRecord(n),
         unread' \subseteq unread \cup (it .. n - 1)
  PROVE  ScanInv'
<1>1. it \in 1 .. Len(db) + 1 /\ Len(db) \in Nat /\ unread \subseteq 1 .. Len(db) /\ pc = "iterate"
  BY DEF ScanInv, TypeOK, AtRecord
<1>2. n \in 1 .. Len(db) + 1 /\ unread' \subseteq 1 .. Len(db)
  BY <1>1
<1> QED BY <1>1, <1>2, QuietStep DEF NextRecord, Phase

\* The current record, and what is read from it, has its type.
LEMMA RecordFacts ==
  ASSUME TypeOK, it <= Len(db)
  PROVE  /\ k \in Seq(Byte) /\ Len(v) \in Nat
         /\ \A n \in Nat : Readable(n) => Item(n) \in Int
<1>1. db[it] \in Record
  BY DEF TypeOK
<1>2. k \in Seq(Byte) /\ v \in Seq(Int32)
  BY <1>1 DEF Record, k, v
<1>3. \A n \in Int32 : n \in Int
  BY SMT DEF Int32
<1> HIDE DEF k, v
<1>4. Len(v) \in Nat /\ \A n \in 1 .. Len(v) : v[n] \in Int32
  BY <1>2
<1> QED BY <1>2, <1>3, <1>4 DEF Readable, Item

\* The chunk under construction is allocated; so are its palettes.
LEMMA CurrChunkFacts ==
  ASSUME TypeOK, currChunk # nullptr
  PROVE  /\ currChunk \in 1 .. Len(heap)
         /\ heap[currChunk] \in ChunkOver(RootTag)
         /\ \A s \in SubChunk : Len(heap[currChunk].blockStates[s]) \in Nat
<1>1. currChunk \in 1 .. Len(heap) /\ heap \in Seq(ChunkOver(RootTag))
  BY DEF TypeOK, nullptr
<1>2. heap[currChunk] \in ChunkOver(RootTag)
  BY ONLY <1>1, ElementOfSeq
<1>3. \A s \in SubChunk : heap[currChunk].blockStates[s] \in Seq(RootTag)
  BY <1>2 DEF ChunkOver
<1> QED BY <1>1, <1>2, <1>3, LenProperties

\* The two ways to state that all palette indices are in bounds agree.
LEMMA InBoundsHeap == PaletteIndexInBounds <=> InBounds(heap)
  BY DEF PaletteIndexInBounds, InBounds

\* A sub-chunk begins: its chunk is found, or allocated and put into the world.
LEMMA BeginSubChunkStep == ASSUME ScanInv, BeginSubChunk PROVE ScanInv'
<1>1. TypeOK /\ it \in 1 .. Len(db) /\ InBounds(heap)
  BY InBoundsHeap DEF ScanInv, TypeOK, BeginSubChunk, AtRecord
<1>2. /\ isSubChunkKey(k) /\ Item(1) \in Int
      /\ chunkX \in Int /\ chunkZ \in Int /\ dimension \in ChunkDimension
  BY <1>1, RecordFacts, KeyFacts DEF BeginSubChunk, chunkX, chunkZ, dimension
<1> DEFINE found == findChunk(world, chunkID(chunkX, chunkZ), dimension)
<1>3. Len(heap) \in Nat /\ heap \in Seq(ChunkOver(RootTag)) /\ totalChunks \in Nat
  BY <1>1 DEF TypeOK
<1>4. /\ heap' \in Seq(ChunkOver(RootTag)) /\ InBounds(heap')
      /\ DOMAIN world' = ChunkDimension
      /\ \A d \in ChunkDimension : world'[d] \in [DOMAIN world'[d] -> 1 .. Len(heap')]
      /\ totalChunks' \in Nat /\ currChunk' \in 1 .. Len(heap')
  <2>1. CASE found = nullptr
    <3>1. /\ totalChunks' = totalChunks + 1
          /\ heap' = Append(heap, NewChunk(chunkX, chunkZ))
          /\ world' = addChunk(world, NewChunk(chunkX, chunkZ), Len(heap) + 1, dimension)
          /\ currChunk' = Len(heap) + 1
      BY <2>1 DEF BeginSubChunk
    <3>2. heap' \in Seq(ChunkOver(RootTag)) /\ Len(heap') = Len(heap) + 1 /\ InBounds(heap')
      BY ONLY <1>1, <1>2, <1>3, <3>1, ChunkAppended
    <3>3. /\ DOMAIN world' = ChunkDimension
          /\ \A d \in ChunkDimension : world'[d] \in [DOMAIN world'[d] -> 1 .. Len(heap) + 1]
      BY <1>1, <1>2, <1>3, <3>1, AddChunkFacts, ZenonT(60) DEF TypeOK
    <3> QED BY <1>3, <3>1, <3>2, <3>3
  <2>2. CASE found # nullptr
    <3>1. currChunk' = found /\ UNCHANGED <<world, heap, totalChunks>>
      BY <2>2 DEF BeginSubChunk, storeVars
    <3>2. found \in 0 .. Len(heap)
      BY <1>1, <1>2, <1>3, FindChunkFacts DEF TypeOK
    <3> QED BY <1>1, <1>3, <2>2, <3>1, <3>2 DEF TypeOK, nullptr
  <2> QED BY <2>1, <2>2
<1> HIDE DEF found
<1>5. TypeOK'
  BY <1>1, <1>2, <1>4 DEF TypeOK, BeginSubChunk, Goto, Phase, storageVars, nullptr
<1>6. CursorInv' /\ (Storing => PaletteInv)'
  BY <1>2 DEF BeginSubChunk, Goto, CursorInv, PaletteInv, Storing, k
<1>7. PaletteIndexInBounds'
  BY <1>4 DEF PaletteIndexInBounds, InBounds
<1> QED BY <1>5, <1>6, <1>7 DEF ScanInv

\* A sub-chunk ends: the iterator is at most one past the last record.
LEMMA EndSubChunkStep == ASSUME ScanInv, EndSubChunk PROVE ScanInv'
<1>1. it \in 1 .. Len(db) /\ Len(db) \in Nat /\ unread \subseteq 1 .. Len(db)
  BY DEF ScanInv, TypeOK, EndSubChunk
<1>2. it' \in 1 .. Len(db) + 1 /\ unread' \subseteq 1 .. Len(db)
  BY <1>1 DEF EndSubChunk
<1> QED BY <1>2, QuietStep DEF EndSubChunk, Goto, Phase

\* A storage begins: the palette size was read, so the words before it are there.
LEMMA BeginStorageStep == ASSUME ScanInv, BeginStorage PROVE ScanInv'
<1>1. /\ TypeOK /\ it <= Len(db) /\ currChunk # nullptr /\ isSubChunkKey(k)
      /\ pc = "storage"
  BY DEF ScanInv, TypeOK, CursorInv, Storing, BeginStorage, AtStorage
<1>2. currOffset \in Nat /\ numWords(storageBits) \in Nat
  BY <1>1, WordFacts DEF TypeOK, BeginStorage
<1>3. sizeOffset \in Nat /\ Item(sizeOffset) \in Int
  BY <1>1, <1>2, RecordFacts DEF BeginStorage, sizeOffset
<1>4. TypeOK'
  BY <1>1, <1>2, <1>3 DEF TypeOK, BeginStorage, Goto, Phase, storeVars, recordVars
<1>5. CursorInv'
  <2>1. blockDataOffset' + numWords(bitsPerBlock') < Len(v)
    BY DEF BeginStorage, sizeOffset, Readable
  <2> QED BY <1>1, <2>1 DEF CursorInv, Storing, BeginStorage, Goto, k, v
<1>6. PaletteInv'
  BY <1>1, CurrChunkFacts
     DEF PaletteInv, BeginStorage, Goto, chunkY, k, storeVars, recordVars
<1>7. PaletteIndexInBounds'
  BY DEF ScanInv, PaletteIndexInBounds, BeginStorage, storeVars
<1> QED BY <1>4, <1>5, <1>6, <1>7 DEF ScanInv

\* A palette entry: p counts entries that are in the palette.
LEMMA AddPaletteEntryStep == ASSUME ScanInv, AddPaletteEntry PROVE ScanInv'
<1>1. /\ TypeOK /\ it <= Len(db) /\ currChunk # nullptr /\ InBounds(heap)
      /\ pc = "palette" /\ chunkY \in SubChunk
  BY InBoundsHeap DEF ScanInv, TypeOK, AddPaletteEntry, AtEntry
<1>2. currChunk \in 1 .. Len(heap) /\ heap \in Seq(ChunkOver(RootTag))
  BY <1>1, CurrChunkFacts DEF TypeOK
<1> DEFINE rootTag == [rec |-> it, storage |-> i, entry |-> p, nbt |-> Item(currOffset)]
<1>3. rootTag \in RootTag
  <2>1. Item(currOffset) \in Int
    BY <1>1, RecordFacts DEF TypeOK, AddPaletteEntry, Legible
  <2> QED BY <1>1, <2>1 DEF TypeOK, RootTag
<1>4. heap' = HeapAddState(heap, currChunk, chunkY, rootTag)
  BY DEF AddPaletteEntry, HeapAddState
<1> HIDE DEF rootTag
<1>5. /\ heap' \in Seq(ChunkOver(RootTag)) /\ Len(heap') = Len(heap)
      /\ Len(heap'[currChunk].blockStates[chunkY])
           = Len(heap[currChunk].blockStates[chunkY]) + 1
      /\ InBounds(heap')
  BY ONLY <1>1, <1>2, <1>3, <1>4, PaletteGrows
<1>6. UNCHANGED <<db, it, unread, pc, world, totalChunks, currChunk, storageNum, i,
                  bitsPerBlock, blockDataOffset, paletteOffset, paletteSize, pos>>
  BY DEF AddPaletteEntry, recordVars
<1>7. p \in Nat /\ currOffset \in Nat /\ p' = p + 1 /\ currOffset' = currOffset + 1
  BY DEF AddPaletteEntry, ScanInv, TypeOK
<1>8. TypeOK'
  BY <1>1, <1>5, <1>6, <1>7 DEF TypeOK
<1>9. CursorInv'
  BY <1>1, <1>6 DEF ScanInv, CursorInv, Storing, k, v
<1>10. PaletteInv'
  <2>1. p <= Len(heap[currChunk].blockStates[chunkY])
    BY <1>1 DEF ScanInv, PaletteInv, Storing
  <2>2. p + 1 <= Len(heap'[currChunk].blockStates[chunkY])
    BY ONLY <1>1, <1>5, <1>7, <2>1, CurrChunkFacts
  <2> QED BY <1>1, <1>6, <1>7, <2>2 DEF PaletteInv, chunkY, k
<1>11. PaletteIndexInBounds'
  BY <1>5 DEF PaletteIndexInBounds, InBounds
<1> QED BY <1>8, <1>9, <1>10, <1>11 DEF ScanInv

\* The palette ends: it has all paletteSize entries, and the cursor is on word 0.
LEMMA EndPaletteStep == ASSUME ScanInv, EndPalette PROVE ScanInv'
<1>1. /\ TypeOK /\ it <= Len(db) /\ currChunk # nullptr /\ pc = "palette"
      /\ p \in Nat /\ paletteSize \in Int /\ bitsPerBlock \in 1 .. WordBits - 1
  BY DEF ScanInv, TypeOK, EndPalette
<1>2. UNCHANGED <<db, it, unread, world, heap, totalChunks, currChunk, storageNum, i,
                  bitsPerBlock, blockDataOffset, paletteSize, p>>
  BY DEF EndPalette, storeVars, recordVars
<1>3. TypeOK'
  BY <1>1, <1>2 DEF TypeOK, EndPalette, Goto, Phase
<1>4. CursorInv'
  <2>1. 0 \div blocksPerWord(bitsPerBlock) = 0 /\ 0 % blocksPerWord(bitsPerBlock) = 0
    BY <1>1, WordFacts
  <2>2. blockDataOffset \in Nat
    BY <1>1 DEF TypeOK
  <2>3. firstSlot'
    BY <1>2, <2>1 DEF EndPalette, firstSlot
  <2>4. currOffset' = blockDataOffset' + (pos' \div blocksPerWord(bitsPerBlock')) + 0
    BY <1>2, <2>1, <2>2 DEF EndPalette
  <2>5. isSubChunkKey(k) /\ blockDataOffset + numWords(bitsPerBlock) < Len(v)
    BY <1>1 DEF ScanInv, CursorInv, Storing
  <2> QED BY <1>2, <2>3, <2>4, <2>5 DEF CursorInv, k, v
<1>5. PaletteInv'
  <2>1. chunkY \in SubChunk => paletteSize <= Len(heap[currChunk].blockStates[chunkY])
    BY <1>1, CurrChunkFacts DEF ScanInv, PaletteInv, Storing, EndPalette
  <2> QED BY <1>2, <2>1 DEF PaletteInv, EndPalette, Goto, chunkY, k
<1>6. PaletteIndexInBounds'
  BY <1>2 DEF ScanInv, PaletteIndexInBounds
<1> QED BY <1>3, <1>4, <1>5, <1>6 DEF ScanInv

\* The word of the current block is among those that were jumped over.
LEMMA BlockWord ==
  ASSUME ScanInv, AtBlock
  PROVE  /\ Readable(IF firstSlot THEN currOffset ELSE currOffset - 1)
         /\ word \in Int
<1> DEFINE b == blocksPerWord(bitsPerBlock)
           n == numWords(bitsPerBlock)
           o == IF firstSlot THEN currOffset ELSE currOffset - 1
<1>1. /\ TypeOK /\ it <= Len(db) /\ pos \in Nat /\ blockDataOffset \in Nat
      /\ currOffset \in Nat
      /\ bitsPerBlock \in 1 .. WordBits - 1 /\ pos < Slots(bitsPerBlock)
  BY DEF ScanInv, TypeOK, AtBlock
<1>2. b \in Nat \ {0} /\ n \in Int /\ pos < n * b
  <2>1. b \in 1 .. WordBits /\ n \in Nat /\ Slots(bitsPerBlock) = n * b
    BY ONLY <1>1, WordFacts
  <2> HIDE DEF b, n
  <2> QED BY <1>1, <2>1 DEF WordBits
<1>3. blockDataOffset + n < Len(v)
  BY DEF ScanInv, CursorInv, AtBlock
<1>4. currOffset = blockDataOffset + (pos \div b) + (IF firstSlot THEN 0 ELSE 1)
  BY DEF ScanInv, CursorInv, AtBlock
<1> HIDE DEF b, n
<1>5. pos \div b \in Nat /\ pos \div b < n
  BY ONLY <1>1, <1>2, DivBound, DivStep
<1>6. o = blockDataOffset + (pos \div b)
  BY <1>1, <1>4, <1>5
<1>7. Len(v) \in Nat
  BY <1>1, RecordFacts
<1>8. o \in Nat /\ o < Len(v)
  BY ONLY <1>1, <1>2, <1>3, <1>5, <1>6, <1>7
<1> HIDE DEF o
<1>9. Readable(o)
  BY <1>8 DEF Readable
<1>10. Item(o) \in Int
  BY <1>1, <1>8, <1>9, RecordFacts
<1> QED BY <1>9, <1>10 DEF o, word

\* The step to the next block keeps the cursor on the word of that block.
LEMMA NextBlockStep ==
  ASSUME ScanInv, AtBlock, NextBlock
  PROVE  CursorInv' /\ currOffset' \in Nat /\ pos' \in Nat
<1> DEFINE b == blocksPerWord(bitsPerBlock)
<1>1. /\ pos \in Nat /\ blockDataOffset \in Nat /\ currOffset \in Nat
      /\ bitsPerBlock \in 1 .. WordBits - 1 /\ pc = "blocks"
  BY DEF ScanInv, TypeOK, AtBlock
<1>2. b \in Nat \ {0}
  BY <1>1, WordFacts DEF WordBits
<1>3. /\ currOffset = blockDataOffset + (pos \div b) + (IF pos % b = 0 THEN 0 ELSE 1)
      /\ isSubChunkKey(k) /\ blockDataOffset + numWords(bitsPerBlock) < Len(v)
  BY <1>1 DEF ScanInv, CursorInv, Storing, firstSlot
<1>4. /\ currOffset' = IF pos % b = 0 THEN currOffset + 1 ELSE currOffset
      /\ pos' = pos + 1
      /\ UNCHANGED <<db, it, pc, bitsPerBlock, blockDataOffset>>
  BY DEF NextBlock, firstSlot
<1> HIDE DEF b
<1>5. /\ pos \div b \in Nat /\ pos % b \in 0 .. b - 1
      /\ pos % b = b - 1 => (pos + 1) \div b = pos \div b + 1 /\ (pos + 1) % b = 0
      /\ pos % b # b - 1 => (pos + 1) \div b = pos \div b /\ (pos + 1) % b = (pos % b) + 1
  BY ONLY <1>1, <1>2, DivStep
<1>6. currOffset' = blockDataOffset + (pos \div b) + 1
  BY ONLY <1>1, <1>3, <1>4, <1>5
<1>7. currOffset' = blockDataOffset + ((pos + 1) \div b) + (IF (pos + 1) % b = 0 THEN 0 ELSE 1)
  BY ONLY <1>1, <1>2, <1>5, <1>6
<1>8. CursorInv'
  BY <1>1, <1>3, <1>4, <1>7 DEF CursorInv, Storing, firstSlot, b, k, v
<1> QED BY <1>1, <1>4, <1>8

\* A block is stored: its state is negative or an index of the palette just read.
LEMMA PlaceBlockStep == ASSUME ScanInv, PlaceBlock PROVE ScanInv'
<1> DEFINE s == StateOf(Field(word, pos, bitsPerBlock))
<1>1. /\ TypeOK /\ it <= Len(db) /\ currChunk # nullptr /\ InBounds(heap)
      /\ pc = "blocks" /\ AtBlock /\ pos \in Nat /\ paletteSize \in Int
      /\ bitsPerBlock \in 1 .. WordBits - 1 /\ isSubChunkKey(k)
  BY InBoundsHeap DEF ScanInv, TypeOK, CursorInv, Storing, PlaceBlock, AtBlock
<1>2. currChunk \in 1 .. Len(heap) /\ heap \in Seq(ChunkOver(RootTag))
  BY <1>1, CurrChunkFacts DEF TypeOK
<1>3. /\ <<rawX(pos), blockY, rawZ(pos)>> \in Cell
      /\ heap' = HeapAddBlock(heap, currChunk, s, rawX(pos), blockY, rawZ(pos))
      /\ NextBlock
  BY DEF PlaceBlock, HeapAddBlock
<1>4. chunkY \in SubChunk /\ blockY \in Int /\ blockY \div Edge = chunkY
  <2>1. chunkY \in Int
    BY <1>1, RecordFacts, KeyFacts DEF chunkY
  <2>2. rawY(pos) \in Side
    BY <1>1, RawFacts
  <2>3. rawY(pos) + Edge * chunkY \in 0 .. Height - 1
    BY <1>3 DEF Cell, blockY
  <2>4. chunkY \in SubChunk /\ (rawY(pos) + Edge * chunkY) \div Edge = chunkY
    BY ONLY <2>1, <2>2, <2>3, HeightFacts
  <2> QED BY <2>3, <2>4 DEF blockY
<1>5. s \in Int /\ (s >= 0 => s < Len(heap[currChunk].blockStates[chunkY]))
  <2>1. Field(word, pos, bitsPerBlock) \in Nat
    BY <1>1, BlockWord, FieldType
  <2>2. paletteSize <= Len(heap[currChunk].blockStates[chunkY])
    BY <1>1, <1>4 DEF ScanInv, PaletteInv, Storing
  <2>3. Len(heap[currChunk].blockStates[chunkY]) \in Nat
    BY <1>1, <1>4, CurrChunkFacts
  <2> QED BY <1>1, <2>1, <2>2, <2>3 DEF StateOf, Corrupt
<1> HIDE DEF s
<1>6. /\ heap' \in Seq(ChunkOver(RootTag)) /\ Len(heap') = Len(heap)
      /\ heap'[currChunk].blockStates = heap[currChunk].blockStates
      /\ InBounds(heap')
  BY ONLY <1>1, <1>2, <1>3, <1>4, <1>5, BlockPlaced
<1>7. CursorInv' /\ currOffset' \in Nat /\ pos' \in Nat
  BY <1>1, <1>3, NextBlockStep
<1>8. UNCHANGED <<db, it, unread, pc, world, totalChunks, currChunk, storageNum, i,
                  bitsPerBlock, blockDataOffset, paletteOffset, paletteSize, p>>
  BY <1>3 DEF NextBlock, recordVars
<1>9. TypeOK'
  BY <1>1, <1>6, <1>7, <1>8 DEF TypeOK
<1>10. PaletteInv'
  BY <1>1, <1>6, <1>8 DEF ScanInv, PaletteInv, Storing, chunkY, k
<1>11. PaletteIndexInBounds'
  BY <1>6 DEF PaletteIndexInBounds, InBounds
<1> QED BY <1>7, <1>9, <1>10, <1>11 DEF ScanInv

\* A block of a later storage is passed over.
LEMMA DiscardBlockStep == ASSUME ScanInv, DiscardBlock PROVE ScanInv'
<1>1. TypeOK /\ pc = "blocks" /\ AtBlock /\ NextBlock
  BY DEF ScanInv, DiscardBlock, AtBlock
<1>2. CursorInv' /\ currOffset' \in Nat /\ pos' \in Nat
  BY <1>1, NextBlockStep
<1>3. UNCHANGED <<db, it, unread, pc, world, heap, totalChunks, currChunk, storageNum, i,
                  bitsPerBlock, blockDataOffset, paletteOffset, paletteSize, p>>
  BY DEF DiscardBlock, NextBlock, recordVars
<1>4. TypeOK'
  BY <1>1, <1>2, <1>3 DEF TypeOK
<1>5. PaletteInv'
  BY <1>1, <1>3 DEF ScanInv, PaletteInv, Storing, chunkY, k
<1>6. PaletteIndexInBounds'
  BY <1>3 DEF ScanInv, PaletteIndexInBounds
<1> QED BY <1>2, <1>4, <1>5, <1>6 DEF ScanInv

\* A storage ends: nothing is known about the cursor until the next one begins.
LEMMA EndStorageStep == ASSUME ScanInv, EndStorage PROVE ScanInv'
<1>1. UNCHANGED <<db, it, unread, world, heap, totalChunks, currChunk, storageNum,
                  bitsPerBlock, blockDataOffset, paletteOffset, paletteSize, p, pos>>
  BY DEF EndStorage, storeVars, storageVars
<1>2. /\ TypeOK /\ pc = "blocks" /\ pc' = "storage" /\ isSubChunkKey(k)
      /\ currOffset' = paletteOffset /\ i' = i + 1
  BY DEF ScanInv, CursorInv, Storing, EndStorage, Goto
<1>3. TypeOK'
  BY <1>1, <1>2 DEF TypeOK, Phase
<1>4. CursorInv' /\ PaletteInv'
  BY <1>1, <1>2 DEF CursorInv, PaletteInv, Storing, k
<1>5. PaletteIndexInBounds'
  BY <1>1 DEF ScanInv, PaletteIndexInBounds
<1> QED BY <1>3, <1>4, <1>5 DEF ScanInv

\* Every step of the scan keeps the invariant.
LEMMA NextInv == ScanInv /\ [Next]_vars => ScanInv'
<1> SUFFICES ASSUME ScanInv, [Next]_vars PROVE ScanInv'
  OBVIOUS
<1>1. CASE Open
  BY <1>1, StopStep DEF Open, StopWith
<1>2. CASE OpenFails
  BY <1>2, StopStep DEF OpenFails, Terminal
<1>3. CASE IgnoreRecord
  <2>1. it + 1 \in it + 1 .. Len(db) + 1 /\ AtRecord
    BY <1>3 DEF IgnoreRecord, AtRecord, ScanInv, TypeOK
  <2> QED BY <1>3, <2>1, NextRecordStep DEF IgnoreRecord
<1>4. CASE SkipFormat
  <2>1. it + 1 \in it + 1 .. Len(db) + 1 /\ AtRecord
    BY <1>4 DEF SkipFormat, AtRecord, ScanInv, TypeOK
  <2> QED BY <1>4, <2>1, NextRecordStep DEF SkipFormat
<1>5. CASE ReadError
  BY <1>5, NextRecordStep DEF ReadError
<1>6. CASE BeginSubChunk
  BY <1>6, BeginSubChunkStep
<1>7. CASE TruncatedHeader
  BY <1>7, StopStep DEF TruncatedHeader, Terminal
<1>8. CASE EndSubChunk
  BY <1>8, EndSubChunkStep
<1>9. CASE BeginStorage
  BY <1>9, BeginStorageStep
<1>10. CASE RuntimeStorage
  BY <1>10, StopStep DEF RuntimeStorage, Terminal
<1>11. CASE BrokenStorage
  BY <1>11, StopStep DEF BrokenStorage, Terminal
<1>12. CASE UndefinedStorage
  BY <1>12, StopStep DEF UndefinedStorage, Terminal
<1>13. CASE AddPaletteEntry
  BY <1>13, AddPaletteEntryStep
<1>14. CASE BrokenEntry
  BY <1>14, StopStep DEF BrokenEntry, Terminal
<1>15. CASE UndefinedPalette
  BY <1>15, StopStep DEF UndefinedPalette, Terminal
<1>16. CASE EndPalette
  BY <1>16, EndPaletteStep
<1>17. CASE PlaceBlock
  BY <1>17, PlaceBlockStep
<1>18. CASE DiscardBlock
  BY <1>18, DiscardBlockStep
<1>19. CASE UndefinedBlock
  BY <1>19, StopStep DEF UndefinedBlock, Terminal
<1>20. CASE EndStorage
  BY <1>20, EndStorageStep
<1>21. CASE Finish
  BY <1>21, StopStep DEF Finish, Terminal
<1>22. CASE UNCHANGED vars
  BY <1>22 DEF vars, storeVars, recordVars, storageVars, ScanInv, TypeOK, CursorInv,
               PaletteInv, PaletteIndexInBounds, Storing, firstSlot, chunkY, k, v
<1>23. CASE Done
  BY <1>22, <1>23 DEF Done
<1> QED
  BY <1>1, <1>2, <1>3, <1>4, <1>5, <1>6, <1>7, <1>8, <1>9, <1>10, <1>11, <1>12, <1>13,
     <1>14, <1>15, <1>16, <1>17, <1>18, <1>19, <1>20, <1>21, <1>22, <1>23 DEF Next

\* A step into undefined behaviour has the cause that the property names.
LEMMA UndefinedStep ==
  ASSUME ScanInv, UndefinedOnlyOutsideColumn, [Next]_vars
  PROVE  UndefinedOnlyOutsideColumn'
<1> DEFINE Cause ==
      chunkY \notin SubChunk \/ storageBits \notin 0 .. WordBits - 1 \/ StateOverflows
<1> SUFFICES ASSUME pc' = "undefined" PROVE Cause'
  BY DEF UndefinedOnlyOutsideColumn
<1>1. CASE UndefinedStorage
  BY <1>1 DEF UndefinedStorage, StopWith, storageBits, storageVersion, Item, v
<1>2. CASE UndefinedPalette
  BY <1>2 DEF UndefinedPalette, StopWith, chunkY, k
<1>3. CASE UndefinedBlock /\ ~StateOverflows
  <2>1. /\ TypeOK /\ it <= Len(db) /\ pos \in Nat /\ isSubChunkKey(k)
    BY <1>3 DEF UndefinedBlock, AtBlock, ScanInv, TypeOK, CursorInv, Storing
  <2>2. chunkY \in Int
    BY <2>1, RecordFacts, KeyFacts DEF chunkY
  <2>3. rawX(pos) \in Side /\ rawY(pos) \in Side /\ rawZ(pos) \in Side
    BY <2>1, RawFacts
  <2>4. blockY \notin 0 .. Height - 1
    BY <1>3, <2>3 DEF UndefinedBlock, Cell
  <2>5. ASSUME chunkY \in SubChunk PROVE FALSE
    <3>1. chunkY \in 0 .. SubChunks - 1 /\ rawY(pos) \in 0 .. Edge - 1
      BY <2>3, <2>5 DEF SubChunk, Side
    <3>2. Edge * chunkY \in Nat /\ Edge * chunkY <= Edge * (SubChunks - 1)
      BY <3>1, EdgeFacts
    <3>3. Edge * (SubChunks - 1) = Height - Edge
      BY EdgeFacts DEF Height
    <3>4. blockY = rawY(pos) + Edge * chunkY
      BY DEF blockY
    <3> HIDE DEF blockY
    <3> QED BY <2>4, <3>1, <3>2, <3>3, <3>4, EdgeFacts
  <2> QED BY <1>3, <2>5 DEF UndefinedBlock, StopWith, chunkY, k
<1>4. CASE UNCHANGED vars
  BY <1>4 DEF UndefinedOnlyOutsideColumn, vars, storeVars, recordVars, storageVars,
              chunkY, storageBits, storageVersion, StateOverflows, Item, k, v
<1>5. CASE Done
  BY <1>4, <1>5 DEF Done
<1>6. CASE UndefinedBlock /\ StateOverflows
  BY <1>6 DEF UndefinedBlock, StopWith, storageVars, StateOverflows
<1> QED
  BY <1>1, <1>2, <1>3, <1>4, <1>5, <1>6
     DEF Next, Open, OpenFails, IgnoreRecord, SkipFormat, ReadError, BeginSubChunk,
         TruncatedHeader, EndSubChunk, BeginStorage, RuntimeStorage, BrokenStorage,
         AddPaletteEntry, BrokenEntry, EndPalette, PlaceBlock, DiscardBlock,
         NextBlock, EndStorage, Finish, AtRecord, AtBlock, AtEntry, NextRecord, StopWith, Goto

-----------------------------------------------------------------------------
(* The results.                                                              *)

\* The inductive invariant of the scan.
THEOREM ScanInvariant == Spec => []ScanInv
<1>1. Init => ScanInv
  BY InitInv
<1>2. ScanInv /\ [Next]_vars => ScanInv'
  BY NextInv
<1> QED BY <1>1, <1>2, PTL DEF Spec

\* The scan keeps its types for every geometry and database: no step leaves the
\* iterator beyond the end, or currChunk without a chunk inside a record.
THEOREM TypeCorrect == Spec => []TypeOK
<1>1. ScanInv => TypeOK
  BY DEF ScanInv
<1> QED BY <1>1, ScanInvariant, PTL

\* Chunk::getBlock indexes blockStates without a check; no record, however it is
\* damaged, makes parseBedrock store a state for which that index is out of range.
THEOREM PaletteSafety == Spec => []PaletteIndexInBounds
<1>1. ScanInv => PaletteIndexInBounds
  BY DEF ScanInv
<1> QED BY <1>1, ScanInvariant, PTL

\* The block loop never reads past the end of a value, truncated ones included.
THEOREM BlockLoopSafety == Spec => []WordsReadable
<1>1. ScanInv => WordsReadable
  BY BlockWord DEF WordsReadable
<1> QED BY <1>1, ScanInvariant, PTL

\* Only the sub-chunk index of the key and the width of a storage can lead the
\* scan outside its vectors.
THEOREM UndefinedByKeyOrWidth == Spec => []UndefinedOnlyOutsideColumn
<1>1. Init => UndefinedOnlyOutsideColumn
  BY DEF Init, UndefinedOnlyOutsideColumn
<1>2. ScanInv /\ UndefinedOnlyOutsideColumn /\ [Next]_vars => UndefinedOnlyOutsideColumn'
  BY UndefinedStep
<1> QED BY <1>1, <1>2, ScanInvariant, PTL DEF Spec


-----------------------------------------------------------------------------
(* Keys.                                                                     *)

\* littleEndian puts together what Int32Bytes takes apart, the sign included.
LEMMA Int32Inverse ==
  ASSUME NEW n \in Int32
  PROVE  /\ LowByte(n, 1) \in Byte /\ LowByte(n, 256) \in Byte
         /\ LowByte(n, 65536) \in Byte /\ LowByte(n, 16777216) \in Byte
         /\ littleEndian(LowByte(n, 1), LowByte(n, 256), LowByte(n, 65536), LowByte(n, 16777216)) = n
<1> DEFINE q1 == n \div 256
           q2 == n \div 65536
           q3 == n \div 16777216
<1>1. n \in Int /\ -2147483648 <= n /\ n <= 2147483647
  BY SMT DEF Int32
<1>2. q1 \in Int /\ q2 \in Int /\ q3 \in -128 .. 127
  BY SMT, <1>1
<1>3. n = 256 * q1 + (n % 256) /\ q1 = 256 * q2 + (q1 % 256) /\ q2 = 256 * q3 + (q2 % 256)
  BY SMT, <1>1
<1>4. n % 256 \in Byte /\ q1 % 256 \in Byte /\ q2 % 256 \in Byte /\ q3 % 256 \in Byte
  BY SMT, <1>1, <1>2 DEF Byte
<1>5. signedChar(q3 % 256) = q3
  BY SMT, <1>2 DEF signedChar
<1>6. LowByte(n, 1) = n % 256 /\ LowByte(n, 256) = q1 % 256 /\ LowByte(n, 65536) = q2 % 256
      /\ LowByte(n, 16777216) = q3 % 256
  BY SMT, <1>1 DEF LowByte
<1> HIDE DEF q1, q2, q3
<1>7. littleEndian(n % 256, q1 % 256, q2 % 256, q3 % 256) = n
  BY SMT, <1>1, <1>2, <1>3, <1>4, <1>5 DEF littleEndian, Byte
<1> QED BY ONLY SMT, <1>4, <1>6, <1>7

\* Four bytes of a number form a sequence.
LEMMA BytesFacts ==
  ASSUME NEW n \in Int32
  PROVE  /\ Int32Bytes(n) \in Seq(Byte) /\ Len(Int32Bytes(n)) = 4
         /\ littleEndian(Int32Bytes(n)[1], Int32Bytes(n)[2], Int32Bytes(n)[3], Int32Bytes(n)[4]) = n
<1> DEFINE b0 == LowByte(n, 1)
           b1 == LowByte(n, 256)
           b2 == LowByte(n, 65536)
           b3 == LowByte(n, 16777216)
<1>1. b0 \in Byte /\ b1 \in Byte /\ b2 \in Byte /\ b3 \in Byte /\ littleEndian(b0, b1, b2, b3) = n
  BY ONLY SMT, Int32Inverse, n \in Int32
<1>2. Int32Bytes(n) = <<b0, b1, b2, b3>>
  BY SMT DEF Int32Bytes
<1> HIDE DEF b0, b1, b2, b3
<1>3. /\ <<b0, b1, b2, b3>> \in Seq(Byte) /\ Len(<<b0, b1, b2, b3>>) = 4
      /\ <<b0, b1, b2, b3>>[1] = b0 /\ <<b0, b1, b2, b3>>[2] = b1
      /\ <<b0, b1, b2, b3>>[3] = b2 /\ <<b0, b1, b2, b3>>[4] = b3
  BY ONLY SMT, <1>1
<1> QED BY ONLY SMT, <1>1, <1>2, <1>3

\* The bytes of a key, given those of its parts.
HasParts(key, X, Z, R, b) ==
  /\ Len(key) = 10 + Len(R)
  /\ key[1] = X[1] /\ key[2] = X[2] /\ key[3] = X[3] /\ key[4] = X[4]
  /\ key[5] = Z[1] /\ key[6] = Z[2] /\ key[7] = Z[3] /\ key[8] = Z[4]
  /\ Len(R) = 4 => key[9] = R[1] /\ key[10] = R[2] /\ key[11] = R[3] /\ key[12] = R[4]
  /\ key[9 + Len(R)] = 47 /\ key[10 + Len(R)] = b

\* A key of its parts: two coordinates, a region of 0 or 4 bytes, and the two last bytes.
LEMMA KeyParts ==
  ASSUME NEW X \in Seq(Byte), Len(X) = 4, NEW Z \in Seq(Byte), Len(Z) = 4,
         NEW R \in Seq(Byte), Len(R) \in {0, 4}, NEW b \in Byte,
         NEW key, key = X \o Z \o R \o <<47, b>>
  PROVE  HasParts(key, X, Z, R, b)
<1>1. PICK A : A = X \o Z
  BY Zenon
<1>2. A \in Seq(Byte) /\ Len(A) = 8 /\ \A j \in 1 .. 8 : A[j] = IF j <= 4 THEN X[j] ELSE Z[j - 4]
  <2>1. /\ A \in Seq(Byte) /\ Len(A) = Len(X) + Len(Z)
        /\ \A j \in 1 .. Len(X) + Len(Z) : A[j] = IF j <= Len(X) THEN X[j] ELSE Z[j - Len(X)]
    BY ONLY <1>1, ConcatProperties, X \in Seq(Byte), Z \in Seq(Byte), Zenon
  <2> QED BY ONLY <2>1, Len(X) = 4, Len(Z) = 4
<1>3. PICK B : B = A \o R
  BY Zenon
<1>4. /\ B \in Seq(Byte) /\ Len(B) = 8 + Len(R)
      /\ \A j \in 1 .. 8 + Len(R) : B[j] = IF j <= 8 THEN A[j] ELSE R[j - 8]
  <2>1. /\ B \in Seq(Byte) /\ Len(B) = Len(A) + Len(R)
        /\ \A j \in 1 .. Len(A) + Len(R) : B[j] = IF j <= Len(A) THEN A[j] ELSE R[j - Len(A)]
    BY ONLY <1>2, <1>3, ConcatProperties, R \in Seq(Byte), Zenon
  <2> QED BY ONLY <1>2, <2>1
<1>5. PICK E : E = <<47, b>>
  BY Zenon
<1>6. E \in Seq(Byte) /\ Len(E) = 2 /\ E[1] = 47 /\ E[2] = b
  <2>1. 47 \in Byte
    BY DEF Byte
  <2> QED BY ONLY <1>5, <2>1, b \in Byte
<1>7. key = B \o E
  BY ONLY <1>1, <1>3, <1>5, key = X \o Z \o R \o <<47, b>>, Zenon
<1>8. /\ Len(key) = Len(B) + Len(E)
      /\ \A j \in 1 .. Len(B) + Len(E) : key[j] = IF j <= Len(B) THEN B[j] ELSE E[j - Len(B)]
  BY ONLY <1>4, <1>6, <1>7, ConcatProperties, ZenonT(60)
<1>9. CASE Len(R) = 0
  <2>1. Len(key) = 10 /\ \A j \in 1 .. 10 : key[j] = IF j <= 8 THEN B[j] ELSE E[j - 8]
    BY ONLY <1>4, <1>6, <1>8, <1>9
  <2>2. key[9] = 47 /\ key[10] = b
    BY ONLY <1>6, <2>1
  <2>3. \A j \in 1 .. 8 : key[j] = IF j <= 4 THEN X[j] ELSE Z[j - 4]
    BY ONLY <1>2, <1>4, <1>9, <2>1
  <2> QED BY ONLY <1>9, <2>1, <2>2, <2>3 DEF HasParts
<1>10. CASE Len(R) = 4
  <2>1. Len(key) = 14 /\ \A j \in 1 .. 14 : key[j] = IF j <= 12 THEN B[j] ELSE E[j - 12]
    BY ONLY <1>4, <1>6, <1>8, <1>10
  <2>2. key[13] = 47 /\ key[14] = b
    BY ONLY <1>6, <2>1
  <2>3. \A j \in 1 .. 8 : key[j] = IF j <= 4 THEN X[j] ELSE Z[j - 4]
    <3>1. \A j \in 1 .. 8 : key[j] = B[j]
      BY ONLY <2>1
    <3>2. \A j \in 1 .. 8 : B[j] = A[j]
      BY ONLY <1>4, <1>10
    <3>3. \A j \in 1 .. 8 : A[j] = IF j <= 4 THEN X[j] ELSE Z[j - 4]
      BY ONLY <1>2
    <3> QED BY ONLY <3>1, <3>2, <3>3
  <2>4. \A j \in 9 .. 12 : key[j] = R[j - 8]
    BY ONLY <1>4, <1>10, <2>1, SMTT(40)
  <2> QED BY ONLY <1>10, <2>1, <2>2, <2>3, <2>4 DEF HasParts
<1> QED BY ONLY <1>9, <1>10, Len(R) \in {0, 4}

\* What the reader takes from a key is what the game put into it.
LEMMA SubChunkKeyFacts ==
  ASSUME NEW d \in ChunkDimension, NEW x \in Int32, NEW z \in Int32, NEW b \in Byte,
         NEW key, key = SubChunkKey(d, x, b, z)
  PROVE  /\ isSubChunkKey(key) /\ key[Len(key)] = b
         /\ parseInt32(key, 0) = x /\ parseInt32(key, 4) = z
         /\ keyDimension(key) = d
<1>1. PICK X : X = Int32Bytes(x)
  OBVIOUS
<1>2. PICK Z : Z = Int32Bytes(z)
  OBVIOUS
<1>3. PICK R : R = Region[d]
  OBVIOUS
<1>4. /\ X \in Seq(Byte) /\ Len(X) = 4 /\ littleEndian(X[1], X[2], X[3], X[4]) = x
      /\ Z \in Seq(Byte) /\ Len(Z) = 4 /\ littleEndian(Z[1], Z[2], Z[3], Z[4]) = z
  BY ONLY SMT, <1>1, <1>2, BytesFacts, x \in Int32, z \in Int32
<1>5. 1 \in Int32 /\ 2 \in Int32
  BY SMT DEF Int32
<1>6. /\ Int32Bytes(1) \in Seq(Byte) /\ Len(Int32Bytes(1)) = 4
      /\ littleEndian(Int32Bytes(1)[1], Int32Bytes(1)[2], Int32Bytes(1)[3], Int32Bytes(1)[4]) = 1
      /\ Int32Bytes(2) \in Seq(Byte) /\ Len(Int32Bytes(2)) = 4
      /\ littleEndian(Int32Bytes(2)[1], Int32Bytes(2)[2], Int32Bytes(2)[3], Int32Bytes(2)[4]) = 2
  BY ONLY SMT, <1>5, BytesFacts
<1>7. /\ d = "OVERWORLD" => R = << >>
      /\ d = "NETHER" => R = Int32Bytes(1)
      /\ d = "ENDWORLD" => R = Int32Bytes(2)
  BY ONLY <1>3 DEF Region
<1>8. d \in {"OVERWORLD", "NETHER", "ENDWORLD"}
  BY DEF ChunkDimension
<1>9. /\ R \in Seq(Byte) /\ (Len(R) = IF d = "OVERWORLD" THEN 0 ELSE 4)
      /\ d = "NETHER" => littleEndian(R[1], R[2], R[3], R[4]) = 1
      /\ d = "ENDWORLD" => littleEndian(R[1], R[2], R[3], R[4]) = 2
  <2>1. CASE d = "OVERWORLD"
    BY ONLY <1>7, <2>1
  <2>2. CASE d = "NETHER"
    BY ONLY <1>6, <1>7, <2>2
  <2>3. CASE d = "ENDWORLD"
    BY ONLY <1>6, <1>7, <2>3
  <2> QED BY ONLY <1>8, <2>1, <2>2, <2>3
<1>10. key = X \o Z \o R \o <<47, b>>
  BY <1>1, <1>2, <1>3 DEF SubChunkKey, ChunkKey
<1>11. HasParts(key, X, Z, R, b)
  <2>1. Len(R) \in {0, 4} /\ R \in Seq(Byte)
    BY ONLY <1>9
  <2> QED BY ONLY <1>4, <1>10, <2>1, KeyParts, b \in Byte, Zenon
<1>12. isSubChunkKey(key) /\ key[Len(key)] = b
  BY ONLY <1>9, <1>11 DEF HasParts, isSubChunkKey
<1>13. parseInt32(key, 0) = x /\ parseInt32(key, 4) = z
  BY ONLY <1>4, <1>11 DEF HasParts, parseInt32
<1>14. keyDimension(key) = d
  <2>1. Len(key) = 14 => parseInt32(key, 8) = littleEndian(R[1], R[2], R[3], R[4])
    <3>1. Len(key) = 14 => key[9] = R[1] /\ key[10] = R[2] /\ key[11] = R[3] /\ key[12] = R[4]
      <4>1. Len(R) = 0 \/ Len(R) = 4
        BY ONLY <1>9
      <4>2. Len(key) = 10 + Len(R)
        BY ONLY <1>11 DEF HasParts
      <4>3. Len(key) = 14 => Len(R) = 4
        <5>1. ASSUME Len(R) = 0 PROVE Len(key) = 10
          BY ONLY <4>2, <5>1
        <5> QED BY ONLY <4>1, <5>1
      <4> QED BY ONLY <1>11, <4>3, Zenon DEF HasParts
    <3>2. parseInt32(key, 8) = littleEndian(key[9], key[10], key[11], key[12])
      BY ONLY SMT DEF parseInt32
    <3> QED BY ONLY <3>1, <3>2
  <2>2. /\ d = "OVERWORLD" => Len(key) = 10
        /\ d = "NETHER" => Len(key) = 14 /\ parseInt32(key, 8) = 1
        /\ d = "ENDWORLD" => Len(key) = 14 /\ parseInt32(key, 8) = 2
    BY ONLY <1>9, <1>11, <2>1 DEF HasParts
  <2> QED BY ONLY <1>8, <2>2 DEF keyDimension
<1> QED BY ONLY <1>12, <1>13, <1>14

-----------------------------------------------------------------------------
(* The inductive invariant.                                                  *)

\* The sub-chunk that a record's key names, as the reader understands it.
KeyDim(m) == keyDimension(db[m].key)
KeyId(m)  == chunkID(parseInt32(db[m].key, 0), parseInt32(db[m].key, 4))
KeyY(m)   == signedChar(db[m].key[Len(db[m].key)])
HasKey(m) == m \in DOMAIN db /\ isSubChunkKey(db[m].key)

\* The chunk of a record: the one that its column has.
ChunkFor(m) == findChunk(world, KeyId(m), KeyDim(m))

\* The scan is still going on; the record it is in, if it is in one.
Scanning == pc \notin Terminal
Entered  == {m \in {it} : Storing}

\* Each map entry points to a chunk with its coordinates, each chunk has one entry, and
\* the chunk under construction is the one its key asks for.
OwnersInv ==
  /\ ChunksOwnedOnce
  /\ Storing => ChunkFor(it) = currChunk
  /\ pc = "open" => heap = << >>

\* The columns of the world are those of the records stored, and of the one that is
\* being read; what was unread lies behind.
ColumnsInv ==
  /\ unread \subseteq 1 .. it - 1
  /\ Storing => Len(v) >= 2 /\ v[1] = 8
  /\ Scanning => \A d \in ChunkDimension : \A id :
       id \in DOMAIN world[d] <=> \E m \in Stored \cup Entered : KeyDim(m) = d /\ KeyId(m) = id

WorldInv == db \in Databases /\ ScanInv /\ OwnersInv /\ ColumnsInv

\* In a record that the game wrote, storage i begins where it does for the game.
Start(r, j) == r.written.storages[j]
Bits(r, j)  == r.value[Start(r, j) + 1] \div 2
Size(r, j)  == r.value[Start(r, j) + 2 + WordCount(Bits(r, j))]

InStorage(r, j) ==
  /\ bitsPerBlock = Bits(r, j) /\ paletteSize = Size(r, j)
  /\ blockDataOffset = Start(r, j) + 1
  /\ pc = "palette" => /\ p <= paletteSize
                       /\ currOffset = Start(r, j) + 2 + WordCount(Bits(r, j)) + p
  /\ pc = "blocks" => paletteOffset = Start(r, j + 1)

IntactInv ==
  Storing /\ Intact(it) =>
    /\ storageNum = v[2] /\ i <= storageNum
    /\ pc = "storage" => currOffset = Start(db[it], i + 1)
    /\ pc # "storage" => i < storageNum /\ InStorage(db[it], i + 1)

ReadInv == WorldInv /\ IntactInv /\ IntactStopsOnlyThere

\* Every palette entry was read from the record of its own sub-chunk.
ReadFrom(m, c, s) ==
  /\ HasKey(m) /\ ChunkFor(m) = c /\ KeyY(m) = s
  /\ m <= it /\ (pc \in {"open", "iterate"} => m < it)
TagsInv ==
  \A c \in 1 .. Len(heap) : \A s \in SubChunk : \A e \in 1 .. Len(heap[c].blockStates[s]) :
    ReadFrom(heap[c].blockStates[s][e].rec, c, s)

\* The palette of the sub-chunk being read begins with that of its first storage.
Palette == heap[currChunk].blockStates[chunkY]
PaletteRead ==
  Storing /\ Intact(it) =>
    /\ i = 0 /\ pc = "storage" => Palette = << >>
    /\ i = 0 /\ pc = "palette" => Len(Palette) = p
    /\ i > 0 \/ pc = "blocks" => Len(Palette) >= Size(db[it], 1)
    /\ \A e \in 1 .. Len(Palette) :
         e <= Size(db[it], 1) => Palette[e].nbt = v[4 + WordCount(Bits(db[it], 1)) + e]

\* Where block n of sub-chunk y is in its column, what the column a shows there, and that
\* this is what the record m was written for.
CellAt(y, n) == <<n \div (Edge * Edge), Edge * y + (n % Edge), (n \div Edge) % Edge>>
BlockIn(a, y, n) ==
  LET s == a.blocks[CellAt(y, n)]
  IN  IF s >= 0 THEN a.blockStates[y][s + 1].nbt ELSE s
Shows(m, n) ==
  /\ ChunkFor(m) # nullptr
  /\ db[m].written.nbt[n] = BlockIn(heap[ChunkFor(m)], KeyY(m), n)

\* The blocks placed so far that no padding field has overwritten.
Placed(n) == \/ i = 0 /\ pc = "blocks" /\ n < pos /\ pos <= n + BlockCount
             \/ i > 0 /\ n >= Padded(it)
BlocksInv ==
  /\ pc = "blocks" => pos <= Slots(bitsPerBlock)
  /\ Storing /\ Intact(it) => \A n \in 0 .. BlockCount - 1 : Placed(n) => Shows(it, n)
  /\ \A m \in Stored : Intact(m) => \A n \in Padded(m) .. BlockCount - 1 : n >= 0 => Shows(m, n)

FaithfulInv == ReadInv /\ TagsInv /\ PaletteRead /\ BlocksInv
-----------------------------------------------------------------------------
(* Records.                                                                  *)

\* A record of the database, with its ghost.
LEMMA DbFacts ==
  ASSUME db \in Databases, NEW m \in DOMAIN db
  PROVE  /\ db[m] \in Record /\ db[m].key \in Seq(Byte) /\ db[m].value \in Seq(Int32)
         /\ db[m].written.dim \in ChunkDimension
         /\ db[m].written.x \in Int32 /\ db[m].written.z \in Int32
         /\ db[m].written.storages \in Seq(Nat)
         /\ db[m].written.nbt \in [0 .. BlockCount - 1 -> Int]
<1>1. db \in Seq(Record)
  BY DatabaseAssumption, Zenon
<1>2. PICK r : r = db[m]
  BY Zenon
<1>3. r \in Record
  BY ONLY <1>1, <1>2, m \in DOMAIN db, ElementOfSeq, LenProperties
<1>4. /\ r.key \in Seq(Byte) /\ r.value \in Seq(Int32)
      /\ r.written.dim \in ChunkDimension /\ r.written.x \in Int32 /\ r.written.z \in Int32
      /\ r.written.storages \in Seq(Nat) /\ r.written.nbt \in [0 .. BlockCount - 1 -> Int]
  BY ONLY <1>3 DEF Record
<1> QED BY ONLY <1>2, <1>3, <1>4, Zenon

\* The reader finds the sub-chunk a key was written for.
LEMMA KeyMeans ==
  ASSUME db \in Databases, NEW m, HasKey(m)
  PROVE  /\ KeyDim(m) = db[m].written.dim /\ KeyDim(m) \in ChunkDimension
         /\ KeyId(m) = chunkID(db[m].written.x, db[m].written.z)
         /\ db[m].key[Len(db[m].key)] \in Byte
         /\ db[m].key = SubChunkKey(db[m].written.dim, db[m].written.x,
                                    db[m].key[Len(db[m].key)], db[m].written.z)
<1>1. PICK key : key = db[m].key
  BY Zenon
<1>2. PICK w : w = db[m].written
  BY Zenon
<1>3. m \in DOMAIN db /\ isSubChunkKey(key)
  BY <1>1, Zenon DEF HasKey
<1>4. key \in Seq(Byte) /\ w.dim \in ChunkDimension /\ w.x \in Int32 /\ w.z \in Int32
  BY ONLY <1>1, <1>2, <1>3, DbFacts, db \in Databases, Zenon
<1>5. key = SubChunkKey(w.dim, w.x, key[Len(key)], w.z)
  BY ONLY <1>1, <1>2, <1>3, FormatAssumption, db \in Databases, Zenon
<1>6. key[Len(key)] \in Byte
  <2>1. Len(key) = 10 \/ Len(key) = 14
    BY ONLY <1>3 DEF isSubChunkKey
  <2>2. Len(key) \in 1 .. Len(key)
    BY ONLY <2>1
  <2> QED BY ONLY <1>4, <2>2, ElementOfSeq, Zenon
<1>7. parseInt32(key, 0) = w.x /\ parseInt32(key, 4) = w.z /\ keyDimension(key) = w.dim
  <2>1. PICK b : b = key[Len(key)]
    BY Zenon
  <2>2. b \in Byte /\ key = SubChunkKey(w.dim, w.x, b, w.z)
    BY ONLY <1>5, <1>6, <2>1, Zenon
  <2>3. PICK d \in ChunkDimension, x \in Int32, z \in Int32 : d = w.dim /\ x = w.x /\ z = w.z
    BY ONLY <1>4, Zenon
  <2>4. key = SubChunkKey(d, x, b, z)
    BY ONLY <2>2, <2>3, Zenon
  <2>5. parseInt32(key, 0) = x /\ parseInt32(key, 4) = z /\ keyDimension(key) = d
    BY ONLY <2>2, <2>4, SubChunkKeyFacts, d \in ChunkDimension, x \in Int32, z \in Int32
  <2> QED BY ONLY <2>3, <2>5, Zenon
<1> QED BY ONLY <1>1, <1>2, <1>4, <1>5, <1>6, <1>7, Zenon DEF KeyDim, KeyId

\* No two records name the same sub-chunk.
LEMMA KeysDiffer ==
  ASSUME db \in Databases, NEW m, NEW n, HasKey(m), HasKey(n),
         KeyDim(m) = KeyDim(n), KeyId(m) = KeyId(n), KeyY(m) = KeyY(n)
  PROVE  m = n
<1>1. PICK a : a = db[m].key[Len(db[m].key)]
  BY Zenon
<1>2. PICK b : b = db[n].key[Len(db[n].key)]
  BY Zenon
<1>3. a \in Byte /\ b \in Byte
  BY ONLY <1>1, <1>2, KeyMeans, db \in Databases, HasKey(m), HasKey(n), Zenon
<1>4. signedChar(a) = signedChar(b)
  BY ONLY <1>1, <1>2, KeyY(m) = KeyY(n), Zenon DEF KeyY
<1>5. a = b
  BY ONLY <1>3, <1>4 DEF signedChar, Byte
<1>6. /\ db[m].written.dim = db[n].written.dim
      /\ chunkID(db[m].written.x, db[m].written.z) = chunkID(db[n].written.x, db[n].written.z)
      /\ db[m].key = SubChunkKey(db[m].written.dim, db[m].written.x, a, db[m].written.z)
      /\ db[n].key = SubChunkKey(db[n].written.dim, db[n].written.x, b, db[n].written.z)
  BY ONLY <1>1, <1>2, KeyMeans, db \in Databases, HasKey(m), HasKey(n),
          KeyDim(m) = KeyDim(n), KeyId(m) = KeyId(n), Zenon
<1>7. db[m].written.x = db[n].written.x /\ db[m].written.z = db[n].written.z
  BY ONLY <1>6 DEF chunkID
<1>8. db[m].key = db[n].key
  BY ONLY <1>5, <1>6, <1>7, Zenon
<1> QED BY ONLY <1>8, DatabaseAssumption, db \in Databases, HasKey(m), HasKey(n), Zenon DEF HasKey

\* The current record, when the scan is in it or about to enter it.
LEMMA CurrentKey ==
  /\ KeyDim(it) = dimension /\ KeyId(it) = chunkID(chunkX, chunkZ) /\ KeyY(it) = chunkY
  /\ HasKey(it) <=> it \in DOMAIN db /\ isSubChunkKey(k)
  BY DEF KeyDim, KeyId, KeyY, HasKey, dimension, chunkX, chunkZ, chunkY, k
-----------------------------------------------------------------------------
(* Columns and their owners.                                                 *)

\* What findChunk finds after addChunk.
LEMMA AddChunkFinds ==
  ASSUME NEW w, DOMAIN w = ChunkDimension, NEW c, NEW n, NEW dim \in ChunkDimension,
         NEW u, u = addChunk(w, c, n, dim), NEW id, NEW d \in ChunkDimension
  PROVE  /\ DOMAIN u[d] = DOMAIN w[d] \cup (IF d = dim THEN {chunkID(c.x, c.z)} ELSE {})
         /\ findChunk(u, id, d) = IF d = dim /\ id = chunkID(c.x, c.z) THEN n ELSE findChunk(w, id, d)
<1> DEFINE own == chunkID(c.x, c.z)
           m == [j \in DOMAIN w[dim] \cup {own} |-> IF j = own THEN n ELSE w[dim][j]]
<1>1. u = [w EXCEPT ![dim] = m]
  BY DEF addChunk
<1>2. u[d] = IF d = dim THEN m ELSE w[d]
  BY ONLY <1>1, DOMAIN w = ChunkDimension, dim \in ChunkDimension, d \in ChunkDimension, Zenon
<1> HIDE DEF own
<1>3. DOMAIN m = DOMAIN w[dim] \cup {own} /\ \A j \in DOMAIN m : m[j] = IF j = own THEN n ELSE w[dim][j]
  OBVIOUS
<1> HIDE DEF m
<1>4. CASE d = dim
  BY <1>2, <1>3, <1>4 DEF findChunk, own
<1>5. CASE d # dim
  BY <1>2, <1>5 DEF findChunk, own
<1> QED BY <1>4, <1>5

\* ChunksOwnedOnce says nothing but what findChunk returns.
OwnedOnce(w, h, t) ==
  /\ \A c \in 1 .. Len(h) : \E d \in ChunkDimension : findChunk(w, chunkID(h[c].x, h[c].z), d) = c
  /\ \A d \in ChunkDimension : \A id : findChunk(w, id, d) # nullptr =>
       /\ chunkID(h[findChunk(w, id, d)].x, h[findChunk(w, id, d)].z) = id
       /\ \A e \in ChunkDimension \ {d} : findChunk(w, id, e) # findChunk(w, id, d)
  /\ t = Len(h)

\* Where no map entry is null, the two ways to say it agree.
LEMMA OwnedOnceForm ==
  ASSUME TypeOK
  PROVE  ChunksOwnedOnce <=> OwnedOnce(world, heap, totalChunks)
<1>1. DOMAIN heap = 1 .. Len(heap) /\ Len(heap) \in Nat
  BY DEF TypeOK
<1>2. \A d \in ChunkDimension : \A id \in DOMAIN world[d] : world[d][id] \in 1 .. Len(heap)
  BY DEF TypeOK
<1>3. \A d \in ChunkDimension : \A id :
        /\ id \in DOMAIN world[d] => findChunk(world, id, d) = world[d][id]
        /\ findChunk(world, id, d) # nullptr <=> id \in DOMAIN world[d]
  BY <1>1, <1>2 DEF findChunk, nullptr
<1>4. (\A c \in DOMAIN heap : \E d \in ChunkDimension :
          findChunk(world, chunkID(heap[c].x, heap[c].z), d) = c)
      <=> (\A c \in 1 .. Len(heap) : \E d \in ChunkDimension :
             findChunk(world, chunkID(heap[c].x, heap[c].z), d) = c)
  BY ONLY <1>1, Zenon
<1>5. ASSUME NEW d \in ChunkDimension, NEW id
      PROVE  (id \in DOMAIN world[d] =>
                /\ chunkID(heap[world[d][id]].x, heap[world[d][id]].z) = id
                /\ \A e \in ChunkDimension \ {d} : findChunk(world, id, e) # world[d][id])
             <=> (findChunk(world, id, d) # nullptr =>
                /\ chunkID(heap[findChunk(world, id, d)].x, heap[findChunk(world, id, d)].z) = id
                /\ \A e \in ChunkDimension \ {d} : findChunk(world, id, e) # findChunk(world, id, d))
  <2>1. CASE id \in DOMAIN world[d]
    <3>1. findChunk(world, id, d) = world[d][id] /\ findChunk(world, id, d) # nullptr
      BY ONLY <1>3, <1>5, <2>1, Zenon
    <3> QED BY ONLY <2>1, <3>1, Zenon
  <2>2. CASE id \notin DOMAIN world[d]
    BY ONLY <1>3, <1>5, <2>2, Zenon
  <2> QED BY ONLY <2>1, <2>2, Zenon
<1> DEFINE A == \A c \in 1 .. Len(heap) : \E d \in ChunkDimension :
                  findChunk(world, chunkID(heap[c].x, heap[c].z), d) = c
           B(d, id) == findChunk(world, id, d) # nullptr =>
                /\ chunkID(heap[findChunk(world, id, d)].x, heap[findChunk(world, id, d)].z) = id
                /\ \A e \in ChunkDimension \ {d} : findChunk(world, id, e) # findChunk(world, id, d)
           C(d, id) == id \in DOMAIN world[d] =>
                /\ chunkID(heap[world[d][id]].x, heap[world[d][id]].z) = id
                /\ \A e \in ChunkDimension \ {d} : findChunk(world, id, e) # world[d][id]
<1>6. ChunksOwnedOnce <=> A /\ (\A d \in ChunkDimension : \A id : C(d, id)) /\ totalChunks = Len(heap)
  BY ONLY <1>4, Zenon DEF ChunksOwnedOnce
<1>7. OwnedOnce(world, heap, totalChunks)
        <=> A /\ (\A d \in ChunkDimension : \A id : B(d, id)) /\ totalChunks = Len(heap)
  BY ONLY Zenon DEF OwnedOnce
<1>8. \A d \in ChunkDimension : \A id : C(d, id) <=> B(d, id)
  BY ONLY <1>5, Zenon
<1> HIDE DEF A, B, C
<1> QED BY ONLY <1>6, <1>7, <1>8, Zenon

\* A chunk has one place in the world.
LEMMA OnePlace ==
  ASSUME TypeOK, ChunksOwnedOnce, NEW d \in ChunkDimension, NEW e \in ChunkDimension,
         NEW id, NEW jd, findChunk(world, id, d) = findChunk(world, jd, e),
         findChunk(world, id, d) # nullptr
  PROVE  d = e /\ id = jd
<1>1. OwnedOnce(world, heap, totalChunks)
  BY OwnedOnceForm
<1>2. id = jd
  BY ONLY <1>1, findChunk(world, id, d) = findChunk(world, jd, e), d \in ChunkDimension,
          e \in ChunkDimension, findChunk(world, id, d) # nullptr, Zenon DEF OwnedOnce
<1>3. d = e
  BY ONLY <1>1, <1>2, findChunk(world, id, d) = findChunk(world, jd, e), d \in ChunkDimension,
          e \in ChunkDimension, findChunk(world, id, d) # nullptr, Zenon DEF OwnedOnce
<1> QED BY <1>2, <1>3

\* A step that changes the blocks or palettes of chunks, but not where they are.
LEMMA OwnersKept ==
  ASSUME TypeOK, TypeOK', ChunksOwnedOnce, UNCHANGED <<world, totalChunks>>,
         Len(heap') = Len(heap),
         \A c \in 1 .. Len(heap) : heap'[c].x = heap[c].x /\ heap'[c].z = heap[c].z
  PROVE  ChunksOwnedOnce'
<1>1. PICK w, h, t, g : w = world /\ h = heap /\ t = totalChunks /\ g = heap'
  BY Zenon
<1>2. OwnedOnce(w, h, t)
  BY ONLY <1>1, OwnedOnceForm, TypeOK, ChunksOwnedOnce, Zenon
<1>3. Len(g) = Len(h) /\ \A c \in 1 .. Len(h) : g[c].x = h[c].x /\ g[c].z = h[c].z
  BY ONLY <1>1, Len(heap') = Len(heap), Zenon,
          \A c \in 1 .. Len(heap) : heap'[c].x = heap[c].x /\ heap'[c].z = heap[c].z
<1>4. \A d \in ChunkDimension : \A id : findChunk(w, id, d) # nullptr => findChunk(w, id, d) \in 1 .. Len(h)
  BY <1>1 DEF TypeOK, findChunk, nullptr
<1>5. OwnedOnce(w, g, t)
  <2>1. \A c \in 1 .. Len(g) : \E d \in ChunkDimension : findChunk(w, chunkID(g[c].x, g[c].z), d) = c
    BY ONLY <1>2, <1>3, Zenon DEF OwnedOnce
  <2>2. ASSUME NEW d \in ChunkDimension, NEW id, findChunk(w, id, d) # nullptr
        PROVE  chunkID(g[findChunk(w, id, d)].x, g[findChunk(w, id, d)].z) = id
    <3>1. PICK c \in 1 .. Len(h) : c = findChunk(w, id, d)
      BY ONLY <1>4, <2>2, Zenon
    <3>2. chunkID(h[c].x, h[c].z) = id
      BY ONLY <1>2, <2>2, <3>1, Zenon DEF OwnedOnce
    <3> QED BY ONLY <1>3, <3>1, <3>2, Zenon
  <2>3. \A d \in ChunkDimension : \A id : findChunk(w, id, d) # nullptr =>
          \A e \in ChunkDimension \ {d} : findChunk(w, id, e) # findChunk(w, id, d)
    BY ONLY <1>2, Zenon DEF OwnedOnce
  <2>4. t = Len(g)
    BY ONLY <1>2, <1>3, Zenon DEF OwnedOnce
  <2> QED BY ONLY <2>1, <2>2, <2>3, <2>4, Zenon DEF OwnedOnce
<1>6. OwnedOnce(world', heap', totalChunks')
  BY ONLY <1>1, <1>5, UNCHANGED <<world, totalChunks>>, Zenon
<1>7. (ChunksOwnedOnce <=> OwnedOnce(world, heap, totalChunks))'
  BY ONLY OwnedOnceForm, TypeOK', PTL
<1> QED BY ONLY <1>6, <1>7, Zenon DEF OwnedOnce
-----------------------------------------------------------------------------
(* The steps of the scan, by what they do to the world.                      *)

\* The scan moves inside a record, or stops.
Quiet ==
  /\ UNCHANGED <<db, it, unread, world, heap, totalChunks, currChunk>>
  /\ pc' = "open" => pc = "open"
  /\ Storing' => Storing
  /\ Scanning' => Scanning /\ (Storing' <=> Storing)

\* It passes over records.
Skips ==
  /\ UNCHANGED <<db, world, heap, totalChunks, currChunk, pc>> /\ pc = "iterate"
  /\ it <= Len(db) /\ it' \in it + 1 .. Len(db) + 1
  /\ \/ /\ it' = it + 1 /\ unread' = unread
        /\ ~isSubChunkKey(k) \/ (Len(v) > 0 /\ v[1] # 8)
     \/ unread' = unread \cup (it .. it' - 1)

\* It changes blocks or palettes.
Stores == AddPaletteEntry \/ PlaceBlock

\* Every step of parseBedrock is of one of these five kinds.
LEMMA StepKinds ==
  ASSUME ScanInv, [Next]_vars
  PROVE  Quiet \/ Skips \/ BeginSubChunk \/ EndSubChunk \/ Stores
<1>1. CASE UNCHANGED vars
  BY <1>1 DEF Quiet, vars, storeVars, recordVars, Storing, Scanning
<1>2. ASSUME NEW phase \in Terminal, StopWith(phase) PROVE Quiet
  BY <1>2 DEF Quiet, StopWith, Goto, storeVars, recordVars, Storing, Scanning, Terminal
<1>3. CASE Open
  BY <1>3 DEF Open, Quiet, Goto, storeVars, recordVars, Storing, Scanning, Terminal
<1>4. CASE OpenFails \/ TruncatedHeader \/ RuntimeStorage \/ BrokenStorage \/ UndefinedStorage
            \/ BrokenEntry \/ UndefinedPalette \/ UndefinedBlock \/ Finish
  <2>1. \E phase \in Terminal : StopWith(phase)
    BY <1>4 DEF OpenFails, TruncatedHeader, RuntimeStorage, BrokenStorage, UndefinedStorage,
                BrokenEntry, UndefinedPalette, UndefinedBlock, Finish, Terminal
  <2> QED BY <1>2, <2>1
<1>5. it \in Nat /\ Len(db) \in Nat
  BY DEF ScanInv, TypeOK
<1>6. CASE IgnoreRecord \/ SkipFormat
  <2>1. AtRecord /\ NextRecord(it + 1) /\ unread' = unread
    BY <1>6 DEF IgnoreRecord, SkipFormat
  <2>2. it' = it + 1 /\ UNCHANGED <<db, world, heap, totalChunks, currChunk, pc>>
    BY <2>1 DEF NextRecord, storeVars, recordVars
  <2>3. it + 1 \in it + 1 .. Len(db) + 1 /\ it <= Len(db) /\ pc = "iterate"
    BY <1>5, <2>1 DEF AtRecord
  <2>4. ~isSubChunkKey(k) \/ (Len(v) > 0 /\ v[1] # 8)
    BY <1>6 DEF IgnoreRecord, SkipFormat, Readable, Item
  <2> QED BY ONLY <2>1, <2>2, <2>3, <2>4 DEF Skips
<1>7. CASE ReadError
  <2>1. PICK n \in it + 1 .. Len(db) + 1 : NextRecord(n) /\ unread' = unread \cup (it .. n - 1)
    BY <1>7 DEF ReadError
  <2>2. it' = n /\ UNCHANGED <<db, world, heap, totalChunks, currChunk, pc>>
    BY <2>1 DEF NextRecord, storeVars, recordVars
  <2>3. it <= Len(db) /\ pc = "iterate"
    BY <1>7 DEF ReadError, AtRecord
  <2>4. it' \in it + 1 .. Len(db) + 1 /\ unread' = unread \cup (it .. it' - 1)
    BY ONLY <2>1, <2>2, Zenon
  <2> QED BY ONLY <2>2, <2>3, <2>4, Zenon DEF Skips
<1>8. CASE BeginStorage
  BY <1>8 DEF BeginStorage, AtStorage, Quiet, Goto, storeVars, recordVars, Storing, Scanning, Terminal
<1>9. CASE EndPalette
  BY <1>9 DEF EndPalette, Quiet, Goto, storeVars, recordVars, Storing, Scanning, Terminal
<1>10. CASE DiscardBlock
  BY <1>10 DEF DiscardBlock, NextBlock, AtBlock, Quiet, storeVars, recordVars, Storing, Scanning, Terminal
<1>11. CASE EndStorage
  BY <1>11 DEF EndStorage, Quiet, Goto, storeVars, recordVars, Storing, Scanning, Terminal
<1>12. CASE Done
  BY <1>1, <1>12 DEF Done
<1> QED BY ONLY <1>1, <1>3, <1>2, <1>4, <1>6, <1>7, <1>8, <1>9, <1>10, <1>11, <1>12, [Next]_vars, Zenon
        DEF Next, Stores
-----------------------------------------------------------------------------
(* The columns of the world.                                                 *)

\* The three maps as one predicate of what ColumnsInv depends on.
HasColumns(S) ==
  \A d \in ChunkDimension : \A id :
    id \in DOMAIN world[d] <=> \E m \in S : KeyDim(m) = d /\ KeyId(m) = id

\* The types that the invariant gives.
LEMMA WorldTypes ==
  ASSUME WorldInv
  PROVE  /\ TypeOK /\ db \in Databases /\ it \in Nat /\ it >= 1 /\ Len(db) \in Nat
         /\ DOMAIN db = 1 .. Len(db)
<1>1. TypeOK /\ db \in Databases
  BY DEF WorldInv, ScanInv
<1>2. it \in Nat /\ it >= 1 /\ Len(db) \in Nat /\ DOMAIN db = 1 .. Len(db)
  BY ONLY <1>1 DEF TypeOK
<1> QED BY <1>1, <1>2

\* A step inside a record, or the end of the scan, leaves the world as it is.
LEMMA QuietWorld == ASSUME WorldInv, ScanInv', Quiet PROVE WorldInv'
<1>1. /\ UNCHANGED <<db, it, unread, world, heap, totalChunks, currChunk>>
      /\ pc' = "open" => pc = "open"
      /\ Storing' => Storing
      /\ Scanning' => Scanning /\ (Storing' <=> Storing)
  BY DEF Quiet
<1>2. OwnersInv /\ ColumnsInv /\ db \in Databases
  BY DEF WorldInv
<1>3. ChunksOwnedOnce'
  BY ONLY <1>1, <1>2 DEF OwnersInv, ChunksOwnedOnce
<1>4. (ChunkFor(it))' = ChunkFor(it)
  BY ONLY <1>1 DEF ChunkFor, KeyId, KeyDim
<1>5. OwnersInv'
  BY ONLY <1>1, <1>2, <1>3, <1>4 DEF OwnersInv
<1>6. Stored' = Stored /\ v' = v
  BY ONLY <1>1 DEF Stored, v
<1>7. Scanning' => Scanning /\ (Stored \cup Entered)' = Stored \cup Entered
  BY ONLY <1>1, <1>6 DEF Entered
<1>8. ASSUME Scanning' PROVE HasColumns(Stored \cup Entered)'
  <2>1. HasColumns(Stored \cup Entered)
    BY ONLY <1>2, <1>7, <1>8 DEF ColumnsInv, HasColumns
  <2>2. PICK S : S = Stored \cup Entered /\ S = (Stored \cup Entered)'
    BY ONLY <1>7, <1>8, Zenon
  <2>3. world' = world /\ \A m : (KeyDim(m))' = KeyDim(m) /\ (KeyId(m))' = KeyId(m)
    BY ONLY <1>1 DEF KeyDim, KeyId
  <2> QED BY ONLY <2>1, <2>2, <2>3, Zenon DEF HasColumns
<1>9. ColumnsInv'
  BY ONLY <1>1, <1>2, <1>6, <1>8 DEF ColumnsInv, HasColumns
<1> QED BY <1>1, <1>2, <1>5, <1>9 DEF WorldInv

\* Records that are passed over are not stored.
LEMMA SkipStored == ASSUME WorldInv, Skips PROVE Stored' = Stored
<1>1. /\ UNCHANGED <<db, pc>> /\ pc = "iterate"
      /\ it <= Len(db) /\ it' \in it + 1 .. Len(db) + 1
      /\ \/ /\ it' = it + 1 /\ unread' = unread
            /\ ~isSubChunkKey(k) \/ (Len(v) > 0 /\ v[1] # 8)
         \/ unread' = unread \cup (it .. it' - 1)
  BY DEF Skips
<1>2. ColumnsInv /\ db \in Databases /\ it \in Nat /\ Len(db) \in Nat
  <2>1. ColumnsInv /\ db \in Databases
    BY DEF WorldInv
  <2>2. it \in Nat /\ Len(db) \in Nat
    BY WorldTypes
  <2> QED BY <2>1, <2>2
<1>3. PICK P : /\ P = {m \in DOMAIN db : isSubChunkKey(db[m].key) /\ Head(db[m].value) = 8}
  BY Zenon
<1>4. DOMAIN db = 1 .. Len(db) /\ it \in DOMAIN db
  BY ONLY <1>1, <1>2, WorldInv DEF WorldInv, ScanInv, TypeOK
<1>5. Stored = P \cap ((1 .. it - 1) \ unread)
  <2>1. 1 .. it - 1 \subseteq DOMAIN db
    BY ONLY <1>1, <1>2, <1>4
  <2> QED BY ONLY <1>3, <2>1, Zenon DEF Stored
<1>6. Stored' = P \cap ((1 .. it' - 1) \ unread')
  <2>1. 1 .. it' - 1 \subseteq DOMAIN db /\ db' = db
    <3>1. PICK n \in it + 1 .. Len(db) + 1 : n = it'
      BY ONLY <1>1, Zenon
    <3>2. n \in Nat /\ n - 1 <= Len(db)
      BY ONLY <1>2, <3>1
    <3>3. PICK l \in Nat : l = Len(db)
      BY ONLY <1>2
    <3>4. 1 .. n - 1 \subseteq 1 .. l
      BY ONLY <3>2, <3>3
    <3> QED BY ONLY <1>1, <1>4, <3>1, <3>3, <3>4, Zenon
  <2> QED BY ONLY <1>3, <2>1, Zenon DEF Stored
<1>7. CASE unread' = unread \cup (it .. it' - 1)
  BY ONLY <1>1, <1>2, <1>5, <1>6, <1>7 DEF ColumnsInv
<1>8. CASE /\ it' = it + 1 /\ unread' = unread
           /\ ~isSubChunkKey(k) \/ (Len(v) > 0 /\ v[1] # 8)
  <2>1. it \notin P
    <3>1. PICK u : u = v
      BY Zenon
    <3>2. u \in Seq(Int32)
      BY ONLY <1>2, <1>4, <3>1, DbFacts, Zenon DEF v
    <3>3. Len(u) > 0 => Head(u) = u[1]
      BY ONLY <3>2, HeadTailProperties, EmptySeq
    <3> QED BY ONLY <1>3, <1>8, <3>1, <3>3, Zenon DEF k, v
  <2> QED BY ONLY <1>2, <1>5, <1>6, <1>8, <2>1
<1> QED BY ONLY <1>1, <1>7, <1>8

\* Passing over a record (continue, another key, a read error) adds no column.
LEMMA SkipWorld == ASSUME WorldInv, ScanInv', Skips PROVE WorldInv'
<1>1. /\ UNCHANGED <<db, world, heap, totalChunks, currChunk, pc>> /\ pc = "iterate"
      /\ it <= Len(db) /\ it' \in it + 1 .. Len(db) + 1
      /\ \/ /\ it' = it + 1 /\ unread' = unread
            /\ ~isSubChunkKey(k) \/ (Len(v) > 0 /\ v[1] # 8)
         \/ unread' = unread \cup (it .. it' - 1)
  BY DEF Skips
<1>2. OwnersInv /\ ColumnsInv /\ db \in Databases /\ it \in Nat /\ Len(db) \in Nat
  <2>1. OwnersInv /\ ColumnsInv /\ db \in Databases
    BY DEF WorldInv
  <2>2. it \in Nat /\ Len(db) \in Nat
    BY WorldTypes
  <2> QED BY <2>1, <2>2
<1>3. ~Storing /\ ~Storing' /\ Scanning /\ Scanning'
  BY ONLY <1>1 DEF Storing, Scanning, Terminal
<1>4. OwnersInv'
  <2>1. ChunksOwnedOnce'
    BY ONLY <1>1, <1>2 DEF OwnersInv, ChunksOwnedOnce
  <2> QED BY ONLY <1>1, <1>3, <2>1 DEF OwnersInv
<1>5. unread' \subseteq 1 .. it' - 1
  <2>1. PICK n \in it + 1 .. Len(db) + 1 : n = it'
    BY ONLY <1>1, Zenon
  <2>2. unread' = unread \/ unread' = unread \cup (it .. n - 1)
    BY ONLY <1>1, <2>1, Zenon
  <2>3. unread \subseteq 1 .. it - 1 /\ it >= 1
    BY <1>2, WorldTypes DEF ColumnsInv
  <2>4. unread' \subseteq 1 .. n - 1
    <3>1. n \in Nat /\ n > it
      BY ONLY <1>2, <2>1
    <3>2. 1 .. it - 1 \subseteq 1 .. n - 1 /\ it .. n - 1 \subseteq 1 .. n - 1
      BY ONLY <1>2, <2>3, <3>1
    <3> QED BY ONLY <2>2, <2>3, <3>2, Zenon
  <2> QED BY ONLY <2>1, <2>4, Zenon
<1>6. Stored' = Stored
  BY SkipStored
<1>7. HasColumns(Stored \cup Entered)'
  <2>1. HasColumns(Stored \cup Entered)
    BY ONLY <1>2, <1>3 DEF ColumnsInv, HasColumns
  <2>2. PICK S : S = Stored \cup Entered /\ S = (Stored \cup Entered)'
    BY ONLY <1>3, <1>6 DEF Entered
  <2>3. world' = world /\ \A m : (KeyDim(m))' = KeyDim(m) /\ (KeyId(m))' = KeyId(m)
    BY ONLY <1>1 DEF KeyDim, KeyId
  <2> QED BY ONLY <2>1, <2>2, <2>3, Zenon DEF HasColumns
<1>8. ColumnsInv'
  BY ONLY <1>3, <1>5, <1>7 DEF ColumnsInv, HasColumns
<1> QED BY <1>1, <1>2, <1>4, <1>8 DEF WorldInv

\* The end of the storage loop makes the record one that is stored.
LEMMA EndStored ==
  ASSUME WorldInv, EndSubChunk
  PROVE  /\ Stored' = Stored \cup {it} /\ HasKey(it)
         /\ UNCHANGED <<db, unread, world, heap, totalChunks, currChunk>> /\ it' = it + 1
         /\ pc = "storage" /\ pc' = "iterate"
<1>1. /\ UNCHANGED <<db, unread, world, heap, totalChunks, currChunk>> /\ it' = it + 1
      /\ pc = "storage" /\ pc' = "iterate"
  BY DEF EndSubChunk, storeVars, recordVars, Goto
<1>2. /\ TypeOK /\ db \in Databases /\ it \in Nat /\ it >= 1 /\ Len(db) \in Nat
      /\ DOMAIN db = 1 .. Len(db)
  BY WorldTypes
<1>3. Storing /\ isSubChunkKey(k)
  BY <1>1 DEF Storing, WorldInv, ScanInv, CursorInv
<1>4. unread \subseteq 1 .. it - 1 /\ Len(v) >= 2 /\ v[1] = 8
  BY <1>3 DEF WorldInv, ColumnsInv
<1>5. it \in DOMAIN db
  <2>1. it <= Len(db)
    BY ONLY <1>1, <1>2, Zenon DEF TypeOK
  <2> QED BY ONLY <1>2, <2>1
<1>6. Head(db[it].value) = 8 /\ isSubChunkKey(db[it].key)
  <2>1. PICK u : u = v
    BY Zenon
  <2>2. u \in Seq(Int32)
    BY ONLY <1>2, <1>5, <2>1, DbFacts, Zenon DEF v
  <2>3. Head(u) = u[1]
    BY ONLY <1>4, <2>1, <2>2, HeadTailProperties, EmptySeq
  <2> QED BY ONLY <1>3, <1>4, <2>1, <2>3, Zenon DEF k, v
<1>7. Stored' = Stored \cup {it}
  <2>1. PICK n, U : n \in Nat /\ n = it /\ U = unread
    BY ONLY <1>2
  <2>2. (1 .. n) \ U = ((1 .. n - 1) \ U) \cup {n}
    BY ONLY <1>2, <1>4, <2>1
  <2>3. it' - 1 = n /\ unread' = U /\ db' = db
    BY ONLY <1>1, <2>1
  <2>4. Stored' = {m \in (1 .. n) \ U : isSubChunkKey(db[m].key) /\ Head(db[m].value) = 8}
    BY ONLY <2>3, Zenon DEF Stored
  <2>5. Stored = {m \in (1 .. n - 1) \ U : isSubChunkKey(db[m].key) /\ Head(db[m].value) = 8}
    BY ONLY <2>1, Zenon DEF Stored
  <2> QED BY ONLY <1>6, <2>1, <2>2, <2>4, <2>5, Zenon
<1> QED BY ONLY <1>1, <1>3, <1>5, <1>7, Zenon DEF HasKey, k

\* It leaves the columns as they are: the one being read is now one that was read.
LEMMA EndWorld == ASSUME WorldInv, ScanInv', EndSubChunk PROVE WorldInv'
<1>1. /\ Stored' = Stored \cup {it} /\ HasKey(it)
      /\ UNCHANGED <<db, unread, world, heap, totalChunks, currChunk>> /\ it' = it + 1
      /\ pc = "storage" /\ pc' = "iterate"
  BY EndStored
<1>2. OwnersInv /\ ColumnsInv /\ db \in Databases
  BY DEF WorldInv
<1>3. Storing /\ ~Storing' /\ Scanning /\ Scanning'
  BY ONLY <1>1 DEF Storing, Scanning, Terminal
<1>4. OwnersInv'
  <2>1. ChunksOwnedOnce'
    BY ONLY <1>1, <1>2 DEF OwnersInv, ChunksOwnedOnce
  <2> QED BY ONLY <1>1, <1>3, <2>1 DEF OwnersInv
<1>5. unread' \subseteq 1 .. it' - 1
  <2>1. unread \subseteq 1 .. it - 1 /\ it \in Nat
    BY <1>2, WorldTypes DEF ColumnsInv
  <2>2. 1 .. it - 1 \subseteq 1 .. (it + 1) - 1
    BY ONLY <2>1
  <2> QED BY ONLY <1>1, <2>1, <2>2, Zenon
<1>6. HasColumns(Stored \cup Entered)'
  <2>1. HasColumns(Stored \cup Entered)
    BY ONLY <1>2, <1>3 DEF ColumnsInv, HasColumns
  <2>2. PICK S : S = Stored \cup Entered /\ S = (Stored \cup Entered)'
    BY ONLY <1>1, <1>3 DEF Entered
  <2>3. world' = world /\ \A m : (KeyDim(m))' = KeyDim(m) /\ (KeyId(m))' = KeyId(m)
    BY ONLY <1>1 DEF KeyDim, KeyId
  <2> QED BY ONLY <2>1, <2>2, <2>3, Zenon DEF HasColumns
<1>7. ColumnsInv'
  BY ONLY <1>3, <1>5, <1>6 DEF ColumnsInv, HasColumns
<1> QED BY <1>1, <1>2, <1>4, <1>7 DEF WorldInv

\* What the two steps do that change chunks: one palette gets one more tag, or one block
\* its state.
Grown(a, b, y, t) ==
  /\ b.x = a.x /\ b.z = a.z /\ b.blocks = a.blocks
  /\ \A s \in SubChunk :
       b.blockStates[s] = IF s = y THEN Append(a.blockStates[s], t) ELSE a.blockStates[s]
GrownBy(h, g, c, y, t) ==
  /\ Len(g) = Len(h) /\ c \in 1 .. Len(h) /\ Grown(h[c], g[c], y, t)
  /\ \A d \in (1 .. Len(h)) \ {c} : g[d] = h[d]

Filled(a, b, cell, state) ==
  /\ b.x = a.x /\ b.z = a.z /\ b.blockStates = a.blockStates
  /\ \A u \in Cell : b.blocks[u] = IF u = cell THEN state ELSE a.blocks[u]
PlacedAt(h, g, c, cell, state) ==
  /\ Len(g) = Len(h) /\ c \in 1 .. Len(h) /\ Filled(h[c], g[c], cell, state)
  /\ \A d \in (1 .. Len(h)) \ {c} : g[d] = h[d]

EntryTag == [rec |-> it, storage |-> i, entry |-> p, nbt |-> Item(currOffset)]
ThisCell == <<rawX(pos), blockY, rawZ(pos)>>
ThisState == StateOf(Field(word, pos, bitsPerBlock))

\* addBlockState pushes one tag onto the palette of the sub-chunk of the key.
LEMMA AddEntryFacts ==
  ASSUME ScanInv, AddPaletteEntry
  PROVE  /\ GrownBy(heap, heap', currChunk, chunkY, EntryTag) /\ EntryTag \in RootTag
         /\ UNCHANGED <<db, it, unread, pc, world, totalChunks, currChunk>>
         /\ pc = "palette" /\ chunkY \in SubChunk /\ it <= Len(db)
<1>1. /\ TypeOK /\ it <= Len(db) /\ currChunk # nullptr /\ pc = "palette" /\ chunkY \in SubChunk
  BY DEF ScanInv, TypeOK, AddPaletteEntry, AtEntry
<1>2. currChunk \in 1 .. Len(heap) /\ heap \in Seq(ChunkOver(RootTag))
  BY <1>1, CurrChunkFacts DEF TypeOK
<1>3. EntryTag \in RootTag
  <2>1. Item(currOffset) \in Int
    BY <1>1, RecordFacts DEF TypeOK, AddPaletteEntry, Legible
  <2> QED BY <1>1, <2>1 DEF TypeOK, RootTag, EntryTag
<1>4. heap' = [heap EXCEPT ![currChunk] = addBlockState(heap[currChunk], chunkY, EntryTag)]
  BY DEF AddPaletteEntry, EntryTag
<1>5. PICK h, c, y, t : h = heap /\ c = currChunk /\ y = chunkY /\ t = EntryTag
  BY Zenon
<1>6. /\ h \in Seq(ChunkOver(RootTag)) /\ c \in 1 .. Len(h) /\ y \in SubChunk /\ t \in RootTag
      /\ heap' = [h EXCEPT ![c] = addBlockState(h[c], y, t)]
  BY ONLY <1>1, <1>2, <1>3, <1>4, <1>5, Zenon
<1>7. PICK e : e = addBlockState(h[c], y, t)
  BY Zenon
<1>8. /\ e \in ChunkOver(RootTag) /\ e.x = h[c].x /\ e.z = h[c].z /\ e.blocks = h[c].blocks
      /\ e.blockStates = [h[c].blockStates EXCEPT ![y] = Append(h[c].blockStates[y], t)]
      /\ h[c] \in ChunkOver(RootTag)
  <2>1. h[c] \in ChunkOver(RootTag)
    BY ONLY <1>6, ElementOfSeq
  <2>2. PICK a \in ChunkOver(RootTag) : a = h[c]
    BY ONLY <2>1, Zenon
  <2>3. /\ addBlockState(a, y, t) \in ChunkOver(RootTag)
        /\ addBlockState(a, y, t).x = a.x /\ addBlockState(a, y, t).z = a.z
        /\ addBlockState(a, y, t).blocks = a.blocks
        /\ addBlockState(a, y, t).blockStates = [a.blockStates EXCEPT ![y] = Append(a.blockStates[y], t)]
    BY ONLY <1>6, <2>2, AddBlockStateFacts
  <2> QED BY ONLY <1>7, <2>1, <2>2, <2>3, Zenon
<1>9. Len(heap') = Len(h) /\ \A d \in 1 .. Len(h) : heap'[d] = IF d = c THEN e ELSE h[d]
  BY ONLY <1>6, <1>7, <1>8, ExceptSeq
<1>10. h[c].blockStates \in [SubChunk -> Seq(RootTag)]
  BY ONLY <1>8 DEF ChunkOver
<1>11. \A s \in SubChunk :
         e.blockStates[s] = IF s = y THEN Append(h[c].blockStates[s], t) ELSE h[c].blockStates[s]
  BY ONLY <1>6, <1>8, <1>10
<1>12. GrownBy(h, heap', c, y, t)
  <2>1. Grown(h[c], e, y, t)
    BY ONLY <1>8, <1>11, Zenon DEF Grown
  <2>2. Len(heap') = Len(h) /\ c \in 1 .. Len(h) /\ heap'[c] = e
    BY ONLY <1>6, <1>9, Zenon
  <2>3. \A d \in (1 .. Len(h)) \ {c} : heap'[d] = h[d]
    BY ONLY <1>9, Zenon
  <2> QED BY ONLY <2>1, <2>2, <2>3, Zenon DEF GrownBy
<1>13. UNCHANGED <<db, it, unread, pc, world, totalChunks, currChunk>>
  BY DEF AddPaletteEntry, recordVars
<1> QED BY ONLY <1>1, <1>3, <1>5, <1>12, <1>13, Zenon

\* addBlock stores one state, at a height of the sub-chunk of the key.
LEMMA PlaceFacts ==
  ASSUME ScanInv, PlaceBlock
  PROVE  /\ PlacedAt(heap, heap', currChunk, ThisCell, ThisState)
         /\ ThisCell \in Cell /\ ThisState \in Int
         /\ chunkY \in SubChunk /\ ThisCell[2] \div Edge = chunkY
         /\ UNCHANGED <<db, it, unread, pc, world, totalChunks, currChunk>>
         /\ pc = "blocks" /\ it <= Len(db)
<1>1. /\ TypeOK /\ it <= Len(db) /\ currChunk # nullptr
      /\ pc = "blocks" /\ AtBlock /\ pos \in Nat /\ paletteSize \in Int
      /\ bitsPerBlock \in 1 .. WordBits - 1 /\ isSubChunkKey(k)
  BY DEF ScanInv, TypeOK, CursorInv, Storing, PlaceBlock, AtBlock
<1>2. currChunk \in 1 .. Len(heap) /\ heap \in Seq(ChunkOver(RootTag))
  BY <1>1, CurrChunkFacts DEF TypeOK
<1>3. /\ ThisCell \in Cell /\ NextBlock
      /\ heap' = [heap EXCEPT ![currChunk] =
                    addBlock(heap[currChunk], ThisState, rawX(pos), blockY, rawZ(pos))]
  BY DEF PlaceBlock, ThisCell, ThisState
<1>4. chunkY \in SubChunk /\ blockY \div Edge = chunkY
  <2>1. chunkY \in Int
    BY <1>1, RecordFacts, KeyFacts DEF chunkY
  <2>2. rawY(pos) \in Side
    BY <1>1, RawFacts
  <2>3. rawY(pos) + Edge * chunkY \in 0 .. Height - 1
    BY <1>3 DEF Cell, blockY, ThisCell
  <2>4. chunkY \in SubChunk /\ (rawY(pos) + Edge * chunkY) \div Edge = chunkY
    BY ONLY <2>1, <2>2, <2>3, HeightFacts
  <2> QED BY <2>3, <2>4 DEF blockY
<1>5. ThisState \in Int
  <2>1. Field(word, pos, bitsPerBlock) \in Nat
    BY <1>1, BlockWord, FieldType
  <2> QED BY <1>1, <2>1 DEF StateOf, Corrupt, ThisState
<1>6. PICK h, c, x, y, z, s : /\ h = heap /\ c = currChunk /\ x = rawX(pos) /\ y = blockY
                              /\ z = rawZ(pos) /\ s = ThisState
  BY Zenon
<1>7. /\ h \in Seq(ChunkOver(RootTag)) /\ c \in 1 .. Len(h) /\ <<x, y, z>> \in Cell /\ s \in Int
      /\ heap' = [h EXCEPT ![c] = addBlock(h[c], s, x, y, z)] /\ ThisCell = <<x, y, z>>
  BY ONLY <1>2, <1>3, <1>5, <1>6, Zenon DEF ThisCell
<1>8. PICK e : e = addBlock(h[c], s, x, y, z)
  BY Zenon
<1>9. /\ e \in ChunkOver(RootTag) /\ e.x = h[c].x /\ e.z = h[c].z
      /\ e.blockStates = h[c].blockStates /\ e.blocks = [h[c].blocks EXCEPT ![<<x, y, z>>] = s]
      /\ h[c] \in ChunkOver(RootTag)
  BY ONLY <1>7, <1>8, AddBlockFacts, ElementOfSeq, SMTT(40)
<1>10. Len(heap') = Len(h) /\ \A d \in 1 .. Len(h) : heap'[d] = IF d = c THEN e ELSE h[d]
  BY ONLY <1>7, <1>8, <1>9, ExceptSeq
<1>11. h[c].blocks \in [Cell -> Int]
  BY ONLY <1>9 DEF ChunkOver
<1>12. \A u \in Cell : e.blocks[u] = IF u = <<x, y, z>> THEN s ELSE h[c].blocks[u]
  BY ONLY <1>7, <1>9, <1>11, Zenon
<1>13. PlacedAt(h, heap', c, <<x, y, z>>, s)
  <2>1. Filled(h[c], e, <<x, y, z>>, s)
    BY ONLY <1>9, <1>12, Zenon DEF Filled
  <2>2. Len(heap') = Len(h) /\ c \in 1 .. Len(h) /\ heap'[c] = e
    BY ONLY <1>7, <1>10, Zenon
  <2>3. \A d \in (1 .. Len(h)) \ {c} : heap'[d] = h[d]
    BY ONLY <1>10, Zenon
  <2> QED BY ONLY <2>1, <2>2, <2>3, Zenon DEF PlacedAt
<1>14. UNCHANGED <<db, it, unread, pc, world, totalChunks, currChunk>>
  BY <1>3 DEF NextBlock, recordVars
<1>15. ThisCell[2] \div Edge = chunkY
  BY <1>4 DEF ThisCell
<1> QED BY ONLY <1>1, <1>3, <1>4, <1>5, <1>6, <1>7, <1>13, <1>14, <1>15, Zenon

\* Blocks and palettes have nothing to do with where the chunks are.
LEMMA StoreWorld == ASSUME WorldInv, ScanInv', Stores PROVE WorldInv'
<1>1. ScanInv /\ OwnersInv /\ ColumnsInv /\ db \in Databases
  BY DEF WorldInv
<1>2. /\ UNCHANGED <<db, it, unread, pc, world, totalChunks, currChunk>> /\ Len(heap') = Len(heap)
      /\ \A c \in 1 .. Len(heap) : heap'[c].x = heap[c].x /\ heap'[c].z = heap[c].z
      /\ pc \in {"palette", "blocks"}
  <2>1. CASE AddPaletteEntry
    BY ONLY <1>1, <2>1, AddEntryFacts, Zenon DEF GrownBy, Grown
  <2>2. CASE PlaceBlock
    BY ONLY <1>1, <2>2, PlaceFacts, Zenon DEF PlacedAt, Filled
  <2> QED BY <2>1, <2>2 DEF Stores
<1>3. ChunksOwnedOnce'
  <2>1. TypeOK /\ TypeOK' /\ ChunksOwnedOnce
    BY <1>1 DEF ScanInv, OwnersInv
  <2> QED BY ONLY <1>2, <2>1, OwnersKept
<1>4. (ChunkFor(it))' = ChunkFor(it)
  BY ONLY <1>2 DEF ChunkFor, KeyId, KeyDim
<1>5. Storing /\ pc # "open"
  BY ONLY <1>2 DEF Storing
<1>6. OwnersInv'
  BY ONLY <1>1, <1>2, <1>3, <1>4, <1>5 DEF OwnersInv
<1>7. ColumnsInv'
  <2>1. Stored' = Stored /\ Entered' = Entered /\ v' = v /\ Scanning' = Scanning /\ Storing' = Storing
    BY ONLY <1>2 DEF Stored, Entered, v, Scanning, Storing
  <2>2. \A m : (KeyDim(m))' = KeyDim(m) /\ (KeyId(m))' = KeyId(m)
    BY ONLY <1>2 DEF KeyDim, KeyId
  <2> QED BY ONLY <1>1, <1>2, <2>1, <2>2, Zenon DEF ColumnsInv
<1> QED BY <1>1, <1>2, <1>6, <1>7 DEF WorldInv

\* A new chunk in a place that has none.
LEMMA OwnerAdded ==
  ASSUME NEW w, NEW h, Len(h) \in Nat, NEW t, OwnedOnce(w, h, t),
         \A d \in ChunkDimension : \A id : findChunk(w, id, d) \in 0 .. Len(h),
         NEW dim \in ChunkDimension, NEW own, findChunk(w, own, dim) = nullptr,
         NEW g, Len(g) = Len(h) + 1, \A c \in 1 .. Len(h) : g[c] = h[c],
         chunkID(g[Len(h) + 1].x, g[Len(h) + 1].z) = own,
         NEW u, \A d \in ChunkDimension : \A id : findChunk(u, id, d) =
                  IF d = dim /\ id = own THEN Len(h) + 1 ELSE findChunk(w, id, d)
  PROVE  OwnedOnce(u, g, t + 1)
<1>1. PICK n \in Nat : n = Len(h)
  OBVIOUS
<1>2. \A d \in ChunkDimension : \A id : findChunk(w, id, d) \in 0 .. n /\ findChunk(w, id, d) # n + 1
  BY ONLY <1>1, \A d \in ChunkDimension : \A id : findChunk(w, id, d) \in 0 .. Len(h)
<1>3. n + 1 # nullptr /\ \A c \in 1 .. n : c # nullptr /\ c # n + 1
  BY ONLY <1>1 DEF nullptr
<1>4. /\ \A d \in ChunkDimension : \A id : d # dim \/ id # own => findChunk(u, id, d) = findChunk(w, id, d)
      /\ findChunk(u, own, dim) = n + 1
  BY ONLY <1>1, dim \in ChunkDimension, Zenon,
          \A d \in ChunkDimension : \A id : findChunk(u, id, d) =
             IF d = dim /\ id = own THEN Len(h) + 1 ELSE findChunk(w, id, d)
<1>5. /\ \A c \in 1 .. n : \E d \in ChunkDimension : findChunk(w, chunkID(h[c].x, h[c].z), d) = c
      /\ \A d \in ChunkDimension : \A id : findChunk(w, id, d) # nullptr =>
           /\ chunkID(h[findChunk(w, id, d)].x, h[findChunk(w, id, d)].z) = id
           /\ \A e \in ChunkDimension \ {d} : findChunk(w, id, e) # findChunk(w, id, d)
      /\ t = n
  BY ONLY <1>1, OwnedOnce(w, h, t), Zenon DEF OwnedOnce
<1>6. /\ \A c \in 1 .. n : g[c] = h[c]
      /\ chunkID(g[n + 1].x, g[n + 1].z) = own
      /\ Len(g) = n + 1
  BY ONLY <1>1, \A c \in 1 .. Len(h) : g[c] = h[c], Len(g) = Len(h) + 1,
          chunkID(g[Len(h) + 1].x, g[Len(h) + 1].z) = own, Zenon
<1>7. ASSUME NEW c \in 1 .. n + 1
      PROVE  \E d \in ChunkDimension : findChunk(u, chunkID(g[c].x, g[c].z), d) = c
  <2>1. CASE c = n + 1
    BY ONLY <1>4, <1>6, <2>1, dim \in ChunkDimension, Zenon
  <2>2. CASE c # n + 1
    <3>1. c \in 1 .. n
      BY ONLY <1>1, <1>7, <2>2
    <3>2. PICK d \in ChunkDimension : findChunk(w, chunkID(h[c].x, h[c].z), d) = c
      BY ONLY <1>5, <3>1, Zenon
    <3>3. d # dim \/ chunkID(h[c].x, h[c].z) # own
      BY ONLY <1>3, <3>1, <3>2, findChunk(w, own, dim) = nullptr, Zenon
    <3> QED BY ONLY <1>4, <1>6, <3>1, <3>2, <3>3, Zenon
  <2> QED BY ONLY <2>1, <2>2
<1>8. ASSUME NEW d \in ChunkDimension, NEW id, findChunk(u, id, d) # nullptr
      PROVE  /\ chunkID(g[findChunk(u, id, d)].x, g[findChunk(u, id, d)].z) = id
             /\ \A e \in ChunkDimension \ {d} : findChunk(u, id, e) # findChunk(u, id, d)
  <2>1. CASE d = dim /\ id = own
    <3>1. findChunk(u, id, d) = n + 1
      BY ONLY <1>4, <2>1, Zenon
    <3>2. ASSUME NEW e \in ChunkDimension \ {d} PROVE findChunk(u, id, e) # n + 1
      <4>1. e \in ChunkDimension /\ e # dim
        BY ONLY <2>1, <3>2, Zenon
      <4> QED BY ONLY <1>2, <1>4, <4>1, Zenon
    <3> QED BY ONLY <1>6, <2>1, <3>1, <3>2, Zenon
  <2>2. CASE d # dim \/ id # own
    <3>1. PICK c : c = findChunk(w, id, d)
      BY Zenon
    <3>2. findChunk(u, id, d) = c /\ c # nullptr /\ c \in 0 .. n /\ c # n + 1
      BY ONLY <1>2, <1>4, <1>8, <2>2, <3>1, Zenon
    <3>3. c \in 1 .. n
      BY ONLY <1>1, <3>2 DEF nullptr
    <3>4. /\ chunkID(h[c].x, h[c].z) = id
          /\ \A e \in ChunkDimension \ {d} : findChunk(w, id, e) # c
      BY ONLY <1>5, <3>1, <3>2, d \in ChunkDimension, ZenonT(60)
    <3> QED BY ONLY <1>4, <1>6, <3>2, <3>3, <3>4, Zenon
  <2> QED BY ONLY <2>1, <2>2
<1>9. t + 1 = Len(g) /\ 1 .. Len(g) = 1 .. n + 1
  BY ONLY <1>5, <1>6, Zenon
<1> QED BY ONLY <1>7, <1>8, <1>9, Zenon DEF OwnedOnce

\* What a sub-chunk record begins with.
BeginsNew ==
  /\ ChunkFor(it) = nullptr
  /\ totalChunks' = totalChunks + 1
  /\ heap' = Append(heap, NewChunk(chunkX, chunkZ))
  /\ world' = addChunk(world, NewChunk(chunkX, chunkZ), Len(heap) + 1, dimension)
  /\ currChunk' = Len(heap) + 1
BeginsOld ==
  /\ ChunkFor(it) # nullptr
  /\ currChunk' = ChunkFor(it)
  /\ UNCHANGED <<world, heap, totalChunks>>

\* A record of format 8 is entered: its chunk is found or allocated.
LEMMA BeginFacts ==
  ASSUME WorldInv, BeginSubChunk
  PROVE  /\ BeginsNew \/ BeginsOld
         /\ pc = "iterate" /\ pc' = "storage" /\ UNCHANGED <<db, it, unread>>
         /\ HasKey(it) /\ it <= Len(db) /\ Len(v) >= 2 /\ v[1] = 8
         /\ i' = 0 /\ storageNum' = v[2] /\ currOffset' = 2
         /\ chunkX \in Int /\ chunkZ \in Int /\ dimension \in ChunkDimension
<1>1. ChunkFor(it) = findChunk(world, chunkID(chunkX, chunkZ), dimension)
  BY ONLY CurrentKey, Zenon DEF ChunkFor
<1>2. /\ BeginsNew \/ BeginsOld
      /\ pc = "iterate" /\ pc' = "storage" /\ UNCHANGED <<db, it, unread>> /\ it <= Len(db)
      /\ isSubChunkKey(k) /\ Readable(1) /\ Item(0) = 8 /\ i' = 0 /\ storageNum' = Item(1)
      /\ currOffset' = 2
  BY ONLY <1>1, BeginSubChunk, Zenon DEF BeginSubChunk, AtRecord, Goto, BeginsNew, BeginsOld, storeVars
<1>3. /\ TypeOK /\ db \in Databases /\ it \in Nat /\ it >= 1 /\ Len(db) \in Nat
      /\ DOMAIN db = 1 .. Len(db)
  BY WorldTypes
<1>4. HasKey(it)
  <2>1. it \in DOMAIN db
    BY ONLY <1>2, <1>3
  <2> QED BY ONLY <1>2, <2>1, Zenon DEF HasKey, k
<1>5. chunkX \in Int /\ chunkZ \in Int /\ dimension \in ChunkDimension
  BY <1>2, <1>3, RecordFacts, KeyFacts DEF chunkX, chunkZ, dimension
<1>6. Len(v) >= 2 /\ v[1] = 8 /\ storageNum' = v[2]
  <2>1. Len(v) \in Nat
    BY ONLY <1>2, <1>3, RecordFacts
  <2> QED BY ONLY <1>2, <2>1 DEF Readable, Item
<1> QED BY ONLY <1>2, <1>4, <1>5, <1>6, Zenon

\* The new chunk is found under its own coordinates only.
LEMMA BeginOwners ==
  ASSUME WorldInv, ScanInv', BeginSubChunk, BeginsNew
  PROVE  ChunksOwnedOnce' /\ (ChunkFor(it))' = currChunk'
<1>1. /\ it' = it /\ db' = db /\ dimension \in ChunkDimension /\ chunkX \in Int /\ chunkZ \in Int
  BY BeginFacts
<1>2. TypeOK /\ TypeOK' /\ ChunksOwnedOnce
  BY DEF WorldInv, ScanInv, OwnersInv
<1>3. PICK w, h, t, g, u : w = world /\ h = heap /\ t = totalChunks /\ g = heap' /\ u = world'
  BY Zenon
<1>4. PICK dim \in ChunkDimension, x \in Int, z \in Int : dim = dimension /\ x = chunkX /\ z = chunkZ
  BY ONLY <1>1, Zenon
<1>5. OwnedOnce(w, h, t)
  BY ONLY <1>2, <1>3, OwnedOnceForm, Zenon
<1>6. /\ DOMAIN w = ChunkDimension /\ h \in Seq(ChunkOver(RootTag)) /\ Len(h) \in Nat
      /\ \A d \in ChunkDimension : \A id : findChunk(w, id, d) \in 0 .. Len(h)
  <2>1. /\ DOMAIN w = ChunkDimension /\ h \in Seq(ChunkOver(RootTag))
        /\ \A d \in ChunkDimension : w[d] \in [DOMAIN w[d] -> 1 .. Len(h)]
    BY ONLY <1>2, <1>3, Zenon DEF TypeOK
  <2>2. Len(h) \in Nat
    BY ONLY <2>1
  <2> QED BY ONLY <2>1, <2>2, FindChunkFacts
<1>7. PICK c : c = NewChunk(x, z)
  BY Zenon
<1>8. c \in ChunkOver(RootTag) /\ c.x = x /\ c.z = z
  <2>1. c.x = x /\ c.z = z
    BY ONLY <1>7 DEF NewChunk
  <2> QED BY ONLY <1>4, <1>7, <2>1, NewChunkType, Zenon
<1>9. /\ findChunk(w, chunkID(x, z), dim) = nullptr /\ g = Append(h, c)
      /\ u = addChunk(w, c, Len(h) + 1, dim) /\ totalChunks' = t + 1 /\ currChunk' = Len(h) + 1
  <2>1. ChunkFor(it) = findChunk(world, chunkID(chunkX, chunkZ), dimension)
    BY ONLY CurrentKey, Zenon DEF ChunkFor
  <2> QED BY ONLY <1>3, <1>4, <1>7, <2>1, BeginsNew, Zenon DEF BeginsNew
<1>10. Len(g) = Len(h) + 1 /\ (\A j \in 1 .. Len(h) : g[j] = h[j]) /\ g[Len(h) + 1] = c
  BY ONLY <1>6, <1>8, <1>9
<1>11. PICK own : own = chunkID(x, z)
  BY Zenon
<1>12. \A d \in ChunkDimension : \A id : findChunk(u, id, d) =
         IF d = dim /\ id = own THEN Len(h) + 1 ELSE findChunk(w, id, d)
  <2>1. PICK n : n = Len(h) + 1
    BY Zenon
  <2>2. DOMAIN w = ChunkDimension /\ u = addChunk(w, c, n, dim) /\ chunkID(c.x, c.z) = own
    BY ONLY <1>6, <1>8, <1>9, <1>11, <2>1, Zenon
  <2>3. ASSUME NEW d \in ChunkDimension, NEW id
        PROVE  findChunk(u, id, d) = IF d = dim /\ id = chunkID(c.x, c.z) THEN n ELSE findChunk(w, id, d)
    BY ONLY <1>4, <2>2, <2>3, AddChunkFinds
  <2> QED BY ONLY <2>1, <2>2, <2>3, Zenon
<1>13. OwnedOnce(u, g, t + 1)
  <2>1. chunkID(g[Len(h) + 1].x, g[Len(h) + 1].z) = own /\ findChunk(w, own, dim) = nullptr
    BY ONLY <1>8, <1>9, <1>10, <1>11, Zenon
  <2>2. Len(g) = Len(h) + 1 /\ (\A j \in 1 .. Len(h) : g[j] = h[j]) /\ Len(h) \in Nat
        /\ \A d \in ChunkDimension : \A id : findChunk(w, id, d) \in 0 .. Len(h)
    BY ONLY <1>6, <1>10, Zenon
  <2> QED BY ONLY <1>4, <1>5, <1>12, <2>1, <2>2, OwnerAdded
<1>14. OwnedOnce(world', heap', totalChunks')
  BY ONLY <1>3, <1>9, <1>13, Zenon
<1>15. (ChunksOwnedOnce <=> OwnedOnce(world, heap, totalChunks))'
  BY ONLY OwnedOnceForm, <1>2, PTL
<1>16. ChunksOwnedOnce'
  BY ONLY <1>14, <1>15, Zenon DEF OwnedOnce
<1>17. (ChunkFor(it))' = findChunk(u, own, dim)
  <2>1. (ChunkFor(it))' = findChunk(world', KeyId(it), KeyDim(it))
    BY ONLY <1>1 DEF ChunkFor, KeyId, KeyDim
  <2> QED BY ONLY <1>3, <1>4, <1>11, <2>1, CurrentKey, Zenon
<1> QED BY ONLY <1>4, <1>9, <1>12, <1>16, <1>17, Zenon

\* Entering a record adds its column, and that one only.
LEMMA BeginWorld == ASSUME WorldInv, ScanInv', BeginSubChunk PROVE WorldInv'
<1>1. /\ BeginsNew \/ BeginsOld
      /\ pc = "iterate" /\ pc' = "storage" /\ UNCHANGED <<db, it, unread>>
      /\ HasKey(it) /\ Len(v) >= 2 /\ v[1] = 8
      /\ chunkX \in Int /\ chunkZ \in Int /\ dimension \in ChunkDimension
  BY BeginFacts
<1>2. OwnersInv /\ ColumnsInv /\ db \in Databases /\ TypeOK
  BY DEF WorldInv, ScanInv
<1>3. ChunksOwnedOnce' /\ (ChunkFor(it))' = currChunk'
  <2>1. CASE BeginsNew
    BY <2>1, BeginOwners
  <2>2. CASE BeginsOld
    <3>1. UNCHANGED <<db, it, world, heap, totalChunks>> /\ currChunk' = ChunkFor(it)
      BY ONLY <1>1, <2>2 DEF BeginsOld
    <3>2. ChunksOwnedOnce'
      BY ONLY <1>2, <3>1 DEF OwnersInv, ChunksOwnedOnce
    <3>3. (ChunkFor(it))' = ChunkFor(it)
      BY ONLY <3>1 DEF ChunkFor, KeyId, KeyDim
    <3> QED BY ONLY <3>1, <3>2, <3>3, Zenon
  <2> QED BY ONLY <1>1, <2>1, <2>2, Zenon
<1>4. OwnersInv'
  BY ONLY <1>1, <1>3, Zenon DEF OwnersInv
<1>5. Stored' = Stored /\ v' = v /\ Scanning /\ Scanning' /\ Entered = {} /\ Entered' = {it}
  BY ONLY <1>1 DEF Stored, v, Scanning, Storing, Terminal, Entered
<1>6. HasColumns(Stored)
  BY ONLY <1>2, <1>5 DEF ColumnsInv, HasColumns
<1>7. \A m : (KeyDim(m))' = KeyDim(m) /\ (KeyId(m))' = KeyId(m)
  BY ONLY <1>1 DEF KeyDim, KeyId
<1>8. PICK dim, own : dim = KeyDim(it) /\ own = KeyId(it)
  BY Zenon
<1>9. dim = dimension /\ own = chunkID(chunkX, chunkZ)
  BY ONLY <1>8, CurrentKey, Zenon
<1>10. ASSUME NEW d \in ChunkDimension, NEW id
       PROVE  id \in DOMAIN world'[d] <=> id \in DOMAIN world[d] \/ (d = dim /\ id = own)
  <2>1. CASE BeginsNew
    <3>1. PICK c : c = NewChunk(chunkX, chunkZ)
      BY Zenon
    <3>2. c.x = chunkX /\ c.z = chunkZ
      BY ONLY <3>1 DEF NewChunk
    <3>3. PICK w, u, n, b : w = world /\ u = world' /\ n = Len(heap) + 1 /\ b = dimension
      BY Zenon
    <3>4. DOMAIN w = ChunkDimension /\ u = addChunk(w, c, n, b) /\ b \in ChunkDimension
      BY ONLY <1>1, <1>2, <2>1, <3>1, <3>3, Zenon DEF TypeOK, BeginsNew
    <3>5. DOMAIN u[d] = DOMAIN w[d] \cup (IF d = b THEN {chunkID(c.x, c.z)} ELSE {})
      BY ONLY <1>10, <3>4, AddChunkFinds
    <3> QED BY ONLY <1>9, <3>2, <3>3, <3>5, Zenon
  <2>2. CASE BeginsOld
    <3>1. world' = world /\ findChunk(world, own, dim) # nullptr
      BY ONLY <1>8, <2>2, Zenon DEF BeginsOld, ChunkFor
    <3>2. own \in DOMAIN world[dim]
      BY ONLY <3>1, Zenon DEF findChunk
    <3> QED BY ONLY <3>1, <3>2, Zenon
  <2> QED BY ONLY <1>1, <2>1, <2>2, Zenon
<1>11. HasColumns(Stored \cup Entered)'
  <2>1. PICK S : S = Stored
    BY Zenon
  <2>2. (Stored \cup Entered)' = S \cup {it}
    BY ONLY <1>5, <2>1, Zenon
  <2>3. ASSUME NEW d \in ChunkDimension, NEW id
        PROVE  id \in DOMAIN world'[d] <=> \E m \in S \cup {it} : KeyDim(m) = d /\ KeyId(m) = id
    <3>1. id \in DOMAIN world[d] <=> \E m \in S : KeyDim(m) = d /\ KeyId(m) = id
      BY ONLY <1>6, <2>1, <2>3, Zenon DEF HasColumns
    <3> QED BY ONLY <1>8, <1>10, <2>3, <3>1, Zenon
  <2> QED BY ONLY <1>7, <2>2, <2>3, Zenon DEF HasColumns
<1>12. ColumnsInv'
  BY ONLY <1>1, <1>2, <1>5, <1>11 DEF ColumnsInv, HasColumns
<1> QED BY <1>1, <1>2, <1>4, <1>12 DEF WorldInv

\* Before the scan the maps are empty.
LEMMA WorldInit == Init => WorldInv
<1> SUFFICES ASSUME Init PROVE WorldInv
  OBVIOUS
<1>1. ScanInv
  BY InitInv
<1>2. /\ db \in Databases /\ it = 1 /\ unread = {} /\ pc = "open" /\ world = EmptyWorld
      /\ heap = << >> /\ totalChunks = 0
  BY DEF Init
<1>3. \A d \in ChunkDimension : DOMAIN world[d] = {}
  BY ONLY <1>2 DEF EmptyWorld
<1>4. ~Storing
  BY ONLY <1>2 DEF Storing
<1>5. ChunksOwnedOnce
  BY ONLY <1>2, <1>3 DEF ChunksOwnedOnce
<1>6. Stored = {} /\ Entered = {}
  BY ONLY <1>2, <1>4 DEF Stored, Entered
<1>7. OwnersInv
  BY ONLY <1>2, <1>4, <1>5 DEF OwnersInv
<1>8. ColumnsInv
  BY ONLY <1>2, <1>3, <1>4, <1>6, Zenon DEF ColumnsInv
<1> QED BY ONLY <1>1, <1>2, <1>7, <1>8 DEF WorldInv

\* The invariant of the columns is inductive.
LEMMA WorldStep == WorldInv /\ [Next]_vars => WorldInv'
<1> SUFFICES ASSUME WorldInv, [Next]_vars PROVE WorldInv'
  OBVIOUS
<1>1. ScanInv /\ ScanInv'
  BY NextInv DEF WorldInv
<1> QED BY <1>1, StepKinds, QuietWorld, SkipWorld, BeginWorld, EndWorld, StoreWorld

\* The scan keeps the world in step with the records, for every geometry and database.
THEOREM WorldInvariant == Spec => []WorldInv
<1>1. Init => WorldInv
  BY WorldInit
<1>2. WorldInv /\ [Next]_vars => WorldInv'
  BY WorldStep
<1> QED BY <1>1, <1>2, PTL DEF Spec

\* The ghost of a record and what the reader takes from its key agree, so the columns
\* are those the game wrote.
LEMMA ColumnsRight == ASSUME WorldInv PROVE ColumnsMatchRecords
<1> SUFFICES ASSUME pc = "iterate"
             PROVE  UNION {{<<d, id>> : id \in DOMAIN world[d]} : d \in ChunkDimension}
                    = {<<db[m].written.dim, chunkID(db[m].written.x, db[m].written.z)>> : m \in Stored}
  BY DEF ColumnsMatchRecords
<1>1. /\ TypeOK /\ db \in Databases /\ it \in Nat /\ it >= 1 /\ Len(db) \in Nat
      /\ DOMAIN db = 1 .. Len(db)
  BY WorldTypes
<1>2. Scanning /\ Entered = {}
  BY DEF Scanning, Storing, Terminal, Entered
<1>3. HasColumns(Stored)
  BY <1>2 DEF WorldInv, ColumnsInv, HasColumns
<1>4. \A m \in Stored : HasKey(m)
  <2>1. it <= Len(db) + 1
    BY ONLY <1>1 DEF TypeOK
  <2>2. 1 .. it - 1 \subseteq DOMAIN db
    BY ONLY <1>1, <2>1
  <2> QED BY ONLY <2>2, Zenon DEF Stored, HasKey
<1>5. \A m \in Stored : /\ KeyDim(m) = db[m].written.dim /\ KeyDim(m) \in ChunkDimension
                        /\ KeyId(m) = chunkID(db[m].written.x, db[m].written.z)
  BY ONLY <1>1, <1>4, KeyMeans, Zenon
<1>6. ASSUME NEW d \in ChunkDimension, NEW id, id \in DOMAIN world[d]
      PROVE  \E m \in Stored : <<d, id>> = <<db[m].written.dim, chunkID(db[m].written.x, db[m].written.z)>>
  <2>1. PICK m \in Stored : KeyDim(m) = d /\ KeyId(m) = id
    BY ONLY <1>3, <1>6, Zenon DEF HasColumns
  <2> QED BY ONLY <1>5, <2>1, Zenon
<1>7. ASSUME NEW m \in Stored
      PROVE  \E d \in ChunkDimension : \E id \in DOMAIN world[d] :
               <<db[m].written.dim, chunkID(db[m].written.x, db[m].written.z)>> = <<d, id>>
  BY ONLY <1>3, <1>5, <1>7, Zenon DEF HasColumns
<1> DEFINE P(m) == <<db[m].written.dim, chunkID(db[m].written.x, db[m].written.z)>>
<1>8. \A d \in ChunkDimension : \A id \in DOMAIN world[d] : \E m \in Stored : <<d, id>> = P(m)
  BY ONLY <1>6
<1>9. \A m \in Stored : \E d \in ChunkDimension : \E id \in DOMAIN world[d] : P(m) = <<d, id>>
  BY ONLY <1>7, Zenon
<1> HIDE DEF P
<1>10. UNION {{<<d, id>> : id \in DOMAIN world[d]} : d \in ChunkDimension} = {P(m) : m \in Stored}
  BY ONLY <1>8, <1>9
<1> QED BY ONLY <1>10, Zenon DEF P
-----------------------------------------------------------------------------
(* The isolation of sub-chunks.                                              *)

\* A sequence is a prefix of itself and of what Append makes of it.
LEMMA PrefixKept ==
  ASSUME NEW T, NEW q \in Seq(T), NEW t \in T
  PROVE  q = SubSeq(q, 1, Len(q)) /\ q = SubSeq(Append(q, t), 1, Len(q))
         /\ Len(q) <= Len(q) /\ Len(q) <= Len(Append(q, t))
  OBVIOUS

\* A step keeps sub-chunk s of a chunk, or makes its palette longer.
Kept(a, b) ==
  /\ \A cell \in Cell : b.blocks[cell] = a.blocks[cell]
  /\ \A s \in SubChunk : /\ b.blockStates[s] = a.blockStates[s]
                         /\ Len(a.blockStates[s]) <= Len(b.blockStates[s])
                         /\ a.blockStates[s] = SubSeq(b.blockStates[s], 1, Len(a.blockStates[s]))
ChangedIn(a, b, y) ==
  /\ \A cell \in Cell : b.blocks[cell] # a.blocks[cell] => cell[2] \div Edge = y
  /\ \A s \in SubChunk : /\ b.blockStates[s] # a.blockStates[s] => s = y
                         /\ Len(a.blockStates[s]) <= Len(b.blockStates[s])
                         /\ a.blockStates[s] = SubSeq(b.blockStates[s], 1, Len(a.blockStates[s]))

\* A chunk that does not change is kept.
LEMMA KeptSame ==
  ASSUME NEW a \in ChunkOver(RootTag)
  PROVE  Kept(a, a)
<1>1. a.blockStates \in [SubChunk -> Seq(RootTag)]
  BY DEF ChunkOver
<1>2. ASSUME NEW s \in SubChunk
      PROVE  /\ Len(a.blockStates[s]) <= Len(a.blockStates[s])
             /\ a.blockStates[s] = SubSeq(a.blockStates[s], 1, Len(a.blockStates[s]))
  <2>1. PICK q \in Seq(RootTag) : q = a.blockStates[s]
    BY ONLY <1>1, <1>2, Zenon
  <2>2. q = SubSeq(q, 1, Len(q)) /\ Len(q) <= Len(q)
    BY ONLY <2>1
  <2> QED BY ONLY <2>1, <2>2, Zenon
<1> QED BY ONLY <1>2, Zenon DEF Kept

\* A step changes nothing outside the sub-chunk of the current key.
LEMMA Isolated ==
  ASSUME WorldInv, [Next]_vars, NEW c \in DOMAIN heap
  PROVE  IF c = findChunk(world, chunkID(chunkX, chunkZ), dimension)
         THEN ChangedIn(heap[c], heap'[c], chunkY) ELSE Kept(heap[c], heap'[c])
<1>1. ScanInv /\ TypeOK
  BY DEF WorldInv, ScanInv
<1>2. heap \in Seq(ChunkOver(RootTag)) /\ c \in 1 .. Len(heap) /\ heap[c] \in ChunkOver(RootTag)
  <2>1. heap \in Seq(ChunkOver(RootTag))
    BY <1>1 DEF TypeOK
  <2>2. c \in 1 .. Len(heap)
    BY ONLY <2>1, c \in DOMAIN heap, LenProperties
  <2> QED BY ONLY <2>1, <2>2, ElementOfSeq, Zenon
<1>3. Kept(heap[c], heap[c])
  BY ONLY <1>2, KeptSame, Zenon
<1>4. ASSUME NEW b, Kept(heap[c], b) PROVE ChangedIn(heap[c], b, chunkY)
  BY ONLY <1>4, Zenon DEF Kept, ChangedIn
<1>5. ASSUME heap'[c] = heap[c]
      PROVE  IF c = findChunk(world, chunkID(chunkX, chunkZ), dimension)
             THEN ChangedIn(heap[c], heap'[c], chunkY) ELSE Kept(heap[c], heap'[c])
  BY ONLY <1>3, <1>4, <1>5, Zenon
<1>6. CASE Quiet \/ Skips \/ EndSubChunk \/ (BeginSubChunk /\ BeginsOld)
  <2>1. heap' = heap
    BY <1>6 DEF Quiet, Skips, EndSubChunk, storeVars, BeginsOld
  <2> QED BY ONLY <1>5, <2>1, Zenon
<1>7. CASE BeginSubChunk /\ BeginsNew
  <2>1. PICK f \in ChunkOver(RootTag) : heap' = Append(heap, f)
    <3>1. chunkX \in Int /\ chunkZ \in Int
      BY <1>7, BeginFacts
    <3>2. NewChunk(chunkX, chunkZ) \in ChunkOver(RootTag)
      BY ONLY <3>1, NewChunkType
    <3> QED BY ONLY <1>7, <3>2, Zenon DEF BeginsNew
  <2>2. heap'[c] = heap[c]
    BY ONLY <1>2, <2>1
  <2> QED BY ONLY <1>5, <2>2, Zenon
<1>8. CASE Stores
  <2>1. pc \in {"palette", "blocks"}
    BY <1>1, <1>8, AddEntryFacts, PlaceFacts DEF Stores
  <2>2. currChunk = findChunk(world, chunkID(chunkX, chunkZ), dimension)
    <3>1. ChunkFor(it) = currChunk
      BY <2>1 DEF WorldInv, OwnersInv, Storing
    <3> QED BY ONLY <3>1, CurrentKey, Zenon DEF ChunkFor
  <2>3. CASE c # currChunk
    <3>1. heap'[c] = heap[c]
      <4>1. CASE AddPaletteEntry
        BY ONLY <1>1, <1>2, <2>3, <4>1, AddEntryFacts, Zenon DEF GrownBy
      <4>2. CASE PlaceBlock
        BY ONLY <1>1, <1>2, <2>3, <4>2, PlaceFacts, Zenon DEF PlacedAt
      <4> QED BY ONLY <1>8, <4>1, <4>2, Zenon DEF Stores
    <3> QED BY ONLY <1>5, <3>1, Zenon
  <2>4. CASE c = currChunk
    <3>1. ChangedIn(heap[c], heap'[c], chunkY)
      <4>1. CASE AddPaletteEntry
        <5>1. PICK a, b, y, t : a = heap[c] /\ b = heap'[c] /\ y = chunkY /\ t = EntryTag
          BY Zenon
        <5>2. Grown(a, b, y, t) /\ a \in ChunkOver(RootTag) /\ t \in RootTag
          BY ONLY <1>1, <1>2, <2>4, <4>1, <5>1, AddEntryFacts, Zenon DEF GrownBy
        <5>3. a.blockStates \in [SubChunk -> Seq(RootTag)]
          BY ONLY <5>2 DEF ChunkOver
        <5>4. ASSUME NEW s \in SubChunk
              PROVE  /\ b.blockStates[s] # a.blockStates[s] => s = y
                     /\ Len(a.blockStates[s]) <= Len(b.blockStates[s])
                     /\ a.blockStates[s] = SubSeq(b.blockStates[s], 1, Len(a.blockStates[s]))
          <6>1. PICK q \in Seq(RootTag) : q = a.blockStates[s]
            BY ONLY <5>3, <5>4, Zenon
          <6>2. b.blockStates[s] = IF s = y THEN Append(q, t) ELSE q
            BY ONLY <5>2, <5>4, <6>1, Zenon DEF Grown
          <6>3. /\ q = SubSeq(q, 1, Len(q)) /\ q = SubSeq(Append(q, t), 1, Len(q))
                /\ Len(q) <= Len(q) /\ Len(q) <= Len(Append(q, t))
            BY ONLY <5>2, <6>1, PrefixKept
          <6> QED BY ONLY <6>1, <6>2, <6>3, Zenon
        <5>5. \A cell \in Cell : b.blocks[cell] = a.blocks[cell]
          BY ONLY <5>2, Zenon DEF Grown
        <5> QED BY ONLY <5>1, <5>4, <5>5, Zenon DEF ChangedIn
      <4>2. CASE PlaceBlock
        <5>1. PICK a, b, y, u, t : /\ a = heap[c] /\ b = heap'[c] /\ y = chunkY
                                   /\ u = ThisCell /\ t = ThisState
          BY Zenon
        <5>2. Filled(a, b, u, t) /\ Kept(a, a) /\ u[2] \div Edge = y
          BY ONLY <1>1, <1>3, <2>4, <4>2, <5>1, PlaceFacts, Zenon DEF PlacedAt
        <5> QED BY ONLY <5>1, <5>2, Zenon DEF ChangedIn, Kept, Filled
      <4> QED BY ONLY <1>8, <4>1, <4>2, Zenon DEF Stores
    <3> QED BY ONLY <2>2, <2>4, <3>1, Zenon
  <2> QED BY ONLY <2>3, <2>4, Zenon
<1>9. BeginSubChunk => BeginsNew \/ BeginsOld
  BY ONLY WorldInv, BeginFacts
<1> QED BY ONLY <1>1, <1>6, <1>7, <1>8, <1>9, StepKinds, [Next]_vars, Zenon

\* parseBedrock writes only into the sub-chunk of the record it is reading, and only at
\* the end of its palette: an index stored earlier keeps its meaning, in every database.
THEOREM SubChunksIsolated == Spec => SubChunkIsolation
<1> DEFINE A == \A c \in DOMAIN heap :
       LET own == c = findChunk(world, chunkID(chunkX, chunkZ), dimension)
       IN /\ \A cell \in Cell :
               heap'[c].blocks[cell] # heap[c].blocks[cell]
                 => own /\ cell[2] \div Edge = chunkY
          /\ \A s \in SubChunk :
               LET old == heap[c].blockStates[s]
                   new == heap'[c].blockStates[s]
               IN  /\ new # old => own /\ s = chunkY
                   /\ Len(old) <= Len(new)
                   /\ old = SubSeq(new, 1, Len(old))
<1>1. WorldInv /\ [Next]_vars => [A]_heap
  <2> SUFFICES ASSUME WorldInv, [Next]_vars PROVE A
    BY Zenon
  <2> SUFFICES ASSUME NEW c \in DOMAIN heap
      PROVE  /\ \A cell \in Cell : heap'[c].blocks[cell] # heap[c].blocks[cell]
                  => c = findChunk(world, chunkID(chunkX, chunkZ), dimension) /\ cell[2] \div Edge = chunkY
             /\ \A s \in SubChunk :
                  /\ heap'[c].blockStates[s] # heap[c].blockStates[s]
                       => c = findChunk(world, chunkID(chunkX, chunkZ), dimension) /\ s = chunkY
                  /\ Len(heap[c].blockStates[s]) <= Len(heap'[c].blockStates[s])
                  /\ heap[c].blockStates[s]
                       = SubSeq(heap'[c].blockStates[s], 1, Len(heap[c].blockStates[s]))
    BY Zenon
  <2>1. IF c = findChunk(world, chunkID(chunkX, chunkZ), dimension)
        THEN ChangedIn(heap[c], heap'[c], chunkY) ELSE Kept(heap[c], heap'[c])
    BY Isolated
  <2>2. CASE c = findChunk(world, chunkID(chunkX, chunkZ), dimension)
    BY ONLY <2>1, <2>2, Zenon DEF ChangedIn
  <2>3. CASE c # findChunk(world, chunkID(chunkX, chunkZ), dimension)
    BY ONLY <2>1, <2>3, Zenon DEF Kept
  <2> QED BY ONLY <2>2, <2>3, Zenon
<1> QED BY <1>1, WorldInvariant, PTL DEF Spec, SubChunkIsolation
-----------------------------------------------------------------------------
(* Records that the game wrote.                                              *)

\* The fields of a record.
LEMMA RecordTypes ==
  ASSUME NEW r \in Record
  PROVE  /\ r.key \in Seq(Byte) /\ r.value \in Seq(Int32) /\ r.written.storages \in Seq(Nat)
         /\ r.written.nbt \in [0 .. BlockCount - 1 -> Int]
         /\ r.written.dim \in ChunkDimension /\ r.written.x \in Int32 /\ r.written.z \in Int32
  BY DEF Record

\* An item of a value is an integer.
LEMMA ValueItem ==
  ASSUME NEW r \in Record, NEW n \in 1 .. Len(r.value)
  PROVE  r.value[n] \in Int
<1>1. r.value \in Seq(Int32)
  BY RecordTypes, Zenon
<1>2. r.value[n] \in Int32
  BY ONLY <1>1, n \in 1 .. Len(r.value), ElementOfSeq, Zenon
<1> QED BY ONLY SMT, <1>2 DEF Int32

\* Reader and writer count fields and words alike.
LEMMA WordCountFacts ==
  ASSUME NEW bits \in 1 .. WordBits - 1
  PROVE  /\ WordCount(bits) = numWords(bits) /\ FieldCount(bits) = blocksPerWord(bits)
         /\ WordCount(bits) \in Nat /\ FieldCount(bits) \in 1 .. WordBits
<1>1. WordCount(bits) = numWords(bits) /\ FieldCount(bits) = blocksPerWord(bits)
  BY Zenon DEF WordCount, numWords, FieldCount, blocksPerWord
<1> QED BY ONLY <1>1, WordFacts, bits \in 1 .. WordBits - 1

\* A storage of a record that the game wrote.
IsWhole(r, j) ==
  /\ Start(r, j) \in Nat /\ Bits(r, j) \in 1 .. WordBits - 1 /\ Size(r, j) \in Nat
  /\ Bits(r, j) # WordBits - 1 /\ WordCount(Bits(r, j)) \in Nat
  /\ r.value[Start(r, j) + 1] % 2 = 0 /\ r.value[Start(r, j) + 1] \div 2 = Bits(r, j)
  /\ r.value[Start(r, j) + 2 + WordCount(Bits(r, j))] = Size(r, j)
  /\ Start(r, j + 1) = Start(r, j) + 2 + WordCount(Bits(r, j)) + Size(r, j)
  /\ Start(r, j + 1) \in Nat /\ Start(r, j + 1) <= Len(r.value) /\ Len(r.value) \in Nat

\* The storages of an encoded record are whole.
LEMMA StorageFacts ==
  ASSUME NEW r \in Record, Encoded(r), NEW j \in 1 .. r.value[2]
  PROVE  IsWhole(r, j)
<1>1. PICK val, first, end, bits : /\ val = r.value /\ first = Start(r, j) /\ end = Start(r, j + 1)
                                   /\ bits = Bits(r, j)
  BY Zenon
<1>2. /\ Len(r.written.storages) = r.value[2] + 1 /\ IsStorage(val, first, end)
      /\ Len(val) >= 2 /\ r.value[2] >= 1
  BY ONLY <1>1, Encoded(r), j \in 1 .. r.value[2], Zenon DEF Encoded, Start
<1>3. r.value[2] \in Int /\ Len(val) \in Nat
  <2>1. r.value \in Seq(Int32)
    BY RecordTypes, Zenon
  <2>2. Len(val) \in Nat
    BY ONLY <1>1, <2>1
  <2>3. 2 \in 1 .. Len(r.value)
    BY ONLY <1>1, <1>2, <2>2
  <2> QED BY <2>2, <2>3, ValueItem
<1>4. j \in Nat /\ j \in 1 .. r.value[2] + 1 /\ j + 1 \in 1 .. r.value[2] + 1
  BY ONLY <1>2, <1>3, j \in 1 .. r.value[2]
<1>5. first \in Nat /\ end \in Nat
  <2>1. r.written.storages \in Seq(Nat)
    BY RecordTypes, Zenon
  <2>2. j \in 1 .. Len(r.written.storages) /\ j + 1 \in 1 .. Len(r.written.storages)
    BY ONLY <1>2, <1>4, Zenon
  <2> QED BY ONLY <1>1, <2>1, <2>2, ElementOfSeq, Zenon DEF Start
<1>6. bits = val[first + 1] \div 2
  BY ONLY <1>1, Zenon DEF Bits
<1>7. PICK size : size = val[first + 2 + WordCount(bits)]
  BY Zenon
<1>8. /\ val[first + 1] % 2 = 0 /\ bits \in 1 .. WordBits - 1 /\ bits # WordBits - 1
      /\ size \in Nat /\ end = first + 2 + WordCount(bits) + size /\ end <= Len(val)
  <2>1. /\ val[first + 1] % 2 = 0 /\ bits \in Widths /\ size \in Nat
        /\ end = first + 2 + WordCount(bits) + size /\ end <= Len(val)
    BY ONLY <1>2, <1>6, <1>7, Zenon DEF IsStorage
  <2>2. bits \in 1 .. WordBits - 1 /\ bits # WordBits - 1
    BY ONLY <2>1 DEF Widths, WordBits
  <2> QED BY ONLY <2>1, <2>2, Zenon
<1>9. WordCount(bits) \in Nat
  BY ONLY <1>8, WordCountFacts
<1> QED BY ONLY <1>1, <1>3, <1>5, <1>6, <1>7, <1>8, <1>9, Zenon DEF IsWhole, Size

\* The key of such a record is its sub-chunk's, and its header is there.
LEMMA IntactFacts ==
  ASSUME db \in Databases, NEW m \in DOMAIN db, Intact(m)
  PROVE  /\ db[m] \in Record /\ Encoded(db[m]) /\ HasKey(m)
         /\ KeyY(m) = db[m].written.y /\ KeyY(m) \in SubChunk
         /\ Len(db[m].value) \in Nat /\ Len(db[m].value) >= 2 /\ db[m].value[1] = 8
         /\ db[m].value[2] \in Int /\ db[m].value[2] >= 1
         /\ Start(db[m], 1) = 2
<1>1. PICK r : r = db[m]
  BY Zenon
<1>2. r \in Record /\ r.key \in Seq(Byte) /\ r.written.dim \in ChunkDimension
      /\ r.written.x \in Int32 /\ r.written.z \in Int32 /\ r.value \in Seq(Int32)
  BY ONLY <1>1, DbFacts, db \in Databases, m \in DOMAIN db, Zenon
<1>3. Encoded(r)
  BY ONLY <1>1, FormatAssumption, db \in Databases, m \in DOMAIN db, Intact(m), Zenon DEF Intact
<1>4. PICK y, key : y = r.written.y /\ key = r.key
  BY Zenon
<1>5. /\ y \in SubChunk /\ y < 128 /\ key = SubChunkKey(r.written.dim, r.written.x, y, r.written.z)
      /\ Len(r.value) >= 2 /\ r.value[1] = 8 /\ r.value[2] >= 1 /\ r.written.storages[1] = 2
  BY ONLY <1>3, <1>4, Zenon DEF Encoded
<1>6. y \in Byte /\ signedChar(y) = y
  BY ONLY <1>5, EdgeFacts DEF SubChunk, Byte, signedChar
<1>7. isSubChunkKey(key) /\ key[Len(key)] = y
  <2>1. PICK d \in ChunkDimension, x \in Int32, z \in Int32 :
          d = r.written.dim /\ x = r.written.x /\ z = r.written.z
    BY ONLY <1>2, Zenon
  <2>2. key = SubChunkKey(d, x, y, z)
    BY ONLY <1>5, <2>1, Zenon
  <2> QED BY ONLY <1>6, <2>1, <2>2, SubChunkKeyFacts
<1>8. Len(r.value) \in Nat /\ 2 \in 1 .. Len(r.value)
  BY ONLY <1>2, <1>5
<1>9. r.value[2] \in Int
  BY ONLY <1>2, <1>8, ValueItem, Zenon
<1>10. HasKey(m) /\ KeyY(m) = y
  BY ONLY <1>1, <1>4, <1>6, <1>7, m \in DOMAIN db, Zenon DEF HasKey, KeyY
<1> QED BY ONLY <1>1, <1>2, <1>3, <1>4, <1>5, <1>8, <1>9, <1>10, Zenon DEF Start

\* All blocks of a sub-chunk in the column are inside the vectors.
LEMMA CellInside ==
  ASSUME NEW n \in Nat, NEW y \in SubChunk
  PROVE  <<rawX(n), rawY(n) + Edge * y, rawZ(n)>> \in Cell
<1>1. rawX(n) \in Side /\ rawY(n) \in Side /\ rawZ(n) \in Side
  BY RawFacts
<1>2. Edge \in Nat /\ SubChunks \in Nat /\ y \in Nat /\ y <= SubChunks - 1
  BY EdgeFacts DEF SubChunk
<1>3. Edge * y \in Nat /\ Edge * y <= Edge * (SubChunks - 1)
  BY ONLY <1>2
<1>4. Edge * (SubChunks - 1) = Edge * SubChunks - Edge /\ Edge * SubChunks \in Nat
  BY ONLY <1>2
<1>5. PICK a, b, h, r : a = Edge * y /\ b = Edge * (SubChunks - 1) /\ h = Edge * SubChunks /\ r = rawY(n)
  BY Zenon
<1>6. r \in 0 .. Edge - 1 /\ a \in Nat /\ a <= b /\ b = h - Edge /\ h \in Nat
  BY ONLY <1>1, <1>3, <1>4, <1>5, Zenon DEF Side
<1>7. r + a \in 0 .. h - 1
  BY ONLY <1>2, <1>6
<1> QED BY ONLY <1>1, <1>5, <1>7, Zenon DEF Cell, Height

\* The scan is in a record of the game.
LEMMA InIntact ==
  ASSUME ReadInv, Storing, Intact(it)
  PROVE  /\ db \in Databases /\ TypeOK /\ ScanInv /\ it \in DOMAIN db /\ it <= Len(db)
         /\ db[it] \in Record /\ Encoded(db[it]) /\ chunkY \in SubChunk
         /\ storageNum = db[it].value[2] /\ storageNum \in Int /\ storageNum >= 1
         /\ i \in Nat /\ i <= storageNum /\ v = db[it].value
         /\ pc = "storage" => currOffset = Start(db[it], i + 1)
         /\ pc # "storage" => i < storageNum /\ InStorage(db[it], i + 1)
         /\ i < storageNum => IsWhole(db[it], i + 1)
<1>1. WorldInv /\ IntactInv
  BY DEF ReadInv
<1>2. ScanInv /\ TypeOK /\ db \in Databases /\ it \in Nat /\ it >= 1 /\ Len(db) \in Nat /\ DOMAIN db = 1 .. Len(db)
  BY <1>1, WorldTypes DEF WorldInv
<1>3. it <= Len(db) /\ i \in Nat
  BY <1>2 DEF TypeOK, Storing
<1>4. it \in DOMAIN db
  BY ONLY <1>2, <1>3
<1>5. /\ db[it] \in Record /\ Encoded(db[it]) /\ KeyY(it) \in SubChunk
      /\ db[it].value[2] \in Int /\ db[it].value[2] >= 1
  BY ONLY <1>2, <1>4, IntactFacts, Intact(it), Zenon
<1>6. /\ storageNum = db[it].value[2] /\ i <= storageNum
      /\ pc = "storage" => currOffset = Start(db[it], i + 1)
      /\ pc # "storage" => i < storageNum /\ InStorage(db[it], i + 1)
  BY ONLY <1>1, Storing, Intact(it), Zenon DEF IntactInv, v
<1>7. i < storageNum => IsWhole(db[it], i + 1)
  <2>1. PICK r \in Record : r = db[it]
    BY ONLY <1>5, Zenon
  <2>2. i < storageNum => i + 1 \in 1 .. r.value[2]
    BY ONLY <1>3, <1>5, <1>6, <2>1
  <2> QED BY ONLY <1>5, <2>1, <2>2, StorageFacts, Zenon
<1> QED BY ONLY <1>2, <1>3, <1>4, <1>5, <1>6, <1>7, CurrentKey, Zenon DEF v

\* Nothing stops the scan in a record of the game but an entry the NBT parser does
\* not get through.
LEMMA NoStop ==
  ASSUME ReadInv, it \in DOMAIN db, Intact(it)
  PROVE  /\ ~TruncatedHeader /\ ~RuntimeStorage /\ ~BrokenStorage /\ ~UndefinedStorage
         /\ ~UndefinedPalette /\ ~UndefinedBlock
         /\ BrokenEntry => ~(currOffset < db[it].legible)
<1>1. ASSUME TruncatedHeader PROVE FALSE
  <2>1. db \in Databases
    BY DEF ReadInv, WorldInv
  <2>2. Len(v) \in Nat /\ Len(v) >= 2
    BY ONLY <2>1, IntactFacts, it \in DOMAIN db, Intact(it), Zenon DEF v
  <2> QED BY ONLY <1>1, <2>2 DEF TruncatedHeader, Readable
<1>2. ASSUME AtStorage
      PROVE  /\ Readable(currOffset) /\ storageVersion % 2 = 0
             /\ storageBits \in 1 .. WordBits - 1 /\ Readable(sizeOffset)
             /\ storageBits # 0 /\ storageBits \in 0 .. WordBits - 1
  <2>1. pc = "storage" /\ i < storageNum /\ Storing
    BY ONLY <1>2 DEF AtStorage, Storing
  <2>2. PICK r : r = db[it]
    BY Zenon
  <2>3. IsWhole(r, i + 1) /\ currOffset = Start(r, i + 1) /\ v = r.value
    BY ONLY <2>1, <2>2, InIntact, ReadInv, Intact(it), Zenon
  <2>4. PICK j : j = i + 1
    BY Zenon
  <2>5. /\ currOffset = Start(r, j) /\ Start(r, j) \in Nat /\ Bits(r, j) \in 1 .. WordBits - 1
        /\ Size(r, j) \in Nat /\ WordCount(Bits(r, j)) \in Nat
        /\ v[Start(r, j) + 1] % 2 = 0 /\ v[Start(r, j) + 1] \div 2 = Bits(r, j)
        /\ Start(r, j + 1) = Start(r, j) + 2 + WordCount(Bits(r, j)) + Size(r, j)
        /\ Start(r, j + 1) <= Len(v) /\ Len(v) \in Nat
    BY ONLY <2>3, <2>4, Zenon DEF IsWhole
  <2>6. /\ storageVersion = v[Start(r, j) + 1] /\ storageBits = Bits(r, j)
    BY ONLY <2>5, Zenon DEF storageVersion, storageBits, Item
  <2>7. sizeOffset = Start(r, j) + 1 + WordCount(Bits(r, j))
    BY ONLY <2>5, <2>6, WordCountFacts DEF sizeOffset
  <2>8. Readable(currOffset) /\ Readable(sizeOffset)
    BY ONLY <2>5, <2>7 DEF Readable
  <2>9. Bits(r, j) # 0 /\ Bits(r, j) \in 0 .. WordBits - 1
    <3>1. PICK bits \in 1 .. WordBits - 1 : bits = Bits(r, j)
      BY ONLY <2>5, Zenon
    <3>2. bits # 0 /\ bits \in 0 .. WordBits - 1
      BY ONLY <3>1 DEF WordBits
    <3> QED BY ONLY <3>1, <3>2, Zenon
  <2> QED BY ONLY <2>5, <2>6, <2>8, <2>9, Zenon
<1>3. ~RuntimeStorage
  BY ONLY <1>2 DEF RuntimeStorage
<1>4. ~BrokenStorage
  BY ONLY <1>2, Zenon DEF BrokenStorage
<1>5. ~UndefinedStorage
  BY ONLY <1>2, Zenon DEF UndefinedStorage
<1>6. ASSUME pc \in {"palette", "blocks"} PROVE chunkY \in SubChunk
  <2>1. Storing
    BY ONLY <1>6 DEF Storing
  <2> QED BY ONLY <2>1, InIntact, ReadInv, Intact(it), Zenon
<1>7. ASSUME AtEntry PROVE Readable(currOffset)
  <2>1. pc = "palette" /\ p < paletteSize /\ Storing /\ pc # "storage"
    BY ONLY <1>7 DEF AtEntry, Storing
  <2>2. PICK r, j : r = db[it] /\ j = i + 1
    BY Zenon
  <2>3. i < storageNum /\ InStorage(r, j) /\ v = r.value /\ TypeOK
    BY ONLY <2>1, <2>2, InIntact, ReadInv, Intact(it), Zenon
  <2>4. IsWhole(r, j)
    BY ONLY <2>1, <2>2, <2>3, InIntact, ReadInv, Intact(it), Zenon
  <2>5. p \in Nat
    BY ONLY <2>3 DEF TypeOK
  <2>6. currOffset = Start(r, j) + 2 + WordCount(Bits(r, j)) + p /\ paletteSize = Size(r, j)
    BY ONLY <2>1, <2>3, Zenon DEF InStorage
  <2>7. /\ Start(r, j) \in Nat /\ Size(r, j) \in Nat /\ WordCount(Bits(r, j)) \in Nat
        /\ Start(r, j + 1) = Start(r, j) + 2 + WordCount(Bits(r, j)) + Size(r, j)
        /\ Start(r, j + 1) <= Len(v) /\ Len(v) \in Nat
    BY ONLY <2>3, <2>4, Zenon DEF IsWhole
  <2> QED BY ONLY <2>1, <2>5, <2>6, <2>7 DEF Readable
<1>8. BrokenEntry => ~(currOffset < db[it].legible)
  BY ONLY <1>7, Zenon DEF BrokenEntry, Legible
<1>9. ~UndefinedPalette
  BY ONLY <1>6 DEF UndefinedPalette, AtEntry
<1>10. ASSUME UndefinedBlock PROVE FALSE
  <2>1. chunkY \in SubChunk
    BY ONLY <1>6, <1>10 DEF UndefinedBlock, AtBlock
  <2>2. pos \in Nat
    <3>1. TypeOK
      BY WorldTypes DEF ReadInv
    <3> QED BY ONLY <3>1 DEF TypeOK
  <2>3. <<rawX(pos), blockY, rawZ(pos)>> \in Cell
    BY ONLY <2>1, <2>2, CellInside DEF blockY
  <2>4. ~StateOverflows
    <3>1. pc = "blocks" /\ pc # "storage" /\ Storing
      BY ONLY <1>10 DEF UndefinedBlock, AtBlock, Storing
    <3>2. PICK r, j : r = db[it] /\ j = i + 1
      BY Zenon
    <3>3. InStorage(r, j) /\ IsWhole(r, j)
      BY ONLY <3>1, <3>2, InIntact, ReadInv, Intact(it), Zenon
    <3>4. bitsPerBlock = Bits(r, j) /\ paletteSize = Size(r, j)
      BY ONLY <3>3, Zenon DEF InStorage
    <3>5. Bits(r, j) # WordBits - 1 /\ Size(r, j) \in Nat
      BY ONLY <3>3, Zenon DEF IsWhole
    <3> QED BY ONLY <3>4, <3>5 DEF StateOverflows
  <2> QED BY ONLY <1>10, <2>3, <2>4 DEF UndefinedBlock
<1> QED BY ONLY <1>1, <1>3, <1>4, <1>5, <1>8, <1>9, <1>10

\* A step out of an intact record is never one that ends the scan.
LEMMA NeverStopsStep == ASSUME ReadInv, [Next]_vars PROVE IntactStopsOnlyThere'
<1>1. IntactStopsOnlyThere /\ WorldInv /\ OwnersInv
  BY DEF ReadInv, WorldInv
<1> SUFFICES ASSUME pc' \in {"aborted", "undefined"} \/ (pc' = "failed" /\ heap' # << >>),
                    Intact(it)', ~(pc' = "aborted" /\ currOffset' >= db'[it'].legible)
             PROVE  FALSE
  BY DEF IntactStopsOnlyThere
<1>2. CASE UNCHANGED <<db, it, pc, heap, currOffset>>
  BY ONLY <1>1, <1>2, Intact(it)', ~(pc' = "aborted" /\ currOffset' >= db'[it'].legible),
          pc' \in {"aborted", "undefined"} \/ (pc' = "failed" /\ heap' # << >>)
     DEF IntactStopsOnlyThere, Intact
<1>3. UNCHANGED vars \/ Done => UNCHANGED <<db, it, pc, heap, currOffset>>
  BY DEF vars, storeVars, Done
<1>4. CASE OpenFails
  BY <1>1, <1>4 DEF OpenFails, StopWith, Goto, storeVars, OwnersInv
<1>5. CASE TruncatedHeader \/ RuntimeStorage \/ BrokenStorage \/ UndefinedStorage
            \/ BrokenEntry \/ UndefinedPalette \/ UndefinedBlock
  <2>1. UNCHANGED <<db, it>>
    BY <1>5 DEF TruncatedHeader, RuntimeStorage, BrokenStorage, UndefinedStorage,
                BrokenEntry, UndefinedPalette, UndefinedBlock, StopWith
  <2>2. it <= Len(db)
    <3>1. TypeOK
      BY <1>1, WorldTypes
    <3>2. (pc = "iterate" /\ it <= Len(db)) \/ pc \in {"storage", "palette", "blocks"}
      BY ONLY <1>5 DEF TruncatedHeader, RuntimeStorage, BrokenStorage, UndefinedStorage,
                BrokenEntry, UndefinedPalette, UndefinedBlock, AtRecord, AtStorage, AtEntry, AtBlock
    <3> QED BY ONLY <3>1, <3>2, Zenon DEF TypeOK
  <2>3. it \in DOMAIN db
    <3>1. it \in Nat /\ it >= 1 /\ Len(db) \in Nat /\ DOMAIN db = 1 .. Len(db)
      BY <1>1, WorldTypes
    <3> QED BY ONLY <2>2, <3>1
  <2>4. Intact(it)
    BY ONLY <2>1, Intact(it)' DEF Intact
  <2>5. CASE BrokenEntry
    <3>1. pc' = "aborted" /\ currOffset' = currOffset
      BY ONLY <2>5 DEF BrokenEntry, StopWith, Goto
    <3>2. ~(currOffset < db[it].legible)
      BY <2>3, <2>4, <2>5, NoStop
    <3>3. currOffset \in Nat /\ db[it].legible \in Nat
      <4>1. TypeOK
        BY <1>1, WorldTypes
      <4>2. db[it] \in Record
        BY ONLY <4>1, <2>3, ElementOfSeq DEF TypeOK
      <4> QED BY ONLY <4>1, <4>2 DEF TypeOK, Record
    <3> QED BY ONLY <2>1, <3>1, <3>2, <3>3, ~(pc' = "aborted" /\ currOffset' >= db'[it'].legible)
  <2> QED BY ONLY <1>5, <2>3, <2>4, <2>5, NoStop, ReadInv, Zenon
<1>6. pc' \in {"aborted", "undefined", "failed"}
  BY ONLY pc' \in {"aborted", "undefined"} \/ (pc' = "failed" /\ heap' # << >>)
<1>7. CASE Open \/ BeginSubChunk \/ EndSubChunk \/ BeginStorage \/ EndPalette \/ EndStorage \/ Finish
  BY ONLY <1>6, <1>7 DEF Open, BeginSubChunk, EndSubChunk, BeginStorage, EndPalette, EndStorage, Finish,
                         StopWith, Goto
<1>8. CASE IgnoreRecord \/ SkipFormat \/ ReadError \/ AddPaletteEntry \/ PlaceBlock \/ DiscardBlock
  BY ONLY <1>6, <1>8 DEF IgnoreRecord, SkipFormat, ReadError, NextRecord, AtRecord,
                         AddPaletteEntry, AtEntry, PlaceBlock, DiscardBlock, AtBlock, NextBlock
<1> QED BY ONLY <1>2, <1>3, <1>4, <1>5, <1>7, <1>8, [Next]_vars, Zenon DEF Next

\* IntactInv, with the record and the variables it is about as parameters.
ReadTo(r, ph, num, j, off, bits, words, end, size, q) ==
  /\ num = r.value[2] /\ j <= num
  /\ ph = "storage" => off = Start(r, j + 1)
  /\ ph # "storage" =>
       /\ j < num
       /\ bits = Bits(r, j + 1) /\ size = Size(r, j + 1) /\ words = Start(r, j + 1) + 1
       /\ ph = "palette" => /\ q <= size
                            /\ off = Start(r, j + 1) + 2 + WordCount(Bits(r, j + 1)) + q
       /\ ph = "blocks" => end = Start(r, j + 1 + 1)

\* IntactInv is ReadTo of the variables.
LEMMA ReadToForm ==
  IntactInv <=> (Storing /\ Intact(it) =>
    ReadTo(db[it], pc, storageNum, i, currOffset, bitsPerBlock, blockDataOffset, paletteOffset, paletteSize, p))
  BY Zenon DEF IntactInv, ReadTo, InStorage, v

\* parseBedrock goes through the storages of an intact record as the game wrote them.
LEMMA IntactStep == ASSUME ReadInv, [Next]_vars, WorldInv' PROVE IntactInv'
<1> DEFINE R(r) == ReadTo(r, pc, storageNum, i, currOffset, bitsPerBlock, blockDataOffset,
                          paletteOffset, paletteSize, p)
<1> SUFFICES ASSUME Storing', Intact(it)' PROVE R(db[it])'
  <2>1. (IntactInv <=> (Storing /\ Intact(it) => R(db[it])))'
    BY ONLY ReadToForm, PTL
  <2>2. IntactInv' <=> (Storing' /\ Intact(it)' => R(db[it])')
    BY ONLY <2>1
  <2> QED BY <2>2, Zenon
<1>1. WorldInv /\ ScanInv /\ TypeOK
  BY WorldTypes DEF ReadInv, WorldInv
<1>2. pc' \in {"storage", "palette", "blocks"}
  BY ONLY Storing' DEF Storing
<1>3. CASE BeginSubChunk
  <2>1. /\ pc' = "storage" /\ UNCHANGED <<db, it>> /\ HasKey(it) /\ i' = 0 /\ storageNum' = v[2]
        /\ currOffset' = 2
    BY <1>1, <1>3, BeginFacts
  <2>2. PICK r : r = db[it]
    BY Zenon
  <2>3. db \in Databases /\ it \in DOMAIN db /\ Intact(it)
    BY <2>1 DEF HasKey, Intact, WorldInv, ReadInv
  <2>4. r.value[2] \in Int /\ r.value[2] >= 1 /\ Start(r, 1) = 2
    BY ONLY <2>2, <2>3, IntactFacts, Zenon
  <2>5. 0 <= r.value[2] /\ 0 + 1 = 1
    BY ONLY <2>4
  <2>6. db'[it'] = r /\ storageNum' = r.value[2]
    BY ONLY <2>1, <2>2, Zenon DEF v
  <2>7. R(r)'
    BY ONLY <2>1, <2>4, <2>5, <2>6, Zenon DEF ReadTo
  <2> QED BY ONLY <2>6, <2>7, Zenon
<1>4. ASSUME Storing, UNCHANGED <<db, it>>
      PROVE  \E r : /\ r = db[it] /\ db'[it'] = r /\ v = r.value
                    /\ R(r) /\ (i < storageNum => IsWhole(r, i + 1)) /\ i \in Nat /\ storageNum \in Int
  <2>1. Intact(it)
    BY ONLY <1>4, Intact(it)' DEF Intact
  <2>2. R(db[it])
    BY ONLY <1>4, <2>1, ReadInv, ReadToForm, Zenon DEF ReadInv
  <2>3. /\ v = db[it].value /\ i \in Nat /\ storageNum \in Int
        /\ i < storageNum => IsWhole(db[it], i + 1)
    BY ONLY <1>4, <2>1, InIntact, ReadInv, Zenon
  <2> HIDE DEF R
  <2> QED BY ONLY <1>4, <2>2, <2>3, Zenon
<1>5. CASE BeginStorage
  <2>1. /\ pc = "storage" /\ pc' = "palette" /\ i < storageNum /\ UNCHANGED <<db, it, storageNum, i>>
        /\ bitsPerBlock' = storageBits /\ blockDataOffset' = currOffset + 1
        /\ paletteSize' = Item(sizeOffset) /\ currOffset' = sizeOffset + 1 /\ p' = 0
    BY ONLY <1>5 DEF BeginStorage, AtStorage, Goto, recordVars
  <2>2. Storing
    BY ONLY <2>1 DEF Storing
  <2>3. PICK r : /\ r = db[it] /\ db'[it'] = r /\ v = r.value /\ R(r) /\ IsWhole(r, i + 1)
                 /\ i \in Nat /\ storageNum \in Int
    BY ONLY <1>4, <2>1, <2>2, Zenon
  <2>4. PICK j, n, num : j = i + 1 /\ n = i /\ num = storageNum
    BY Zenon
  <2>5. PICK s, b, z, wc : s = Start(r, j) /\ b = Bits(r, j) /\ z = Size(r, j) /\ wc = WordCount(Bits(r, j))
    BY Zenon
  <2>6. /\ s \in Nat /\ b \in 1 .. WordBits - 1 /\ z \in Nat /\ wc \in Nat
        /\ v[s + 1] \div 2 = b /\ v[s + 2 + wc] = z
    BY ONLY <2>3, <2>4, <2>5, Zenon DEF IsWhole
  <2>7. currOffset = s /\ num = r.value[2] /\ n <= num
    BY ONLY <2>1, <2>3, <2>4, <2>5, Zenon DEF ReadTo
  <2>8. storageBits = b /\ sizeOffset = s + 1 + wc /\ numWords(b) = wc
    <3>1. storageBits = b
      BY ONLY <2>6, <2>7, Zenon DEF storageBits, storageVersion, Item
    <3>2. numWords(b) = wc
      BY ONLY <2>5, <2>6, WordCountFacts
    <3> QED BY ONLY <2>7, <3>1, <3>2, Zenon DEF sizeOffset
  <2>9. Item(sizeOffset) = z
    <3>1. sizeOffset + 1 = s + 2 + wc
      BY ONLY <2>6, <2>8
    <3> QED BY ONLY <2>6, <3>1, Zenon DEF Item
  <2>10. sizeOffset + 1 = s + 2 + wc + 0 /\ 0 <= z
    BY ONLY <2>6, <2>8
  <2>11. R(r)'
    <3>1. /\ pc' = "palette" /\ storageNum' = num /\ i' = n /\ currOffset' = s + 2 + wc + 0
          /\ bitsPerBlock' = b /\ blockDataOffset' = s + 1 /\ paletteSize' = z /\ p' = 0 /\ n < num
      BY ONLY <2>1, <2>4, <2>7, <2>8, <2>9, <2>10, Zenon
    <3>2. j = n + 1
      BY ONLY <2>4, Zenon
    <3> QED BY ONLY <2>5, <2>7, <2>10, <3>1, <3>2 DEF ReadTo
  <2> QED BY ONLY <2>3, <2>11, Zenon
<1>6. CASE AddPaletteEntry
  <2>1. /\ pc = "palette" /\ p < paletteSize /\ currOffset' = currOffset + 1 /\ p' = p + 1
        /\ UNCHANGED <<db, it, pc, storageNum, i, bitsPerBlock, blockDataOffset, paletteOffset, paletteSize>>
    BY ONLY <1>6 DEF AddPaletteEntry, AtEntry, recordVars
  <2>2. Storing
    BY ONLY <2>1 DEF Storing
  <2>3. PICK r : db'[it'] = r /\ R(r) /\ (i < storageNum => IsWhole(r, i + 1))
    BY ONLY <1>4, <2>1, <2>2, Zenon
  <2>4. i < storageNum /\ currOffset = Start(r, i + 1) + 2 + WordCount(Bits(r, i + 1)) + p
    BY ONLY <2>1, <2>3 DEF ReadTo
  <2>5. PICK s, wc : s = Start(r, i + 1) /\ wc = WordCount(Bits(r, i + 1))
    BY Zenon
  <2>6. s \in Nat /\ wc \in Nat
    BY ONLY <2>3, <2>4, <2>5, Zenon DEF IsWhole
  <2>7. p \in Nat /\ paletteSize \in Int
    BY ONLY <1>1 DEF TypeOK
  <2>8. p + 1 <= paletteSize /\ currOffset + 1 = s + 2 + wc + (p + 1)
    BY ONLY <2>1, <2>4, <2>5, <2>6, <2>7
  <2>9. p' <= paletteSize' /\ currOffset' = s + 2 + wc + p'
    BY ONLY <2>1, <2>8, Zenon
  <2>10. R(r)'
    BY ONLY <2>1, <2>3, <2>5, <2>9 DEF ReadTo
  <2> QED BY ONLY <2>3, <2>10, Zenon
<1>7. CASE EndPalette
  <2>1. /\ pc = "palette" /\ pc' = "blocks" /\ p >= paletteSize /\ paletteOffset' = currOffset
        /\ UNCHANGED <<db, it, storageNum, i, bitsPerBlock, blockDataOffset, paletteSize>>
    BY ONLY <1>7 DEF EndPalette, recordVars, Goto
  <2>2. Storing
    BY ONLY <2>1 DEF Storing
  <2>3. PICK r : db'[it'] = r /\ R(r) /\ (i < storageNum => IsWhole(r, i + 1))
    BY ONLY <1>4, <2>1, <2>2, Zenon
  <2>4. PICK j : j = i + 1
    BY Zenon
  <2>5. /\ i < storageNum /\ currOffset = Start(r, j) + 2 + WordCount(Bits(r, j)) + p
        /\ p <= paletteSize /\ paletteSize = Size(r, j)
    BY ONLY <2>1, <2>3, <2>4 DEF ReadTo
  <2>6. Start(r, j + 1) = Start(r, j) + 2 + WordCount(Bits(r, j)) + Size(r, j)
    BY ONLY <2>3, <2>4, <2>5, Zenon DEF IsWhole
  <2>7. p \in Nat /\ paletteSize \in Int
    BY ONLY <1>1 DEF TypeOK
  <2>8. p = paletteSize
    BY ONLY <2>1, <2>5, <2>7
  <2>9. paletteOffset' = Start(r, j + 1)
    BY ONLY <2>1, <2>5, <2>6, <2>8, Zenon
  <2>10. R(r)'
    BY ONLY <2>1, <2>3, <2>4, <2>9 DEF ReadTo
  <2> QED BY ONLY <2>3, <2>10, Zenon
<1>8. CASE PlaceBlock \/ DiscardBlock
  <2>1. /\ pc = "blocks"
        /\ UNCHANGED <<db, it, pc, storageNum, i, bitsPerBlock, blockDataOffset, paletteOffset, paletteSize, p>>
    BY ONLY <1>8 DEF PlaceBlock, DiscardBlock, AtBlock, NextBlock, recordVars
  <2>2. Storing
    BY ONLY <2>1 DEF Storing
  <2>3. PICK r : db'[it'] = r /\ R(r)
    BY ONLY <1>4, <2>1, <2>2, Zenon
  <2>4. R(r)'
    BY ONLY <2>1, <2>3 DEF ReadTo
  <2> QED BY ONLY <2>3, <2>4, Zenon
<1>9. CASE EndStorage
  <2>1. /\ pc = "blocks" /\ pc' = "storage" /\ currOffset' = paletteOffset /\ i' = i + 1
        /\ UNCHANGED <<db, it, storageNum>>
    BY ONLY <1>9 DEF EndStorage, Goto
  <2>2. Storing
    BY ONLY <2>1 DEF Storing
  <2>3. PICK r : db'[it'] = r /\ R(r) /\ i \in Nat /\ storageNum \in Int
    BY ONLY <1>4, <2>1, <2>2, Zenon
  <2>4. /\ i < storageNum /\ paletteOffset = Start(r, i + 1 + 1) /\ storageNum = r.value[2]
    BY ONLY <2>1, <2>3 DEF ReadTo
  <2>5. i + 1 <= storageNum
    BY ONLY <2>3, <2>4
  <2>6. R(r)'
    BY ONLY <2>1, <2>4, <2>5, Zenon DEF ReadTo
  <2> QED BY ONLY <2>3, <2>6, Zenon
<1>10. CASE UNCHANGED vars \/ Done
  <2>1. UNCHANGED <<db, it, pc, storageNum, i, currOffset, bitsPerBlock, blockDataOffset, paletteOffset, paletteSize, p>>
    BY ONLY <1>10 DEF Done, vars, recordVars, storageVars
  <2>2. Storing
    BY ONLY <2>1, Storing' DEF Storing
  <2>3. PICK r : db'[it'] = r /\ R(r)
    BY ONLY <1>4, <2>1, <2>2, Zenon
  <2>4. R(r)'
    BY ONLY <2>1, <2>3 DEF ReadTo
  <2> QED BY ONLY <2>3, <2>4, Zenon
<1>11. CASE Open \/ OpenFails \/ TruncatedHeader \/ EndSubChunk \/ RuntimeStorage \/ BrokenStorage
             \/ UndefinedStorage \/ BrokenEntry \/ UndefinedPalette \/ UndefinedBlock \/ Finish
  BY ONLY <1>2, <1>11 DEF Open, OpenFails, TruncatedHeader, EndSubChunk, RuntimeStorage, BrokenStorage,
          UndefinedStorage, BrokenEntry, UndefinedPalette, UndefinedBlock, Finish, StopWith, Goto
<1>12. CASE IgnoreRecord \/ SkipFormat \/ ReadError
  BY ONLY <1>2, <1>12 DEF IgnoreRecord, SkipFormat, ReadError, NextRecord, AtRecord
<1> QED BY ONLY <1>3, <1>5, <1>6, <1>7, <1>8, <1>9, <1>10, <1>11, <1>12, [Next]_vars, Zenon DEF Next

\* Every record that the game wrote is read from its first byte to its last.
THEOREM ReadInvariant == Spec => []ReadInv
<1>1. Init => ReadInv
  <2> SUFFICES ASSUME Init PROVE ReadInv
    OBVIOUS
  <2>1. pc = "open"
    BY DEF Init
  <2> QED BY <2>1, WorldInit DEF ReadInv, IntactInv, IntactStopsOnlyThere, Storing
<1>2. ReadInv /\ [Next]_vars => ReadInv'
  <2> SUFFICES ASSUME ReadInv, [Next]_vars PROVE ReadInv'
    OBVIOUS
  <2>1. WorldInv'
    BY WorldStep DEF ReadInv
  <2> QED BY <2>1, IntactStep, NeverStopsStep DEF ReadInv
<1> QED BY <1>1, <1>2, PTL DEF Spec

\* For every database: each chunk is owned by one map entry, the columns are those of the
\* records stored, and no record that the game wrote makes parseBedrock stop.
THEOREM WorldIsRight == Spec => []WorldMatchesRecords
<1>1. ReadInv => WorldMatchesRecords
  BY ColumnsRight DEF ReadInv, WorldInv, OwnersInv, WorldMatchesRecords
<1> QED BY <1>1, ReadInvariant, PTL
-----------------------------------------------------------------------------
(* The arithmetic of positions and fields.                                   *)

\* Division with remainder.
LEMMA DivMod ==
  ASSUME NEW n \in Int, NEW b \in Nat \ {0}
  PROVE  n \div b \in Int /\ n % b \in 0 .. b - 1 /\ n = b * (n \div b) + (n % b)
  OBVIOUS

\* Two divisions are one by the product.
LEMMA DivDiv ==
  ASSUME NEW n \in Int, NEW a \in Nat \ {0}, NEW b \in Nat \ {0}
  PROVE  (n \div a) \div b = n \div (a * b)
<1>1. PICK q \in Int, r \in 0 .. a - 1 : n \div a = q /\ n = a * q + r
  BY DivMod
<1>2. PICK t \in Int, u \in 0 .. b - 1 : q \div b = t /\ q = b * t + u
  BY DivMod
<1>3. a * b \in Nat \ {0}
  OBVIOUS
<1>4. n = (a * b) * t + (a * u + r)
  <2>1. a * q = a * (b * t) + a * u
    BY ONLY <1>2, a \in Nat \ {0}, b \in Nat \ {0}
  <2>2. a * (b * t) = (a * b) * t
    BY ONLY <1>2, a \in Nat \ {0}, b \in Nat \ {0}
  <2> QED BY ONLY <1>1, <1>2, <2>1, <2>2, <1>3, a \in Nat \ {0}
<1>5. a * u + r \in 0 .. (a * b) - 1
  <2>1. a * u <= a * (b - 1) /\ a * u \in Nat
    BY ONLY <1>2, a \in Nat \ {0}, b \in Nat \ {0}
  <2>2. a * (b - 1) = a * b - a
    BY ONLY a \in Nat \ {0}, b \in Nat \ {0}
  <2> QED BY ONLY <1>1, <1>3, <2>1, <2>2, a \in Nat \ {0}
<1>6. ((a * b) * t + (a * u + r)) \div (a * b) = t
  <2>1. PICK d \in Nat \ {0} : d = a * b
    BY ONLY <1>3, Zenon
  <2>2. PICK e \in 0 .. d - 1 : e = a * u + r
    BY ONLY <1>5, <2>1, Zenon
  <2>3. (d * t + e) \div d = t
    BY ONLY <1>2, <2>1, <2>2, DivUnique
  <2> QED BY ONLY <2>1, <2>2, <2>3, Zenon
<1> QED BY ONLY <1>1, <1>2, <1>4, <1>6, Zenon

\* Numbers with the same remainder differ by a multiple.
LEMMA SameRest ==
  ASSUME NEW n \in Int, NEW q \in Int, NEW b \in Nat \ {0}, n % b = q % b
  PROVE  /\ n \div b \in Int /\ q \div b \in Int /\ q - n = b * ((q \div b) - (n \div b))
<1>1. PICK a \in Int, c \in Int, r \in Int :
        a = n \div b /\ c = q \div b /\ r = n % b /\ n = b * a + r /\ q = b * c + r
  <2>1. /\ n \div b \in Int /\ n % b \in 0 .. b - 1 /\ n = b * (n \div b) + (n % b)
        /\ q \div b \in Int /\ q % b \in 0 .. b - 1 /\ q = b * (q \div b) + (q % b)
    BY ONLY DivMod, n \in Int, q \in Int, b \in Nat \ {0}
  <2>2. n % b \in Int
    BY ONLY <2>1, b \in Nat \ {0}
  <2> QED BY ONLY <2>1, <2>2, n % b = q % b, Zenon
<1>2. q - n = b * (c - a)
  BY ONLY <1>1, b \in Nat \ {0}
<1> QED BY ONLY <1>1, <1>2, Zenon

\* Two positions in the same cell are a sub-chunk apart.
LEMMA CellsApart ==
  ASSUME NEW n \in Nat, NEW q \in Nat, n < q, q < n + BlockCount,
         rawX(n) = rawX(q), rawY(n) = rawY(q), rawZ(n) = rawZ(q)
  PROVE  FALSE
<1>1. PICK E \in Nat \ {0} : E = Edge
  BY EdgeFacts
<1>2. PICK n1, q1 : n1 = n \div E /\ q1 = q \div E
  BY Zenon
<1>3. n1 \in Int /\ q1 \in Int /\ q - n = E * (q1 - n1)
  <2>1. n % E = q % E
    BY ONLY <1>1, rawY(n) = rawY(q), Zenon DEF rawY
  <2>2. n \in Int /\ q \in Int
    BY ONLY n \in Nat, q \in Nat
  <2> QED BY ONLY <1>2, <2>1, <2>2, SameRest, E \in Nat \ {0}, Zenon
<1>4. PICK n2, q2 : n2 = n1 \div E /\ q2 = q1 \div E
  BY Zenon
<1>5. n2 \in Int /\ q2 \in Int /\ q1 - n1 = E * (q2 - n2)
  <2>1. n1 % E = q1 % E
    BY ONLY <1>1, <1>2, rawZ(n) = rawZ(q), Zenon DEF rawZ
  <2> QED BY ONLY <1>3, <1>4, <2>1, SameRest, E \in Nat \ {0}
<1>6. n2 = n \div (E * E) /\ q2 = q \div (E * E)
  <2>1. n \in Int /\ q \in Int
    BY ONLY n \in Nat, q \in Nat
  <2>2. (n \div E) \div E = n \div (E * E) /\ (q \div E) \div E = q \div (E * E)
    BY ONLY <2>1, DivDiv, E \in Nat \ {0}, Zenon
  <2> QED BY ONLY <1>2, <1>4, <2>2, Zenon
<1>7. PICK d \in Int : q2 - n2 = E * d
  <2>1. n2 % E = q2 % E
    BY ONLY <1>1, <1>6, rawX(n) = rawX(q), Zenon DEF rawX
  <2>2. PICK a, b : a = n2 \div E /\ b = q2 \div E
    BY Zenon
  <2>3. a \in Int /\ b \in Int /\ q2 - n2 = E * (b - a)
    BY ONLY <1>5, <2>1, <2>2, SameRest, E \in Nat \ {0}
  <2>4. b - a \in Int
    BY ONLY <2>3
  <2> QED BY ONLY <2>3, <2>4, Zenon
<1>8. q - n = E * (E * (E * d))
  BY ONLY <1>3, <1>5, <1>7, Zenon
<1>9. E * (E * (E * d)) = (E * E * E) * d
  BY ONLY <1>7, E \in Nat \ {0}
<1>10. PICK c \in Nat \ {0} : c = E * E * E /\ c = BlockCount
  BY ONLY <1>1, EdgeFacts, Zenon DEF BlockCount
<1>11. q - n = c * d
  BY ONLY <1>8, <1>9, <1>10, Zenon
<1>12. CASE d >= 1
  <2>1. c * d >= c
    BY ONLY <1>7, <1>10, <1>12
  <2> QED BY ONLY <1>10, <1>11, <2>1, n \in Nat, q \in Nat, q < n + BlockCount, <1>7
<1>13. CASE d <= 0
  <2>1. c * d <= 0
    BY ONLY <1>7, <1>10, <1>13
  <2> QED BY ONLY <1>7, <1>10, <1>11, <2>1, n \in Nat, q \in Nat, n < q
<1> QED BY ONLY <1>7, <1>12, <1>13

\* The blocks of a sub-chunk are numbered without the mask that rawX has.
LEMMA PositionFacts ==
  ASSUME NEW n \in 0 .. BlockCount - 1
  PROVE  /\ n \div (Edge * Edge) \in Side /\ n \div (Edge * Edge) = rawX(n)
         /\ n % Edge \in Side /\ n % Edge = rawY(n)
         /\ (n \div Edge) % Edge \in Side /\ (n \div Edge) % Edge = rawZ(n)
<1>1. PICK E \in Nat \ {0} : E = Edge
  BY EdgeFacts
<1>2. PICK c \in Nat \ {0} : c = E * E
  BY ONLY E \in Nat \ {0}
<1>3. n \in Nat /\ n < E * c
  <2>1. BlockCount \in Nat /\ BlockCount = E * E * E
    BY ONLY <1>1, EdgeFacts DEF BlockCount
  <2>2. E * E * E = E * c
    BY ONLY <1>2, E \in Nat \ {0}
  <2> QED BY ONLY <2>1, <2>2, n \in 0 .. BlockCount - 1
<1>4. n \div c < E /\ n \div c \in Nat
  <2>1. n \div c \in Nat
    BY ONLY <1>2, <1>3, DivStep
  <2> QED BY ONLY <1>2, <1>3, <2>1, DivBound, E \in Nat \ {0}
<1>5. PICK x \in 0 .. E - 1 : x = n \div c
  BY ONLY <1>4, E \in Nat \ {0}
<1>6. x % E = x
  BY ONLY <1>5, E \in Nat \ {0}
<1>7. n \div (Edge * Edge) \in Side /\ n \div (Edge * Edge) = rawX(n)
  BY ONLY <1>1, <1>2, <1>5, <1>6, Zenon DEF rawX, Side
<1>8. rawY(n) \in Side /\ rawZ(n) \in Side
  BY ONLY <1>3, RawFacts
<1> QED BY ONLY <1>7, <1>8, Zenon DEF rawY, rawZ

\* The words hold a whole sub-chunk.
LEMMA SlotsFacts ==
  ASSUME NEW bits \in 1 .. WordBits - 1
  PROVE  Slots(bits) \in Nat /\ Slots(bits) >= BlockCount
<1>1. PICK b \in Nat \ {0} : b = blocksPerWord(bits)
  BY WordFacts DEF WordBits
<1>2. PICK c \in Nat : c = BlockCount
  BY EdgeFacts
<1>3. PICK q \in Int, r \in 0 .. b - 1 : q = (c + b - 1) \div b /\ c + b - 1 = b * q + r
  <2>1. c + b - 1 \in Int
    BY ONLY <1>1, <1>2
  <2>2. PICK m \in Int : m = c + b - 1
    BY ONLY <2>1
  <2>3. m \div b \in Int /\ m % b \in 0 .. b - 1 /\ m = b * (m \div b) + (m % b)
    BY ONLY <1>1, <2>2, DivMod
  <2> QED BY ONLY <2>2, <2>3, Zenon
<1>4. numWords(bits) = q /\ Slots(bits) = q * b
  BY ONLY <1>1, <1>2, <1>3, Zenon DEF numWords, Slots
<1>5. q * b = b * q /\ b * q \in Int
  BY ONLY <1>1, <1>3
<1>6. PICK m \in Int : m = b * q
  BY ONLY <1>5
<1>7. m >= c
  BY ONLY <1>1, <1>2, <1>3, <1>6
<1>8. m \in Nat
  BY ONLY <1>2, <1>6, <1>7
<1> QED BY ONLY <1>2, <1>4, <1>5, <1>6, <1>7, <1>8, Zenon

\* The two halves of a shift make the whole shift.
LEMMA HalfPowers == \A n \in 0 .. 30 : 2^(n \div 2) * 2^(n - n \div 2) = 2^n
<1> SUFFICES ASSUME NEW n \in 0 .. 30 PROVE 2^(n \div 2) * 2^(n - n \div 2) = 2^n
  OBVIOUS
<1>1. /\ 2^0 * 2^0 = 2^0 /\ 2^0 * 2^1 = 2^1 /\ 2^1 * 2^1 = 2^2 /\ 2^1 * 2^2 = 2^3
      /\ 2^2 * 2^2 = 2^4 /\ 2^2 * 2^3 = 2^5 /\ 2^3 * 2^3 = 2^6 /\ 2^3 * 2^4 = 2^7
  BY SMT
<1>2. /\ 2^4 * 2^4 = 2^8 /\ 2^4 * 2^5 = 2^9 /\ 2^5 * 2^5 = 2^10 /\ 2^5 * 2^6 = 2^11
      /\ 2^6 * 2^6 = 2^12 /\ 2^6 * 2^7 = 2^13 /\ 2^7 * 2^7 = 2^14 /\ 2^7 * 2^8 = 2^15
  BY SMT
<1>3. /\ 2^8 * 2^8 = 2^16 /\ 2^8 * 2^9 = 2^17 /\ 2^9 * 2^9 = 2^18 /\ 2^9 * 2^10 = 2^19
      /\ 2^10 * 2^10 = 2^20 /\ 2^10 * 2^11 = 2^21 /\ 2^11 * 2^11 = 2^22 /\ 2^11 * 2^12 = 2^23
  BY SMT
<1>4. /\ 2^12 * 2^12 = 2^24 /\ 2^12 * 2^13 = 2^25 /\ 2^13 * 2^13 = 2^26 /\ 2^13 * 2^14 = 2^27
      /\ 2^14 * 2^14 = 2^28 /\ 2^14 * 2^15 = 2^29 /\ 2^15 * 2^15 = 2^30
  BY SMT
<1>5. /\ (n = 0 => n \div 2 = 0 /\ n - n \div 2 = 0) /\ (n = 1 => n \div 2 = 0 /\ n - n \div 2 = 1)
      /\ (n = 2 => n \div 2 = 1 /\ n - n \div 2 = 1) /\ (n = 3 => n \div 2 = 1 /\ n - n \div 2 = 2)
      /\ (n = 4 => n \div 2 = 2 /\ n - n \div 2 = 2) /\ (n = 5 => n \div 2 = 2 /\ n - n \div 2 = 3)
      /\ (n = 6 => n \div 2 = 3 /\ n - n \div 2 = 3) /\ (n = 7 => n \div 2 = 3 /\ n - n \div 2 = 4)
  BY SMT
<1>6. /\ (n = 8 => n \div 2 = 4 /\ n - n \div 2 = 4) /\ (n = 9 => n \div 2 = 4 /\ n - n \div 2 = 5)
      /\ (n = 10 => n \div 2 = 5 /\ n - n \div 2 = 5) /\ (n = 11 => n \div 2 = 5 /\ n - n \div 2 = 6)
      /\ (n = 12 => n \div 2 = 6 /\ n - n \div 2 = 6) /\ (n = 13 => n \div 2 = 6 /\ n - n \div 2 = 7)
      /\ (n = 14 => n \div 2 = 7 /\ n - n \div 2 = 7) /\ (n = 15 => n \div 2 = 7 /\ n - n \div 2 = 8)
  BY SMT
<1>7. /\ (n = 16 => n \div 2 = 8 /\ n - n \div 2 = 8) /\ (n = 17 => n \div 2 = 8 /\ n - n \div 2 = 9)
      /\ (n = 18 => n \div 2 = 9 /\ n - n \div 2 = 9) /\ (n = 19 => n \div 2 = 9 /\ n - n \div 2 = 10)
      /\ (n = 20 => n \div 2 = 10 /\ n - n \div 2 = 10) /\ (n = 21 => n \div 2 = 10 /\ n - n \div 2 = 11)
      /\ (n = 22 => n \div 2 = 11 /\ n - n \div 2 = 11) /\ (n = 23 => n \div 2 = 11 /\ n - n \div 2 = 12)
  BY SMT
<1>8. /\ (n = 24 => n \div 2 = 12 /\ n - n \div 2 = 12) /\ (n = 25 => n \div 2 = 12 /\ n - n \div 2 = 13)
      /\ (n = 26 => n \div 2 = 13 /\ n - n \div 2 = 13) /\ (n = 27 => n \div 2 = 13 /\ n - n \div 2 = 14)
      /\ (n = 28 => n \div 2 = 14 /\ n - n \div 2 = 14) /\ (n = 29 => n \div 2 = 14 /\ n - n \div 2 = 15)
      /\ (n = 30 => n \div 2 = 15 /\ n - n \div 2 = 15)
  BY SMT
<1>9. CASE n = 0 \/ n = 1 \/ n = 2 \/ n = 3 \/ n = 4 \/ n = 5 \/ n = 6 \/ n = 7
  BY ONLY <1>1, <1>5, <1>9, Zenon
<1>10. CASE n = 8 \/ n = 9 \/ n = 10 \/ n = 11 \/ n = 12 \/ n = 13 \/ n = 14 \/ n = 15
  BY ONLY <1>2, <1>6, <1>10, Zenon
<1>11. CASE n = 16 \/ n = 17 \/ n = 18 \/ n = 19 \/ n = 20 \/ n = 21 \/ n = 22 \/ n = 23
  BY ONLY <1>3, <1>7, <1>11, Zenon
<1>12. CASE n = 24 \/ n = 25 \/ n = 26 \/ n = 27 \/ n = 28 \/ n = 29 \/ n = 30
  BY ONLY <1>4, <1>8, <1>12, Zenon
<1> QED BY SMT, <1>9, <1>10, <1>11, <1>12

\* The shift in two halves and the mask read the field that the game put into a word.
LEMMA FieldRight ==
  ASSUME NEW w \in Int32, NEW n \in Nat, NEW bits \in 1 .. WordBits - 1
  PROVE  Field(w, n, bits) = FieldAt(w, n % FieldCount(bits), bits)
<1>1. PICK b \in 1 .. 32 : b = blocksPerWord(bits) /\ b = FieldCount(bits) /\ b * bits <= 32
  <2>1. blocksPerWord(bits) \in 1 .. WordBits /\ blocksPerWord(bits) * bits <= WordBits
    BY ONLY WordFacts, bits \in 1 .. WordBits - 1
  <2>2. FieldCount(bits) = blocksPerWord(bits)
    BY ONLY WordCountFacts, bits \in 1 .. WordBits - 1
  <2> QED BY ONLY <2>1, <2>2, Zenon DEF WordBits
<1>2. bits \in 1 .. 31
  BY DEF WordBits
<1>3. PICK j \in 0 .. b - 1 : j = n % b
  BY ONLY <1>1, n \in Nat
<1>4. PICK s : s = j * bits
  BY Zenon
<1>5. s \in 0 .. 31 /\ s + bits <= 32
  <2>1. j * bits \in Nat /\ j * bits + bits = (j + 1) * bits
    BY ONLY <1>1, <1>2, <1>3
  <2>2. (j + 1) * bits <= b * bits
    BY ONLY <1>1, <1>2, <1>3
  <2>3. b * bits \in Nat
    BY ONLY <1>1, <1>2
  <2>4. PICK u \in Nat, t \in Nat : u = (j + 1) * bits /\ t = b * bits
    BY ONLY <1>2, <1>3, <2>3
  <2>5. s \in Nat /\ s + bits = u /\ u <= t /\ t <= 32
    BY ONLY <1>1, <1>4, <2>1, <2>2, <2>4, Zenon
  <2> QED BY ONLY <1>2, <2>4, <2>5
<1>6. Field(w, n, bits) = ShiftRight(w, s) % 2^bits
  BY ONLY <1>1, <1>3, <1>4, Zenon DEF Field
<1>7. FieldAt(w, j, bits) = IF s = 31 THEN IF w < 0 THEN 1 ELSE 0 ELSE (w \div 2^s) % 2^bits
  <2>1. WordBits - 1 = 31
    BY DEF WordBits
  <2> QED BY ONLY <1>4, <2>1, Zenon DEF FieldAt
<1>8. w \in Int /\ -2147483648 <= w /\ w <= 2147483647
  BY SMT DEF Int32
<1>9. CASE s # 31
  <2>1. s \in 0 .. 30
    BY ONLY <1>5, <1>9
  <2>2. s \div 2 \in 0 .. 31 /\ s - s \div 2 \in 0 .. 31
    BY ONLY <2>1
  <2>3. PICK a \in Nat \ {0}, c \in Nat \ {0} : a = 2^(s \div 2) /\ c = 2^(s - s \div 2)
    BY ONLY <2>2, PowersOfTwo, Zenon
  <2>4. a * c = 2^s
    BY ONLY <2>1, <2>3, HalfPowers, Zenon
  <2>5. (w \div a) \div c = w \div (a * c)
    <3>1. w \in Int
      BY ONLY SMT, <1>8
    <3> QED BY ONLY <2>3, <3>1, DivDiv, Zenon
  <2>6. ShiftRight(w, s) = w \div 2^s
    BY ONLY <2>3, <2>4, <2>5, Zenon DEF ShiftRight
  <2> QED BY ONLY <1>1, <1>3, <1>6, <1>7, <1>9, <2>6, Zenon
<1>10. CASE s = 31
  <2>1. bits = 1
    BY ONLY <1>2, <1>5, <1>10
  <2>2. 31 \div 2 = 15 /\ 31 - 31 \div 2 = 16
    BY ONLY SMT
  <2>3. 2^15 = 32768 /\ 2^16 = 65536 /\ 2^1 = 2 /\ 32768 * 65536 = 2147483648
    BY ONLY SMT
  <2>4. ShiftRight(w, s) = (w \div 32768) \div 65536
    BY ONLY SMT, <1>10, <2>2, <2>3 DEF ShiftRight
  <2>5. (w \div 32768) \div 65536 = w \div 2147483648
    <3>1. 32768 \in Nat \ {0} /\ 65536 \in Nat \ {0}
      BY ONLY SMT
    <3> QED BY ONLY SMT, <1>8, <2>3, <3>1, DivDiv
  <2>6. PICK q \in Int : q = w \div 2147483648
    BY ONLY SMT, <1>8
  <2>7. IF w < 0 THEN q = -1 ELSE q = 0
    BY ONLY SMT, <1>8, <2>6
  <2>8. q % 2 = IF w < 0 THEN 1 ELSE 0
    BY ONLY SMT, <2>6, <2>7
  <2>9. Field(w, n, bits) = q % 2
    BY ONLY SMT, <1>6, <2>1, <2>3, <2>4, <2>5, <2>6
  <2> QED BY ONLY SMT, <1>1, <1>3, <1>7, <1>10, <2>8, <2>9
<1> QED BY ONLY <1>9, <1>10
-----------------------------------------------------------------------------
(* Palettes.                                                                 *)

\* A chunk that was found is found again after every step.
LEMMA FoundKept ==
  ASSUME WorldInv, [Next]_vars, NEW m, HasKey(m), ChunkFor(m) # nullptr
  PROVE  /\ (ChunkFor(m))' = ChunkFor(m) /\ ChunkFor(m) \in 1 .. Len(heap)
         /\ db' = db /\ HasKey(m)' /\ (KeyY(m))' = KeyY(m) /\ KeyDim(m) \in ChunkDimension
<1>1. TypeOK /\ ScanInv /\ db \in Databases
  BY WorldTypes DEF WorldInv
<1>2. KeyDim(m) \in ChunkDimension
  BY ONLY <1>1, KeyMeans, HasKey(m), Zenon
<1>3. ChunkFor(m) \in 1 .. Len(heap)
  <2>1. PICK n \in Nat : n = Len(heap)
    BY ONLY <1>1 DEF TypeOK
  <2>2. world[KeyDim(m)] \in [DOMAIN world[KeyDim(m)] -> 1 .. n]
    BY ONLY <1>1, <1>2, <2>1, Zenon DEF TypeOK
  <2>3. ChunkFor(m) \in 0 .. n
    BY ONLY <2>1, <2>2, FindChunkFacts, Zenon DEF ChunkFor
  <2>4. PICK c : c = ChunkFor(m)
    BY Zenon
  <2>5. c \in 0 .. n /\ c # nullptr
    BY ONLY <2>3, <2>4, ChunkFor(m) # nullptr, Zenon
  <2>6. c \in 1 .. n
    BY ONLY <2>1, <2>5 DEF nullptr
  <2> QED BY ONLY <2>1, <2>4, <2>6, Zenon
<1>4. Quiet \/ Skips \/ (BeginSubChunk /\ (BeginsNew \/ BeginsOld)) \/ EndSubChunk \/ Stores
  BY ONLY <1>1, WorldInv, [Next]_vars, StepKinds, BeginFacts, Zenon
<1>5. db' = db /\ (world' = world \/ (BeginSubChunk /\ BeginsNew))
  <2>1. CASE Stores
    BY ONLY <1>1, <2>1, AddEntryFacts, PlaceFacts, Zenon DEF Stores
  <2>2. CASE Quiet \/ Skips
    BY ONLY <2>2 DEF Quiet, Skips
  <2>3. CASE EndSubChunk
    BY ONLY <2>3, WorldInv, EndStored
  <2>4. CASE BeginSubChunk
    BY ONLY <2>4, WorldInv, BeginFacts, Zenon DEF BeginsOld
  <2> QED BY ONLY <1>4, <2>1, <2>2, <2>3, <2>4
<1>6. (KeyDim(m))' = KeyDim(m) /\ (KeyId(m))' = KeyId(m) /\ (KeyY(m))' = KeyY(m) /\ HasKey(m)'
  BY ONLY <1>5, HasKey(m), Zenon DEF KeyDim, KeyId, KeyY, HasKey
<1>7. (ChunkFor(m))' = findChunk(world', KeyId(m), KeyDim(m))
  BY ONLY <1>6, Zenon DEF ChunkFor
<1>8. CASE world' = world
  BY ONLY <1>2, <1>3, <1>5, <1>6, <1>7, <1>8, Zenon DEF ChunkFor
<1>9. CASE BeginSubChunk /\ BeginsNew
  <2>1. PICK c : c = NewChunk(chunkX, chunkZ)
    BY Zenon
  <2>2. chunkID(c.x, c.z) = chunkID(chunkX, chunkZ)
    BY ONLY <2>1 DEF NewChunk
  <2>3. PICK w, u, n, dim, d, id : /\ w = world /\ u = world' /\ n = Len(heap) + 1 /\ dim = dimension
                                   /\ d = KeyDim(m) /\ id = KeyId(m)
    BY Zenon
  <2>4. dim \in ChunkDimension
    BY ONLY <1>9, <2>3, WorldInv, BeginFacts, Zenon
  <2>5. DOMAIN w = ChunkDimension /\ u = addChunk(w, c, n, dim) /\ d \in ChunkDimension
    BY ONLY <1>1, <1>2, <1>9, <2>1, <2>3, Zenon DEF TypeOK, BeginsNew
  <2>6. findChunk(u, id, d) = IF d = dim /\ id = chunkID(c.x, c.z) THEN n ELSE findChunk(w, id, d)
    BY ONLY <2>4, <2>5, AddChunkFinds
  <2>7. ~(d = dim /\ id = chunkID(c.x, c.z))
    <3>1. ChunkFor(it) = findChunk(world, chunkID(chunkX, chunkZ), dimension)
      BY ONLY CurrentKey, Zenon DEF ChunkFor
    <3>2. findChunk(w, chunkID(c.x, c.z), dim) = nullptr
      BY ONLY <1>9, <2>2, <2>3, <3>1, Zenon DEF BeginsNew
    <3> QED BY ONLY <2>3, <3>2, ChunkFor(m) # nullptr, Zenon DEF ChunkFor
  <2>8. (ChunkFor(m))' = ChunkFor(m)
    BY ONLY <1>7, <2>3, <2>6, <2>7, Zenon DEF ChunkFor
  <2> QED BY ONLY <1>2, <1>3, <1>5, <1>6, <2>8, Zenon
<1> QED BY ONLY <1>5, <1>8, <1>9

\* What a step does to a palette.
LEMMA PaletteSteps ==
  ASSUME WorldInv, [Next]_vars, NEW c \in 1 .. Len(heap'), NEW s \in SubChunk
  PROVE  \/ c \in 1 .. Len(heap) /\ heap'[c].blockStates[s] = heap[c].blockStates[s]
         \/ BeginSubChunk /\ c = Len(heap) + 1 /\ heap'[c].blockStates[s] = << >>
         \/ /\ AddPaletteEntry /\ c = currChunk /\ s = chunkY /\ c \in 1 .. Len(heap)
            /\ heap'[c].blockStates[s] = Append(heap[c].blockStates[s], EntryTag)
            /\ EntryTag \in RootTag
<1>1. TypeOK /\ ScanInv /\ heap \in Seq(ChunkOver(RootTag)) /\ Len(heap) \in Nat
  <2>1. TypeOK /\ ScanInv
    BY WorldTypes DEF WorldInv
  <2>2. heap \in Seq(ChunkOver(RootTag))
    BY ONLY <2>1 DEF TypeOK
  <2> QED BY ONLY <2>1, <2>2
<1>2. Quiet \/ Skips \/ (BeginSubChunk /\ (BeginsNew \/ BeginsOld)) \/ EndSubChunk \/ Stores
  BY ONLY <1>1, WorldInv, [Next]_vars, StepKinds, BeginFacts, Zenon
<1>3. CASE heap' = heap
  BY ONLY <1>3, c \in 1 .. Len(heap'), Zenon
<1>4. Quiet \/ Skips \/ EndSubChunk \/ BeginsOld => heap' = heap
  BY ONLY WorldInv, EndStored, Zenon DEF Quiet, Skips, BeginsOld
<1>5. CASE BeginSubChunk /\ BeginsNew
  <2>1. PICK f : f = NewChunk(chunkX, chunkZ)
    BY Zenon
  <2>2. f.blockStates = [y \in SubChunk |-> << >>]
    BY ONLY <2>1 DEF NewChunk
  <2>3. f.blockStates[s] = << >>
    BY ONLY <2>2, s \in SubChunk
  <2>4. f \in ChunkOver(RootTag)
    <3>1. chunkX \in Int /\ chunkZ \in Int
      BY ONLY <1>5, WorldInv, BeginFacts
    <3> QED BY ONLY <2>1, <3>1, NewChunkType
  <2>5. heap' = Append(heap, f)
    BY ONLY <1>5, <2>1, Zenon DEF BeginsNew
  <2>6. Len(heap') = Len(heap) + 1 /\ heap'[Len(heap) + 1] = f /\ \A j \in 1 .. Len(heap) : heap'[j] = heap[j]
    BY ONLY <1>1, <2>4, <2>5
  <2>7. c \in 1 .. Len(heap) \/ c = Len(heap) + 1
    BY ONLY <1>1, <2>6, c \in 1 .. Len(heap')
  <2>8. CASE c \in 1 .. Len(heap)
    BY ONLY <2>6, <2>8, Zenon
  <2>9. CASE c = Len(heap) + 1
    BY ONLY <1>5, <2>3, <2>6, <2>9, Zenon
  <2> QED BY ONLY <2>7, <2>8, <2>9, Zenon
<1>6. CASE AddPaletteEntry
  <2>1. GrownBy(heap, heap', currChunk, chunkY, EntryTag) /\ EntryTag \in RootTag
    BY ONLY <1>1, <1>6, AddEntryFacts
  <2>2. c \in 1 .. Len(heap)
    BY ONLY <2>1, c \in 1 .. Len(heap'), Zenon DEF GrownBy
  <2>3. CASE c # currChunk
    BY ONLY <2>1, <2>2, <2>3, Zenon DEF GrownBy
  <2>4. CASE c = currChunk
    <3>1. heap'[c].blockStates[s] =
            IF s = chunkY THEN Append(heap[c].blockStates[s], EntryTag) ELSE heap[c].blockStates[s]
      BY ONLY <2>1, <2>4, s \in SubChunk, Zenon DEF GrownBy, Grown
    <3> QED BY ONLY <1>6, <2>1, <2>2, <2>4, <3>1, Zenon
  <2> QED BY ONLY <2>3, <2>4
<1>7. CASE PlaceBlock
  <2>1. PlacedAt(heap, heap', currChunk, ThisCell, ThisState)
    BY ONLY <1>1, <1>7, PlaceFacts
  <2>2. c \in 1 .. Len(heap)
    BY ONLY <2>1, c \in 1 .. Len(heap'), Zenon DEF PlacedAt
  <2>3. heap'[c].blockStates = heap[c].blockStates
    BY ONLY <2>1, <2>2, Zenon DEF PlacedAt, Filled
  <2> QED BY ONLY <2>2, <2>3, Zenon
<1> QED BY ONLY <1>2, <1>3, <1>4, <1>5, <1>6, <1>7, Zenon DEF Stores

\* The types of a chunk, its palettes and its blocks.
LEMMA PaletteType ==
  ASSUME TypeOK, NEW c \in 1 .. Len(heap), NEW s \in SubChunk
  PROVE  heap[c] \in ChunkOver(RootTag) /\ heap[c].blockStates[s] \in Seq(RootTag)
         /\ heap[c].blocks \in [Cell -> Int]
<1>1. PICK a : a = heap[c]
  BY Zenon
<1>2. a \in ChunkOver(RootTag)
  BY <1>1, ElementOfSeq DEF TypeOK
<1>3. a.blockStates[s] \in Seq(RootTag) /\ a.blocks \in [Cell -> Int]
  BY ONLY <1>2, s \in SubChunk DEF ChunkOver
<1> QED BY ONLY <1>1, <1>2, <1>3, Zenon

\* Where a tag was read from does not change.
LEMMA ReadFromKept ==
  ASSUME WorldInv, [Next]_vars, NEW m, NEW c \in 1 .. Len(heap), NEW s, ReadFrom(m, c, s)
  PROVE  ReadFrom(m, c, s)'
<1>1. TypeOK /\ ScanInv /\ db \in Databases /\ it \in Nat /\ Len(db) \in Nat /\ DOMAIN db = 1 .. Len(db)
  BY WorldTypes DEF WorldInv
<1>2. HasKey(m) /\ ChunkFor(m) = c /\ KeyY(m) = s /\ m <= it /\ (pc \in {"open", "iterate"} => m < it)
  BY DEF ReadFrom
<1>3. c # nullptr
  BY DEF nullptr
<1>4. HasKey(m)' /\ (ChunkFor(m))' = c /\ (KeyY(m))' = s
  BY ONLY <1>2, <1>3, FoundKept, WorldInv, [Next]_vars, Zenon
<1>5. m \in Nat
  BY ONLY <1>1, <1>2 DEF HasKey
<1>6. m <= it' /\ (pc' \in {"open", "iterate"} => m < it')
  <2>1. CASE Quiet
    <3>1. it' = it
      BY ONLY <2>1 DEF Quiet
    <3>2. pc' \in {"open", "iterate"} => pc \in {"open", "iterate"}
      BY ONLY <1>1, <2>1 DEF Quiet, Scanning, Storing, Terminal, TypeOK, Phase
    <3> QED BY ONLY <1>2, <3>1, <3>2, Zenon
  <2>2. CASE Skips
    <3>1. PICK n \in it + 1 .. Len(db) + 1 : n = it'
      BY ONLY <2>2 DEF Skips
    <3>2. m < n /\ m <= n
      BY ONLY <1>1, <1>2, <1>5, <3>1
    <3> QED BY ONLY <3>1, <3>2, Zenon
  <2>3. CASE EndSubChunk
    <3>1. it' = it + 1
      BY ONLY <2>3 DEF EndSubChunk
    <3>2. m < it + 1 /\ m <= it + 1
      BY ONLY <1>1, <1>2, <1>5
    <3> QED BY ONLY <3>1, <3>2, Zenon
  <2>4. CASE BeginSubChunk
    <3>1. it' = it /\ pc' = "storage"
      BY ONLY <2>4, WorldInv, BeginFacts
    <3> QED BY ONLY <1>2, <3>1
  <2>5. CASE Stores
    <3>1. it' = it /\ pc' = pc /\ pc \in {"palette", "blocks"}
      BY ONLY <1>1, <2>5, AddEntryFacts, PlaceFacts DEF Stores
    <3> QED BY ONLY <1>2, <3>1
  <2> QED BY ONLY <1>1, <2>1, <2>2, <2>3, <2>4, <2>5, StepKinds, [Next]_vars, Zenon
<1> QED BY ONLY <1>4, <1>6, Zenon DEF ReadFrom

\* Every palette entry keeps the record of its sub-chunk: addBlockState adds the current one.
LEMMA TagsStep == ASSUME WorldInv, TagsInv, [Next]_vars PROVE TagsInv'
<1>1. TypeOK /\ ScanInv /\ db \in Databases /\ it \in Nat /\ Len(db) \in Nat /\ DOMAIN db = 1 .. Len(db)
  BY WorldTypes DEF WorldInv
<1> SUFFICES ASSUME NEW c \in 1 .. Len(heap'), NEW s \in SubChunk,
                    NEW e \in 1 .. Len(heap'[c].blockStates[s])
             PROVE  ReadFrom(heap[c].blockStates[s][e].rec, c, s)'
  BY DEF TagsInv
<1>2. CASE c \in 1 .. Len(heap) /\ heap'[c].blockStates[s] = heap[c].blockStates[s]
  <2>1. PICK m : m = heap[c].blockStates[s][e].rec
    BY Zenon
  <2>2. ReadFrom(m, c, s)
    BY ONLY <1>2, <2>1, TagsInv, s \in SubChunk, e \in 1 .. Len(heap'[c].blockStates[s]), Zenon DEF TagsInv
  <2>3. ReadFrom(m, c, s)'
    BY ONLY <1>2, <2>2, ReadFromKept, WorldInv, [Next]_vars, Zenon
  <2>4. heap'[c].blockStates[s][e].rec = m
    BY ONLY <1>2, <2>1, Zenon
  <2> QED BY ONLY <2>3, <2>4, Zenon DEF ReadFrom
<1>3. CASE heap'[c].blockStates[s] = << >>
  <2>1. Len(heap'[c].blockStates[s]) = 0
    BY ONLY <1>3
  <2> QED BY ONLY <2>1, e \in 1 .. Len(heap'[c].blockStates[s])
<1>4. CASE /\ AddPaletteEntry /\ c = currChunk /\ s = chunkY /\ c \in 1 .. Len(heap)
           /\ heap'[c].blockStates[s] = Append(heap[c].blockStates[s], EntryTag)
           /\ EntryTag \in RootTag
  <2>1. PICK q, t : q = heap[c].blockStates[s] /\ t = EntryTag
    BY Zenon
  <2>2. q \in Seq(RootTag) /\ t \in RootTag /\ heap'[c].blockStates[s] = Append(q, t)
    BY ONLY <1>1, <1>4, <2>1, PaletteType, s \in SubChunk, Zenon
  <2>3. /\ e \in 1 .. Len(q) => Append(q, t)[e] = q[e]
        /\ e \in 1 .. Len(q) \/ (e = Len(q) + 1 /\ Append(q, t)[e] = t)
    <3>1. e \in 1 .. Len(Append(q, t))
      BY ONLY <2>2, e \in 1 .. Len(heap'[c].blockStates[s]), Zenon
    <3> QED BY ONLY <2>2, <3>1
  <2>4. CASE e \in 1 .. Len(q)
    <3>1. PICK m : m = q[e].rec
      BY Zenon
    <3>2. ReadFrom(m, c, s)
      BY ONLY <1>4, <2>1, <2>4, <3>1, TagsInv, s \in SubChunk, Zenon DEF TagsInv
    <3>3. ReadFrom(m, c, s)'
      BY ONLY <1>4, <3>2, ReadFromKept, WorldInv, [Next]_vars, Zenon
    <3>4. heap'[c].blockStates[s][e].rec = m
      BY ONLY <2>2, <2>3, <2>4, <3>1, Zenon
    <3> QED BY ONLY <3>3, <3>4, Zenon DEF ReadFrom
  <2>5. CASE e = Len(q) + 1 /\ Append(q, t)[e] = t
    <3>1. t.rec = it
      BY ONLY <2>1 DEF EntryTag
    <3>2. pc = "palette" /\ UNCHANGED <<db, it, pc, world>> /\ it <= Len(db)
      BY ONLY <1>1, <1>4, AddEntryFacts
    <3>3. Storing
      BY ONLY <3>2 DEF Storing
    <3>4. ChunkFor(it) = currChunk /\ isSubChunkKey(k) /\ KeyY(it) = chunkY
      BY ONLY <3>3, WorldInv, CurrentKey, Zenon DEF WorldInv, OwnersInv, ScanInv, CursorInv
    <3>5. HasKey(it)
      <4>1. it \in DOMAIN db
        BY ONLY <1>1, <3>2 DEF TypeOK
      <4> QED BY ONLY <3>4, <4>1, CurrentKey, Zenon
    <3>6. PICK n \in Nat : n = it
      BY ONLY <1>1
    <3>7. HasKey(n)' /\ (ChunkFor(n))' = c /\ (KeyY(n))' = s
      BY ONLY <1>4, <3>2, <3>4, <3>5, <3>6, Zenon DEF HasKey, ChunkFor, KeyY, KeyId, KeyDim
    <3>8. n <= n /\ pc' \notin {"open", "iterate"}
      BY ONLY <3>2, <3>6
    <3>9. ReadFrom(n, c, s)'
      BY ONLY <3>2, <3>6, <3>7, <3>8, Zenon DEF ReadFrom
    <3>10. heap'[c].blockStates[s][e].rec = n
      BY ONLY <2>2, <2>5, <3>1, <3>6, Zenon
    <3> QED BY ONLY <3>9, <3>10, Zenon DEF ReadFrom
  <2> QED BY ONLY <2>3, <2>4, <2>5, Zenon
<1> QED BY ONLY <1>2, <1>3, <1>4, PaletteSteps, WorldInv, [Next]_vars, c \in 1 .. Len(heap'), s \in SubChunk, Zenon

\* A sub-chunk that begins has no palette yet: no other record writes into it.
LEMMA BeginPalette ==
  ASSUME WorldInv, TagsInv, [Next]_vars, BeginSubChunk, chunkY \in SubChunk
  PROVE  Palette' = << >>
<1>1. TypeOK /\ db \in Databases /\ it \in Nat /\ ChunksOwnedOnce
  BY WorldTypes DEF WorldInv, OwnersInv
<1>2. /\ BeginsNew \/ BeginsOld
      /\ pc = "iterate" /\ UNCHANGED <<db, it>> /\ HasKey(it)
  BY BeginFacts
<1>3. PICK c, s : c = currChunk' /\ s = chunkY
  BY Zenon
<1>4. Palette' = heap'[c].blockStates[s]
  BY ONLY <1>2, <1>3 DEF Palette, chunkY, k
<1>5. s \in SubChunk
  BY ONLY <1>3, chunkY \in SubChunk, Zenon
<1>6. c \in 1 .. Len(heap')
  <2>1. ScanInv'
    BY NextInv DEF WorldInv
  <2>2. pc' = "storage"
    BY BeginFacts
  <2>3. TypeOK'
    BY ONLY <2>1 DEF ScanInv
  <2>4. PICK n : n = Len(heap')
    BY Zenon
  <2>5. c \in 0 .. n /\ c # 0 /\ n \in Nat
    BY ONLY <1>3, <2>2, <2>3, <2>4 DEF TypeOK, nullptr
  <2>6. c \in 1 .. n
    BY ONLY <2>5
  <2> QED BY ONLY <2>4, <2>6, Zenon
<1>7. CASE c \in 1 .. Len(heap) /\ heap'[c].blockStates[s] = heap[c].blockStates[s]
  <2>1. BeginsOld
    <3>1. BeginsNew => c = Len(heap) + 1 /\ Len(heap) \in Nat
      BY ONLY <1>1, <1>3 DEF BeginsNew, TypeOK
    <3> QED BY ONLY <1>2, <1>7, <3>1
  <2>2. ChunkFor(it) = c /\ ChunkFor(it) # nullptr
    BY ONLY <1>3, <2>1, Zenon DEF BeginsOld
  <2>3. PICK q \in Seq(RootTag) : q = heap[c].blockStates[s]
    BY ONLY <1>1, <1>5, <1>7, PaletteType, Zenon
  <2>4. ASSUME q # << >> PROVE FALSE
    <3>1. 1 \in 1 .. Len(q)
      BY ONLY <2>3, <2>4, EmptySeq
    <3>2. PICK m : m = q[1].rec
      BY Zenon
    <3>3. ReadFrom(m, c, s)
      BY ONLY <1>5, <1>7, <2>3, <3>1, <3>2, TagsInv, Zenon DEF TagsInv
    <3>4. HasKey(m) /\ ChunkFor(m) = c /\ KeyY(m) = s /\ m < it
      BY ONLY <1>2, <3>3 DEF ReadFrom
    <3>5. KeyDim(m) \in ChunkDimension /\ KeyDim(it) \in ChunkDimension
      BY ONLY <1>1, <1>2, <3>4, KeyMeans, Zenon
    <3>6. KeyDim(m) = KeyDim(it) /\ KeyId(m) = KeyId(it)
      <4>1. /\ findChunk(world, KeyId(m), KeyDim(m)) = findChunk(world, KeyId(it), KeyDim(it))
            /\ findChunk(world, KeyId(m), KeyDim(m)) # nullptr
        BY ONLY <2>2, <3>4, Zenon DEF ChunkFor
      <4> QED BY ONLY <1>1, <3>5, <4>1, OnePlace, Zenon
    <3>7. KeyY(m) = KeyY(it)
      BY ONLY <1>3, <3>4, CurrentKey, Zenon
    <3>8. m = it
      BY ONLY <1>1, <1>2, <3>4, <3>6, <3>7, KeysDiffer, Zenon
    <3> QED BY ONLY <1>1, <3>4, <3>8
  <2> QED BY ONLY <1>4, <1>7, <2>3, <2>4, Zenon
<1>8. CASE heap'[c].blockStates[s] = << >>
  BY ONLY <1>4, <1>8, Zenon
<1>9. ~AddPaletteEntry
  BY ONLY <1>2 DEF AddPaletteEntry, AtEntry
<1> QED BY ONLY <1>5, <1>6, <1>7, <1>8, <1>9, PaletteSteps, WorldInv, [Next]_vars, Zenon

\* PaletteRead with the record, the palette and the variables as parameters.
PaletteUpTo(r, q, ph, j, n) ==
  /\ j = 0 /\ ph = "storage" => q = << >>
  /\ j = 0 /\ ph = "palette" => Len(q) = n
  /\ j > 0 \/ ph = "blocks" => Len(q) >= Size(r, 1)
  /\ \A e \in 1 .. Len(q) :
       e <= Size(r, 1) => q[e].nbt = r.value[4 + WordCount(Bits(r, 1)) + e]

\* PaletteRead is PaletteUpTo of the variables.
LEMMA PaletteUpToForm ==
  PaletteRead <=> (Storing /\ Intact(it) => PaletteUpTo(db[it], Palette, pc, i, p))
  BY Zenon DEF PaletteRead, PaletteUpTo, v

\* The palette of the first storage is read in order, and later ones go behind it.
LEMMA PaletteStep ==
  ASSUME ReadInv, TagsInv, PaletteRead, [Next]_vars, ReadInv'
  PROVE  PaletteRead'
<1> SUFFICES ASSUME Storing', Intact(it)' PROVE PaletteUpTo(db[it], Palette, pc, i, p)'
  <2>1. (PaletteRead <=> (Storing /\ Intact(it) => PaletteUpTo(db[it], Palette, pc, i, p)))'
    BY ONLY PaletteUpToForm, PTL
  <2>2. PaletteRead' <=> (Storing' /\ Intact(it)' => PaletteUpTo(db[it], Palette, pc, i, p)')
    BY ONLY <2>1
  <2> QED BY <2>2, Zenon
<1>1. WorldInv /\ TypeOK /\ ScanInv /\ db \in Databases
  BY WorldTypes DEF ReadInv, WorldInv
<1>2. CASE BeginSubChunk
  <2>1. /\ pc' = "storage" /\ UNCHANGED <<db, it>> /\ HasKey(it) /\ i' = 0
    BY ONLY <1>1, <1>2, BeginFacts, Zenon
  <2>2. it \in DOMAIN db /\ Intact(it)
    BY ONLY <2>1, Intact(it)' DEF HasKey, Intact
  <2>3. chunkY \in SubChunk
    BY ONLY <1>1, <2>2, IntactFacts, CurrentKey, Zenon
  <2>4. Palette' = << >>
    BY ONLY <1>1, <1>2, <2>3, TagsInv, [Next]_vars, BeginPalette
  <2>5. PICK r, q : r = db'[it'] /\ q = Palette'
    BY Zenon
  <2>6. PaletteUpTo(r, q, "storage", 0, p')
    <3>1. q = << >>
      BY ONLY <2>4, <2>5, Zenon
    <3> QED BY ONLY <3>1 DEF PaletteUpTo
  <2> QED BY ONLY <2>1, <2>5, <2>6, Zenon DEF PaletteUpTo
<1>3. ASSUME Storing, UNCHANGED <<db, it>>
      PROVE  /\ PaletteUpTo(db[it], Palette, pc, i, p) /\ Intact(it)
             /\ chunkY \in SubChunk /\ chunkY' = chunkY /\ db'[it'] = db[it]
  <2>1. Intact(it)
    BY ONLY <1>3, Intact(it)' DEF Intact
  <2>2. PaletteUpTo(db[it], Palette, pc, i, p)
    BY ONLY <1>3, <2>1, PaletteRead, PaletteUpToForm, Zenon
  <2>3. chunkY \in SubChunk
    BY ONLY <1>3, <2>1, ReadInv, InIntact, Zenon
  <2> QED BY ONLY <1>3, <2>1, <2>2, <2>3, Zenon DEF chunkY, k
<1>4. ASSUME UNCHANGED <<it, db, heap, currChunk>> PROVE Palette' = Palette
  BY ONLY <1>4 DEF Palette, chunkY, k
<1>5. CASE BeginStorage
  <2>1. /\ pc = "storage" /\ pc' = "palette" /\ p' = 0 /\ UNCHANGED <<db, it, heap, currChunk, i>>
    BY ONLY <1>5 DEF BeginStorage, AtStorage, Goto, recordVars, storeVars
  <2>2. Storing
    BY ONLY <2>1 DEF Storing
  <2>3. PICK r, q, j : r = db[it] /\ q = Palette /\ j = i
    BY Zenon
  <2>4. PaletteUpTo(r, q, "storage", j, p) /\ db'[it'] = r /\ Palette' = q /\ i' = j
    BY ONLY <1>3, <1>4, <2>1, <2>2, <2>3, Zenon
  <2>5. PaletteUpTo(r, q, "palette", j, 0)
    <3>1. q = << >> => Len(q) = 0
      OBVIOUS
    <3> QED BY ONLY <2>4, <3>1, Zenon DEF PaletteUpTo
  <2> QED BY ONLY <2>1, <2>4, <2>5, Zenon DEF PaletteUpTo
<1>6. CASE AddPaletteEntry
  <2>1. /\ pc = "palette" /\ UNCHANGED <<db, it, pc, currChunk, i>> /\ p' = p + 1
        /\ GrownBy(heap, heap', currChunk, chunkY, EntryTag) /\ EntryTag \in RootTag
        /\ p < paletteSize /\ chunkY \in SubChunk
    <3>1. UNCHANGED i /\ p' = p + 1 /\ p < paletteSize
      BY ONLY <1>6 DEF AddPaletteEntry, recordVars, AtEntry
    <3> QED BY ONLY <1>1, <1>6, <3>1, AddEntryFacts, Zenon
  <2>2. Storing /\ pc # "storage"
    BY ONLY <2>1 DEF Storing
  <2>3. PICK r, q, j, n, t : r = db[it] /\ q = Palette /\ j = i /\ n = p /\ t = EntryTag
    BY Zenon
  <2>4. PaletteUpTo(r, q, "palette", j, n) /\ db'[it'] = r /\ i' = j /\ p' = n + 1 /\ Intact(it)
    BY ONLY <1>3, <2>1, <2>2, <2>3, Zenon
  <2>5. q \in Seq(RootTag) /\ t \in RootTag
    BY ONLY <1>1, <2>1, <2>3, PaletteType, Zenon DEF GrownBy, Palette
  <2>6. Palette' = Append(q, t)
    <3>1. heap'[currChunk].blockStates[chunkY] = Append(heap[currChunk].blockStates[chunkY], EntryTag)
      BY ONLY <2>1, Zenon DEF GrownBy, Grown
    <3>2. Palette' = heap'[currChunk].blockStates[chunkY]
      BY ONLY <2>1 DEF Palette, chunkY, k
    <3> QED BY ONLY <2>3, <3>1, <3>2, Zenon DEF Palette
  <2>7. /\ db[it] \in Record /\ i < storageNum /\ InStorage(db[it], i + 1) /\ v = db[it].value
        /\ IsWhole(db[it], i + 1) /\ i \in Nat /\ storageNum = db[it].value[2] /\ storageNum >= 1
        /\ Encoded(db[it]) /\ storageNum \in Int
    BY ONLY <2>2, <2>4, ReadInv, InIntact, Zenon
  <2>8. Size(r, 1) \in Nat /\ WordCount(Bits(r, 1)) \in Nat /\ Start(r, 1) = 2
    <3>1. PICK u \in Record : u = db[it]
      BY ONLY <2>7, Zenon
    <3>2. 1 \in 1 .. u.value[2]
      BY ONLY <2>7, <3>1
    <3>3. IsWhole(u, 1)
      BY ONLY <2>7, <3>1, <3>2, StorageFacts, Zenon
    <3>4. Start(u, 1) = 2
      BY ONLY <2>7, <3>1, Zenon DEF Encoded, Start
    <3> QED BY ONLY <2>3, <3>1, <3>3, <3>4, Zenon DEF IsWhole
  <2>9. p \in Nat
    BY ONLY <1>1 DEF TypeOK
  <2>10. j = 0 => Len(q) = n /\ t.nbt = r.value[4 + WordCount(Bits(r, 1)) + (n + 1)]
    <3> SUFFICES ASSUME j = 0 PROVE Len(q) = n /\ t.nbt = r.value[4 + WordCount(Bits(r, 1)) + (n + 1)]
      OBVIOUS
    <3>1. Len(q) = n
      BY ONLY <2>4, j = 0 DEF PaletteUpTo
    <3>2. i + 1 = 1
      BY ONLY <2>3, j = 0
    <3>3. currOffset = Start(r, 1) + 2 + WordCount(Bits(r, 1)) + n
      BY ONLY <2>1, <2>3, <2>7, <3>2, Zenon DEF InStorage
    <3>4. currOffset + 1 = 4 + WordCount(Bits(r, 1)) + (n + 1)
      BY ONLY <2>3, <2>8, <2>9, <3>3
    <3>5. t.nbt = v[currOffset + 1]
      BY ONLY <2>3 DEF EntryTag, Item
    <3> QED BY ONLY <2>3, <2>7, <3>1, <3>4, <3>5, Zenon
  <2>11. PaletteUpTo(r, Append(q, t), "palette", j, n + 1)
    <3>1. Len(Append(q, t)) = Len(q) + 1 /\ Len(q) \in Nat
      BY ONLY <2>5
    <3>2. j \in Nat /\ n \in Nat
      BY ONLY <2>3, <2>7, <2>9, Zenon
    <3>3. j > 0 => Len(Append(q, t)) >= Size(r, 1) /\ Len(q) >= Size(r, 1)
      <4>1. j > 0 => Len(q) >= Size(r, 1)
        BY ONLY <2>4 DEF PaletteUpTo
      <4> QED BY ONLY <2>8, <3>1, <4>1
    <3>4. ASSUME NEW e \in 1 .. Len(Append(q, t)), e <= Size(r, 1)
          PROVE  Append(q, t)[e].nbt = r.value[4 + WordCount(Bits(r, 1)) + e]
      <4>1. CASE e \in 1 .. Len(q)
        <5>1. Append(q, t)[e] = q[e]
          BY ONLY <2>5, <4>1
        <5> QED BY ONLY <2>4, <3>4, <4>1, <5>1, Zenon DEF PaletteUpTo
      <4>2. CASE e \notin 1 .. Len(q)
        <5>1. e = Len(q) + 1
          BY ONLY <3>1, <3>4, <4>2
        <5>2. Append(q, t)[e] = t
          BY ONLY <2>5, <5>1
        <5>3. j = 0
          BY ONLY <2>8, <3>1, <3>2, <3>3, <3>4, <5>1
        <5> QED BY ONLY <2>10, <5>1, <5>2, <5>3, Zenon
      <4> QED BY ONLY <4>1, <4>2
    <3>5. j = 0 => Len(Append(q, t)) = n + 1
      BY ONLY <2>10, <3>1
    <3> QED BY ONLY <3>3, <3>4, <3>5 DEF PaletteUpTo
  <2> QED BY ONLY <2>1, <2>4, <2>6, <2>11, Zenon DEF PaletteUpTo
<1>7. CASE EndPalette
  <2>1. /\ pc = "palette" /\ pc' = "blocks" /\ p >= paletteSize /\ UNCHANGED <<db, it, heap, currChunk, i>>
    BY ONLY <1>7 DEF EndPalette, Goto, recordVars, storeVars
  <2>2. Storing /\ pc # "storage"
    BY ONLY <2>1 DEF Storing
  <2>3. PICK r, q, j : r = db[it] /\ q = Palette /\ j = i
    BY Zenon
  <2>4. PaletteUpTo(r, q, "palette", j, p) /\ db'[it'] = r /\ Palette' = q /\ i' = j /\ Intact(it)
    BY ONLY <1>3, <1>4, <2>1, <2>2, <2>3, Zenon
  <2>5. InStorage(r, j + 1) /\ j \in Nat
    BY ONLY <2>2, <2>3, <2>4, ReadInv, InIntact, Zenon
  <2>6. Len(q) >= Size(r, 1)
    <3>1. CASE j = 0
      <4>1. j + 1 = 1
        BY ONLY <3>1
      <4>2. paletteSize = Size(r, 1)
        BY ONLY <2>5, <4>1, Zenon DEF InStorage
      <4> QED BY ONLY <2>1, <2>4, <3>1, <4>2, Zenon DEF PaletteUpTo
    <3>2. CASE j > 0
      BY ONLY <2>4, <3>2 DEF PaletteUpTo
    <3> QED BY ONLY <2>5, <3>1, <3>2
  <2>7. PaletteUpTo(r, q, "blocks", j, p')
    BY ONLY <2>4, <2>6 DEF PaletteUpTo
  <2> QED BY ONLY <2>1, <2>4, <2>7, Zenon DEF PaletteUpTo
<1>8. CASE PlaceBlock \/ DiscardBlock
  <2>1. /\ pc = "blocks" /\ UNCHANGED <<db, it, pc, currChunk, i, p>>
    BY ONLY <1>8 DEF PlaceBlock, DiscardBlock, AtBlock, NextBlock, recordVars
  <2>2. Storing
    BY ONLY <2>1 DEF Storing
  <2>3. Palette' = Palette
    <3>1. CASE DiscardBlock
      BY ONLY <1>4, <2>1, <3>1 DEF DiscardBlock
    <3>2. CASE PlaceBlock
      <4>1. PlacedAt(heap, heap', currChunk, ThisCell, ThisState)
        BY ONLY <1>1, <3>2, PlaceFacts
      <4>2. heap'[currChunk].blockStates = heap[currChunk].blockStates
        BY ONLY <4>1, Zenon DEF PlacedAt, Filled
      <4> QED BY ONLY <2>1, <4>2 DEF Palette, chunkY, k
    <3> QED BY ONLY <1>8, <3>1, <3>2
  <2>4. PICK r, q : r = db[it] /\ q = Palette
    BY Zenon
  <2>5. PaletteUpTo(r, q, pc, i, p) /\ db'[it'] = r /\ Palette' = q
    BY ONLY <1>3, <2>1, <2>2, <2>3, <2>4, Zenon
  <2> QED BY ONLY <2>1, <2>5, Zenon DEF PaletteUpTo
<1>9. CASE EndStorage
  <2>1. /\ pc = "blocks" /\ pc' = "storage" /\ i' = i + 1 /\ UNCHANGED <<db, it, heap, currChunk>>
    BY ONLY <1>9 DEF EndStorage, Goto, storeVars
  <2>2. Storing
    BY ONLY <2>1 DEF Storing
  <2>3. PICK r, q, j : r = db[it] /\ q = Palette /\ j = i
    BY Zenon
  <2>4. PaletteUpTo(r, q, "blocks", j, p) /\ db'[it'] = r /\ Palette' = q /\ i' = j + 1
    BY ONLY <1>3, <1>4, <2>1, <2>2, <2>3, Zenon
  <2>5. j \in Nat
    BY ONLY <1>1, <2>3 DEF TypeOK
  <2>6. j + 1 # 0
    BY ONLY <2>5
  <2>7. PaletteUpTo(r, q, "storage", j + 1, p')
    BY ONLY <2>4, <2>6, Zenon DEF PaletteUpTo
  <2> QED BY ONLY <2>1, <2>4, <2>7, Zenon DEF PaletteUpTo
<1>10. CASE UNCHANGED vars \/ Done
  <2>1. UNCHANGED <<db, it, pc, heap, currChunk, i, p>>
    BY ONLY <1>10 DEF Done, vars, recordVars, storageVars, storeVars
  <2>2. Storing
    BY ONLY <2>1, Storing' DEF Storing
  <2>3. PICK r, q : r = db[it] /\ q = Palette
    BY Zenon
  <2>4. PaletteUpTo(r, q, pc, i, p) /\ db'[it'] = r /\ Palette' = q
    BY ONLY <1>3, <1>4, <2>1, <2>2, <2>3, Zenon
  <2> QED BY ONLY <2>1, <2>4, Zenon DEF PaletteUpTo
<1>11. pc' \in {"storage", "palette", "blocks"}
  BY ONLY Storing' DEF Storing
<1>12. CASE Open \/ OpenFails \/ TruncatedHeader \/ EndSubChunk \/ RuntimeStorage \/ BrokenStorage
             \/ UndefinedStorage \/ BrokenEntry \/ UndefinedPalette \/ UndefinedBlock \/ Finish
  BY ONLY <1>11, <1>12 DEF Open, OpenFails, TruncatedHeader, EndSubChunk, RuntimeStorage, BrokenStorage,
          UndefinedStorage, BrokenEntry, UndefinedPalette, UndefinedBlock, Finish, StopWith, Goto
<1>13. CASE IgnoreRecord \/ SkipFormat \/ ReadError
  BY ONLY <1>11, <1>13 DEF IgnoreRecord, SkipFormat, ReadError, NextRecord, AtRecord
<1> QED BY ONLY <1>2, <1>5, <1>6, <1>7, <1>8, <1>9, <1>10, <1>12, <1>13, [Next]_vars, Zenon DEF Next
-----------------------------------------------------------------------------
(* Blocks.                                                                   *)

\* A block of a sub-chunk is in the vectors, at a height of that sub-chunk.
LEMMA CellAtFacts ==
  ASSUME NEW y \in SubChunk, NEW n \in 0 .. BlockCount - 1
  PROVE  /\ CellAt(y, n) = <<rawX(n), rawY(n) + Edge * y, rawZ(n)>>
         /\ CellAt(y, n) \in Cell /\ CellAt(y, n)[2] \div Edge = y
<1>1. n \in Nat
  BY EdgeFacts
<1>2. PICK a, b, c : a = rawX(n) /\ b = rawY(n) /\ c = rawZ(n)
  BY Zenon
<1>3. <<a, b + Edge * y, c>> \in Cell /\ b \in Side
  BY ONLY <1>1, <1>2, CellInside, RawFacts, y \in SubChunk, Zenon
<1>4. Edge * y + b = b + Edge * y /\ y \in Int
  BY <1>3, EdgeFacts DEF Side, SubChunk
<1>5. CellAt(y, n) = <<a, Edge * y + b, c>>
  BY ONLY <1>2, PositionFacts, n \in 0 .. BlockCount - 1, Zenon DEF CellAt
<1>6. (b + Edge * y) \div Edge = y
  <2>1. b + Edge * y \in 0 .. Height - 1
    BY ONLY <1>3 DEF Cell
  <2> QED BY ONLY <1>3, <1>4, <2>1, HeightFacts
<1>7. <<a, b + Edge * y, c>>[2] = b + Edge * y
  OBVIOUS
<1> QED BY ONLY <1>2, <1>3, <1>4, <1>5, <1>6, <1>7, Zenon

\* A column shows the same where the state is the same and the palette has the same entries
\* or more.
KeepsBlock(a, b, y, n, q, t) ==
  /\ q \in Seq(RootTag) /\ t \in RootTag
  /\ a.blockStates[y] = q /\ (b.blockStates[y] = q \/ b.blockStates[y] = Append(q, t))
  /\ a.blocks[CellAt(y, n)] \in Int /\ a.blocks[CellAt(y, n)] < Len(q)
  /\ b.blocks[CellAt(y, n)] = a.blocks[CellAt(y, n)]

ShowAlike(a, b, y, n) == BlockIn(b, y, n) = BlockIn(a, y, n)

LEMMA BlockInKept ==
  \A a, b, y, n, q, t : KeepsBlock(a, b, y, n, q, t) => ShowAlike(a, b, y, n)
<1> SUFFICES ASSUME NEW a, NEW b, NEW y, NEW n, NEW q, NEW t, KeepsBlock(a, b, y, n, q, t)
             PROVE  BlockIn(b, y, n) = BlockIn(a, y, n)
  BY Zenon DEF ShowAlike
<1> USE DEF KeepsBlock
<1>0. q \in Seq(RootTag) /\ t \in RootTag
  BY Zenon
<1>1. PICK s \in Int : s = a.blocks[CellAt(y, n)] /\ s < Len(q)
  BY Zenon
<1>2. s >= 0 => q[s + 1] = Append(q, t)[s + 1]
  <2>1. s >= 0 => s + 1 \in 1 .. Len(q)
    BY ONLY <1>0, <1>1
  <2> QED BY ONLY <1>0, <2>1
<1>3. BlockIn(a, y, n) = IF s >= 0 THEN q[s + 1].nbt ELSE s
  BY <1>1, Zenon DEF BlockIn
<1>4. BlockIn(b, y, n) = IF s >= 0 THEN b.blockStates[y][s + 1].nbt ELSE s
  BY <1>1, Zenon DEF BlockIn
<1>5. PICK u : u = b.blockStates[y]
  BY Zenon
<1>6. s >= 0 => u[s + 1] = q[s + 1]
  <2>1. u = q \/ u = Append(q, t)
    BY <1>5, Zenon
  <2> QED BY ONLY <1>2, <2>1, Zenon
<1>7. CASE s >= 0
  <2>1. BlockIn(a, y, n) = q[s + 1].nbt /\ BlockIn(b, y, n) = u[s + 1].nbt /\ u[s + 1] = q[s + 1]
    BY ONLY <1>3, <1>4, <1>5, <1>6, <1>7, Zenon
  <2> QED BY ONLY <2>1, Zenon
<1>8. CASE ~(s >= 0)
  BY ONLY <1>3, <1>4, <1>8, Zenon
<1> QED BY ONLY <1>7, <1>8, Zenon

\* What a step does to the blocks of a column.
LEMMA BlockSteps ==
  ASSUME WorldInv, [Next]_vars, NEW c \in 1 .. Len(heap)
  PROVE  /\ c \in 1 .. Len(heap')
         /\ \A cell \in Cell : \/ heap'[c].blocks[cell] = heap[c].blocks[cell]
                               \/ PlaceBlock /\ c = currChunk /\ cell = ThisCell
<1>1. TypeOK /\ ScanInv /\ heap \in Seq(ChunkOver(RootTag)) /\ Len(heap) \in Nat
  <2>1. TypeOK /\ ScanInv
    BY WorldTypes DEF WorldInv
  <2>2. heap \in Seq(ChunkOver(RootTag))
    BY ONLY <2>1 DEF TypeOK
  <2> QED BY ONLY <2>1, <2>2
<1>2. Quiet \/ Skips \/ (BeginSubChunk /\ (BeginsNew \/ BeginsOld)) \/ EndSubChunk \/ Stores
  BY ONLY <1>1, WorldInv, [Next]_vars, StepKinds, BeginFacts, Zenon
<1>3. CASE heap' = heap
  BY ONLY <1>3, c \in 1 .. Len(heap), Zenon
<1>4. Quiet \/ Skips \/ EndSubChunk \/ BeginsOld => heap' = heap
  BY ONLY WorldInv, EndStored, Zenon DEF Quiet, Skips, BeginsOld
<1>5. CASE BeginSubChunk /\ BeginsNew
  <2>1. PICK f : f = NewChunk(chunkX, chunkZ)
    BY Zenon
  <2>2. f \in ChunkOver(RootTag)
    <3>1. chunkX \in Int /\ chunkZ \in Int
      BY ONLY <1>5, WorldInv, BeginFacts
    <3> QED BY ONLY <2>1, <3>1, NewChunkType
  <2>3. heap' = Append(heap, f)
    BY ONLY <1>5, <2>1, Zenon DEF BeginsNew
  <2>4. Len(heap') = Len(heap) + 1 /\ heap'[c] = heap[c]
    BY ONLY <1>1, <2>2, <2>3, c \in 1 .. Len(heap)
  <2>5. c \in 1 .. Len(heap')
    BY ONLY <1>1, <2>4, c \in 1 .. Len(heap)
  <2> QED BY ONLY <2>4, <2>5, Zenon
<1>6. CASE AddPaletteEntry
  <2>1. GrownBy(heap, heap', currChunk, chunkY, EntryTag)
    BY ONLY <1>1, <1>6, AddEntryFacts
  <2>2. heap'[c].blocks = heap[c].blocks
    BY ONLY <2>1, c \in 1 .. Len(heap), Zenon DEF GrownBy, Grown
  <2> QED BY ONLY <2>1, <2>2, c \in 1 .. Len(heap), Zenon DEF GrownBy
<1>7. CASE PlaceBlock
  <2>1. PlacedAt(heap, heap', currChunk, ThisCell, ThisState)
    BY ONLY <1>1, <1>7, PlaceFacts
  <2>2. CASE c # currChunk
    BY ONLY <2>1, <2>2, c \in 1 .. Len(heap), Zenon DEF PlacedAt
  <2>3. CASE c = currChunk
    <3>1. \A u \in Cell : heap'[c].blocks[u] = IF u = ThisCell THEN ThisState ELSE heap[c].blocks[u]
      BY ONLY <2>1, <2>3, Zenon DEF PlacedAt, Filled
    <3> QED BY ONLY <1>7, <2>1, <2>3, <3>1, c \in 1 .. Len(heap), Zenon DEF PlacedAt
  <2> QED BY ONLY <2>2, <2>3
<1> QED BY ONLY <1>2, <1>3, <1>4, <1>5, <1>6, <1>7, Zenon DEF Stores

\* What a record shows it goes on to show, unless its own block is stored.
LEMMA ShowsKept ==
  ASSUME WorldInv, [Next]_vars, NEW m \in DOMAIN db, Intact(m), NEW n \in 0 .. BlockCount - 1,
         Shows(m, n), PlaceBlock => m # it \/ CellAt(KeyY(m), n) # ThisCell
  PROVE  Shows(m, n)'
<1>1. TypeOK /\ ScanInv /\ db \in Databases /\ ChunksOwnedOnce
  BY WorldTypes DEF WorldInv, OwnersInv
<1>2. HasKey(m) /\ KeyY(m) \in SubChunk
  BY ONLY <1>1, IntactFacts, m \in DOMAIN db, Intact(m), Zenon
<1>3. ChunkFor(m) # nullptr /\ db[m].written.nbt[n] = BlockIn(heap[ChunkFor(m)], KeyY(m), n)
  BY DEF Shows
<1>4. PICK c, y, cell : c = ChunkFor(m) /\ y = KeyY(m) /\ cell = CellAt(y, n)
  BY Zenon
<1>5. /\ c \in 1 .. Len(heap) /\ (ChunkFor(m))' = c /\ db' = db /\ (KeyY(m))' = y
      /\ KeyDim(m) \in ChunkDimension /\ c # nullptr
  BY ONLY <1>2, <1>3, <1>4, FoundKept, WorldInv, [Next]_vars, Zenon
<1>6. y \in SubChunk /\ cell \in Cell /\ cell[2] \div Edge = y
  BY ONLY <1>2, <1>4, CellAtFacts, n \in 0 .. BlockCount - 1, Zenon
<1>7. PICK q \in Seq(RootTag) : q = heap[c].blockStates[y] /\ heap[c].blocks[cell] \in Int
  BY ONLY <1>1, <1>5, <1>6, PaletteType, Zenon
<1>8. c \in 1 .. Len(heap') /\ heap'[c].blocks[cell] = heap[c].blocks[cell]
  <2>1. ~(PlaceBlock /\ c = currChunk /\ cell = ThisCell)
    <3> SUFFICES ASSUME PlaceBlock, c = currChunk, cell = ThisCell PROVE FALSE
      BY Zenon
    <3>1. y = chunkY /\ pc = "blocks" /\ it <= Len(db)
      BY ONLY <1>1, <1>6, PlaceFacts, PlaceBlock, cell = ThisCell, Zenon
    <3>2. ChunkFor(it) = c /\ isSubChunkKey(k)
      <4>1. Storing
        BY ONLY <3>1 DEF Storing
      <4> QED BY ONLY <4>1, WorldInv, c = currChunk, Zenon DEF WorldInv, OwnersInv, ScanInv, CursorInv
    <3>3. HasKey(it)
      <4>1. it \in DOMAIN db
        BY ONLY <1>1, <3>1 DEF TypeOK
      <4> QED BY ONLY <3>2, <4>1, CurrentKey, Zenon
    <3>4. KeyDim(it) \in ChunkDimension
      BY ONLY <1>1, <3>3, KeyMeans, Zenon
    <3>5. KeyDim(m) = KeyDim(it) /\ KeyId(m) = KeyId(it)
      <4>1. /\ findChunk(world, KeyId(m), KeyDim(m)) = findChunk(world, KeyId(it), KeyDim(it))
            /\ findChunk(world, KeyId(m), KeyDim(m)) # nullptr
        BY ONLY <1>4, <1>5, <3>2, Zenon DEF ChunkFor
      <4> QED BY ONLY <1>1, <1>5, <3>4, <4>1, OnePlace, Zenon
    <3>6. KeyY(m) = KeyY(it)
      BY ONLY <1>4, <3>1, CurrentKey, Zenon
    <3>7. m = it
      BY ONLY <1>1, <1>2, <3>3, <3>5, <3>6, KeysDiffer, Zenon
    <3> QED BY ONLY <1>4, <3>7, PlaceBlock, cell = ThisCell,
                    PlaceBlock => m # it \/ CellAt(KeyY(m), n) # ThisCell, Zenon
  <2> QED BY ONLY <1>5, <1>6, <2>1, BlockSteps, WorldInv, [Next]_vars, Zenon
<1>9. PICK t \in RootTag : heap'[c].blockStates[y] = q \/ heap'[c].blockStates[y] = Append(q, t)
  <2>1. RootTag # {}
    <3>1. [rec |-> 0, storage |-> 0, entry |-> 0, nbt |-> 0] \in RootTag
      BY DEF RootTag
    <3> QED BY ONLY <3>1, Zenon
  <2>2. c # Len(heap) + 1
    <3>1. Len(heap) \in Nat
      BY ONLY <1>1 DEF TypeOK
    <3> QED BY ONLY <1>5, <3>1
  <2> QED BY ONLY <1>6, <1>7, <1>8, <2>1, <2>2, PaletteSteps, WorldInv, [Next]_vars, Zenon
<1>10. heap[c].blocks[cell] < Len(q)
  <2>1. PICK s \in Int : s = heap[c].blocks[cell]
    BY ONLY <1>7, Zenon
  <2>2. s >= 0 => s < Len(q)
    <3>1. c \in DOMAIN heap
      BY ONLY <1>1, <1>5 DEF TypeOK
    <3> QED BY ONLY <1>1, <1>6, <1>7, <2>1, <3>1, Zenon DEF ScanInv, PaletteIndexInBounds
  <2>3. s < Len(q)
    BY ONLY <2>1, <2>2, <1>7
  <2> QED BY ONLY <2>1, <2>3, Zenon
<1>11. PICK a, b : a = heap[c] /\ b = heap'[c]
  BY Zenon
<1>12. BlockIn(b, y, n) = BlockIn(a, y, n)
  <2>1. KeepsBlock(a, b, y, n, q, t)
    BY ONLY <1>4, <1>7, <1>8, <1>9, <1>10, <1>11, q \in Seq(RootTag), t \in RootTag, Zenon
       DEF KeepsBlock
  <2>2. ShowAlike(a, b, y, n)
    BY ONLY <2>1, BlockInKept, Zenon
  <2> QED BY ONLY <2>2, Zenon DEF ShowAlike
<1> QED BY ONLY <1>3, <1>4, <1>5, <1>11, <1>12, Zenon DEF Shows

\* The field the reader takes from the words is the one the game put there for the block.
LEMMA FieldRead ==
  ASSUME ReadInv, PlaceBlock, Intact(it), NEW n \in Nat, n = pos, NEW r, r = db[it]
  PROVE  /\ r \in Record /\ Encoded(r) /\ v = r.value /\ chunkY \in SubChunk /\ it \in DOMAIN db
         /\ Size(r, 1) \in Nat /\ paletteSize = Size(r, 1) /\ WordCount(Bits(r, 1)) \in Nat
         /\ Bits(r, 1) = r.value[3] \div 2 /\ Size(r, 1) = r.value[4 + WordCount(Bits(r, 1))]
         /\ Field(word, pos, bitsPerBlock) \in Nat
         /\ Field(word, pos, bitsPerBlock) =
              FieldAt(r.value[4 + n \div FieldCount(Bits(r, 1))], n % FieldCount(Bits(r, 1)), Bits(r, 1))
<1>1. pc = "blocks" /\ i = 0 /\ AtBlock
  BY DEF PlaceBlock, AtBlock
<1>2. Storing /\ pc # "storage" /\ 0 + 1 = 1
  BY ONLY <1>1 DEF Storing
<1>3. /\ ScanInv /\ TypeOK /\ r \in Record /\ Encoded(r) /\ v = r.value /\ InStorage(r, 1)
      /\ IsWhole(r, 1) /\ chunkY \in SubChunk /\ it <= Len(db) /\ it \in DOMAIN db
  BY ONLY <1>1, <1>2, InIntact, ReadInv, Intact(it), r = db[it], Zenon
<1>4. Start(r, 1) = 2
  BY ONLY <1>3, Zenon DEF Encoded, Start
<1>5. PICK bits : bits = Bits(r, 1)
  BY Zenon
<1>6. /\ bits \in 1 .. WordBits - 1 /\ bitsPerBlock = bits /\ blockDataOffset = 3
      /\ paletteSize = Size(r, 1) /\ Size(r, 1) \in Nat /\ WordCount(bits) \in Nat
  <2>1. 2 + 1 = 3
    OBVIOUS
  <2> QED BY ONLY <1>3, <1>4, <1>5, <2>1, Zenon DEF IsWhole, InStorage
<1>7. bits = r.value[3] \div 2 /\ Size(r, 1) = r.value[4 + WordCount(bits)]
  <2>1. 2 + 1 = 3 /\ 2 + 2 = 4
    OBVIOUS
  <2> QED BY ONLY <1>4, <1>5, <2>1, Zenon DEF Bits, Size
<1>8. PICK b \in Nat \ {0} : b = FieldCount(bits) /\ b = blocksPerWord(bits)
  <2>1. FieldCount(bits) \in 1 .. WordBits /\ FieldCount(bits) = blocksPerWord(bits)
    BY ONLY <1>6, WordCountFacts
  <2> QED BY ONLY <2>1 DEF WordBits
<1>9. PICK o : o = IF firstSlot THEN currOffset ELSE currOffset - 1
  BY Zenon
<1>10. n \div b \in Nat
  BY ONLY <1>8, DivStep, n \in Nat
<1>11. o = 3 + n \div b
  <2>1. currOffset = 3 + n \div b + (IF firstSlot THEN 0 ELSE 1)
    BY ONLY <1>1, <1>3, <1>6, <1>8, n = pos, Zenon DEF ScanInv, CursorInv
  <2> QED BY ONLY <1>9, <1>10, <2>1
<1>12. word = r.value[o + 1] /\ o < Len(r.value)
  <2>1. Readable(o)
    BY ONLY <1>1, <1>3, <1>9, BlockWord
  <2> QED BY ONLY <1>3, <1>9, <2>1, Zenon DEF word, Item, Readable
<1>13. o + 1 = 4 + n \div b
  BY ONLY <1>10, <1>11
<1>14. word \in Int32
  <2>1. r.value \in Seq(Int32)
    BY ONLY <1>3, RecordTypes, Zenon
  <2>2. Len(r.value) \in Nat
    BY ONLY <2>1
  <2>3. o + 1 \in 1 .. Len(r.value)
    BY ONLY <1>10, <1>11, <1>12, <2>2
  <2> QED BY ONLY <1>12, <2>1, <2>3, ElementOfSeq, Zenon
<1>15. Field(word, n, bits) = FieldAt(word, n % b, bits)
  BY ONLY <1>6, <1>8, <1>14, FieldRight, n \in Nat, Zenon
<1>16. Field(word, pos, bitsPerBlock) \in Nat
  <2>1. word \in Int
    BY ONLY <1>1, <1>3, BlockWord
  <2> QED BY ONLY <1>6, <2>1, FieldType, n \in Nat, n = pos, Zenon
<1>17. Field(word, pos, bitsPerBlock) = FieldAt(r.value[4 + n \div b], n % b, bits)
  BY ONLY <1>6, <1>12, <1>13, <1>15, n = pos, Zenon
<1> QED BY ONLY <1>3, <1>5, <1>6, <1>7, <1>8, <1>16, <1>17, Zenon

\* The block stored now is the one the game wrote.
LEMMA PlacedRight ==
  ASSUME ReadInv, PaletteRead, PlaceBlock, [Next]_vars, Intact(it),
         NEW m, m = it, NEW n \in 0 .. BlockCount - 1, n = pos
  PROVE  Shows(m, n)'
<1>1. pc = "blocks" /\ n \in Nat /\ ScanInv /\ WorldInv
  BY EdgeFacts DEF PlaceBlock, AtBlock, ReadInv, WorldInv
<1>2. PICK r, index, size, bits : /\ r = db[it] /\ index = Field(word, pos, bitsPerBlock)
                                  /\ size = Size(r, 1) /\ bits = Bits(r, 1)
  BY Zenon
<1>3. /\ r \in Record /\ Encoded(r) /\ v = r.value /\ chunkY \in SubChunk /\ it \in DOMAIN db
      /\ size \in Nat /\ paletteSize = size /\ WordCount(bits) \in Nat
      /\ bits = r.value[3] \div 2 /\ size = r.value[4 + WordCount(bits)] /\ index \in Nat
      /\ index = FieldAt(r.value[4 + n \div FieldCount(bits)], n % FieldCount(bits), bits)
  BY ONLY <1>1, <1>2, FieldRead, ReadInv, PlaceBlock, Intact(it), n = pos, Zenon
<1>4. r.written.nbt[n] = IF index < size THEN r.value[5 + WordCount(bits) + index] ELSE Corrupt
  <2>1. r.written.nbt[n] = BlockTag(r.value, n)
    BY ONLY <1>3, n \in 0 .. BlockCount - 1, Zenon DEF Encoded
  <2> QED BY ONLY <1>3, <2>1, Zenon DEF BlockTag
<1>5. ThisState = IF index < size THEN index ELSE Corrupt
  <2>1. ThisState = IF index > size - 1 THEN Corrupt ELSE index
    BY ONLY <1>2, <1>3, Zenon DEF ThisState, StateOf
  <2>2. index > size - 1 <=> ~(index < size)
    <3>1. index \in Nat /\ size \in Nat
      BY ONLY <1>3, Zenon
    <3> QED BY ONLY <3>1
  <2> QED BY ONLY <2>1, <2>2, Zenon
<1>6. PICK c, y, q : c = currChunk /\ y = chunkY /\ q = Palette
  BY Zenon
<1>7. y \in SubChunk /\ ThisCell = CellAt(y, n)
  <2>1. ThisCell = <<rawX(n), rawY(n) + Edge * y, rawZ(n)>>
    BY ONLY <1>6, n = pos, Zenon DEF ThisCell, blockY
  <2> QED BY ONLY <1>3, <1>6, <2>1, CellAtFacts, n \in 0 .. BlockCount - 1, Zenon
<1>8. /\ heap'[c].blocks[CellAt(y, n)] = ThisState /\ heap'[c].blockStates[y] = q
      /\ db' = db /\ it' = it /\ c \in 1 .. Len(heap)
  <2>1. /\ PlacedAt(heap, heap', currChunk, ThisCell, ThisState) /\ ThisCell \in Cell
        /\ UNCHANGED <<db, it>>
    BY ONLY <1>1, PlaceBlock, PlaceFacts
  <2>2. Filled(heap[c], heap'[c], ThisCell, ThisState) /\ c \in 1 .. Len(heap)
    BY ONLY <1>6, <2>1, Zenon DEF PlacedAt
  <2> QED BY ONLY <1>6, <1>7, <2>1, <2>2, Zenon DEF Filled, Palette
<1>9. Storing
  BY ONLY <1>1 DEF Storing
<1>10. PaletteUpTo(r, q, "blocks", i, p)
  BY ONLY <1>1, <1>2, <1>6, <1>9, PaletteUpToForm, PaletteRead, Intact(it), Zenon
<1>11. index < size => q[index + 1].nbt = r.value[5 + WordCount(bits) + index]
  <2>1. Len(q) >= size
    BY ONLY <1>2, <1>10 DEF PaletteUpTo
  <2>2. q \in Seq(RootTag)
    <3>1. TypeOK
      BY ONLY <1>1 DEF ScanInv
    <3> QED BY ONLY <1>6, <1>7, <1>8, <3>1, PaletteType, Zenon DEF Palette
  <2>3. index < size => index + 1 \in 1 .. Len(q) /\ index + 1 <= size
    <3>1. index \in Nat /\ size \in Nat
      BY ONLY <1>3, Zenon
    <3> QED BY ONLY <2>1, <2>2, <3>1
  <2>4. 4 + WordCount(bits) + (index + 1) = 5 + WordCount(bits) + index
    <3>1. index \in Nat /\ WordCount(bits) \in Nat
      BY ONLY <1>3, Zenon
    <3>2. PICK wc : wc = WordCount(bits)
      BY Zenon
    <3> QED BY ONLY <3>1, <3>2
  <2> QED BY ONLY <1>2, <1>10, <2>3, <2>4, Zenon DEF PaletteUpTo
<1>12. r.written.nbt[n] = BlockIn(heap'[c], y, n)
  <2>1. PICK a : a = heap'[c]
    BY Zenon
  <2>2. PICK s : s = ThisState
    BY Zenon
  <2>3. BlockIn(a, y, n) = IF s >= 0 THEN q[s + 1].nbt ELSE s
    BY ONLY <1>8, <2>1, <2>2, Zenon DEF BlockIn
  <2>4. CASE index < size
    <3>1. s = index /\ s >= 0
      <4>1. index \in Nat
        BY ONLY <1>3, Zenon
      <4>2. s = index
        BY ONLY <1>5, <2>2, <2>4, Zenon
      <4> QED BY ONLY <4>1, <4>2
    <3> QED BY ONLY <1>4, <1>11, <2>1, <2>3, <2>4, <3>1, Zenon
  <2>5. CASE ~(index < size)
    <3>1. s = Corrupt /\ ~(s >= 0)
      BY ONLY <1>5, <2>2, <2>5 DEF Corrupt
    <3> QED BY ONLY <1>4, <2>1, <2>3, <2>5, <3>1, Zenon
  <2> QED BY ONLY <2>4, <2>5
<1>13. (ChunkFor(m))' = c /\ c # nullptr /\ (KeyY(m))' = y
  <2>1. ChunkFor(m) = c /\ KeyY(m) = y
    BY ONLY <1>1, <1>6, <1>9, CurrentKey, m = it, Zenon DEF WorldInv, OwnersInv
  <2>2. c # nullptr
    BY ONLY <1>8 DEF nullptr
  <2>3. HasKey(m)
    BY ONLY <1>3, <1>9, <1>1, CurrentKey, m = it, Zenon DEF WorldInv, ScanInv, CursorInv
  <2> QED BY ONLY <1>1, <2>1, <2>2, <2>3, FoundKept, [Next]_vars, Zenon
<1> QED BY ONLY <1>2, <1>8, <1>12, <1>13, m = it, Zenon DEF Shows

\* Only the end of a record adds to the records stored; they all lie behind.
LEMMA StoredSteps ==
  ASSUME WorldInv, [Next]_vars
  PROVE  /\ (Stored' = Stored \/ (EndSubChunk /\ Stored' = Stored \cup {it})) /\ db' = db
         /\ Stored \subseteq DOMAIN db /\ it \notin Stored
<1>1. TypeOK /\ ScanInv /\ db \in Databases /\ it \in Nat /\ Len(db) \in Nat /\ DOMAIN db = 1 .. Len(db)
  BY WorldTypes DEF WorldInv
<1>2. (Stored' = Stored \/ (EndSubChunk /\ Stored' = Stored \cup {it})) /\ db' = db
  <2>1. CASE Quiet
    BY ONLY <2>1 DEF Quiet, Stored
  <2>2. CASE Skips
    <3>1. Stored' = Stored
      BY ONLY <2>2, WorldInv, SkipStored
    <3> QED BY ONLY <2>2, <3>1 DEF Skips
  <2>3. CASE BeginSubChunk
    <3>1. UNCHANGED <<db, it, unread>>
      BY ONLY <2>3, WorldInv, BeginFacts
    <3> QED BY ONLY <3>1 DEF Stored
  <2>4. CASE EndSubChunk
    BY ONLY <2>4, WorldInv, EndStored
  <2>5. CASE Stores
    <3>1. UNCHANGED <<db, it, unread>>
      BY ONLY <1>1, <2>5, AddEntryFacts, PlaceFacts DEF Stores
    <3> QED BY ONLY <3>1 DEF Stored
  <2> QED BY ONLY <1>1, <2>1, <2>2, <2>3, <2>4, <2>5, StepKinds, [Next]_vars, Zenon
<1>3. Stored \subseteq DOMAIN db /\ it \notin Stored
  <2>1. it <= Len(db) + 1
    BY ONLY <1>1 DEF TypeOK
  <2>2. 1 .. it - 1 \subseteq DOMAIN db /\ it \notin 1 .. it - 1
    BY ONLY <1>1, <2>1
  <2>3. Stored \subseteq 1 .. it - 1
    BY ONLY Zenon DEF Stored
  <2> QED BY ONLY <2>2, <2>3, Zenon
<1> QED BY ONLY <1>2, <1>3, Zenon

\* The padding of an intact record.
LEMMA PaddedFacts ==
  ASSUME db \in Databases, NEW m \in DOMAIN db, Intact(m)
  PROVE  /\ Padded(m) \in Nat /\ Slots(Bits(db[m], 1)) = Padded(m) + BlockCount
         /\ Bits(db[m], 1) \in 1 .. WordBits - 1
<1>1. PICK r : r = db[m]
  BY Zenon
<1>2. r \in Record /\ Encoded(r) /\ r.value[2] \in Int /\ r.value[2] >= 1 /\ Start(r, 1) = 2
  BY ONLY <1>1, IntactFacts, db \in Databases, m \in DOMAIN db, Intact(m), Zenon
<1>3. 1 \in 1 .. r.value[2]
  BY ONLY <1>2
<1>4. Bits(r, 1) \in 1 .. WordBits - 1
  BY ONLY <1>2, <1>3, StorageFacts, Zenon DEF IsWhole
<1>5. PICK bits \in 1 .. WordBits - 1 : bits = Bits(r, 1)
  BY ONLY <1>4, Zenon
<1>6. PICK n : n = Slots(bits)
  BY Zenon
<1>7. n \in Nat /\ n >= BlockCount /\ BlockCount \in Nat
  BY ONLY <1>6, SlotsFacts, EdgeFacts, bits \in 1 .. WordBits - 1
<1>8. Padded(m) = n - BlockCount
  <2>1. 2 + 1 = 3
    OBVIOUS
  <2>2. bits = r.value[3] \div 2
    BY ONLY <1>2, <1>5, <2>1, Zenon DEF Bits
  <2> QED BY ONLY <1>1, <1>6, <2>2, Zenon DEF Padded
<1>9. n - BlockCount \in Nat /\ n = (n - BlockCount) + BlockCount
  BY ONLY <1>7
<1> QED BY ONLY <1>1, <1>4, <1>5, <1>6, <1>8, <1>9, Zenon

\* The block loop stays within its words.
LEMMA SlotsStep ==
  ASSUME ScanInv, pc = "blocks" => pos <= Slots(bitsPerBlock), [Next]_vars
  PROVE  pc' = "blocks" => pos' <= (Slots(bitsPerBlock))'
<1> SUFFICES ASSUME pc' = "blocks" PROVE pos' <= (Slots(bitsPerBlock))'
  OBVIOUS
<1>1. PICK bits \in 1 .. WordBits - 1 : bits = bitsPerBlock
  BY DEF ScanInv, TypeOK
<1>2. pos \in Nat /\ Slots(bits) \in Nat
  <2>1. Slots(bits) \in Nat
    BY ONLY SlotsFacts, bits \in 1 .. WordBits - 1
  <2> QED BY <2>1 DEF ScanInv, TypeOK
<1>3. CASE EndPalette
  <2>1. pos' = 0 /\ bitsPerBlock' = bits
    BY ONLY <1>1, <1>3 DEF EndPalette
  <2>2. 0 <= Slots(bits)
    BY ONLY <1>2
  <2> QED BY ONLY <2>1, <2>2, Zenon DEF Slots
<1>4. CASE PlaceBlock \/ DiscardBlock
  <2>1. pos' = pos + 1 /\ bitsPerBlock' = bits /\ pos < Slots(bits)
    BY ONLY <1>1, <1>4 DEF PlaceBlock, DiscardBlock, NextBlock, AtBlock
  <2>2. pos + 1 <= Slots(bits)
    BY ONLY <1>2, <2>1
  <2> QED BY ONLY <2>1, <2>2, Zenon DEF Slots
<1>5. CASE UNCHANGED vars \/ Done
  <2>1. pos' = pos /\ bitsPerBlock' = bits /\ pc' = pc
    BY ONLY <1>1, <1>5 DEF vars, storageVars, Done
  <2> QED BY <1>1, <2>1, Zenon DEF Slots
<1>6. CASE Open \/ OpenFails \/ BeginSubChunk \/ TruncatedHeader \/ EndSubChunk \/ BeginStorage
            \/ RuntimeStorage \/ BrokenStorage \/ UndefinedStorage \/ BrokenEntry
            \/ UndefinedPalette \/ UndefinedBlock \/ EndStorage \/ Finish
  BY ONLY <1>6, pc' = "blocks" DEF Open, OpenFails, BeginSubChunk, TruncatedHeader, EndSubChunk, BeginStorage,
          RuntimeStorage, BrokenStorage, UndefinedStorage, BrokenEntry, UndefinedPalette,
          UndefinedBlock, EndStorage, Finish, StopWith, Goto
<1>7. CASE IgnoreRecord \/ SkipFormat \/ ReadError \/ AddPaletteEntry
  BY ONLY <1>7, pc' = "blocks" DEF IgnoreRecord, SkipFormat, ReadError, NextRecord, AtRecord, AddPaletteEntry, AtEntry
<1> QED BY ONLY <1>3, <1>4, <1>5, <1>6, <1>7, [Next]_vars, Zenon DEF Next

\* A block counts as placed after a step only if it did before and the step leaves it alone,
\* or if the step places it.
LEMMA PlacedSteps ==
  ASSUME ReadInv, BlocksInv, [Next]_vars, Storing', Intact(it)', NEW n \in 0 .. BlockCount - 1, Placed(n)'
  PROVE  /\ UNCHANGED <<db, it>> /\ Storing
         /\ \/ PlaceBlock /\ n = pos
            \/ Placed(n) /\ (PlaceBlock => n < pos /\ pos < n + BlockCount)
<1>1. WorldInv /\ ScanInv /\ TypeOK /\ db \in Databases
  BY WorldTypes DEF ReadInv, WorldInv
<1>2. i \in Nat /\ pos \in Nat /\ n \in Nat /\ BlockCount \in Nat
  BY <1>1, EdgeFacts DEF TypeOK
<1>3. \/ i' = 0 /\ pc' = "blocks" /\ n < pos' /\ pos' <= n + BlockCount
      \/ i' > 0 /\ n >= (Padded(it))'
  BY ONLY Placed(n)' DEF Placed
<1>4. ASSUME UNCHANGED <<db, it>> PROVE (Padded(it))' = Padded(it)
  BY ONLY <1>4 DEF Padded
<1>5. pc' \in {"storage", "palette", "blocks"}
  BY ONLY Storing' DEF Storing
<1>6. CASE BeginSubChunk
  <2>1. i' = 0 /\ pc' = "storage"
    BY ONLY <1>1, <1>6, BeginFacts
  <2> QED BY ONLY <1>3, <2>1
<1>7. CASE BeginStorage \/ AddPaletteEntry
  <2>1. /\ UNCHANGED <<db, it, i>> /\ pc' = "palette" /\ pc \in {"storage", "palette"}
    BY ONLY <1>7 DEF BeginStorage, AtStorage, AddPaletteEntry, AtEntry, recordVars, Goto
  <2>2. Storing /\ ~PlaceBlock
    BY ONLY <2>1 DEF Storing, PlaceBlock, AtBlock
  <2>3. i > 0 /\ n >= Padded(it)
    BY ONLY <1>3, <1>4, <2>1
  <2> QED BY ONLY <2>1, <2>2, <2>3, Zenon DEF Placed
<1>8. CASE EndPalette
  <2>1. /\ UNCHANGED <<db, it, i>> /\ pos' = 0 /\ pc = "palette"
    BY ONLY <1>8 DEF EndPalette, recordVars, Goto
  <2>2. Storing /\ ~PlaceBlock
    BY ONLY <2>1 DEF Storing, PlaceBlock, AtBlock
  <2>3. i > 0 /\ n >= Padded(it)
    BY ONLY <1>2, <1>3, <1>4, <2>1
  <2> QED BY ONLY <2>1, <2>2, <2>3, Zenon DEF Placed
<1>9. CASE PlaceBlock
  <2>1. /\ UNCHANGED <<db, it, i>> /\ pos' = pos + 1 /\ pc = "blocks" /\ i = 0
    BY ONLY <1>9 DEF PlaceBlock, NextBlock, AtBlock, recordVars
  <2>2. Storing
    BY ONLY <2>1 DEF Storing
  <2>3. n < pos + 1 /\ pos + 1 <= n + BlockCount
    BY ONLY <1>3, <2>1
  <2>4. n = pos \/ (n < pos /\ pos < n + BlockCount /\ pos <= n + BlockCount)
    BY ONLY <1>2, <2>3
  <2> QED BY ONLY <1>9, <2>1, <2>2, <2>4, Zenon DEF Placed
<1>10. CASE DiscardBlock
  <2>1. /\ UNCHANGED <<db, it, i>> /\ pc = "blocks" /\ i > 0
    BY ONLY <1>10 DEF DiscardBlock, NextBlock, AtBlock, recordVars
  <2>2. Storing /\ ~PlaceBlock
    BY ONLY <1>2, <2>1 DEF Storing, PlaceBlock
  <2>3. n >= Padded(it)
    BY ONLY <1>2, <1>3, <1>4, <2>1
  <2> QED BY ONLY <2>1, <2>2, <2>3, Zenon DEF Placed
<1>11. CASE EndStorage
  <2>1. /\ UNCHANGED <<db, it>> /\ pc = "blocks" /\ i' = i + 1 /\ pos >= Slots(bitsPerBlock)
    BY ONLY <1>11 DEF EndStorage, Goto
  <2>2. Storing /\ pc # "storage" /\ Intact(it)
    BY ONLY <2>1, Intact(it)' DEF Storing, Intact
  <2>3. n >= Padded(it)
    BY ONLY <1>2, <1>3, <1>4, <2>1
  <2>4. CASE i > 0
    <3>1. ~PlaceBlock
      BY ONLY <2>4 DEF PlaceBlock
    <3> QED BY ONLY <2>1, <2>2, <2>3, <2>4, <3>1, Zenon DEF Placed
  <2>5. CASE i = 0
    <3>1. InStorage(db[it], 0 + 1) /\ it \in DOMAIN db
      BY ONLY <2>2, <2>5, InIntact, ReadInv, Zenon
    <3>2. 0 + 1 = 1
      OBVIOUS
    <3>3. bitsPerBlock = Bits(db[it], 1)
      BY ONLY <3>1, <3>2, Zenon DEF InStorage
    <3>4. /\ Padded(it) \in Nat /\ Slots(bitsPerBlock) = Padded(it) + BlockCount
      BY ONLY <1>1, <2>2, <3>1, <3>3, PaddedFacts, Zenon
    <3>5. pos <= Slots(bitsPerBlock)
      BY ONLY <2>1, BlocksInv, Zenon DEF BlocksInv
    <3>6. PICK a \in Nat : a = Padded(it)
      BY ONLY <3>4, Zenon
    <3>7. pos = a + BlockCount
      BY ONLY <1>2, <2>1, <3>4, <3>5, <3>6
    <3>8. n < pos /\ pos <= n + BlockCount /\ ~(pos < a + BlockCount)
      BY ONLY <1>2, <2>3, <3>6, <3>7
    <3>9. ~PlaceBlock
      <4>1. ~(pos < Slots(bitsPerBlock))
        BY ONLY <3>4, <3>6, <3>8, Zenon
      <4> QED BY ONLY <4>1 DEF PlaceBlock, AtBlock
    <3> QED BY ONLY <2>1, <2>2, <2>5, <3>8, <3>9, Zenon DEF Placed
  <2> QED BY ONLY <1>2, <2>4, <2>5
<1>12. CASE UNCHANGED vars \/ Done
  <2>1. UNCHANGED <<db, it, pc, i, pos>>
    BY ONLY <1>12 DEF Done, vars, recordVars, storageVars, storeVars
  <2>2. Storing /\ (Padded(it))' = Padded(it)
    BY ONLY <1>4, <2>1, Storing' DEF Storing
  <2>3. Placed(n)
    BY ONLY <1>3, <2>1, <2>2, Zenon DEF Placed
  <2>4. ~PlaceBlock
    <3>1. pos + 1 # pos
      BY ONLY <1>2
    <3> QED BY ONLY <2>1, <3>1 DEF PlaceBlock, NextBlock
  <2> QED BY ONLY <2>1, <2>2, <2>3, <2>4, Zenon
<1>13. CASE Open \/ OpenFails \/ TruncatedHeader \/ EndSubChunk \/ RuntimeStorage \/ BrokenStorage
             \/ UndefinedStorage \/ BrokenEntry \/ UndefinedPalette \/ UndefinedBlock \/ Finish
  BY ONLY <1>5, <1>13 DEF Open, OpenFails, TruncatedHeader, EndSubChunk, RuntimeStorage, BrokenStorage,
          UndefinedStorage, BrokenEntry, UndefinedPalette, UndefinedBlock, Finish, StopWith, Goto
<1>14. CASE IgnoreRecord \/ SkipFormat \/ ReadError
  BY ONLY <1>5, <1>14 DEF IgnoreRecord, SkipFormat, ReadError, NextRecord, AtRecord
<1> QED BY ONLY <1>6, <1>7, <1>8, <1>9, <1>10, <1>11, <1>12, <1>13, <1>14, [Next]_vars, Zenon DEF Next

\* The block loop keeps what it has placed, and later records do.
LEMMA BlocksStep ==
  ASSUME ReadInv, PaletteRead, BlocksInv, [Next]_vars
  PROVE  BlocksInv'
<1>1. WorldInv /\ ScanInv /\ TypeOK /\ db \in Databases
  BY WorldTypes DEF ReadInv, WorldInv
<1>2. pc' = "blocks" => pos' <= (Slots(bitsPerBlock))'
  BY ONLY <1>1, SlotsStep, BlocksInv, [Next]_vars, Zenon DEF BlocksInv
<1>3. ASSUME Storing', Intact(it)', NEW n \in 0 .. BlockCount - 1, Placed(n)'
      PROVE  Shows(it, n)'
  <2>1. /\ UNCHANGED <<db, it>> /\ Storing
        /\ \/ PlaceBlock /\ n = pos
           \/ Placed(n) /\ (PlaceBlock => n < pos /\ pos < n + BlockCount)
    BY ONLY <1>3, PlacedSteps, ReadInv, BlocksInv, [Next]_vars
  <2>2. Intact(it)
    BY ONLY <1>3, <2>1 DEF Intact
  <2>3. PICK m : m = it
    BY Zenon
  <2>4. Shows(m, n)'
    <3>1. CASE PlaceBlock /\ n = pos
      BY ONLY <1>3, <2>2, <2>3, <3>1, PlacedRight, ReadInv, PaletteRead, [Next]_vars
    <3>2. CASE Placed(n) /\ (PlaceBlock => n < pos /\ pos < n + BlockCount)
      <4>1. m \in DOMAIN db /\ KeyY(m) = chunkY /\ chunkY \in SubChunk
        BY ONLY <2>1, <2>2, <2>3, InIntact, ReadInv, CurrentKey, Zenon
      <4>2. Shows(m, n)
        BY ONLY <1>3, <2>1, <2>2, <2>3, <3>2, BlocksInv, Zenon DEF BlocksInv
      <4>3. PlaceBlock => CellAt(KeyY(m), n) # ThisCell
        <5> SUFFICES ASSUME PlaceBlock, CellAt(KeyY(m), n) = ThisCell PROVE FALSE
          BY Zenon
        <5>1. CellAt(chunkY, n) = <<rawX(n), rawY(n) + Edge * chunkY, rawZ(n)>>
          BY ONLY <1>3, <4>1, CellAtFacts, Zenon
        <5>2. PICK q, y : q = pos /\ y = chunkY
          BY Zenon
        <5>3. q \in Nat /\ n \in Nat /\ y \in Int /\ n < q /\ q < n + BlockCount
          BY <1>1, <1>3, <3>2, <4>1, <5>2, PlaceBlock, EdgeFacts DEF TypeOK, SubChunk
        <5>4. <<rawX(n), rawY(n) + Edge * y, rawZ(n)>> = <<rawX(q), rawY(q) + Edge * y, rawZ(q)>>
          BY ONLY <4>1, <5>1, <5>2, CellAt(KeyY(m), n) = ThisCell, Zenon DEF ThisCell, blockY
        <5>5. rawX(n) = rawX(q) /\ rawY(n) + Edge * y = rawY(q) + Edge * y /\ rawZ(n) = rawZ(q)
          BY ONLY <5>4
        <5>6. rawY(n) = rawY(q)
          <6>1. rawY(n) \in Int /\ rawY(q) \in Int /\ Edge * y \in Int
            BY ONLY <5>3, RawFacts, EdgeFacts DEF Side
          <6>2. PICK a \in Int, b \in Int, e \in Int : a = rawY(n) /\ b = rawY(q) /\ e = Edge * y
            BY ONLY <6>1, Zenon
          <6>3. a + e = b + e
            BY ONLY <5>5, <6>2, Zenon
          <6>4. a = b
            BY ONLY <6>3, a \in Int, b \in Int, e \in Int
          <6> QED BY ONLY <6>2, <6>4, Zenon
        <5> QED BY ONLY <5>3, <5>5, <5>6, CellsApart, Zenon
      <4> QED BY ONLY <1>1, <1>3, <2>2, <2>3, <4>1, <4>2, <4>3, ShowsKept, [Next]_vars, Zenon
    <3> QED BY ONLY <2>1, <3>1, <3>2
  <2> QED BY ONLY <2>1, <2>3, <2>4, Zenon DEF Shows
<1>4. ASSUME NEW m \in Stored', Intact(m)', NEW n \in (Padded(m))' .. BlockCount - 1, n >= 0
      PROVE  Shows(m, n)'
  <2>1. /\ (Stored' = Stored \/ (EndSubChunk /\ Stored' = Stored \cup {it})) /\ db' = db
        /\ Stored \subseteq DOMAIN db /\ it \notin Stored
    BY ONLY <1>1, StoredSteps, [Next]_vars
  <2>2. Intact(m) /\ (Padded(m))' = Padded(m)
    BY ONLY <1>4, <2>1 DEF Intact, Padded
  <2>3. CASE m \in Stored
    <3>1. m \in DOMAIN db /\ m # it
      BY ONLY <2>1, <2>3, Zenon
    <3>2. n \in Padded(m) .. BlockCount - 1 /\ Padded(m) \in Nat /\ BlockCount \in Nat
      BY ONLY <1>1, <1>4, <2>2, <3>1, PaddedFacts, EdgeFacts
    <3>3. n \in 0 .. BlockCount - 1
      BY ONLY <3>2
    <3>4. Shows(m, n)
      BY ONLY <1>4, <2>2, <2>3, <3>2, BlocksInv, Zenon DEF BlocksInv
    <3> QED BY ONLY <1>1, <2>2, <3>1, <3>3, <3>4, ShowsKept, [Next]_vars, Zenon
  <2>4. CASE m \notin Stored
    <3>1. EndSubChunk /\ m = it
      BY ONLY <1>4, <2>1, <2>4, Zenon
    <3>2. pc = "storage" /\ i >= storageNum
      BY ONLY <3>1 DEF EndSubChunk
    <3>3. Storing /\ ~PlaceBlock
      BY ONLY <3>2 DEF Storing, PlaceBlock, AtBlock
    <3>4. i \in Nat /\ storageNum \in Int /\ storageNum >= 1 /\ m \in DOMAIN db
      BY ONLY <2>2, <3>1, <3>3, InIntact, ReadInv, Zenon
    <3>5. i > 0
      BY ONLY <3>2, <3>4
    <3>6. n \in Padded(m) .. BlockCount - 1 /\ Padded(m) \in Nat /\ BlockCount \in Nat
      BY ONLY <1>1, <1>4, <2>2, <3>4, PaddedFacts, EdgeFacts
    <3>7. n \in 0 .. BlockCount - 1 /\ n >= Padded(m)
      BY ONLY <3>6
    <3>8. Shows(m, n)
      BY ONLY <2>2, <3>1, <3>3, <3>5, <3>7, BlocksInv, Zenon DEF BlocksInv, Placed
    <3> QED BY ONLY <1>1, <2>2, <3>3, <3>4, <3>7, <3>8, ShowsKept, [Next]_vars, Zenon
  <2> QED BY ONLY <2>3, <2>4
<1> QED BY ONLY <1>2, <1>3, <1>4, Zenon DEF BlocksInv
-----------------------------------------------------------------------------
(* What world.getBlock shows.                                                *)

\* Before the scan nothing is stored.
LEMMA FaithfulInit == Init => FaithfulInv
<1> SUFFICES ASSUME Init PROVE FaithfulInv
  OBVIOUS
<1>1. WorldInv
  BY WorldInit
<1>2. ~Storing /\ pc = "open" /\ heap = << >> /\ it = 1
  BY DEF Init, Storing
<1>3. IntactInv /\ IntactStopsOnlyThere /\ PaletteRead
  BY ONLY <1>2 DEF IntactInv, IntactStopsOnlyThere, PaletteRead
<1>4. TagsInv
  <2>1. Len(heap) = 0
    BY ONLY <1>2
  <2> QED BY ONLY <2>1 DEF TagsInv
<1>5. Stored = {}
  BY ONLY <1>2 DEF Stored
<1>6. BlocksInv
  BY ONLY <1>2, <1>5 DEF BlocksInv
<1> QED BY <1>1, <1>3, <1>4, <1>6 DEF FaithfulInv, ReadInv

\* The scan keeps what it has read: FaithfulInv, from which the answers of getBlock follow,
\* is an invariant of parseBedrock for every size of sub-chunk, column and database.
THEOREM FaithfulInvariant == Spec => []FaithfulInv
<1>1. TagsInv /\ PaletteRead /\ BlocksInv /\ ReadInv /\ ReadInv' /\ [Next]_vars
        => (TagsInv /\ PaletteRead /\ BlocksInv)'
  <2> SUFFICES ASSUME TagsInv, PaletteRead, BlocksInv, ReadInv, ReadInv', [Next]_vars
               PROVE  TagsInv' /\ PaletteRead' /\ BlocksInv'
    OBVIOUS
  <2>1. WorldInv
    BY DEF ReadInv
  <2>2. TagsInv'
    BY <2>1, TagsStep
  <2>3. PaletteRead'
    BY PaletteStep
  <2>4. BlocksInv'
    BY BlocksStep
  <2> QED BY <2>2, <2>3, <2>4
<1>2. Init => TagsInv /\ PaletteRead /\ BlocksInv
  BY FaithfulInit DEF FaithfulInv
<1>3. Spec => [](TagsInv /\ PaletteRead /\ BlocksInv)
  BY <1>1, <1>2, ReadInvariant, PTL DEF Spec
<1>4. ReadInv /\ TagsInv /\ PaletteRead /\ BlocksInv => FaithfulInv
  BY DEF FaithfulInv
<1> QED BY <1>3, <1>4, ReadInvariant, PTL

\* The world coordinates of a block lead back to its chunk and its place in it.
LEMMA CoordinatesFacts ==
  ASSUME NEW x \in Int, NEW a \in Side
  PROVE  ChunkOf(Edge * x + a) = x /\ RawOf(Edge * x + a) = a
<1>1. PICK e \in Nat \ {0} : e = Edge
  BY EdgeFacts
<1>2. a \in 0 .. e - 1
  BY <1>1 DEF Side
<1>3. (e * x + a) \div e = x
  BY ONLY <1>2, DivUnique, e \in Nat \ {0}, x \in Int
<1>4. (e * x + a) - e * x = a
  <2>1. PICK u \in Int : u = e * x
    BY ONLY e \in Nat \ {0}, x \in Int
  <2>2. (u + a) - u = a
    BY ONLY <1>2, <2>1, e \in Nat \ {0}
  <2> QED BY ONLY <2>1, <2>2, Zenon
<1> QED BY ONLY <1>1, <1>3, <1>4, Zenon DEF ChunkOf, RawOf

\* getBlock returns what the column shows.
LEMMA ShowsGetBlock ==
  ASSUME FaithfulInv, NEW m \in DOMAIN db, Intact(m), NEW n \in 0 .. BlockCount - 1, Shows(m, n)
  PROVE  Shown(m, n) = {db[m].written.nbt[n]}
<1>1. db \in Databases /\ TypeOK /\ WorldInv
  <2>1. WorldInv
    BY DEF FaithfulInv, ReadInv
  <2> QED BY <2>1, WorldTypes
<1>2. PICK w : w = db[m].written
  BY Zenon
<1>3. /\ HasKey(m) /\ KeyY(m) = w.y /\ KeyY(m) \in SubChunk
      /\ KeyDim(m) = w.dim /\ KeyId(m) = chunkID(w.x, w.z) /\ w.x \in Int32 /\ w.z \in Int32
  BY ONLY <1>1, <1>2, IntactFacts, KeyMeans, DbFacts, m \in DOMAIN db, Intact(m), Zenon
<1>4. w.x \in Int /\ w.z \in Int
  BY ONLY SMT, <1>3 DEF Int32
<1>5. PICK c, y, cell : c = ChunkFor(m) /\ y = w.y /\ cell = CellAt(y, n)
  BY Zenon
<1>6. c # nullptr /\ w.nbt[n] = BlockIn(heap[c], y, n) /\ y \in SubChunk
  BY ONLY <1>2, <1>3, <1>5, Shows(m, n), Zenon DEF Shows
<1>7. PICK a, b, e : a = n \div (Edge * Edge) /\ b = n % Edge /\ e = (n \div Edge) % Edge
  BY Zenon
<1>8. a \in Side /\ b \in Side /\ e \in Side
  BY ONLY <1>7, PositionFacts, n \in 0 .. BlockCount - 1, Zenon
<1>9. cell = <<a, Edge * y + b, e>> /\ cell \in Cell /\ cell[2] \div Edge = y
  BY ONLY <1>5, <1>6, <1>7, CellAtFacts, n \in 0 .. BlockCount - 1, Zenon DEF CellAt
<1>10. PICK h : h = Edge * y + b
  BY Zenon
<1>11. h \in 0 .. Height - 1 /\ h \div Edge = y /\ Height \in Nat
  <2>1. <<a, h, e>> \in Cell /\ <<a, h, e>>[2] \div Edge = y
    BY ONLY <1>9, <1>10, Zenon
  <2> QED BY ONLY <2>1, EdgeFacts DEF Cell
<1>12. ~outOfBounds(a, h, e) /\ ~(h >= Height)
  BY ONLY <1>8, <1>11 DEF outOfBounds
<1>13. getBlockChunk(world, Edge * w.x + a, h, Edge * w.z + e, w.dim) = c
  <2>1. ChunkOf(Edge * w.x + a) = w.x /\ ChunkOf(Edge * w.z + e) = w.z
    BY ONLY <1>4, <1>8, CoordinatesFacts
  <2> QED BY ONLY <1>3, <1>5, <2>1, Zenon DEF getBlockChunk, ChunkFor
<1>14. PICK s, q : s = heap[c].blocks[cell] /\ q = heap[c].blockStates[y]
  BY Zenon
<1>15. worldGetBlock(world, heap, Edge * w.x + a, h, Edge * w.z + e, w.dim)
         = {[state |-> s, tags |-> IF s >= 0 THEN <<q[s + 1]>> ELSE << >>]}
  <2>1. RawOf(Edge * w.x + a) = a /\ RawOf(Edge * w.z + e) = e
    BY ONLY <1>4, <1>8, CoordinatesFacts
  <2>2. chunkGetBlock(heap[c], a, h, e) = {[state |-> s, tags |-> IF s >= 0 THEN <<q[s + 1]>> ELSE << >>]}
    BY ONLY <1>9, <1>10, <1>11, <1>12, <1>14, Zenon DEF chunkGetBlock
  <2> QED BY ONLY <1>6, <1>13, <2>1, <2>2, Zenon DEF worldGetBlock
<1>16. PICK blk : blk = [state |-> s, tags |-> IF s >= 0 THEN <<q[s + 1]>> ELSE << >>]
  BY Zenon
<1>17. blk.state = s /\ (s >= 0 => blk.tags[1] = q[s + 1])
  BY ONLY <1>16
<1>18. Shown(m, n) = {IF blk.state >= 0 THEN blk.tags[1].nbt ELSE blk.state}
  <2>1. Shown(m, n) = {IF b2.state >= 0 THEN b2.tags[1].nbt ELSE b2.state :
                         b2 \in worldGetBlock(world, heap, Edge * w.x + a, h, Edge * w.z + e, w.dim)}
    BY ONLY <1>2, <1>5, <1>7, <1>10, Zenon DEF Shown
  <2>2. worldGetBlock(world, heap, Edge * w.x + a, h, Edge * w.z + e, w.dim) = {blk}
    BY ONLY <1>15, <1>16, Zenon
  <2> QED BY ONLY <2>1, <2>2, Zenon
<1>19. BlockIn(heap[c], y, n) = IF s >= 0 THEN q[s + 1].nbt ELSE s
  BY ONLY <1>5, <1>14, Zenon DEF BlockIn
<1>20. (IF blk.state >= 0 THEN blk.tags[1].nbt ELSE blk.state) = IF s >= 0 THEN q[s + 1].nbt ELSE s
  BY ONLY <1>17, Zenon
<1> QED BY ONLY <1>2, <1>6, <1>18, <1>19, <1>20, Zenon

\* parseBedrock and world.getBlock undo what the game wrote: after the scan of its record,
\* and of any records after it, every block of a sub-chunk outside the padding has the tag
\* it was written with, in every database and for every size of sub-chunk and column.
THEOREM BlocksAreRight == Spec => []GetBlockFaithful
<1>1. FaithfulInv => GetBlockFaithful
  <2> SUFFICES ASSUME FaithfulInv, NEW m \in Stored, Intact(m), NEW n \in Padded(m) .. BlockCount - 1
               PROVE  Shown(m, n) = {db[m].written.nbt[n]}
    BY Zenon DEF GetBlockFaithful
  <2>1. WorldInv /\ BlocksInv
    BY DEF FaithfulInv, ReadInv
  <2>2. TypeOK /\ db \in Databases /\ it \in Nat /\ Len(db) \in Nat /\ DOMAIN db = 1 .. Len(db)
    BY ONLY <2>1, WorldTypes
  <2>3. m \in DOMAIN db
    <3>1. it <= Len(db) + 1
      BY ONLY <2>2 DEF TypeOK
    <3>2. m \in 1 .. it - 1
      BY Zenon DEF Stored
    <3> QED BY ONLY <2>2, <3>1, <3>2
  <2>4. Padded(m) \in Nat /\ BlockCount \in Nat
    BY ONLY <2>2, <2>3, PaddedFacts, EdgeFacts, Intact(m)
  <2>5. n >= 0 /\ n \in 0 .. BlockCount - 1
    BY ONLY <2>4, n \in Padded(m) .. BlockCount - 1
  <2>6. Shows(m, n)
    BY ONLY <2>1, <2>5, m \in Stored, Intact(m), n \in Padded(m) .. BlockCount - 1, Zenon DEF BlocksInv
  <2> QED BY <2>3, <2>5, <2>6, ShowsGetBlock, Zenon
<1> QED BY <1>1, FaithfulInvariant, PTL
\* The world parseBedrock hands over to the commands is as they take it: each chunk is in one
\* map of WorldData, under its own coordinates, and no block points out of its palette.
THEOREM WorldIsLoaded == Spec => []Loaded(world, heap)
<1>1. ASSUME WorldInv PROVE Loaded(world, heap)
  <2>1. TypeOK /\ PaletteIndexInBounds /\ ChunksOwnedOnce
    BY <1>1 DEF WorldInv, ScanInv, OwnersInv
  <2>2. heap \in Seq(ChunkOver(RootTag)) /\ DOMAIN world = ChunkDimension
        /\ \A d \in ChunkDimension : world[d] \in [DOMAIN world[d] -> 1 .. Len(heap)]
    BY <2>1 DEF TypeOK
  <2>3. DOMAIN heap = 1 .. Len(heap) /\ Len(heap) \in Nat /\ \A c \in DOMAIN heap : heap[c] \in ChunkOver(RootTag)
    BY ONLY <2>2, LenProperties, ElementOfSeq
  <2>4. heap \in Seq(ChunkOver(PaletteTags(heap)))
    <3>1. PICK T : T = PaletteTags(heap)
      BY Zenon
    <3>2. ASSUME NEW c \in DOMAIN heap PROVE heap[c] \in ChunkOver(T)
      <4>1. PICK h : h = heap[c]
        BY Zenon
      <4>2. h \in [x : Int, z : Int, blocks : [Cell -> Int], blockStates : [SubChunk -> Seq(RootTag)]]
        BY ONLY <2>3, <4>1, c \in DOMAIN heap DEF ChunkOver
      <4>3. ASSUME NEW s \in SubChunk PROVE h.blockStates[s] \in Seq(T)
        <5>1. PICK q : q = h.blockStates[s]
          BY Zenon
        <5>2. q \in Seq(RootTag)
          BY ONLY <4>2, <5>1, s \in SubChunk
        <5>3. \A e \in DOMAIN q : q[e] \in T
          <6> SUFFICES ASSUME NEW e \in DOMAIN q PROVE q[e] \in T
            OBVIOUS
          <6>1. q[e] \in {heap[c].blockStates[s][kk] : kk \in DOMAIN heap[c].blockStates[s]}
            BY <4>1, <5>1
          <6> DEFINE Sub(x, kk) == {heap[x].blockStates[kk][j] : j \in DOMAIN heap[x].blockStates[kk]}
          <6>2. q[e] \in UNION {Sub(c, kk) : kk \in SubChunk}
            BY ONLY <6>1, s \in SubChunk
          <6>3. q[e] \in UNION {UNION {Sub(x, kk) : kk \in SubChunk} : x \in DOMAIN heap}
            BY ONLY <6>2, c \in DOMAIN heap
          <6> QED BY ONLY <3>1, <6>3 DEF PaletteTags
        <5>4. DOMAIN q = 1 .. Len(q) /\ Len(q) \in Nat
          BY ONLY <5>2, LenProperties
        <5>5. q \in Seq(T)
          BY ONLY <5>2, <5>3, <5>4
        <5> QED BY ONLY <5>1, <5>5
      <4>4. h.blockStates \in [SubChunk -> Seq(T)]
        BY ONLY <4>2, <4>3
      <4>5. h \in ChunkOver(T)
        BY ONLY <4>2, <4>4 DEF ChunkOver
      <4> QED BY ONLY <4>1, <4>5
    <3>3. heap \in Seq(ChunkOver(T))
      BY ONLY <2>2, <2>3, <3>2
    <3> QED BY ONLY <3>1, <3>3
  <2>5. ASSUME NEW c \in DOMAIN heap, NEW at \in Cell
        PROVE  heap[c].blocks[at] < Len(heap[c].blockStates[at[2] \div Edge])
    <3>1. heap[c].blocks[at] \in Int
      BY ONLY <2>3, c \in DOMAIN heap, at \in Cell DEF ChunkOver
    <3>2. at[2] \div Edge \in SubChunk
      BY at \in Cell, CellFacts
    <3>3. Len(heap[c].blockStates[at[2] \div Edge]) \in Nat
      <4>1. PICK s \in SubChunk : s = at[2] \div Edge
        BY ONLY <3>2
      <4>2. heap[c].blockStates[s] \in Seq(RootTag)
        BY ONLY <2>3, c \in DOMAIN heap, s \in SubChunk DEF ChunkOver
      <4> QED BY ONLY <4>1, <4>2, LenProperties
    <3>4. heap[c].blocks[at] >= 0 => heap[c].blocks[at] < Len(heap[c].blockStates[at[2] \div Edge])
      BY ONLY <2>1, c \in DOMAIN heap, at \in Cell, Zenon DEF PaletteIndexInBounds
    <3>5. PICK b, n : b = heap[c].blocks[at] /\ n = Len(heap[c].blockStates[at[2] \div Edge])
      BY Zenon
    <3> QED BY ONLY <3>1, <3>3, <3>4, <3>5
  <2>6. ASSUME NEW d \in ChunkDimension, NEW id \in DOMAIN world[d]
        PROVE  /\ world[d][id] \in DOMAIN heap
               /\ id = chunkID(heap[world[d][id]].x, heap[world[d][id]].z)
               /\ \A e \in ChunkDimension \ {d} : findChunk(world, id, e) # world[d][id]
    <3>1. world[d][id] \in DOMAIN heap
      BY ONLY <2>2, <2>3, d \in ChunkDimension, id \in DOMAIN world[d]
    <3> QED BY <2>1, <3>1, Zenon DEF ChunksOwnedOnce
  <2>7. ASSUME NEW c \in DOMAIN heap
        PROVE  \E d \in ChunkDimension : \A e \in ChunkDimension :
                 findChunk(world, chunkID(heap[c].x, heap[c].z), e) = c <=> e = d
    <3>1. PICK id : id = chunkID(heap[c].x, heap[c].z)
      BY Zenon
    <3>2. PICK d \in ChunkDimension : findChunk(world, id, d) = c
      BY <2>1, <3>1, Zenon DEF ChunksOwnedOnce
    <3>3. c # nullptr
      BY ONLY <2>3, c \in DOMAIN heap DEF nullptr
    <3>4. id \in DOMAIN world[d] /\ world[d][id] = c
      BY <3>2, <3>3, Zenon DEF findChunk
    <3>5. \A e \in ChunkDimension \ {d} : findChunk(world, id, e) # c
      BY <2>6, <3>4, Zenon
    <3> QED BY <3>1, <3>2, <3>5
  <2> QED BY ONLY <2>2, <2>4, <2>5, <2>6, <2>7, Zenon DEF Loaded
<1> QED BY <1>1, WorldInvariant, PTL
================================================================================
