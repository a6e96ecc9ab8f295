-------------------------------- MODULE Chunk --------------------------------
(***************************************************************************)
(* Class Chunk (Chunk.h, Chunk.cpp): one column of the world.  A column    *)
(* holds, for every block, an index into the palette of the sub-chunk the  *)
(* block is in, and one palette (a growing vector of NBT tags) per         *)
(* sub-chunk.                                                              *)
(*                                                                         *)
(* A chunk is a value; the operations below return the chunk they leave    *)
(* behind, or the set of results they may return.  The code's literals 16, *)
(* 16 and 256 are Edge, SubChunks and Height here, so that small columns   *)
(* can be checked and every size can be proved about.                      *)
(***************************************************************************)
EXTENDS Integers, Sequences

CONSTANTS
  Edge,       \* blocks along one edge of a sub-chunk (16 in the code)
  SubChunks   \* sub-chunks stacked in a column (16 in the code)

ASSUME ChunkAssumption ==
  /\ Edge \in Nat \ {0}
  /\ SubChunks \in Nat \ {0}

Height   == Edge * SubChunks
Side     == 0 .. Edge - 1
SubChunk == 0 .. SubChunks - 1

\* The indices of vector "blocks": rawX, y and rawZ.
Cell == Side \X (0 .. Height - 1) \X Side

\* The chunks whose palettes hold tags of the set T.
ChunkOver(T) ==
  [x : Int, z : Int, blocks : [Cell -> Int], blockStates : [SubChunk -> Seq(T)]]

\* State of a block nobody wrote, and of one whose index is not in its palette.
Unset   == -1
Corrupt == -2

-----------------------------------------------------------------------------

\* Chunk::Chunk, and the two assignments every caller makes to a new chunk.
NewChunk(x, z) ==
  [x |-> x, z |-> z,
   blocks      |-> [c \in Cell |-> Unset],
   blockStates |-> [s \in SubChunk |-> << >>]]

\* Chunk::addBlock, for indices inside the vector.
addBlock(chunk, state, rawX, y, rawZ) ==
  [chunk EXCEPT !.blocks[<<rawX, y, rawZ>>] = state]

\* Chunk::addBlockState, for a sub-chunk inside the vector.
addBlockState(chunk, y, tag) ==
  [chunk EXCEPT !.blockStates[y] = Append(@, tag)]

\* The results of getBlock that carry no tag: the failure callers test for, a
\* corrupt block, and a tag pointer read from beyond the vectors.
NoBlock      == [state |-> Unset, tags |-> << >>]
CorruptBlock == [state |-> Corrupt, tags |-> << >>]
WildBlock    == [state |-> 0, tags |-> << >>]

\* The test of the bounds in getBlock.  (Faulty variant: no upper bound for y.)
outOfBounds_NoTop(rawX, y, rawZ) == rawX \notin Side \/ rawZ \notin Side \/ y < 0
outOfBounds(rawX, y, rawZ) == rawX \notin Side \/ rawZ \notin Side \/ y < 0 \/ y > Height

\* Chunk::getBlock, as the set of Blocks the call may return.  The bounds test
\* lets y = Height through; the int read there is whatever lies behind the
\* vector: negative by luck (only -2 is told apart from the others), or the index
\* of a wild tag pointer.
chunkGetBlock(chunk, rawX, y, rawZ) ==
  IF outOfBounds(rawX, y, rawZ)
  THEN {NoBlock}
  ELSE IF y >= Height
  THEN {NoBlock, CorruptBlock, WildBlock}
  ELSE LET s == chunk.blocks[<<rawX, y, rawZ>>] IN
       {[state |-> s,
         tags  |-> IF s >= 0 THEN <<chunk.blockStates[y \div Edge][s + 1]>>
                             ELSE << >>]}

==============================================================================
