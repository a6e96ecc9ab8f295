------------------------------ MODULE WorldData ------------------------------
(***************************************************************************)
(* Class WorldData (WorldData.h, WorldData.cpp): the three maps from a     *)
(* chunk id "chunkX|chunkZ" to a chunk, one per dimension, and the lookup  *)
(* of a block by its world coordinates.                                    *)
(*                                                                         *)
(* A Chunk* is an index into the sequence of chunks allocated so far (the  *)
(* heap); 0 is nullptr.  An id is the pair of coordinates it is printed    *)
(* from: decimal numbers with a "|" between them denote one pair only.     *)
(***************************************************************************)
EXTENDS Chunk

nullptr == 0

ChunkDimension == {"OVERWORLD", "NETHER", "ENDWORLD"}

chunkID(chunkX, chunkZ) == <<chunkX, chunkZ>>

EmptyWorld == [d \in ChunkDimension |-> [id \in {} |-> nullptr]]

\* WorldData::addChunk: the map entry for the chunk's own coordinates.
addChunk(world, chunk, ptr, dimension) ==
  LET id == chunkID(chunk.x, chunk.z)
      m  == world[dimension]
  IN  [world EXCEPT ![dimension] =
         [j \in DOMAIN m \cup {id} |-> IF j = id THEN ptr ELSE m[j]]]

\* WorldData::findChunk.
findChunk(world, id, dimension) ==
  IF id \in DOMAIN world[dimension] THEN world[dimension][id] ELSE nullptr

\* floor(x / 16.0), and the offset of x in its chunk.
ChunkOf(x) == x \div Edge
RawOf(x)   == x - Edge * ChunkOf(x)

\* WorldData::getBlockChunk
getBlockChunk(world, x, y, z, dimension) ==
  findChunk(world, chunkID(ChunkOf(x), ChunkOf(z)), dimension)

\* WorldData::getBlock, as the set of Blocks the call may return.
worldGetBlock(world, heap, x, y, z, dimension) ==
  LET blockChunk == getBlockChunk(world, x, y, z, dimension)
  IN  IF blockChunk = nullptr
      THEN {NoBlock}
      ELSE chunkGetBlock(heap[blockChunk], RawOf(x), y, RawOf(z))

\* A world as a scan leaves it: each chunk in one map, under its own coordinates, and
\* every state of a block an index into the palette of its sub-chunk.
PaletteTags(heap) ==
  UNION {UNION {{heap[c].blockStates[s][e] : e \in DOMAIN heap[c].blockStates[s]} : s \in SubChunk} :
         c \in DOMAIN heap}
Loaded(world, heap) ==
  /\ heap \in Seq(ChunkOver(PaletteTags(heap))) /\ DOMAIN world = ChunkDimension
  /\ \A c \in DOMAIN heap : \A at \in Cell : heap[c].blocks[at] < Len(heap[c].blockStates[at[2] \div Edge])
  /\ \A c \in DOMAIN heap : \E d \in ChunkDimension : \A e \in ChunkDimension :
       findChunk(world, chunkID(heap[c].x, heap[c].z), e) = c <=> e = d
  /\ \A d \in ChunkDimension : \A id \in DOMAIN world[d] :
       /\ world[d][id] \in DOMAIN heap
       /\ id = chunkID(heap[world[d][id]].x, heap[world[d][id]].z)

==============================================================================
