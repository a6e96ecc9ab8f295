----------------------------- MODULE ParseBedrock -----------------------------
(***************************************************************************)
(* parseBedrock (ParseBedrock.cpp): one scan over the LevelDB records of a *)
(* Bedrock world that decodes every sub-chunk record into class WorldData. *)
(*                                                                         *)
(* Keys and values are those of SubChunkFormat, and need not be sound.     *)
(* currOffset and the offsets derived from it count items, from 0.         *)
(* Reading an item the value does not have fails the assertion of          *)
(* Slice::operator[].                                                      *)
(***************************************************************************)
EXTENDS SubChunkFormat

CONSTANT
  Databases   \* the record sequences a LevelDB iterator may deliver

\* LevelDB delivers each key once.
ASSUME DatabaseAssumption ==
  \A d \in Databases :
    /\ d \in Seq(Record)
    /\ \A m, n \in DOMAIN d : d[m].key = d[n].key => m = n

VARIABLES
  db,              \* the records, in iterator order
  it,              \* the iterator lit: index of the current record
  unread,          \* ghost: records the iterator passed over after a read error
  pc,              \* where parseBedrock is; see Phase
  world,           \* the argument WorldData &world
  heap,            \* the chunks allocated by "new Chunk"
  totalChunks,
  currChunk,
  currOffset,
  storageNum,
  i,               \* the block storage being read
  bitsPerBlock,
  blockDataOffset,
  paletteOffset,
  paletteSize,
  p,               \* the palette entry being read
  pos              \* the block being read

storeVars   == <<world, heap, totalChunks>>
recordVars  == <<currChunk, storageNum, i>>
storageVars == <<bitsPerBlock, blockDataOffset, paletteOffset, paletteSize, p, pos>>
vars == <<db, it, unread, pc, storeVars, recordVars, currOffset, storageVars>>

(***************************************************************************)
(* The scan is over in the last four phases: parseBedrock returned true or *)
(* false, an assertion or a trap ended the process, or it ran into         *)
(* undefined behaviour, after which nothing is said about it.              *)
(***************************************************************************)
Terminal == {"loaded", "failed", "aborted", "undefined"}
Phase    == {"open", "iterate", "storage", "palette", "blocks"} \cup Terminal

\* A heap-allocated NBTTag: which "new NBTTag" made it, and its contents.
RootTag == [rec : Nat, storage : Nat, entry : Nat, nbt : Int]

-----------------------------------------------------------------------------
(* What the code reads from the current key and value.                       *)

signedChar(b) == IF b > 127 THEN b - 256 ELSE b

\* Four little-endian bytes of a key, the last one with the sign.
littleEndian(b0, b1, b2, b3) == b0 + 256 * b1 + 65536 * b2 + 16777216 * signedChar(b3)

parseInt32(key, offset) ==
  littleEndian(key[offset + 1], key[offset + 2], key[offset + 3], key[offset + 4])

\* A key that ends in the sub-chunk tag 0x2F and the sub-chunk index.
isSubChunkKey(key) ==
  \/ Len(key) = 10 /\ key[9] = 47
  \/ Len(key) = 14 /\ key[13] = 47

\* What is said about the ghost of a record: a sub-chunk key, also of a record with a
\* damaged or foreign value, is one the game writes; an intact record is encoded.
ASSUME FormatAssumption ==
  \A d \in Databases : \A m \in DOMAIN d :
    LET w == d[m].written
    IN  /\ isSubChunkKey(d[m].key) =>
             d[m].key = SubChunkKey(w.dim, w.x, d[m].key[Len(d[m].key)], w.z)
        /\ w.intact => Encoded(d[m])

\* Overworld keys carry no region.  (Faulty variant: only keys of 13 bytes do.)
keyDimension_Short(key) ==
  IF Len(key) # 13 THEN "OVERWORLD"
  ELSE IF parseInt32(key, 8) = 1 THEN "NETHER" ELSE "ENDWORLD"
keyDimension(key) ==
  IF Len(key) # 14 THEN "OVERWORLD"
  ELSE IF parseInt32(key, 8) = 1 THEN "NETHER" ELSE "ENDWORLD"

k == db[it].key
v == db[it].value

chunkX    == parseInt32(k, 0)
chunkY    == signedChar(k[Len(k)])
chunkZ    == parseInt32(k, 4)
dimension == keyDimension(k)

Readable(offset) == offset < Len(v)
\* parseNBTTag comes to the end of the tag there.
Legible(offset)  == Readable(offset) /\ offset < db[it].legible
Item(offset)     == v[offset + 1]

blocksPerWord(bits) == WordBits \div bits
\* ceil(4096.0 / blocksPerWord).
numWords(bits) == (BlockCount + blocksPerWord(bits) - 1) \div blocksPerWord(bits)
\* The blocks the two nested loops visit: whole words, so possibly more than
\* the sub-chunk has.
Slots(bits) == numWords(bits) * blocksPerWord(bits)

\* word >> n for an int32_t: an arithmetic shift, in two halves so that no
\* power of two leaves the 32-bit range.
ShiftRight(word, n) == (word \div 2^(n \div 2)) \div 2^(n - n \div 2)

\* The palette index at a position of a word, and the state stored for it.
\* (Faulty variant: one index too many is taken for good.)
Field(word, n, bits) == ShiftRight(word, (n % blocksPerWord(bits)) * bits) % 2^bits
StateOf_OneMore(index) == IF index > paletteSize THEN Corrupt ELSE index
StateOf(index) == IF index > paletteSize - 1 THEN Corrupt ELSE index

\* The coordinates of a position.  (Faulty variants: a shift by 4 for x, and x
\* without its mask.)
rawX_Shift4(n) == (n \div Edge) % Edge
rawX_NoMask(n) == n \div (Edge * Edge)
rawX(n) == (n \div (Edge * Edge)) % Edge
rawY(n) == n % Edge
rawZ(n) == (n \div Edge) % Edge

-----------------------------------------------------------------------------

Init ==
  /\ db \in Databases
  /\ it = 1
  /\ unread = {}
  /\ pc = "open"
  /\ world = EmptyWorld
  /\ heap = << >>
  /\ totalChunks = 0
  /\ currChunk = nullptr
  /\ currOffset = 0
  /\ storageNum = 0
  /\ i = 0
  /\ bitsPerBlock = 1
  /\ blockDataOffset = 0
  /\ paletteOffset = 0
  /\ paletteSize = 0
  /\ p = 0
  /\ pos = 0

Goto(phase) == pc' = phase

\* The process, or parseBedrock, ends here without touching its data again.
StopWith(phase) ==
  /\ Goto(phase)
  /\ UNCHANGED <<db, it, unread, storeVars, recordVars, currOffset, storageVars>>

\* leveldb::DB::Open, NewIterator and SeekToFirst succeed.
Open ==
  /\ pc = "open"
  /\ Goto("iterate")
  /\ UNCHANGED <<db, it, unread, storeVars, recordVars, currOffset, storageVars>>

OpenFails ==
  /\ pc = "open"
  /\ StopWith("failed")

AtRecord == pc = "iterate" /\ it <= Len(db)

\* lit->Next() without anything stored: "continue" or a key of another kind.
\* (Faulty variant: one record too far.)
NextRecord_TwoAhead(n) ==
  /\ it' = n + 1
  /\ UNCHANGED <<db, pc, storeVars, recordVars, currOffset, storageVars>>
NextRecord(n) ==
  /\ it' = n
  /\ UNCHANGED <<db, pc, storeVars, recordVars, currOffset, storageVars>>

IgnoreRecord ==
  /\ AtRecord
  /\ ~isSubChunkKey(k)
  /\ NextRecord(it + 1)
  /\ UNCHANGED unread

SkipFormat ==
  /\ AtRecord
  /\ isSubChunkKey(k)
  /\ Readable(0)
  /\ Item(0) # 8
  /\ NextRecord(it + 1)
  /\ UNCHANGED unread

(***************************************************************************)
(* A block of the table that cannot be read or inflated: LevelDB's         *)
(* iterator keeps the error in status(), which parseBedrock never asks     *)
(* for, and goes on with the records behind the block.                     *)
(***************************************************************************)
ReadError ==
  /\ AtRecord
  /\ \E n \in it + 1 .. Len(db) + 1 :
       /\ NextRecord(n)
       /\ unread' = unread \cup (it .. n - 1)

BeginSubChunk ==
  /\ AtRecord
  /\ isSubChunkKey(k)
  /\ Readable(1)
  /\ Item(0) = 8
  /\ LET found == findChunk(world, chunkID(chunkX, chunkZ), dimension)
         new   == Len(heap) + 1
         fresh == NewChunk(chunkX, chunkZ)
     IN \/ /\ found = nullptr
           /\ totalChunks' = totalChunks + 1
           /\ heap' = Append(heap, fresh)
           /\ world' = addChunk(world, fresh, new, dimension)
           /\ currChunk' = new
        \/ /\ found # nullptr
           /\ currChunk' = found
           /\ UNCHANGED storeVars
  /\ storageNum' = Item(1)
  /\ currOffset' = 2
  /\ i' = 0
  /\ Goto("storage")
  /\ UNCHANGED <<db, it, unread, storageVars>>

\* The value ends before the format or the number of storages.
TruncatedHeader ==
  /\ AtRecord
  /\ isSubChunkKey(k)
  /\ Readable(0) => Item(0) = 8
  /\ ~Readable(1)
  /\ StopWith("aborted")

EndSubChunk ==
  /\ pc = "storage"
  /\ i >= storageNum
  /\ it' = it + 1
  /\ Goto("iterate")
  /\ UNCHANGED <<db, unread, storeVars, recordVars, currOffset, storageVars>>

AtStorage == pc = "storage" /\ i < storageNum

storageVersion == Item(currOffset)
storageBits    == storageVersion \div 2
sizeOffset     == currOffset + 1 + numWords(storageBits)

\* Reads the storage's header and jumps over the words to the palette.
BeginStorage ==
  /\ AtStorage
  /\ Readable(currOffset)
  /\ storageVersion % 2 = 0
  /\ storageBits \in 1 .. WordBits - 1
  /\ Readable(sizeOffset)
  /\ bitsPerBlock' = storageBits
  /\ blockDataOffset' = currOffset + 1
  /\ paletteSize' = Item(sizeOffset)
  /\ currOffset' = sizeOffset + 1
  /\ p' = 0
  /\ Goto("palette")
  /\ UNCHANGED <<db, it, unread, storeVars, recordVars, paletteOffset, pos>>

\* "Block serialized for runtime!": parseBedrock returns false.
RuntimeStorage ==
  /\ AtStorage
  /\ Readable(currOffset)
  /\ storageVersion % 2 = 1
  /\ StopWith("failed")

\* The value ends inside the header or the words, or 32 / bitsPerBlock traps.
BrokenStorage ==
  /\ AtStorage
  /\ \/ ~Readable(currOffset)
     \/ /\ Readable(currOffset)
        /\ storageVersion % 2 = 0
        /\ \/ storageBits = 0
           \/ storageBits \in 1 .. WordBits - 1 /\ ~Readable(sizeOffset)
  /\ StopWith("aborted")

(***************************************************************************)
(* A shift as wide as the word or wider, or a negative width: beyond -32   *)
(* the number of words is not an int; from -32 to -1 it is negative and    *)
(* currOffset moves backwards, which fails an assertion or reads bytes     *)
(* again.  Neither is followed any further.                                *)
(***************************************************************************)
UndefinedStorage ==
  /\ AtStorage
  /\ Readable(currOffset)
  /\ storageVersion % 2 = 0
  /\ storageBits \notin 0 .. WordBits - 1
  /\ StopWith("undefined")

AtEntry == pc = "palette" /\ p < paletteSize

AddPaletteEntry ==
  /\ AtEntry
  /\ Legible(currOffset)
  /\ chunkY \in SubChunk
  /\ LET rootTag == [rec |-> it, storage |-> i, entry |-> p, nbt |-> Item(currOffset)]
     IN  heap' = [heap EXCEPT ![currChunk] = addBlockState(@, chunkY, rootTag)]
  /\ currOffset' = currOffset + 1
  /\ p' = p + 1
  /\ UNCHANGED <<db, it, unread, pc, world, totalChunks, recordVars,
                 bitsPerBlock, blockDataOffset, paletteOffset, paletteSize, pos>>

\* The value ends inside the entry, a name or a number of it lies behind what the
\* int16_t offsets of parseShort and parseLong reach, or its bytes are no tag.
BrokenEntry ==
  /\ AtEntry
  /\ ~Legible(currOffset)
  /\ StopWith("aborted")

\* push_back on a vector that is not there: blockStates[chunkY].
UndefinedPalette ==
  /\ AtEntry
  /\ Legible(currOffset)
  /\ chunkY \notin SubChunk
  /\ StopWith("undefined")

\* Notes the end of the palette and goes back to the words.  (Faulty variant: it
\* does not go back.)
EndPalette_NoRewind ==
  /\ pc = "palette"
  /\ p >= paletteSize
  /\ paletteOffset' = currOffset
  /\ pos' = 0
  /\ Goto("blocks")
  /\ UNCHANGED <<db, it, unread, storeVars, recordVars, currOffset,
                 bitsPerBlock, blockDataOffset, paletteSize, p>>
EndPalette ==
  /\ pc = "palette"
  /\ p >= paletteSize
  /\ paletteOffset' = currOffset
  /\ currOffset' = blockDataOffset
  /\ pos' = 0
  /\ Goto("blocks")
  /\ UNCHANGED <<db, it, unread, storeVars, recordVars,
                 bitsPerBlock, blockDataOffset, paletteSize, p>>

AtBlock   == pc = "blocks" /\ pos < Slots(bitsPerBlock)
firstSlot == pos % blocksPerWord(bitsPerBlock) = 0
\* The word of this block: read now, or the one read last.
word      == Item(IF firstSlot THEN currOffset ELSE currOffset - 1)
\* The height of the block.  (Faulty variant: the sub-chunk index is not scaled.)
blockY_Unscaled == rawY(pos) + chunkY
blockY    == rawY(pos) + Edge * chunkY

NextBlock ==
  /\ currOffset' = IF firstSlot THEN currOffset + 1 ELSE currOffset
  /\ pos' = pos + 1
  /\ UNCHANGED <<db, it, unread, pc, world, totalChunks, recordVars,
                 bitsPerBlock, blockDataOffset, paletteOffset, paletteSize, p>>

\* The int arithmetic on the state overflows: the mask (1 << 31) - 1, and
\* paletteSize - 1 for the smallest int.
StateOverflows == bitsPerBlock = WordBits - 1 \/ paletteSize = -2147483647 - 1

PlaceBlock ==
  /\ AtBlock
  /\ i = 0
  /\ ~StateOverflows
  /\ <<rawX(pos), blockY, rawZ(pos)>> \in Cell
  /\ heap' = [heap EXCEPT ![currChunk] =
                addBlock(@, StateOf(Field(word, pos, bitsPerBlock)),
                         rawX(pos), blockY, rawZ(pos))]
  /\ NextBlock

\* Storages after the first are read and their blocks thrown away.
DiscardBlock ==
  /\ AtBlock
  /\ i > 0
  /\ NextBlock
  /\ UNCHANGED heap

\* An overflow, after which the block may keep a state that the palette does not
\* have, or a store outside the vectors of Chunk::blocks.
UndefinedBlock ==
  /\ AtBlock
  /\ i = 0
  /\ StateOverflows \/ <<rawX(pos), blockY, rawZ(pos)>> \notin Cell
  /\ StopWith("undefined")

EndStorage ==
  /\ pc = "blocks"
  /\ pos >= Slots(bitsPerBlock)
  /\ currOffset' = paletteOffset
  /\ i' = i + 1
  /\ Goto("storage")
  /\ UNCHANGED <<db, it, unread, storeVars, currChunk, storageNum, storageVars>>

\* lit->Valid() is false: the iterator and the database are closed.
Finish ==
  /\ pc = "iterate"
  /\ it > Len(db)
  /\ StopWith("loaded")

Done ==
  /\ pc \in Terminal
  /\ UNCHANGED vars

Next ==
  \/ Open \/ OpenFails
  \/ IgnoreRecord \/ SkipFormat \/ ReadError
  \/ BeginSubChunk \/ TruncatedHeader \/ EndSubChunk
  \/ BeginStorage \/ RuntimeStorage \/ BrokenStorage \/ UndefinedStorage
  \/ AddPaletteEntry \/ BrokenEntry \/ UndefinedPalette \/ EndPalette
  \/ PlaceBlock \/ DiscardBlock \/ UndefinedBlock \/ EndStorage
  \/ Finish \/ Done

Spec == Init /\ [][Next]_vars

-----------------------------------------------------------------------------
(* Properties.                                                               *)

\* Every variable of the scan keeps its type; the iterator stays within the
\* records and one past them, and currChunk is null or an allocated chunk.
TypeOK ==
  /\ db \in Seq(Record)
  /\ it \in 1 .. Len(db) + 1
  /\ unread \in SUBSET (1 .. Len(db))
  /\ pc \in Phase
  /\ pc \in {"storage", "palette", "blocks"} => it <= Len(db) /\ currChunk # nullptr
  /\ DOMAIN world = ChunkDimension
  /\ \A d \in ChunkDimension : world[d] \in [DOMAIN world[d] -> 1 .. Len(heap)]
  /\ heap \in Seq(ChunkOver(RootTag))
  /\ totalChunks \in Nat
  /\ currChunk \in 0 .. Len(heap)
  /\ currOffset \in Nat
  /\ storageNum \in Int
  /\ i \in Nat
  /\ bitsPerBlock \in 1 .. WordBits - 1
  /\ blockDataOffset \in Nat
  /\ paletteOffset \in Nat
  /\ paletteSize \in Int
  /\ p \in Nat
  /\ pos \in Nat

\* Every stored state that is not negative is an index of the palette of its
\* own sub-chunk, so the unchecked blockStates[y / 16][state] of getBlock, and
\* with it every tag the commands dereference, is inside the vector, for any
\* record behind which the scan is not in undefined behaviour.
PaletteIndexInBounds ==
  \A c \in DOMAIN heap : \A cell \in Cell :
    LET s == heap[c].blocks[cell]
    IN  s >= 0 => s < Len(heap[c].blockStates[cell[2] \div Edge])

\* WorldData::freeMemory reaches every chunk that was allocated exactly once:
\* the chunk sits in one map only, under the id of its own coordinates, and no
\* addChunk has ever replaced another chunk.
ChunksOwnedOnce ==
  /\ \A c \in DOMAIN heap : \E d \in ChunkDimension :
       findChunk(world, chunkID(heap[c].x, heap[c].z), d) = c
  /\ \A d \in ChunkDimension : \A id \in DOMAIN world[d] :
       /\ chunkID(heap[world[d][id]].x, heap[world[d][id]].z) = id
       /\ \A e \in ChunkDimension \ {d} : findChunk(world, id, e) # world[d][id]
  /\ totalChunks = Len(heap)

\* The records the scan has stored so far: format 8, and delivered.
Stored == {m \in (1 .. it - 1) \ unread :
             isSubChunkKey(db[m].key) /\ Head(db[m].value) = 8}

\* Between two records the world has a chunk for exactly the columns of the
\* records stored so far: a record of another format leaves no empty chunk
\* behind, and no dimension shadows another one.
ColumnsMatchRecords ==
  pc = "iterate" =>
    UNION {{<<d, id>> : id \in DOMAIN world[d]} : d \in ChunkDimension}
    = {<<db[m].written.dim, chunkID(db[m].written.x, db[m].written.z)>> : m \in Stored}

Intact(m) == db[m].written.intact

\* A sub-chunk as the game writes it ends the scan only with a palette entry beyond
\* the 16-bit offsets of the NBT parser: all other offsets stay inside its value,
\* through every storage, and all indices inside the vectors.  (A failed scan
\* without a chunk is the database that could not be opened.)
IntactStopsOnlyThere ==
  (pc \in {"aborted", "undefined"} \/ (pc = "failed" /\ heap # << >>)) =>
    ~Intact(it) \/ (pc = "aborted" /\ currOffset >= db[it].legible)

\* Between two records the world is what the records say: a chunk for each column
\* and no other, each owned by one map (world.addChunk, findChunk), and no sound
\* record has ended the scan, but for an entry too far back in its value.
WorldMatchesRecords == ChunksOwnedOnce /\ ColumnsMatchRecords /\ IntactStopsOnlyThere

\* What world.getBlock shows at block n (XZY order) of the sub-chunk that record
\* m was written for: the contents of a tag, or the negative state.
Shown(m, n) ==
  LET w == db[m].written
  IN  {IF b.state >= 0 THEN b.tags[1].nbt ELSE b.state :
         b \in worldGetBlock(world, heap,
                             Edge * w.x + (n \div (Edge * Edge)),
                             Edge * w.y + (n % Edge),
                             Edge * w.z + ((n \div Edge) % Edge), w.dim)}

\* The blocks of a sub-chunk that the padding of its last word lands on.
Padded(m) == Slots(db[m].value[3] \div 2) - BlockCount

\* After the scan of its record, world.getBlock returns for every block of a
\* sub-chunk the tag the game wrote for it, whatever other records, dimensions
\* and storages were read in between; except for the first blocks, as many as
\* the last word has padding fields.
GetBlockFaithful ==
  pc = "iterate" =>
    \A m \in Stored : Intact(m) =>
      \A n \in Padded(m) .. BlockCount - 1 : Shown(m, n) = {db[m].written.nbt[n]}

\* ParseBedrock.cpp:211 says that the key describes "a 16x16x16 sub chunk of
\* terrain" and line 310 that "Blocks are stored in XZY order": the same without
\* the exception.
GetBlockExact ==
  pc = "iterate" =>
    \A m \in Stored : Intact(m) =>
      \A n \in 0 .. BlockCount - 1 : Shown(m, n) = {db[m].written.nbt[n]}

\* The loop over the block words stays inside the value although it has no check
\* of its own: what it reads was jumped over on the way to the palette size.
WordsReadable ==
  AtBlock => Readable(IF firstSlot THEN currOffset ELSE currOffset - 1)

\* The unchecked vector indices of addBlock and addBlockState go wrong only for
\* a sub-chunk index outside the column, never for a position, the padding fields
\* included; all else that is undefined is a width that is not a shift count, and
\* the overflows of a width of 31 and of the smallest palette size.
UndefinedOnlyOutsideColumn ==
  pc = "undefined" =>
    chunkY \notin SubChunk \/ storageBits \notin 0 .. WordBits - 1 \/ StateOverflows

\* A step of the scan changes blocks and palettes of the sub-chunk of its own
\* record only, and palettes only grow at the end: no index stored earlier
\* changes its meaning.
SubChunkIsolation ==
  [][\A c \in DOMAIN heap :
       LET own == c = findChunk(world, chunkID(chunkX, chunkZ), dimension)
       IN /\ \A cell \in Cell :
               heap'[c].blocks[cell] # heap[c].blocks[cell]
                 => own /\ cell[2] \div Edge = chunkY
          /\ \A s \in SubChunk :
               LET old == heap[c].blockStates[s]
                   new == heap'[c].blockStates[s]
               IN  /\ new # old => own /\ s = chunkY
                   /\ Len(old) <= Len(new)
                   /\ old = SubSeq(new, 1, Len(old))]_heap

\* LevelDB's guide (leveldb-mcpe/doc/index.md:154) ends a scan with
\* "assert(it->status().ok());  // Check for any errors found during the scan":
\* parseBedrock returns true only if no read error cut records out.
LoadedMeansReadAll == pc = "loaded" => unread = {}

-----------------------------------------------------------------------------
(* The inductive strengthening of the invariants, for the proofs.            *)

Storing == pc \in {"storage", "palette", "blocks"}

\* Where the scan is in the current value: the words it jumped over are there,
\* and in the block loop currOffset is the word of block pos, or the one after.
CursorInv ==
  /\ Storing => isSubChunkKey(k)
  /\ pc \in {"palette", "blocks"} =>
       blockDataOffset + numWords(bitsPerBlock) < Len(v)
  /\ pc = "blocks" =>
       currOffset = blockDataOffset + (pos \div blocksPerWord(bitsPerBlock))
                      + (IF firstSlot THEN 0 ELSE 1)

\* The palette entries read so far are in the palette of the sub-chunk; in the
\* block loop the whole palette is.
PaletteInv ==
  chunkY \in SubChunk =>
    /\ pc = "palette" => p <= Len(heap[currChunk].blockStates[chunkY])
    /\ pc = "blocks" => paletteSize <= Len(heap[currChunk].blockStates[chunkY])

ScanInv == TypeOK /\ CursorInv /\ (Storing => PaletteInv) /\ PaletteIndexInBounds

==============================================================================
