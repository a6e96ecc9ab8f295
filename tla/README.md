# TLA+ models of ChunkViewer and the database it reads

ChunkViewer loads the LevelDB database of a Minecraft Bedrock 1.17.0 world into
memory and answers commands about it: `what block` prints the NBT tag of one
block, `graph block` writes a jgraph picture of a vertical slice through one
chunk. The repository carries its database, `leveldb-mcpe/`, and the compressor of
the database's blocks, `snappy/`. This directory holds TLA+ specifications of the
three, TLC configurations that check them on small instances, and TLAPS proofs of
what holds of the scan of the database for every instance.

## The system

ChunkViewer itself is one thread in one process:

| Part | State | Operations | Used by |
|------|-------|------------|---------|
| `Chunk` (Chunk.cpp) | `x`, `z`; `blocks[16][16][256]`, an index per block; `blockStates[16]`, a palette of `NBTTag*` per sub-chunk | constructor, `addBlock`, `addBlockState`, `getBlock`, `freeMemory` | `parseBedrock`, `WorldData`, `drawSlice` |
| `WorldData` (WorldData.cpp) | three maps, one per dimension, from `"x|z"` to `Chunk*` | `addChunk`, `findChunk`, `getBlock`, `getBlockChunk`, `freeMemory` | `parseBedrock`, `main` |
| `parseBedrock` (ParseBedrock.cpp:186) | the iterator, the current chunk, `currOffset` and the offsets derived from it, the counters of five nested loops | one scan over all records | `main`, once, before the first prompt |
| NBT parser (ParseBedrock.cpp:6-183) | an offset into a value | `parseShort`, `parseLong`, `parseNBTPayload`, `parseNBTTag` | `parseBedrock`, once per palette entry |
| `NBTTag` (NBTTag.cpp) | a name, a payload, a map of inner tags | `addInnerTag`, `findInnerTag`, `getBlockType`, `printInnerTags`, `freeMemory` | NBT parser, `what`, `drawSlice` |
| Commands (ChunkViewer.cpp, `main`) | the line, `word`, the array `xyz`, the options | `what`, `graph`, `help`, end of input | the user |
| `drawSlice` (ChunkViewer.cpp:53) | two loop counters, the open file | draws one slice | `graph` |

The database below it has threads, files and crashes:

| Part | State | Operations | Used by |
|------|-------|------------|---------|
| `DBImpl` (db_impl.cc) | memtables, the queue of writers, the current log, the state of the background thread, all under `mutex_` | `Write`, `CompactRange`, `SuspendCompaction`, `ResumeCompaction`, `NewIterator`, snapshots, the destructor; `BackgroundCall` | ChunkViewer, through `Open` and `NewIterator` |
| `VersionSet`, `Version` (version_set.cc) | the files of each level, compaction pointers, seek counts, file numbers | `Get`, `PickCompaction`, `CompactRange`, `LogAndApply`, `Recover` | `DBImpl` |
| Logs (log_writer.cc, log_reader.cc) | a block offset; a buffer and its position | `AddRecord`, `ReadRecord` | `DBImpl`, `VersionSet` (manifests) |
| Batches and edits (write_batch.cc, version_edit.cc, coding.cc) | a string | `Put`, `Delete`, `Append`, `Iterate`; `EncodeTo`, `DecodeFrom` | `DBImpl`, `VersionSet` |
| Tables (table/, bloom.cc) | a file of blocks, an index, a filter | `Add`, `Finish`; `Seek`, `InternalGet` | `DBImpl`, `Version` |
| Iterators (db_iter.cc, merger.cc, two_level_iterator.cc) | a position in a tree of iterators, a direction, a status | `Seek`, `SeekToFirst`, `SeekToLast`, `Next`, `Prev` | `parseBedrock`, compactions |
| Memtables (skiplist.h, memtable.cc, arena.cc) | linked nodes in blocks of memory | `Insert`, `Contains`, iterators without a lock | `DBImpl` |
| Cache (cache.cc) | reference-counted entries, two lists, a table | `Insert`, `Lookup`, `Release`, `Erase`, `Prune` | tables and blocks |
| Environments (env_posix.cc, env_win.cc, env_boost.cc, memenv.cc) | open files, buffers, limits, locks, a queue of work | files, `LockFile`, `Schedule` | everything above |
| snappy (snappy.cc) | a stream, a scratch buffer, a writer | `Compress`, `Uncompress` in four forms, `IsValidCompressed` | table blocks |

Within ChunkViewer, interaction is by direct calls. `parseBedrock` fills the
`WorldData` that `main` hands to it; after that the world is only read, until
`freeMemory` at the end of the input. A `Chunk` stores no tags per block but an
index into a palette that another part of the same record filled, so what a command
dereferences was decided many steps before, in another loop. LevelDB is reached
through `Open`, `NewIterator`, `SeekToFirst`, `Valid`, `Next`, `key`, `value`
and `Slice::operator[]`, whose assertion is active: the Makefile does not
define `NDEBUG`.

Within the database, clients and one background thread share the state of `DBImpl`
under one mutex, which is released around every file operation; iterators and
snapshots outlive the versions they were made on; the manifest, the logs, the tables
and `CURRENT` are what a crash leaves.

### What is hard in it

In ChunkViewer nothing runs concurrently and nothing is written back. What is hard:

* **Cursor arithmetic over untrusted lengths.** `currOffset` goes over the words
  to the palette, back to the words and again past the palette, per storage. The
  NBT parser moves a 32-bit offset that two of its helpers take as 16 bits.
* **Packed fields.** With 3, 5 or 6 bits per block a word has spare bits and the
  last word has spare fields. 9281 of the 22072 sub-chunks of format 8 in the
  sample world `db/` use one of these widths.
* **Indices stored now and used later**, **formats and dimensions mixed in key
  order**, **ownership by hand** (nine ways out of the handlers, each with its own
  `delete[]`), **state that outlives a line** (`word` keeps its value when
  `ss >> word` fails), **partial failure** (a block that cannot be read, a file that
  cannot be opened after the old one is removed).

In the database:

* **State read before the mutex is released and used after it**: a compaction works on
  a version that is not the current one when it ends; a writer logs for others.
* **Crashes between any two file operations**, of the process or of the machine.
* **Failures half-way**: a record that may or may not be in a log, a manifest that may
  or may not have been written.
* **Everyone waiting on one condition variable** for a background thread that is
  scheduled in many places, and may be told to stop, to pause or to give up.
* **Lock-free reading** of the skip list; **wake-ups** of the background thread.
* **Margins worked out by hand** in snappy, where copies store 8, 16 or 64 bytes
  where fewer are meant; fragments, restart points and filters in the file formats.

`PROJECT.json` lists these hazards one by one, with the line where each bites
and the properties that watch it.

## Modules

| Module | Models | Role |
|--------|--------|------|
| `Chunk` | Chunk.h, Chunk.cpp | operators on one column |
| `WorldData` | WorldData.h, WorldData.cpp | operators on the maps; extends `Chunk` |
| `NBTTag` | `findInnerTag`, `getBlockType` as commands use them | operators on a tag |
| `SubChunkFormat` | the records the game writes | what `parseBedrock` is compared with; extends `WorldData` |
| `ParseBedrock` | `parseBedrock` | state machine; extends `SubChunkFormat` |
| `ParseBedrockProofs` | | proofs: the scan on any records, damaged ones included, and the world it leaves |
| `NBTTypes` | `enum NBTType` | its numbers |
| `NBTParser` | ParseBedrock.cpp:6-183, NBTTag.cpp | state machine over bytes |
| `NBTEntries` | | entries written by hand, sound and cut |
| `MCParseBedrock` | | the load: the scan, or the parser on one entry |
| `ChunkViewer` | `main`, `drawSlice` | state machine; extends `WorldData`, `NBTTag` |
| `MCChunkViewer` | | its instance |
| `ChunkViewerProofs` | | proofs about `ChunkViewer` |
| `Log` | log_writer.cc, log_reader.cc | state machine over cells |
| `LogProofs` | | proof about `Log` |
| `Records` | write_batch.cc, version_edit.cc, coding.cc | encoders, decoders, and the steps between them |
| `Table` | table/, bloom.cc, dbformat.cc, comparator.cc | builder as a state machine, reader as operators |
| `Iterators` | db_iter.cc, merger.cc, two_level_iterator.cc | state machine over a tree of iterators |
| `Snappy` | snappy.cc | compressor and decoders as operators |
| `MCFormats` | | composes the five: one of them per behaviour (`part`) |
| `Version` | the pure part of version_set.cc | operators on versions |
| `VersionSet` | versions under writes and compactions | state machine; extends `Version` |
| `MCVersionSet` | | its instances |
| `VersionSetProofs` | | proofs about `Version` and `VersionSet` |
| `DBImpl`, `MCDBImpl` | the threads of db_impl.cc | state machine, and its instances |
| `DBImplProofs` | | proofs about `DBImpl` |
| `KVStore` | | what a database promises about durability |
| `Recovery`, `MCRecovery` | the files of a database and their recovery | state machine, shown to implement `KVStore` |
| `RecoveryProofs` | | proofs about `Recovery`, with the refinement |
| `SkipList`, `Arena` | skiplist.h, arena.cc | state machines |
| `MemTable` | memtable.cc | composes the two |
| `LRUCache` | cache.cc, table_cache.cc | state machine |
| `EnvThread`, `EnvLock`, `EnvFiles`, `MemEnv` | env_*.cc, memenv.cc | state machines |
| `MCRuntime` | | composes these: one of them per behaviour (`part`) |
| `MemTableProofs`, `EnvProofs` | | proofs about the memtable, and about `EnvFiles` and `EnvLock` |

Definitions have the names of the code where there is one. `map` in
`PROJECT.json` gives the source lines of each. Operators with a suffix, such as
`rawX_NoMask`, are faulty variants of the operator they precede, one for each
property: put in its place they make the property fail.

A module that composes machines which share no state runs one of them per behaviour:
`part` is chosen in the initial state and the variables of the others stay as they
are. This asks several questions in one run; it says nothing about their interaction,
of which there is none in the code at this level.

### Chunk and WorldData

A chunk is a record; `Edge` and `SubChunks` stand for the two 16s of the code
and `Height` for 256. `chunkGetBlock` returns the *set* of results the code may
return: at y = `Height` the test `y > 256` lets the call through and the value
read behind the vector is arbitrary, so the set has three members (no block, a corrupt
block, a wild tag). A `Chunk*` is an index into the sequence of allocated chunks, 0
the null pointer. A chunk id is the pair it is printed from; `"x|z"` is injective, so
nothing is lost by that. Floor division in TLA+ is what `floor(x / 16.0)` computes,
for negative coordinates too.

### ParseBedrock

A key is the byte string. A value is the sequence of what the code reads from
it: bytes, 32-bit words and sizes, and whole NBT tags, each one item. The header,
the words, the palette size and the palette entries are read through the same
`currOffset` as in the code, and `Readable` is the assertion of
`Slice::operator[]`. Loop bodies are steps of their own: the record (`BeginSubChunk`
... `EndSubChunk`), the storage (`BeginStorage` ... `EndStorage`), the palette entry
(`AddPaletteEntry`), the block (`PlaceBlock`, `DiscardBlock`). Every way the scan may
end is a phase of its own:

| Phase | In the code |
|-------|-------------|
| `loaded` | `return true` |
| `failed` | `return false`: the database does not open; a storage is serialized for runtime |
| `aborted` | the assertion of `Slice::operator[]`, in `parseBedrock` or in the NBT parser, or the division `32 / bitsPerBlock` by zero |
| `undefined` | a vector index out of range, a shift by the width of the word or more, or an int that overflows in lines 319 and 320; nothing is said of what follows |

A palette entry is one item, and whether `parseNBTTag` comes to its end is a number of
the record: `legible`, the items it gets through. A value may be sound and its
`legible` small, since `parseShort` and `parseLong` take 16-bit offsets; the bytes
themselves, and why the parser stops, are in `NBTParser`.

`ReadError` is the iterator passing over a table block it cannot read. `unread`
(what it passed over) and the field `written` of a record (what the game meant by
it) are ghosts: no guard and no other variable depends on them.

What the game meant is defined in `SubChunkFormat`, without the reader's arithmetic: a
value is a sequence of storages, whose beginnings the ghost `storages` lists; a field of
a word is a quotient and a remainder and not a shift and a mask; a block is at its
index in XZY order. `FormatAssumption` says that every sub-chunk key is the game's
encoding of some dimension and coordinates, and that records marked intact are
encoded this way. Records that are not intact may have any value.

### NBTParser

What is one item in `ParseBedrock` is bytes here: one palette entry is read by
`parseNBTTag` and `parseNBTPayload`, which call each other; `stack` has the lists and
compounds being read. Each type is an action, as are `addInnerTag` at the end of an
inner tag and the release of the tree. `Narrow` is the conversion of the offset to
`OffsetBits` bits, 16 in the code. An inner tag of a name that is already there
replaces the earlier one, which is then out of reach of `freeMemory`.

### NBTTag

A root tag is the function from the names of its string tags to their values,
which is all that `getBlockType` and `drawSlice` ask of it. Texts that the code
puts together or takes apart (`"leaves_" + t + "_opaque"`, `substr(10)`) are
sequences of their parts. A search that fails and is followed anyway yields
`NullRead`, which `ChunkViewer` turns into undefined behaviour.

### ChunkViewer

A line is the sequence of its words; `CoordsOf` and `IntOf` are `parseCoords` and
`stoi`, defined on the words these accept. Each read from the line, each flag, each
group of checks, the opening of the file, each block drawn is an action.
`xyzState` says whether the array of `parseCoords` is held, and `files` is the working
directory: what each file of curves and marks contains. `remove` may fail or
succeed, `open` may fail or succeed, and a directory cannot be opened as a file.
`WrapInt` is the 32-bit sum at `IntMax`, whose overflow, at `-ymax` and the greatest int
(ChunkViewer.cpp:364), is undefined in C++ and modelled as the wrap the build makes of it;
`UndefinedCauses` does not count it. The end of the input releases the world.

### Log and Records

A log is a sequence of cells: three for a header, one per payload byte. `AddRecord`
writes a fragment per step; a step may fail half-way or behind all its cells, the trailer
before it may be cut short unnoticed, the process may stop at any cell, the log may be
reopened for more records (`reuse_logs`), and one cell may be damaged. The reader then runs
with every initial offset; its skip or the read of a block may fail (`pc = "failed"`). The checksum in a header is
the checked content itself, so that damage is always seen; collisions are left out.

`Records` is what these carry. Numbers have digits of base `VarintBase` (128) and at most
`Groups32` (5) or `Groups64` (10) of them. Batches are put together by any sequence of
`Put` and `Delete`, joined as `BuildBatchGroup` joins them, cut at the end, and replayed
into a memtable; edits with every field are cut at every place and read. Left out: a batch
shorter than its header of 12 bytes, which its readers refuse at once, and the bits of a last
varint byte that do not fit its integer, which are shifted out.

### Table and Iterators

`Table` builds a table entry by entry: `BlockBuilder` with its restart points and shared
prefixes, the separator keys of the index, `FilterBlockBuilder` with one filter per
`kFilterBase` bytes of the file, Bloom filters bit by bit, blocks stored raw or by a
compressor. Offsets in a block count entries; a file operation may fail after any
number of others. The reader is operators: `Block::Iter` from any seek in both
directions, `InternalGet` with its filters.

`Iterators` has the tree of iterators that `NewIterator` returns: sources are trees of
blocks, an iterator a record of the same shape. All calls, in all orders, with a writer
that inserts into the memtable between them, blocks that cannot be read and keys that
cannot be parsed. `ref` is where the calls should have led.

### Snappy

A stream is a sequence of length bytes, tags, trailers and data. The compressor has its
hash table, its skipping, its literals and its split copies; the decoder its scratch
buffer, its refills, the unrolled loop with its margins, and four writers: array,
vector of buffers, scattered blocks, validator. A writer keeps the bytes it means and
`over`, whether any store or load left its buffer. `ByteBase` is 16 for 256 and
`BlockSize` 100 for 65536; the margins (11, 15, 16, 64) are those of the code.

### Version and VersionSet

A user key is a number, an internal key a user key, a sequence number and a type. A file
is a set of internal keys and counts one byte for each. `Version` has, as operators, what
a version answers and which files a compaction takes: `FindFile`, `Get`,
`GetOverlappingInputs`, `PickLevelForMemTableOutput`, `Finalize`, `PickCompaction`,
`SetupOtherInputs`, `IsBaseLevelForKey`, `ShouldStopBefore`, and the loop of
`DoCompactionWork` as the files it writes. `VersionSet` runs them: writes, memtable
switches and flushes, compactions by size, by seeks and by hand, each from the step
that picks the inputs to the step that installs the outputs, snapshots, reads.
`written` is the history; `sound` remembers whether any version so far had the entries
of a user key in two files of a level.

### DBImpl

A step is what a thread does between two points where it takes, releases or waits under
`mutex_`, or one file operation while the mutex is free. `waiting` is the set of clients
inside a condition variable: they leave it when signalled, so a lost wake-up shows as a
call that never returns. `Write` goes from the queue over the log and the memtable to the pop of its group;
the background thread goes from `BackgroundCall` over the memtable and the level
compaction to `BackgroundCallEnd`. Each file operation may fail. Of the levels only the number of
level-0 files counts.

### Recovery and KVStore

Files are sequences of records with the number that is synced; a crash of the process
keeps all of them, a crash of the machine the synced ones and any number of the next.
The opening is `NewDB`, `SetCurrentFile` in its two steps, `Recover` with `ReuseManifest`,
`RecoverLogFile` per log, `OpenLog`, the manifest; the work is writes with and without sync,
memtable switches, flushes, a level compaction, iterators that pin a version, and
`DeleteObsoleteFiles`. Creating, renaming and deleting a file is taken to be atomic and
to last, which is what the database itself assumes of its environment; `EnvFiles` looks
at that assumption. The records a new file begins with are written with it. Of failing operations
the manifest's add and sync are here; a failing `AddRecord` of a log is in `DBImpl`.

A crash, or a failed append to the manifest, may leave a part of a record at the end of a
file. No reader returns it, and `torn` names these files. A file that is written to behind
such a part is in `spoilt`: what is appended to a log there is found again or not, an edit in a
manifest is not, and opening may fail. This needs `reuse_logs`, without which every opening starts
a new log and a new manifest, and a manifest whose write failed is not written to again;
`ReadsWhatIsThere` has this as a conjunct. The properties promise nothing once something is
`Spoilt`, as the code keeps no promise then (`ReturnedWritesFound`, below).

`KVStore` has three variables: what opening the database would find, what no crash can
take back, and whether it has been `lost`, from when on it promises nothing. `Recovery` implements it
with `store <- Recoverable(FALSE)`, `stable <- Recoverable(MachineCrashes)` and `lost <- Spoilt`:
what the files describe, or their synced parts where the machine may crash. A write is its sequence
number. A number is given out again after a crash of the machine that took the write which had it, and
`KVStore` does not tell the two apart.

### The runtime

`SkipList` has a writer linking a node level by level and a reader that follows links one
load at a time; the links of a new node are unwritten until they are set. `LRUCache` has
clients that look up, load without the mutex on a miss, insert, use and release, with
evictions and prunes at any time. `EnvThread` is the queue of the background thread with
signals before the unlock (Posix) or after it (Windows, Boost). `EnvLock` is `LockFile` and
`UnlockFile` by threads of several processes on top of `fcntl` locks, which belong to
processes. `EnvFiles` has handles, buffers, the limits on mappings and descriptors, the
directory as seen and as on disk, and crashes. `MemEnv` has reference-counted files under
names that change.

## Runs

| Run | Instance | Result |
|-----|----------|--------|
| `scan` | about seventy worlds, and the NBT entries of `NBTEntries` | passes, 10 properties |
| `commands` | two worlds, three lines out of 59, fair | passes, 6 properties |
| `formats` | logs, records, tables, iterators, snappy | passes, 8 properties |
| `version_set` | two user keys, four writes, three levels | passes, 3 properties |
| `db_impl` | two clients, four calls of all kinds, one fault, one suspension, symmetric clients | passes, 3 properties |
| `db_impl_live` | two clients, three calls, one fault, fair | passes, `CallsReturn` |
| `recovery` | four settings of crashes, faults and options | passes, 4 properties |
| `runtime` | seven machines, fair | passes, 5 properties |
| `padding_overrun` | as `scan` | violates `GetBlockExact` |
| `bad_dimension` | one line | violates `BadDimensionEndsQuery` |
| `outside_column` | one line | violates `OutsideIsFailure` |
| `version_set_split` | two user keys, four writes, four levels, two calls | violates `ReadsCorrect` |

### What the passing runs show

Of the load (`scan`):

* `GetBlockFaithful`: `world.getBlock` returns, for each block of each record read so
  far, the tag the game wrote, with the exception of the first blocks of a sub-chunk
  that the padding lands on. The expected tags are computed by `MCParseBedrock` from
  the sub-chunk, by an encoder that shares nothing with the decoder.
* `SubChunkIsolation`: a step changes blocks and palettes of its own sub-chunk only,
  and palettes only grow, so no stored index changes its meaning.
* `PaletteIndexInBounds`, `WordsReadable`, `UndefinedOnlyOutsideColumn`: no record, however
  damaged, leads the scan out of its data, other than by a sub-chunk index outside the
  column, a width that is no shift count, or the overflows at the width 31 and the smallest
  palette size.
* `WorldMatchesRecords`: maps and allocated chunks agree, there is a column for exactly the
  records that were stored, and a sub-chunk as the game writes it ends the scan only at a
  palette entry that the NBT parser does not get through.
* `EntryFaithful`, `TagsFreedOnce`: an entry becomes the tree it stands for if the narrow
  offsets reach its end and no list in it has elements; and any entry is freed, each tag at
  most once. `NBTEntries` writes NBT as it is defined, with list elements that have no name.
* `LoadEnds`: no record and no entry keeps the load running for ever.

Of the commands (`commands`):

* `AnswersMatchLine`: every answer, the messages included, is the one the words of the line
  call for, however many options earlier lines left behind. It is stated by looking at the
  line as a whole, not by following the loop over the words. `ss >> word` leaves `word` as it
  was when the line has no more words, so a short line is read on with its own last word, and
  a blank line is answered as the word held before it would be, alone: `help what` followed
  by a blank line gives "invalid argument". The ghost `held` is that word; it is the one thing
  by which earlier lines reach an answer. What is not fixed is what the file system does
  (`graphed` or `open_failed`) and what is read behind a vector.
* `SliceFaithful`: the file holds exactly the blocks seen from the given direction, each
  with a texture that exists.
* `ExitFreesAll`: between lines no coordinates are held, and at the end the world is gone.
* `FilesGuarded`, `Answered`; `UndefinedCauses` lists all ways into undefined behaviour.

Of the formats (`formats`):

* `OnlyGenuineRecords`, `LogReadable`: a reader returns records that were written, whole and
  in order, all of them if nothing happened; a stop or a failed write costs no record before
  it, and the record cut at the end is not taken for a corruption; a damaged cell costs records
  of its own block only; a loss and a failed read are reported. What the code does not keep is
  left out: records acknowledged behind a failed write (`WriteFails`), and those whose trailer
  was not filled, since `AddRecord` does not look at the status of that `Append`
  (`TrailerFails`); reports of damage in the last block and of lengths and types that became
  zero; reports of failed reads and skips by a reader that starts at an offset.
* `RecordsExact`: a batch is taken for whole exactly when it is; an edit never has a wrong
  field.
* `TablesReadBack`: from any seek, in both directions, through filters and compressors; an
  entry is found if and only if it is there.
* `ScanExact`: an iterator is where its calls lead, or its status tells.
* `RoundTrip`, `DecodersAgree`, `NoOverrun`: what is compressed comes back, from whatever
  fragments; all decoders accept the same streams; no fast path leaves its buffer.

Of the database (`version_set`, `db_impl`, `db_impl_live`, `recovery`):

* `InputsLive`, `CompactionsSink`: versions installed during a compaction keep its inputs, and
  compactions come to an end because each takes data down or drops it.
* `ReadsCorrectIfSound`: reads through every snapshot find what the history says, as long as
  no level ever had the entries of a user key in two files. The condition is not a
  formality: see `version_set_split`.
* `AppliedOnce`, `SnapshotsStable`, `WritesDurable`: grouping, switching and flushing give each
  write one number, change nothing that a reader can see at its sequence number, and keep
  what was acknowledged, with one exception that is the code's: writes that go to a log
  behind an `AddRecord` that failed (`InDoubt`; `NoWritesLost`, below). That nothing is
  acknowledged behind a record of unknown fate is stated of failed syncs only, as
  the code ensures it only there.
* `CallsReturn`: no wait without a wake-up, also after a background error and in the
  destructor.
* `ImplementsKVStore`, `SyncWritesStable`, `NeededFilesExist`, `ReadsWhatIsThere`: at every
  step, and wherever a crash interrupts it, in the middle of a record too, opening finds every
  stable write, under numbers nobody else has; an open database answers what it would find. With
  `reuse_logs` this ends when something is appended behind a torn record; without, that never
  happens.

Of the runtime (`runtime`):

* `MemTableSound`: a reader beside the writer finds what was there when it began and nothing
  that was never inserted; and no two allocations overlap. List and arena are checked side by
  side: that a node lies in its allocation is not modelled.
* `RefsExact`: reference counts, lists, table and charge agree; nothing freed is in use; and
  the cache is above its capacity at most by what clients had in use at the last `Insert`
  (`Release` evicts nothing). The same of files in memory, which are counted too, and which
  are what was appended to them.
* `ScheduledRuns`: what is scheduled runs, once and in order, on all three platforms.
* `LockHeldOnce`, `FilesSound`: at most one thread of a process believes it has the lock, and
  two processes do only after a `close` in one of them dropped it (env_posix.cc:476, which
  the property exempts and so does not catch); synced files and the names a manifest needs
  survive a crash, limits stay balanced when mappings fail, and a reader of a closed file reads
  what was appended to it, up to the end of its mapping, or as long as it has a descriptor.

### What the violating runs show

1. **`padding_overrun`** (ParseBedrock.cpp:305). The two loops visit
   `numWords * blocksPerWord` positions: 4100 at 3 and at 6 bits per block, 4098 at 5.
   The masks of lines 323-325 send the positions from 4096 on to the first blocks of
   the sub-chunk, which the padding fields overwrite. In the sample world `db/` 2009
   sub-chunks show other first blocks than they were written with.
2. **`bad_dimension`** (ChunkViewer.cpp:229). The `continue` after `delete[] xyz` belongs to
   the loop over the flags; the query goes on with the freed array.
3. **`outside_column`** (Chunk.cpp:32). y = 256 passes the test of the bounds.
4. **`version_set_split`** (version_set.cc:1356). A snapshot makes a compaction keep two entries
   of a user key, its output is cut between them, and a later compaction takes only the
   file with the newer one down. The older one, now above it, is what `Get` finds.

### Further disagreements

Modelling met more places where the code does something else than a comment, a header or an
assertion says. Each of these claims is a definition beside the model it is about; none is
checked by a run of this project, and TLC refutes each on the instance given.

Two of them concern acknowledged writes. options.h:193 says that "if it is just the process that
crashes (i.e., the machine does not reboot), no writes will be lost even if sync==false". After an
`AddRecord` that failed, `Write` reports the error but sets `bg_error_` only for a failed `Sync`: a
part of the record may be in the log, the writer's offset is advanced, and the next write goes behind
the damage and is acknowledged (`NoWritesLost`; in the model a reader may or may not return the
entries in `doubt`). And a crash of the process within `AddRecord` leaves a part of a record; with
`reuse_logs` the next opening makes a `log::Writer` at the length of the file and goes on behind it
(`ReturnedWritesFound`). ChunkViewer does not set that option.

| Claim | Where | What the code does |
|-------|-------|--------------------|
| `ParseBedrock!LoadedMeansReadAll` | ParseBedrock.cpp:203 | The loop is not followed by a look at `status()`: a world with a block that cannot be read is reported as loaded. (instance of `scan`) |
| `NBTParser!FarTagsParsed` | ParseBedrock.cpp:35 | `parseShort` and `parseLong` take an `int16_t`: behind byte 32767 of a value the offset is negative and an assertion ends the process. (`scan`) |
| `NBTParser!ListsParsed` | ParseBedrock.cpp:108 | The parser reads a name before each element of a list, and NBT writes none, so all behind the length of the list is misread. Palettes of Bedrock worlds have no lists, which is why it does not show. (`scan`) |
| `NBTParser!FreesAll` | NBTTag.cpp:8 | A tag replaced under its name is never freed. (`scan`) |
| `NBTParser!LongExact` | ParseBedrock.cpp:58 | `parseLong` shifts an `int` by up to 56 bits. (`scan`) |
| `Log!ResyncSilent` | log_reader.cc:86 | `resyncing_` is cleared by the skipped record itself, so the rest of it is reported. (`formats`) |
| `Log!AcknowledgedReadable` | log_writer.cc:107 | After a failed append, or an unfilled trailer (log_writer.cc:53), `block_offset_` and the file disagree; records acknowledged then and later may be unreadable. (`formats`) |
| `VersionSet!LevelsDisjoint` | version_set.cc:742 | A memtable is flushed to level 1, between the files a manual compaction is merging; the output of the compaction spans it. (`version_set` with `Keys = {1, 2, 3}`, `MaxSequence = 5`) |
| `DBImpl!NoWritesLost` | db_impl.cc:1249 | A failed `AddRecord` leaves the log and the writer in doubt, and later writes are acknowledged behind it. (`db_impl`) |
| `DBImpl!SuspendWaits` | db_impl.cc:668 | `SuspendCompaction` sets a flag and waits for nobody. (`db_impl`) |
| `DBImpl!CallsReturn` with `MaxSuspends = 1` | db_impl.cc:676 | `ResumeCompaction` schedules nothing, so calls that wait for the background thread may wait for ever. (`db_impl_live`) |
| `DBImpl!NoCrash` | db_impl.cc:618, 782 | A manual compaction cancelled while the mutex is free leaves the background thread with a null pointer. (`db_impl`) |
| `DBImpl!MemTableForced` | db_impl.h:56 | A `NULL` batch that another writer's group takes along switches no memtable. (`db_impl` with a third client) |
| `Recovery!SyncWritesStable` without its exception | db_impl.cc:198 | With `reuse_logs` a manifest whose records nobody synced is used on. |
| `Recovery!ReturnedWritesFound` | db_impl.cc:457 | With `reuse_logs` a log is used on behind a torn record; a write that returned is not found again. (`recovery`) |
| `Recovery!NeededFilesExist` without `Spoilt` | version_set.cc:1056 | Edits appended behind a torn one are not read; the version that is recovered names tables that were deleted, or opening fails. (`recovery`) |
| `Recovery!CreationCommitted` | db_impl.cc:279 | The first manifest is not synced before `CURRENT` names it. (`recovery`, machine crashes) |
| `EnvLock!LockExclusive` | env_posix.cc:476 | `close` on the failing path of a second thread gives up the process's lock. (`runtime`) |
| `AsMuchCounted` (`MCFormats`) | snappy.cc:2082 | `UncompressAsMuchAsPossible` may count a block of which only a part is valid. (`formats`) |

Read, and in the models as they are: `InMemoryEnv::NewAppendableFile` leaves a null entry in
its map; the lock env_win.cc takes is a shared one, and none on an empty file; `Sync` of env_boost.cc only flushes to
the operating system; `RenameFile` of env_win.cc is two steps.

### Bounds, and why they are enough

* `Edge`, `SubChunks`. The scan uses `Edge = 4`, `SubChunks = 2`: 64 blocks per
  sub-chunk, so that several words are needed at every width, and so that widths 3, 5
  and 6 still leave padding fields. The code treats all positions alike; the proofs
  are for every size. The commands use `Edge = 2`: a slice of four directions has two
  columns, enough to tell left from right.
* Worlds of the scan. Every width of the format (1, 2, 3, 4, 5, 6, 8, 16) with its
  highest index in use; a column with two sub-chunks, a second storage, negative
  coordinates, in three dimensions; records of other kinds and formats between; a
  record cut at every length, and read only up to each of its items; widths 0, 31, 32 and
  negative; palette sizes 0, -1 and the smallest two; storages for the runtime;
  zero and a negative number of storages; sub-chunk indices outside the column. At
  most three records per world: a step depends on the record it reads and on the chunk
  of its column, and pairs of records cover same column, same sub-chunk position in
  another dimension, and unrelated.
* NBT entries have at most a few levels and one-byte names; `OffsetBits = 7` lets an entry of
  some seventy bytes cross the sign bit that takes 32768 bytes in the code.
* `MaxLines = 3`. What a line inherits is `word`, the options, `xyz` and the files. Two
  lines suffice to see a value inherited; the third covers a value that passes through
  a line that failed. `IntMax = 7` with `Height = 4`, so that heights above the column and
  the overflow of `yMax` are both there.
* Logs: blocks of 7 cells with headers of 3, records of 0, 2 and 9 cells, two of them: every
  fragment type, and every number of cells left in a block (the trailer of 0 to 2 cells, the
  header that fits exactly).
* Records: base 4, so that lengths and numbers of two to four digits occur at small sizes;
  four operations over two batches.
* Tables: four user keys, two of them prefixes of others; up to four entries; blocks of one
  to four entries, restart intervals of 1 and 2, with and without filters and compressor.
  Iterators: three user keys over a memtable, a table of level 0 and a level of two files.
* Snappy: words of up to two runs with lengths on both sides of a literal, a chunk and a
  block; streams of up to two tags with lengths and ends that are off; fragments of 1 and 7
  bytes, so that each tag straddles fragments in every way.
* Versions: three levels are the least in which a level is neither level 0 nor the last; the
  violating run needs a fourth. Four writes fill two files of two entries. Keys 1 and 3 are
  written and 2 is only asked for, so that a read goes past a file that covers it.
  `AllowedSeeks` is 1 for 100.
* `DBImpl`: two clients give groups, a waiter and a signaller; four calls a group, a switch of
  the memtable and a wait for room; one fault hits any file operation. `kL0_*` are 1, 1, 2.
* Recovery: up to three writes and two crashes. Two crashes are needed for files that the first
  left and the second recovery meets again, among them a torn file that is used on; a setting fixes
  what the budget is spent on. Two settings have a failing write of the manifest.
* Runtime: heights to 3 with three keys; two clients of the cache with capacities 0 and 2 and
  charges that cannot fit; two threads that schedule; two processes of two threads that lock.

`CHECK_DEADLOCK FALSE` stands where a run ends by its bounds: the machines of `formats` and
`runtime` stop when their input is read or their budget is used up, and so do `version_set`
and `db_impl`; that no thread of `DBImpl` is stuck is what `CallsReturn` says.

### Fairness

`LoadEnds` assumes weak fairness of the load: one thread that waits for nothing but
the disk. `Answered` assumes `WF_vars(Handle)`, the steps of the handlers; nothing is
assumed of the user, who may never type a line. `CallsReturn` assumes strong fairness of
each client's steps, of the background thread and of the destructor: a thread that wants
`mutex_` gets it eventually although others take it in between, which the mutexes of the
platforms provide in practice and without which no call could be shown to return. It assumes
nothing of callers who do not call. `ScheduledRuns` assumes weak fairness of the background
thread and of a thread between its unlock and its `notify_one`. All other properties
are safety properties and need none.

## Proofs

Every theorem is for all values of the constants, under the assumptions of the module it
is about. Each rests on an inductive invariant, which is proved action by action.

| Theorem | States | For every |
|---------|--------|-----------|
| `TypeCorrect`, `PaletteSafety`, `BlockLoopSafety`, `UndefinedByKeyOrWidth` (`ParseBedrockProofs`) | `TypeOK`, `PaletteIndexInBounds`, `WordsReadable`, `UndefinedOnlyOutsideColumn` | `Edge`, `SubChunks`, and set of databases, damaged ones included |
| `WorldIsRight`, `SubChunksIsolated`, `BlocksAreRight`, `WorldIsLoaded` (`ParseBedrockProofs`) | `WorldMatchesRecords`, `SubChunkIsolation`, `GetBlockFaithful`, `Loaded` | the same |
| `AnswersRight`, `SlicesRight`, `UndefinedOnlyThere`, `EverythingFreed`, `OnlyTheNamedFile` (`ChunkViewerProofs`) | `AnswersMatchLine`, `SliceFaithful`, `UndefinedCauses`, `ExitFreesAll`, `FilesGuarded` | set of loaded worlds, of lines and of textures, sizes, `IntMax`, functions `CoordsOf` and `IntOf` |
| `WritesAppliedOnce`, `AcknowledgedWritesDurable`, `ReadersSeeTheSame` (`DBImplProofs`) | `AppliedOnce`, `WritesDurable`, `SnapshotsStable` | number of clients, calls, faults and suspensions, limit and buffer size |
| `FilesImplementStore`, `FilesNeeded`, `ReadsFindAll`, `SyncedWrites` (`RecoveryProofs`) | `ImplementsKVStore`, `NeededFilesExist`, `ReadsWhatIsThere`, `SyncWritesStable` | number of writes, crashes, failed manifest writes and iterators, buffer size; crashes of the process with and without `reuse_logs`, of the machine without; until something is appended behind a torn record, which without `reuse_logs` is proved never to happen |
| `OnlyWhatWasWritten` (`LogProofs`) | `OnlyGenuineRecords` | block size, lengths and number of records, of stops and failed writes; a damaged cell anywhere, any initial offset |
| `CompactionsWorkOnLiveFiles`, `ReadsFindWhatWasWritten`, `EveryCompactionSinks` (`VersionSetProofs`) | `InputsLive`, `ReadsCorrectIfSound`, `CompactionsSink` | number of levels, sizes, factors, keys, number of writes, seeks, snapshots, and set of manual ranges |
| `EntriesSafe` (`MemTableProofs`) | `MemTableSound` | set of keys, height, block size and alignment |
| `FilesKept` (`EnvProofs`) | `FilesSound` | set of names, inodes and users, limit, and number of crashes |
| `PosixLockSafety` (`EnvProofs`) | `LockHeldOnce` | number of processes and threads |

`ScanInvariant`, `WorldInvariant`, `FaithfulInvariant`, `CommandsInvariant`, `ThreadsInvariant` and
`FilesInvariant` state the inductive invariants themselves; those of `VersionSet` are `LiveInv`,
`ReadInv` and `SinkInv` (`LiveNext`, `ReadNext`, `SinkNext`).

**Assumptions.** `ChunkAssumption`: both sizes are positive. `DatabaseAssumption`: databases are
sequences of records, and each key occurs once, as in LevelDB. `FormatAssumption`: see
ParseBedrock above; `ParseBedrockProofs` does without it. `ViewerAssumption`: words are not empty;
coordinates and numbers are ints; neither `block` nor a flag is read as coordinates or a number, as
`parseCoords` and `stoi` have it; `unknown` and `barrier` are among the textures, as in `blocks-eps`;
the width of a chunk divides the range of an int; and worlds are `Loaded`: each chunk in one map
under its own coordinates, each state an index into its palette. `WorldIsLoaded` (`ParseBedrockProofs`)
proves `Loaded` of every scan. `DBImplAssumption`: the kinds of calls, and
triggers in their order. `SkipListAssumption`: keys are positive numbers with a greatest;
`ArenaAssumption`: sizes are positive; `EnvFilesAssumption`: finitely many users, and 0 is no inode.
`VersionAssumption`: there is more than one level, and the trigger and the sizes are positive.
`VersionSetAssumption`: keys are numbers, sequence numbers stay below `kMaxSequenceNumber`, and manual
ranges are of levels that have a next one, as `TEST_CompactRange` asserts (db_impl.cc).
`RecoveryAssumption`: the settings are numbers and flags. `LogConstants`: a block takes more than a
header (`FormatsAssumption` repeats it, which is where TLC evaluates it).
`PosixLockSafety` assumes that 0 is no process. TLC evaluates all but the last on its instances.

`NoReuseBeyondMachine` excludes one combination, crashes of the machine under `reuse_logs`, and it
is not for the sake of the proof: without it TLC finds `NeededFilesExist`, `SyncWritesStable` and
`ImplementsKVStore` violated. `NewDB` writes the first manifest and closes it without a sync
(db_impl.cc:179-208). A new manifest is normally written, and synced, on the first opening, before
anything depends on the first one; with `reuse_logs` the database goes on using it, and the log
it found, whose records may be in the cache of the system only. A crash of the machine then
takes records that the state in memory was built on. The option is off by default ("currently
false, but may become true later", options.h:140), and ChunkViewer does not set it.

**The scan on any records** (`ParseBedrockProofs`). `PaletteIndexInBounds` is not inductive:
`PlaceBlock` compares the index with `paletteSize`, a number read from the record, and not with the
length of the palette vector. `PaletteInv` closes the gap: the palette loop has pushed `p`
entries so far, hence in the block loop at least `paletteSize` entries are there, as other
storages only add to them. `WordsReadable` is not inductive either: that the words exist
follows from the palette size behind them having been read, and `CursorInv` carries this, with
the exact position of `currOffset` in the block loop, through the palette and back. So

    ScanInv == TypeOK /\ CursorInv /\ (Storing => PaletteInv) /\ PaletteIndexInBounds

**The world** (`ParseBedrockProofs`). Three invariants, each built on the one before:

    WorldInv    == db \in Databases /\ ScanInv /\ OwnersInv /\ ColumnsInv
    ReadInv     == WorldInv /\ IntactInv /\ IntactStopsOnlyThere
    FaithfulInv == ReadInv /\ TagsInv /\ PaletteRead /\ BlocksInv

`OwnersInv` says that map entries and chunks correspond one to one and that `currChunk` is the
chunk of the current key; without the latter a step could write into another column, and
`SubChunkIsolation` would not follow. It needs that the keys of two columns differ (`KeysDiffer`),
hence that the bytes of a 32-bit number determine it and that the region tells
dimensions apart by the length of the key. `IntactInv` follows the cursor through an intact
record: storage `j` is read from where the game began it. For `GetBlockFaithful` one must know
at every moment of the double loop which blocks have their tag. `Placed(n)` is that set: the
positions passed so far, less those that a padding field has been written over, which happens at
the end of the loop only (`BlocksInv`). The tag itself is found through the palette, so
`PaletteRead` says that the palette begins with the entries of the first storage, and `TagsInv`
that every entry came from a record of its own sub-chunk. Records already read keep
their blocks because no two records share a sub-chunk (`OnePlace`, from the uniqueness of keys).
`FieldRight` proves that the arithmetic shift and the mask of the code, on a signed word, give the
field of the format, `CellsApart` that two positions are two cells of the chunk.

**The commands** (`ChunkViewerProofs`). `CommandsInv` has a part for each phase of `main`. The words not
read yet are the end of the line (`WordsInv`), which turns the position in the line into a number,
`used`; the options are those that the flags among the first `used` words set (`AtWhatFlags`,
`OptionsRead`), so that behind the last word they are those of the line as a whole. For "what" the flags
are found at any position, for "graph" at every second one, and a flag may be the value of another
one: that both readings agree with the definitions over the line needs `LastOf` to be the
flag read last (`LastIsNew`, by well-founded induction from the library). The sum
behind `-ymax` wraps around; the checks let through exactly the bounds below `IntMax`
(`GraphBoundsStep`). While a graph is drawn its file has a curve and a mark for each position
that was passed and is not air (`Shows(items, Drawn)`), which is an invariant about a cardinality, as
"each block once" says that the number of items is twice that of positions; one block adds one
position (`DrawnGrows`, `OneMore`). Seen from the south or the west the column is
counted from the far end, and the floor of the coordinates cancels (`SliceSeen`).

**The threads** (`DBImplProofs`). `Inv` follows a write: it waits in the queue, and is the front's or
of its group (`QueueInv`, `GroupInv`); exactly one writer is between `MakeRoomForWrite` and the
signal, so its batch has the numbers behind `last_sequence` (`BatchInv`) and no stored entry has
them (`StoredInv`); how far it is tells where the batch is already (`ProgressInv`); what the memtables
hold is in a log that is still there (`LogInv`), and what is committed is stored (`CommitInv`). A record that is
logged and not inserted is either the front's, or left by a failed sync that has set `bg_error_`, behind
everything acknowledged (`LostInv`). The last part is what makes the durability conjuncts hold
after an error. What is logged behind a failed `AddRecord` is counted as logged but in doubt; for
the rest of the argument it does not matter which. Finite sets of entries need their cardinality, sequences of writers their order;
the library's theorems on both are used.

**The memtable** (`MemTableProofs`). `ListInv`: on each level the links lead from a smaller to the
next larger published node, and a node on a level is on all below. `WriterInv` gives the one
node of which this is true up to the writer's level only. `ReaderInv`: a search has passed no key of
those that were there when it began and that lie at or behind its target. The arena: what was
given out lies below `top` and outside the rest of the current block (`RestFree`).

**Recovery** (`RecoveryProofs`). `IInv` reads the disk the way an opening would.
`Sound(files, tables, log, next, last)` says that tables and the number of a log are a state that a
manifest may name: the tables exist and ascend from level to level, and within level 0 by their
numbers; what is in the logs from `log` on is behind them, what is in older logs is in them.
`ManifestOK` says this of two readings of the manifest, all of it (`Full`) and its synced part
(`Durable`), and that the first has nothing but the second's tables and the logs. `LogsOK` says it of the
tables made so far while the logs are replayed, `ApplyingOK` of the version an edit leads to,
`RunningOK` of the one in memory; `PhaseOK` says which of the readings is the current version and
which the next one, between the appending of an edit, its sync and the rename of `CURRENT`.
`ReadyOK` ties the memtables to the logs. `NeededFilesExist` is a part of this; it is not inductive, since
that a log may be deleted follows only from its entries being in tables that the manifest
already names. What opening would find is then the entries of tables and logs (`RecoverableIs`):

    NextStep == IInv /\ ~Spoilt' /\ [Next]_vars => IInv' /\ (Keeps \/ Writes1 \/ Loses)

A step leaves the store as it is and takes nothing from what is stable (`Keeps`), appends one write
(`Writes1`), or is a crash of the machine, after which no less is found than was stable (`Loses`). These
are the steps of `KVStore`, so `StepImplements` follows. `CutOK` is the crash of the machine: every
file keeps its synced records and some of the next, and the invariant holds of any such cut.
`IInv` holds until something is `Spoilt`; `NothingTorn`, that without `reuse_logs` neither the log nor
the manifest that is written to ends with a torn record, shows that then this never is (`TornStep`).
`ReadsFindAll` needs besides that an opening that is not through has no version
(`Unopened`).

**The log** (`LogProofs`). `Layout` is about the whole file: every checksum in it is `Genuine`, one of a
fragment of a record that was written, and a fragment that continues a record `Follows` the one
before it with nothing in between, unless that one's checksum was damaged. The reader may come upon
any of them, from an initial offset or behind a damaged block. When it accepts a fragment, the
checksum names the record and the place in it; if it is collecting, what it collected ends where
it has read to (`Collecting`), so that the fragment this one follows is the last one
collected, and `scratch` is the record up to here (`KeepingStep`, `ReturningStep`). The records
come in their order, as each is returned from a place behind the one before (`OutOK`). The sizes are
sums and remainders by `kBlockSize` that no bound limits (`EmitStep`, `ReadBlockStep`).

**Versions and compactions** (`VersionSetProofs`). A version is a function from levels to sequences of
files, and most of what the code does to them are searches and loops. Each is written as a
recursive function on numbers, which a lemma first ties to its turns (`Recursion`): then the binary
search finds the first file that does not end before the key (`FindFileIs`), the widening of a range
in level 0 ends because each turn that changes the range adds a file (`WidenedIs`), the sort of
`SaveTo` keeps exactly what the edit leaves and adds (`SaveToIs`), and what a compaction takes are files
of its version that no file left behind overlaps (`SetupOtherInputsIs`: `CompactionOf`, `Closed`).

`LiveInv` has the entries with numbers of their own (`KeysInv`), the files likewise (`FilesInv`), and the
running compaction and the file that reads want compacted in the current version (`WorkInv`).
It is inductive because only memtable compactions install a version while a compaction runs,
which take nothing away, and a new version forgets what the old one wanted compacted.

`ReadInv` says what makes a read right. Memtables are newer than files (`AgeInv`), an entry in an upper
level is newer than one for the same key in a lower level, or in level 0 in a file with a smaller
number (`Ordered`), so that `Get` may stop at the first file that has the key (`VersionGetIs`,
`LookupIs`). And no snapshot from the oldest on can tell what is left from all that was written
(`Alike`). Neither is inductive by itself. A flushed table goes past a level only if no file there has
its range (`PickLevelPasses`); what a compaction leaves in its two levels is newer than what it takes
(`LeftNewer`), for a file of its version by `Closed`, and for one that was flushed meanwhile because it
came later, which `WorkSound` remembers (`Since`). The loop of `DoCompactionWork` drops a key if a newer
one is visible to every snapshot, or a deletion behind which nothing is (`WorkKeeps`); that
`IsBaseLevelForKey` looks only at the version the compaction started from does no harm, as all that came
since is newer (`NothingBehind`). The smallest snapshot may be released meanwhile, and later ones
taken, but none that is older (`OldestInv`). All of this is under `sound`: that the files of a level split
no user key is what the code does not ensure, see `version_set_split`.

**Compactions end** (`VersionSetProofs`). The height of a version counts each entry by the distance of
its level from the bottom. It is a sum of file sizes, and sizes only compare as numbers of entries
if nothing is counted twice: `Once` says that no entry is in two files and no file twice in a level.
It holds because flushed entries were in no file (`AgeInv`), the loop of `DoCompactionWork` puts each
entry it keeps into one output (`WorkSplits`), and the sort of `SaveTo` repeats nothing
(`SortedOnce`). Then what a level loses is at least one entry (`ReplacedFalls`), what the next one gains
is no more than that, and the weighted sum falls (`HeightFalls`). No condition on `sound` is needed.

**Files** (`EnvProofs`). A name promised to survive is in the directory and in the one on disk
(`NamesInv`), what a `Sync` confirmed is a prefix of what is on disk (`SyncedInv`), and what was
appended is what the system has and what is still in the buffer of the handle (`BufferInv`). The
places of the limits are counted by the handles that have one (`LimitsBalanced`), which is where
the number of users must be finite.

**The lock** (`EnvProofs`). A thread between its insertion into the `PosixLockTable` and its
removal is the only one of its process there (`TableExact`), and has the kernel's lock, or lost
it to a `close` in its own process (`HoldersCovered`).

**Only model-checked.** Liveness (`LoadEnds`, `Answered`, `CallsReturn`, `ScheduledRuns`), as the
prover has no rules for fairness. What recursive definitions compute for every input, which is
an induction over data: that encoders and decoders agree (`RoundTrip`, `DecodersAgree`, `NoOverrun`,
`RecordsExact`, `LogReadable`, `TablesReadBack`, `ScanExact`), what the parser makes of an entry
(`EntryFaithful`, `TagsFreedOnce`), what a cache holds after evictions (`RefsExact`). The modules of
these, `NBTParser`, `Records`, `Snappy`, `Table`, `Iterators`, `LRUCache` and `MemEnv`, declare `RECURSIVE`
operators or use `Bitwise`, and neither they nor the modules that compose them can hold theorems.

## Not modelled

* `printInnerTags`, the wording of messages, the header lines of a graph file: formatting.
* `Chunk::getBlockState`: nothing calls it.
* The start of `main` before the first prompt: the number of arguments, and the
  messages about loading. What `parseBedrock` returns is the phase it ends in.
* `blocks-eps/`, `db/`, the Makefile and the example script: data and build.
* leveldb: `repair.cc` (an offline tool nothing here calls), `DestroyDB`, `GetProperty` and
  `GetApproximateSizes` (reports), the C binding, dumps and tools, the compressors that are
  calls into zlib, zopfli and zstd, the formatting of file names (names are pairs of type
  and number), directories, clocks, loggers, histograms, the arithmetic of hashes and
  checksums, the sharding of the cache, the ports (mutex and condition variable are used as
  such).
* snappy: inputs longer than a block of 65536 bytes as such (the block is scaled), the
  checks of integer widths that only those reach, the SIMD variants where they compute the
  same as the portable ones.
* Tests and benchmarks of both libraries, read as documentation of what is intended.

## Plan

Modelled in this order: the scan and its proofs; the commands; the NBT parser; logs;
versions and compactions; the threads of the database; recovery with its refinement;
iterators and tables; the runtime; snappy; batches and edits.

Proved in this order: the scan on any records; the lock; the threads of the database; the
memtable; files and crashes; the world the scan leaves; the commands; recovery and its
refinement; the log; compactions and reads; that compactions end.

Left: `Terrain`, what the scan promises, as a map from coordinates to tags that grows by
one sub-chunk per record, and `ParseBedrock` shown to implement it.
