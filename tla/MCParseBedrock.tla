---------------------------- MODULE MCParseBedrock ----------------------------
(***************************************************************************)
(* Worlds for TLC.  A sub-chunk is chosen as the game sees it (where it    *)
(* is, its palette, the palette index of each block) and written out here  *)
(* the way the game writes it: fields packed from the low end of each      *)
(* word, padding fields 0.  The reader under test has no part in this.     *)
(***************************************************************************)
EXTENDS ParseBedrock, SequencesExt

(***************************************************************************)
(* The parser of palette entries runs by itself on entries of its own      *)
(* (part): in ParseBedrock an entry is one cell.                           *)
(***************************************************************************)
CONSTANTS OffsetBits, NBTInputs

VARIABLES part, input, offset, tags, stack, tag, nbtPc, freed

nbtVars == <<input, offset, tags, stack, tag, nbtPc, freed>>

N == INSTANCE NBTParser WITH pc <- nbtPc, Inputs <- NBTInputs
E == INSTANCE NBTEntries

\* The 32-bit word that holds the fields f[0], f[1], ..., the sign included.
Pack(f, bits) ==
  LET n    == WordBits \div bits
      high == f[n - 1]
      top  == IF n * bits = WordBits /\ 2 * high >= 2^bits THEN high - 2^bits ELSE high
  IN  FoldLeft(LAMBDA acc, j : acc * 2^bits + f[n - 1 - j], top, [j \in 1 .. n - 1 |-> j])

Words(index, bits) ==
  LET n == WordBits \div bits
      Padded0(q) == IF q < BlockCount THEN index[q] ELSE 0
  IN  [w \in 1 .. (BlockCount + n - 1) \div n |->
         Pack([j \in 0 .. n - 1 |-> Padded0((w - 1) * n + j)], bits)]

Storage(index, bits, palette) ==
  <<2 * bits>> \o Words(index, bits) \o <<Len(palette)>> \o palette

\* Palette indices that count up from c and repeat after n.
Stripes(n, c) == [q \in 0 .. BlockCount - 1 |-> (q + q \div n + c) % n]

Named(intact, d, x, y, z, index, palette, storages) ==
  [intact |-> intact, dim |-> d, x |-> x, y |-> y, z |-> z, storages |-> storages,
   nbt |-> [q \in 0 .. BlockCount - 1 |->
              IF index[q] < Len(palette) THEN palette[index[q] + 1] ELSE Corrupt]]

\* A record of one sub-chunk; "more" are the storages behind the first one.
SubChunkRecord(d, x, y, z, bits, index, palette, more) ==
  LET first == Storage(index, bits, palette)
      Start(n) == IF n = 1 THEN 2 ELSE 2 + Len(first) + Len(FlattenSeq(SubSeq(more, 1, n - 2)))
  IN
  [key     |-> SubChunkKey(d, x, y, z),
   value   |-> <<8, 1 + Len(more)>> \o first \o FlattenSeq(more),
   legible |-> 1000,
   written |-> Named(TRUE, d, x, y, z, index, palette, [n \in 1 .. Len(more) + 2 |-> Start(n)])]

\* The same record with a damaged or foreign value.
Damaged(r, value) == [r EXCEPT !.value = value, !.written.intact = FALSE]

\* The same record with entries that the parser does not come to the end of.
LegibleTo(n, r) == [r EXCEPT !.legible = n]

Blank == Named(FALSE, "OVERWORLD", 0, 0, 0, Stripes(1, 0), <<0>>, << >>)

Three == <<100, 101, 102>>
Plain(d, x, y, z) == SubChunkRecord(d, x, y, z, 2, Stripes(3, 1), Three, << >>)

-----------------------------------------------------------------------------
(* Sound worlds.                                                             *)

\* One sub-chunk at every width, its highest index in use, and one index (at
\* widths that have room for it) that is not in the palette.
OfWidth(b) ==
  LET n == IF b < 3 THEN 2^b ELSE 7
  IN  SubChunkRecord("OVERWORLD", 0, 0, 0, b, Stripes(n, 1),
                     [e \in 1 .. (IF b < 3 THEN n ELSE n - 1) |-> 100 + e], << >>)

\* Two sub-chunks of a column west and north of the origin, the upper one with
\* a second storage; the same column in the other dimensions.
Below == Plain("OVERWORLD", -1, 0, -2)
Above == SubChunkRecord("OVERWORLD", -1, 1, -2, 4, Stripes(3, 2), <<200, 201, 202>>,
                        <<Storage(Stripes(2, 1), 1, <<300, 301>>)>>)
InNether == Plain("NETHER", -1, 1, -2)
NetherBelow == SubChunkRecord("NETHER", -1, 0, -2, 3, Stripes(5, 2),
                              <<400, 401, 402, 403, 404>>, << >>)
InEnd == SubChunkRecord("ENDWORLD", -1, 1, -2, 1, Stripes(2, 1), <<500, 501>>, << >>)

\* A record of the chunk that is no sub-chunk, and a sub-chunk of a later format.
Biomes == [key |-> ChunkKey("OVERWORLD", -1, -2) \o <<45>>, value |-> <<0>>, legible |-> 0, written |-> Blank]
Format9 == Damaged(Plain("OVERWORLD", -1, 1, -2), <<9, 1, 1, 4>>)
LoneFormat9 == Damaged(Plain("OVERWORLD", 3, 0, 0), <<9, 0, 0>>)

-----------------------------------------------------------------------------
(* Broken worlds.                                                            *)

\* Every way a value may end early.
Cut == {Damaged(Above, SubSeq(Above.value, 1, n)) : n \in 0 .. Len(Above.value) - 1}

\* A storage for the runtime, of width 0, of a width beyond the word, and a
\* negative number of storages; a width of 31, and sizes of a palette that are not,
\* down to the smallest int; bytes that are no tag.
Wide == SubChunkRecord("OVERWORLD", -1, 0, -2, 31, Stripes(3, 1), Three, << >>)
Odd == {Damaged(Below, [Below.value EXCEPT ![3] = ver]) : ver \in {0, 5, 64, -128}}
         \cup {Damaged(Below, [Below.value EXCEPT ![2] = n]) : n \in {0, -1}}
         \cup {Damaged(Below, [Below.value EXCEPT ![4 + WordCount(2)] = n]) :
                  n \in {0, -1, -2147483647, -2147483647 - 1}}
         \cup {Damaged(Wide, Wide.value), Damaged(LegibleTo(6 + WordCount(2), Below), Below.value)}

\* Sub-chunk indices outside the column, one with an empty palette.
Outside ==
  {Damaged(Plain("OVERWORLD", 0, y, 0), Below.value) : y \in {SubChunks, 255}}
    \cup {LET r == SubChunkRecord("OVERWORLD", 0, SubChunks, 0, 4, Stripes(1, 0), << >>, << >>)
          IN  Damaged(r, r.value)}

-----------------------------------------------------------------------------

\* LevelDB delivers the records in the byte order of their keys.
KeyLess(r, s) ==
  \E n \in 0 .. Len(r.key) :
    /\ n <= Len(s.key) /\ \A j \in 1 .. n : r.key[j] = s.key[j]
    /\ n < Len(s.key)
    /\ n < Len(r.key) => r.key[n + 1] < s.key[n + 1]

InKeyOrder(S) == SetToSortSeq(S, KeyLess)

SoundWorlds ==
  {InKeyOrder(S) : S \in
     {{OfWidth(b)} : b \in Widths}
       \cup {{}, {Below, Above, Biomes}, {Below, Format9, InNether},
             {Above, InNether, InEnd}, {InNether, NetherBelow},
             {LoneFormat9, InEnd, Biomes}}
       \cup {{Below, Biomes, LegibleTo(n, Above)} : n \in 0 .. Len(Above.value)}}

BrokenWorlds ==
  {InKeyOrder({Below, r}) : r \in Cut}
    \cup {InKeyOrder({r, InNether}) : r \in Odd \cup Outside}

MCDatabases == SoundWorlds \cup BrokenWorlds
SomeEntries == E!Entries

-----------------------------------------------------------------------------

LoadInit ==
  /\ Init
  /\ \/ /\ part = "scan"
        /\ input = << >> /\ offset = 0 /\ tags = << >> /\ stack = << >>
        /\ tag = 0 /\ nbtPc = "idle" /\ freed = << >>
     \/ part = "entry" /\ N!Init /\ db = << >>

LoadNext ==
  \/ part = "scan" /\ Next /\ UNCHANGED <<part, nbtVars>>
  \/ part = "entry" /\ N!Next /\ UNCHANGED <<part, vars>>

\* One thread loads the world, and nothing in it waits.
LoadSpec == LoadInit /\ [][LoadNext]_<<part, vars, nbtVars>> /\ WF_<<part, vars, nbtVars>>(LoadNext)

\* An entry the game wrote is read to its last byte and becomes the tree it stands
\* for, in which findInnerTag finds a name at any depth, the nearest first, if the
\* narrow offsets reach it and no list in it has elements (parseNBTTag,
\* parseNBTPayload).
EntryFaithful == part = "entry" => N!IntactFaithful /\ N!FindsAnyDepth

\* The tags form a tree, whatever the bytes: none is deleted twice, and only those
\* an addInnerTag replaced, with what is below them, are never deleted.
TagsFreedOnce == part = "entry" => N!TypeOK /\ N!FreedAtMostOnce

\* parseNBTTag returns the offset behind the tag (ParseBedrock.cpp:127): behind the
\* 16-bit offsets of parseShort and parseLong as before them,
FarTagsParsed == part = "entry" => N!FarTagsParsed
\* and for lists with elements, each read by the same function, as for other tags.
ListsParsed == part = "entry" => N!ListsParsed

\* Loading ends on every database and every entry: parseBedrock returns or the
\* process ends, and the mutual recursion of the NBT parser comes to its end, since
\* each tag, also one of an unknown type in a list, takes a byte or a count.
LoadEnds == <>(IF part = "scan" THEN pc \in Terminal ELSE nbtPc \in {"freed", "aborted"})

==============================================================================
