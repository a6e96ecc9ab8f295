----------------------------- MODULE ChunkViewer -----------------------------
(***************************************************************************)
(* ChunkViewer.cpp: the command loop of main and drawSlice, on a world     *)
(* that parseBedrock has loaded.                                           *)
(*                                                                         *)
(* A line of input is the sequence of its words.  What parseCoords and     *)
(* stoi make of a word is given by the functions CoordsOf and IntOf, whose *)
(* domains are the words they accept.  A graph file is the sequence of the *)
(* curves and marks written into it.  All the words of a line but the      *)
(* first are read by the handler, so the variable word outlives a line.    *)
(***************************************************************************)
EXTENDS WorldData, NBTTag, FiniteSetsExt

CONSTANTS
  Worlds,     \* the loaded worlds: records of a world and its heap
  Lines,      \* the lines the user may type
  MaxLines,   \* bound: how many lines are read before the end of input
  CoordsOf,   \* the words of the form (x,y,z), with their coordinates
  IntOf,      \* the words that stoi accepts, with their value
  IntMax,     \* the largest int (2^31 - 1 in the code)
  Textures,   \* the texture files in blocks-eps, without directory and suffix
  Directories \* names in the working directory that are directories at first

\* What "ss >> word" extracts is never empty.
Word    == STRING \ {""}
IntType == -IntMax - 1 .. IntMax

ASSUME ViewerAssumption ==
  /\ MaxLines \in Nat
  /\ IntMax \in Nat /\ (IntMax + 1) % Edge = 0
  /\ \A w \in Worlds : Loaded(w.world, w.heap)
  /\ Lines \subseteq Seq(Word)
  /\ \A w \in DOMAIN CoordsOf : CoordsOf[w] \in IntType \X IntType \X IntType
  /\ \A w \in DOMAIN IntOf : IntOf[w] \in IntType
  /\ "block" \notin DOMAIN CoordsOf /\ {"-ymin", "-ymax"} \cap DOMAIN IntOf = {}
  /\ {<<"unknown">>, <<"barrier">>} \subseteq Textures

VARIABLES
  world, heap,   \* the loaded world and its chunks, as in WorldData
  pc,            \* where main is; see Phase
  lineNo,        \* the number of lines read
  line,          \* ghost: the line being handled
  held,          \* ghost: what word held before it, if it is blank
  ss,            \* the words of it not read yet
  word,
  xyz,           \* the array parseCoords allocated last: what it holds
  xyzState,      \* ... and whether it is allocated: "none", "owned" or "freed"
  dim, facing, yMin, yMax, fileName,
  chunk,
  index, y,      \* the loops of drawSlice
  files,         \* the working directory: the content of each name in use
  reply,         \* the answer to the line
  freed          \* how often each chunk was deleted at the end

worldVars == <<world, heap>>
optionVars == <<dim, facing, yMin, yMax, fileName>>
drawVars  == <<chunk, index, y>>
vars == <<worldVars, pc, lineNo, line, held, ss, word, xyz, xyzState, optionVars, drawVars,
          files, reply, freed>>

Terminal == {"exit", "aborted", "undefined"}
Phase == {"prompt", "what", "whatCoords", "whatFlags", "graph", "graphCoords", "graphFile",
          "graphFlags", "graphOpen", "draw", "help"} \cup Terminal

DimensionOf == [overworld |-> "OVERWORLD", nether |-> "NETHER", end |-> "ENDWORLD"]
Facings == {"n", "s", "e", "w"}

NoReply == [kind |-> "none", at |-> << >>, tags |-> << >>]
Says(kind) == [NoReply EXCEPT !.kind = kind]

-----------------------------------------------------------------------------

\* What "ss >> word" leaves in word: at the end of the line, what was there.
Extracted == IF ss = << >> THEN word ELSE Head(ss)
Rest(s)   == IF s = << >> THEN s ELSE Tail(s)

\* A signed 32-bit sum as the build computes it: its overflow is undefined in C++, and wraps
\* around in the instructions a compiler makes of yMax++.
WrapInt(n) == IF n > IntMax THEN n - 2 * (IntMax + 1) ELSE n

Init ==
  /\ \E w \in Worlds : world = w.world /\ heap = w.heap
  /\ pc = "prompt"
  /\ lineNo = 0
  /\ line = << >> /\ ss = << >> /\ word = "" /\ held = ""
  /\ xyz = <<0, 0, 0>> /\ xyzState = "none"
  /\ dim = "OVERWORLD" /\ facing = "n" /\ yMin = 0 /\ yMax = 0 /\ fileName = ""
  /\ chunk = nullptr /\ index = 0 /\ y = 0
  /\ files = [f \in Directories |-> [kind |-> "directory", items |-> << >>]]
  /\ reply = NoReply
  /\ freed = << >>

\* A handler's step within a line: only what the step names is changed.
Goto(phase) == pc' = phase

\* The reply, the release of xyz if it is held, and the next prompt.
Answer(r, state) ==
  /\ reply' = r
  /\ xyzState' = state
  /\ Goto("prompt")

\* getline and the first word; "if ... else if" over the commands.
ReadLine ==
  /\ pc = "prompt"
  /\ lineNo < MaxLines
  /\ lineNo' = lineNo + 1
  /\ \E l \in Lines :
       LET first == IF l = << >> THEN word ELSE Head(l)
       IN  /\ line' = l
           /\ held' = IF l = << >> THEN word ELSE ""
           /\ ss' = Rest(l)
           /\ word' = first
           /\ IF first \in {"what", "graph", "help"}
              THEN Goto(first) /\ reply' = NoReply
              ELSE Goto("prompt") /\ reply' = Says("unknown_command")
  /\ UNCHANGED <<worldVars, xyz, xyzState, optionVars, drawVars, files, freed>>

Read == word' = Extracted /\ ss' = Rest(ss)

Help ==
  /\ pc = "help"
  /\ Read
  /\ Answer(Says(IF word' \in {"what", "graph"} THEN "usage" ELSE "unknown_command"), xyzState)
  /\ UNCHANGED <<worldVars, lineNo, line, held, xyz, optionVars, drawVars, files, freed>>

\* The defaults of the options; "what" has no facing and never reads it.
\* (Faulty variant: those of the line before stay.)
Defaults_Kept == UNCHANGED <<dim, facing>>
Defaults == dim' = "OVERWORLD" /\ facing' = "n"

\* The word behind "what" or "graph".
Argument(command, next) ==
  /\ pc = command
  /\ Read
  /\ \/ /\ word' = "block"
        /\ Goto(next)
        /\ Defaults
        /\ UNCHANGED <<reply, xyzState, yMin, yMax, fileName>>
     \/ /\ word' # "block"
        /\ Answer(Says("invalid_argument"), xyzState)
        /\ UNCHANGED optionVars
  /\ UNCHANGED <<worldVars, lineNo, line, held, xyz, drawVars, files, freed>>

WhatArgument  == Argument("what", "whatCoords")
GraphArgument == Argument("graph", "graphCoords")

\* parseCoords: the array is allocated, and deleted again if the word is not
\* of the form (x,y,z).
ParseCoords(next) ==
  /\ Read
  /\ \/ /\ word' \in DOMAIN CoordsOf
        /\ xyz' = CoordsOf[word']
        /\ xyzState' = "owned"
        /\ Goto(next)
        /\ UNCHANGED reply
     \/ /\ word' \notin DOMAIN CoordsOf
        /\ Answer(Says("bad_coordinates"), "none")
        /\ UNCHANGED xyz

WhatCoords ==
  /\ pc = "whatCoords"
  /\ ParseCoords("whatFlags")
  /\ UNCHANGED <<worldVars, lineNo, line, held, optionVars, drawVars, files, freed>>

-----------------------------------------------------------------------------
(* what block (x,y,z) [-d dimension]                                         *)

\* while(ss >> word): a word that is no flag is passed over.
WhatFlag ==
  /\ pc = "whatFlags"
  /\ ss # << >>
  /\ LET flag  == Head(ss)
         value == IF Len(ss) > 1 THEN ss[2] ELSE flag
     IN \/ /\ flag # "-d"
           /\ word' = flag
           /\ ss' = Tail(ss)
           /\ UNCHANGED <<dim, xyzState, pc>>
        \/ /\ flag = "-d"
           /\ word' = value
           /\ ss' = Rest(Tail(ss))
           /\ \/ /\ value \in DOMAIN DimensionOf
                 /\ dim' = DimensionOf[value]
                 /\ UNCHANGED <<xyzState, pc>>
              \* delete[] xyz, and "continue" stays in this loop
              \/ /\ value \notin DOMAIN DimensionOf
                 /\ xyzState' = "freed"
                 /\ pc' = IF xyzState = "freed" THEN "undefined" ELSE pc
                 /\ UNCHANGED dim
  /\ UNCHANGED <<worldVars, lineNo, line, held, xyz, facing, yMin, yMax, fileName, drawVars,
                 files, reply, freed>>

\* world.getBlock, printInnerTags on the tag it found, delete[] xyz.
WhatAnswer ==
  /\ pc = "whatFlags"
  /\ ss = << >>
  /\ xyzState = "owned"
  /\ \E b \in worldGetBlock(world, heap, xyz[1], xyz[2], xyz[3], dim) :
       \/ /\ b.state < 0
          /\ Answer(Says("block_not_valid"), "none")
       \/ /\ b.state >= 0 /\ b.tags # << >>
          /\ Answer([kind |-> "block", at |-> xyz, tags |-> b.tags], "none")
       \/ /\ b.state >= 0 /\ b.tags = << >>   \* a wild pointer
          /\ Goto("undefined")
          /\ UNCHANGED <<reply, xyzState>>
  /\ UNCHANGED <<worldVars, lineNo, line, held, ss, word, xyz, optionVars, drawVars, files, freed>>

\* xyz[0], xyz[1] and xyz[2] are read from memory that was freed.
WhatAfterFree ==
  /\ pc = "whatFlags"
  /\ ss = << >>
  /\ xyzState = "freed"
  /\ Goto("undefined")
  /\ UNCHANGED <<worldVars, lineNo, line, held, ss, word, xyz, xyzState, optionVars, drawVars,
                 files, reply, freed>>

-----------------------------------------------------------------------------
(* graph block (x,y,z) file [-d dimension] [-f facing] [-ymin n] [-ymax n]   *)

\* The coordinates, and as bounds of the graph the sub-chunk they lie in.
GraphCoords ==
  /\ pc = "graphCoords"
  /\ ParseCoords("graphFile")
  /\ \/ /\ xyzState' = "owned"
        /\ yMin' = Edge * (xyz'[2] \div Edge)
        /\ yMax' = WrapInt(yMin' + Edge)
     \/ /\ xyzState' = "none"
        /\ UNCHANGED <<yMin, yMax>>
  /\ UNCHANGED <<worldVars, lineNo, line, held, dim, facing, fileName, drawVars, files, freed>>

\* The string fileName is new, so it is empty if the line has no more words.
GraphFile ==
  /\ pc = "graphFile"
  /\ fileName' = IF ss = << >> THEN "" ELSE Head(ss)
  /\ ss' = Rest(ss)
  /\ \/ /\ fileName' # ""
        /\ Goto("graphFlags")
        /\ UNCHANGED <<reply, xyzState>>
     \/ /\ fileName' = ""
        /\ Answer(Says("bad_file_name"), "none")
  /\ UNCHANGED <<worldVars, lineNo, line, held, word, xyz, dim, facing, yMin, yMax, drawVars,
                 files, freed>>

\* while(ss >> word): one flag and its value; "break" on the first error.
GraphFlag ==
  /\ pc = "graphFlags"
  /\ ss # << >>
  /\ LET flag  == Head(ss)
         value == IF Len(ss) > 1 THEN ss[2] ELSE flag
         Rejected == /\ Answer(Says("bad_option"), "none")
                     /\ UNCHANGED <<dim, yMin, yMax>>
         Accepted == UNCHANGED <<reply, xyzState, pc>>
     IN /\ word' = IF flag \in {"-d", "-f", "-ymin", "-ymax"} THEN value ELSE flag
        /\ ss' = IF flag \in {"-d", "-f", "-ymin", "-ymax"} THEN Rest(Tail(ss)) ELSE Tail(ss)
        /\ facing' = IF flag = "-f" THEN value ELSE facing
        /\ \/ /\ flag = "-d" /\ value \in DOMAIN DimensionOf
              /\ dim' = DimensionOf[value]
              /\ Accepted /\ UNCHANGED <<yMin, yMax>>
           \/ /\ flag = "-f" /\ value \in Facings
              /\ Accepted /\ UNCHANGED <<dim, yMin, yMax>>
           \/ /\ flag = "-ymin" /\ value \in DOMAIN IntOf
              /\ yMin' = IntOf[value]
              /\ Accepted /\ UNCHANGED <<dim, yMax>>
           \/ /\ flag = "-ymax" /\ value \in DOMAIN IntOf
              /\ yMax' = WrapInt(IntOf[value] + 1)
              /\ Accepted /\ UNCHANGED <<dim, yMin>>
           \/ /\ flag = "-d" => value \notin DOMAIN DimensionOf
              /\ flag = "-f" => value \notin Facings
              /\ flag \in {"-ymin", "-ymax"} => value \notin DOMAIN IntOf
              /\ Rejected
  /\ UNCHANGED <<worldVars, lineNo, line, held, xyz, fileName, drawVars, files, freed>>

\* The test of the bounds.  (Faulty variant: negative heights are let through.)
badBounds_NoMin == yMax < 0 \/ yMax <= yMin
badBounds == yMax < 0 \/ yMax <= yMin \/ yMin < 0

\* The checks behind the flags: the bounds, and the chunk.
GraphBounds ==
  /\ pc = "graphFlags"
  /\ ss = << >>
  /\ LET found == getBlockChunk(world, xyz[1], xyz[2], xyz[3], dim)
     IN \/ /\ badBounds
           /\ Answer(Says("bad_bounds"), "none")
           /\ UNCHANGED chunk
        \/ /\ ~badBounds /\ found = nullptr
           /\ chunk' = found
           /\ Answer(Says("block_not_valid"), "none")
        \/ /\ ~badBounds /\ found # nullptr
           /\ chunk' = found
           /\ Goto("graphOpen")
           /\ UNCHANGED <<reply, xyzState>>
  /\ UNCHANGED <<worldVars, lineNo, line, held, ss, word, xyz, optionVars, index, y, files, freed>>

\* The directory after remove(fileName): a directory stays if it is not empty,
\* and any name may stay because it may not be removed.
Removed == {files, [f \in DOMAIN files \ {fileName} |-> files[f]]}

\* remove and open; open creates the file or empties it.  The header lines of
\* the graph do not depend on the blocks and are left out.
GraphOpen ==
  /\ pc = "graphOpen"
  /\ \E left \in Removed :
       \/ /\ fileName \in DOMAIN left => left[fileName].kind = "file"
          /\ files' = [f \in DOMAIN left \cup {fileName} |->
                         IF f = fileName THEN [kind |-> "file", items |-> << >>] ELSE left[f]]
          /\ Goto("draw")
          /\ index' = 0
          /\ y' = yMin
          /\ UNCHANGED <<reply, xyzState>>
       \/ /\ files' = left
          /\ Answer(Says("open_failed"), "none")
          /\ UNCHANGED <<index, y>>
  /\ UNCHANGED <<worldVars, lineNo, line, held, ss, word, xyz, optionVars, chunk, freed>>

Write(items) == files' = [files EXCEPT ![fileName].items = @ \o items]

-----------------------------------------------------------------------------
(* drawSlice                                                                 *)

\* i, start and inc: from the far end when looking south or west.
\* (Faulty variant: looking south or east.)
sliceAt_SouthEast == IF facing \in {"n", "w"} THEN index ELSE Edge - 1 - index
sliceAt == IF facing \in {"n", "e"} THEN index ELSE Edge - 1 - index
sliceX  == IF facing \in {"n", "s"} THEN sliceAt ELSE xyz[1] - Edge * heap[chunk].x
sliceZ  == IF facing \in {"n", "s"} THEN xyz[3] - Edge * heap[chunk].z ELSE sliceAt

\* The texture file for a block: by name, by type, or none of the two.
texture(tag) ==
  IF getBlockType(tag) = NoType /\ baseName(tag) \in Textures THEN baseName(tag)
  ELSE IF getBlockType(tag) \in Textures THEN getBlockType(tag)
  ELSE <<"unknown">>

Curve(t) == [item |-> "curve", texture |-> t, at |-> << >>]
Mark     == [item |-> "mark", texture |-> << >>, at |-> <<index, y>>]

\* What is written for a block b: nothing for air.
DrawnItems(b) ==
  LET isAir == b.state >= 0 /\ baseName(b.tags[1]) = <<"air">>
      curve == IF b.state >= 0
               THEN IF ~isAir \/ getBlockType(b.tags[1]) # NoType
                    THEN <<Curve(texture(b.tags[1]))>> ELSE << >>
               ELSE IF b.state = Corrupt THEN <<Curve(<<"barrier">>)>>
               ELSE <<Curve(<<"unknown">>)>>
  IN  curve \o (IF isAir THEN << >> ELSE <<Mark>>)

\* A tag that drawSlice cannot handle: no tag at all (a wild pointer), no inner
\* tag where the code expects one (a null pointer), or a name too short.
Incomplete(tag) == findInnerTag(tag, "name") => getBlockType(tag) = NullRead
WildTag(b)   == b.state >= 0 /\ b.tags = << >>
NullTag(b)   == b.state >= 0 /\ b.tags # << >> /\ Incomplete(b.tags[1])
ShortName(b) == /\ b.state >= 0 /\ b.tags # << >>
                /\ findInnerTag(b.tags[1], "name") /\ Len(blockName(b.tags[1])) = 1

DrawBlock ==
  /\ pc = "draw"
  /\ index < Edge
  /\ y < yMax
  /\ \E b \in chunkGetBlock(heap[chunk], sliceX, y, sliceZ) :
       \/ /\ ~WildTag(b) /\ ~NullTag(b) /\ ~ShortName(b)
          /\ Write(DrawnItems(b))
          /\ y' = y + 1
          /\ UNCHANGED pc
       \/ /\ ShortName(b)   \* substr throws before getBlockType is called
          /\ Goto("aborted")
          /\ UNCHANGED <<files, y>>
       \/ /\ ~ShortName(b) /\ (WildTag(b) \/ NullTag(b))
          /\ Goto("undefined")
          /\ UNCHANGED <<files, y>>
  /\ UNCHANGED <<worldVars, lineNo, line, held, ss, word, xyz, xyzState, optionVars, chunk, index,
                 reply, freed>>

\* i += inc.  (Faulty variant: it is missing.)
NextColumn_Stuck ==
  /\ pc = "draw"
  /\ index < Edge
  /\ y >= yMax
  /\ UNCHANGED vars
NextColumn ==
  /\ pc = "draw"
  /\ index < Edge
  /\ y >= yMax
  /\ index' = index + 1
  /\ y' = yMin
  /\ UNCHANGED <<worldVars, pc, lineNo, line, held, ss, word, xyz, xyzState, optionVars, chunk,
                 files, reply, freed>>

CloseGraph ==
  /\ pc = "draw"
  /\ index = Edge
  /\ Answer(Says("graphed"), "none")
  /\ UNCHANGED <<worldVars, lineNo, line, held, ss, word, xyz, optionVars, drawVars, files, freed>>

-----------------------------------------------------------------------------

\* WorldData::freeMemory: each map frees the chunks it points to.
\* (Faulty variant: the map of the end is forgotten.)
Owners_NoEnd(c) == {at \in UNION {{d} \X DOMAIN world[d] : d \in {"OVERWORLD", "NETHER"}} :
                      world[at[1]][at[2]] = c}
Owners(c) == {at \in UNION {{d} \X DOMAIN world[d] : d \in ChunkDimension} :
                world[at[1]][at[2]] = c}

EndOfInput ==
  /\ pc = "prompt"
  /\ freed' = [c \in DOMAIN heap |-> Cardinality(Owners(c))]
  /\ Goto("exit")
  /\ UNCHANGED <<worldVars, lineNo, line, held, ss, word, xyz, xyzState, optionVars, drawVars,
                 files, reply>>

Done ==
  /\ pc \in Terminal
  /\ UNCHANGED vars

\* The steps of the handlers, and those that wait for the user.
Handle ==
  \/ Help \/ WhatArgument \/ WhatCoords \/ WhatFlag \/ WhatAnswer \/ WhatAfterFree
  \/ GraphArgument \/ GraphCoords \/ GraphFile \/ GraphFlag \/ GraphBounds \/ GraphOpen
  \/ DrawBlock \/ NextColumn \/ CloseGraph

Next == ReadLine \/ Handle \/ EndOfInput \/ Done

Spec == Init /\ [][Next]_vars

\* The handlers run in one thread and wait for nothing; the user may.
FairSpec == Spec /\ WF_vars(Handle)

-----------------------------------------------------------------------------
(* What a line asks for, read off the line as a whole.                       *)

\* The n-th word that "ss >> word" leaves in word: a line that has fewer repeats
\* its last one, and a blank line what was held before it.
Heard(n) == IF line = << >> THEN held ELSE line[IF n <= Len(line) THEN n ELSE Len(line)]

WhatQuery(l) ==
  Len(l) >= 3 /\ l[1] = "what" /\ l[2] = "block" /\ l[3] \in DOMAIN CoordsOf

DimensionFlags(l) == {j \in 4 .. Len(l) : l[j] = "-d"}
GoodDimensions(l) ==
  \A j \in DimensionFlags(l) : j < Len(l) /\ l[j + 1] \in DOMAIN DimensionOf

\* The value of the last of the flags at the positions J.
LastOf(l, J, default) == IF J = {} THEN default ELSE l[Max(J) + 1]

WhatBlocks(l) ==
  LET at == CoordsOf[l[3]]
  IN  worldGetBlock(world, heap, at[1], at[2], at[3],
                    DimensionOf[LastOf(l, DimensionFlags(l), "overworld")])

GraphQuery(l) ==
  Len(l) >= 4 /\ l[1] = "graph" /\ l[2] = "block" /\ l[3] \in DOMAIN CoordsOf

\* Flags and values alternate behind the file name.
Option(l, flag) == {j \in 5 .. Len(l) : (j - 5) % 2 = 0 /\ l[j] = flag}
GoodOptions(l) ==
  /\ Len(l) % 2 = 0
  /\ \A j \in 5 .. Len(l) : (j - 5) % 2 = 0 =>
       \/ l[j] = "-d" /\ l[j + 1] \in DOMAIN DimensionOf
       \/ l[j] = "-f" /\ l[j + 1] \in Facings
       \/ l[j] \in {"-ymin", "-ymax"} /\ l[j + 1] \in DOMAIN IntOf

GraphDim(l)    == DimensionOf[LastOf(l, Option(l, "-d"), "overworld")]
GraphFacing(l) == LastOf(l, Option(l, "-f"), "n")
GraphMin(l) ==
  IF Option(l, "-ymin") = {} THEN Edge * (CoordsOf[l[3]][2] \div Edge)
  ELSE IntOf[LastOf(l, Option(l, "-ymin"), "")]
GraphTop(l) ==
  IF Option(l, "-ymax") = {} THEN Edge * (CoordsOf[l[3]][2] \div Edge) + Edge - 1
  ELSE IntOf[LastOf(l, Option(l, "-ymax"), "")]

GoodBounds(l) == 0 <= GraphMin(l) /\ GraphMin(l) <= GraphTop(l) /\ GraphTop(l) < IntMax

GraphAccepted(l) ==
  /\ GraphQuery(l) /\ GoodOptions(l) /\ GoodBounds(l)
  /\ getBlockChunk(world, CoordsOf[l[3]][1], 0, CoordsOf[l[3]][3], GraphDim(l)) # nullptr

\* The blocks of the world that a viewer sees in column n at height h.
SeenBlocks(l, n, h) ==
  LET at == CoordsOf[l[3]]
      x0 == Edge * ChunkOf(at[1])
      z0 == Edge * ChunkOf(at[3])
      See(x, z) == worldGetBlock(world, heap, x, h, z, GraphDim(l)) \ {WildBlock}
  IN  CASE GraphFacing(l) = "n" -> See(x0 + n, at[3])
        [] GraphFacing(l) = "s" -> See(x0 + Edge - 1 - n, at[3])
        [] GraphFacing(l) = "e" -> See(at[1], z0 + n)
        [] GraphFacing(l) = "w" -> See(at[1], z0 + Edge - 1 - n)

IsAir(b) == b.state >= 0 /\ baseName(b.tags[1]) = <<"air">>
SeenTexture(b) == IF b.state >= 0 THEN texture(b.tags[1])
                  ELSE IF b.state = Corrupt THEN <<"barrier">> ELSE <<"unknown">>

\* The textures to choose from for a position of the graph: none for air, and
\* more than one only where getBlock reads behind its vector.
SeenTextures(l, n, h) == {SeenTexture(b) : b \in {c \in SeenBlocks(l, n, h) : ~IsAir(c)}}

Picture(l) ==
  {at \in Side \X (GraphMin(l) .. GraphTop(l)) : SeenTextures(l, at[1], at[2]) # {}}

-----------------------------------------------------------------------------
(* Properties.                                                               *)

\* Every variable of the command loop keeps its type.
TypeOK ==
  /\ pc \in Phase
  /\ lineNo \in 0 .. MaxLines
  /\ line \in Lines \cup {<< >>}
  /\ held \in STRING
  /\ xyz \in Int \X Int \X Int
  /\ xyzState \in {"none", "owned", "freed"}
  /\ dim \in ChunkDimension
  /\ yMin \in -IntMax - 1 .. IntMax /\ yMax \in -IntMax - 1 .. IntMax
  /\ chunk \in 0 .. Len(heap)
  /\ index \in 0 .. Edge
  /\ pc = "draw" => fileName \in DOMAIN files /\ y \in yMin .. yMax /\ facing \in Facings

\* The array of parseCoords is held exactly while a query is handled: whichever
\* check ends the query, it is released by the next prompt, and all that follows
\* parseCoords in a handler has it.
CoordinatesReleased ==
  /\ pc = "prompt" => xyzState = "none"
  /\ pc \in {"graphFile", "graphFlags", "graphOpen", "draw"} => xyzState = "owned"

\* "what block" answers with the block at the coordinates, in the last dimension
\* given; and no other line, a blank one included, shows a block.
WhatMatchesLine ==
  pc = "prompt" /\ lineNo > 0 =>
    /\ WhatQuery(line) /\ GoodDimensions(line) =>
         \E b \in WhatBlocks(line) :
           reply = IF b.state < 0 THEN Says("block_not_valid")
                   ELSE [kind |-> "block", at |-> CoordsOf[line[3]], tags |-> b.tags]
    /\ ~WhatQuery(line) => reply.kind # "block"

\* A graph is started for exactly the lines that ask for one correctly, with
\* bounds from 0 up that an int can hold, of a chunk of the world.
GraphMatchesLine ==
  pc = "prompt" /\ lineNo > 0 =>
    (reply.kind \in {"graphed", "open_failed"} <=> GraphAccepted(line))

\* Each line that no query comes of has its message, the one of the first thing
\* wrong with the words as the handlers read them; a blank line and a line that
\* ends too early are read on from the word held last.
RefusalsMatchLine ==
  pc = "prompt" /\ lineNo > 0 =>
    /\ Heard(1) \notin {"what", "graph", "help"} => reply = Says("unknown_command")
    /\ Heard(1) = "help" =>
         reply = Says(IF Heard(2) \in {"what", "graph"} THEN "usage" ELSE "unknown_command")
    /\ Heard(1) \in {"what", "graph"} /\ Heard(2) # "block" => reply = Says("invalid_argument")
    /\ Heard(1) \in {"what", "graph"} /\ Heard(2) = "block" /\ Heard(3) \notin DOMAIN CoordsOf =>
         reply = Says("bad_coordinates")
    /\ WhatQuery(line) => GoodDimensions(line)   \* see UndefinedCauses for the others
    /\ Len(line) = 3 /\ Heard(1) = "graph" /\ Heard(2) = "block" /\ Heard(3) \in DOMAIN CoordsOf =>
         reply = Says("bad_file_name")
    /\ GraphQuery(line) /\ ~GoodOptions(line) => reply = Says("bad_option")
    /\ GraphQuery(line) /\ GoodOptions(line) /\ ~GoodBounds(line) => reply = Says("bad_bounds")
    /\ GraphQuery(line) /\ GoodOptions(line) /\ GoodBounds(line) /\ ~GraphAccepted(line) =>
         reply = Says("block_not_valid")

\* The answer to a line is fixed by its words and the state of the files, whichever
\* lines came before (the defaults the handlers set, the flags they read in order);
\* all that an earlier line can change is the word that a blank line repeats.
AnswersMatchLine == WhatMatchesLine /\ GraphMatchesLine /\ RefusalsMatchLine

\* Every texture a graph refers to is a file of blocks-eps.
TexturesExist ==
  \A f \in DOMAIN files : \A n \in DOMAIN files[f].items :
    files[f].items[n].item = "curve" => files[f].items[n].texture \in Textures

\* A finished graph shows each block of the slice within the bounds once, at its
\* column as seen from the given direction and at its height, and nothing else;
\* air is left out, each curve has its mark, and its texture exists.
SliceFaithful ==
  TexturesExist /\ (pc = "prompt" /\ reply.kind = "graphed" =>
    LET items == files[line[4]].items
        Pairs == {n \in 1 .. Len(items) : n % 2 = 1}
    IN  /\ Len(items) = 2 * Cardinality(Picture(line))
        /\ {items[n + 1].at : n \in Pairs} = Picture(line)
        /\ \A n \in Pairs :
             /\ items[n].item = "curve" /\ items[n + 1].item = "mark"
             /\ LET at == items[n + 1].at
                IN  items[n].texture \in SeenTextures(line, at[1], at[2]))

\* The working directory changes only at the name a correct graph line gives:
\* remove and open come after every check of the line.
FilesGuarded ==
  [][/\ GraphAccepted(line)
     /\ \A f \in (DOMAIN files \cup DOMAIN files') \ {line[4]} :
          f \in DOMAIN files /\ f \in DOMAIN files' /\ files'[f] = files[f]]_files

\* The ways into undefined behaviour: a dimension that "what" does not know, the
\* height just above the column, a tag without the inner tag its name calls for.
UndefinedCauses ==
  pc = "undefined" =>
    \/ WhatQuery(line) /\ ~GoodDimensions(line)
    \/ WhatQuery(line) /\ CoordsOf[line[3]][2] = Height
    \/ GraphAccepted(line) /\ y = Height
    \/ /\ GraphAccepted(line)
       /\ \E c \in DOMAIN heap : \E s \in SubChunk : \E e \in DOMAIN heap[c].blockStates[s] :
            Incomplete(heap[c].blockStates[s][e])

\* At the end of the input each chunk is deleted once, and no query on the way kept
\* its coordinates (WorldData::freeMemory, the "delete [] xyz" of the handlers).
ExitFreesAll ==
  /\ pc = "exit" => \A c \in DOMAIN heap : freed[c] = 1
  /\ CoordinatesReleased

\* ChunkViewer.cpp:226 says "Dimension must be overworld, nether, or end.": a
\* dimension that is none of these ends the query.
BadDimensionEndsQuery ==
  pc = "undefined" => ~(WhatQuery(line) /\ ~GoodDimensions(line))

\* Chunk.cpp:25 says that getBlock "Returns a block with state < 0 on failure":
\* coordinates outside the column are answered, not followed.
OutsideIsFailure ==
  pc = "undefined" /\ WhatQuery(line) /\ GoodDimensions(line)
    => CoordsOf[line[3]][2] \in 0 .. Height - 1

\* Each line is answered with a prompt, unless the process ends.
Answered == (pc # "prompt") ~> (pc = "prompt" \/ pc \in Terminal)

==============================================================================
