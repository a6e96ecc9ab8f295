---------------------------- MODULE MCChunkViewer ----------------------------
(***************************************************************************)
(* Worlds, lines and files for TLC.                                        *)
(***************************************************************************)
EXTENDS ChunkViewer, TLC

Named(n) == "name" :> Minecraft(n)
Air      == Named("air")
Dirt     == Named("dirt")
Granite  == Named("stone") @@ ("stone_type" :> "granite")
Leaves   == Named("leaves2") @@ ("new_leaf_type" :> "acacia")
Log      == Named("log") @@ ("new_log_type" :> "acacia")
RedSand  == Named("sand") @@ ("sand_type" :> "red_sand")
Water    == Named("water")
Kelp     == Named("kelp")

MCTextures == {<<"unknown">>, <<"barrier">>, <<"dirt">>, <<"stone_", "granite">>,
               <<"leaves_", "acacia", "_opaque">>, <<"red_sand">>, <<"water_still">>, <<"sand">>}

\* A column whose sub-chunk s holds the tags palettes[s], counted up over the
\* blocks of the sub-chunk; where the palette ends the block is corrupt, and a
\* sub-chunk without a palette was never written.
Column(x, z, palettes) ==
  LET StateAt(c) == LET s == c[2] \div Edge
                        n == (c[1] + Edge * c[3] + c[2]) % (Len(palettes[s]) + 1)
                    IN  IF palettes[s] = << >> THEN Unset
                        ELSE IF n = Len(palettes[s]) THEN Corrupt ELSE n
  IN  [NewChunk(x, z) EXCEPT !.blocks = [c \in Cell |-> StateAt(c)], !.blockStates = palettes]

Load(chunks) ==
  [heap  |-> [n \in DOMAIN chunks |-> chunks[n][2]],
   world |-> FoldFunctionOnSet(LAMBDA n, w : addChunk(w, chunks[n][2], n, chunks[n][1]),
                               EmptyWorld, [n \in DOMAIN chunks |-> n], DOMAIN chunks)]

\* The same column in each dimension, and a column next to it.
Sound ==
  Load(<< <<"OVERWORLD", Column(-1, 0, (0 :> <<Air, Dirt, Granite, Leaves>> @@ 1 :> <<Log, Air>>))>>,
          <<"NETHER", Column(-1, 0, (0 :> << >> @@ 1 :> <<RedSand, Water, Kelp>>))>>,
          <<"ENDWORLD", Column(-1, 0, (0 :> <<Dirt>> @@ 1 :> << >>))>>,
          <<"OVERWORLD", Column(0, 0, (0 :> <<Water>> @@ 1 :> << >>))>> >>)

\* Tags without a name, without the type that goes with the name, with a name
\* that has no prefix.
Odd ==
  Load(<< <<"OVERWORLD", Column(-1, 0, (0 :> <<"version" :> "17">> @@ 1 :> <<Named("stone")>>))>>,
          <<"NETHER", Column(-1, 0, (0 :> <<"name" :> <<"air">> >> @@ 1 :> << >>))>> >>)

MCWorlds == {Sound, Odd}

\* Edge is 2, so this is column -1 in x; the last two lie above the column and
\* at the largest int.
MCCoordsOf ==
  "(-1,1,0)" :> <<-1, 1, 0>> @@ "(-2,2,1)" :> <<-2, 2, 1>> @@ "(6,1,6)" :> <<6, 1, 6>>
    @@ "(-1,-1,0)" :> <<-1, -1, 0>> @@ "(-1,4,0)" :> <<-1, 4, 0>> @@ "(-1,7,0)" :> <<-1, 7, 0>>
MCIntMax == 7
MCIntOf == "-1" :> -1 @@ "0" :> 0 @@ "3" :> 3 @@ "4" :> 4 @@ "7" :> 7

Queries == {<<"block", c>> : c \in DOMAIN MCCoordsOf}
Near    == <<"block", "(-1,1,0)">>
Far     == <<"block", "(-2,2,1)">>

WhatLines ==
  {<<"what">> \o a : a \in {<< >>, <<"sky">>, <<"block">>, <<"block", "here">>} \cup Queries}
    \cup {<<"what">> \o Near \o f : f \in
            {<<"-d", d>> : d \in {"overworld", "nether", "end", "moon"}}
              \cup {<<"-d">>, <<"-d", "-d", "end">>, <<"please">>, <<"-x", "-d", "end", "-d", "nether">>,
                    <<"-d", "moon", "-d", "moon">>, <<"-d", "moon", "-d", "end">>}}

Options == {<< >>, <<"-d">>, <<"-d", "nether">>, <<"-d", "end">>, <<"-d", "moon">>, <<"-f">>,
            <<"-f", "up">>, <<"-ymin">>, <<"-ymin", "3">>, <<"-ymin", "-1">>, <<"-ymax", "low">>,
            <<"-ymax", "0">>, <<"-ymax", "-1">>, <<"-ymax", "3">>, <<"-ymax", "4">>, <<"-ymax", "7">>,
            <<"-q">>, <<"-d", "end", "-f", "e", "-d", "nether">>, <<"-ymin", "0", "-ymax", "3">>}

GraphLines ==
  {<<"graph">> \o a : a \in {<< >>, <<"block">>, <<"block", "here">>, Near}}
    \cup {<<"graph">> \o q \o <<"g.txt">> : q \in Queries}
    \cup {<<"graph">> \o Near \o <<"g.txt">> \o o : o \in Options}
    \cup {<<"graph">> \o Far \o <<"h.txt", "-f", f, "-ymin", "0", "-ymax", "3">> : f \in {"n", "s", "e", "w"}}
    \cup {<<"graph">> \o Near \o <<"out">>}

OtherLines == {<< >>, <<"help">>, <<"help", "what">>, <<"help", "graph">>, <<"help", "me">>, <<"block">>}

MCLines == WhatLines \cup GraphLines \cup OtherLines
MCDirectories == {"out"}

==============================================================================
